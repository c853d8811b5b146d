--------------------------- MODULE SessionManager ---------------------------
(***************************************************************************)
(* persistentSessionManager and the HTTP side of the console sessions:     *)
(* proxy/persistent_session_handler.go.  PersistentSession follows one     *)
(* session in every detail; here several share the map, its lock, the      *)
(* limit and the cleanup, and a session is reduced to whether it has ended *)
(* and whether its backend stream was closed.  m.mu is held from before    *)
(* the second look at the map until the backend is connected; meanwhile    *)
(* the Engine may be asked and another session terminated.  Secrets, kinds *)
(* and tickets are not told apart: whether a request is the session's, and *)
(* whether the session is revoked, can come out either way.                *)
(***************************************************************************)
EXTENDS Naturals, FiniteSets

CONSTANTS
  SessionIds,   \* session identifiers
  Calls,        \* goroutines of HTTP requests
  Nobody,       \* the holder of a lock that is free
  MaxSessions,  \* m.maxSessions
  MaxMade       \* bound: session objects made

ASSUME ManagerAssumption ==
  /\ IsFiniteSet(SessionIds) /\ SessionIds # {} /\ Nobody \notin Calls
  /\ MaxSessions \in Nat \ {0} /\ MaxMade \in Nat

Made == 1..MaxMade   \* session objects; 0 stands for nil

VARIABLES
  holder,       \* who holds m.mu for writing
  sessions,     \* m.sessions: [id -> session object or 0]
  made,         \* number of session objects made
  life,         \* [object -> "none", "connecting", "active" or "ended"; only an active one has a pump]
  shut,         \* objects whose backend stream was closed, by either side
  taken,        \* [object -> what cleanup still has to do: "none", "terminate", "close"]
  where,        \* [call -> position; before it has looked up the session, its method]
  wants,        \* [call -> the session id of its path]
  found         \* [call -> the session object it got from the map]

mapVars  == <<sessions, made>>
lifeVars == <<life, shut>>
callVars == <<where, wants, found>>
managerVars == <<holder, sessions, made, life, shut, taken, where, wants, found>>

AnyId == CHOOSE i \in SessionIds : TRUE

ManagerInit ==
  /\ holder = Nobody /\ sessions = [i \in SessionIds |-> 0] /\ made = 0
  /\ life = [o \in Made |-> "none"]
  /\ shut = {}
  /\ taken = [o \in Made |-> "none"]
  /\ where = [c \in Calls |-> "idle"]
  /\ wants = [c \in Calls |-> AnyId]
  /\ found = [c \in Calls |-> 0]

\* A call goes on with session object o, or returns and forgets what it knew.
GoOn(c, at, o) ==
  /\ where' = [where EXCEPT ![c] = at] /\ found' = [found EXCEPT ![c] = o]
  /\ wants' = IF at \in {"match", "matchToDelete"} THEN [wants EXCEPT ![c] = AnyId] ELSE wants
Return(c) ==
  /\ where' = [where EXCEPT ![c] = "idle"] /\ found' = [found EXCEPT ![c] = 0]
  /\ wants' = [wants EXCEPT ![c] = AnyId]

Listed == {sessions[i] : i \in SessionIds} \ {0}

\* What activeSessionCountLocked counts.
Active == {o \in Listed : life[o] # "ended"}

\* terminate: the stream is closed, which ends the pump; when that fails the
\* session is marked ended at once.
terminate(o) ==
  \/ o \in shut /\ UNCHANGED lifeVars
  \/ /\ o \notin shut
     /\ shut' = shut \cup {o}
     /\ life' \in {life, [life EXCEPT ![o] = "ended"]}

-----------------------------------------------------------------------------
(* Requests *)

Arrive(c) ==
  /\ where[c] = "idle"
  /\ \E method \in {"POST", "GET", "DELETE"}, i \in SessionIds :
       where' = [where EXCEPT ![c] = method] /\ wants' = [wants EXCEPT ![c] = i]
  /\ UNCHANGED <<holder, mapVars, lifeVars, taken, found>>

\* get, which waits for a writer; without a session only a creation goes on.
get(c) ==
  /\ where[c] \in {"POST", "GET", "DELETE"} /\ holder = Nobody
  /\ IF sessions[wants[c]] # 0
     THEN GoOn(c, IF where[c] = "DELETE" THEN "matchToDelete" ELSE "match", sessions[wants[c]])
     ELSE IF where[c] = "POST" THEN GoOn(c, "auth", 0) ELSE Return(c)
  /\ UNCHANGED <<holder, mapVars, lifeVars, taken>>

\* matchesSecretHash: a refusal by the Engine also terminates the session.
matchesSecretHash(o, match) == UNCHANGED lifeVars \/ (~match /\ terminate(o))

\* The session of a GET, a DELETE, or a creation that finds one.
Match(c) ==
  /\ where[c] \in {"match", "matchToDelete"}
  /\ \E match \in BOOLEAN :
       /\ matchesSecretHash(found[c], match)
       /\ IF match /\ where[c] = "matchToDelete" THEN GoOn(c, "terminate", found[c]) ELSE Return(c)
  /\ UNCHANGED <<holder, mapVars, taken>>

terminateSession(c) ==
  /\ where[c] = "terminate"
  /\ terminate(found[c])
  /\ Return(c)
  /\ UNCHANGED <<holder, mapVars, taken>>

\* workspaceTargetURL and auth.
Authorize(c) ==
  /\ where[c] = "auth"
  /\ GoOn(c, "lock", 0) \/ Return(c)
  /\ UNCHANGED <<holder, mapVars, lifeVars, taken>>

Lock(c) ==
  /\ where[c] = "lock" /\ holder = Nobody
  /\ holder' = c
  /\ GoOn(c, "again", 0)
  /\ UNCHANGED <<mapVars, lifeVars, taken>>

Unlock(c) == holder' = Nobody /\ Return(c)

\* Fault: the lock is kept when the session is found to exist.
Existing_KeepsLock(c, o) ==
  (\E match \in BOOLEAN : matchesSecretHash(o, match)) /\ Return(c) /\ UNCHANGED holder

\* The session exists: it is shared or refused, and m.mu is held meanwhile.
Existing(c, o) == (\E match \in BOOLEAN : matchesSecretHash(o, match)) /\ Unlock(c)

\* Fault: one too many.
AtLimit_OffByOne == Cardinality(Active) > MaxSessions

AtLimit == Cardinality(Active) >= MaxSessions

\* createWithAuthorization: the map again, and the limit.
LookAgain(c) ==
  /\ where[c] = "again"
  /\ LET o == sessions[wants[c]] IN
       \/ o # 0 /\ Existing(c, o)
       \/ o = 0 /\ AtLimit /\ Unlock(c) /\ UNCHANGED lifeVars
       \/ o = 0 /\ ~AtLimit /\ GoOn(c, "initialize", 0) /\ UNCHANGED <<holder, lifeVars>>
  /\ UNCHANGED <<mapVars, taken>>

\* initializeForURL, bind and the entry in the map.
Initialize(c) ==
  /\ where[c] = "initialize"
  /\ \/ Unlock(c) /\ UNCHANGED <<mapVars, life>>
     \/ /\ made < MaxMade
        /\ made' = made + 1
        /\ life' = [life EXCEPT ![made'] = "connecting"]
        /\ sessions' = [sessions EXCEPT ![wants[c]] = made']
        /\ GoOn(c, "connect", made') /\ UNCHANGED holder
  /\ UNCHANGED <<shut, taken>>

\* connect: the session is active, also after a revocation marked it ended; or it fails,
\* the entry goes and the stream is released.
Connect(c) ==
  /\ where[c] = "connect"
  /\ \/ life' = [life EXCEPT ![found[c]] = "active"]
        /\ UNCHANGED <<sessions, shut>>
     \/ sessions' = [sessions EXCEPT ![wants[c]] = 0] /\ shut' = shut \cup {found[c]}
        /\ UNCHANGED life
  /\ Unlock(c)
  /\ UNCHANGED <<made, taken>>

-----------------------------------------------------------------------------
(* Sessions *)

\* The agent or its link closes the stream.
BackendEnds(o) ==
  /\ o \in 1..made /\ o \notin shut
  /\ shut' = shut \cup {o}
  /\ UNCHANGED <<holder, mapVars, life, taken, callVars>>

\* The pump reaches the end of its channel: markEnded.
PumpEnds(o) ==
  /\ o \in shut /\ life[o] = "active"
  /\ life' = [life EXCEPT ![o] = "ended"]
  /\ UNCHANGED <<holder, mapVars, shut, taken, callVars>>

\* The watch revokes, or input cannot be sent.
SessionGivesUp(o) ==
  /\ o \in 1..made
  /\ terminate(o)
  /\ UNCHANGED <<holder, mapVars, taken, callVars>>

-----------------------------------------------------------------------------
(* cleanup *)

\* Fault: the deadline of ended sessions is taken for all.
Sweep_AsEnded ==
  /\ holder = Nobody /\ \A o \in Made : taken[o] = "none"
  /\ \E gone \in SUBSET Listed \ {{}} :
       /\ sessions' = [i \in SessionIds |-> IF sessions[i] \in gone THEN 0 ELSE sessions[i]]
       /\ taken' = [o \in Made |-> IF o \in gone THEN "close" ELSE "none"]
  /\ UNCHANGED <<holder, made, lifeVars, callVars>>

\* The expired sessions leave the map in one critical section; what is active is
\* to be terminated.
Sweep ==
  /\ holder = Nobody /\ \A o \in Made : taken[o] = "none"
  /\ \E gone \in SUBSET Listed \ {{}} :
       /\ sessions' = [i \in SessionIds |-> IF sessions[i] \in gone THEN 0 ELSE sessions[i]]
       /\ taken' = [o \in Made |-> IF o \notin gone THEN "none"
                                   ELSE IF life[o] = "ended" THEN "close" ELSE "terminate"]
  /\ UNCHANGED <<holder, made, lifeVars, callVars>>

\* Then each is terminated if active, and its clients are closed.
Dispose(o) ==
  /\ taken[o] # "none"
  /\ IF taken[o] = "terminate" THEN terminate(o) ELSE UNCHANGED <<life, shut>>
  /\ taken' = [taken EXCEPT ![o] = "none"]
  /\ UNCHANGED <<holder, mapVars, callVars>>

CallStep(c) ==
  \/ Match(c) \/ terminateSession(c) \/ Authorize(c) \/ LookAgain(c) \/ Initialize(c) \/ Connect(c)

ManagerNext ==
  \/ \E c \in Calls : Arrive(c) \/ get(c) \/ Lock(c) \/ CallStep(c)
  \/ Sweep
  \/ \E o \in Made : BackendEnds(o) \/ PumpEnds(o) \/ SessionGivesUp(o) \/ Dispose(o)

ManagerSpec == ManagerInit /\ [][ManagerNext]_managerVars

-----------------------------------------------------------------------------
(* Fairness: goroutines run; the calls of the Engine have timeouts and those   *)
(* of the backend return (CallsReturn of Multiplexer); sync.RWMutex lets every *)
(* waiter in at last.                                                          *)

ManagerFairness ==
  \A c \in Calls : WF_managerVars(CallStep(c)) /\ SF_managerVars(get(c) \/ Lock(c))

-----------------------------------------------------------------------------
\* However creations overlap with endings, revocations and cleanup, no more than
\* maxSessions of the sessions in the map have not ended.
ActiveWithinLimit == Cardinality(Active) <= MaxSessions

\* README.md:32, "Replay, client count, active retention, ended-session retention,
\* and total sessions are bounded": the map holds no more than maxSessions
\* sessions.
TotalSessionsBounded == Cardinality(Listed) <= MaxSessions

\* No backend stream is lost: a session whose stream nobody has closed can be
\* found in the map, or cleanup is about to terminate it.
NoOrphanStream ==
  \A o \in 1..made : o \in shut \/ o \in Listed \/ taken[o] = "terminate"

\* Every request on the sessions returns, although one of them holds the lock of
\* all while it asks the Engine and the backend.
RequestsReturn == \A c \in Calls : where[c] # "idle" ~> where[c] = "idle"
=============================================================================
