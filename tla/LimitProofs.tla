---------------------------- MODULE LimitProofs -----------------------------
(***************************************************************************)
(* The limit on active sessions and the ownership of backend streams, for  *)
(* any identifiers, requests, limit and number of sessions ever made; and  *)
(* the bound of the token cache, which lets live entries go last.          *)
(***************************************************************************)
EXTENDS SessionManager, TokenCache, FiniteSetTheorems, TLAPS

Positions == {"idle", "POST", "GET", "DELETE", "match", "matchToDelete", "terminate", "auth",
              "lock", "again", "initialize", "connect"}
Locked == {"again", "initialize", "connect"}

CallsTyped ==
  /\ where \in [Calls -> Positions]
  /\ wants \in [Calls -> SessionIds]
  /\ found \in [Calls -> 0..MaxMade]

MapTyped ==
  /\ sessions \in [SessionIds -> 0..MaxMade]
  /\ made \in 0..MaxMade
  /\ life \in [Made -> {"none", "connecting", "active", "ended"}]
  /\ taken \in [Made -> {"none", "terminate", "close"}]

\* One creation at a time is past the lock.
HeldByOne == \A c \in Calls : where[c] \in Locked => holder = c

\* What the creation that holds the lock has found out stays true: there is
\* room for one more, its identifier is free, and then its own session is
\* counted, also when a revocation has ended it meanwhile.
RoomKept ==
  /\ \A c \in Calls : where[c] = "initialize" =>
       Cardinality(Active) < MaxSessions /\ sessions[wants[c]] = 0
  /\ \A c \in Calls : where[c] = "connect" => Cardinality(Active \cup {found[c]}) <= MaxSessions

\* The entry that a connecting creation may have to take back is its own.
OwnEntry == \A c \in Calls : where[c] = "connect" => sessions[wants[c]] = found[c]

\* Only a session whose stream is closed has ended.
EndedIsShut == \A o \in Made : life[o] = "ended" => o \in shut

ManagerInv ==
  /\ CallsTyped /\ MapTyped /\ HeldByOne
  /\ RoomKept /\ OwnEntry /\ ActiveWithinLimit
  /\ EndedIsShut /\ NoOrphanStream

\* The sessions that count can be counted.
LEMMA ActiveFinite ==
  ASSUME MapTyped PROVE IsFiniteSet(Active) /\ Cardinality(Active) \in Nat
<1>1. Active \subseteq 0..MaxMade
  BY DEF MapTyped, Active, Listed
<1>2. IsFiniteSet(0..MaxMade)
  BY FS_Interval, ManagerAssumption
<1>3. QED
  BY ZenonT(30), <1>1, <1>2, FS_Subset, FS_CardinalityType

\* A set between two finite ones in size.
LEMMA NotMore ==
  ASSUME NEW S, NEW T, IsFiniteSet(T), S \subseteq T
  PROVE  /\ IsFiniteSet(S) /\ Cardinality(S) \in Nat /\ Cardinality(T) \in Nat
         /\ Cardinality(S) <= Cardinality(T)
BY Zenon, FS_Subset, FS_CardinalityType

-----------------------------------------------------------------------------
(* The calls' own variables *)

\* A call that goes on keeps the types.
LEMMA GoOnTyped ==
  ASSUME CallsTyped, NEW c \in Calls, NEW at \in Positions, NEW o \in 0..MaxMade, GoOn(c, at, o)
  PROVE  /\ CallsTyped' /\ where'[c] = at /\ found'[c] = o
         /\ at \notin {"match", "matchToDelete"} => wants' = wants
         /\ \A d \in Calls \ {c} : where'[d] = where[d] /\ found'[d] = found[d] /\ wants'[d] = wants[d]
<1>1. AnyId \in SessionIds
  BY Zenon, ManagerAssumption DEF AnyId
<1>2. QED
  BY Zenon, <1>1 DEF CallsTyped, GoOn

\* And one that returns.
LEMMA ReturnTyped ==
  ASSUME CallsTyped, NEW c \in Calls, Return(c)
  PROVE  /\ CallsTyped' /\ where'[c] = "idle"
         /\ \A d \in Calls \ {c} : where'[d] = where[d] /\ found'[d] = found[d] /\ wants'[d] = wants[d]
<1>1. AnyId \in SessionIds
  BY Zenon, ManagerAssumption DEF AnyId
<1>2. 0 \in 0..MaxMade
  BY ManagerAssumption
<1>3. QED
  BY Zenon, <1>1, <1>2 DEF CallsTyped, Return, Positions

\* The calls that stay where they are.
Stays(d) == where'[d] = where[d] /\ found'[d] = found[d] /\ wants'[d] = wants[d]

\* A step that leaves the map alone, counts nobody anew and takes no call past
\* the limit keeps the room.
LEMMA RoomStays ==
  ASSUME ManagerInv, MapTyped', UNCHANGED sessions, Active' \subseteq Active,
         \A d \in Calls : where'[d] \in {"initialize", "connect"} => Stays(d)
  PROVE  RoomKept' /\ OwnEntry' /\ ActiveWithinLimit'
<1>1. /\ IsFiniteSet(Active) /\ Cardinality(Active) \in Nat /\ Cardinality(Active') \in Nat
      /\ Cardinality(Active') <= Cardinality(Active)
  BY Zenon, ActiveFinite, NotMore DEF ManagerInv
<1>2. ActiveWithinLimit'
  BY <1>1, ManagerAssumption DEF ManagerInv, ActiveWithinLimit
<1>3. ASSUME NEW d \in Calls, where'[d] = "initialize"
      PROVE  Cardinality(Active') < MaxSessions /\ sessions'[wants'[d]] = 0
  BY <1>1, <1>3, ManagerAssumption DEF ManagerInv, RoomKept, Stays
<1>4. ASSUME NEW d \in Calls, where'[d] = "connect"
      PROVE  Cardinality(Active' \cup {found'[d]}) <= MaxSessions
  <2>1. found'[d] = found[d] /\ Cardinality(Active \cup {found[d]}) <= MaxSessions
    BY Zenon, <1>4 DEF ManagerInv, RoomKept, Stays
  <2>2. IsFiniteSet(Active \cup {found[d]}) /\ Active' \cup {found[d]} \subseteq Active \cup {found[d]}
    BY Zenon, <1>1, FS_AddElement
  <2>3. /\ Cardinality(Active' \cup {found[d]}) \in Nat /\ Cardinality(Active \cup {found[d]}) \in Nat
        /\ Cardinality(Active' \cup {found[d]}) <= Cardinality(Active \cup {found[d]})
    BY Zenon, <2>2, NotMore
  <2>4. QED
    BY <2>1, <2>3, ManagerAssumption
<1>5. OwnEntry'
  BY Zenon DEF ManagerInv, OwnEntry, Stays
<1>6. QED
  BY Zenon, <1>2, <1>3, <1>4, <1>5 DEF RoomKept

-----------------------------------------------------------------------------
(* Sessions *)

\* terminate closes the stream and at most ends the session.
LEMMA TerminateKeeps ==
  ASSUME MapTyped, EndedIsShut, NEW o, terminate(o), UNCHANGED <<sessions, made, taken>>
  PROVE  /\ MapTyped' /\ EndedIsShut' /\ Active' \subseteq Active
         /\ shut \subseteq shut' /\ o \in shut'
<1>1. shut \subseteq shut' /\ o \in shut' /\ life' \in {life, [life EXCEPT ![o] = "ended"]}
  BY Zenon DEF terminate, lifeVars
<1>2. MapTyped' /\ EndedIsShut'
  BY Zenon, <1>1 DEF MapTyped, EndedIsShut
<1>3. Active' \subseteq Active
  <2>1. Listed' = Listed
    BY Zenon DEF Listed
  <2>2. \A q \in Listed : q \in Made
    BY ManagerAssumption DEF Listed, MapTyped, Made
  <2>3. \A q \in Made : life'[q] # "ended" => life[q] # "ended"
    BY Zenon, <1>1 DEF MapTyped
  <2>4. QED
    BY Zenon, <2>1, <2>2, <2>3 DEF Active
<1>4. QED
  BY Zenon, <1>1, <1>2, <1>3

\* matchesSecretHash either does nothing or terminates.
LEMMA MatchesKeeps ==
  ASSUME MapTyped, EndedIsShut, NEW o, NEW match, matchesSecretHash(o, match),
         UNCHANGED <<sessions, made, taken>>
  PROVE  /\ MapTyped' /\ EndedIsShut' /\ Active' \subseteq Active /\ shut \subseteq shut'
<1>1. CASE terminate(o)
  BY Zenon, <1>1, TerminateKeeps
<1>2. CASE UNCHANGED lifeVars
  BY Zenon, <1>2 DEF lifeVars, MapTyped, EndedIsShut, Active, Listed
<1>3. QED
  BY Zenon, <1>1, <1>2 DEF matchesSecretHash

\* Nobody loses the owner of its stream while the map and cleanup stay.
LEMMA OwnersStay ==
  ASSUME NoOrphanStream, UNCHANGED <<sessions, made, taken>>, shut \subseteq shut'
  PROVE  NoOrphanStream'
BY Zenon DEF NoOrphanStream, Listed

-----------------------------------------------------------------------------
(* Steps of the requests *)

\* The map is empty at first.
LEMMA ManagerInitial == ManagerInit => ManagerInv
<1> SUFFICES ASSUME ManagerInit PROVE ManagerInv
  BY Zenon
<1>1. AnyId \in SessionIds /\ MaxMade \in Nat /\ MaxSessions \in Nat \ {0}
  BY Zenon, ManagerAssumption DEF AnyId
<1>2. CallsTyped /\ MapTyped
  BY <1>1 DEF ManagerInit, CallsTyped, MapTyped, Positions
<1>3. HeldByOne /\ EndedIsShut
  BY Zenon DEF ManagerInit, HeldByOne, EndedIsShut, Locked
<1>4. Active = {}
  BY Zenon DEF ManagerInit, Active, Listed
<1>5. RoomKept /\ OwnEntry /\ ActiveWithinLimit
  BY <1>1, <1>4, FS_EmptySet DEF ManagerInit, RoomKept, OwnEntry, ActiveWithinLimit
<1>6. NoOrphanStream
  BY DEF ManagerInit, NoOrphanStream
<1>7. QED
  BY Zenon, <1>2, <1>3, <1>5, <1>6 DEF ManagerInv

\* A call that is not past the lock, neither before nor after the step, and whose
\* step leaves the map, the sessions and the lock alone.
LEMMA OutsideKeeps ==
  ASSUME ManagerInv, NEW c \in Calls, CallsTyped', where'[c] \notin Locked,
         \A d \in Calls \ {c} : Stays(d),
         UNCHANGED <<sessions, made, taken>>,
         MapTyped', EndedIsShut', Active' \subseteq Active, shut \subseteq shut',
         (where[c] \notin Locked /\ holder' = holder) \/ (where[c] \in Locked /\ holder' = Nobody)
  PROVE  ManagerInv'
<1>1. HeldByOne'
  <2> SUFFICES ASSUME NEW d \in Calls, where'[d] \in Locked PROVE holder' = d
    BY Zenon DEF HeldByOne
  <2>1. d # c /\ where[d] \in Locked /\ holder = d
    BY Zenon DEF Stays, ManagerInv, HeldByOne
  <2>2. where[c] \notin Locked
    BY Zenon, <2>1 DEF ManagerInv, HeldByOne
  <2>3. QED
    BY Zenon, <2>1, <2>2
<1>2. \A d \in Calls : where'[d] \in {"initialize", "connect"} => Stays(d)
  BY Zenon DEF Locked
<1>3. RoomKept' /\ OwnEntry' /\ ActiveWithinLimit'
  BY Zenon, <1>2, RoomStays
<1>4. NoOrphanStream'
  BY Zenon, OwnersStay DEF ManagerInv
<1>5. QED
  BY Zenon, <1>1, <1>3, <1>4 DEF ManagerInv

\* Arrivals, lookups, matches, DELETEs, authorizations and the steps that release
\* the lock with nothing made.
LEMMA RequestKeeps ==
  ASSUME ManagerInv, NEW c \in Calls,
         Arrive(c) \/ get(c) \/ Match(c) \/ terminateSession(c) \/ Authorize(c)
  PROVE  ManagerInv'
<1>0. /\ where[c] \notin Locked /\ where[c] \in Positions /\ found[c] \in 0..MaxMade
      /\ wants[c] \in SessionIds /\ 0 \in 0..MaxMade /\ sessions[wants[c]] \in 0..MaxMade
  BY ManagerAssumption DEF Locked, Arrive, get, Match, terminateSession, Authorize, ManagerInv,
     CallsTyped, MapTyped
<1>1. UNCHANGED holder /\ UNCHANGED <<sessions, made, taken>>
  BY Zenon DEF Arrive, get, Match, terminateSession, Authorize, mapVars
<1>2. MapTyped' /\ EndedIsShut' /\ Active' \subseteq Active /\ shut \subseteq shut'
  <2>1. CASE Match(c)
    BY Zenon, <1>1, <2>1, MatchesKeeps DEF Match, ManagerInv
  <2>2. CASE terminateSession(c)
    BY Zenon, <1>1, <2>2, TerminateKeeps DEF terminateSession, ManagerInv
  <2>3. CASE Arrive(c) \/ get(c) \/ Authorize(c)
    <3>1. UNCHANGED <<life, shut>>
      BY Zenon, <2>3 DEF Arrive, get, Authorize, lifeVars
    <3>2. QED
      BY Zenon, <1>1, <3>1 DEF ManagerInv, MapTyped, EndedIsShut, Active, Listed
  <2>4. QED
    BY Zenon, <2>1, <2>2, <2>3
<1>3. CallsTyped' /\ where'[c] \notin Locked /\ \A d \in Calls \ {c} : Stays(d)
  <2>1. CASE Arrive(c)
    BY <2>1 DEF Arrive, ManagerInv, CallsTyped, Locked, Positions, Stays
  <2>2. CASE \E at \in {"match", "matchToDelete", "terminate", "auth", "lock"}, o \in 0..MaxMade : GoOn(c, at, o)
    BY <2>2, GoOnTyped DEF ManagerInv, Positions, Locked, Stays
  <2>3. CASE Return(c)
    BY Zenon, <2>3, ReturnTyped DEF ManagerInv, Locked, Stays
  <2>4. QED
    BY Zenon, <1>0, <2>1, <2>2, <2>3 DEF get, Match, terminateSession, Authorize
<1>4. where[c] \notin Locked /\ UNCHANGED holder
  BY Zenon, <1>0, <1>1
<1>5. QED
  BY Zenon, <1>1, <1>2, <1>3, <1>4, OutsideKeeps

\* The lock is taken only when nobody has it.
LEMMA LockKeeps ==
  ASSUME ManagerInv, NEW c \in Calls, Lock(c)
  PROVE  ManagerInv'
<1>0. /\ UNCHANGED <<sessions, made, life, shut, taken>> /\ holder = Nobody /\ holder' = c
      /\ GoOn(c, "again", 0)
  BY Zenon DEF Lock, mapVars, lifeVars
<1>1. \A d \in Calls : where[d] \notin Locked
  BY Zenon, <1>0, ManagerAssumption DEF ManagerInv, HeldByOne
<1>2. CallsTyped' /\ where'[c] = "again" /\ \A d \in Calls \ {c} : Stays(d)
  <2>1. 0 \in 0..MaxMade
    BY ManagerAssumption
  <2>2. QED
    BY Zenon, <1>0, <2>1, GoOnTyped DEF ManagerInv, Positions, Stays
<1>3. HeldByOne' /\ \A d \in Calls : where'[d] \notin {"initialize", "connect"}
  BY Zenon, <1>0, <1>1, <1>2 DEF HeldByOne, Stays, Locked
<1>4. MapTyped' /\ EndedIsShut' /\ Active' \subseteq Active
  BY Zenon, <1>0 DEF ManagerInv, MapTyped, EndedIsShut, Active, Listed
<1>5. RoomKept' /\ OwnEntry' /\ ActiveWithinLimit'
  BY Zenon, <1>0, <1>3, <1>4, RoomStays
<1>6. NoOrphanStream'
  BY Zenon, <1>0, OwnersStay DEF ManagerInv
<1>7. QED
  BY Zenon, <1>2, <1>3, <1>4, <1>5, <1>6 DEF ManagerInv

\* createWithAuthorization decides under the lock.
LEMMA LookAgainKeeps ==
  ASSUME ManagerInv, NEW c \in Calls, LookAgain(c)
  PROVE  ManagerInv'
<1>0. /\ where[c] \in Locked /\ where[c] = "again" /\ UNCHANGED <<sessions, made, taken>>
  BY Zenon DEF LookAgain, Locked, mapVars
<1>1. CASE Existing(c, sessions[wants[c]]) \/ (Unlock(c) /\ UNCHANGED lifeVars)
  <2>1. MapTyped' /\ EndedIsShut' /\ Active' \subseteq Active /\ shut \subseteq shut'
    <3>1. CASE Existing(c, sessions[wants[c]])
      BY Zenon, <1>0, <3>1, MatchesKeeps DEF Existing, ManagerInv
    <3>2. CASE UNCHANGED lifeVars
      BY Zenon, <1>0, <3>2 DEF lifeVars, ManagerInv, MapTyped, EndedIsShut, Active, Listed
    <3>3. QED
      BY Zenon, <1>1, <3>1, <3>2
  <2>2. holder' = Nobody /\ Return(c)
    BY Zenon, <1>1 DEF Existing, Unlock
  <2>3. CallsTyped' /\ where'[c] \notin Locked /\ \A d \in Calls \ {c} : Stays(d)
    BY Zenon, <2>2, ReturnTyped DEF ManagerInv, Locked, Stays
  <2>4. QED
    BY Zenon, <1>0, <2>1, <2>2, <2>3, OutsideKeeps
<1>2. CASE sessions[wants[c]] = 0 /\ ~AtLimit /\ GoOn(c, "initialize", 0) /\ UNCHANGED <<holder, lifeVars>>
  <2>0. UNCHANGED <<sessions, made, taken, life, shut, holder>>
    BY Zenon, <1>0, <1>2 DEF lifeVars
  <2>1. /\ CallsTyped' /\ where'[c] = "initialize" /\ wants' = wants
        /\ \A d \in Calls \ {c} : Stays(d)
    <3>1. 0 \in 0..MaxMade
      BY ManagerAssumption
    <3>2. QED
      BY Zenon, <1>2, <3>1, GoOnTyped DEF ManagerInv, Positions, Stays
  <2>2. \A d \in Calls \ {c} : where'[d] \notin Locked
    BY Zenon, <1>0, <2>1 DEF Stays, ManagerInv, HeldByOne
  <2>3. HeldByOne'
    BY Zenon, <1>0, <2>0, <2>2 DEF HeldByOne, ManagerInv
  <2>4. MapTyped' /\ EndedIsShut' /\ Active' = Active
    BY Zenon, <2>0 DEF ManagerInv, MapTyped, EndedIsShut, Active, Listed
  <2>5. Cardinality(Active) \in Nat /\ Cardinality(Active) < MaxSessions
    BY <1>2, ActiveFinite, ManagerAssumption DEF ManagerInv, AtLimit
  <2>6. RoomKept' /\ OwnEntry' /\ ActiveWithinLimit'
    BY <1>2, <2>0, <2>1, <2>2, <2>4, <2>5, ManagerAssumption
       DEF RoomKept, OwnEntry, ActiveWithinLimit, Locked
  <2>7. NoOrphanStream'
    BY Zenon, <2>0, OwnersStay DEF ManagerInv
  <2>8. QED
    BY Zenon, <2>1, <2>3, <2>4, <2>6, <2>7 DEF ManagerInv
<1>3. QED
  BY Zenon, <1>1, <1>2 DEF LookAgain

\* The new session takes the room that was found.
LEMMA InitializeKeeps ==
  ASSUME ManagerInv, NEW c \in Calls, Initialize(c)
  PROVE  ManagerInv'
<1>0. where[c] = "initialize" /\ where[c] \in Locked /\ UNCHANGED <<shut, taken>>
  BY Zenon DEF Initialize, Locked
<1>1. CASE Unlock(c) /\ UNCHANGED <<mapVars, life>>
  <2>1. UNCHANGED <<sessions, made, life, shut, taken>> /\ holder' = Nobody
    BY Zenon, <1>0, <1>1 DEF mapVars, Unlock
  <2>2. MapTyped' /\ EndedIsShut' /\ Active' \subseteq Active
    BY Zenon, <2>1 DEF ManagerInv, MapTyped, EndedIsShut, Active, Listed
  <2>3. CallsTyped' /\ where'[c] \notin Locked /\ \A d \in Calls \ {c} : Stays(d)
    BY Zenon, <1>1, ReturnTyped DEF Unlock, ManagerInv, Locked, Stays
  <2>4. QED
    BY Zenon, <1>0, <2>1, <2>2, <2>3, OutsideKeeps
<1>2. CASE /\ made < MaxMade
           /\ made' = made + 1
           /\ life' = [life EXCEPT ![made'] = "connecting"]
           /\ sessions' = [sessions EXCEPT ![wants[c]] = made']
           /\ GoOn(c, "connect", made') /\ UNCHANGED holder
  <2>0. made' \in Made /\ made' \in 0..MaxMade /\ wants[c] \in SessionIds /\ sessions[wants[c]] = 0
    BY <1>0, <1>2, ManagerAssumption DEF ManagerInv, MapTyped, CallsTyped, RoomKept, Made
  <2>1. MapTyped'
    BY Zenon, <1>0, <1>2, <2>0 DEF ManagerInv, MapTyped
  <2>2. /\ CallsTyped' /\ where'[c] = "connect" /\ found'[c] = made'
        /\ \A d \in Calls \ {c} : Stays(d)
    BY Zenon, <1>2, <2>0, GoOnTyped DEF ManagerInv, Positions, Stays
  <2>3. \A d \in Calls \ {c} : where'[d] \notin Locked
    BY Zenon, <1>0, <2>2 DEF Stays, ManagerInv, HeldByOne
  <2>4. HeldByOne'
    BY Zenon, <1>0, <1>2, <2>3 DEF HeldByOne, ManagerInv
  <2>5. EndedIsShut'
    BY Zenon, <1>0, <1>2 DEF ManagerInv, MapTyped, EndedIsShut
  <2>6. Listed' = Listed \cup {made'}
    <3>1. made' # 0
      BY <2>0, ManagerAssumption DEF Made
    <3>2. \A i \in SessionIds : sessions'[i] = IF i = wants[c] THEN made' ELSE sessions[i]
      BY Zenon, <1>2 DEF ManagerInv, MapTyped
    <3>3. QED
      BY <2>0, <3>1, <3>2 DEF Listed
  <2>7. Active' \cup {made'} \subseteq Active \cup {made'}
    <3>1. \A q \in Listed : q \in Made
      BY ManagerAssumption DEF Listed, ManagerInv, MapTyped, Made
    <3>2. \A q \in Made \ {made'} : life'[q] = life[q]
      BY Zenon, <1>2 DEF ManagerInv, MapTyped
    <3>3. QED
      BY Zenon, <2>6, <3>1, <3>2 DEF Active
  <2>8. /\ IsFiniteSet(Active \cup {made'}) /\ Cardinality(Active \cup {made'}) \in Nat
        /\ Cardinality(Active \cup {made'}) <= MaxSessions
    <3>1. /\ Cardinality(Active) < MaxSessions /\ IsFiniteSet(Active) /\ Cardinality(Active) \in Nat
      BY Zenon, <1>0, ActiveFinite DEF ManagerInv, RoomKept
    <3>2. /\ IsFiniteSet(Active \cup {made'})
          /\ Cardinality(Active \cup {made'}) \in {Cardinality(Active), Cardinality(Active) + 1}
      BY Zenon, <3>1, FS_AddElement
    <3>3. QED
      BY <3>1, <3>2, ManagerAssumption
  <2>9. Cardinality(Active' \cup {made'}) <= MaxSessions /\ Cardinality(Active') <= MaxSessions
    <3>1. /\ Cardinality(Active' \cup {made'}) \in Nat
          /\ Cardinality(Active' \cup {made'}) <= Cardinality(Active \cup {made'})
      BY Zenon, <2>7, <2>8, NotMore
    <3>2. Active' \subseteq Active \cup {made'}
      BY Zenon, <2>7
    <3>3. Cardinality(Active') \in Nat /\ Cardinality(Active') <= Cardinality(Active \cup {made'})
      BY Zenon, <2>8, <3>2, NotMore
    <3>4. QED
      BY <2>8, <3>1, <3>3, ManagerAssumption
  <2>10. RoomKept' /\ ActiveWithinLimit'
    BY Zenon, <2>2, <2>3, <2>9 DEF RoomKept, ActiveWithinLimit, Locked
  <2>10a. OwnEntry'
    <3>1. wants' = wants
      BY Zenon, <1>2, <2>0, GoOnTyped DEF ManagerInv, Positions
    <3>2. sessions'[wants[c]] = made'
      BY Zenon, <1>2, <2>0 DEF ManagerInv, MapTyped
    <3>3. QED
      BY Zenon, <2>2, <2>3, <3>1, <3>2 DEF OwnEntry, Locked
  <2>11. NoOrphanStream'
    <3>1. \A q \in 1..made' : q = made' \/ q \in 1..made
      BY <1>2, ManagerAssumption DEF ManagerInv, MapTyped
    <3>2. QED
      BY Zenon, <1>0, <2>6, <3>1 DEF ManagerInv, NoOrphanStream
  <2>12. QED
    BY Zenon, <2>1, <2>2, <2>4, <2>5, <2>10, <2>10a, <2>11 DEF ManagerInv
<1>3. QED
  BY Zenon, <1>1, <1>2 DEF Initialize

\* A session that a revocation ended while it connected is counted again, within
\* the limit; a failed connection gives its stream back.
LEMMA ConnectKeeps ==
  ASSUME ManagerInv, NEW c \in Calls, Connect(c)
  PROVE  ManagerInv'
<1>0. /\ where[c] = "connect" /\ where[c] \in Locked /\ UNCHANGED <<made, taken>>
      /\ holder' = Nobody /\ Return(c) /\ found[c] \in 0..MaxMade
  BY Zenon DEF Connect, Locked, Unlock, ManagerInv, CallsTyped
<1>1. /\ CallsTyped' /\ where'[c] \notin Locked /\ \A d \in Calls \ {c} : Stays(d)
  BY Zenon, <1>0, ReturnTyped DEF ManagerInv, Locked, Stays
<1>2. \A d \in Calls : where'[d] \notin Locked
  BY Zenon, <1>0, <1>1 DEF Stays, ManagerInv, HeldByOne
<1>3. HeldByOne' /\ \A d \in Calls : where'[d] \notin {"initialize", "connect"}
  BY Zenon, <1>2 DEF HeldByOne, Locked
<1>4. CASE life' = [life EXCEPT ![found[c]] = "active"] /\ UNCHANGED <<sessions, shut>>
  <2>1. MapTyped' /\ EndedIsShut'
    BY ZenonT(30), <1>0, <1>4 DEF ManagerInv, MapTyped, EndedIsShut
  <2>2. Active' \subseteq Active \cup {found[c]}
    <3>1. \A q \in Listed : q \in Made
      BY ManagerAssumption DEF Listed, ManagerInv, MapTyped, Made
    <3>2. \A q \in Made : q # found[c] => life'[q] = life[q]
      BY Zenon, <1>4 DEF ManagerInv, MapTyped
    <3>3. Listed' = Listed
      BY Zenon, <1>4 DEF Listed
    <3>4. QED
      BY Zenon, <3>1, <3>2, <3>3 DEF Active
  <2>3. IsFiniteSet(Active \cup {found[c]}) /\ Cardinality(Active \cup {found[c]}) <= MaxSessions
    BY ZenonT(30), <1>0, ActiveFinite, FS_AddElement DEF ManagerInv, RoomKept
  <2>4. ActiveWithinLimit'
    <3>1. /\ Cardinality(Active') \in Nat /\ Cardinality(Active \cup {found[c]}) \in Nat
          /\ Cardinality(Active') <= Cardinality(Active \cup {found[c]})
      BY Zenon, <2>2, <2>3, NotMore
    <3>2. QED
      BY <2>3, <3>1, ManagerAssumption DEF ActiveWithinLimit
  <2>5. RoomKept' /\ OwnEntry'
    BY Zenon, <1>3 DEF RoomKept, OwnEntry
  <2>6. NoOrphanStream'
    BY Zenon, <1>0, <1>4, OwnersStay DEF ManagerInv
  <2>7. QED
    BY Zenon, <1>1, <1>3, <2>1, <2>4, <2>5, <2>6 DEF ManagerInv
<1>5. CASE /\ sessions' = [sessions EXCEPT ![wants[c]] = 0] /\ shut' = shut \cup {found[c]}
           /\ UNCHANGED life /\ sessions[wants[c]] = found[c]
  <2>1. MapTyped' /\ EndedIsShut'
    <3>0. 0 \in 0..MaxMade
      BY ManagerAssumption
    <3>1. sessions' \in [SessionIds -> 0..MaxMade]
      BY ZenonT(30), <1>5, <3>0 DEF ManagerInv, MapTyped
    <3>2. QED
      BY Zenon, <1>0, <1>5, <3>1 DEF ManagerInv, MapTyped, EndedIsShut
  <2>2. Listed' \subseteq Listed /\ \A q \in Listed : q \in Listed' \/ q = found[c]
    <3>1. \A i \in SessionIds : sessions'[i] = IF i = wants[c] THEN 0 ELSE sessions[i]
      BY Zenon, <1>5 DEF ManagerInv, MapTyped
    <3>2. QED
      BY <1>5, <3>1 DEF Listed
  <2>3. Active' \subseteq Active
    BY Zenon, <1>5, <2>2 DEF Active
  <2>4. ActiveWithinLimit'
    <3>1. /\ Cardinality(Active') \in Nat /\ Cardinality(Active) \in Nat
          /\ Cardinality(Active') <= Cardinality(Active)
      BY Zenon, <2>3, ActiveFinite, NotMore DEF ManagerInv
    <3>2. QED
      BY <3>1, ManagerAssumption DEF ManagerInv, ActiveWithinLimit
  <2>5. RoomKept' /\ OwnEntry'
    BY Zenon, <1>3 DEF RoomKept, OwnEntry
  <2>6. NoOrphanStream'
    BY Zenon, <1>0, <1>5, <2>2 DEF ManagerInv, NoOrphanStream
  <2>7. QED
    BY Zenon, <1>1, <1>3, <2>1, <2>4, <2>5, <2>6 DEF ManagerInv
<1>6. QED
  BY Zenon, <1>0, <1>4, <1>5 DEF Connect, ManagerInv, OwnEntry

-----------------------------------------------------------------------------
(* Steps of the sessions and of cleanup *)

\* No call moves and the map stays.
LEMMA BesidesKeeps ==
  ASSUME ManagerInv, UNCHANGED <<holder, sessions, made>>, UNCHANGED <<where, wants, found>>,
         MapTyped', EndedIsShut', Active' \subseteq Active, NoOrphanStream'
  PROVE  ManagerInv'
<1>1. CallsTyped' /\ HeldByOne'
  BY Zenon DEF ManagerInv, CallsTyped, HeldByOne
<1>2. \A d \in Calls : Stays(d)
  BY Zenon DEF Stays
<1>3. RoomKept' /\ OwnEntry' /\ ActiveWithinLimit'
  BY Zenon, <1>2, RoomStays
<1>4. QED
  BY Zenon, <1>1, <1>3 DEF ManagerInv

\* Sessions that end by themselves only make room.
LEMMA SessionKeeps ==
  ASSUME ManagerInv, NEW o \in Made, BackendEnds(o) \/ PumpEnds(o) \/ SessionGivesUp(o)
  PROVE  ManagerInv'
<1>1. /\ UNCHANGED <<holder, sessions, made>> /\ UNCHANGED <<where, wants, found>>
      /\ UNCHANGED <<sessions, made, taken>>
  BY Zenon DEF BackendEnds, PumpEnds, SessionGivesUp, mapVars, callVars
<1>2. MapTyped' /\ EndedIsShut' /\ Active' \subseteq Active /\ shut \subseteq shut'
  <2>1. CASE SessionGivesUp(o)
    BY Zenon, <1>1, <2>1, TerminateKeeps DEF SessionGivesUp, ManagerInv
  <2>2. CASE BackendEnds(o)
    BY Zenon, <1>1, <2>2 DEF BackendEnds, ManagerInv, MapTyped, EndedIsShut, Active, Listed
  <2>3. CASE PumpEnds(o)
    <3>1. /\ o \in shut /\ UNCHANGED shut
          /\ \A q \in Made : life'[q] = IF q = o THEN "ended" ELSE life[q]
      BY Zenon, <2>3 DEF PumpEnds, ManagerInv, MapTyped
    <3>2. MapTyped' /\ EndedIsShut'
      BY Zenon, <1>1, <2>3, <3>1 DEF PumpEnds, ManagerInv, MapTyped, EndedIsShut
    <3>3. \A q \in Listed : q \in Made
      BY ManagerAssumption DEF Listed, ManagerInv, MapTyped, Made
    <3>4. QED
      BY Zenon, <1>1, <3>1, <3>2, <3>3 DEF Active, Listed
  <2>4. QED
    BY Zenon, <2>1, <2>2, <2>3
<1>3. NoOrphanStream'
  BY Zenon, <1>1, <1>2, OwnersStay DEF ManagerInv
<1>4. QED
  BY Zenon, <1>1, <1>2, <1>3, BesidesKeeps

\* What has not ended is terminated before it is forgotten.
LEMMA DisposeKeeps ==
  ASSUME ManagerInv, NEW o \in Made, Dispose(o)
  PROVE  ManagerInv'
<1>1. /\ UNCHANGED <<holder, sessions, made>> /\ UNCHANGED <<where, wants, found>>
      /\ taken' = [taken EXCEPT ![o] = "none"]
  BY Zenon DEF Dispose, mapVars, callVars
<1>2. /\ shut \subseteq shut' /\ (taken[o] = "terminate" => o \in shut')
      /\ life' \in {life, [life EXCEPT ![o] = "ended"]}
      /\ life' # life => o \in shut'
  BY Zenon DEF Dispose, terminate, lifeVars
<1>3. MapTyped' /\ EndedIsShut'
  BY Zenon, <1>1, <1>2 DEF ManagerInv, MapTyped, EndedIsShut
<1>4. Active' \subseteq Active
  <2>1. Listed' = Listed
    BY Zenon, <1>1 DEF Listed
  <2>2. \A q \in Listed : q \in Made
    BY ManagerAssumption DEF Listed, ManagerInv, MapTyped, Made
  <2>3. \A q \in Made : life'[q] # "ended" => life[q] # "ended"
    BY Zenon, <1>2 DEF ManagerInv, MapTyped
  <2>4. QED
    BY Zenon, <2>1, <2>2, <2>3 DEF Active
<1>5. NoOrphanStream'
  <2>1. Listed' = Listed
    BY Zenon, <1>1 DEF Listed
  <2>2. \A q \in Made : taken'[q] = taken[q] \/ q = o
    BY Zenon, <1>1 DEF ManagerInv, MapTyped
  <2>3. \A q \in 1..made : q \in Made
    BY ManagerAssumption DEF ManagerInv, MapTyped, Made
  <2>4. QED
    BY Zenon, <1>1, <1>2, <2>1, <2>2, <2>3 DEF ManagerInv, NoOrphanStream
<1>6. QED
  BY Zenon, <1>1, <1>3, <1>4, <1>5, BesidesKeeps

\* Nobody is past the lock when cleanup has it.
LEMMA SweepKeeps == ASSUME ManagerInv, Sweep PROVE ManagerInv'
<1>1. PICK gone \in SUBSET Listed :
        /\ sessions' = [i \in SessionIds |-> IF sessions[i] \in gone THEN 0 ELSE sessions[i]]
        /\ taken' = [o \in Made |-> IF o \notin gone THEN "none"
                                    ELSE IF life[o] = "ended" THEN "close" ELSE "terminate"]
  BY Zenon DEF Sweep
<1>2. /\ holder = Nobody /\ \A o \in Made : taken[o] = "none"
      /\ UNCHANGED <<holder, made, life, shut, where, wants, found>>
  BY Zenon DEF Sweep, lifeVars, callVars
<1>3. CallsTyped' /\ HeldByOne' /\ EndedIsShut'
  BY Zenon, <1>2 DEF ManagerInv, CallsTyped, HeldByOne, EndedIsShut
<1>4. \A d \in Calls : where'[d] \notin Locked
  BY Zenon, <1>2, ManagerAssumption DEF ManagerInv, HeldByOne
<1>5. RoomKept' /\ OwnEntry'
  BY Zenon, <1>4 DEF RoomKept, OwnEntry, Locked
<1>6. MapTyped'
  <2>1. 0 \in 0..MaxMade
    BY ManagerAssumption
  <2>2. sessions' \in [SessionIds -> 0..MaxMade]
    BY Zenon, <1>1, <2>1 DEF ManagerInv, MapTyped
  <2>3. taken' \in [Made -> {"none", "terminate", "close"}]
    BY Zenon, <1>1
  <2>4. QED
    BY Zenon, <1>2, <2>2, <2>3 DEF ManagerInv, MapTyped
<1>7. Listed' \subseteq Listed /\ \A q \in Listed : q \in Listed' \/ q \in gone
  BY Zenon, <1>1 DEF Listed
<1>8. ActiveWithinLimit'
  <2>1. Active' \subseteq Active
    BY Zenon, <1>2, <1>7 DEF Active
  <2>2. /\ Cardinality(Active') \in Nat /\ Cardinality(Active) \in Nat
        /\ Cardinality(Active') <= Cardinality(Active)
    BY Zenon, <2>1, ActiveFinite, NotMore DEF ManagerInv
  <2>3. QED
    BY <2>2, ManagerAssumption DEF ManagerInv, ActiveWithinLimit
<1>9. NoOrphanStream'
  <2>1. \A q \in 1..made : q \in Made
    BY ManagerAssumption DEF ManagerInv, MapTyped, Made
  <2> SUFFICES ASSUME NEW q \in 1..made
               PROVE  q \in shut \/ q \in Listed' \/ taken'[q] = "terminate"
    BY Zenon, <1>2 DEF NoOrphanStream
  <2>2. q \in shut \/ q \in Listed
    BY Zenon, <1>2, <2>1 DEF ManagerInv, NoOrphanStream
  <2>3. q \in gone => q \in shut \/ taken'[q] = "terminate"
    BY Zenon, <1>1, <2>1 DEF ManagerInv, EndedIsShut
  <2>4. QED
    BY Zenon, <1>7, <2>2, <2>3
<1>10. QED
  BY Zenon, <1>3, <1>5, <1>6, <1>8, <1>9 DEF ManagerInv

\* Every step of the manager preserves the invariant.
LEMMA ManagerStep == ManagerInv /\ [ManagerNext]_managerVars => ManagerInv'
<1> SUFFICES ASSUME ManagerInv, [ManagerNext]_managerVars PROVE ManagerInv'
  BY Zenon
<1>1. ASSUME NEW c \in Calls, Arrive(c) \/ get(c) \/ Lock(c) \/ CallStep(c) PROVE ManagerInv'
  BY Zenon, <1>1, RequestKeeps, LockKeeps, LookAgainKeeps, InitializeKeeps, ConnectKeeps DEF CallStep
<1>2. CASE Sweep
  BY Zenon, <1>2, SweepKeeps
<1>3. ASSUME NEW o \in Made, BackendEnds(o) \/ PumpEnds(o) \/ SessionGivesUp(o) \/ Dispose(o)
      PROVE  ManagerInv'
  BY Zenon, <1>3, SessionKeeps, DisposeKeeps
<1>4. CASE UNCHANGED managerVars
  <2>1. /\ UNCHANGED <<holder, sessions, made>> /\ UNCHANGED <<where, wants, found>>
        /\ UNCHANGED <<life, shut, taken>>
    BY Zenon, <1>4 DEF managerVars
  <2>2. MapTyped' /\ EndedIsShut' /\ Active' \subseteq Active /\ NoOrphanStream'
    BY Zenon, <2>1 DEF ManagerInv, MapTyped, EndedIsShut, Active, Listed, NoOrphanStream
  <2>3. QED
    BY Zenon, <2>1, <2>2, BesidesKeeps
<1>5. QED
  BY Zenon, <1>1, <1>2, <1>3, <1>4 DEF ManagerNext

\* At no moment are more than maxSessions sessions of the map not ended, also
\* when a revocation ends a session that is just being connected.
THEOREM LimitHolds == ManagerSpec => []ActiveWithinLimit
<1>1. ManagerInv => ActiveWithinLimit
  BY Zenon DEF ManagerInv
<1>2. QED
  BY ManagerInitial, ManagerStep, <1>1, PTL DEF ManagerSpec

\* Every backend stream is closed, or its session can be found in the map, or
\* cleanup is on its way to terminate it.
THEOREM NoStreamIsLost == ManagerSpec => []NoOrphanStream
<1>1. ManagerInv => NoOrphanStream
  BY Zenon DEF ManagerInv
<1>2. QED
  BY ManagerInitial, ManagerStep, <1>1, PTL DEF ManagerSpec

-----------------------------------------------------------------------------
(* TokenCache *)

CacheTyped ==
  /\ now \in Nat \ {0}
  /\ expiresAt \in [CacheKeys -> Nat]
  /\ asking \in [Lookups -> CacheKeys \cup {NoCacheKey}]

CacheInv == CacheTyped /\ CacheBounded

\* The live entries are some of the entries; there are finitely many of both.
LEMMA LiveSubset ==
  ASSUME CacheTyped
  PROVE  /\ Live \subseteq Entries
         /\ IsFiniteSet(Entries) /\ Cardinality(Entries) \in Nat
         /\ IsFiniteSet(Live) /\ Cardinality(Live) \in Nat
         /\ Cardinality(Live) <= Cardinality(Entries)
<1>1. Live \subseteq Entries /\ Entries \subseteq CacheKeys
  BY DEF CacheTyped, Live, Entries
<1>2. IsFiniteSet(Entries) /\ IsFiniteSet(Live)
  BY Zenon, <1>1, CacheAssumption, FS_Subset
<1>3. QED
  BY Zenon, <1>1, <1>2, FS_Subset, FS_CardinalityType

\* A step after which only old entries are left keeps the bound.
LEMMA FewerEntries ==
  ASSUME CacheInv, Entries' \subseteq Entries
  PROVE  CacheBounded'
<1>1. IsFiniteSet(Entries) /\ Cardinality(Entries) \in Nat
  BY Zenon, LiveSubset DEF CacheInv
<1>2. IsFiniteSet(Entries') /\ Cardinality(Entries') <= Cardinality(Entries)
  BY Zenon, <1>1, FS_Subset
<1>3. Cardinality(Entries') \in Nat
  BY Zenon, <1>2, FS_CardinalityType
<1>4. QED
  BY <1>1, <1>2, <1>3, CacheAssumption DEF CacheInv, CacheBounded

\* set makes room before it adds.
LEMMA SetKeepsBound ==
  ASSUME CacheInv, NEW key \in CacheKeys, set(key), UNCHANGED now
  PROVE  CacheBounded'
<1>1. PICK gone \in Displaced(key) :
        expiresAt' = [k \in CacheKeys |->
          IF k = key THEN now + TTL ELSE IF k \in Live \ gone THEN expiresAt[k] ELSE 0]
  BY Zenon DEF set
<1>2. Entries' \subseteq (Live \ gone) \cup {key}
  BY Zenon, <1>1 DEF Entries
<1>3. /\ IsFiniteSet(Live) /\ Cardinality(Live) \in Nat /\ Cardinality(Live) <= MaxEntries
      /\ Live \subseteq Entries
  BY LiveSubset, CacheAssumption DEF CacheInv, CacheBounded
<1>4. CASE key \in Live
  <2>1. Entries' \subseteq Entries
    BY Zenon, <1>2, <1>3, <1>4
  <2>2. QED
    BY Zenon, <2>1, FewerEntries
<1>5. CASE key \notin Live /\ Cardinality(Live) < MaxEntries
  <2>1. Entries' \subseteq Live \cup {key}
    BY Zenon, <1>2
  <2>2. IsFiniteSet(Live \cup {key}) /\ Cardinality(Live \cup {key}) = Cardinality(Live) + 1
    BY Zenon, <1>3, <1>5, FS_AddElement
  <2>3. IsFiniteSet(Entries') /\ Cardinality(Entries') <= Cardinality(Live \cup {key})
    BY Zenon, <2>1, <2>2, FS_Subset
  <2>4. Cardinality(Entries') \in Nat
    BY Zenon, <2>3, FS_CardinalityType
  <2>5. QED
    BY <1>3, <1>5, <2>2, <2>3, <2>4, CacheAssumption DEF CacheBounded
<1>6. CASE key \notin Live /\ ~(Cardinality(Live) < MaxEntries)
  <2>1. PICK g \in Live : gone = {g}
    BY Zenon, <1>1, <1>6 DEF Displaced, Earliest
  <2>2. IsFiniteSet(Live \ {g}) /\ Cardinality(Live \ {g}) = Cardinality(Live) - 1
    BY Zenon, <1>3, <2>1, FS_RemoveElement
  <2>3. /\ IsFiniteSet((Live \ {g}) \cup {key})
        /\ Cardinality((Live \ {g}) \cup {key}) = Cardinality(Live \ {g}) + 1
    BY ZenonT(30), <1>6, <2>2, FS_AddElement
  <2>4. Entries' \subseteq (Live \ {g}) \cup {key}
    BY Zenon, <1>2, <2>1
  <2>5. IsFiniteSet(Entries') /\ Cardinality(Entries') <= Cardinality((Live \ {g}) \cup {key})
    BY Zenon, <2>3, <2>4, FS_Subset
  <2>6. Cardinality(Entries') \in Nat
    BY Zenon, <2>5, FS_CardinalityType
  <2>7. QED
    BY <1>3, <2>2, <2>3, <2>5, <2>6, CacheAssumption DEF CacheBounded
<1>7. QED
  BY Zenon, <1>4, <1>5, <1>6

\* The cache is empty at first.
LEMMA CacheInitial == CacheInit => CacheInv
<1> SUFFICES ASSUME CacheInit PROVE CacheInv
  BY Zenon
<1>1. CacheTyped /\ Entries = {}
  BY DEF CacheInit, CacheTyped, Entries
<1>2. QED
  BY <1>1, FS_EmptySet, CacheAssumption DEF CacheInv, CacheBounded

\* Every step preserves the bound.
LEMMA CacheStep == CacheInv /\ [CacheNext]_cacheVars => CacheInv'
<1> SUFFICES ASSUME CacheInv, [CacheNext]_cacheVars PROVE CacheInv'
  BY Zenon
<1>1. CASE Tick \/ UNCHANGED cacheVars
  <2>1. CacheTyped' /\ Entries' = Entries
    BY <1>1 DEF Tick, cacheVars, CacheInv, CacheTyped, Entries
  <2>2. QED
    BY Zenon, <2>1, FewerEntries DEF CacheInv
<1>2. ASSUME NEW l \in Lookups, LookupCache(l) PROVE CacheInv'
  <2>1. CacheTyped' /\ Entries' \subseteq Entries
    BY <1>2 DEF LookupCache, CacheInv, CacheTyped, Entries
  <2>2. QED
    BY Zenon, <2>1, FewerEntries DEF CacheInv
<1>3. ASSUME NEW l \in Lookups, PlatformAnswers(l) PROVE CacheInv'
  <2>1. asking[l] \in CacheKeys /\ UNCHANGED now
    BY Zenon, <1>3 DEF PlatformAnswers, CacheInv, CacheTyped
  <2>2. CASE set(asking[l])
    <3>1. CacheTyped'
      BY <1>3, <2>1, <2>2, CacheAssumption DEF PlatformAnswers, set, CacheInv, CacheTyped
    <3>2. QED
      BY Zenon, <2>1, <2>2, <3>1, SetKeepsBound DEF CacheInv
  <2>3. CASE UNCHANGED expiresAt
    <3>1. CacheTyped' /\ Entries' = Entries
      BY Zenon, <1>3, <2>3 DEF PlatformAnswers, CacheInv, CacheTyped, Entries
    <3>2. QED
      BY Zenon, <3>1, FewerEntries DEF CacheInv
  <2>4. QED
    BY Zenon, <1>3, <2>2, <2>3 DEF PlatformAnswers
<1>4. QED
  BY Zenon, <1>1, <1>2, <1>3 DEF CacheNext

\* The cache never holds more than maxTokenCacheEntries entries, although every
\* lookup decides outside the lock that there is something to keep.
THEOREM CacheStaysBounded == CacheSpec => []CacheBounded
<1>1. CacheInv => CacheBounded
  BY Zenon DEF CacheInv
<1>2. QED
  BY CacheInitial, CacheStep, <1>1, PTL DEF CacheSpec

\* A live entry is displaced only from a cache full of live entries, and only
\* when none of them expires before it.
THEOREM LiveEntriesLeaveLast == CacheSpec => LiveLeavesLast
<1> DEFINE Leaves == \A k \in Live : expiresAt'[k] = 0 => Cardinality(Live) = MaxEntries /\ k \in Earliest
<1>1. CacheInv /\ [CacheNext]_cacheVars => [Leaves]_cacheVars
  <2> SUFFICES ASSUME CacheInv, CacheNext, NEW k \in Live, expiresAt'[k] = 0
               PROVE  Cardinality(Live) = MaxEntries /\ k \in Earliest
    BY Zenon
  <2>1. k \in CacheKeys /\ expiresAt[k] # 0 /\ k \in Live
    BY DEF CacheInv, CacheTyped, Live
  <2>2. ~UNCHANGED expiresAt
    BY Zenon, <2>1
  <2>3. PICK l \in Lookups : LookupCache(l) \/ PlatformAnswers(l)
    BY Zenon, <2>2 DEF CacheNext, Tick
  <2>4. ~LookupCache(l)
    BY Zenon, <2>1, <2>2 DEF LookupCache, CacheInv, CacheTyped
  <2>5. asking[l] \in CacheKeys /\ set(asking[l])
    BY Zenon, <2>2, <2>3, <2>4 DEF PlatformAnswers, CacheInv, CacheTyped
  <2>6. PICK gone \in Displaced(asking[l]) :
          expiresAt' = [j \in CacheKeys |->
            IF j = asking[l] THEN now + TTL ELSE IF j \in Live \ gone THEN expiresAt[j] ELSE 0]
    BY Zenon, <2>5 DEF set
  <2>7. k \in gone
    BY <2>1, <2>6, CacheAssumption DEF CacheInv, CacheTyped
  <2>8. ~(Cardinality(Live) < MaxEntries) /\ k \in Earliest
    BY <2>6, <2>7 DEF Displaced
  <2>9. QED
    BY <2>8, LiveSubset, CacheAssumption DEF CacheInv, CacheBounded
<1>2. QED
  BY CacheInitial, CacheStep, <1>1, PTL DEF CacheSpec, LiveLeavesLast

=============================================================================
