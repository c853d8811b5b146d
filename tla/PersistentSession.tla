------------------------- MODULE PersistentSession -------------------------
(***************************************************************************)
(* One persistent console session: proxy/persistent_session_handler.go     *)
(* with the delegation watch of delegation/delegation.go.                  *)
(*                                                                         *)
(* The session is created under the manager's lock, watched by the         *)
(* delegation verifier when its ticket is an API Key's, fed by a pump that *)
(* reads the backend channel, and used by browser tabs whose websockets    *)
(* come and go.  Every step below is one critical section of s.mu, or one  *)
(* call of the backend or the verifier made outside of it.                 *)
(*                                                                         *)
(* The backend is what FrontendStreams promises: a channel that is closed  *)
(* by closeConnection and releaseConnection while its link serves, and by  *)
(* the end of the link otherwise.                                          *)
(***************************************************************************)
EXTENDS Integers, Sequences, Functions

CONSTANTS
  Conns,        \* browser websockets (workspaceClient objects)
  Tabs,         \* client identifiers; a tab that reconnects keeps its own
  Requests,     \* HTTP goroutines: status, creation retries, DELETE
  Watcher,      \* the goroutine of delegation.Watch
  Cleaner,      \* the goroutine of cleanupLoop
  NoTab, NoConn,
  Kinds,        \* subset of {"terminal", "logs"}
  Tickets,      \* subset of {"none", "live"}: "live" carries a grant
  Sizes,        \* frameBytes of an output: its length plus 32
  MaxReplay,    \* s.maxReplayBytes
  QueueSize,    \* workspaceClientQueueSize
  MaxOutput     \* bound: outputs of the backend command

Procs == Conns \cup Requests \cup {Watcher, Cleaner}

ASSUME ConstantsAssumption ==
  /\ Kinds \subseteq {"terminal", "logs"}
  /\ Tickets \subseteq {"none", "live"}
  /\ Sizes \subseteq Nat \ {0}
  /\ MaxReplay \in Nat /\ MaxOutput \in Nat
  /\ QueueSize \in Nat /\ QueueSize >= 3
  /\ NoTab \notin Tabs /\ NoConn \notin Conns
  /\ Watcher # Cleaner /\ {Watcher, Cleaner} \cap (Conns \cup Requests) = {}
  /\ Conns \cap Requests = {}

VARIABLES
  kind,         \* s.kind
  create,       \* where createWithAuthorization is
  entry,        \* m.sessions[id]: "absent", "listed", "removed" by cleanup
  status,       \* s.status
  once,         \* s.closeOnce: "free", "busy", "done"
  grant,        \* "none", "live", "revoked" (s.delegationRevoked)
  verdict,      \* history: "refused" once a live check failed or expired
  stop,         \* s.delegationStop: "unset", "set", "called"
  at,           \* [goroutine -> position]
  mode,         \* [goroutine -> "plain", or "full" if closeClients follows]
  pump,         \* the pump goroutine: "off", "pumping", "ending", "done"
  chan,         \* the frontend channel: "none", "open", "closed"
  link,         \* its link: "up", or "down" once removed or replaced
  command,      \* at the agent: "none", "running", "gone"
  nextSequence,
  outs,         \* history: the size of every numbered output
  replay,       \* s.replay, as sequence numbers
  replayBytes,
  controller,   \* s.controller
  clients,      \* s.clients
  tab,          \* [connection -> its client identifier]
  closed,       \* connections whose done is closed
  send,         \* [connection -> its send channel]
  shown,        \* [connection -> output numbers written to its websocket]
  since         \* history: [connection -> nextSequence when it was added]

lifeVars   == <<create, entry, once, stop>>
grantVars  == <<grant, verdict>>
backVars   == <<chan, link, command>>
replayVars == <<nextSequence, outs, replay, replayBytes>>
wireVars   == <<closed, send>>
connVars   == <<tab, shown, since>>
vars == <<kind, create, entry, status, once, grant, verdict, stop, at, mode, pump, chan, link,
          command, nextSequence, outs, replay, replayBytes, controller, clients, tab, closed,
          send, shown, since>>

Init ==
  /\ kind \in Kinds
  /\ grant \in Tickets
  /\ create = "new" /\ entry = "absent" /\ status = "connecting"
  /\ once = "free" /\ verdict = "ok" /\ stop = "unset"
  /\ at = [p \in Procs |-> "idle"]
  /\ mode = [p \in Procs |-> "plain"]
  /\ pump = "off"
  /\ chan = "none" /\ link = "up" /\ command = "none"
  /\ nextSequence = 0 /\ outs = <<>> /\ replay = <<>> /\ replayBytes = 0
  /\ controller = NoTab
  /\ clients = [t \in Tabs |-> NoConn]
  /\ tab \in [Conns -> Tabs]
  /\ closed = {}
  /\ send = [c \in Conns |-> <<>>]
  /\ shown = [c \in Conns |-> <<>>]
  /\ since = [c \in Conns |-> 0]

-----------------------------------------------------------------------------
(* Helpers.  A frame is the sequence of output numbers it carries: one for   *)
(* an output, the retained ones for a replay, none for hello, control,       *)
(* status, pong and error.                                                   *)

Note == <<>>

over == status = "ended"

Go(p, to) == at' = [at EXCEPT ![p] = to]

\* Where a goroutine goes on when its termination or revocation is through.
Home(p) ==
  CASE p = Watcher -> "gone"
    [] p \in Conns -> IF mode[p] = "full" THEN "gone" ELSE "reading"
    [] OTHER       -> "idle"

Registered == {c \in Conns : clients[tab[c]] = c}

\* enqueue: refused when done is closed or the channel is full.
Accepts(c) == c \notin closed /\ Len(send[c]) < QueueSize

\* Fault: a client that cannot keep up is left connected.
broadcastLocked_Lenient(cs, frame) ==
  /\ send' = [c \in Conns |-> IF c \in cs /\ Accepts(c) THEN Append(send[c], frame) ELSE send[c]]
  /\ UNCHANGED closed

\* broadcastLocked to the clients cs: one that does not accept is closed.
broadcastLocked(cs, frame) ==
  /\ send' = [c \in Conns |-> IF c \in cs /\ Accepts(c) THEN Append(send[c], frame) ELSE send[c]]
  /\ closed' = closed \cup {c \in cs : ~Accepts(c)}

\* A reply to one client (pong, error); enqueueJSON ignores a full channel.
Reply(c, frame) ==
  /\ send' = IF Accepts(c) THEN [send EXCEPT ![c] = Append(@, frame)] ELSE send
  /\ UNCHANGED closed

\* s.delegationStop, when it is set: the watch's context is cancelled.
CallStop == stop' = IF stop = "set" THEN "called" ELSE stop

\* Fault: the watch is not told.
markEnded_NoStop ==
  \/ over /\ UNCHANGED <<status, controller, wireVars, stop>>
  \/ /\ ~over
     /\ status' = "ended"
     /\ controller' = NoTab
     /\ broadcastLocked(Registered, Note)
     /\ UNCHANGED stop

markEnded ==
  \/ over /\ UNCHANGED <<status, controller, wireVars, stop>>
  \/ /\ ~over
     /\ status' = "ended"
     /\ controller' = NoTab
     /\ broadcastLocked(Registered, Note)
     /\ CallStop

\* releaseConnection closes the channel if its multiplexer is still the
\* registered one; otherwise the end of the link closes it.
ReleaseConnection == chan' = IF link = "up" /\ chan = "open" THEN "closed" ELSE chan

\* The bytes of the first i entries of r, whose outputs have the sizes sz.
FrontBytes(r, sz) ==
  LET front[i \in 0..Len(r)] == IF i = 0 THEN 0 ELSE front[i - 1] + sz[r[i]] IN front

\* How many entries appendOutput's loop drops from the front of r, and the bytes
\* that are left of bytes then: it goes on while there are too many and an entry.
Dropped(r, sz, bytes) ==
  LET left(i) == bytes - FrontBytes(r, sz)[i]
      stops(i) == left(i) <= MaxReplay \/ i = Len(r)
      count == CHOOSE i \in 0..Len(r) : stops(i) /\ \A j \in 0..i - 1 : ~stops(j)
  IN  [count |-> count, bytes |-> left(count)]

-----------------------------------------------------------------------------
(* createWithAuthorization, under the manager's lock *)

\* initializeForURL: refused, or the channel exists.
InitializeClient ==
  /\ create = "new"
  /\ \/ create' = "failed" /\ UNCHANGED chan
     \/ /\ create' = IF grant = "none" THEN "connect" ELSE "bind"
        /\ chan' = "open"
  /\ entry' = IF create' = "connect" THEN "listed" ELSE entry
  /\ UNCHANGED <<kind, status, once, stop, grantVars, at, mode, pump, link, command, replayVars,
                 controller, clients, wireVars, connVars>>

\* bindDelegation as far as Watch, which starts the goroutine ...
StartWatch ==
  /\ create = "bind"
  /\ create' = "bound"
  /\ Go(Watcher, "waiting")
  /\ UNCHANGED <<kind, entry, status, once, stop, grantVars, mode, pump, backVars, replayVars,
                 controller, clients, wireVars, connVars>>

\* ... and its second half, which stops the watch itself if the session came
\* to an end meanwhile; then the session is put into the map.
BindStop ==
  /\ create = "bound"
  /\ create' = "connect"
  /\ stop' = IF over \/ grant = "revoked" THEN "called" ELSE "set"
  /\ entry' = "listed"
  /\ UNCHANGED <<kind, status, once, grantVars, at, mode, pump, backVars, replayVars,
                 controller, clients, wireVars, connVars>>

\* backend.connect: the membership check, then the queue.
ConnectMember ==
  /\ create = "connect"
  /\ create' = IF link = "up" /\ chan = "open" THEN "queue" ELSE "release"
  /\ UNCHANGED <<kind, entry, status, once, stop, grantVars, at, mode, pump, backVars, replayVars,
                 controller, clients, wireVars, connVars>>

ConnectQueued ==
  /\ create = "queue"
  /\ \/ create' = "status" /\ command' = IF link = "up" THEN "running" ELSE command
     \/ create' = "release" /\ UNCHANGED command
  /\ UNCHANGED <<kind, entry, status, once, stop, grantVars, at, mode, pump, chan, link,
                 replayVars, controller, clients, wireVars, connVars>>

\* connect failed: the session is forgotten.
ForgetFailed ==
  /\ create = "release"
  /\ create' = "failed"
  /\ entry' = "absent"
  /\ ReleaseConnection
  /\ UNCHANGED <<kind, status, once, stop, grantVars, at, mode, pump, link, command, replayVars,
                 controller, clients, wireVars, connVars>>

\* The status is written without s.mu, then the pump starts.
StartPump ==
  /\ create = "status"
  /\ create' = "done"
  /\ status' = "connected"
  /\ pump' = "pumping"
  /\ UNCHANGED <<kind, entry, once, stop, grantVars, at, mode, backVars, replayVars,
                 controller, clients, wireVars, connVars>>

-----------------------------------------------------------------------------
(* The watch of the delegation: Run and Check *)

\* A tick; select may take it although the context is already cancelled.
WatchTick ==
  /\ at[Watcher] = "waiting"
  /\ Go(Watcher, "checking")
  /\ UNCHANGED <<kind, lifeVars, status, grantVars, mode, pump, backVars, replayVars, controller,
                 clients, wireVars, connVars>>

WatchCancelled ==
  /\ at[Watcher] = "waiting"
  /\ stop = "called"
  /\ Go(Watcher, "gone")
  /\ UNCHANGED <<kind, lifeVars, status, grantVars, mode, pump, backVars, replayVars, controller,
                 clients, wireVars, connVars>>

\* The ticket's own expiry.
WatchExpires ==
  /\ at[Watcher] = "waiting"
  /\ Go(Watcher, "revoke")
  /\ mode' = [mode EXCEPT ![Watcher] = "full"]
  /\ verdict' = "refused"
  /\ UNCHANGED <<kind, lifeVars, status, grant, pump, backVars, replayVars, controller,
                 clients, wireVars, connVars>>

\* Check answers: granted, refused, or (watch only) failed because the context
\* was cancelled while the request was on its way, which Run takes for a refusal.
WatchChecked ==
  /\ at[Watcher] = "checking"
  /\ \/ Go(Watcher, "waiting") /\ UNCHANGED <<verdict, mode>>
     \/ /\ Go(Watcher, "revoke")
        /\ mode' = [mode EXCEPT ![Watcher] = "full"]
        /\ \/ verdict' = "refused"
           \/ stop = "called" /\ UNCHANGED verdict
  /\ UNCHANGED <<kind, lifeVars, status, grant, pump, backVars, replayVars, controller,
                 clients, wireVars, connVars>>

-----------------------------------------------------------------------------
(* Requests: get, then matchesSecretHash with the right secret *)

\* The manager's map can be read once creation has released its lock.
Lookup(p) ==
  /\ p \in Conns \cup Requests
  /\ at[p] = "idle"
  /\ create \in {"done", "failed"}
  /\ entry = "listed"
  /\ Go(p, "match")
  /\ UNCHANGED <<kind, lifeVars, status, grantVars, mode, pump, backVars, replayVars, controller,
                 clients, wireVars, connVars>>

\* What an accepted request does: a websocket is added, a DELETE terminates, a
\* status request or creation retry returns.
Accepted(p) ==
  IF p \in Conns THEN Go(p, "add") ELSE Go(p, "terminate") \/ Go(p, "idle")

Match(p) ==
  /\ at[p] = "match"
  /\ CASE grant = "revoked" -> Go(p, IF p \in Conns THEN "gone" ELSE "idle")
       [] grant = "live"    -> Go(p, "checking")
       [] grant = "none"    -> Accepted(p)
  /\ UNCHANGED <<kind, lifeVars, status, grantVars, mode, pump, backVars, replayVars, controller,
                 clients, wireVars, connVars>>

Checked(p) ==
  /\ p # Watcher
  /\ at[p] = "checking"
  /\ \/ Accepted(p) /\ UNCHANGED <<verdict, mode>>
     \/ /\ Go(p, "revoke")
        /\ mode' = [mode EXCEPT ![p] = "full"]
        /\ verdict' = "refused"
  /\ UNCHANGED <<kind, lifeVars, status, grant, pump, backVars, replayVars, controller,
                 clients, wireVars, connVars>>

-----------------------------------------------------------------------------
(* revokeDelegation, terminate and closeClients, by any goroutine *)

Revoke(p) ==
  /\ at[p] = "revoke"
  /\ Go(p, "terminate")
  /\ grant' = "revoked"
  /\ replay' = <<>>
  /\ replayBytes' = 0
  /\ CallStop
  /\ UNCHANGED <<kind, create, entry, status, once, verdict, mode, pump, backVars, nextSequence,
                 outs, controller, clients, wireVars, connVars>>

AfterTerminate(p) == Go(p, IF mode[p] = "full" THEN "sweep" ELSE Home(p))

\* closeOnce: the first caller goes on unless the session is over; a later one
\* waits until the first is through and returns.
Terminate(p) ==
  /\ at[p] = "terminate"
  /\ \/ /\ once = "free" /\ ~over
        /\ once' = "busy"
        /\ status' = "closing"
        /\ broadcastLocked(Registered, Note)
        /\ Go(p, "close")
     \/ /\ once = "done" \/ (once = "free" /\ over)
        /\ once' = "done"
        /\ AfterTerminate(p)
        /\ UNCHANGED <<status, wireVars>>
  /\ UNCHANGED <<kind, create, entry, stop, grantVars, mode, pump, backVars, replayVars,
                 controller, clients, connVars>>

\* backend.closeConnection.  While the link serves, the channel is closed and
\* the Close is queued, or could not be queued in time.  On a link that is gone
\* there is no backend (an error), or its successor takes a Close it ignores.
CloseConnection(p) ==
  /\ at[p] = "close"
  /\ \/ /\ link = "up"
        /\ chan' = "closed"
        /\ \/ /\ command' = IF command = "running" THEN "gone" ELSE command
              /\ once' = "done" /\ AfterTerminate(p)
           \/ UNCHANGED <<command, once>> /\ Go(p, "ended")
     \/ /\ link = "down"
        /\ \/ once' = "done" /\ AfterTerminate(p)
           \/ UNCHANGED once /\ Go(p, "ended")
        /\ UNCHANGED <<chan, command>>
  /\ UNCHANGED <<kind, create, entry, status, stop, grantVars, mode, pump, link, replayVars,
                 controller, clients, wireVars, connVars>>

\* closeConnection failed: terminate ends the session itself.
EndFailed(p) ==
  /\ at[p] = "ended"
  /\ markEnded
  /\ once' = "done"
  /\ AfterTerminate(p)
  /\ UNCHANGED <<kind, create, entry, grantVars, mode, pump, backVars, replayVars, clients,
                 connVars>>

closeClients(p) ==
  /\ at[p] = "sweep"
  /\ Go(p, Home(p))
  /\ closed' = closed \cup Registered
  /\ clients' = [t \in Tabs |-> NoConn]
  /\ controller' = NoTab
  /\ UNCHANGED <<kind, lifeVars, status, grantVars, mode, pump, backVars, replayVars, send,
                 connVars>>

\* cleanup: retention is over, for a session that has ended or for an idle one.
Cleanup ==
  /\ at[Cleaner] = "idle"
  /\ create \in {"done", "failed"}
  /\ entry = "listed"
  /\ entry' = "removed"
  /\ mode' = [mode EXCEPT ![Cleaner] = "full"]
  /\ Go(Cleaner, IF over THEN "sweep" ELSE "terminate")
  /\ UNCHANGED <<kind, create, status, once, stop, grantVars, pump, backVars, replayVars,
                 controller, clients, wireVars, connVars>>

-----------------------------------------------------------------------------
(* The pump: outputs, and the end of the backend channel *)

\* Fault: only the status is looked at.
appendOutput_StatusOnly(size) ==
  LET n == nextSequence + 1
      r == Append(replay, n)
      d == Dropped(r, Append(outs, size), replayBytes + size)
  IN  /\ pump = "pumping" /\ chan = "open" /\ nextSequence < MaxOutput
      /\ status \notin {"ended", "closing"}
      /\ nextSequence' = n
      /\ outs' = Append(outs, size)
      /\ IF size <= MaxReplay
           THEN replay' = SubSeq(r, d.count + 1, Len(r)) /\ replayBytes' = d.bytes
           ELSE UNCHANGED <<replay, replayBytes>>
      /\ status' = "connected"
      /\ broadcastLocked(Registered, <<n>>)
      /\ UNCHANGED <<kind, lifeVars, grantVars, at, mode, pump, backVars, controller, clients,
                     connVars>>

\* Fault: an output that is too large for the replay is put into it, and the
\* loop then drops everything.
appendOutput_NoSizeTest(size) ==
  LET n == nextSequence + 1
      r == Append(replay, n)
      d == Dropped(r, Append(outs, size), replayBytes + size)
  IN  /\ pump = "pumping" /\ chan = "open" /\ nextSequence < MaxOutput
      /\ ~over /\ status # "closing" /\ grant # "revoked"
      /\ nextSequence' = n
      /\ outs' = Append(outs, size)
      /\ replay' = SubSeq(r, d.count + 1, Len(r))
      /\ replayBytes' = d.bytes
      /\ status' = "connected"
      /\ broadcastLocked(Registered, <<n>>)
      /\ UNCHANGED <<kind, lifeVars, grantVars, at, mode, pump, backVars, controller, clients,
                     connVars>>

\* A Body arrives: numbered, retained if it fits, and broadcast.  Output of a
\* session that is over, closing or revoked is discarded.
appendOutput(size) ==
  LET n == nextSequence + 1
      r == Append(replay, n)
      d == Dropped(r, Append(outs, size), replayBytes + size)
  IN  /\ pump = "pumping" /\ chan = "open" /\ nextSequence < MaxOutput
      /\ ~over /\ status # "closing" /\ grant # "revoked"
      /\ nextSequence' = n
      /\ outs' = Append(outs, size)
      /\ IF size <= MaxReplay
           THEN replay' = SubSeq(r, d.count + 1, Len(r)) /\ replayBytes' = d.bytes
           ELSE UNCHANGED <<replay, replayBytes>>
      /\ status' = "connected"
      /\ broadcastLocked(Registered, <<n>>)
      /\ UNCHANGED <<kind, lifeVars, grantVars, at, mode, pump, backVars, controller, clients,
                     connVars>>

\* The agent's Close arrives, or the channel is closed.
PumpStops ==
  /\ pump = "pumping"
  /\ \/ chan = "open" /\ command = "running" /\ command' = "gone"
     \/ chan = "closed" /\ UNCHANGED command
  /\ pump' = "ending"
  /\ UNCHANGED <<kind, lifeVars, status, grantVars, at, mode, chan, link, replayVars, controller,
                 clients, wireVars, connVars>>

\* Fault: the pump returns without ending the session.
PumpMarksEnded_Forgotten ==
  /\ pump = "ending"
  /\ pump' = "releasing"
  /\ UNCHANGED <<kind, lifeVars, status, grantVars, at, mode, backVars, replayVars, controller,
                 clients, wireVars, connVars>>

PumpMarksEnded ==
  /\ pump = "ending"
  /\ pump' = "releasing"
  /\ markEnded
  /\ UNCHANGED <<kind, create, entry, once, grantVars, at, mode, backVars, replayVars, clients,
                 connVars>>

PumpReleases ==
  /\ pump = "releasing"
  /\ pump' = "done"
  /\ ReleaseConnection
  /\ UNCHANGED <<kind, lifeVars, status, grantVars, at, mode, link, command, replayVars,
                 controller, clients, wireVars, connVars>>

-----------------------------------------------------------------------------
(* The backend connection, seen from the session *)

\* The link is removed or replaced; the agent drops its commands with it.
LinkDrops ==
  /\ link = "up"
  /\ link' = "down"
  /\ command' = IF command = "running" THEN "gone" ELSE command
  /\ UNCHANGED <<kind, lifeVars, status, grantVars, at, mode, pump, chan, replayVars, controller,
                 clients, wireVars, connVars>>

\* shutdown's sweep.
LinkSwept ==
  /\ link = "down" /\ chan = "open"
  /\ chan' = "closed"
  /\ UNCHANGED <<kind, lifeVars, status, grantVars, at, mode, pump, link, command, replayVars,
                 controller, clients, wireVars, connVars>>

\* Output of a command whose channel is gone: the reader sends a Close for it.
\* (The other thing the reader does, to cut off a stream whose client takes no
\* message for ten seconds, is left out: the pump only waits for s.mu, which is held
\* for a second at most for each browser that does not keep up, while that is
\* closed.  It would take ten of them at once.)
OrphanClosed ==
  /\ link = "up" /\ chan = "closed" /\ command = "running"
  /\ command' = "gone"
  /\ UNCHANGED <<kind, lifeVars, status, grantVars, at, mode, pump, chan, link, replayVars,
                 controller, clients, wireVars, connVars>>

-----------------------------------------------------------------------------
(* Browser connections *)

Attached(c) == at[c] \in {"reading", "sending", "terminate", "close", "ended"} /\ mode[c] = "plain"

\* Fault: an admitted client is added to a revoked session.
addClient_Unchecked(c) ==
  LET t == tab[c]
      others == Registered \ {clients[t]}
  IN  /\ at[c] = "add"
      /\ Go(c, "reading")
      /\ clients' = [clients EXCEPT ![t] = c]
      /\ controller' = IF kind = "terminal" /\ controller = NoTab /\ ~over THEN t ELSE controller
      /\ since' = [since EXCEPT ![c] = nextSequence]
      /\ send' = [d \in Conns |-> CASE d = c -> <<Note, replay, Note>>
                                    [] d \in others /\ Accepts(d) -> Append(send[d], Note)
                                    [] OTHER -> send[d]]
      /\ closed' = closed \cup {d \in Conns : d = clients[t]} \cup {d \in others : ~Accepts(d)}
      /\ UNCHANGED <<kind, lifeVars, status, grantVars, mode, pump, backVars, replayVars, tab, shown>>

\* addClient: refused after a revocation; otherwise it replaces an earlier
\* connection of the same tab, takes control if nobody has it, is sent hello
\* and the replay, and everybody is told who is in control.
addClient(c) ==
  LET t == tab[c]
      others == Registered \ {clients[t]}
  IN  /\ at[c] = "add"
      /\ Go(c, "reading")
      /\ \/ /\ grant = "revoked"
            /\ closed' = closed \cup {c}
            /\ UNCHANGED <<clients, controller, since, send>>
         \/ /\ grant # "revoked"
            /\ clients' = [clients EXCEPT ![t] = c]
            /\ controller' = IF kind = "terminal" /\ controller = NoTab /\ ~over
                               THEN t ELSE controller
            /\ since' = [since EXCEPT ![c] = nextSequence]
            /\ send' = [d \in Conns |-> CASE d = c -> <<Note, replay, Note>>
                                          [] d \in others /\ Accepts(d) -> Append(send[d], Note)
                                          [] OTHER -> send[d]]
            /\ closed' = closed \cup {d \in Conns : d = clients[t]}
                                \cup {d \in others : ~Accepts(d)}
      /\ UNCHANGED <<kind, lifeVars, status, grantVars, mode, pump, backVars, replayVars, tab,
                     shown>>

\* Fault: control stays with a tab that has left.
removeClient_KeepsControl(c) ==
  /\ at[c] = "reading"
  /\ Go(c, "gone")
  /\ clients' = IF c \in Registered THEN [clients EXCEPT ![tab[c]] = NoConn] ELSE clients
  /\ closed' = closed \cup {c}
  /\ UNCHANGED <<kind, lifeVars, status, grantVars, mode, pump, backVars, replayVars, controller,
                 send, connVars>>

\* The read fails or done closed the websocket: removeClient.  Control held by
\* the tab passes to any client that is left, even if the connection that
\* leaves had already been replaced by a newer one of the same tab.
removeClient(c) ==
  LET left == Registered \ {c}
  IN  /\ at[c] = "reading"
      /\ Go(c, "gone")
      /\ clients' = IF c \in Registered THEN [clients EXCEPT ![tab[c]] = NoConn] ELSE clients
      /\ \/ /\ controller # tab[c]
            /\ closed' = closed \cup {c}
            /\ UNCHANGED <<controller, send>>
         \/ /\ controller = tab[c]
            /\ controller' \in IF left = {} THEN {NoTab} ELSE {tab[d] : d \in left}
            /\ send' = [d \in Conns |-> IF d \in left /\ Accepts(d)
                                          THEN Append(send[d], Note) ELSE send[d]]
            /\ closed' = closed \cup {c} \cup {d \in left : ~Accepts(d)}
      /\ UNCHANGED <<kind, lifeVars, status, grantVars, mode, pump, backVars, replayVars, connVars>>

claimControl(c) ==
  /\ at[c] = "reading"
  /\ kind = "terminal" /\ ~over
  /\ c \in Registered
  /\ controller' = tab[c]
  /\ broadcastLocked(Registered, Note)
  /\ UNCHANGED <<kind, lifeVars, status, grantVars, at, mode, pump, backVars, replayVars, clients,
                 connVars>>

\* ping, a frame that does not parse, input that is not base64: one answer.
AnswerFrame(c) ==
  /\ at[c] = "reading"
  /\ Reply(c, Note)
  /\ UNCHANGED <<kind, lifeVars, status, grantVars, at, mode, pump, backVars, replayVars,
                 controller, clients, connVars>>

\* writeInput and resize: permission is read under s.mu, which is released
\* before the backend is called.
writeInput(c) ==
  /\ at[c] = "reading"
  /\ kind = "terminal" /\ status = "connected"
  /\ controller = tab[c] /\ c \in Registered
  /\ Go(c, "sending")
  /\ UNCHANGED <<kind, lifeVars, status, grantVars, mode, pump, backVars, replayVars, controller,
                 clients, wireVars, connVars>>

\* backend.send: accepted, or an error, which terminates the session.
SendInput(c) ==
  /\ at[c] = "sending"
  /\ \/ Go(c, "reading") /\ UNCHANGED wireVars
     \/ Go(c, "terminate") /\ Reply(c, Note)
  /\ UNCHANGED <<kind, lifeVars, status, grantVars, mode, pump, backVars, replayVars, controller,
                 clients, connVars>>

\* writeLoop: a frame goes out, also from a connection that is being closed.
WriterSends(c) ==
  /\ Attached(c)
  /\ send[c] # <<>>
  /\ shown' = [shown EXCEPT ![c] = @ \o Head(send[c])]
  /\ send' = [send EXCEPT ![c] = Tail(@)]
  /\ UNCHANGED <<kind, lifeVars, status, grantVars, at, mode, pump, backVars, replayVars,
                 controller, clients, tab, closed, since>>

\* A write or a ping fails: close.
WriterFails(c) ==
  /\ Attached(c)
  /\ closed' = closed \cup {c}
  /\ UNCHANGED <<kind, lifeVars, status, grantVars, at, mode, pump, backVars, replayVars,
                 controller, clients, send, connVars>>

-----------------------------------------------------------------------------

CreateStep ==
  \/ InitializeClient \/ StartWatch \/ BindStop
  \/ ConnectMember \/ ConnectQueued \/ ForgetFailed \/ StartPump

PumpEnds == PumpStops \/ PumpMarksEnded \/ PumpReleases

\* What the pump does without waiting for the agent: its channel is closed, or
\* the loop is behind it.
PumpStep == (chan = "closed" /\ PumpStops) \/ PumpMarksEnded \/ PumpReleases

CallStep(p) ==
  \/ Match(p) \/ Checked(p)
  \/ Revoke(p) \/ Terminate(p) \/ CloseConnection(p) \/ EndFailed(p) \/ closeClients(p)

ConnStep(c) ==
  \/ addClient(c) \/ removeClient(c)
  \/ claimControl(c) \/ AnswerFrame(c) \/ writeInput(c) \/ SendInput(c)
  \/ WriterSends(c) \/ WriterFails(c)

Next ==
  \/ CreateStep
  \/ WatchTick \/ WatchCancelled \/ WatchExpires \/ WatchChecked
  \/ \E p \in Procs : Lookup(p) \/ CallStep(p)
  \/ Cleanup
  \/ \E size \in Sizes : appendOutput(size)
  \/ PumpEnds
  \/ LinkDrops \/ LinkSwept \/ OrphanClosed
  \/ \E c \in Conns : ConnStep(c)

Spec == Init /\ [][Next]_vars

-----------------------------------------------------------------------------
(* Fairness.  Goroutines run; enqueue, the HTTP client of Check and the      *)
(* websocket writes have timeouts; a cancelled context stays ready, so the   *)
(* watch's select takes it in the end although ticks compete with it (strong *)
(* fairness); the end of a link sweeps its channels (FrontendStreams); a     *)
(* closed websocket fails its reader.  Nothing is assumed of                 *)
(* the browsers, of the command, of the ticket's expiry or of cleanup.       *)

WatchFairness == WF_vars(WatchChecked) /\ SF_vars(WatchCancelled)

ConnFairness(c) ==
  WF_vars(c \in closed /\ removeClient(c)) /\ WF_vars(addClient(c) \/ SendInput(c))

FairSpec ==
  /\ Spec
  /\ WF_vars(CreateStep) /\ WF_vars(PumpStep) /\ WF_vars(LinkSwept)
  /\ WatchFairness
  /\ \A p \in Procs : WF_vars(CallStep(p))
  /\ \A c \in Conns : ConnFairness(c)

-----------------------------------------------------------------------------
(* Properties *)

CallPositions == {"idle", "match", "checking", "revoke", "terminate", "close", "ended", "sweep",
                  "add", "reading", "sending", "waiting", "gone"}

\* README.md:9, "revocation also clears replay data": a revoked session holds no
\* output and numbers none any more, although the pump keeps reading and
\* createWithAuthorization may still write "connected" over "closing".
RevokedIsSilent ==
  [][/\ grant' = "revoked" => replay' = <<>> /\ replayBytes' = 0
     /\ grant = "revoked" => nextSequence' = nextSequence]_vars

\* Once revokeDelegation has run, no browser connection is registered, not even
\* one that was admitted before and reached addClient only afterwards.
RevokedLeavesNobody ==
  (grant = "revoked" /\ \A p \in Procs : mode[p] = "full" => at[p] \in {"idle", "gone"})
    => \A t \in Tabs : clients[t] = NoConn

\* Control is held by a tab that is connected, and only while the session runs:
\* otherwise nobody could type until someone claims control.
ControllerIsAttached ==
  controller # NoTab => clients[controller] # NoConn /\ ~over /\ kind = "terminal"

Increasing(ns) == \A i, j \in 1..Len(ns) : i < j => ns[i] < ns[j]

\* What was written to the websocket of c, followed by the frames in its channel.
Frame(c, i) == IF i = 0 THEN shown[c] ELSE send[c][i]

Sent(c) == UNION {Range(Frame(c, i)) : i \in 0..Len(send[c])}

\* What a browser connection is sent is in order, without duplicates, and has
\* no gap after the replay: every output from addClient on, up to the newest as
\* long as the connection is open.  A connection that cannot keep up is closed,
\* never served with holes.
OutputIsGapless ==
  \A c \in Conns :
    /\ \A i \in 0..Len(send[c]) : Increasing(Frame(c, i))
    /\ \A i, j \in 0..Len(send[c]) : i < j =>
         \A m \in Range(Frame(c, i)), n \in Range(Frame(c, j)) : m < n
    /\ LET live == {n \in Sent(c) : n > since[c]} IN
       \E m \in since[c]..nextSequence :
         /\ live = since[c] + 1..m
         /\ c \in Registered \ closed => m = nextSequence

\* The replay is, until a revocation, the longest suffix of the outputs that fit
\* at all (frameBytes <= maxReplayBytes) that fits into maxReplayBytes, and
\* replayBytes is its size: it holds those after some output m, and with m as
\* well it would be too large.
ReplayIsLongestSuffix ==
  grant # "revoked" =>
    /\ Increasing(replay)
    /\ replayBytes = FrontBytes(replay, outs)[Len(replay)] /\ replayBytes <= MaxReplay
    /\ \E m \in 0..nextSequence :
         /\ Range(replay) = {n \in m + 1..nextSequence : outs[n] <= MaxReplay}
         /\ m > 0 => outs[m] <= MaxReplay /\ replayBytes + outs[m] > MaxReplay

\* Once the session exists its status only moves towards "ended": late output
\* revives neither a session that is being terminated nor one that is over.
EndIsFinal ==
  [][create = "done" =>
       /\ status = "closing" => status' \in {"closing", "ended"}
       /\ status = "ended" => status' = "ended"]_vars

\* A session that anybody terminates ends (or its creation fails), also when
\* the backend connection is gone, replaced or too slow to take the Close.
TerminationEnds == status = "closing" ~> (status = "ended" \/ create = "failed")

\* Every browser connection of a revoked session is closed.
RevocationDisconnects == \A c \in Conns : (grant = "revoked" /\ Attached(c)) ~> at[c] = "gone"

\* The watch does not outlive the session: it does not go on asking about a
\* ticket until that expires.
WatchEnds == over ~> at[Watcher] \in {"idle", "gone"}

\* COMPATIBILITY.md:25, "The broker preserves terminal output for a bounded
\* ended-session retention window": the output of an ended session is dropped
\* only if the ticket was refused or has expired.
FinalReplayKept == over /\ grant = "revoked" => verdict = "refused"

\* proxy/scoped_delegation_test.go:77, "ScopedPersistentRevocationClosesBackend":
\* when a revoked session has ended, its command does not run.
RevocationClosesBackend == grant = "revoked" /\ pump = "done" => command # "running"
=============================================================================
