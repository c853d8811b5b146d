------------------------- MODULE WebsocketHandlers -------------------------
(***************************************************************************)
(* One browser websocket served by FrontendHandler (proxy/                 *)
(* frontend_handler.go) or StatsHandler (proxy/stats_handler.go): the      *)
(* goroutine of ServeHTTP, one pump per target that copies what the agent  *)
(* sends to the websocket, and the delegation watch of an API Key ticket.  *)
(* A direct stream has one target, a stats aggregate has one or more and   *)
(* ends when every one of them was closed by its agent.                    *)
(*                                                                         *)
(* The backend is what FrontendStreams promises: a channel is closed by    *)
(* closeConnection while its link serves, and by the end of the link.      *)
(***************************************************************************)
EXTENDS Naturals

CONSTANTS
  Kinds,        \* subset of {"direct", "stats"}
  Tickets,      \* subset of {"none", "live"}: "live" carries a grant
  MaxTargets    \* bound: targets of an aggregate (maxStatsTargets)

ASSUME ConstantsAssumption ==
  /\ Kinds \subseteq {"direct", "stats"}
  /\ Tickets \subseteq {"none", "live"}
  /\ MaxTargets \in Nat \ {0}

Targets == 1..MaxTargets

VARIABLES
  kind,         \* which handler
  count,        \* len(statsInfoStructs); 1 for a direct stream
  grant,        \* the ticket's grant
  verdict,      \* history: "refused" once a check failed or the ticket expired
  pc,           \* where ServeHTTP is
  i,            \* the target its loop is at
  ws,           \* the browser's websocket: "none", "open", "closed"
  watch,        \* the goroutine of delegation.Watch
  cancelled,    \* its context
  chan,         \* [target -> its respChannel: "none", "open", "closed"]
  link,         \* [target -> "up", or "down" once removed or replaced]
  command,      \* [target -> at the agent: "none", "running", "gone"]
  pump,         \* [target -> the goroutine that copies to the websocket]
  doneCounter,
  ended         \* history: targets whose Close was received

watchVars   == <<verdict, watch, cancelled>>
backVars    == <<chan, link, command>>
pumpVars    == <<pump, doneCounter, ended>>
vars == <<kind, count, grant, verdict, pc, i, ws, watch, cancelled, chan, link, command, pump,
          doneCounter, ended>>

Init ==
  /\ kind \in Kinds
  /\ count \in IF kind = "direct" THEN {1} ELSE Targets
  /\ grant \in Tickets
  /\ verdict = "ok" /\ watch = "off" /\ cancelled = FALSE
  /\ pc = "auth" /\ i = 1 /\ ws = "none"
  /\ chan = [t \in Targets |-> "none"]
  /\ link = [t \in Targets |-> "up"]
  /\ command = [t \in Targets |-> "none"]
  /\ pump = [t \in Targets |-> "off"]
  /\ doneCounter = 0 /\ ended = {}

-----------------------------------------------------------------------------
(* ServeHTTP until the websocket is established *)

Watching == watch' = IF grant = "live" THEN "waiting" ELSE "off"

\* auth and the upgrade: refused without a websocket, or the direct stream goes
\* on with its watch, whose host has a backend; the aggregate reads its targets.
Auth ==
  /\ pc = "auth"
  /\ \/ pc' = "returned" /\ UNCHANGED <<ws, watch>>
     \/ kind = "direct" /\ link[1] = "up" /\ pc' = "initialize" /\ ws' = "open" /\ Watching
     \/ kind = "stats" /\ pc' = "payload" /\ ws' = "open" /\ UNCHANGED watch
  /\ UNCHANGED <<kind, count, grant, verdict, i, cancelled, backVars, pumpVars>>

\* The first message, for a ticket that announces one; the deadline, or a
\* browser that left, makes ServeHTTP return without closing the websocket.
ReadPayload ==
  /\ pc = "payload"
  /\ pc' \in {"targets", "returned"}
  /\ UNCHANGED <<kind, count, grant, i, ws, watchVars, backVars, pumpVars>>

\* parseStatsInfo and the grant: a refusal with a receipt, and one after the
\* targets were read, closes the websocket, others do not; otherwise every
\* target's host has a backend.
ParseStatsInfo ==
  /\ pc = "targets"
  /\ \/ pc' = "returned" /\ ws' \in {ws, "closed"} /\ UNCHANGED <<watch, doneCounter>>
     \/ /\ \A t \in 1..count : link[t] = "up"
        /\ pc' = "initialize"
        /\ Watching
        /\ doneCounter' = count
        /\ UNCHANGED ws
  /\ UNCHANGED <<kind, count, grant, verdict, cancelled, i, backVars, pump, ended>>

-----------------------------------------------------------------------------
(* ServeHTTP: the targets one after the other, then the browser's messages *)

\* The deferred calls, from the first: what was initialized is released.
Unwind == pc' = "release" /\ i' = 1

\* initializeForURL for target i; a refusal ends the request.
InitializeClient ==
  /\ pc = "initialize"
  /\ \/ Unwind /\ ws' = (IF kind = "direct" THEN "closed" ELSE ws) /\ UNCHANGED chan
     \/ /\ link[i] = "up"
        /\ chan' = [chan EXCEPT ![i] = "open"]
        /\ IF i < count THEN i' = i + 1 /\ UNCHANGED pc ELSE i' = 1 /\ pc' = "pump"
        /\ UNCHANGED ws
  /\ UNCHANGED <<kind, count, grant, watchVars, link, command, pumpVars>>

StartPump ==
  /\ pc = "pump"
  /\ pump' = [pump EXCEPT ![i] = "receiving"]
  /\ pc' = "connect"
  /\ UNCHANGED <<kind, count, grant, i, ws, watchVars, backVars, doneCounter, ended>>

\* backend.connect: refused, also when the host has another connection by now.
Connect ==
  /\ pc = "connect"
  /\ \/ Unwind /\ UNCHANGED command
     \/ /\ link[i] = "up" /\ chan[i] = "open"
        /\ command' = [command EXCEPT ![i] = "running"]
        /\ IF i < count THEN i' = i + 1 /\ pc' = "pump" ELSE i' = 1 /\ pc' = "reading"
  /\ UNCHANGED <<kind, count, grant, ws, watchVars, chan, link, pumpVars>>

ReadFails ==
  /\ pc = "reading" /\ ws = "closed"
  /\ Unwind
  /\ UNCHANGED <<kind, count, grant, ws, watchVars, backVars, pumpVars>>

\* A message of the browser: a direct stream sends it on, an aggregate drops it.
ReadMessage ==
  /\ pc = "reading" /\ ws = "open" /\ kind = "direct"
  /\ pc' = "sending"
  /\ UNCHANGED <<kind, count, grant, i, ws, watchVars, backVars, pumpVars>>

Send ==
  /\ pc = "sending"
  /\ \/ pc' = "reading" /\ UNCHANGED i
     \/ Unwind
  /\ UNCHANGED <<kind, count, grant, ws, watchVars, backVars, pumpVars>>

-----------------------------------------------------------------------------
(* ServeHTTP: the deferred calls *)

\* closeConnection of the manager for target i, if it was initialized: effective
\* while its link serves.  The Close to the agent may not be queued in time.
ReleaseTarget ==
  /\ chan' = IF link[i] = "up" /\ chan[i] = "open" THEN [chan EXCEPT ![i] = "closed"] ELSE chan
  /\ \/ UNCHANGED command
     \/ link[i] = "up" /\ command[i] = "running" /\ command' = [command EXCEPT ![i] = "gone"]

\* Fault: only targets that were connected are released.
Release_ConnectedOnly ==
  /\ pc = "release"
  /\ IF command[i] = "none" THEN UNCHANGED <<chan, command>> ELSE ReleaseTarget
  /\ IF i < count THEN i' = i + 1 /\ UNCHANGED pc
                  ELSE i' = 1 /\ pc' = IF kind = "direct" THEN "cancel" ELSE "close"
  /\ UNCHANGED <<kind, count, grant, ws, watchVars, link, pumpVars>>

\* The deferred closeConnection of a direct stream, closeClient of each target.
Release ==
  /\ pc = "release"
  /\ IF chan[i] = "none" THEN UNCHANGED <<chan, command>> ELSE ReleaseTarget
  /\ IF i < count THEN i' = i + 1 /\ UNCHANGED pc
                  ELSE i' = 1 /\ pc' = IF kind = "direct" THEN "cancel" ELSE "close"
  /\ UNCHANGED <<kind, count, grant, ws, watchVars, link, pumpVars>>

\* Fault: the watch is not cancelled.
Cancel_Forgotten ==
  /\ pc = "cancel"
  /\ pc' = IF kind = "direct" THEN "close" ELSE "returned"
  /\ UNCHANGED <<kind, count, grant, i, ws, watchVars, backVars, pumpVars>>

\* The watch's cancel; deferred after the websocket by a direct stream, before
\* it by an aggregate, so it runs in the opposite order.
Cancel ==
  /\ pc = "cancel"
  /\ cancelled' = (grant = "live")
  /\ pc' = IF kind = "direct" THEN "close" ELSE "returned"
  /\ UNCHANGED <<kind, count, grant, verdict, i, ws, watch, backVars, pumpVars>>

CloseSocket ==
  /\ pc = "close"
  /\ ws' = "closed"
  /\ pc' = IF kind = "direct" THEN "returned" ELSE "cancel"
  /\ UNCHANGED <<kind, count, grant, i, watchVars, backVars, pumpVars>>

-----------------------------------------------------------------------------
(* The pumps *)

\* A message of the agent, handed over by its multiplexer's reader.
PumpReceives(t) ==
  /\ pump[t] = "receiving" /\ chan[t] = "open" /\ command[t] = "running"
  /\ \/ pump' = [pump EXCEPT ![t] = "body"] /\ UNCHANGED <<command, ended>>
     \/ /\ pump' = [pump EXCEPT ![t] = "outcome"]
        /\ command' = [command EXCEPT ![t] = "gone"]
        /\ ended' = ended \cup {t}
  /\ UNCHANGED <<kind, count, grant, pc, i, ws, watchVars, chan, link, doneCounter>>

\* The channel is closed; only a direct stream's pump defers closeConnection.
PumpEnds(t) ==
  /\ pump[t] = "receiving" /\ chan[t] = "closed"
  /\ pump' = [pump EXCEPT ![t] = "done"]
  /\ ws' = IF kind = "direct" THEN "closed" ELSE ws
  /\ UNCHANGED <<kind, count, grant, pc, i, watchVars, backVars, doneCounter, ended>>

\* The body is decoded and written, by an aggregate under mutex.  A failure
\* closes the websocket; it ends an aggregate's pump, and not a direct one.
PumpWrites(t) ==
  /\ pump[t] = "body"
  /\ \/ ws = "open" /\ pump' = [pump EXCEPT ![t] = "receiving"] /\ UNCHANGED ws
     \/ /\ ws' = "closed"
        /\ pump' = [pump EXCEPT ![t] = IF kind = "direct" THEN "receiving" ELSE "done"]
  /\ UNCHANGED <<kind, count, grant, pc, i, watchVars, backVars, doneCounter, ended>>

\* Fault: the counter is tested before it is decremented.
PumpCloses_TestsFirst(t) ==
  /\ pump[t] = "outcome"
  /\ \/ /\ kind = "direct"
        /\ ws' = "closed"
        /\ pump' = [pump EXCEPT ![t] = "receiving"]
        /\ UNCHANGED doneCounter
     \/ /\ kind = "stats"
        /\ doneCounter' = doneCounter - 1
        /\ pump' = [pump EXCEPT ![t] = IF doneCounter = 0 THEN "last" ELSE "done"]
        /\ UNCHANGED ws
  /\ UNCHANGED <<kind, count, grant, pc, i, watchVars, backVars, ended>>

\* Fault: one target's Close ends the aggregate.
PumpCloses_First(t) ==
  /\ pump[t] = "outcome"
  /\ \/ /\ kind = "direct"
        /\ ws' = "closed"
        /\ pump' = [pump EXCEPT ![t] = "receiving"]
        /\ UNCHANGED doneCounter
     \/ /\ kind = "stats"
        /\ doneCounter' = doneCounter - 1
        /\ pump' = [pump EXCEPT ![t] = "last"]
        /\ UNCHANGED ws
  /\ UNCHANGED <<kind, count, grant, pc, i, watchVars, backVars, ended>>

\* A Close: a direct stream closes the websocket and drains its channel, an
\* aggregate's pump counts down under countMutex.
PumpCloses(t) ==
  /\ pump[t] = "outcome"
  /\ \/ /\ kind = "direct"
        /\ ws' = "closed"
        /\ pump' = [pump EXCEPT ![t] = "receiving"]
        /\ UNCHANGED doneCounter
     \/ /\ kind = "stats"
        /\ doneCounter' = doneCounter - 1
        /\ pump' = [pump EXCEPT ![t] = IF doneCounter' = 0 THEN "last" ELSE "done"]
        /\ UNCHANGED ws
  /\ UNCHANGED <<kind, count, grant, pc, i, watchVars, backVars, ended>>

\* The last one closes the websocket, after it gave countMutex back.
PumpClosesSocket(t) ==
  /\ pump[t] = "last"
  /\ ws' = "closed"
  /\ pump' = [pump EXCEPT ![t] = "done"]
  /\ UNCHANGED <<kind, count, grant, pc, i, watchVars, backVars, doneCounter, ended>>

-----------------------------------------------------------------------------
(* The browser, the links and the watch *)

BrowserLeaves ==
  /\ ws = "open"
  /\ ws' = "closed"
  /\ UNCHANGED <<kind, count, grant, pc, i, watchVars, backVars, pumpVars>>

LinkDrops(t) ==
  /\ link[t] = "up"
  /\ link' = [link EXCEPT ![t] = "down"]
  /\ UNCHANGED <<kind, count, grant, pc, i, ws, watchVars, chan, command, pumpVars>>

\* shutdown's sweep; nothing of the command is heard any more.
LinkSwept(t) ==
  /\ link[t] = "down" /\ chan[t] = "open"
  /\ chan' = [chan EXCEPT ![t] = "closed"]
  /\ command' = [command EXCEPT ![t] = IF @ = "running" THEN "gone" ELSE @]
  /\ UNCHANGED <<kind, count, grant, pc, i, ws, watchVars, link, pumpVars>>

\* The multiplexer's reader gave up on a pump that did not take a message for
\* ten seconds; the Close to the agent is queued, or not.
StreamCut(t) ==
  /\ link[t] = "up" /\ chan[t] = "open" /\ command[t] = "running" /\ pump[t] # "receiving"
  /\ chan' = [chan EXCEPT ![t] = "closed"]
  /\ command' \in {command, [command EXCEPT ![t] = "gone"]}
  /\ UNCHANGED <<kind, count, grant, pc, i, ws, watchVars, link, pumpVars>>

\* Output of a command whose channel is gone: the reader sends a Close for it.
OrphanClosed(t) ==
  /\ link[t] = "up" /\ chan[t] = "closed" /\ command[t] = "running"
  /\ command' = [command EXCEPT ![t] = "gone"]
  /\ UNCHANGED <<kind, count, grant, pc, i, ws, watchVars, chan, link, pumpVars>>

WatchTicks ==
  /\ watch = "waiting"
  /\ watch' = "checking"
  /\ UNCHANGED <<kind, count, grant, verdict, pc, i, ws, cancelled, backVars, pumpVars>>

\* Check's answer: accepted, refused, or an error because of the cancel.
WatchChecked ==
  /\ watch = "checking"
  /\ \/ watch' = "waiting" /\ UNCHANGED verdict
     \/ watch' = "denying" /\ verdict' = "refused"
     \/ cancelled /\ watch' = "denying" /\ UNCHANGED verdict
  /\ UNCHANGED <<kind, count, grant, pc, i, ws, cancelled, backVars, pumpVars>>

WatchExpires ==
  /\ watch = "waiting"
  /\ watch' = "denying"
  /\ verdict' = "refused"
  /\ UNCHANGED <<kind, count, grant, pc, i, ws, cancelled, backVars, pumpVars>>

WatchCancelled ==
  /\ watch = "waiting" /\ cancelled
  /\ watch' = "gone"
  /\ UNCHANGED <<kind, count, grant, verdict, pc, i, ws, cancelled, backVars, pumpVars>>

\* Fault: the denial is not acted on.
Deny_Ignored ==
  /\ watch = "denying"
  /\ watch' = "gone"
  /\ UNCHANGED <<kind, count, grant, verdict, pc, i, ws, cancelled, backVars, pumpVars>>

\* deny: closeConnection(ws).
Deny ==
  /\ watch = "denying"
  /\ ws' = "closed"
  /\ watch' = "gone"
  /\ UNCHANGED <<kind, count, grant, verdict, pc, i, cancelled, backVars, pumpVars>>

-----------------------------------------------------------------------------
\* Everything ServeHTTP does without waiting for the browser.
HandlerStep ==
  \/ Auth \/ ReadPayload \/ ParseStatsInfo
  \/ InitializeClient \/ StartPump \/ Connect
  \/ ReadFails \/ Send
  \/ Release \/ Cancel \/ CloseSocket

\* Everything a pump does without waiting for the agent.
PumpStep(t) == PumpEnds(t) \/ PumpWrites(t) \/ PumpCloses(t) \/ PumpClosesSocket(t)

Next ==
  \/ HandlerStep \/ ReadMessage \/ BrowserLeaves
  \/ \E t \in Targets :
       \/ PumpStep(t) \/ PumpReceives(t)
       \/ LinkDrops(t) \/ LinkSwept(t) \/ StreamCut(t) \/ OrphanClosed(t)
  \/ WatchTicks \/ WatchChecked \/ WatchExpires \/ WatchCancelled \/ Deny

Spec == Init /\ [][Next]_vars

\* Goroutines run and their calls have timeouts; a link that is gone is swept; a
\* cancelled context stays ready although ticks compete with it.  Nothing is
\* assumed of the browser, the agents, the links or the ticket's expiry.
FairSpec ==
  /\ Spec
  /\ WF_vars(HandlerStep)
  /\ \A t \in Targets : WF_vars(PumpStep(t)) /\ WF_vars(LinkSwept(t))
  /\ WF_vars(WatchChecked) /\ WF_vars(Deny) /\ SF_vars(WatchCancelled)

-----------------------------------------------------------------------------
(* Properties *)

\* However ServeHTTP returns, after a partial initialization too, no stream of
\* its targets stays registered on a link that serves.
NothingLeftRegistered ==
  pc = "returned" => \A t \in Targets : chan[t] = "open" => link[t] = "down"

\* A pump closes an aggregate's websocket as finished only when the agents of
\* all targets have closed their streams.
LastOneCloses ==
  \A t \in Targets : pump[t] = "last" => ended = 1..count

\* When the agents have closed every target's stream, or a direct stream's
\* channel is closed for any reason, the browser is disconnected and ServeHTTP
\* returns.
EndReachesBrowser ==
  (ended = 1..count \/ (kind = "direct" /\ chan[1] = "closed"))
    ~> (ws = "closed" /\ pc = "returned")

\* No goroutine stays behind once ServeHTTP has returned: the pumps see their
\* channels closed, by closeConnection or by the end of the link, and the watch
\* its context.
NoGoroutineLeft ==
  pc = "returned" ~> (/\ \A t \in Targets : pump[t] \in {"off", "done"}
                      /\ watch \in {"off", "gone"})

\* A ticket that is refused or expires ends the request and its streams.
DenialEndsRequest ==
  verdict = "refused" ~> (pc = "returned" /\ \A t \in Targets : chan[t] # "open")
=============================================================================
