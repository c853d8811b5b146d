---------------------------- MODULE Multiplexer ----------------------------
(***************************************************************************)
(* The multiplexed backend connection: proxy/backend_proxy_manager.go and  *)
(* proxy/multiplexer.go.                                                   *)
(*                                                                         *)
(* One host (backendKey) is modelled; the multiplexers of other hosts      *)
(* share only the manager's map lock with it.  Each connection of the      *)
(* host's agent gets a fresh session identifier (a random UUID in the      *)
(* code, the next number here) and a multiplexer of its own with a reader  *)
(* and a writer goroutine.  Frontend goroutines (Callers) look the current *)
(* multiplexer up under the manager's lock, release the lock and only then *)
(* work on the multiplexer they found, so every call takes several steps   *)
(* and other goroutines, including a reconnecting agent, run in between.   *)
(***************************************************************************)
EXTENDS Integers, Sequences, FiniteSets

CONSTANTS
  Keys,         \* message keys, one per frontend stream (random UUIDs)
  Callers,      \* frontend goroutines that call the manager
  TraceKeys,    \* the keys whose URL carries an API Key ticket (keyTraceURL)
  Capabilities, \* the values of keyTraceCapable that agents declare
  NoKey,        \* the key of a goroutine that is not inside a call
  MaxSessions,  \* bound: connections the agent makes
  QueueCap      \* capacity of messagesToBackend (10 in the code)

Sessions == 1..MaxSessions

\* A reader goroutine calls closeConnection as well.
Procs == Callers \cup Sessions

ASSUME ConstantsAssumption ==
  /\ TraceKeys \subseteq Keys
  /\ Capabilities \subseteq BOOLEAN
  /\ NoKey \notin Keys
  /\ MaxSessions \in Nat \ {0}
  /\ QueueCap \in Nat \ {0}
  /\ Callers \cap Sessions = {}

VARIABLES
  made,           \* number of connections registered so far
  current,        \* b.multiplexers[backendKey]: its session, 0 when absent
  capable,        \* the sessions whose multiplexer is keyTraceCapable
  previous,       \* [session -> connection addBackend still has to shut down]
  shut,           \* [session -> progress of shutdown()]
  frontendChans,  \* [session -> keys registered in m.frontendChans]
  queue,          \* [session -> messagesToBackend]
  reader,         \* [session -> reader goroutine: position and message key]
  call,           \* [goroutine -> where it is inside a manager call]
  chan,           \* [key -> state of the frontend channel]
  home,           \* [key -> session that created the key, 0 before]
  stage,          \* [key -> how far connect(key) has come]
  panics          \* keys whose channel was closed twice or sent on when closed

connVars   == <<made, current, capable, previous>>
muxVars    == <<shut, frontendChans, queue>>
keyVars    == <<chan, home, stage, panics>>
vars == <<made, current, capable, previous, shut, frontendChans, queue,
          reader, call, chan, home, stage, panics>>

MessageTypes == {"Connect", "Body", "Close"}
Messages     == [type : MessageTypes, key : Keys]

\* "no": running; "done": done is closed, the websocket about to be;
\* "removed": websocket closed and removeBackend returned; "swept": finished.
ShutSteps == {"no", "done", "removed", "swept"}

\* Where a goroutine is after the manager's lookup: before the Lock of
\* initializeClient, before the RLock of connect, inside enqueue with one of
\* the three messages, before the Lock of closeConnection.
CallSteps == {"init", "member", "Connect", "Body", "Close", "lock"}
Calls     == [at : CallSteps, key : Keys, mux : Sessions]
Idle      == [at |-> "idle", key |-> NoKey, mux |-> 0]

\* The reader between messages, and with a message in hand.
Off        == [at |-> "off", key |-> NoKey]
ReadLoop   == [at |-> "reading", key |-> NoKey]
Stopped    == [at |-> "stopped", key |-> NoKey]
WithKey    == [at : {"delivering", "closing"}, key : Keys]

Init ==
  /\ made = 0
  /\ current = 0
  /\ capable = {}
  /\ previous = [s \in Sessions |-> 0]
  /\ shut = [s \in Sessions |-> "no"]
  /\ frontendChans = [s \in Sessions |-> {}]
  /\ queue = [s \in Sessions |-> <<>>]
  /\ reader = [s \in Sessions |-> Off]
  /\ call = [p \in Procs |-> Idle]
  /\ chan = [k \in Keys |-> "none"]
  /\ home = [k \in Keys |-> 0]
  /\ stage = [k \in Keys |-> "new"]
  /\ panics = {}

-----------------------------------------------------------------------------
(* Helpers *)

hasBackend == current # 0

supportsKeyTraces == hasBackend /\ current \in capable

\* The manager's gate: a registered backend, with the audit capabilities when
\* the stream's URL carries an API Key ticket.
Admits(k) == hasBackend /\ (k \in TraceKeys => supportsKeyTraces)

\* Fault: the RLock is released before the message is handed over.
Lockable_RLockDropped(s) == TRUE

\* frontendMu.Lock succeeds unless the reader holds the RLock while it hands a
\* message over.  Every other critical section is a single step.
Lockable(s) == reader[s].at # "delivering"

Enter(p, at, k, s) == call' = [call EXCEPT ![p] = [at |-> at, key |-> k, mux |-> s]]

Return(p) == call' = [call EXCEPT ![p] = Idle]

\* close(frontendChan) for every key of ks, with Go's panic on a closed channel.
CloseChans(ks) ==
  /\ chan' = [k \in Keys |-> IF k \in ks THEN "closed" ELSE chan[k]]
  /\ panics' = panics \cup {k \in ks : chan[k] = "closed"}

\* The first step of shutdown(): the Once, and close(m.done).
BeginShutdown(s) == shut' = [shut EXCEPT ![s] = IF @ = "no" THEN "done" ELSE @]

-----------------------------------------------------------------------------
(* Calls of the manager by frontend goroutines *)

\* initializeForURL: initializeClient, or initializeKeyClient for an API Key
\* stream, up to the lookup.  The key is fresh: nobody else is creating it.
InitializeClient(g, k) ==
  /\ call[g] = Idle
  /\ home[k] = 0
  /\ \A p \in Procs : call[p].key # k
  /\ \/ /\ Admits(k)
        /\ Enter(g, "init", k, current)
     \/ /\ ~Admits(k)
        /\ UNCHANGED call
  /\ UNCHANGED <<connVars, muxVars, reader, keyVars>>

\* Fault: done is not looked at under the lock.
InitializeLocked_NoDoneCheck(g) ==
  LET k == call[g].key
      s == call[g].mux
  IN  /\ call[g].at = "init"
      /\ Lockable(s)
      /\ Return(g)
      /\ frontendChans' = [frontendChans EXCEPT ![s] = @ \cup {k}]
      /\ chan' = [chan EXCEPT ![k] = "open"]
      /\ home' = [home EXCEPT ![k] = s]
      /\ UNCHANGED <<connVars, shut, queue, reader, stage, panics>>

\* multiplexer.initializeClient under frontendMu: refused once done is closed.
InitializeLocked(g) ==
  LET k == call[g].key
      s == call[g].mux
  IN  /\ call[g].at = "init"
      /\ Lockable(s)
      /\ Return(g)
      /\ \/ /\ shut[s] # "no"
            /\ UNCHANGED <<frontendChans, chan, home>>
         \/ /\ shut[s] = "no"
            /\ frontendChans' = [frontendChans EXCEPT ![s] = @ \cup {k}]
            /\ chan' = [chan EXCEPT ![k] = "open"]
            /\ home' = [home EXCEPT ![k] = s]
      /\ UNCHANGED <<connVars, shut, queue, reader, stage, panics>>

\* connect, called once per key: capability gate on the multiplexer found.
Connect(g, k) ==
  /\ call[g] = Idle
  /\ home[k] # 0
  /\ stage[k] = "new"
  /\ stage' = [stage EXCEPT ![k] = "asked"]
  /\ \/ /\ Admits(k)
        /\ Enter(g, "member", k, current)
     \/ /\ ~Admits(k)
        /\ UNCHANGED call
  /\ UNCHANGED <<connVars, muxVars, reader, chan, home, panics>>

\* Fault: the membership of the key is not checked.
ConnectMember_Unchecked(g) ==
  /\ call[g].at = "member"
  /\ Enter(g, "Connect", call[g].key, call[g].mux)
  /\ UNCHANGED <<connVars, muxVars, reader, keyVars>>

\* multiplexer.connect: the membership check, whose RLock is released before
\* the Connect message is queued.
ConnectMember(g) ==
  LET k == call[g].key
      s == call[g].mux
  IN  /\ call[g].at = "member"
      /\ \/ k \in frontendChans[s] /\ Enter(g, "Connect", k, s)
         \/ k \notin frontendChans[s] /\ Return(g)
      /\ UNCHANGED <<connVars, muxVars, reader, keyVars>>

\* send: no membership check, no capability gate.
Send(g, k) ==
  /\ call[g] = Idle
  /\ stage[k] = "linked"
  /\ IF hasBackend THEN Enter(g, "Body", k, current) ELSE UNCHANGED call
  /\ UNCHANGED <<connVars, muxVars, reader, keyVars>>

\* closeConnection (tells the agent first) and releaseConnection (does not).
CloseConnection(p, k) ==
  IF hasBackend THEN Enter(p, "Close", k, current) ELSE UNCHANGED call

ReleaseConnection(p, k) ==
  IF hasBackend THEN Enter(p, "lock", k, current) ELSE UNCHANGED call

Finish(g, k) ==
  /\ call[g] = Idle
  /\ home[k] # 0
  /\ CloseConnection(g, k) \/ ReleaseConnection(g, k)
  /\ UNCHANGED <<connVars, muxVars, reader, keyVars>>

\* enqueue: what the caller does once the select has an outcome.  An error of
\* sendClose is kept and the channel is still closed under the lock.
AfterEnqueue(p) ==
  IF call[p].at = "Close"
    THEN Enter(p, "lock", call[p].key, call[p].mux)
    ELSE Return(p)

\* Fault: the queue has no capacity.
Enqueued_Unbounded(p) ==
  /\ call[p].at \in MessageTypes
  /\ queue' = [queue EXCEPT ![call[p].mux] =
                 Append(@, [type |-> call[p].at, key |-> call[p].key])]
  /\ AfterEnqueue(p)
  /\ UNCHANGED <<connVars, shut, frontendChans, reader, keyVars>>

Enqueued(p) ==
  LET k == call[p].key
      s == call[p].mux
  IN  /\ call[p].at \in MessageTypes
      /\ Len(queue[s]) < QueueCap
      /\ queue' = [queue EXCEPT ![s] = Append(@, [type |-> call[p].at, key |-> k])]
      /\ stage' = IF call[p].at = "Connect" THEN [stage EXCEPT ![k] = "linked"] ELSE stage
      /\ AfterEnqueue(p)
      /\ UNCHANGED <<connVars, shut, frontendChans, reader, chan, home, panics>>

\* Fault: enqueue has no timer.
NotEnqueued_NoTimer(p) ==
  /\ call[p].at \in MessageTypes
  /\ shut[call[p].mux] # "no"
  /\ AfterEnqueue(p)
  /\ UNCHANGED <<connVars, muxVars, reader, keyVars>>

\* Fault: closeConnection returns as soon as sendClose fails.
NotEnqueued_EarlyReturn(p) ==
  /\ call[p].at \in MessageTypes
  /\ shut[call[p].mux] # "no" \/ Len(queue[call[p].mux]) = QueueCap
  /\ Return(p)
  /\ UNCHANGED <<connVars, muxVars, reader, keyVars>>

\* done is closed (the select may then take either case), or ten seconds have
\* passed with the queue full.
NotEnqueued(p) ==
  /\ call[p].at \in MessageTypes
  /\ shut[call[p].mux] # "no" \/ Len(queue[call[p].mux]) = QueueCap
  /\ AfterEnqueue(p)
  /\ UNCHANGED <<connVars, muxVars, reader, keyVars>>

\* The message is longer than MaxWireMessageBytes, which a Close never is.
TooLong(p) ==
  /\ call[p].at \in {"Connect", "Body"}
  /\ Return(p)
  /\ UNCHANGED <<connVars, muxVars, reader, keyVars>>

\* closeConnection: close and delete under frontendMu, if still registered.
CloseLocked(p) ==
  LET k == call[p].key
      s == call[p].mux
  IN  /\ call[p].at = "lock"
      /\ Lockable(s)
      /\ CloseChans({k} \cap frontendChans[s])
      /\ frontendChans' = [frontendChans EXCEPT ![s] = @ \ {k}]
      /\ Return(p)
      /\ UNCHANGED <<connVars, shut, queue, reader, home, stage>>

-----------------------------------------------------------------------------
(* The agent connects: addBackendWithKeyCapabilities *)

\* The map entry is swapped under the manager's lock, then routeMessages starts
\* the two goroutines ...
AddBackend(cap) ==
  /\ made < MaxSessions
  /\ made' = made + 1
  /\ capable' = IF cap THEN capable \cup {made'} ELSE capable
  /\ previous' = [previous EXCEPT ![made'] = current]
  /\ current' = made'
  /\ reader' = [reader EXCEPT ![made'] = ReadLoop]
  /\ UNCHANGED <<muxVars, call, keyVars>>

\* Fault: the replaced connection is left alone.
ShutdownPrevious_Forgotten(s) ==
  /\ previous[s] # 0
  /\ previous' = [previous EXCEPT ![s] = 0]
  /\ UNCHANGED <<made, current, capable, muxVars, reader, call, keyVars>>

\* ... and the connection that was replaced is shut down.
ShutdownPrevious(s) ==
  /\ previous[s] # 0
  /\ BeginShutdown(previous[s])
  /\ previous' = [previous EXCEPT ![s] = 0]
  /\ UNCHANGED <<made, current, capable, frontendChans, queue, reader, call, keyVars>>

-----------------------------------------------------------------------------
(* shutdown, run by whichever goroutine won the Once *)

\* Fault: removeBackend does not compare session identifiers.
RemoveBackend_AnySession(s) ==
  /\ shut[s] = "done"
  /\ shut' = [shut EXCEPT ![s] = "removed"]
  /\ current' = 0
  /\ UNCHANGED <<made, capable, previous, frontendChans, queue, reader, call, keyVars>>

\* Fault: shutdown leaves the entry in the map.
RemoveBackend_Forgotten(s) ==
  /\ shut[s] = "done"
  /\ shut' = [shut EXCEPT ![s] = "removed"]
  /\ UNCHANGED <<connVars, frontendChans, queue, reader, call, keyVars>>

\* connection.Close and removeBackend: the entry goes only if it is this one.
RemoveBackend(s) ==
  /\ shut[s] = "done"
  /\ shut' = [shut EXCEPT ![s] = "removed"]
  /\ current' = IF current = s THEN 0 ELSE current
  /\ UNCHANGED <<made, capable, previous, frontendChans, queue, reader, call, keyVars>>

\* Every channel still registered is closed and deleted under frontendMu.
Sweep(s) ==
  /\ shut[s] = "removed"
  /\ Lockable(s)
  /\ shut' = [shut EXCEPT ![s] = "swept"]
  /\ CloseChans(frontendChans[s])
  /\ frontendChans' = [frontendChans EXCEPT ![s] = {}]
  /\ UNCHANGED <<connVars, queue, reader, call, home, stage>>

-----------------------------------------------------------------------------
(* The reader goroutine of routeMessages *)

Reading(s) == reader[s] = ReadLoop /\ call[s] = Idle

\* ReadMessage fails, or the message does not parse: shutdown, then return.
ReadFails(s) ==
  /\ Reading(s)
  /\ BeginShutdown(s)
  /\ reader' = [reader EXCEPT ![s] = Stopped]
  /\ UNCHANGED <<connVars, frontendChans, queue, call, keyVars>>

\* A message of type t for key k arrives: the lookup under the RLock.  The
\* reader keeps the RLock when it finds the channel.  An agent knows the keys
\* it was sent, on this connection or on an earlier one; a key it made up would
\* be treated like one whose stream has ended.
ReadMessage(s, k, t) ==
  /\ Reading(s)
  /\ home[k] # 0
  /\ \/ k \in frontendChans[s] /\ reader' = [reader EXCEPT ![s] = [at |-> "delivering", key |-> k]]
     \/ /\ k \notin frontendChans[s]
        /\ t # "Close"
        /\ reader' = [reader EXCEPT ![s] = [at |-> "closing", key |-> k]]
  /\ UNCHANGED <<connVars, muxVars, call, keyVars>>

\* The consumer takes the message; a send on a closed channel panics.
Deliver(s) ==
  /\ reader[s].at = "delivering"
  /\ panics' = panics \cup {k \in {reader[s].key} : chan[k] = "closed"}
  /\ reader' = [reader EXCEPT ![s] = ReadLoop]
  /\ UNCHANGED <<connVars, muxVars, call, chan, home, stage>>

\* Ten seconds pass: the RLock is released, the stream is to be closed.
DeliverTimeout(s) ==
  /\ reader[s].at = "delivering"
  /\ reader' = [reader EXCEPT ![s] = [at |-> "closing", key |-> reader[s].key]]
  /\ UNCHANGED <<connVars, muxVars, call, keyVars>>

\* proxyManager.closeConnection(backendKey, key): on the multiplexer that is
\* registered now, which need not be the reader's own.
ReaderCloses(s) ==
  /\ reader[s].at = "closing"
  /\ CloseConnection(s, reader[s].key)
  /\ reader' = [reader EXCEPT ![s] = ReadLoop]
  /\ UNCHANGED <<connVars, muxVars, keyVars>>

-----------------------------------------------------------------------------
(* The writer goroutine of routeMessages.  It returns after a failed write   *)
(* or ping and when it sees done closed, that is, only once shutdown has     *)
(* begun; until its websocket is closed it may still pick a queued message,  *)
(* because select chooses among the ready cases at random.                   *)

WriterRuns(s) == s <= made /\ shut[s] \in {"no", "done"}

WriterSends(s) ==
  /\ WriterRuns(s)
  /\ queue[s] # <<>>
  /\ queue' = [queue EXCEPT ![s] = Tail(@)]
  /\ UNCHANGED <<connVars, shut, frontendChans, reader, call, keyVars>>

\* A write (the message is gone) or a ping fails: shutdown.
WriterFails(s) ==
  /\ WriterRuns(s)
  /\ \/ UNCHANGED queue
     \/ queue[s] # <<>> /\ queue' = [queue EXCEPT ![s] = Tail(@)]
  /\ BeginShutdown(s)
  /\ UNCHANGED <<connVars, frontendChans, reader, call, keyVars>>

-----------------------------------------------------------------------------

CallStep(p) ==
  InitializeLocked(p) \/ ConnectMember(p) \/ Enqueued(p) \/ NotEnqueued(p) \/ CloseLocked(p)

Next ==
  \/ \E g \in Callers, k \in Keys :
       InitializeClient(g, k) \/ Connect(g, k) \/ Send(g, k) \/ Finish(g, k)
  \/ \E p \in Procs : CallStep(p) \/ TooLong(p)
  \/ \E cap \in Capabilities : AddBackend(cap)
  \/ \E s \in Sessions :
       \/ ShutdownPrevious(s) \/ RemoveBackend(s) \/ Sweep(s)
       \/ ReadFails(s) \/ Deliver(s) \/ DeliverTimeout(s) \/ ReaderCloses(s)
       \/ WriterSends(s) \/ WriterFails(s)
       \/ \E k \in Keys, t \in {"Body", "Close"} : ReadMessage(s, k, t)

Spec == Init /\ [][Next]_vars

-----------------------------------------------------------------------------
(* Fairness.  Goroutines are scheduled, timers fire, and the goroutine that  *)
(* won the Once goes on with shutdown: weak fairness.  A goroutine waiting   *)
(* for frontendMu.Lock gets it although the reader takes the RLock again and *)
(* again, because sync.RWMutex holds new readers back once a writer waits:   *)
(* strong fairness of the steps that take the lock.  A goroutine is in one   *)
(* place at a time, so one condition covers all steps of its program (not    *)
(* TooLong, which no timer brings about).                                    *)
(* Nothing is assumed of the consumers, of the agent or of the network.      *)

ShutdownStep(s) == RemoveBackend(s) \/ Sweep(s)

ReaderStep(s) == DeliverTimeout(s) \/ ReaderCloses(s)

ConnectionFairness ==
  \A s \in Sessions :
    /\ SF_vars(ShutdownStep(s))
    /\ WF_vars(ShutdownPrevious(s))
    /\ WF_vars(ReaderStep(s))
    /\ SF_vars(CallStep(s))

CallFairness == \A g \in Callers : SF_vars(CallStep(g))

FairConnections == Spec /\ ConnectionFairness

FairSpec == Spec /\ ConnectionFairness /\ CallFairness

-----------------------------------------------------------------------------
(* Properties *)

TypeOK ==
  /\ made \in 0..MaxSessions
  /\ current \in 0..MaxSessions
  /\ capable \in SUBSET Sessions
  /\ previous \in [Sessions -> 0..MaxSessions]
  /\ shut \in [Sessions -> ShutSteps]
  /\ frontendChans \in [Sessions -> SUBSET Keys]
  /\ queue \in [Sessions -> Seq(Messages)]
  /\ \A s \in Sessions : Len(queue[s]) <= QueueCap
  /\ reader \in [Sessions -> {Off, ReadLoop, Stopped} \cup WithKey]
  /\ call \in [Procs -> {Idle} \cup Calls]
  /\ chan \in [Keys -> {"none", "open", "closed"}]
  /\ home \in [Keys -> 0..MaxSessions]
  /\ stage \in [Keys -> {"new", "asked", "linked"}]
  /\ panics \in SUBSET Keys

\* No goroutine sends on a frontend channel that is closed or closes one twice,
\* although the reader, any caller of closeConnection and shutdown all use the
\* same channel: either would be a run-time panic that ends the whole proxy.
NoPanic == panics = {}

\* Once shutdown has swept a connection no client is registered on it, however
\* long ago that client looked the multiplexer up: otherwise its goroutine
\* would wait for ever on a channel that nobody closes.
NoStrandedClient == \A s \in Sessions : shut[s] = "swept" => frontendChans[s] = {}

\* The manager never hands out a connection past its own removeBackend, and the
\* entry is always the newest connection: a late shutdown of a replaced
\* connection neither removes its successor nor brings itself back.
RegistryHoldsNewest ==
  /\ current \in {0, made}
  /\ hasBackend => shut[current] \in {"no", "done"}

\* The entry disappears only in the shutdown of that very connection.
EvictedByOwnShutdown ==
  [][hasBackend /\ current' = 0 => shut[current] = "done" /\ shut'[current] = "removed"]_vars

\* A Connect is only ever queued for the connection the client was created on,
\* and for an API Key stream only on a connection that declared the audit
\* capabilities: a replacement between initializeClient and connect, or between
\* connect's lookup and its enqueue, cannot move it.
ConnectsStayHome ==
  \A s \in Sessions : \A i \in 1..Len(queue[s]) :
    queue[s][i].type = "Connect" =>
      /\ home[queue[s][i].key] = s
      /\ queue[s][i].key \in TraceKeys => s \in capable

\* README.md:11, "Missing capabilities prevent forwarding any execution
\* payload": no Body of an API Key stream is queued on a connection without the
\* capabilities.
PayloadNeedsCapability ==
  \A s \in Sessions : \A i \in 1..Len(queue[s]) :
    (queue[s][i].type = "Body" /\ queue[s][i].key \in TraceKeys) => s \in capable

\* A client that does not take its message within ten seconds is cut off: its
\* channel gets closed, also when the reader's connection has been replaced and
\* closeConnection goes to a multiplexer that has never heard of the key, or
\* when there is no registered connection to go to at all.
SlowClientIsClosed ==
  \A s \in Sessions, k \in Keys :
    (reader[s] = [at |-> "closing", key |-> k] /\ home[k] = s) ~> chan[k] = "closed"

\* No call of the manager hangs, whatever the consumers, the agent and the
\* other goroutines do: the two ten-second timers break every wait.
CallsReturn == \A p \in Procs : call[p] # Idle ~> call[p] = Idle
=============================================================================
