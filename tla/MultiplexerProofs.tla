------------------------- MODULE MultiplexerProofs -------------------------
(***************************************************************************)
(* Proofs about Multiplexer for every set of keys and callers, any number  *)
(* of connections and any queue capacity.                                  *)
(***************************************************************************)
EXTENDS MultiplexerRefinement, TLAPS

-----------------------------------------------------------------------------
(* Typing of the pieces that actions are built from *)

\* Sessions are numbered from one: 0 is the "no session" value.
LEMMA SessionsNonzero == \A s \in Sessions : s # 0
BY ConstantsAssumption DEF Sessions

\* A goroutine that is inside a manager call holds a key and a multiplexer.
LEMMA InCall ==
  ASSUME TypeOK, NEW p \in Procs, call[p].at \in CallSteps
  PROVE  call[p] \in Calls /\ call[p].key \in Keys /\ call[p].mux \in Sessions
<1>1. call[p] \in {Idle} \cup Calls
  BY Zenon DEF TypeOK
<1>2. call[p] # Idle
  BY DEF Idle, CallSteps
<1>3. QED
  BY Zenon, <1>1, <1>2 DEF Calls

\* A reader with a message in hand holds its key.
LEMMA InHand ==
  ASSUME TypeOK, NEW s \in Sessions, reader[s].at \in {"delivering", "closing"}
  PROVE  reader[s] \in WithKey /\ reader[s].key \in Keys
<1>1. reader[s] \in {Off, ReadLoop, Stopped} \cup WithKey
  BY Zenon DEF TypeOK
<1>2. reader[s] \notin {Off, ReadLoop, Stopped}
  BY DEF Off, ReadLoop, Stopped
<1>3. QED
  BY Zenon, <1>1, <1>2 DEF WithKey

\* The manager's lookup yields a registered session.
LEMMA Looked ==
  ASSUME TypeOK, hasBackend
  PROVE  current \in Sessions
BY ConstantsAssumption DEF TypeOK, hasBackend, Sessions

\* Advancing inside a call keeps the table of calls well typed.
LEMMA EnterTyped ==
  ASSUME TypeOK, NEW p \in Procs, NEW at \in CallSteps, NEW k \in Keys, NEW s \in Sessions,
         Enter(p, at, k, s)
  PROVE  call' \in [Procs -> {Idle} \cup Calls]
<1>1. [at |-> at, key |-> k, mux |-> s] \in Calls
  BY Zenon DEF Calls
<1>2. QED
  BY Zenon, <1>1 DEF TypeOK, Enter

\* So does returning from one.
LEMMA ReturnTyped ==
  ASSUME TypeOK, NEW p \in Procs, Return(p)
  PROVE  call' \in [Procs -> {Idle} \cup Calls]
BY Zenon DEF TypeOK, Return

\* After an enqueue the caller has returned, or is about to take the lock.
LEMMA AfterEnqueueTyped ==
  ASSUME TypeOK, NEW p \in Procs, call[p].at \in MessageTypes, AfterEnqueue(p)
  PROVE  call' \in [Procs -> {Idle} \cup Calls]
<1>1. call[p].at \in CallSteps /\ "lock" \in CallSteps
  BY Zenon DEF MessageTypes, CallSteps
<1>2. CASE Enter(p, "lock", call[p].key, call[p].mux)
  BY Zenon, <1>1, <1>2, InCall, EnterTyped
<1>3. CASE Return(p)
  BY Zenon, <1>3, ReturnTyped
<1>4. QED
  BY Zenon, <1>2, <1>3 DEF AfterEnqueue

\* closeConnection up to its lookup, by a caller or by a reader.
LEMMA CloseConnectionTyped ==
  ASSUME TypeOK, NEW p \in Procs, NEW k \in Keys,
         CloseConnection(p, k) \/ ReleaseConnection(p, k)
  PROVE  call' \in [Procs -> {Idle} \cup Calls]
<1>1. "Close" \in CallSteps /\ "lock" \in CallSteps
  BY Zenon DEF CallSteps
<1>2. CASE UNCHANGED call
  BY Zenon, <1>2 DEF TypeOK
<1>3. CASE hasBackend /\ (Enter(p, "Close", k, current) \/ Enter(p, "lock", k, current))
  BY Zenon, <1>1, <1>3, Looked, EnterTyped
<1>4. QED
  BY Zenon, <1>2, <1>3 DEF CloseConnection, ReleaseConnection

\* The first step of shutdown keeps the table of shutdowns well typed.
LEMMA BeginShutdownTyped ==
  ASSUME TypeOK, NEW s \in 0..MaxSessions, BeginShutdown(s)
  PROVE  shut' \in [Sessions -> ShutSteps]
BY ZenonT(30) DEF TypeOK, BeginShutdown, ShutSteps

\* Taking the head off a queue keeps it typed and within its capacity.
LEMMA PopTyped ==
  ASSUME TypeOK, NEW s \in Sessions,
         queue[s] # <<>>, queue' = [queue EXCEPT ![s] = Tail(@)]
  PROVE  /\ queue' \in [Sessions -> Seq(Messages)]
         /\ \A r \in Sessions : Len(queue'[r]) <= QueueCap
<1>1. queue[s] \in Seq(Messages) /\ Len(queue[s]) <= QueueCap
  BY Zenon DEF TypeOK
<1>2. Tail(queue[s]) \in Seq(Messages) /\ Len(Tail(queue[s])) <= QueueCap
  BY <1>1, ConstantsAssumption
<1>3. QED
  BY Zenon, <1>2 DEF TypeOK

-----------------------------------------------------------------------------

\* Type correctness of the manager, the multiplexers and their callers; the
\* bound on the queue to the agent is part of it.
THEOREM TypeCorrect == Spec => []TypeOK
<1>1. Init => TypeOK
  BY ConstantsAssumption DEF Init, TypeOK, Sessions, ShutSteps, Messages
<1>2. TypeOK /\ [Next]_vars => TypeOK'
  <2> SUFFICES ASSUME TypeOK, [Next]_vars
               PROVE  TypeOK'
    BY Zenon
  <2> USE DEF connVars, muxVars, keyVars
  <2>1. ASSUME NEW g \in Callers, NEW k \in Keys, InitializeClient(g, k)
        PROVE  TypeOK'
    <3>1. g \in Procs /\ "init" \in CallSteps
      BY Zenon DEF Procs, CallSteps
    <3>2. call' \in [Procs -> {Idle} \cup Calls]
      BY Zenon, <2>1, <3>1, EnterTyped, Looked DEF InitializeClient, Admits, TypeOK
    <3>3. QED
      BY Zenon, <2>1, <3>2 DEF InitializeClient, TypeOK
  <2>2. ASSUME NEW g \in Callers, NEW k \in Keys, Connect(g, k)
        PROVE  TypeOK'
    <3>1. g \in Procs /\ "member" \in CallSteps
      BY Zenon DEF Procs, CallSteps
    <3>2. call' \in [Procs -> {Idle} \cup Calls]
      BY Zenon, <2>2, <3>1, EnterTyped, Looked DEF Connect, Admits, TypeOK
    <3>3. stage' \in [Keys -> {"new", "asked", "linked"}]
      BY Zenon, <2>2 DEF Connect, TypeOK
    <3>4. QED
      BY Zenon, <2>2, <3>2, <3>3 DEF Connect, TypeOK
  <2>3. ASSUME NEW g \in Callers, NEW k \in Keys, Send(g, k)
        PROVE  TypeOK'
    <3>1. g \in Procs /\ "Body" \in CallSteps
      BY Zenon DEF Procs, CallSteps
    <3>2. call' \in [Procs -> {Idle} \cup Calls]
      BY Zenon, <2>3, <3>1, EnterTyped, Looked DEF Send, TypeOK
    <3>3. QED
      BY Zenon, <2>3, <3>2 DEF Send, TypeOK
  <2>4. ASSUME NEW g \in Callers, NEW k \in Keys, Finish(g, k)
        PROVE  TypeOK'
    <3>1. call' \in [Procs -> {Idle} \cup Calls]
      BY Zenon, <2>4, CloseConnectionTyped DEF Finish, Procs
    <3>2. QED
      BY Zenon, <2>4, <3>1 DEF Finish, TypeOK
  <2>5. ASSUME NEW p \in Procs, InitializeLocked(p)
        PROVE  TypeOK'
    <3>1. call[p].key \in Keys /\ call[p].mux \in Sessions
      BY Zenon, <2>5, InCall DEF InitializeLocked, CallSteps
    <3>2. call' \in [Procs -> {Idle} \cup Calls]
      BY Zenon, <2>5, ReturnTyped DEF InitializeLocked
    <3>3. /\ frontendChans' \in [Sessions -> SUBSET Keys]
          /\ chan' \in [Keys -> {"none", "open", "closed"}]
          /\ home' \in [Keys -> 0..MaxSessions]
      <4>1. call[p].mux \in 0..MaxSessions
        BY <3>1, ConstantsAssumption DEF Sessions
      <4>2. frontendChans' \in [Sessions -> SUBSET Keys]
        <5>1. frontendChans \in [Sessions -> SUBSET Keys]
          BY Zenon DEF TypeOK
        <5>2. frontendChans[call[p].mux] \cup {call[p].key} \in SUBSET Keys
          BY Zenon, <3>1, <5>1
        <5>3. QED
          BY Zenon, <2>5, <5>1, <5>2 DEF InitializeLocked
      <4>3. chan' \in [Keys -> {"none", "open", "closed"}]
        BY ZenonT(30), <2>5, <3>1 DEF InitializeLocked, TypeOK
      <4>4. home' \in [Keys -> 0..MaxSessions]
        BY ZenonT(30), <2>5, <3>1, <4>1 DEF InitializeLocked, TypeOK
      <4>5. QED
        BY Zenon, <4>2, <4>3, <4>4
    <3>4. QED
      BY Zenon, <2>5, <3>2, <3>3 DEF InitializeLocked, TypeOK
  <2>6. ASSUME NEW p \in Procs, ConnectMember(p)
        PROVE  TypeOK'
    <3>1. call[p].at \in CallSteps /\ "Connect" \in CallSteps
      BY Zenon, <2>6 DEF ConnectMember, CallSteps
    <3>2. call' \in [Procs -> {Idle} \cup Calls]
      BY Zenon, <2>6, <3>1, InCall, EnterTyped, ReturnTyped DEF ConnectMember
    <3>3. QED
      BY Zenon, <2>6, <3>2 DEF ConnectMember, TypeOK
  <2>7. ASSUME NEW p \in Procs, Enqueued(p)
        PROVE  TypeOK'
    <3> DEFINE s == call[p].mux
    <3>1. call[p].key \in Keys /\ s \in Sessions
      BY Zenon, <2>7, InCall DEF Enqueued, MessageTypes, CallSteps
    <3>2. call' \in [Procs -> {Idle} \cup Calls]
      BY Zenon, <2>7, AfterEnqueueTyped DEF Enqueued
    <3>3. [type |-> call[p].at, key |-> call[p].key] \in Messages
      BY Zenon, <2>7, <3>1 DEF Enqueued, Messages
    <3>4. /\ queue' \in [Sessions -> Seq(Messages)]
          /\ \A r \in Sessions : Len(queue'[r]) <= QueueCap
      BY <2>7, <3>1, <3>3, ConstantsAssumption DEF Enqueued, TypeOK
    <3>5. stage' \in [Keys -> {"new", "asked", "linked"}]
      BY Zenon, <2>7, <3>1 DEF Enqueued, TypeOK
    <3>6. QED
      BY Zenon, <2>7, <3>2, <3>4, <3>5 DEF Enqueued, TypeOK
  <2>8. ASSUME NEW p \in Procs, NotEnqueued(p) \/ TooLong(p)
        PROVE  TypeOK'
    BY Zenon, <2>8, AfterEnqueueTyped, ReturnTyped DEF NotEnqueued, TooLong, TypeOK
  <2>9. ASSUME NEW p \in Procs, CloseLocked(p)
        PROVE  TypeOK'
    <3>1. call[p].key \in Keys /\ call[p].mux \in Sessions
      BY Zenon, <2>9, InCall DEF CloseLocked, CallSteps
    <3>2. call' \in [Procs -> {Idle} \cup Calls]
      BY Zenon, <2>9, ReturnTyped DEF CloseLocked
    <3>3. /\ frontendChans' \in [Sessions -> SUBSET Keys]
          /\ chan' \in [Keys -> {"none", "open", "closed"}]
          /\ panics' \in SUBSET Keys
      BY Zenon, <2>9, <3>1 DEF CloseLocked, CloseChans, TypeOK
    <3>4. QED
      BY Zenon, <2>9, <3>2, <3>3 DEF CloseLocked, TypeOK
  <2>10. ASSUME NEW cap \in Capabilities, AddBackend(cap)
         PROVE  TypeOK'
    <3>1. made' \in Sessions /\ made' \in 0..MaxSessions
      BY <2>10, ConstantsAssumption DEF AddBackend, TypeOK, Sessions
    <3>2. QED
      BY Zenon, <2>10, <3>1 DEF AddBackend, TypeOK
  <2>11. ASSUME NEW s \in Sessions, ShutdownPrevious(s)
         PROVE  TypeOK'
    <3>1. shut' \in [Sessions -> ShutSteps]
      BY Zenon, <2>11, BeginShutdownTyped DEF ShutdownPrevious, TypeOK
    <3>2. previous' \in [Sessions -> 0..MaxSessions]
      BY <2>11, ConstantsAssumption DEF ShutdownPrevious, TypeOK
    <3>3. QED
      BY Zenon, <2>11, <3>1, <3>2 DEF ShutdownPrevious, TypeOK
  <2>12. ASSUME NEW s \in Sessions, RemoveBackend(s)
         PROVE  TypeOK'
    BY <2>12, ConstantsAssumption DEF RemoveBackend, TypeOK, ShutSteps
  <2>13. ASSUME NEW s \in Sessions, Sweep(s)
         PROVE  TypeOK'
    BY Zenon, <2>13 DEF Sweep, CloseChans, TypeOK, ShutSteps
  <2>14. ASSUME NEW s \in Sessions, ReadFails(s)
         PROVE  TypeOK'
    <3>1. shut' \in [Sessions -> ShutSteps]
      BY <2>14, BeginShutdownTyped, ConstantsAssumption DEF ReadFails, Sessions
    <3>2. QED
      BY ZenonT(30), <2>14, <3>1 DEF ReadFails, TypeOK
  <2>15. ASSUME NEW s \in Sessions, Deliver(s)
         PROVE  TypeOK'
    <3>1. reader[s].key \in Keys
      BY Zenon, <2>15, InHand DEF Deliver
    <3>2. QED
      BY Zenon, <2>15, <3>1 DEF Deliver, TypeOK
  <2>16. ASSUME NEW s \in Sessions, DeliverTimeout(s)
         PROVE  TypeOK'
    <3>1. reader[s].key \in Keys
      BY Zenon, <2>16, InHand DEF DeliverTimeout
    <3>2. [at |-> "closing", key |-> reader[s].key] \in WithKey
      BY Zenon, <3>1 DEF WithKey
    <3>3. QED
      BY Zenon, <2>16, <3>2 DEF DeliverTimeout, TypeOK
  <2>17. ASSUME NEW s \in Sessions, ReaderCloses(s)
         PROVE  TypeOK'
    <3>1. reader[s].key \in Keys
      BY Zenon, <2>17, InHand DEF ReaderCloses
    <3>2. call' \in [Procs -> {Idle} \cup Calls]
      BY Zenon, <2>17, <3>1, CloseConnectionTyped DEF ReaderCloses, Procs
    <3>3. QED
      BY Zenon, <2>17, <3>2 DEF ReaderCloses, TypeOK
  <2>18. ASSUME NEW s \in Sessions, WriterSends(s)
         PROVE  TypeOK'
    BY ZenonT(30), <2>18, PopTyped DEF WriterSends, TypeOK
  <2>19. ASSUME NEW s \in Sessions, WriterFails(s)
         PROVE  TypeOK'
    <3>1. shut' \in [Sessions -> ShutSteps]
      BY <2>19, BeginShutdownTyped, ConstantsAssumption DEF WriterFails, Sessions
    <3>2. /\ queue' \in [Sessions -> Seq(Messages)]
          /\ \A r \in Sessions : Len(queue'[r]) <= QueueCap
      BY Zenon, <2>19, PopTyped DEF WriterFails, TypeOK
    <3>3. QED
      BY Zenon, <2>19, <3>1, <3>2 DEF WriterFails, TypeOK
  <2>20. ASSUME NEW s \in Sessions, NEW k \in Keys, NEW t \in {"Body", "Close"},
                ReadMessage(s, k, t)
         PROVE  TypeOK'
    <3>1. \A a \in {"delivering", "closing"} : [at |-> a, key |-> k] \in WithKey
      BY Zenon DEF WithKey
    <3>2. reader' \in [Sessions -> {Off, ReadLoop, Stopped} \cup WithKey]
      BY ZenonT(30), <2>20, <3>1 DEF ReadMessage, TypeOK
    <3>3. QED
      BY Zenon, <2>20, <3>2 DEF ReadMessage, TypeOK
  <2>21. CASE UNCHANGED vars
    BY Zenon, <2>21 DEF TypeOK, vars
  <2>22. QED
    BY Zenon, <2>1, <2>2, <2>3, <2>4, <2>5, <2>6, <2>7, <2>8, <2>9, <2>10, <2>11, <2>12, <2>13,
       <2>14, <2>15, <2>16, <2>17, <2>18, <2>19, <2>20, <2>21 DEF Next, CallStep
<1>3. QED
  BY <1>1, <1>2, PTL DEF Spec
-----------------------------------------------------------------------------
(* The inductive invariant, in three layers; each uses the ones before it *)

\* Connections are made in order, and only a made one can have been started,
\* found by a lookup, replaced or shut down.
InvConns ==
  /\ current \in {0, made}
  /\ current # 0 => shut[current] \in {"no", "done"}
  /\ \A s \in Sessions :
       /\ previous[s] <= made
       /\ s > made => shut[s] = "no" /\ reader[s] = Off
  /\ \A p \in Procs : call[p].mux <= made

\* A multiplexer's keys are its own and open; a swept multiplexer has none; the
\* reader's RLock keeps the channel it delivers to registered.
MuxOK(s) ==
  /\ \A k \in frontendChans[s] : home[k] = s /\ chan[k] = "open"
  /\ shut[s] = "swept" => frontendChans[s] = {}
  /\ reader[s].at = "delivering" => reader[s].key \in frontendChans[s]
  /\ reader[s].at = "closing" => home[reader[s].key] # 0

\* A key is registered exactly as long as its channel is open.
KeyOK(k) ==
  /\ home[k] = 0 <=> chan[k] = "none"
  /\ chan[k] = "open" => home[k] \in Sessions /\ k \in frontendChans[home[k]]
  /\ stage[k] # "new" => home[k] # 0
  /\ home[k] <= made

\* One goroutine creates a key, and nobody uses the key before.
CreatesAlone(p) ==
  IF call[p].at = "init"
    THEN home[call[p].key] = 0 /\ \A q \in Procs : call[q].key = call[p].key => q = p
    ELSE call[p] # Idle => home[call[p].key] # 0

InvStreams ==
  /\ \A s \in Sessions : MuxOK(s)
  /\ \A k \in Keys : KeyOK(k)
  /\ \A p \in Procs : CreatesAlone(p)
  /\ panics = {}

\* A goroutine about to queue a Connect is on the key's own multiplexer, and
\* for an API Key stream on a capable one, and so is every queued Connect.
ConnectOK(p) ==
  /\ call[p].at = "Connect" => home[call[p].key] = call[p].mux
  /\ call[p].at \in {"member", "Connect"} /\ call[p].key \in TraceKeys =>
       call[p].mux \in capable

InvConnects == ConnectsStayHome /\ \A p \in Procs : ConnectOK(p)

-----------------------------------------------------------------------------
(* First layer: the connections *)

\* Entering or leaving a call on the registered multiplexer, or on the one
\* already held, never reaches a connection that is yet to be made.
LEMMA CallsBelow ==
  ASSUME TypeOK, InvConns, NEW p \in Procs,
         \/ UNCHANGED call
         \/ Return(p)
         \/ \E at, k : Enter(p, at, k, current) \/ Enter(p, at, k, call[p].mux)
  PROVE  \A q \in Procs : call'[q].mux <= made
<1>1. 0 <= made /\ current <= made /\ \A q \in Procs : call[q].mux <= made
  BY ConstantsAssumption DEF TypeOK, InvConns
<1>2. CASE UNCHANGED call
  BY Zenon, <1>1, <1>2
<1>3. CASE Return(p)
  BY Zenon, <1>1, <1>3 DEF TypeOK, Return, Idle
<1>4. CASE \E at, k : Enter(p, at, k, current) \/ Enter(p, at, k, call[p].mux)
  <2>1. PICK at, k, s : s <= made /\ Enter(p, at, k, s)
    BY Zenon, <1>1, <1>4
  <2>2. \A q \in Procs : q # p => call'[q] = call[q]
    BY Zenon, <2>1 DEF TypeOK, Enter
  <2>3. call'[p].mux = s
    BY Zenon, <2>1 DEF TypeOK, Enter
  <2>4. QED
    BY Zenon, <1>1, <2>1, <2>2, <2>3
<1>5. QED
  BY Zenon, <1>2, <1>3, <1>4

\* Every step keeps the first layer.
LEMMA ConnsInductive ==
  ASSUME TypeOK, InvConns, [Next]_vars
  PROVE  InvConns'
<1> USE DEF connVars, muxVars, keyVars
<1> DEFINE Below == \A q \in Procs : call'[q].mux <= made
<1>0. Callers \subseteq Procs /\ Sessions \subseteq Procs
  BY Zenon DEF Procs
<1>1. ASSUME NEW g \in Callers, NEW k \in Keys,
             InitializeClient(g, k) \/ Connect(g, k) \/ Send(g, k) \/ Finish(g, k)
      PROVE  InvConns'
  <2>1. Below
    BY Zenon, <1>0, <1>1, CallsBelow
    DEF InitializeClient, Connect, Send, Finish, CloseConnection, ReleaseConnection
  <2>2. UNCHANGED <<made, current, shut, previous, reader>>
    BY Zenon, <1>1 DEF InitializeClient, Connect, Send, Finish
  <2>3. QED
    BY Zenon, <2>1, <2>2 DEF InvConns
<1>2. ASSUME NEW p \in Procs, CallStep(p) \/ TooLong(p)
      PROVE  InvConns'
  <2>1. Below
    BY ZenonT(30), <1>2, CallsBelow
    DEF CallStep, InitializeLocked, ConnectMember, Enqueued, NotEnqueued, CloseLocked, TooLong,
        AfterEnqueue
  <2>2. UNCHANGED <<made, current, shut, previous, reader>>
    BY ZenonT(30), <1>2 DEF CallStep, InitializeLocked, ConnectMember, Enqueued, NotEnqueued,
       CloseLocked, TooLong
  <2>3. QED
    BY Zenon, <2>1, <2>2 DEF InvConns
<1>3. ASSUME NEW cap \in Capabilities, AddBackend(cap)
      PROVE  InvConns'
  <2>1. made \in Nat /\ made' = made + 1 /\ made' \in Sessions
    BY <1>3, ConstantsAssumption DEF AddBackend, TypeOK, Sessions
  <2>2. shut[made'] = "no"
    BY <2>1 DEF InvConns
  <2>3. \A s \in Sessions : previous'[s] <= made'
    BY SMTT(30), <1>3, <2>1, ConstantsAssumption DEF AddBackend, InvConns, TypeOK, Sessions
  <2>4. \A s \in Sessions : s > made' => shut'[s] = "no" /\ reader'[s] = Off
    BY SMTT(30), <1>3, <2>1, ConstantsAssumption DEF AddBackend, InvConns, TypeOK, Sessions
  <2>5. \A p \in Procs : call'[p].mux <= made'
    <3>1. \A p \in Procs : call[p].mux \in Int
      BY ConstantsAssumption DEF TypeOK, Calls, Idle, Sessions
    <3>2. QED
      BY <1>3, <2>1, <3>1 DEF AddBackend, InvConns
  <2>6. QED
    BY Zenon, <1>3, <2>1, <2>2, <2>3, <2>4, <2>5 DEF AddBackend, InvConns
<1>4. ASSUME NEW s \in Sessions, ShutdownPrevious(s)
      PROVE  InvConns'
  <2>1. 0 <= made /\ \A r \in Sessions : previous'[r] <= made
    BY <1>4, ConstantsAssumption DEF ShutdownPrevious, InvConns, TypeOK
  <2>2. \A r \in Sessions : r > made => shut'[r] = shut[r]
    BY <1>4, ConstantsAssumption DEF ShutdownPrevious, BeginShutdown, InvConns, TypeOK, Sessions
  <2>3. current # 0 => shut'[current] \in {"no", "done"}
    BY <1>4, ConstantsAssumption DEF ShutdownPrevious, BeginShutdown, InvConns, TypeOK, Sessions
  <2>4. QED
    BY Zenon, <1>4, <2>1, <2>2, <2>3 DEF ShutdownPrevious, InvConns
<1>5. ASSUME NEW s \in Sessions, RemoveBackend(s) \/ Sweep(s)
      PROVE  InvConns'
  <2>1. \A r \in Sessions : r > made => shut'[r] = "no"
    BY Zenon, <1>5 DEF RemoveBackend, Sweep, InvConns, TypeOK
  <2>2. current' \in {0, made} /\ (current' # 0 => current' = current /\ current # s)
    BY Zenon, <1>5 DEF RemoveBackend, Sweep, InvConns
  <2>3. current' # 0 => shut'[current'] \in {"no", "done"}
    BY SMTT(30), <1>5, <2>2, ConstantsAssumption DEF RemoveBackend, Sweep, InvConns, TypeOK, Sessions
  <2>4. UNCHANGED <<made, previous, reader, call>>
    BY Zenon, <1>5 DEF RemoveBackend, Sweep
  <2>5. QED
    BY Zenon, <2>1, <2>2, <2>3, <2>4 DEF InvConns
<1>6. ASSUME NEW s \in Sessions, ReadFails(s) \/ WriterFails(s)
      PROVE  InvConns'
  <2>1. s <= made
    BY SMTT(30), <1>6, ConstantsAssumption
    DEF ReadFails, WriterFails, WriterRuns, Reading, InvConns, TypeOK, Sessions, Off, ReadLoop
  <2>2. \A r \in Sessions : r > made => shut'[r] = "no" /\ reader'[r] = Off
    <3>1. \A r \in Sessions : r > made => r # s
      BY <2>1, ConstantsAssumption DEF TypeOK, Sessions
    <3>2. \A r \in Sessions : r # s => shut'[r] = shut[r]
      BY Zenon, <1>6 DEF ReadFails, WriterFails, BeginShutdown, TypeOK
    <3>3. \A r \in Sessions : r # s => reader'[r] = reader[r]
      BY Zenon, <1>6 DEF ReadFails, WriterFails, TypeOK
    <3>4. QED
      BY Zenon, <3>1, <3>2, <3>3 DEF InvConns
  <2>3. current # 0 => shut'[current] \in {"no", "done"}
    BY SMTT(30), <1>6, ConstantsAssumption
    DEF ReadFails, WriterFails, BeginShutdown, InvConns, TypeOK, Sessions
  <2>4. QED
    BY Zenon, <1>6, <2>2, <2>3 DEF ReadFails, WriterFails, InvConns
<1>7. ASSUME NEW s \in Sessions,
             \/ Deliver(s) \/ DeliverTimeout(s) \/ ReaderCloses(s)
             \/ \E k \in Keys, t \in {"Body", "Close"} : ReadMessage(s, k, t)
      PROVE  InvConns'
  <2>1. reader[s] # Off
    BY <1>7 DEF Deliver, DeliverTimeout, ReaderCloses, ReadMessage, Reading, Off, ReadLoop
  <2>2. \A r \in Sessions : r # s => reader'[r] = reader[r]
    BY Zenon, <1>7 DEF Deliver, DeliverTimeout, ReaderCloses, ReadMessage, TypeOK
  <2>3. Below
    <3>1. CASE ReaderCloses(s)
      BY Zenon, <1>0, <3>1, CallsBelow DEF ReaderCloses, CloseConnection
    <3>2. CASE ~ReaderCloses(s)
      BY Zenon, <1>7, <3>2 DEF Deliver, DeliverTimeout, ReadMessage, InvConns
    <3>3. QED
      BY Zenon, <3>1, <3>2
  <2>4. UNCHANGED <<made, current, shut, previous>>
    BY Zenon, <1>7 DEF Deliver, DeliverTimeout, ReaderCloses, ReadMessage
  <2>5. QED
    BY Zenon, <2>1, <2>2, <2>3, <2>4 DEF InvConns
<1>8. ASSUME NEW s \in Sessions, WriterSends(s)
      PROVE  InvConns'
  BY Zenon, <1>8 DEF WriterSends, InvConns
<1>9. CASE UNCHANGED vars
  BY Zenon, <1>9 DEF vars, InvConns
<1>10. QED
  BY Zenon, <1>1, <1>2, <1>3, <1>4, <1>5, <1>6, <1>7, <1>8, <1>9 DEF Next

-----------------------------------------------------------------------------
(* Second layer: the streams *)

\* A call on a key that exists leaves the goroutines that create keys alone.
LEMMA EnterExisting ==
  ASSUME TypeOK, InvStreams, NEW p \in Procs,
         NEW at \in CallSteps \ {"init"}, NEW k \in Keys, NEW s \in Sessions,
         home[k] # 0, UNCHANGED home,
         Enter(p, at, k, s)
  PROVE  \A q \in Procs : CreatesAlone(q)'
<1>1. call'[p] = [at |-> at, key |-> k, mux |-> s]
  BY Zenon DEF TypeOK, Enter
<1>2. \A q \in Procs : q # p => call'[q] = call[q]
  BY Zenon DEF TypeOK, Enter
<1>3. CreatesAlone(p)'
  BY <1>1 DEF CreatesAlone
<1>4. ASSUME NEW q \in Procs, q # p
      PROVE  CreatesAlone(q)'
  <2>1. CreatesAlone(q) /\ call'[q] = call[q]
    BY Zenon, <1>2, <1>4 DEF InvStreams, CreatesAlone
  <2>2. CASE call[q].at # "init"
    BY Zenon, <2>1, <2>2 DEF CreatesAlone
  <2>3. CASE call[q].at = "init"
    <3>1. home[call[q].key] = 0 /\ \A r \in Procs : call[r].key = call[q].key => r = q
      BY Zenon, <2>1, <2>3 DEF CreatesAlone
    <3>2. \A r \in Procs : call'[r].key = call'[q].key => r = q
      BY <1>1, <1>2, <2>1, <3>1
    <3>3. QED
      BY Zenon, <2>1, <2>3, <3>1, <3>2 DEF CreatesAlone
  <2>4. QED
    BY Zenon, <2>2, <2>3
<1>5. QED
  BY Zenon, <1>3, <1>4

\* Returning leaves the goroutines that create keys alone.
LEMMA ReturnAlone ==
  ASSUME TypeOK, InvStreams, NEW p \in Procs, UNCHANGED home, Return(p)
  PROVE  \A q \in Procs : CreatesAlone(q)'
<1>1. call'[p] = Idle
  BY Zenon DEF TypeOK, Return
<1>2. \A q \in Procs : q # p => call'[q] = call[q]
  BY Zenon DEF TypeOK, Return
<1>3. CreatesAlone(p)'
  BY <1>1 DEF CreatesAlone, Idle
<1>4. ASSUME NEW q \in Procs, q # p
      PROVE  CreatesAlone(q)'
  <2>1. CreatesAlone(q) /\ call'[q] = call[q]
    BY Zenon, <1>2, <1>4 DEF InvStreams, CreatesAlone
  <2>2. CASE call[q].at # "init"
    BY Zenon, <2>1, <2>2 DEF CreatesAlone
  <2>3. CASE call[q].at = "init"
    <3>1. call[q].key \in Keys
      BY Zenon, <2>3, InCall DEF CallSteps
    <3>2. call'[p].key # call[q].key
      BY <1>1, <3>1, ConstantsAssumption DEF Idle
    <3>3. \A r \in Procs : call'[r].key = call'[q].key => r = q
      BY Zenon, <1>2, <2>1, <2>3, <3>2 DEF CreatesAlone
    <3>4. QED
      BY Zenon, <2>1, <2>3, <3>3 DEF CreatesAlone
  <2>4. QED
    BY Zenon, <2>2, <2>3
<1>5. QED
  BY Zenon, <1>3, <1>4

\* The second layer is about nothing but these variables.
LEMMA StreamsKept ==
  ASSUME InvStreams, UNCHANGED <<made, shut, frontendChans, reader, call, keyVars>>
  PROVE  InvStreams'
<1> USE DEF keyVars
<1>1. ASSUME NEW s \in Sessions PROVE MuxOK(s)'
  <2>1. MuxOK(s)
    BY Zenon DEF InvStreams
  <2>2. QED
    BY Zenon, <2>1 DEF MuxOK
<1>2. ASSUME NEW k \in Keys PROVE KeyOK(k)'
  <2>1. KeyOK(k)
    BY Zenon DEF InvStreams
  <2>2. QED
    BY Zenon, <2>1 DEF KeyOK
<1>3. ASSUME NEW p \in Procs PROVE CreatesAlone(p)'
  <2>1. CreatesAlone(p)
    BY Zenon DEF InvStreams
  <2>2. QED
    BY Zenon, <2>1 DEF CreatesAlone
<1>4. panics' = {}
  BY Zenon DEF InvStreams
<1>5. QED
  BY Zenon, <1>1, <1>2, <1>3, <1>4 DEF InvStreams

\* Every step keeps the second layer.
LEMMA StreamsInductive ==
  ASSUME TypeOK, InvConns, InvStreams, [Next]_vars
  PROVE  InvStreams'
<1> USE DEF connVars, muxVars, keyVars
<1>0. Callers \subseteq Procs /\ Sessions \subseteq Procs
  BY Zenon DEF Procs
<1>a. \A s \in Sessions : MuxOK(s)
  BY Zenon DEF InvStreams
<1>b. \A k \in Keys : KeyOK(k)
  BY Zenon DEF InvStreams
<1>c. \A p \in Procs : CreatesAlone(p)
  BY Zenon DEF InvStreams
<1>1. ASSUME NEW g \in Callers, NEW k \in Keys, InitializeClient(g, k)
      PROVE  InvStreams'
  <2>1. \A p \in Procs : CreatesAlone(p)'
    <3>1. CASE UNCHANGED call
      BY Zenon, <1>1, <1>c, <3>1 DEF InitializeClient, CreatesAlone
    <3>2. CASE Enter(g, "init", k, current)
      <4>1. call'[g] = [at |-> "init", key |-> k, mux |-> current]
        BY Zenon, <1>0, <3>2 DEF TypeOK, Enter
      <4>2. \A q \in Procs : q # g => call'[q] = call[q]
        BY Zenon, <3>2 DEF TypeOK, Enter
      <4>3. home[k] = 0 /\ home' = home /\ \A q \in Procs : call[q].key # k
        BY Zenon, <1>1 DEF InitializeClient
      <4>4. CreatesAlone(g)'
        BY <1>0, <4>1, <4>2, <4>3 DEF CreatesAlone
      <4>5. ASSUME NEW q \in Procs, q # g
            PROVE  CreatesAlone(q)'
        BY <1>c, <4>1, <4>2, <4>3, <4>5 DEF CreatesAlone
      <4>6. QED
        BY Zenon, <4>4, <4>5
    <3>3. QED
      BY Zenon, <1>1, <3>1, <3>2 DEF InitializeClient
  <2>2. QED
    BY Zenon, <1>1, <2>1 DEF InitializeClient, InvStreams, MuxOK, KeyOK
<1>2. ASSUME NEW g \in Callers, NEW k \in Keys, Connect(g, k) \/ Send(g, k) \/ Finish(g, k)
      PROVE  InvStreams'
  <2>1. home[k] # 0 /\ UNCHANGED home
    BY Zenon, <1>2, <1>b DEF Connect, Send, Finish, KeyOK
  <2>2. \A p \in Procs : CreatesAlone(p)'
    <3>1. CASE UNCHANGED call
      BY Zenon, <1>c, <2>1, <3>1 DEF CreatesAlone
    <3>2. CASE \E at \in CallSteps \ {"init"} : hasBackend /\ Enter(g, at, k, current)
      BY Zenon, <1>0, <2>1, <3>2, Looked, EnterExisting
    <3>3. {"member", "Body", "Close", "lock"} \subseteq CallSteps \ {"init"}
      BY Zenon DEF CallSteps
    <3>4. QED
      BY Zenon, <1>2, <3>1, <3>2, <3>3
      DEF Connect, Send, Finish, Admits, CloseConnection, ReleaseConnection
  <2>3. \A j \in Keys : KeyOK(j)'
    BY Zenon, <1>2, <1>b, <2>1 DEF Connect, Send, Finish, KeyOK, TypeOK
  <2>4. UNCHANGED <<shut, frontendChans, reader, chan, home, panics>>
    BY Zenon, <1>2 DEF Connect, Send, Finish
  <2>5. \A s \in Sessions : MuxOK(s)'
    BY Zenon, <1>a, <2>4 DEF MuxOK
  <2>6. QED
    BY Zenon, <2>2, <2>3, <2>4, <2>5 DEF InvStreams
<1>3. ASSUME NEW p \in Procs, InitializeLocked(p)
      PROVE  InvStreams'
  <2>1. PICK k \in Keys, s \in Sessions : k = call[p].key /\ s = call[p].mux
    BY Zenon, <1>3, InCall DEF InitializeLocked, CallSteps
  <2>2. CASE UNCHANGED <<frontendChans, chan, home>>
    <3>1. \A q \in Procs : CreatesAlone(q)'
      BY Zenon, <1>3, <2>2, ReturnAlone DEF InitializeLocked
    <3>2. QED
      BY Zenon, <1>3, <2>2, <3>1 DEF InitializeLocked, InvStreams, MuxOK, KeyOK
  <2>3. CASE ~UNCHANGED <<frontendChans, chan, home>>
    <3>1. /\ shut[s] = "no"
          /\ frontendChans' = [frontendChans EXCEPT ![s] = @ \cup {k}]
          /\ chan' = [chan EXCEPT ![k] = "open"]
          /\ home' = [home EXCEPT ![k] = s]
          /\ call' = [call EXCEPT ![p] = Idle]
          /\ UNCHANGED <<made, shut, reader, stage, panics>>
      BY Zenon, <1>3, <2>1, <2>3 DEF InitializeLocked, Return
    <3>2. home[k] = 0 /\ \A q \in Procs : call[q].key = k => q = p
      BY Zenon, <1>3, <1>c, <2>1 DEF InitializeLocked, CreatesAlone
    <3>3. s \in 1..made /\ s # 0
      BY <2>1, ConstantsAssumption DEF InvConns, Sessions, TypeOK
    <3>4. \A r \in Sessions : k \notin frontendChans[r]
      <4> SUFFICES ASSUME NEW r \in Sessions, k \in frontendChans[r]
                   PROVE  FALSE
        BY Zenon
      <4>1. home[k] = r
        BY Zenon, <1>a DEF MuxOK
      <4>2. r # 0
        BY Zenon, SessionsNonzero
      <4>3. QED
        BY Zenon, <3>2, <4>1, <4>2
    <3>5. \A j \in Keys : j # k => home'[j] = home[j] /\ chan'[j] = chan[j]
      BY Zenon, <3>1 DEF TypeOK
    <3>6. home'[k] = s /\ chan'[k] = "open"
      BY Zenon, <2>1, <3>1 DEF TypeOK
    <3>7. \A r \in Sessions : frontendChans'[r] = IF r = s THEN frontendChans[r] \cup {k}
                                                            ELSE frontendChans[r]
      BY ZenonT(30), <3>1 DEF TypeOK
    <3>8. \A r \in Sessions : MuxOK(r)'
      <4> SUFFICES ASSUME NEW r \in Sessions
                   PROVE  MuxOK(r)'
        BY Zenon
      <4>1. frontendChans[r] \subseteq Keys
        BY Zenon DEF TypeOK
      <4>2. \A j \in frontendChans'[r] : home'[j] = r /\ chan'[j] = "open"
        <5> SUFFICES ASSUME NEW j \in frontendChans'[r]
                     PROVE  home'[j] = r /\ chan'[j] = "open"
          BY Zenon
        <5>1. CASE j = k
          BY ZenonT(30), <3>4, <3>6, <3>7, <5>1
        <5>2. CASE j # k
          <6>1. j \in frontendChans[r] /\ j \in Keys
            BY ZenonT(30), <3>7, <4>1, <5>2
          <6>2. QED
            BY Zenon, <1>a, <3>5, <5>2, <6>1 DEF MuxOK
        <5>3. QED
          BY Zenon, <5>1, <5>2
      <4>3. reader'[r].at = "closing" => home'[reader'[r].key] # 0
        <5> SUFFICES ASSUME reader[r].at = "closing"
                     PROVE  home'[reader[r].key] # 0
          BY Zenon, <3>1
        <5>1. reader[r].key \in Keys
          BY Zenon, InHand
        <5>2. home[reader[r].key] # 0
          BY Zenon, <1>a DEF MuxOK
        <5>3. QED
          BY Zenon, <3>3, <3>5, <3>6, <5>1, <5>2
      <4>4. QED
        BY <1>a, <3>1, <3>7, <4>2, <4>3 DEF MuxOK
    <3>9. \A j \in Keys : KeyOK(j)'
      <4>1. KeyOK(k)'
        BY SMTT(30), <1>b, <2>1, <3>1, <3>3, <3>6, <3>7 DEF KeyOK
      <4>2. ASSUME NEW j \in Keys, j # k
            PROVE  KeyOK(j)'
        BY <1>b, <3>1, <3>5, <3>7, <4>2 DEF KeyOK
      <4>3. QED
        BY Zenon, <4>1, <4>2
    <3>10. \A q \in Procs : CreatesAlone(q)'
      <4>1. call'[p] = Idle /\ \A q \in Procs : q # p => call'[q] = call[q]
        BY Zenon, <3>1 DEF TypeOK
      <4>2. CreatesAlone(p)'
        BY <4>1 DEF CreatesAlone, Idle
      <4>3. ASSUME NEW q \in Procs, q # p, call[q] # Idle
            PROVE  CreatesAlone(q)'
        <5>1. call[q].key \in Keys /\ call[q].key # k
          BY Zenon, <3>2, <4>3, ConstantsAssumption DEF TypeOK, Calls
        <5>2. call'[p].key # call[q].key
          BY <4>1, <5>1, ConstantsAssumption DEF Idle
        <5>3. home'[call[q].key] = home[call[q].key]
          BY Zenon, <3>5, <5>1
        <5>4. QED
          BY Zenon, <1>c, <4>1, <4>3, <5>2, <5>3 DEF CreatesAlone
      <4>4. ASSUME NEW q \in Procs, call[q] = Idle
            PROVE  CreatesAlone(q)'
        BY <4>1, <4>4 DEF CreatesAlone, Idle
      <4>5. QED
        BY Zenon, <4>2, <4>3, <4>4
    <3>11. QED
      BY Zenon, <3>1, <3>8, <3>9, <3>10 DEF InvStreams
  <2>4. QED
    BY Zenon, <2>2, <2>3
<1>4. ASSUME NEW p \in Procs, ConnectMember(p) \/ Enqueued(p) \/ NotEnqueued(p) \/ TooLong(p)
      PROVE  InvStreams'
  <2>1. /\ call[p] \in Calls /\ call[p].key \in Keys /\ call[p].mux \in Sessions
        /\ home[call[p].key] # 0
    <3>1. call[p].at \in CallSteps \ {"init"}
      BY Zenon, <1>4 DEF ConnectMember, Enqueued, NotEnqueued, TooLong, MessageTypes, CallSteps
    <3>2. call[p] # Idle
      BY SMTT(30), <3>1 DEF Idle, CallSteps
    <3>3. QED
      BY Zenon, <1>c, <3>1, <3>2, InCall DEF CreatesAlone
  <2>2. \A q \in Procs : CreatesAlone(q)'
    <3>1. UNCHANGED home
      BY ZenonT(30), <1>4 DEF ConnectMember, Enqueued, NotEnqueued, TooLong
    <3>2. CASE Return(p)
      BY Zenon, <3>1, <3>2, ReturnAlone
    <3>3. CASE \E at \in CallSteps \ {"init"} : Enter(p, at, call[p].key, call[p].mux)
      BY Zenon, <2>1, <3>1, <3>3, EnterExisting
    <3>4. {"Connect", "lock"} \subseteq CallSteps \ {"init"}
      BY Zenon DEF CallSteps
    <3>5. QED
      BY ZenonT(30), <1>4, <3>2, <3>3, <3>4 DEF ConnectMember, Enqueued, NotEnqueued, TooLong, AfterEnqueue
  <2>3. \A j \in Keys : KeyOK(j)'
    BY SMTT(30), <1>4, <1>b, <2>1 DEF ConnectMember, Enqueued, NotEnqueued, TooLong, KeyOK, TypeOK
  <2>4. UNCHANGED <<shut, frontendChans, reader, chan, home, panics>>
    BY ZenonT(30), <1>4 DEF ConnectMember, Enqueued, NotEnqueued, TooLong
  <2>5. \A s \in Sessions : MuxOK(s)'
    BY ZenonT(30), <1>a, <2>4 DEF MuxOK
  <2>6. QED
    BY Zenon, <2>2, <2>3, <2>4, <2>5 DEF InvStreams
<1>5. ASSUME NEW p \in Procs, CloseLocked(p)
      PROVE  InvStreams'
  <2>1. PICK k \in Keys, s \in Sessions : k = call[p].key /\ s = call[p].mux
    BY Zenon, <1>5, InCall DEF CloseLocked, CallSteps
  <2>2. /\ Lockable(s)
        /\ chan' = [j \in Keys |-> IF j \in {k} \cap frontendChans[s] THEN "closed" ELSE chan[j]]
        /\ panics' = panics \cup {j \in {k} \cap frontendChans[s] : chan[j] = "closed"}
        /\ UNCHANGED <<made, shut, reader, home, stage>>
    BY Zenon, <1>5, <2>1 DEF CloseLocked, CloseChans
  <2>3. \A r \in Sessions : frontendChans'[r] = IF r = s THEN frontendChans[r] \ {k}
                                                          ELSE frontendChans[r]
    BY ZenonT(30), <1>5, <2>1 DEF CloseLocked, TypeOK
  <2>4. panics' = {}
    BY ZenonT(30), <1>a, <2>1, <2>2 DEF MuxOK, InvStreams
  <2>5. \A q \in Procs : CreatesAlone(q)'
    BY Zenon, <1>5, <2>2, ReturnAlone DEF CloseLocked
  <2>6. \A r \in Sessions : MuxOK(r)'
    <3> SUFFICES ASSUME NEW r \in Sessions
                 PROVE  MuxOK(r)'
      BY Zenon
    <3>1. frontendChans[r] \subseteq Keys
      BY Zenon DEF TypeOK
    <3>2. \A j \in frontendChans'[r] : home'[j] = r /\ chan'[j] = "open"
      <4> SUFFICES ASSUME NEW j \in frontendChans'[r]
                   PROVE  home'[j] = r /\ chan'[j] = "open"
        BY Zenon
      <4>1. j \in frontendChans[r] /\ j \in Keys /\ (r = s => j # k)
        BY ZenonT(30), <2>3, <3>1
      <4>2. home[j] = r /\ chan[j] = "open"
        BY Zenon, <1>a, <4>1 DEF MuxOK
      <4>3. j \notin {k} \cap frontendChans[s]
        BY Zenon, <1>a, <4>1, <4>2 DEF MuxOK
      <4>4. QED
        BY Zenon, <2>2, <4>1, <4>2, <4>3
    <3>3. reader'[r].at = "delivering" => reader'[r].key \in frontendChans'[r]
      BY ZenonT(30), <1>a, <2>2, <2>3 DEF MuxOK, Lockable
    <3>4. QED
      BY Zenon, <1>a, <2>2, <2>3, <3>2, <3>3 DEF MuxOK
  <2>7. \A j \in Keys : KeyOK(j)'
    <3> SUFFICES ASSUME NEW j \in Keys
                 PROVE  KeyOK(j)'
      BY Zenon
    <3>1. CASE j \in {k} \cap frontendChans[s]
      BY Zenon, <1>a, <1>b, <2>1, <2>2, <3>1 DEF KeyOK, MuxOK
    <3>2. CASE j \notin {k} \cap frontendChans[s]
      BY ZenonT(30), <1>b, <2>2, <2>3, <3>2 DEF KeyOK
    <3>3. QED
      BY Zenon, <3>1, <3>2
  <2>8. QED
    BY Zenon, <2>4, <2>5, <2>6, <2>7 DEF InvStreams
<1>6. ASSUME NEW cap \in Capabilities, AddBackend(cap)
      PROVE  InvStreams'
  <2>1. \A s \in Sessions : reader'[s] = reader[s] \/ reader'[s] = ReadLoop
    BY Zenon, <1>6 DEF AddBackend, TypeOK
  <2>2. \A s \in Sessions : MuxOK(s)'
    BY <1>6, <1>a, <2>1, SMTT(30) DEF AddBackend, MuxOK, ReadLoop
  <2>3. \A k \in Keys : KeyOK(k)'
    BY <1>6, <1>b, ConstantsAssumption, SMTT(30) DEF AddBackend, KeyOK, TypeOK
  <2>4. QED
    BY Zenon, <1>6, <2>2, <2>3 DEF AddBackend, InvStreams, CreatesAlone
<1>7. ASSUME NEW s \in Sessions,
             ShutdownPrevious(s) \/ RemoveBackend(s) \/ ReadFails(s) \/ WriterFails(s)
      PROVE  InvStreams'
  <2>1. \A r \in Sessions : shut'[r] = "swept" => shut[r] = "swept"
    BY Zenon, <1>7 DEF ShutdownPrevious, RemoveBackend, ReadFails, WriterFails, BeginShutdown, TypeOK
  <2>2. \A r \in Sessions : reader'[r] = reader[r] \/ reader'[r] = Stopped
    BY Zenon, <1>7 DEF ShutdownPrevious, RemoveBackend, ReadFails, WriterFails, TypeOK
  <2>3. UNCHANGED <<made, frontendChans, call, chan, home, stage, panics>>
    BY Zenon, <1>7 DEF ShutdownPrevious, RemoveBackend, ReadFails, WriterFails
  <2>4. \A r \in Sessions : MuxOK(r)'
    <3> SUFFICES ASSUME NEW r \in Sessions
                 PROVE  MuxOK(r)'
      BY Zenon
    <3>1. MuxOK(r)
      BY Zenon, <1>a
    <3>2. shut'[r] = "swept" => frontendChans'[r] = {}
      BY Zenon, <2>1, <2>3, <3>1 DEF MuxOK
    <3>3. CASE reader'[r] = reader[r]
      BY Zenon, <2>3, <3>1, <3>2, <3>3 DEF MuxOK
    <3>4. CASE reader'[r] = Stopped
      BY SMTT(30), <2>3, <3>1, <3>2, <3>4 DEF MuxOK, Stopped
    <3>5. QED
      BY Zenon, <2>2, <3>3, <3>4
  <2>5. QED
    BY Zenon, <2>3, <2>4 DEF InvStreams, KeyOK, CreatesAlone
<1>8. ASSUME NEW s \in Sessions, Sweep(s)
      PROVE  InvStreams'
  <2>1. /\ Lockable(s)
        /\ chan' = [k \in Keys |-> IF k \in frontendChans[s] THEN "closed" ELSE chan[k]]
        /\ panics' = panics \cup {k \in frontendChans[s] : chan[k] = "closed"}
        /\ UNCHANGED <<made, reader, call, home, stage>>
    BY Zenon, <1>8 DEF Sweep, CloseChans
  <2>2. \A r \in Sessions : /\ r # s => shut'[r] = shut[r] /\ frontendChans'[r] = frontendChans[r]
                            /\ r = s => frontendChans'[r] = {}
    BY Zenon, <1>8 DEF Sweep, TypeOK
  <2>3. panics' = {}
    BY Zenon, <1>a, <2>1 DEF MuxOK, InvStreams
  <2>4. MuxOK(s)'
    BY Zenon, <1>a, <2>1, <2>2 DEF MuxOK, Lockable
  <2>5. ASSUME NEW r \in Sessions, r # s
        PROVE  MuxOK(r)'
    <3>1. \A k \in frontendChans[r] : k \in Keys /\ k \notin frontendChans[s]
      BY SMTT(30), <1>a, <2>5 DEF MuxOK, TypeOK
    <3>2. QED
      BY Zenon, <1>a, <2>1, <2>2, <2>5, <3>1 DEF MuxOK
  <2>6. \A k \in Keys : KeyOK(k)'
    <3> SUFFICES ASSUME NEW k \in Keys
                 PROVE  KeyOK(k)'
      BY Zenon
    <3>1. CASE k \in frontendChans[s]
      BY Zenon, <1>a, <1>b, <2>1, <3>1 DEF KeyOK, MuxOK
    <3>2. CASE k \notin frontendChans[s]
      BY Zenon, <1>b, <2>1, <2>2, <3>2 DEF KeyOK
    <3>3. QED
      BY Zenon, <3>1, <3>2
  <2>7. QED
    BY Zenon, <2>1, <2>3, <2>4, <2>5, <2>6 DEF InvStreams, CreatesAlone
<1>9. ASSUME NEW s \in Sessions, Deliver(s)
      PROVE  InvStreams'
  <2>1. panics' = {}
    <3>1. reader[s].at = "delivering" /\ panics = {}
      BY Zenon, <1>9 DEF Deliver, InvStreams
    <3>2. chan[reader[s].key] = "open"
      BY Zenon, <1>a, <3>1 DEF MuxOK
    <3>3. QED
      BY Zenon, <1>9, <3>1, <3>2 DEF Deliver
  <2>2. \A r \in Sessions : reader'[r] = reader[r] \/ reader'[r] = ReadLoop
    BY Zenon, <1>9 DEF Deliver, TypeOK
  <2>3. \A r \in Sessions : MuxOK(r)'
    BY <1>9, <1>a, <2>2, SMTT(30) DEF Deliver, MuxOK, ReadLoop
  <2>4. QED
    BY Zenon, <1>9, <2>1, <2>3 DEF Deliver, InvStreams, KeyOK, CreatesAlone
<1>10. ASSUME NEW s \in Sessions,
              \/ DeliverTimeout(s)
              \/ \E k \in Keys, t \in {"Body", "Close"} : ReadMessage(s, k, t)
       PROVE  InvStreams'
  <2>1. \A r \in Sessions : r # s => reader'[r] = reader[r]
    BY Zenon, <1>10 DEF DeliverTimeout, ReadMessage, TypeOK
  <2>2. /\ reader'[s].at = "delivering" => reader'[s].key \in frontendChans[s]
        /\ reader'[s].at = "closing" => home[reader'[s].key] # 0
    <3>1. CASE DeliverTimeout(s)
      <4>1. reader'[s] = [at |-> "closing", key |-> reader[s].key]
        BY Zenon, <3>1 DEF DeliverTimeout, TypeOK
      <4>2. home[reader[s].key] # 0
        BY SMTT(30), <1>a, <3>1 DEF DeliverTimeout, MuxOK, Sessions
      <4>3. QED
        BY SMTT(30), <4>1, <4>2
    <3>2. ASSUME NEW k \in Keys, NEW t \in {"Body", "Close"}, ReadMessage(s, k, t)
          PROVE  <2>2!1 /\ <2>2!2
      <4>1. \/ k \in frontendChans[s] /\ reader'[s] = [at |-> "delivering", key |-> k]
            \/ reader'[s] = [at |-> "closing", key |-> k]
        BY Zenon, <3>2 DEF ReadMessage, TypeOK
      <4>2. home[k] # 0
        BY Zenon, <3>2 DEF ReadMessage
      <4>3. QED
        BY SMTT(30), <4>1, <4>2
    <3>3. QED
      BY Zenon, <1>10, <3>1, <3>2
  <2>3. UNCHANGED <<made, shut, frontendChans, call, chan, home, stage, panics>>
    BY Zenon, <1>10 DEF DeliverTimeout, ReadMessage
  <2>4. \A r \in Sessions : MuxOK(r)'
    BY SMTT(30), <1>a, <2>1, <2>2, <2>3 DEF MuxOK
  <2>5. QED
    BY Zenon, <2>3, <2>4 DEF InvStreams, KeyOK, CreatesAlone
<1>11. ASSUME NEW s \in Sessions, ReaderCloses(s)
       PROVE  InvStreams'
  <2>1. reader[s].key \in Keys /\ home[reader[s].key] # 0 /\ "Close" \in CallSteps \ {"init"}
    BY Zenon, <1>11, <1>a, InHand DEF ReaderCloses, MuxOK, CallSteps
  <2>2. \A q \in Procs : CreatesAlone(q)'
    <3>1. CASE UNCHANGED call
      BY Zenon, <1>11, <1>c, <3>1 DEF ReaderCloses, CreatesAlone
    <3>2. CASE hasBackend /\ Enter(s, "Close", reader[s].key, current)
      BY Zenon, <1>0, <1>11, <2>1, <3>2, Looked, EnterExisting DEF ReaderCloses
    <3>3. QED
      BY Zenon, <1>11, <3>1, <3>2 DEF ReaderCloses, CloseConnection
  <2>3. \A r \in Sessions : reader'[r] = reader[r] \/ reader'[r] = ReadLoop
    BY Zenon, <1>11 DEF ReaderCloses, TypeOK
  <2>4. \A r \in Sessions : MuxOK(r)'
    BY <1>11, <1>a, <2>3 DEF ReaderCloses, MuxOK, ReadLoop
  <2>5. QED
    BY Zenon, <1>11, <2>2, <2>4 DEF ReaderCloses, InvStreams, KeyOK
<1>12. ASSUME NEW s \in Sessions, WriterSends(s)
       PROVE  InvStreams'
  <2>1. UNCHANGED <<made, shut, frontendChans, reader, call, keyVars>>
    BY Zenon, <1>12 DEF WriterSends
  <2>2. QED
    BY Zenon, <2>1, StreamsKept
<1>13. CASE UNCHANGED vars
  <2>1. UNCHANGED <<made, shut, frontendChans, reader, call, keyVars>>
    BY Zenon, <1>13 DEF vars
  <2>2. QED
    BY Zenon, <2>1, StreamsKept
<1>14. QED
  BY Zenon, <1>1, <1>2, <1>3, <1>4, <1>5, <1>6, <1>7, <1>8, <1>9, <1>10, <1>11, <1>12, <1>13
  DEF Next, CallStep

-----------------------------------------------------------------------------
(* Third layer: the Connect messages *)

\* A key never moves, and a connection never loses its capabilities.
LEMMA HomeFixed ==
  ASSUME TypeOK, InvStreams, [Next]_vars
  PROVE  capable \subseteq capable' /\ \A k \in Keys : home[k] # 0 => home'[k] = home[k]
<1> USE DEF connVars, muxVars, keyVars
<1>1. ASSUME NEW p \in Procs, InitializeLocked(p)
      PROVE  UNCHANGED capable /\ \A k \in Keys : home[k] # 0 => home'[k] = home[k]
  <2>1. home[call[p].key] = 0
    BY ZenonT(30), <1>1 DEF InitializeLocked, InvStreams, CreatesAlone
  <2>2. QED
    BY Zenon, <1>1, <2>1 DEF InitializeLocked, TypeOK
<1>2. ASSUME NEW cap \in Capabilities, AddBackend(cap)
      PROVE  UNCHANGED home /\ capable \subseteq capable'
  BY Zenon, <1>2 DEF AddBackend
<1>3. ASSUME NEW p \in Procs,
             ConnectMember(p) \/ Enqueued(p) \/ NotEnqueued(p) \/ CloseLocked(p) \/ TooLong(p)
      PROVE  UNCHANGED <<home, capable>>
  BY ZenonT(30), <1>3 DEF ConnectMember, Enqueued, NotEnqueued, TooLong, CloseLocked
<1>4. ASSUME NEW g \in Callers, NEW k \in Keys,
             InitializeClient(g, k) \/ Connect(g, k) \/ Send(g, k) \/ Finish(g, k)
      PROVE  UNCHANGED <<home, capable>>
  BY ZenonT(30), <1>4 DEF InitializeClient, Connect, Send, Finish
<1>5. ASSUME NEW s \in Sessions,
             \/ ShutdownPrevious(s) \/ RemoveBackend(s) \/ Sweep(s)
             \/ ReadFails(s) \/ Deliver(s) \/ DeliverTimeout(s) \/ ReaderCloses(s)
             \/ WriterSends(s) \/ WriterFails(s)
             \/ \E k \in Keys, t \in {"Body", "Close"} : ReadMessage(s, k, t)
      PROVE  UNCHANGED <<home, capable>>
  BY Zenon, <1>5 DEF ShutdownPrevious, RemoveBackend, Sweep, ReadFails, Deliver, DeliverTimeout,
              ReaderCloses, WriterSends, WriterFails, ReadMessage
<1>6. CASE UNCHANGED vars
  BY Zenon, <1>6 DEF vars
<1>7. QED
  BY Zenon, <1>1, <1>2, <1>3, <1>4, <1>5, <1>6 DEF Next, CallStep

\* What entering a call changes.
LEMMA Entered ==
  ASSUME TypeOK, NEW p \in Procs, NEW at, NEW k, NEW s, Enter(p, at, k, s)
  PROVE  /\ call'[p] = [at |-> at, key |-> k, mux |-> s]
         /\ \A q \in Procs : q # p => call'[q] = call[q]
BY Zenon DEF TypeOK, Enter

\* What returning from one changes.
LEMMA Returned ==
  ASSUME TypeOK, NEW p \in Procs, Return(p)
  PROVE  call'[p] = Idle /\ \A q \in Procs : q # p => call'[q] = call[q]
BY Zenon DEF TypeOK, Return

\* A goroutine that does not move keeps its part of the third layer.
LEMMA ConnectKept ==
  ASSUME TypeOK, InvStreams, InvConnects, [Next]_vars,
         NEW q \in Procs, call'[q] = call[q]
  PROVE  ConnectOK(q)'
<1>1. CASE call[q].at \notin {"member", "Connect"}
  BY Zenon, <1>1 DEF ConnectOK
<1>2. CASE call[q].at \in {"member", "Connect"}
  <2>1. call[q].key \in Keys /\ call[q] # Idle /\ call[q].at # "init"
    <3>1. call[q].at \in CallSteps
      BY Zenon, <1>2 DEF CallSteps
    <3>2. call[q].key \in Keys
      BY Zenon, <3>1, InCall
    <3>3. QED
      BY SMTT(30), <1>2, <3>2 DEF Idle
  <2>2. home'[call[q].key] = home[call[q].key]
    BY Zenon, <2>1, HomeFixed DEF InvStreams, CreatesAlone
  <2>3. QED
    BY Zenon, <2>2, HomeFixed DEF InvConnects, ConnectOK
<1>3. QED
  BY Zenon, <1>1, <1>2

\* A queue into which nothing is put keeps its part of the third layer.
LEMMA QueueKept ==
  ASSUME TypeOK, InvStreams, InvConnects, [Next]_vars,
         NEW s \in Sessions,
         queue'[s] = queue[s] \/ (queue[s] # <<>> /\ queue'[s] = Tail(queue[s]))
  PROVE  \A i \in 1..Len(queue'[s]) : queue'[s][i].type = "Connect" =>
           /\ home'[queue'[s][i].key] = s
           /\ queue'[s][i].key \in TraceKeys => s \in capable'
<1> SUFFICES ASSUME NEW i \in 1..Len(queue'[s]), queue'[s][i].type = "Connect"
             PROVE  /\ home'[queue'[s][i].key] = s
                    /\ queue'[s][i].key \in TraceKeys => s \in capable'
  BY Zenon
<1>0. queue[s] \in Seq(Messages)
  BY Zenon DEF TypeOK
<1>1. PICK j \in 1..Len(queue[s]) : queue'[s][i] = queue[s][j]
  <2>1. CASE queue'[s] = queue[s]
    BY Zenon, <2>1
  <2>2. CASE queue[s] # <<>> /\ queue'[s] = Tail(queue[s])
    <3>1. i + 1 \in 1..Len(queue[s]) /\ queue'[s][i] = queue[s][i + 1]
      BY <1>0, <2>2
    <3>2. QED
      BY Zenon, <3>1
  <2>3. QED
    BY Zenon, <2>1, <2>2
<1>2. /\ home[queue[s][j].key] = s
      /\ queue[s][j].key \in TraceKeys => s \in capable
  BY Zenon, <1>1 DEF InvConnects, ConnectsStayHome
<1>3. queue[s][j].key \in Keys /\ s # 0
  <2>1. queue[s][j] \in Messages
    BY <1>0
  <2>2. s # 0
    BY ConstantsAssumption DEF Sessions
  <2>3. QED
    BY Zenon, <2>1, <2>2 DEF Messages
<1>4. QED
  BY Zenon, <1>1, <1>2, <1>3, HomeFixed

\* Every step keeps the third layer.
LEMMA ConnectsInductive ==
  ASSUME TypeOK, InvStreams, InvConnects, [Next]_vars
  PROVE  InvConnects'
<1> USE DEF connVars, muxVars, keyVars
<1> DEFINE Still == \A s \in Sessions :
                      queue'[s] = queue[s] \/ (queue[s] # <<>> /\ queue'[s] = Tail(queue[s]))
<1>a. Still => ConnectsStayHome'
  BY Zenon, QueueKept DEF ConnectsStayHome
<1>b. Callers \subseteq Procs /\ Sessions \subseteq Procs
  BY Zenon DEF Procs
<1>c. ASSUME NEW p \in Procs, Return(p)
      PROVE  \A q \in Procs : ConnectOK(q)'
  BY SMTT(30), <1>c, Returned, ConnectKept DEF ConnectOK, Idle
<1>d. ASSUME NEW p \in Procs, NEW at \in CallSteps \ {"member", "Connect"}, NEW k, NEW s,
             Enter(p, at, k, s)
      PROVE  \A q \in Procs : ConnectOK(q)'
  <2>1. call'[p].at \notin {"member", "Connect"}
    <3>1. call'[p] = [at |-> at, key |-> k, mux |-> s]
      BY <1>d, Entered, SMTT(30)
    <3>2. QED
      BY SMTT(30), <1>d, <3>1
  <2>2. ConnectOK(p)'
    BY Zenon, <2>1 DEF ConnectOK
  <2>3. QED
    BY ZenonT(30), <1>d, <2>2, Entered, ConnectKept
<1>e. UNCHANGED call => \A q \in Procs : ConnectOK(q)'
  BY Zenon, ConnectKept
<1>f. {"init", "Body", "Close", "lock"} \subseteq CallSteps \ {"member", "Connect"}
  BY Zenon DEF CallSteps
<1>1. ASSUME NEW g \in Callers, NEW k \in Keys, Connect(g, k)
      PROVE  InvConnects'
  <2>1. ASSUME Enter(g, "member", k, current), Admits(k)
        PROVE  \A q \in Procs : ConnectOK(q)'
    <3>1. call'[g] = [at |-> "member", key |-> k, mux |-> current]
      BY Zenon, <1>b, <2>1 DEF Enter, TypeOK
    <3>2. capable' = capable /\ (k \in TraceKeys => current \in capable)
      <4>1. capable' = capable
        BY Zenon, <1>1 DEF Connect
      <4>2. QED
        BY Zenon, <2>1, <4>1 DEF Admits, supportsKeyTraces
    <3>3. call'[g].at = "member" /\ call'[g].key = k /\ call'[g].mux = current
      BY <3>1
    <3>4. ConnectOK(g)'
      BY Zenon, <3>2, <3>3 DEF ConnectOK
    <3>5. QED
      BY ZenonT(30), <1>b, <2>1, <3>4, Entered, ConnectKept
  <2>2. QED
    BY ZenonT(30), <1>1, <1>a, <1>e, <2>1 DEF Connect, InvConnects
<1>2. ASSUME NEW g \in Callers, NEW k \in Keys,
             InitializeClient(g, k) \/ Send(g, k) \/ Finish(g, k)
      PROVE  InvConnects'
  BY ZenonT(30), <1>2, <1>a, <1>b, <1>d, <1>e, <1>f
  DEF InitializeClient, Send, Finish, CloseConnection, ReleaseConnection, InvConnects
<1>3. ASSUME NEW p \in Procs, ConnectMember(p)
      PROVE  InvConnects'
  <2>1. PICK k \in Keys, s \in Sessions : k = call[p].key /\ s = call[p].mux
    BY Zenon, <1>3, InCall DEF ConnectMember, CallSteps
  <2>2. ASSUME k \in frontendChans[s], Enter(p, "Connect", k, s)
        PROVE  \A q \in Procs : ConnectOK(q)'
    <3>1. call'[p] = [at |-> "Connect", key |-> k, mux |-> s]
      BY <2>2, Entered, SMTT(30)
    <3>2. home'[k] = s
      BY ZenonT(30), <1>3, <2>2 DEF ConnectMember, InvStreams, MuxOK
    <3>3. k \in TraceKeys => s \in capable'
      <4>1. call[p].at = "member" /\ capable' = capable
        BY ZenonT(30), <1>3 DEF ConnectMember
      <4>2. call[p].at \in {"member", "Connect"} /\ call[p].key \in TraceKeys => call[p].mux \in capable
        BY ZenonT(30) DEF InvConnects, ConnectOK
      <4>3. QED
        BY ZenonT(30), <2>1, <4>1, <4>2
    <3>4. ConnectOK(p)'
      BY <3>1, <3>2, <3>3, SMTT(30) DEF ConnectOK
    <3>5. QED
      BY ZenonT(30), <2>2, <3>4, Entered, ConnectKept
  <2>3. QED
    BY ZenonT(30), <1>3, <1>a, <1>c, <2>1, <2>2 DEF ConnectMember, InvConnects
<1>4. ASSUME NEW p \in Procs, Enqueued(p)
      PROVE  InvConnects'
  <2>1. \A q \in Procs : ConnectOK(q)'
    BY Zenon, <1>4, <1>c, <1>d, <1>f DEF Enqueued, AfterEnqueue
  <2>2. PICK k \in Keys, s \in Sessions : k = call[p].key /\ s = call[p].mux
    BY Zenon, <1>4, InCall DEF Enqueued, MessageTypes, CallSteps
  <2>3. /\ queue'[s] = Append(queue[s], [type |-> call[p].at, key |-> k])
        /\ \A r \in Sessions : r # s => queue'[r] = queue[r]
    BY Zenon, <1>4, <2>2 DEF Enqueued, TypeOK
  <2>4. queue[s] \in Seq(Messages)
    BY Zenon DEF TypeOK
  <2>5. call[p].at = "Connect" => home[k] = s /\ (k \in TraceKeys => s \in capable)
    BY Zenon, <2>2 DEF InvConnects, ConnectOK
  <2>6. UNCHANGED <<home, capable>>
    BY Zenon, <1>4 DEF Enqueued
  <2>7. ASSUME NEW i \in 1..Len(queue'[s]), queue'[s][i].type = "Connect"
        PROVE  /\ home'[queue'[s][i].key] = s
               /\ queue'[s][i].key \in TraceKeys => s \in capable'
    <3>1. CASE i \in 1..Len(queue[s])
      <4>1. queue'[s][i] = queue[s][i]
        BY SMTT(30), <2>3, <2>4, <3>1
      <4>2. QED
        BY Zenon, <2>6, <2>7, <3>1, <4>1 DEF InvConnects, ConnectsStayHome
    <3>2. CASE i = Len(queue[s]) + 1
      <4>1. queue'[s][i] = [type |-> call[p].at, key |-> k]
        BY SMTT(30), <2>3, <2>4, <3>2
      <4>2. QED
        BY SMTT(30), <2>5, <2>6, <2>7, <4>1
    <3>3. QED
      BY <2>3, <2>4, <3>1, <3>2, SMTT(30)
  <2>8. ConnectsStayHome'
    BY Zenon, <2>3, <2>7, QueueKept DEF ConnectsStayHome
  <2>9. QED
    BY Zenon, <2>1, <2>8 DEF InvConnects
<1>5. ASSUME NEW p \in Procs, InitializeLocked(p) \/ NotEnqueued(p) \/ CloseLocked(p) \/ TooLong(p)
      PROVE  InvConnects'
  <2>1. \A q \in Procs : ConnectOK(q)'
    BY ZenonT(30), <1>5, <1>c, <1>d, <1>f
       DEF InitializeLocked, NotEnqueued, TooLong, CloseLocked, AfterEnqueue
  <2>2. UNCHANGED queue
    BY ZenonT(30), <1>5 DEF InitializeLocked, NotEnqueued, TooLong, CloseLocked
  <2>3. QED
    BY Zenon, <1>a, <2>1, <2>2 DEF InvConnects
<1>6. ASSUME NEW s \in Sessions, ReaderCloses(s)
      PROVE  InvConnects'
  <2>1. \A q \in Procs : ConnectOK(q)'
    BY Zenon, <1>6, <1>b, <1>d, <1>e, <1>f DEF ReaderCloses, CloseConnection
  <2>2. UNCHANGED queue
    BY Zenon, <1>6 DEF ReaderCloses
  <2>3. QED
    BY Zenon, <1>a, <2>1, <2>2 DEF InvConnects
<1>7. ASSUME NEW s \in Sessions, WriterSends(s) \/ WriterFails(s)
      PROVE  InvConnects'
  <2>1. Still
    BY Zenon, <1>7 DEF WriterSends, WriterFails, TypeOK
  <2>2. QED
    BY Zenon, <1>7, <1>a, <1>e, <2>1 DEF WriterSends, WriterFails, InvConnects
<1>8. ASSUME NEW s \in Sessions,
             \/ ShutdownPrevious(s) \/ RemoveBackend(s) \/ Sweep(s)
             \/ ReadFails(s) \/ Deliver(s) \/ DeliverTimeout(s)
             \/ \E k \in Keys, t \in {"Body", "Close"} : ReadMessage(s, k, t)
      PROVE  InvConnects'
  <2>1. UNCHANGED <<queue, call>>
    BY Zenon, <1>8 DEF ShutdownPrevious, RemoveBackend, Sweep, ReadFails, Deliver, DeliverTimeout,
                ReadMessage
  <2>2. Still
    BY ZenonT(30), <2>1
  <2> HIDE DEF Still
  <2>3. QED
    BY ZenonT(30), <1>a, <1>e, <2>1, <2>2 DEF InvConnects
<1>9. ASSUME NEW cap \in Capabilities, AddBackend(cap)
      PROVE  InvConnects'
  <2>1. UNCHANGED <<queue, call>>
    BY Zenon, <1>9 DEF AddBackend
  <2>2. QED
    BY Zenon, <1>a, <1>e, <2>1 DEF InvConnects
<1>10. CASE UNCHANGED vars
  <2>1. UNCHANGED <<queue, call>>
    BY Zenon, <1>10 DEF vars
  <2>2. QED
    BY Zenon, <1>a, <1>e, <2>1 DEF InvConnects
<1>11. QED
  BY Zenon, <1>1, <1>2, <1>3, <1>4, <1>5, <1>6, <1>7, <1>8, <1>9, <1>10 DEF Next, CallStep

-----------------------------------------------------------------------------
(* The invariant, and what follows from it *)

IInv == TypeOK /\ InvConns /\ InvStreams /\ InvConnects

\* The strengthened invariant holds of every reachable state.
THEOREM Invariant == Spec => []IInv
<1>1. Init => InvConns /\ InvStreams /\ InvConnects
  <2> SUFFICES ASSUME Init
               PROVE  InvConns /\ InvStreams /\ InvConnects
    BY Zenon
  <2> USE DEF Init
  <2>1. InvConns
    BY ConstantsAssumption DEF InvConns, Idle, Sessions
  <2>2. InvStreams
    <3>1. \A s \in Sessions : MuxOK(s)
      BY Zenon DEF MuxOK, Off
    <3>2. \A k \in Keys : KeyOK(k)
      BY SMTT(30) DEF KeyOK
    <3>3. \A p \in Procs : CreatesAlone(p)
      BY Zenon DEF CreatesAlone, Idle
    <3>4. QED
      BY Zenon, <3>1, <3>2, <3>3 DEF InvStreams
  <2>3. InvConnects
    <3>1. \A s \in Sessions : Len(queue[s]) = 0
      BY Zenon
    <3>2. ConnectsStayHome
      BY <3>1 DEF ConnectsStayHome
    <3>3. \A p \in Procs : call[p].at = "idle"
      BY Zenon DEF Idle
    <3>4. QED
      BY Zenon, <3>2, <3>3 DEF InvConnects, ConnectOK
  <2>4. QED
    BY Zenon, <2>1, <2>2, <2>3
<1>2. TypeOK /\ InvConns /\ InvStreams /\ InvConnects /\ [Next]_vars
        => InvConns' /\ InvStreams' /\ InvConnects'
  BY Zenon, ConnsInductive, StreamsInductive, ConnectsInductive
<1>3. QED
  BY <1>1, <1>2, TypeCorrect, PTL DEF Spec, IInv

\* No goroutine sends on a closed channel or closes one twice, for any number
\* of goroutines, connections and streams.
THEOREM NeverPanics == Spec => []NoPanic
<1>1. IInv => NoPanic
  BY Zenon DEF IInv, InvStreams, NoPanic
<1>2. QED
  BY <1>1, Invariant, PTL

\* A connection that has been swept has no client.
THEOREM NobodyStranded == Spec => []NoStrandedClient
<1>1. IInv => NoStrandedClient
  BY Zenon DEF IInv, InvStreams, MuxOK, NoStrandedClient
<1>2. QED
  BY <1>1, Invariant, PTL

\* The registered connection is the newest and not past its removeBackend.
THEOREM NewestRegistered == Spec => []RegistryHoldsNewest
<1>1. IInv => RegistryHoldsNewest
  BY Zenon DEF IInv, InvConns, RegistryHoldsNewest, hasBackend
<1>2. QED
  BY <1>1, Invariant, PTL

\* A Connect is queued only on the connection of its client, and for an API Key
\* stream only on one that declared the audit capabilities.
THEOREM ConnectsNeverMove == Spec => []ConnectsStayHome
<1>1. IInv => ConnectsStayHome
  BY Zenon DEF IInv, InvConnects
<1>2. QED
  BY <1>1, Invariant, PTL

\* The registered entry disappears only in the shutdown of its own connection:
\* removeBackend compares session identifiers, and addBackend only replaces.
THEOREM OwnShutdownOnly == Spec => EvictedByOwnShutdown
<1> DEFINE Evicts == hasBackend /\ current' = 0
           Own == shut[current] = "done" /\ shut'[current] = "removed"
<1>1. IInv /\ [Next]_vars => [Evicts => Own]_vars
  <2> SUFFICES ASSUME IInv, [Next]_vars, Evicts
               PROVE  Own
    BY Zenon
  <2> USE DEF connVars, muxVars, keyVars
  <2>0. TypeOK /\ current # 0
    BY Zenon DEF IInv, hasBackend
  <2>1. ASSUME NEW s \in Sessions, RemoveBackend(s)
        PROVE  Own
    BY Zenon, <2>0, <2>1 DEF RemoveBackend, TypeOK
  <2>2. ASSUME NEW cap \in Capabilities, AddBackend(cap)
        PROVE  FALSE
    BY SMTT(30), <2>0, <2>2, ConstantsAssumption DEF AddBackend, TypeOK
  <2>3. ASSUME NEW p \in Procs, CallStep(p) \/ TooLong(p)
        PROVE  FALSE
    BY ZenonT(30), <2>0, <2>3
    DEF CallStep, InitializeLocked, ConnectMember, Enqueued, NotEnqueued, CloseLocked, TooLong
  <2>4. ASSUME NEW g \in Callers, NEW k \in Keys,
               InitializeClient(g, k) \/ Connect(g, k) \/ Send(g, k) \/ Finish(g, k)
        PROVE  FALSE
    BY ZenonT(30), <2>0, <2>4 DEF InitializeClient, Connect, Send, Finish
  <2>5. ASSUME NEW s \in Sessions,
               \/ ShutdownPrevious(s) \/ Sweep(s)
               \/ ReadFails(s) \/ Deliver(s) \/ DeliverTimeout(s) \/ ReaderCloses(s)
               \/ WriterSends(s) \/ WriterFails(s)
               \/ \E k \in Keys, t \in {"Body", "Close"} : ReadMessage(s, k, t)
        PROVE  FALSE
    BY Zenon, <2>0, <2>5 DEF ShutdownPrevious, Sweep, ReadFails, Deliver, DeliverTimeout,
                      ReaderCloses, WriterSends, WriterFails, ReadMessage
  <2>6. CASE UNCHANGED vars
    BY Zenon, <2>0, <2>6 DEF vars
  <2>7. QED
    BY ZenonT(30), <2>1, <2>2, <2>3, <2>4, <2>5, <2>6 DEF Next
<1>2. QED
  BY <1>1, Invariant, PTL DEF Spec, EvictedByOwnShutdown

-----------------------------------------------------------------------------
(* Refinement *)

\* To a handler every step of the proxy is a step of FrontendStreams or none at
\* all: shutdown's sweep is the indivisible end of a link with all its streams.
THEOREM SafelyImplements == Spec => ImplementsStreamsSafely
<1>1. Init => Streams!Init
  <2> SUFFICES ASSUME Init
               PROVE  Streams!Init
    BY Zenon
  <2>1. \A s \in Sessions : LinkState(s) = "new"
    BY SMTT(30), ConstantsAssumption DEF Init, LinkState, Sessions
  <2>2. QED
    BY Zenon, <2>1 DEF Init, Streams!Init, Streams!Links, Sessions
<1>2. IInv /\ [Next]_vars => [Streams!Next]_(Streams!vars)
  <2> SUFFICES ASSUME IInv, [Next]_vars
               PROVE  Streams!Next \/ UNCHANGED Streams!vars
    BY Zenon
  <2> USE DEF connVars, muxVars, keyVars
  <2>0. TypeOK /\ InvConns /\ InvStreams
    BY Zenon DEF IInv
  <2>a. Sessions = Streams!Links
    BY Zenon DEF Sessions, Streams!Links
  <2>b. ASSUME UNCHANGED <<made, current, chan, home>>,
               \A r \in Sessions : shut'[r] = "swept" <=> shut[r] = "swept"
        PROVE  UNCHANGED Streams!vars
    <3>1. \A r \in Sessions : LinkState(r)' = LinkState(r)
      BY Zenon, <2>b DEF LinkState
    <3>2. QED
      BY Zenon, <2>b, <3>1 DEF Streams!vars
  <2>1. ASSUME NEW p \in Procs, InitializeLocked(p)
        PROVE  Streams!Next \/ UNCHANGED Streams!vars
    <3>1. PICK k \in Keys, s \in Sessions : k = call[p].key /\ s = call[p].mux
      BY Zenon, <2>0, <2>1, InCall DEF InitializeLocked, CallSteps
    <3>2. CASE UNCHANGED <<frontendChans, chan, home>>
      BY Zenon, <2>1, <2>b, <3>2 DEF InitializeLocked
    <3>3. CASE ~UNCHANGED <<frontendChans, chan, home>>
      <4>1. /\ shut[s] = "no"
            /\ chan' = [chan EXCEPT ![k] = "open"]
            /\ home' = [home EXCEPT ![k] = s]
            /\ UNCHANGED <<made, current, shut>>
        BY Zenon, <2>1, <3>1, <3>3 DEF InitializeLocked
      <4>2. chan[k] = "none"
        BY ZenonT(30), <2>0, <2>1, <3>1 DEF InitializeLocked, InvStreams, CreatesAlone, KeyOK
      <4>3. ~(s > made)
        BY <2>0, <3>1, ConstantsAssumption DEF InvConns, TypeOK, Sessions
      <4>4. LinkState(s) = "up"
        BY Zenon, <4>1, <4>3 DEF LinkState
      <4>5. \A r \in Sessions : LinkState(r)' = LinkState(r)
        BY Zenon, <4>1 DEF LinkState
      <4>6. Streams!Open(k, s)
        BY Zenon, <4>1, <4>2, <4>4, <4>5 DEF Streams!Open
      <4>7. QED
        BY Zenon, <2>a, <4>6 DEF Streams!Next
    <3>4. QED
      BY Zenon, <3>2, <3>3
  <2>2. ASSUME NEW p \in Procs, CloseLocked(p)
        PROVE  Streams!Next \/ UNCHANGED Streams!vars
    <3>1. PICK k \in Keys, s \in Sessions : k = call[p].key /\ s = call[p].mux
      BY ZenonT(30), <2>0, <2>2, InCall DEF CloseLocked, CallSteps
    <3>2. /\ chan' = [j \in Keys |-> IF j \in {k} \cap frontendChans[s] THEN "closed" ELSE chan[j]]
          /\ UNCHANGED <<made, current, shut, home>>
      BY ZenonT(30), <2>2, <3>1 DEF CloseLocked, CloseChans
    <3>3. chan \in [Keys -> {"none", "open", "closed"}]
      BY Zenon, <2>0 DEF TypeOK
    <3>4. CASE k \in frontendChans[s]
      <4>1. chan[k] = "open" /\ chan' = [chan EXCEPT ![k] = "closed"]
        <5>1. chan[k] = "open"
          BY Zenon, <2>0, <3>4 DEF InvStreams, MuxOK
        <5>2. \A j \in Keys : j \in {k} \cap frontendChans[s] <=> j = k
          BY Zenon, <3>4
        <5>3. QED
          BY ZenonT(30), <3>2, <3>3, <5>1, <5>2
      <4>2. \A r \in Sessions : LinkState(r)' = LinkState(r)
        BY Zenon, <3>2 DEF LinkState
      <4>3. QED
        BY ZenonT(30), <3>2, <4>1, <4>2 DEF Streams!Next, Streams!Close
    <3>5. CASE k \notin frontendChans[s]
      <4>1. chan' = chan
        BY Zenon, <3>2, <3>3, <3>5
      <4>2. QED
        BY Zenon, <2>b, <3>2, <4>1
    <3>6. QED
      BY Zenon, <3>4, <3>5
  <2>3. ASSUME NEW s \in Sessions, Sweep(s)
        PROVE  Streams!Next
    <3>1. /\ shut[s] = "removed"
          /\ shut' = [shut EXCEPT ![s] = "swept"]
          /\ chan' = [k \in Keys |-> IF k \in frontendChans[s] THEN "closed" ELSE chan[k]]
          /\ UNCHANGED <<made, current, home>>
      BY Zenon, <2>3 DEF Sweep, CloseChans
    <3>2. ~(s > made) /\ current # s
      BY SMTT(30), <2>0, <3>1, ConstantsAssumption DEF InvConns, TypeOK, Sessions
    <3>3. \A k \in Keys : k \in frontendChans[s] <=> chan[k] = "open" /\ home[k] = s
      BY ZenonT(30), <2>0 DEF InvStreams, MuxOK, KeyOK
    <3>4. LinkState(s) = "up" /\ LinkState(s)' = "down"
      BY Zenon, <2>0, <3>1, <3>2 DEF LinkState, TypeOK
    <3>5. \A r \in Sessions : r # s => LinkState(r)' = LinkState(r)
      BY Zenon, <2>0, <3>1 DEF LinkState, TypeOK
    <3>6. Streams!LinkDown(s)
      BY ZenonT(30), <3>1, <3>2, <3>3, <3>4, <3>5 DEF Streams!LinkDown
    <3>7. QED
      BY Zenon, <2>a, <3>6 DEF Streams!Next
  <2>4. ASSUME NEW cap \in Capabilities, AddBackend(cap)
        PROVE  Streams!Next
    <3>1. PICK n \in Sessions : n = made + 1
      BY SMTT(30), <2>0, <2>4, ConstantsAssumption DEF AddBackend, TypeOK, Sessions
    <3>2. /\ made \in Nat /\ made < MaxSessions /\ made' = n /\ current' = n
          /\ UNCHANGED <<shut, chan, home>>
      BY <2>0, <2>4, <3>1, ConstantsAssumption DEF AddBackend, TypeOK
    <3>3. LinkState(n)' = "up"
      <4>1. shut[n] = "no" /\ ~(n > made')
        BY <2>0, <3>1, <3>2 DEF InvConns
      <4>2. QED
        BY Zenon, <3>2, <4>1 DEF LinkState
    <3>4. \A r \in Sessions : r # n => LinkState(r)' = LinkState(r)
      BY <3>1, <3>2, ConstantsAssumption DEF LinkState, Sessions
    <3>5. Streams!LinkUp
      <4> DEFINE L == [s \in Sessions |-> LinkState(s)]
      <4>1. L' = [L EXCEPT ![n] = "up"]
        BY ZenonT(30), <3>3, <3>4
      <4>2. QED
        BY Zenon, <3>1, <3>2, <4>1 DEF Streams!LinkUp
    <3>6. QED
      BY Zenon, <3>5 DEF Streams!Next
  <2>5. ASSUME NEW s \in Sessions, RemoveBackend(s)
        PROVE  Streams!Next \/ UNCHANGED Streams!vars
    <3>1. /\ UNCHANGED <<made, chan, home>>
          /\ \A r \in Sessions : shut'[r] = "swept" <=> shut[r] = "swept"
      BY Zenon, <2>0, <2>5 DEF RemoveBackend, TypeOK
    <3>2. CASE current' = current
      BY Zenon, <2>b, <3>1, <3>2
    <3>3. CASE current' # current
      <4>1. current # 0 /\ current' = 0
        BY Zenon, <2>5, <3>3, ConstantsAssumption DEF RemoveBackend, Sessions
      <4>2. \A r \in Sessions : LinkState(r)' = LinkState(r)
        BY Zenon, <3>1 DEF LinkState
      <4>3. QED
        BY ZenonT(30), <3>1, <4>1, <4>2 DEF Streams!Next, Streams!Withdraw
    <3>4. QED
      BY Zenon, <3>2, <3>3
  <2>6. ASSUME NEW s \in Sessions, ShutdownPrevious(s) \/ ReadFails(s) \/ WriterFails(s)
        PROVE  UNCHANGED Streams!vars
    <3>1. \A r \in Sessions : shut'[r] = "swept" <=> shut[r] = "swept"
      BY Zenon, <2>0, <2>6 DEF ShutdownPrevious, ReadFails, WriterFails, BeginShutdown, TypeOK
    <3>2. QED
      BY Zenon, <2>6, <2>b, <3>1 DEF ShutdownPrevious, ReadFails, WriterFails
  <2>7. ASSUME NEW s \in Sessions,
               \/ Deliver(s) \/ DeliverTimeout(s) \/ ReaderCloses(s) \/ WriterSends(s)
               \/ \E k \in Keys, t \in {"Body", "Close"} : ReadMessage(s, k, t)
        PROVE  UNCHANGED Streams!vars
    BY Zenon, <2>7, <2>b DEF Deliver, DeliverTimeout, ReaderCloses, WriterSends, ReadMessage
  <2>8. ASSUME NEW g \in Callers, NEW k \in Keys,
               InitializeClient(g, k) \/ Connect(g, k) \/ Send(g, k) \/ Finish(g, k)
        PROVE  UNCHANGED Streams!vars
    BY ZenonT(30), <2>8, <2>b DEF InitializeClient, Connect, Send, Finish
  <2>9. ASSUME NEW p \in Procs, ConnectMember(p) \/ Enqueued(p) \/ NotEnqueued(p) \/ TooLong(p)
        PROVE  UNCHANGED Streams!vars
    BY ZenonT(30), <2>9, <2>b DEF ConnectMember, Enqueued, NotEnqueued, TooLong
  <2>10. CASE UNCHANGED vars
    BY Zenon, <2>10, <2>b DEF vars
  <2>11. QED
    BY Zenon, <2>1, <2>2, <2>3, <2>4, <2>5, <2>6, <2>7, <2>8, <2>9, <2>10 DEF Next, CallStep
<1>3. QED
  BY <1>1, <1>2, Invariant, PTL DEF Spec, ImplementsStreamsSafely, Streams!SafeSpec
=============================================================================
