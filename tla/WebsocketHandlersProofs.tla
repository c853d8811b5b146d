---------------------- MODULE WebsocketHandlersProofs ----------------------
(***************************************************************************)
(* What holds of direct streams and of stats aggregates of any size: TLC   *)
(* checks aggregates of two targets, the code allows maxStatsTargets.      *)
(***************************************************************************)
EXTENDS WebsocketHandlers, FiniteSets, FiniteSetTheorems, TLAPS

USE ConstantsAssumption DEF Targets

Early == {"auth", "payload", "targets"}

InvTypes ==
  /\ kind \in {"direct", "stats"} /\ count \in Targets /\ grant \in {"none", "live"}
  /\ pc \in {"auth", "payload", "targets", "initialize", "pump", "connect", "reading", "sending",
             "release", "cancel", "close", "returned"}
  /\ i \in 1..count
  /\ ws \in {"none", "open", "closed"}
  /\ verdict \in {"ok", "refused"} /\ cancelled \in BOOLEAN
  /\ watch \in {"off", "waiting", "checking", "denying", "gone"}
  /\ chan \in [Targets -> {"none", "open", "closed"}]
  /\ link \in [Targets -> {"up", "down"}]
  /\ command \in [Targets -> {"none", "running", "gone"}]
  /\ pump \in [Targets -> {"off", "receiving", "body", "outcome", "last", "done"}]
  /\ ended \subseteq Targets

\* Release works its way through the targets, none of which is outside 1..count.
InvRelease ==
  /\ pc \in Early => \A t \in Targets : chan[t] = "none"
  /\ \A t \in Targets : chan[t] # "none" => t <= count
  /\ pc = "release" => \A t \in Targets : t < i /\ chan[t] = "open" => link[t] = "down"
  /\ pc \in {"cancel", "close", "returned"} =>
       \A t \in Targets : chan[t] = "open" => link[t] = "down"

\* The pumps are started in order.
InvPumps ==
  /\ pc \in Early \cup {"initialize"} => \A t \in Targets : pump[t] = "off"
  /\ pc = "pump" => \A t \in Targets : t >= i => pump[t] = "off"
  /\ pc = "connect" => \A t \in Targets : t > i => pump[t] = "off"

\* The invariants hold of the first states.
LEMMA TypesInitially == Init => InvTypes /\ InvRelease /\ InvPumps
<1> SUFFICES ASSUME Init PROVE InvTypes /\ InvRelease /\ InvPumps
  BY Zenon
<1>1. cancelled \in BOOLEAN
  BY Zenon DEF Init
<1>2. InvTypes
  BY <1>1 DEF Init, InvTypes
<1> QED
  BY Zenon, <1>2 DEF Init, InvRelease, InvPumps, Early

\* Every step keeps types, releases and pumps as they should be.
LEMMA TypesPreserved ==
  ASSUME InvTypes, InvRelease, InvPumps, [Next]_vars
  PROVE  InvTypes' /\ InvRelease' /\ InvPumps'
<1> USE DEF InvTypes, InvRelease, InvPumps, Early, watchVars, backVars, pumpVars
<1>1. CASE Auth
  BY Zenon, <1>1 DEF Auth, Watching
<1>2. CASE ReadPayload
  BY ZenonT(30), <1>2 DEF ReadPayload
<1>3. CASE ParseStatsInfo
  BY <1>3 DEF ParseStatsInfo, Watching
<1>4. CASE InitializeClient
  BY <1>4 DEF InitializeClient, Unwind
<1>5. CASE StartPump
  BY <1>5 DEF StartPump
<1>6. CASE Connect
  BY <1>6 DEF Connect, Unwind
<1>7. CASE ReadFails
  BY <1>7 DEF ReadFails, Unwind
<1>8. CASE ReadMessage
  BY Zenon, <1>8 DEF ReadMessage
<1>9. CASE Send
  BY <1>9 DEF Send, Unwind
<1>10. CASE Release
  <2>1. /\ chan' \in [Targets -> {"none", "open", "closed"}]
        /\ \A t \in Targets : chan'[t] # "none" => chan[t] # "none"
        /\ \A t \in Targets : chan'[t] = "open" => chan[t] = "open" /\ (t = i => link[t] = "down")
    BY <1>10 DEF Release, ReleaseTarget
  <2>2. command' \in [Targets -> {"none", "running", "gone"}]
    BY <1>10 DEF Release, ReleaseTarget
  <2>3. CASE i < count
    BY <1>10, <2>1, <2>2, <2>3 DEF Release
  <2>4. CASE i = count
    BY <1>10, <2>1, <2>2, <2>4 DEF Release
  <2> QED
    BY <2>3, <2>4
<1>11. CASE Cancel
  BY Zenon, <1>11 DEF Cancel
<1>12. CASE CloseSocket
  BY Zenon, <1>12 DEF CloseSocket
<1>13. CASE \E t \in Targets : PumpReceives(t)
  <2> PICK t \in Targets : PumpReceives(t)
    BY Zenon, <1>13
  <2>1. /\ pump[t] = "receiving"
        /\ \E to \in {"body", "outcome"} : pump' = [pump EXCEPT ![t] = to]
    BY Zenon DEF PumpReceives
  <2>2. InvPumps'
    BY <2>1 DEF PumpReceives
  <2>3. command' \in [Targets -> {"none", "running", "gone"}] /\ ended' \subseteq Targets
    BY ZenonT(30) DEF PumpReceives
  <2> QED
    BY <2>1, <2>2, <2>3 DEF PumpReceives
<1>14. CASE \E t \in Targets : PumpEnds(t)
  BY <1>14 DEF PumpEnds
<1>15. CASE \E t \in Targets : PumpWrites(t)
  BY <1>15 DEF PumpWrites
<1>16. CASE \E t \in Targets : PumpCloses(t)
  BY <1>16 DEF PumpCloses
<1>17. CASE \E t \in Targets : PumpClosesSocket(t)
  BY <1>17 DEF PumpClosesSocket
<1>18. CASE \E t \in Targets : LinkDrops(t)
  BY <1>18 DEF LinkDrops
<1>19. CASE \E t \in Targets : LinkSwept(t)
  BY <1>19 DEF LinkSwept
<1>20. CASE \E t \in Targets : StreamCut(t)
  BY <1>20 DEF StreamCut
<1>21. CASE \E t \in Targets : OrphanClosed(t)
  BY <1>21 DEF OrphanClosed
<1>22. CASE BrowserLeaves
  BY <1>22 DEF BrowserLeaves
<1>23. CASE WatchTicks \/ WatchChecked \/ WatchExpires \/ WatchCancelled \/ Deny
  <2>1. UNCHANGED <<kind, count, grant, pc, i, cancelled, backVars, pumpVars>>
    BY Zenon, <1>23 DEF WatchTicks, WatchChecked, WatchExpires, WatchCancelled, Deny
  <2>2. /\ watch' \in {"off", "waiting", "checking", "denying", "gone"}
        /\ verdict' \in {"ok", "refused"} /\ ws' \in {"none", "open", "closed"}
    BY Zenon, <1>23 DEF WatchTicks, WatchChecked, WatchExpires, WatchCancelled, Deny
  <2> QED
    BY <2>1, <2>2
<1>24. CASE UNCHANGED vars
  BY <1>24 DEF vars
<1> HIDE DEF InvTypes, InvRelease, InvPumps
<1> QED
  BY Zenon, <1>1, <1>2, <1>3, <1>4, <1>5, <1>6, <1>7, <1>8, <1>9, <1>10, <1>11, <1>12, <1>13, <1>14,
     <1>15, <1>16, <1>17, <1>18, <1>19, <1>20, <1>21, <1>22, <1>23, <1>24
     DEF Next, HandlerStep, PumpStep

-----------------------------------------------------------------------------
(* The countdown of an aggregate *)

\* The targets whose Close was counted.
Counted == {t \in ended : pump[t] \in {"last", "done"}}

Running ==
  \/ pc \in {"initialize", "pump", "connect", "reading", "sending"}
  \/ \E t \in Targets : pump[t] # "off"

\* doneCounter is the number of targets whose Close was not counted.
InvCount ==
  /\ ended \subseteq 1..count
  /\ pc \in {"payload", "targets"} => kind = "stats"
  /\ pc \in Early \/ kind = "direct" => doneCounter = 0
  /\ kind = "direct" => \A t \in Targets : pump[t] # "last"
  /\ kind = "stats" => \A t \in ended : pump[t] \in {"outcome", "last", "done"}
  /\ kind = "stats" /\ Running => doneCounter = count - Cardinality(Counted)
  /\ \A t \in Targets : pump[t] \in {"outcome", "last"} => t \in ended
  /\ \A t \in Targets : pump[t] = "last" => doneCounter = 0

\* A subset of 1..n has at most n elements, and n only if it is all of it.
LEMMA SubsetOfInterval ==
  ASSUME NEW n \in Nat, NEW S \in SUBSET (1..n)
  PROVE  /\ IsFiniteSet(S) /\ Cardinality(S) \in 0..n
         /\ Cardinality(S) = n => S = 1..n
<1>1. IsFiniteSet(1..n) /\ Cardinality(1..n) = n
  BY FS_Interval
<1>2. IsFiniteSet(S) /\ Cardinality(S) <= Cardinality(1..n)
      /\ (Cardinality(S) = Cardinality(1..n) => S = 1..n)
  BY ZenonT(30), <1>1, FS_Subset
<1>3. Cardinality(S) \in Nat
  BY Zenon, <1>2, FS_CardinalityType
<1> QED
  BY <1>1, <1>2, <1>3

\* What was counted is among the request's targets.
LEMMA CountedInInterval ==
  ASSUME InvTypes, InvCount
  PROVE  Counted \in SUBSET (1..count) /\ count \in Nat
<1>1. count \in Nat
  BY ConstantsAssumption DEF InvTypes, Targets
<1>2. Counted \subseteq ended
  BY Zenon DEF Counted
<1>3. ended \subseteq 1..count
  BY Zenon DEF InvCount
<1> QED
  BY Zenon, <1>1, <1>2, <1>3

\* Steps that leave the pumps and the counter alone, and do not begin anything.
LEMMA CountKept ==
  ASSUME InvTypes, InvCount, UNCHANGED <<kind, count, pump, doneCounter, ended>>,
         Running' => Running \/ kind = "direct", pc' \in Early => pc \in Early,
         pc' \in {"payload", "targets"} => kind = "stats"
  PROVE  InvCount'
<1>1. Counted' = Counted
  BY Zenon DEF Counted
<1> QED
  BY Zenon, <1>1 DEF InvCount, InvTypes

\* A step of one pump that counts nothing: of a direct stream, or before the
\* target's Close is counted.
LEMMA PumpMoved ==
  ASSUME InvTypes, InvCount, NEW t \in Targets, NEW to,
         pump' = [pump EXCEPT ![t] = to], pump[t] # "off", to # "last",
         kind = "stats" => t \notin ended,
         ended' = (IF to = "outcome" THEN ended \cup {t} ELSE ended),
         to = "outcome" => t <= count,
         UNCHANGED <<kind, count, pc, doneCounter>>
  PROVE  InvCount'
<1>1. CASE kind = "direct"
  BY <1>1 DEF InvCount, InvTypes
<1>2. CASE kind = "stats"
  <2>1. Counted' = Counted
    BY Zenon, <1>2 DEF Counted, InvTypes
  <2>2. Running
    BY Zenon DEF Running
  <2>3. kind' = "stats" /\ Running' => doneCounter' = count' - Cardinality(Counted)'
    BY Zenon, <1>2, <2>1, <2>2 DEF InvCount
  <2> QED
    BY <1>2, <2>3 DEF InvCount, InvTypes
<1> QED
  BY Zenon, <1>1, <1>2 DEF InvTypes

\* Every step keeps the countdown equal to the pumps that are still to finish.
LEMMA CountPreserved ==
  ASSUME InvTypes, InvRelease, InvPumps, InvCount, [Next]_vars
  PROVE  InvCount'
<1> USE DEF watchVars, backVars, pumpVars
<1>1. CASE Auth \/ ReadPayload
  <2>1. Running' => Running \/ kind = "direct"
    BY Zenon, <1>1 DEF Auth, ReadPayload, Running
  <2> QED
    BY Zenon, <1>1, <2>1, CountKept DEF Auth, ReadPayload, Early, InvCount
<1>2. CASE ParseStatsInfo
  <2>1. pc = "targets" /\ kind = "stats" /\ \A t \in Targets : pump[t] = "off"
    BY Zenon, <1>2 DEF ParseStatsInfo, InvPumps, InvCount, Early
  <2>2. ended = {} /\ Counted' = {}
    BY ZenonT(30), <1>2, <2>1 DEF ParseStatsInfo, InvCount, Counted, InvTypes
  <2>3. Cardinality(Counted') = 0
    BY Zenon, <2>2, FS_EmptySet
  <2>4. CASE pc' = "returned"
    <3>1. ~Running'
      BY Zenon, <1>2, <2>1, <2>4 DEF ParseStatsInfo, Running
    <3> QED
      BY Zenon, <1>2, <2>1, <2>2, <2>4, <3>1 DEF ParseStatsInfo, InvCount, InvTypes, Early
  <2>5. CASE pc' = "initialize"
    <3>1. doneCounter' = count' - Cardinality(Counted')
      BY <1>2, <2>3, <2>5 DEF ParseStatsInfo, InvTypes
    <3> QED
      BY Zenon, <1>2, <2>1, <2>2, <2>5, <3>1 DEF ParseStatsInfo, InvCount, InvTypes, Early
  <2> QED
    BY Zenon, <1>2, <2>4, <2>5 DEF ParseStatsInfo
<1>3. CASE InitializeClient \/ Connect \/ ReadFails \/ ReadMessage \/ Send
  <2>1. /\ Running /\ pc' \notin Early
        /\ UNCHANGED <<kind, count, pump, doneCounter, ended>>
    BY Zenon, <1>3 DEF InitializeClient, Connect, ReadFails, ReadMessage, Send, Unwind, Running, Early
  <2> QED
    BY Zenon, <2>1, CountKept DEF Early
<1>4. CASE Release \/ Cancel \/ CloseSocket
  <2>1. /\ Running' => Running
        /\ pc' \notin Early
        /\ UNCHANGED <<kind, count, pump, doneCounter, ended>>
    BY Zenon, <1>4 DEF Release, Cancel, CloseSocket, Running, Early
  <2> QED
    BY Zenon, <2>1, CountKept DEF Early
<1>5. CASE StartPump
  <2>1. pc = "pump" /\ pump[i] = "off" /\ i \in Targets
    BY <1>5 DEF StartPump, InvPumps, InvTypes
  <2>2. Running
    BY Zenon, <2>1 DEF Running
  <2>3. kind = "stats" => Counted' = Counted
    BY Zenon, <1>5, <2>1 DEF StartPump, Counted, InvCount, InvTypes
  <2>4. kind' = "stats" /\ Running' => doneCounter' = count' - Cardinality(Counted)'
    BY Zenon, <1>5, <2>2, <2>3 DEF StartPump, InvCount
  <2> QED
    BY <1>5, <2>1, <2>4 DEF StartPump, InvCount, InvTypes, Early
<1>6. CASE \E t \in Targets : PumpReceives(t)
  <2> PICK t \in Targets : PumpReceives(t)
    BY Zenon, <1>6
  <2>1. t <= count /\ pump[t] = "receiving"
    BY Zenon DEF PumpReceives, InvRelease
  <2>2. kind = "stats" => t \notin ended
    BY Zenon, <2>1 DEF InvCount
  <2>3. CASE pump' = [pump EXCEPT ![t] = "body"] /\ UNCHANGED ended
    BY ZenonT(30), <2>1, <2>2, <2>3, PumpMoved DEF PumpReceives
  <2>4. CASE pump' = [pump EXCEPT ![t] = "outcome"] /\ ended' = ended \cup {t}
    BY ZenonT(30), <2>1, <2>2, <2>4, PumpMoved DEF PumpReceives
  <2> QED
    BY Zenon, <2>3, <2>4 DEF PumpReceives
<1>7. CASE \E t \in Targets : PumpEnds(t) \/ PumpWrites(t)
  <2> PICK t \in Targets : PumpEnds(t) \/ PumpWrites(t)
    BY Zenon, <1>7
  <2>1. pump[t] \in {"receiving", "body"}
    BY Zenon DEF PumpEnds, PumpWrites
  <2>2. kind = "stats" => t \notin ended
    BY Zenon, <2>1 DEF InvCount
  <2>3. PICK to \in {"receiving", "done"} : pump' = [pump EXCEPT ![t] = to]
    BY Zenon DEF PumpEnds, PumpWrites
  <2>4. UNCHANGED <<kind, count, pc, doneCounter, ended>>
    BY Zenon DEF PumpEnds, PumpWrites
  <2> QED
    BY ZenonT(30), <2>1, <2>2, <2>3, <2>4, PumpMoved
<1>8. CASE \E t \in Targets : PumpCloses(t)
  <2> PICK t \in Targets : PumpCloses(t)
    BY Zenon, <1>8
  <2>1. pump[t] = "outcome" /\ t \in ended /\ Running
    BY Zenon DEF PumpCloses, InvCount, Running
  <2>2. CASE kind = "direct"
    BY <2>1, <2>2 DEF PumpCloses, InvCount, InvTypes
  <2>3. CASE kind = "stats"
    <3>0. Counted \in SUBSET (1..count) /\ count \in Nat
      BY Zenon, CountedInInterval
    <3>9. t \in 1..count /\ t \notin Counted
      BY Zenon, <2>1 DEF Counted, InvCount
    <3>1. Counted \in SUBSET (1..count) /\ t \in 1..count /\ t \notin Counted /\ count \in Nat
      BY Zenon, <3>0, <3>9
    <3>2. IsFiniteSet(Counted) /\ Cardinality(Counted) \in 0..count /\ Cardinality(Counted) # count
      BY Zenon, <3>1, SubsetOfInterval
    <3>3. doneCounter = count - Cardinality(Counted) /\ doneCounter # 0
      BY <2>1, <2>3, <3>2, <3>1 DEF InvCount
    <3>4. PICK to \in {"last", "done"} :
            /\ pump' = [pump EXCEPT ![t] = to]
            /\ to = "last" => doneCounter' = 0
      BY Zenon, <2>3 DEF PumpCloses
    <3>5. Counted' = Counted \cup {t}
      BY <2>1, <3>4 DEF PumpCloses, Counted, InvTypes
    <3>6. Cardinality(Counted') = Cardinality(Counted) + 1
      BY Zenon, <3>1, <3>2, <3>5, FS_AddElement
    <3>7. doneCounter' = count' - Cardinality(Counted')
      BY <2>3, <3>1, <3>2, <3>3, <3>6 DEF PumpCloses
    <3>8. pc \notin Early
      BY Zenon, <2>1 DEF InvPumps
    <3> QED
      BY <2>1, <2>3, <3>3, <3>4, <3>7, <3>8 DEF PumpCloses, InvCount, InvTypes, Early
  <2> QED
    BY Zenon, <2>2, <2>3 DEF InvTypes
<1>9. CASE \E t \in Targets : PumpClosesSocket(t)
  <2> PICK t \in Targets : PumpClosesSocket(t)
    BY Zenon, <1>9
  <2>1. pump[t] = "last" /\ pump' = [pump EXCEPT ![t] = "done"] /\ Running
    BY Zenon DEF PumpClosesSocket, Running
  <2>2. Counted' = Counted
    BY Zenon, <2>1 DEF PumpClosesSocket, Counted, InvTypes
  <2>3. kind' = "stats" /\ Running' => doneCounter' = count' - Cardinality(Counted)'
    BY Zenon, <2>1, <2>2 DEF PumpClosesSocket, InvCount
  <2> QED
    BY <2>1, <2>3 DEF PumpClosesSocket, InvCount, InvTypes
<1>10. CASE \E t \in Targets : LinkDrops(t) \/ LinkSwept(t) \/ StreamCut(t) \/ OrphanClosed(t)
  <2>1. UNCHANGED <<kind, count, pc, pump, doneCounter, ended>>
    BY Zenon, <1>10 DEF LinkDrops, LinkSwept, StreamCut, OrphanClosed
  <2> QED
    BY Zenon, <2>1, CountKept DEF Running, InvCount
<1>11. CASE BrowserLeaves \/ WatchTicks \/ WatchChecked \/ WatchExpires \/ WatchCancelled \/ Deny
  <2>1. UNCHANGED <<kind, count, pc, pump, doneCounter, ended>>
    BY Zenon, <1>11 DEF BrowserLeaves, WatchTicks, WatchChecked, WatchExpires, WatchCancelled, Deny
  <2> QED
    BY Zenon, <2>1, CountKept DEF Running, InvCount
<1>12. CASE UNCHANGED vars
  BY Zenon, <1>12, CountKept DEF vars, Running, InvCount
<1> QED
  BY Zenon, <1>1, <1>2, <1>3, <1>4, <1>5, <1>6, <1>7, <1>8, <1>9, <1>10, <1>11, <1>12
     DEF Next, HandlerStep, PumpStep

-----------------------------------------------------------------------------
IInv == InvTypes /\ InvRelease /\ InvPumps /\ InvCount

\* The inductive invariant holds in every reachable state.
LEMMA Invariant == Spec => []IInv
<1>1. Init => IInv
  <2>1. Init => InvCount
    BY Zenon DEF Init, InvCount, Running, Early
  <2> QED
    BY Zenon, <2>1, TypesInitially DEF IInv
<1>2. IInv /\ [Next]_vars => IInv'
  BY Zenon, TypesPreserved, CountPreserved DEF IInv
<1> QED
  BY <1>1, <1>2, PTL DEF Spec

\* However ServeHTTP returns, after a partial initialization of any number of
\* targets too, no stream stays registered on a link that serves.
THEOREM StreamsReleased == Spec => []NothingLeftRegistered
<1>1. IInv => NothingLeftRegistered
  BY Zenon DEF IInv, InvRelease, NothingLeftRegistered
<1> QED
  BY <1>1, Invariant, PTL

\* An aggregate of any number of targets is closed as finished only when the
\* agents of all of them have closed their streams: the countdown is exact.
THEOREM CountdownExact == Spec => []LastOneCloses
<1>1. IInv => LastOneCloses
  <2> SUFFICES ASSUME IInv, NEW t \in Targets, pump[t] = "last" PROVE ended = 1..count
    BY Zenon DEF LastOneCloses
  <2>1. kind = "stats" /\ Running /\ doneCounter = 0
    BY Zenon DEF IInv, InvTypes, InvCount, Running
  <2>0. Counted \in SUBSET (1..count) /\ count \in Nat
    BY Zenon, CountedInInterval DEF IInv
  <2>2. Counted \in SUBSET (1..count) /\ count \in Nat /\ Cardinality(Counted) \in 0..count
    BY ZenonT(30), <2>0, SubsetOfInterval
  <2>3. Cardinality(Counted) = count
    BY <2>1, <2>2 DEF IInv, InvCount
  <2>4. Counted = 1..count
    BY Zenon, <2>2, <2>3, SubsetOfInterval
  <2> QED
    BY ZenonT(30), <2>4 DEF IInv, InvCount, Counted
<1> QED
  BY <1>1, Invariant, PTL
=============================================================================
