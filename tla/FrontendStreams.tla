-------------------------- MODULE FrontendStreams --------------------------
(***************************************************************************)
(* What the backend proxy promises to the handlers that use it, without    *)
(* locks, channels or goroutines: streams live on links to a host's agent, *)
(* a link goes down together with every stream on it in one indivisible    *)
(* step, nothing opens on a link that is down, and a link that is no       *)
(* longer the host's registered one does go down.  Multiplexer implements  *)
(* it (MultiplexerRefinement).                                             *)
(***************************************************************************)
EXTENDS Naturals

CONSTANTS Keys, MaxSessions

Links == 1..MaxSessions

VARIABLES
  newest,   \* the last link that came up, 0 before the first
  serving,  \* the link new streams are opened on, 0 if none
  link,     \* [link -> "new" | "up" | "down"]
  stream,   \* [key -> "none" | "open" | "closed"]
  on        \* [key -> the link of the stream, 0 before it is opened]

vars == <<newest, serving, link, stream, on>>

Init ==
  /\ newest = 0
  /\ serving = 0
  /\ link = [l \in Links |-> "new"]
  /\ stream = [k \in Keys |-> "none"]
  /\ on = [k \in Keys |-> 0]

\* The agent connects: the new link takes over from whatever served before.
LinkUp ==
  /\ newest < MaxSessions
  /\ newest' = newest + 1
  /\ serving' = newest'
  /\ link' = [link EXCEPT ![newest'] = "up"]
  /\ UNCHANGED <<stream, on>>

\* The serving link is withdrawn.
Withdraw ==
  /\ serving # 0
  /\ serving' = 0
  /\ UNCHANGED <<newest, link, stream, on>>

\* A link that no longer serves goes down with all its streams.
LinkDown(l) ==
  /\ link[l] = "up"
  /\ serving # l
  /\ link' = [link EXCEPT ![l] = "down"]
  /\ stream' = [k \in Keys |-> IF stream[k] = "open" /\ on[k] = l THEN "closed" ELSE stream[k]]
  /\ UNCHANGED <<newest, serving, on>>

\* A client that picked link l before it stopped serving may still open there.
Open(k, l) ==
  /\ stream[k] = "none"
  /\ link[l] = "up"
  /\ stream' = [stream EXCEPT ![k] = "open"]
  /\ on' = [on EXCEPT ![k] = l]
  /\ UNCHANGED <<newest, serving, link>>

Close(k) ==
  /\ stream[k] = "open"
  /\ stream' = [stream EXCEPT ![k] = "closed"]
  /\ UNCHANGED <<newest, serving, link, on>>

Next ==
  \/ LinkUp
  \/ Withdraw
  \/ \E l \in Links : LinkDown(l)
  \/ \E k \in Keys, l \in Links : Open(k, l)
  \/ \E k \in Keys : Close(k)

SafeSpec == Init /\ [][Next]_vars

Spec == SafeSpec /\ \A l \in Links : WF_vars(LinkDown(l))
=============================================================================
