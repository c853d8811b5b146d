------------------------ MODULE MCPersistentSession ------------------------
(* Small instances of PersistentSession for TLC. *)
EXTENDS PersistentSession, FiniteSets, TLC

Symmetry == Permutations(Conns) \cup Permutations(Tabs)

\* At most one websocket is used, and it makes no difference of which tab.
OneBrowser ==
  Cardinality({c \in Conns : at[c] # "idle"}) <= 1 /\ \A c, d \in Conns : tab[c] = tab[d]

NoRequests == \A r \in Requests : at[r] = "idle"

\* Of a request, the cleanup and an output, two are under way at a time.
TwoOfThree == NoRequests \/ at[Cleaner] = "idle" \/ outs = <<>>

\* The scenarios that one safety run goes through.  What is combined is what the
\* code relates: a ticket with requests, cleanup and one output; two browsers that
\* take control from each other; outputs of all sizes with one browser that reads.
Delegated ==
  grant # "none" /\ kind = "terminal" /\ OneBrowser /\ outs \in {<<>>, <<1>>} /\ TwoOfThree
Browsers ==
  grant = "none" /\ outs = <<>> /\ NoRequests
Outputs ==
  grant = "none" /\ kind = "logs" /\ OneBrowser /\ NoRequests /\ at[Cleaner] = "idle"

Scenarios == Delegated \/ Browsers \/ Outputs
=============================================================================
