--------------------------- MODULE MCBackendLink ---------------------------
(* The two ends of a backend connection, the proxy's and the agent's, are    *)
(* checked side by side: a behaviour begins with the choice of one and is    *)
(* then a behaviour of that one.  In its initial state neither has a fair    *)
(* action enabled, so the fairness of the other holds of it.                 *)
EXTENDS Multiplexer, BackendAgent

VARIABLE side   \* the end that runs

linkVars == <<side, vars, agentVars>>

MCInit == side \in {"proxy", "agent"} /\ Init /\ AgentInit

MCNext ==
  /\ side' = side
  /\ \/ side = "proxy" /\ Next /\ UNCHANGED agentVars
     \/ side = "agent" /\ AgentNext /\ UNCHANGED vars

MCSpec ==
  /\ MCInit /\ [][MCNext]_linkVars
  /\ ConnectionFairness /\ CallFairness /\ AgentFairness
=============================================================================
