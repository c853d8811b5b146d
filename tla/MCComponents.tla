---------------------------- MODULE MCComponents ----------------------------
(* The components that share no state are checked side by side: a behaviour  *)
(* begins with the choice of one and is then a behaviour of that one.  In    *)
(* its initial state no component has a fair action enabled, so the fairness *)
(* of those that do not run holds of them.  The other components need only   *)
(* one of the initial states of the interceptor.                             *)
EXTENDS TokenCache, DenialReceipts, SessionManager, MCInterceptor, ClientConnections,
        PlatformWebsocket, Switcher, HTTPHandler

VARIABLE part   \* the component that runs

allVars == <<part, cacheVars, receiptVars, managerVars, interceptorVars, connVars,
             relayVars, switcherVars, httpVars>>

MCInit ==
  /\ part \in {"cache", "receipts", "manager", "interceptor", "connections", "relay",
               "switcher", "http"}
  /\ CacheInit /\ ReceiptsInit /\ ManagerInit /\ InterceptorInit
  /\ ConnectionsInit /\ RelayInit /\ SwitcherInit /\ HTTPInit
  /\ part # "interceptor" => disk = "removed"

MCNext ==
  /\ part' = part
  /\ \/ part = "cache" /\ CacheNext
        /\ UNCHANGED <<receiptVars, managerVars, interceptorVars, connVars,
                      relayVars, switcherVars, httpVars>>
     \/ part = "receipts" /\ ReceiptsNext
        /\ UNCHANGED <<cacheVars, managerVars, interceptorVars, connVars,
                      relayVars, switcherVars, httpVars>>
     \/ part = "manager" /\ ManagerNext
        /\ UNCHANGED <<cacheVars, receiptVars, interceptorVars, connVars,
                      relayVars, switcherVars, httpVars>>
     \/ part = "interceptor" /\ InterceptorNext
        /\ UNCHANGED <<cacheVars, receiptVars, managerVars, connVars, relayVars,
                      switcherVars, httpVars>>
     \/ part = "connections" /\ ConnectionsNext
        /\ UNCHANGED <<cacheVars, receiptVars, managerVars, interceptorVars,
                      relayVars, switcherVars, httpVars>>
     \/ part = "relay" /\ RelayNext
        /\ UNCHANGED <<cacheVars, receiptVars, managerVars, interceptorVars,
                      connVars, switcherVars, httpVars>>
     \/ part = "switcher" /\ SwitcherNext
        /\ UNCHANGED <<cacheVars, receiptVars, managerVars, interceptorVars,
                      connVars, relayVars, httpVars>>
     \/ part = "http" /\ HTTPNext
        /\ UNCHANGED <<cacheVars, receiptVars, managerVars, interceptorVars,
                      connVars, relayVars, switcherVars>>

MCSpec ==
  /\ MCInit /\ [][MCNext]_allVars
  /\ ManagerFairness /\ RelayFairness /\ HTTPFairness
=============================================================================
