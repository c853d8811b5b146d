------------------------- MODULE ClientConnections -------------------------
(***************************************************************************)
(* Connections to the proxy's listener, up to the request handlers:        *)
(* proxy/proxyprotocol and proxy/tls, with net/http's server as external.  *)
(* A trusted peer may begin with a PROXY header that names the client it   *)
(* speaks for; it is kept in a table under the peer's address until the    *)
(* server reports the connection closed, and every request looks its       *)
(* forwarded headers up there.  The server never reports that of a         *)
(* connection a websocket handler has taken over.                          *)
(*                                                                         *)
(* A peer uses its address again as soon as the socket is closed, which is *)
(* before the server reports it.                                           *)
(***************************************************************************)
EXTENDS Naturals

CONSTANTS
  Addrs,          \* remote addresses, with port
  TrustedAddrs,   \* those of TrustedProxyCIDRs
  MaxConns        \* bound: connections made

ASSUME ConnectionsAssumption == TrustedAddrs \subseteq Addrs /\ MaxConns \in Nat

Conns == 1..MaxConns

VARIABLES
  listener, \* "none", "plain", or "split": TLS and plain HTTP share it (proxy/tls)
  opened,   \* number of connections made
  addr,     \* [connection -> its remote address]
  says,     \* [connection -> what its peer begins with]
  stage,    \* [connection -> "none", "queued", "peek", "read", "serve", "failed",
            \*  "closed" (and to be reported), "done", "hijacked", "left" (and was hijacked)]
  infos,    \* [address -> the connection whose header is in the table, or 0]
  late      \* history: connections from an address whose last one was still to be reported

connVars == <<listener, opened, addr, says, stage, infos, late>>

Says == {"plain", "header", "malformed", "nothing"}

ConnectionsInit ==
  /\ listener = "none" /\ opened = 0
  /\ addr = [c \in Conns |-> CHOOSE a \in Addrs : TRUE]
  /\ says = [c \in Conns |-> "plain"]
  /\ stage = [c \in Conns |-> "none"]
  /\ infos = [a \in Addrs |-> 0]
  /\ late = {}

To(c, s) == stage' = [stage EXCEPT ![c] = s]

-----------------------------------------------------------------------------
\* StartProxy.
Listen ==
  /\ listener = "none"
  /\ listener' \in {"plain", "split"}
  /\ UNCHANGED <<opened, addr, says, stage, infos, late>>

Open ==
  /\ listener # "none"
  /\ opened < MaxConns
  /\ opened' = opened + 1
  /\ \E a \in Addrs, w \in Says :
       LET before == {d \in 1..opened : addr[d] = a} IN
       /\ \A d \in before : stage[d] \in {"closed", "done", "left"}
       /\ addr' = [addr EXCEPT ![opened'] = a] /\ says' = [says EXCEPT ![opened'] = w]
       /\ late' = IF \E d \in before : stage[d] = "closed" THEN late \cup {opened'} ELSE late
  /\ To(opened', "queued")
  /\ UNCHANGED <<listener, infos>>

\* The accept loop.  A splitting listener waits for the first byte before it
\* returns to it.
Accept(c) ==
  /\ stage[c] = "queued" /\ \A d \in 1..c - 1 : stage[d] # "queued"
  /\ \A d \in Conns : stage[d] # "peek"
  /\ To(c, IF listener = "split" THEN "peek" ELSE "read")
  /\ UNCHANGED <<listener, opened, addr, says, infos, late>>

Names(c) == says[c] = "header" /\ addr[c] \in TrustedAddrs

\* The first Read: a trusted peer's header goes into the table, also when nothing
\* follows it.  A malformed one ends the connection, as do a deadline that passes
\* and, for the server, a header from a peer that is not trusted.
checkPrefix(c) ==
  /\ stage[c] \in {"peek", "read"}
  /\ infos' = IF Names(c) THEN [infos EXCEPT ![addr[c]] = c] ELSE infos
  /\ \/ (Names(c) \/ says[c] = "plain") /\ To(c, "serve")
     \/ says[c] # "plain" /\ To(c, "failed")
  /\ UNCHANGED <<listener, opened, addr, says, late>>

\* What the forwarded headers of a request on c are taken from: the header of
\* that connection, or for 0 the transport.
getInfo(c) == infos[addr[c]]

\* The server closes a connection, or learns that its peer did.
ServerCloses(c) ==
  /\ stage[c] \in {"serve", "failed"}
  /\ To(c, "closed")
  /\ UNCHANGED <<listener, opened, addr, says, infos, late>>

\* Fault: the entry stays.
StateCleanup_Forgotten(c) ==
  /\ stage[c] = "closed"
  /\ To(c, "done")
  /\ UNCHANGED <<listener, opened, addr, says, infos, late>>

StateCleanup(c) ==
  /\ stage[c] = "closed"
  /\ infos' = [infos EXCEPT ![addr[c]] = 0]
  /\ To(c, "done")
  /\ UNCHANGED <<listener, opened, addr, says, late>>

Hijack(c) ==
  /\ stage[c] = "serve"
  /\ To(c, "hijacked")
  /\ UNCHANGED <<listener, opened, addr, says, infos, late>>

WebsocketEnds(c) ==
  /\ stage[c] = "hijacked"
  /\ To(c, "left")
  /\ UNCHANGED <<listener, opened, addr, says, infos, late>>

ConnectionsNext ==
  \/ Listen \/ Open
  \/ \E c \in Conns :
       \/ Accept(c) \/ checkPrefix(c) \/ ServerCloses(c) \/ StateCleanup(c)
       \/ Hijack(c) \/ WebsocketEnds(c)

ConnectionsSpec == ConnectionsInit /\ [][ConnectionsNext]_connVars

-----------------------------------------------------------------------------
OwnHeader(c) == IF Names(c) THEN c ELSE 0

\* The forwarded headers of a request describe the connection it came on and no
\* earlier one from the same address.  Two cases are excepted, in which the code
\* does not see to it: the address was used again before the last connection was
\* reported closed; and a peer without a header follows a websocket with one.
ForwardedIsOwn ==
  \A c \in Conns : stage[c] = "serve" /\ c \notin late =>
    \/ getInfo(c) = OwnHeader(c)
    \/ ~Names(c) /\ stage[getInfo(c)] = "left"
=============================================================================
