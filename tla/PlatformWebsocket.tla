------------------------- MODULE PlatformWebsocket -------------------------
(***************************************************************************)
(* platformWSProxy.serveWebsocket in proxy/proxy.go: a websocket to the    *)
(* control platform is relayed by two goroutines that copy bytes between   *)
(* the browser's and the platform's socket.  The first that ends makes the *)
(* handler return, which closes both sockets.                              *)
(***************************************************************************)
EXTENDS Naturals

Directions == {"toPlatform", "toBrowser"}

VARIABLES
  relay,      \* the handler: "idle", "dial", "hijack", "write", "copy", "close", "done"
  socket,     \* [side -> "none", "open", "ended" by its peer, "closed" by the handler]
  copying,    \* [direction -> goroutine cp: "off", in "read" or "write", "report", "done"]
  errc        \* errors in the channel of that name, whose capacity is 2

relayVars == <<relay, socket, copying, errc>>

From(d) == IF d = "toPlatform" THEN "browser" ELSE "platform"
Into(d) == IF d = "toPlatform" THEN "platform" ELSE "browser"

RelayInit ==
  /\ relay = "idle" /\ errc = 0
  /\ socket = [browser |-> "open", platform |-> "none"]
  /\ copying = [d \in Directions |-> "off"]

-----------------------------------------------------------------------------
\* A same-origin upgrade; any other request is refused or not relayed.
Upgrade ==
  /\ relay = "idle"
  /\ relay' = "dial"
  /\ UNCHANGED <<socket, copying, errc>>

Dial ==
  /\ relay = "dial"
  /\ \/ relay' = "hijack" /\ socket' = [socket EXCEPT !.platform = "open"]
     \/ relay' = "done" /\ UNCHANGED socket
  /\ UNCHANGED <<copying, errc>>

\* When the connection cannot be taken over, the platform's socket stays open.
HijackBrowser ==
  /\ relay = "hijack"
  /\ relay' \in {"write", "done"}
  /\ UNCHANGED <<socket, copying, errc>>

WriteUpgrade ==
  /\ relay = "write"
  /\ \/ relay' = "copy" /\ copying' = [d \in Directions |-> "read"]
     \/ relay' = "close" /\ UNCHANGED copying
  /\ UNCHANGED <<socket, errc>>

\* io.Copy reads a part from a source that goes on ...
CopyReads(d) ==
  /\ copying[d] = "read" /\ socket[From(d)] = "open"
  /\ copying' = [copying EXCEPT ![d] = "write"]
  /\ UNCHANGED <<relay, socket, errc>>

\* ... and writes it; the write has no deadline.
CopyWrites(d) ==
  /\ copying[d] = "write" /\ socket[Into(d)] # "closed"
  /\ copying' = [copying EXCEPT ![d] = "read"]
  /\ UNCHANGED <<relay, socket, errc>>

\* It ends when its source has, or when the write fails.
CopyEnds(d) ==
  /\ \/ copying[d] = "read" /\ socket[From(d)] # "open"
     \/ copying[d] = "write" /\ socket[Into(d)] # "open"
  /\ copying' = [copying EXCEPT ![d] = "report"]
  /\ UNCHANGED <<relay, socket, errc>>

\* Fault: errc has no buffer.
Report_Unbuffered(d) ==
  /\ copying[d] = "report" /\ relay = "copy" /\ errc = 0
  /\ copying' = [copying EXCEPT ![d] = "done"]
  /\ errc' = errc + 1
  /\ UNCHANGED <<relay, socket>>

Report(d) ==
  /\ copying[d] = "report" /\ errc < 2
  /\ copying' = [copying EXCEPT ![d] = "done"]
  /\ errc' = errc + 1
  /\ UNCHANGED <<relay, socket>>

AwaitCopy ==
  /\ relay = "copy" /\ errc > 0
  /\ errc' = errc - 1 /\ relay' = "close"
  /\ UNCHANGED <<socket, copying>>

\* The deferred calls: the platform's socket, then the browser's.
CloseSockets ==
  /\ relay = "close"
  /\ relay' = "done" /\ socket' = [s \in DOMAIN socket |-> "closed"]
  /\ UNCHANGED <<copying, errc>>

PeerEnds(s) ==
  /\ socket[s] = "open"
  /\ socket' = [socket EXCEPT ![s] = "ended"]
  /\ UNCHANGED <<relay, copying, errc>>

RelayNext ==
  \/ Upgrade \/ Dial \/ HijackBrowser \/ WriteUpgrade \/ AwaitCopy \/ CloseSockets
  \/ \E d \in Directions : CopyReads(d) \/ CopyWrites(d) \/ CopyEnds(d) \/ Report(d)
  \/ \E s \in {"browser", "platform"} : PeerEnds(s)

RelaySpec == RelayInit /\ [][RelayNext]_relayVars

\* A read of a socket that has ended returns, and so does every call on a socket
\* the handler has closed.
MustEnd(d) == copying[d] = "read" \/ socket[Into(d)] = "closed"

\* Fairness: goroutines run.  Nothing is assumed of the peers: one that stays may
\* send nothing, and may never take what is written to it.
RelayFairness ==
  /\ WF_relayVars(AwaitCopy) /\ WF_relayVars(CloseSockets)
  /\ \A d \in Directions : WF_relayVars(MustEnd(d) /\ CopyEnds(d)) /\ WF_relayVars(Report(d))

-----------------------------------------------------------------------------
\* When a peer of a relay ends, both sockets are closed and both goroutines end,
\* also the one whose own source is quiet, whose write was stuck or whose report
\* nobody awaits; unless the goroutine that reads from the peer that ended is
\* itself stuck, for ever, in a write to a peer that stays and does not read.
RelayEnds ==
  \A d \in Directions :
    \/ <>[](copying[d] = "write" /\ socket[Into(d)] # "closed")
    \/ (relay = "copy" /\ socket[From(d)] # "open")
         ~> (\A s \in DOMAIN socket : socket[s] = "closed")
            /\ (\A e \in Directions : copying[e] = "done")
=============================================================================
