---------------------------- MODULE HTTPHandler ----------------------------
(***************************************************************************)
(* One proxied HTTP request: FrontendHTTPHandler.serveHTTP with the pipe   *)
(* to the agent (proxy/frontend_http_handler.go, backend_http_pipe.go,     *)
(* backend_http_reader.go, backend_http_writer.go).  Four goroutines: the  *)
(* handler, which copies the response to the browser; start, which turns   *)
(* the agent's messages into chunks for it; the copier, which sends the    *)
(* request body on; and the closer, which Close of the reader leaves       *)
(* behind.  b.data, between start and the handler, is not buffered: a      *)
(* chunk is handed over when both are there.                               *)
(*                                                                         *)
(* The backend is what FrontendStreams promises: a channel is closed by    *)
(* closeConnection while its link serves, and by the end of the link.      *)
(***************************************************************************)
EXTENDS Naturals

CONSTANT
  MaxChunks     \* bound: Body messages of the agent

ASSUME ConstantsAssumption == MaxChunks \in Nat

\* What Read makes of a Body message: content, the EOF mark, or an error (not
\* JSON, or an invalid status code).
Chunks == {"content", "eof", "invalid"}

VARIABLES
  pc,           \* where serveHTTP is
  start,        \* the goroutine of BackendHTTPReader.start
  chunk,        \* the chunk it has in hand
  consuming,    \* its variable closed
  data,         \* b.data: "open" or "closed"
  copier,       \* the goroutine that copies the request body
  closer,       \* the goroutine that Close of the reader starts
  closed,       \* BackendHTTPWriter.closed
  browser,      \* "here", or "gone": reads and writes fail
  chan,         \* messages: "none", "open", "closed"
  link,         \* its link: "up", or "down" once removed or replaced
  command,      \* at the agent: "none", "running", "gone"
  eofs,         \* history: EOF marks sent
  sent,         \* history: content the agent sent
  got,          \* history: content start received
  put           \* history: content written to the browser

startVars == <<start, chunk, consuming, data>>
sendVars  == <<copier, closed, eofs>>
backVars  == <<chan, link, command>>
contentVars == <<sent, got, put>>
httpVars == <<pc, start, chunk, consuming, data, copier, closer, closed, browser, chan, link,
              command, eofs, sent, got, put>>

HTTPInit ==
  /\ pc = "auth"
  /\ start = "off" /\ chunk = "content" /\ consuming = FALSE /\ data = "open"
  /\ copier = "off" /\ closer = "off" /\ closed = FALSE
  /\ browser = "here"
  /\ chan = "none" /\ link = "up" /\ command = "none"
  /\ eofs = 0 /\ sent = 0 /\ got = 0 /\ put = 0

-----------------------------------------------------------------------------
(* backendProxy, as it is used here *)

\* closeConnection: effective while the link serves; the Close to the agent may
\* not be queued in time.
CloseConnection ==
  /\ chan' = IF link = "up" /\ chan = "open" THEN "closed" ELSE chan
  /\ \/ UNCHANGED command
     \/ link = "up" /\ command = "running" /\ command' = "gone"
  /\ UNCHANGED link

-----------------------------------------------------------------------------
(* serveHTTP *)

\* authAndLookup: redirected or refused, or the host has a backend.
Auth ==
  /\ pc = "auth"
  /\ pc' \in {"returned"} \cup IF link = "up" THEN {"initialize"} ELSE {}
  /\ UNCHANGED <<startVars, sendVars, closer, browser, backVars, contentVars>>

\* NewHTTPPipe: the channel ...
InitializeClient ==
  /\ pc = "initialize"
  /\ \/ pc' = "returned" /\ UNCHANGED chan
     \/ link = "up" /\ chan' = "open" /\ pc' = "connect"
  /\ UNCHANGED <<startVars, sendVars, closer, browser, link, command, contentVars>>

\* ... and the Connect.  The reader starts with it.
ConnectPipe ==
  /\ pc = "connect"
  /\ \/ pc' = "abandon" /\ UNCHANGED <<start, command>>
     \/ /\ link = "up" /\ chan = "open"
        /\ command' = "running"
        /\ start' = "receiving"
        /\ pc' = "request"
  /\ UNCHANGED <<chunk, consuming, data, sendVars, closer, browser, chan, link, contentVars>>

\* Fault: a failed Connect leaves the stream registered.
Abandon_Forgotten ==
  /\ pc = "abandon"
  /\ pc' = "returned"
  /\ UNCHANGED <<startVars, sendVars, closer, browser, backVars, contentVars>>

Abandon ==
  /\ pc = "abandon"
  /\ CloseConnection
  /\ pc' = "returned"
  /\ UNCHANGED <<startVars, sendVars, closer, browser, contentVars>>

\* WriteRequest and, for an upgrade, the hijack; then the copier starts.
WriteRequest ==
  /\ pc = "request"
  /\ \/ pc' = "closeReader" /\ UNCHANGED copier
     \/ pc' = "reading" /\ copier' = "reading"
  /\ UNCHANGED <<startVars, closed, eofs, closer, browser, backVars, contentVars>>

\* Read takes a chunk from start; only content goes on to the browser.
Read ==
  /\ pc = "reading" /\ start = "handing"
  /\ start' = "receiving"
  /\ pc' = IF chunk = "content" THEN "writing" ELSE "closeReader"
  /\ UNCHANGED <<chunk, consuming, data, sendVars, closer, browser, backVars, contentVars>>

\* Read finds b.data closed: the response is over.
ReadEOF ==
  /\ pc = "reading" /\ data = "closed"
  /\ pc' = "closeReader"
  /\ UNCHANGED <<startVars, sendVars, closer, browser, backVars, contentVars>>

\* A write to the browser, which has no deadline.
Write ==
  /\ pc = "writing"
  /\ \/ browser = "here" /\ pc' = "reading" /\ put' = put + 1
     \/ pc' = "closeReader" /\ UNCHANGED put
  /\ UNCHANGED <<startVars, sendVars, closer, browser, backVars, sent, got>>

\* The deferred calls: Close of the reader starts the closer ...
CloseReader ==
  /\ pc = "closeReader"
  /\ closer' = "closing"
  /\ pc' = "draining"
  /\ UNCHANGED <<startVars, sendVars, browser, backVars, contentVars>>

\* Fault: Close waits for the end of the stream and takes no chunks.
Drain_TakesNothing ==
  /\ pc = "draining" /\ chan = "closed"
  /\ pc' = "closeWriter"
  /\ UNCHANGED <<startVars, sendVars, closer, browser, backVars, contentVars>>

\* ... and takes chunks until b.data is closed ...
Drain ==
  /\ pc = "draining"
  /\ \/ start = "handing" /\ start' = "receiving" /\ UNCHANGED pc
     \/ data = "closed" /\ pc' = "closeWriter" /\ UNCHANGED start
  /\ UNCHANGED <<chunk, consuming, data, sendVars, closer, browser, backVars, contentVars>>

\* ... then Close of the writer, which decides under b.mu who sends the EOF.
CloseWriter ==
  /\ pc = "closeWriter"
  /\ closed' = TRUE
  /\ pc' = IF closed THEN "returned" ELSE "sendEOF"
  /\ UNCHANGED <<startVars, copier, eofs, closer, browser, backVars, contentVars>>

SendEOF ==
  /\ pc = "sendEOF"
  /\ eofs' = eofs + 1
  /\ pc' = "returned"
  /\ UNCHANGED <<startVars, copier, closed, closer, browser, backVars, contentVars>>

-----------------------------------------------------------------------------
(* The other goroutines *)

\* Fault: a chunk nobody waits for is dropped.
ReceiveBody_NonBlocking ==
  /\ start = "receiving" /\ chan = "open" /\ command = "running" /\ sent < MaxChunks
  /\ \E c \in Chunks :
       /\ IF consuming \/ pc # "reading" THEN UNCHANGED <<start, chunk>>
                                         ELSE start' = "handing" /\ chunk' = c
       /\ IF c = "content" /\ ~consuming THEN got' = got + 1 /\ sent' = sent + 1
                                         ELSE UNCHANGED <<got, sent>>
  /\ UNCHANGED <<pc, consuming, data, sendVars, closer, browser, backVars, put>>

\* start receives a Body: handed over, or only consumed after a Close.
ReceiveBody ==
  /\ start = "receiving" /\ chan = "open" /\ command = "running" /\ sent < MaxChunks
  /\ \E c \in Chunks :
       /\ IF consuming THEN UNCHANGED <<start, chunk>> ELSE start' = "handing" /\ chunk' = c
       /\ IF c = "content" /\ ~consuming THEN got' = got + 1 /\ sent' = sent + 1
                                         ELSE UNCHANGED <<got, sent>>
  /\ UNCHANGED <<pc, consuming, data, sendVars, closer, browser, backVars, put>>

\* Fault: the agent's Close is taken note of and no more.
ReceiveClose_Ignored ==
  /\ start = "receiving" /\ chan = "open" /\ command = "running"
  /\ command' = "gone"
  /\ consuming' = TRUE
  /\ UNCHANGED <<pc, start, chunk, data, sendVars, closer, browser, chan, link, contentVars>>

\* It receives the agent's Close.
ReceiveClose ==
  /\ start = "receiving" /\ chan = "open" /\ command = "running"
  /\ command' = "gone"
  /\ start' = IF consuming THEN "receiving" ELSE "releasing"
  /\ consuming' = TRUE
  /\ UNCHANGED <<pc, chunk, data, sendVars, closer, browser, chan, link, contentVars>>

StartReleases ==
  /\ start = "releasing"
  /\ CloseConnection
  /\ start' = "receiving"
  /\ UNCHANGED <<pc, chunk, consuming, data, sendVars, closer, browser, contentVars>>

\* The channel is closed: so is b.data.
StartEnds ==
  /\ start = "receiving" /\ chan = "closed"
  /\ start' = "done"
  /\ data' = "closed"
  /\ UNCHANGED <<pc, chunk, consuming, sendVars, closer, browser, backVars, contentVars>>

CloserCloses ==
  /\ closer = "closing"
  /\ CloseConnection
  /\ closer' = "done"
  /\ UNCHANGED <<pc, startVars, sendVars, browser, contentVars>>

\* The copier reads a part of the request body from a browser that is here; the
\* body cannot be read any more once serveHTTP has returned.
CopierReads ==
  /\ copier = "reading" /\ browser = "here" /\ pc # "returned"
  /\ copier' \in {"sending", "closing"}
  /\ UNCHANGED <<pc, startVars, closed, eofs, closer, browser, backVars, contentVars>>

CopierFails ==
  /\ copier = "reading" /\ (browser = "gone" \/ pc = "returned")
  /\ copier' = "closing"
  /\ UNCHANGED <<pc, startVars, closed, eofs, closer, browser, backVars, contentVars>>

\* Write: sent, or the error ends the copy.
CopierSends ==
  /\ copier = "sending"
  /\ copier' \in {"reading", "closing"}
  /\ UNCHANGED <<pc, startVars, closed, eofs, closer, browser, backVars, contentVars>>

\* Fault: Close of the writer does not look at closed.
CopierCloses_Unchecked ==
  /\ copier = "closing"
  /\ closed' = TRUE
  /\ copier' = "sendEOF"
  /\ UNCHANGED <<pc, startVars, eofs, closer, browser, backVars, contentVars>>

\* Close of the writer, by the copier.
CopierCloses ==
  /\ copier = "closing"
  /\ closed' = TRUE
  /\ copier' = IF closed THEN "done" ELSE "sendEOF"
  /\ UNCHANGED <<pc, startVars, eofs, closer, browser, backVars, contentVars>>

CopierSendsEOF ==
  /\ copier = "sendEOF"
  /\ eofs' = eofs + 1
  /\ copier' = "done"
  /\ UNCHANGED <<pc, startVars, closed, closer, browser, backVars, contentVars>>

-----------------------------------------------------------------------------
(* The browser and the link *)

BrowserLeaves ==
  /\ browser = "here"
  /\ browser' = "gone"
  /\ UNCHANGED <<pc, startVars, sendVars, closer, backVars, contentVars>>

LinkDrops ==
  /\ link = "up"
  /\ link' = "down"
  /\ UNCHANGED <<pc, startVars, sendVars, closer, browser, chan, command, contentVars>>

\* The agent has sent content that start does not get, or none.
ContentLost ==
  /\ sent' \in {sent} \cup IF command = "running" /\ sent < MaxChunks THEN {sent + 1} ELSE {}
  /\ UNCHANGED <<got, put>>

\* shutdown's sweep; nothing of the command is heard any more.
LinkSwept ==
  /\ link = "down" /\ chan = "open"
  /\ chan' = "closed"
  /\ command' = IF command = "running" THEN "gone" ELSE command
  /\ ContentLost
  /\ UNCHANGED <<pc, startVars, sendVars, closer, browser, link>>

\* The multiplexer's reader gave up on start, which did not take a message for
\* ten seconds, and drops it; the Close to the agent is queued, or not.
StreamCut ==
  /\ link = "up" /\ chan = "open" /\ command = "running" /\ start # "receiving"
  /\ chan' = "closed"
  /\ command' \in {"running", "gone"}
  /\ ContentLost
  /\ UNCHANGED <<pc, startVars, sendVars, closer, browser, link>>

\* Output of a command whose channel is gone: the reader sends a Close for it.
OrphanClosed ==
  /\ link = "up" /\ chan = "closed" /\ command = "running"
  /\ command' = "gone"
  /\ ContentLost
  /\ UNCHANGED <<pc, startVars, sendVars, closer, browser, chan, link>>

-----------------------------------------------------------------------------
\* What serveHTTP does without waiting for the browser.
HandlerStep ==
  \/ InitializeClient \/ ConnectPipe \/ Abandon \/ WriteRequest
  \/ Read \/ ReadEOF
  \/ CloseReader \/ Drain \/ CloseWriter \/ SendEOF

\* What start and the copier do without waiting for the agent or the browser.
StartStep == StartReleases \/ StartEnds

CopierStep == CopierFails \/ CopierSends \/ CopierCloses \/ CopierSendsEOF

HTTPNext ==
  \/ Auth \/ HandlerStep \/ Write
  \/ StartStep \/ ReceiveBody \/ ReceiveClose
  \/ CopierStep \/ CopierReads
  \/ CloserCloses
  \/ BrowserLeaves \/ LinkDrops \/ LinkSwept \/ StreamCut \/ OrphanClosed

HTTPSpec == HTTPInit /\ [][HTTPNext]_httpVars

\* Goroutines run and calls of the backend have timeouts; a write to a browser
\* that is gone fails; a link that is gone is swept.  Nothing is assumed of the
\* agent, the link, or a browser that is here: it may never take what is written.
HTTPFairness ==
  /\ WF_httpVars(browser = "gone" /\ Write)
  /\ WF_httpVars(HandlerStep) /\ WF_httpVars(StartStep) /\ WF_httpVars(CopierStep)
  /\ WF_httpVars(CloserCloses) /\ WF_httpVars(LinkSwept)

-----------------------------------------------------------------------------
(* Properties *)

\* serveHTTP returns only when its stream is gone from the multiplexer; after a
\* Connect that failed, a stream may remain on a link that is about to end.
NothingLeftRegistered ==
  pc = "returned" /\ chan = "open" => link = "down" /\ start = "off"

\* The agent is told the end of the request once, although the copier and
\* serveHTTP both close the writer.
EOFOnce == eofs <= 1

\* When Read reports the end of the response because b.data is closed, all
\* content that start received has been written to the browser; and if it is the
\* agent's Close that ended the response, all content that the agent sent.  (A
\* response cut short by the multiplexer or by the end of the link looks no
\* different to Read.)
ResponseComplete ==
  pc = "reading" /\ data = "closed" => put = got /\ (consuming => got = sent)

\* The agent's Close, and the end of the stream for any other reason, end the
\* request, unless a write to a browser that stays and does not read never ends.
StreamEndReturns ==
  \/ <>[](pc = "writing" /\ browser = "here")
  \/ (consuming \/ chan = "closed") ~> pc = "returned"

\* No goroutine stays behind: neither start, which may have a chunk in hand that
\* nobody wants, nor the copier, nor the closer.
NoGoroutineLeft ==
  pc = "returned" ~> (/\ start \in {"off", "done"} /\ copier \in {"off", "done"}
                      /\ closer \in {"off", "done"})
=============================================================================
