# Verification of the WebSocket proxy

TLA+ models of the concurrent parts of this repository, TLC configurations that
check them on small instances, and TLAPS proofs for instances of every size.
`PROJECT.json` lists the components, runs, hazards, theorems and findings, and
maps every definition to the lines it models.

## The system

A host's agent (package `backend`) opens one websocket to the proxy. The proxy
multiplexes many streams over it: `backendProxyManager` keeps one `multiplexer`
per host, with a reader and a writer goroutine, a queue of messages to the agent
and one channel per stream. Everything else in the proxy is a client of the
manager: direct websocket streams, HTTP streams, stats aggregates and persistent
console sessions. A client calls `initializeClient` (a new key and channel),
`connect` (the agent starts a handler), `send`, and `closeConnection` (tells the
agent) or `releaseConnection` (does not), and ranges over its channel.

A persistent console session outlives its browsers. Its pump numbers the
command's output, keeps the newest part for replay and broadcasts it to the
attached tabs, one of which is in control. A session made with an API Key ticket
is watched: the ticket is checked against the Engine every five seconds and on
every request, and a refusal or the ticket's expiry revokes the session.

| part | source | model |
| --- | --- | --- |
| manager, multiplexer | `proxy/backend_proxy_manager.go`, `proxy/multiplexer.go` | `Multiplexer` |
| what it promises its clients | | `FrontendStreams`, `MultiplexerRefinement` |
| persistent sessions | `proxy/persistent_session_handler.go` | `PersistentSession` |
| websocket streams, stats aggregates | `proxy/frontend_handler.go`, `proxy/stats_handler.go` | `WebsocketHandlers` |
| HTTP streams | `proxy/frontend_http_handler.go`, `proxy/backend_http_{pipe,reader,writer}.go` | `HTTPHandler` |
| delegation watch | `delegation/delegation.go` (`Watch`, `Run`, `Check`) | `PersistentSession`, `WebsocketHandlers` |
| several sessions: map, lock, limit, cleanup | `proxy/persistent_session_handler.go` | `SessionManager` |
| API Key capability gate | `proxy/key_backend_capability.go` | `Multiplexer`, `DenialReceipts` |
| refusals and their receipts | `proxy/expired_handshake.go`, `delegation/failure.go` | `DenialReceipts` |
| the agent's end of a connection | `backend/backend.go`, `backend/pong_handler.go` | `BackendAgent` |
| cache of platform tokens | `proxy/token.go` | `TokenCache` |
| request filters of the platform API | `proxy/apiinterceptor` | `APIInterceptor` |
| listener, PROXY headers, TLS splitting | `proxy/proxyprotocol`, `proxy/tls`, `proxy/proxy.go` | `ClientConnections` |
| relay of websockets to the platform | `proxy/proxy.go` | `PlatformWebsocket` |
| master switch | `proxy/frontend_switcher.go` | `Switcher` |

## Multiplexer

One host. A connection is a number, in order of registration (the code draws a
random session identifier). `current` is the manager's map entry, `shut` the
progress of a connection's `shutdown`, `frontendChans`, `queue` and `reader` its
map, its queue and its reader goroutine, `chan` the state of each stream's
channel. A call of the manager takes several steps, because the code looks the
multiplexer up under one lock, releases it and works on what it found under
another: `call[p]` says where goroutine `p` is and which multiplexer it holds.

- Steps of a call: lookup (`InitializeClient`, `Connect`, `Send`, `Finish`), the
  critical sections of `frontendMu` (`InitializeLocked`, `ConnectMember`,
  `CloseLocked`), and the outcomes of `enqueue` (`Enqueued`, `NotEnqueued`,
  `TooLong`).
- An agent that connects: `AddBackend`, then `ShutdownPrevious`.
- `shutdown`, by whoever won its `Once`: `BeginShutdown`, `RemoveBackend`, `Sweep`.
- The reader: `ReadMessage` (keeps the read lock if it finds the channel),
  `Deliver` or `DeliverTimeout`, `ReaderCloses`; `ReadFails`.
- The writer: `WriterSends`, `WriterFails`.

Time is abstract: a timer may fire when its wait is possible. A send on a closed
channel and a second close, which panic in Go, are recorded in `panics`.

`FrontendStreams` is the same thing without locks, channels and goroutines: links
that go down together with all their streams in one step, streams that open only
on a link that is up. `MultiplexerRefinement` maps a link to "down" once the
sweep is through and a stream to its channel.

## PersistentSession

One session. `create` is the position of `createWithAuthorization`, which holds
the manager's lock all along; `at[p]` the position of a browser connection, an
HTTP request, the watch or the cleanup goroutine; `pump` that of the pump. Each
step is one critical section of `s.mu`, or one call of the backend or of the
verifier made outside of it. The backend is what `FrontendStreams` promises:
`chan` is closed by a close or release while its link is up, and by the end of
the link. `command` is what runs at the agent. That the multiplexer cuts a slow
consumer off is not in this model. The pump only ever waits for `s.mu`, and the one
thing that waits while it holds that lock is `broadcastLocked`, which closes a
browser that does not keep up and gives the close frame a second
(persistent_session_handler.go:799, 873). Ten such browsers at once would make up
the ten seconds after which the stream is cut; the theorems about sessions with
that many do not cover this case.

Output is abstract: an output is its number, with the size it has in the replay.
A frame is the sequence of output numbers it carries, which is empty for all but
`output` and `replay`. `outs`, `shown` and `since` are history: the size of each
output, what was written to a websocket and where it began. `verdict` records
whether the Engine refused the ticket, or it expired, since the code itself does
not tell these from a check that was cancelled.

## WebsocketHandlers

One browser websocket. `kind` says which handler serves it; a direct stream is
the case of one target, and where the two handlers differ the action says so:
who closes the websocket when a channel ends or a write fails, and the order of
the deferred calls. `pc` is the position of `ServeHTTP` and `i` the target its
loop is at, `pump[t]` the goroutine that copies target `t`'s output, `watch` the
ticket's watch. `chan`, `link` and `command` are the backend as in
`PersistentSession`. `doneCounter` is the code's; `ended` is history, the targets
whose Close was received, and `verdict` whether the ticket was really refused.

`ServeHTTP` returns at some early errors of an aggregate without closing the
websocket (`ReadPayload`, `ParseStatsInfo`), as the code does.

## HTTPHandler

One proxied HTTP request and its four goroutines: `pc` is `serveHTTP`, which
reads the response from the pipe and writes it to the browser, `start` turns the
agent's messages into chunks, `copier` sends the request body on, and `closer` is
left behind by `Close` of the reader. `b.data` is not buffered, so a chunk passes
in one step when `start` has it in hand and the handler reads (`Read`) or drains
(`Drain`). A chunk is what `Read` makes of a message: content, the EOF mark or an
error. `eofs`, `sent`, `got` and `put` are history: ends of the request sent, and
content the agent sent, `start` received and the handler wrote. The multiplexer
cuts the stream when `start` does not take a message for ten seconds, and a lost
link drops what is on its way (`ContentLost`); `Read` then reports the end of the
response all the same. `ResponseComplete` claims that what was received is
written, and that all that was sent is received when the agent's Close ended the
response.

## SessionManager

The map of sessions with its lock `m.mu` (`holder`). A request is a goroutine that
looks the map up (`get`), compares secrets, asks the Engine, and for a creation
takes the lock and looks again; the lock is held until the backend is connected.
A session is reduced to whether it has ended (`life`) and whether its backend
stream is closed (`shut`), which is what `PersistentSession` shows of one. Whether
a secret matches and whether the Engine refuses are free choices; so is which
sessions the retention times have run out for (`Sweep`).

## BackendAgent

`connectToProxyWS`: the reader, which is the only goroutine that touches the map
of handler channels, the writer, the pong timer, and the handlers. Handlers are
the agent's own code; they receive until their channel is closed, answer when
they like and finish when they like. The branch for message types that are not
known (backend.go:141-145) cannot be reached, because `ParseMessageSafe` refuses
such messages, and is left out.

A send of the reader has no timeout. If the writer is gone and `responseChannel`
full, or a handler is done and its channel full, the reader is stuck and so is
the connection; `LinkEnds` names that case (`ReaderStuck`) and excludes any
other.

## DenialReceipts

`auth` of the stream handlers, `parseStatsInfo`, and the checks that follow up to
the opening of the streams, with everything that reports a refusal. A ticket is
its kind, whether its path is allowed, and its targets: its own host, or one host
for each inner ticket, with what that ticket is to the outer one (bound to the
same Key and request, of another, of no Key, or not verified). `index` is the
target that a loop of the statistics handler is at, 0 before the first.

There are two sorts of refusal, and `Refused` tells them apart. The ticket as a
whole is refused when it has expired or does not allow the path; its targets are
then verified first, all of them, and a receipt is sent for each host it names.
A single target is refused when its agent lacks the capabilities, or an inner
delegation does not allow its path: `parseStatsInfo`, and later the loops that
initialize and connect, stop there and report that host alone, before the later
inner tickets are looked at. `DefiniteIsComplete` and `ReceiptsAreOwed` say of each
sort what it owes. The statistics handler looks at a ticket twice, and a browser
may send another one between (`Upgrades`). The Engine may accept a receipt and
its answer be lost; agents come and go and tickets expire at any point.

## TokenCache

`get` and `set` as critical sections, with a clock. A key is what `genKey`
returns. That requests of one key get the same answer from the platform is an
assumption of the cache and not modelled: `genKey` includes the client
certificate's name only if one certificate was presented, `callPlatform` uses it
if there is at least one.

## APIInterceptor

Requests run with the router they began with. `pathPreFilters[path]` is a slice
of the router; each request extends it by the filters of the other templates that
match, which writes into the shared array as long as that has room. `spare` is
that part of the array, `extra` how much of it belongs to the request's slice,
`copy` the slice once `append` has moved it. The data race on an element is a
choice between the old and the new value. A file that is missing is an empty
configuration, one that cannot be read or parsed leaves the router as it is.
`containsFilter` compares filters without their methods, so a filter can be left
out for one that will not run; the files of `MCInterceptor` do not have that case,
and `MatchedFiltersRun` is about the shared array only.

## ClientConnections, PlatformWebsocket, Switcher

`ClientConnections` follows a connection from the accept loop to the server's
report of its end. What its first bytes amount to is chosen when it opens. The
table of PROXY headers is keyed by the remote address; `ForwardedIsOwn` excepts
two cases that the code does not handle, an address used again before the server
has reported its last connection closed, and one used again, without a header,
after a websocket, whose end is never reported. `PlatformWebsocket` is one relay
with its two copying goroutines, each of which reads from one socket and writes
to the other in turn. `Switcher` reads the master file and changes the
remote proxy in two steps, since the file may be written between them.

## Runs

| run | shows | instance |
| --- | --- | --- |
| `multiplexer_safety` | no panic, no stream outlives its connection, the registry follows the newest connection, a Connect never moves | 1 stream, 2 callers, 2 connections, queue of 1 |
| `multiplexer_streams` | `Multiplexer` implements `FrontendStreams`, liveness included; a slow client is closed, also by the reader of a replaced connection | 1 stream, 1 caller, 2 connections |
| `backend_link` | every call of the manager returns; the agent does not panic and gives up broken links | 2 streams, 1 caller, 1 connection; 2 keys, 2 handlers and channels of 1 at the agent |
| `session_safety` | after a revocation nothing is kept, numbered or attached; control is with a connected tab; a browser sees output in order without gaps; the replay is the longest suffix that fits | three scenarios (below) |
| `session_live` | a terminated session ends, its watch too; a revocation closes every browser | 1 browser, watch, cleanup |
| `websocket_handlers` | however a request ends its streams are released and its goroutines end; the last target closes an aggregate; a refused ticket ends the request | a direct stream, or 1 or 2 targets, with and without a ticket |
| `components` | the session limit holds, no stream is lost by cleanup and session requests return; an HTTP request's stream is released, EOF is sent once, no content is lost, nobody is left behind; a definite refusal has all its receipts and no others; the cache is bounded and keeps live entries; requests pass their own filters through reloads; forwarded headers are the connection's own; a relay ends when a side does; the master file is followed | see below |

`session_safety` goes through three scenarios (`MCPersistentSession`): a ticket
with one browser and its watch, and any two at a time of a request, the cleanup
and an output; two websockets on any of two tabs; a logs session with one browser
and three outputs of size 1, 2 or 4, replay limit 3 and client queue of 3, before
any cleanup. They combine what the code relates.

`components` checks eight modules that share no state in one run: `part` chooses
one of them and the others stay in their initial states, in which none of their
fair actions is enabled. Instances: 2 session identifiers, 2 requests, limit 1, 2
sessions made; an HTTP request with 3 chunks; 2 hosts, up to 3 inner tickets where
2 are allowed; 3 cache keys, limit 2, 2 lookups, clock to 5; 2 requests and a
reload over 2 configuration files and none; 2 connections from a trusted and
another address; one relay; 2 masters. `backend_link` does the same with the two
ends of a backend connection.

Why the bounds are enough. Two connections make one replacement, and the
hazards of a replacement involve one old and one new connection. A queue of one
is full after one message. Streams of one connection meet only in the queue and
in the lock, which two callers and one stream, or one caller and two streams,
already contend for; the invariants are proved without these bounds. A client
queue of three is full right after `addClient`, so a single output finds it full.
With a limit of 3, sizes 1, 2 and 4 give every case of the replay loop: nothing,
one or two entries dropped, exactly full, and an output that never fits. Two
targets are enough for one to fail after another succeeded and for two to finish
together, and the countdown is proved for any number. A second chunk waits behind
the first, in `start` or in the channel; a third changes nothing, and the safety
properties of the pipe are proved for any number. With a limit of one session and
two requests, two creations contend for the last place, and the second session is
made while the first is ended, swept or revoked. A cache of two with three keys
displaces. Three inner tickets are one too many, and two may name one host. A
slice of three filters has room for one more, and the two requests match
different further templates. Two connections are one that follows another from
the same address. The invariants of all these parts are proved without these
bounds.

Deadlock is checked for the multiplexers, where there is always an agent or a
caller that can move or a bound that is used up. A session really stops, after a
failed creation or a cleanup, and a request when it is served, so their runs do
not check for deadlock; nor do `components` and `backend_link`, whose parts stop at
their bounds.

Five runs are expected to fail, each on a statement of the repository that the
code does not keep (see `findings`):

- `multiplexer_payload`: README.md says that missing capabilities prevent
  forwarding any execution payload. `send` tests neither the capability nor that
  the key belongs to the connection, so after a replacement a Body of an API Key
  stream goes to a connection that did not declare them.
- `session_final_replay`: COMPATIBILITY.md says that the output of an ended
  session is preserved. If the session ends while the watch has a check on its
  way, ending cancels the check, the watch takes the failure for a refusal, and
  the replay is erased.
- `session_backend`: a test says that revocation closes the backend. If the
  Close cannot be queued in time, as in the run's trace, the channel is closed and
  the session ends, but the command runs on until it next writes output. A Close
  that overtakes the Connect of a session still being created has that effect too.
- `interceptor_race`: a comment in interceptor.go says that the filters of the
  other matching templates are appended if not duplicate. Two requests append to
  one array, and one of them runs the other's filter in place of its own.
- `session_total`: README.md:32 says that client count and total sessions are
  bounded. The limit counts sessions that have not ended; ended ones stay in the
  map for their retention, and more are made meanwhile. (The clients of a session
  are not limited at all.)

## Fairness

Multiplexer: goroutines run and timers fire (weak fairness); a goroutine that
waits for `frontendMu.Lock` gets it although the reader takes the read lock again
and again, because `sync.RWMutex` holds new readers back once a writer waits
(strong fairness). Nothing is assumed of consumers, agent or network: a consumer
may never read, an agent may never answer.

PersistentSession: goroutines run, and the calls they make return (`CallsReturn`,
the verifier's three-second client timeout, the websocket write deadlines); a
link that is gone sweeps its channels (`ImplementsStreams`); a closed websocket fails
its reader; a cancelled context stays ready, so the watch's `select`, which picks
among ready cases at random, takes it in the end although ticks compete with it
(strong fairness). The pump ends once its channel is closed (`PumpStep`). Neither
the ticket's expiry, nor the cleanup ticker, nor any action of a browser or of
the command, its end included, is assumed.

WebsocketHandlers: the same. Every write to the browser has a deadline, and the
read of an aggregate's first message too. HTTPHandler: the same but for writes
to the browser, which have none (`http.Server` is given no write timeout): only a
write to a browser that is gone is assumed to return. `StreamEndReturns`
therefore excepts a request that is in such a write for ever. That a request
comes is not assumed.

SessionManager: goroutines run, and their calls of the Engine and of the backend
return as above; `sync.RWMutex` lets every waiter in at last (strong fairness).
`RequestsReturn` therefore shows no more than that every path releases the lock.
When retention runs out, and that a request comes, is not assumed.

BackendAgent: goroutines run; a sender on a channel gets its turn if the channel
has room again and again (strong fairness, Go's channels queue senders); writes
on a closed websocket fail. A write on an open one has no deadline and is not
assumed to return. Nothing is assumed of when a handler answers or finishes, only
that it receives while it is there.

PlatformWebsocket: goroutines run, and reading a socket that has ended or was
closed returns, as does writing to one that was closed. A write to a peer that
stays and does not read has no deadline; `RelayEnds` excepts a direction that is
in one for ever. The other parts have only safety properties and no fairness.

## Proofs

`MultiplexerProofs` proves, for any sets of keys and callers, any number of
connections and any queue capacity, from the assumption on the constants alone:
`TypeCorrect`, `NeverPanics`, `NobodyStranded`, `NewestRegistered`,
`ConnectsNeverMove`, `OwnShutdownOnly`, and `SafelyImplements` (every step of the
multiplexers is a step of `FrontendStreams` or a stutter).

None of the invariants is inductive. `IInv` adds what ties the pieces together,
in layers of which each uses the ones before it:

- `InvConns`: connections are numbered in order, a goroutine only ever holds a
  connection that was made, and nothing happens on one that was not.
- `InvStreams`: a stream is open exactly as long as it is registered on the
  connection it was created on, and that connection is not swept; a key that is
  being created is held by one goroutine; a reader that hands a message over
  holds a key that is registered, which is why it cannot meet a closed channel.
- `InvConnects`: a goroutine that is about to queue a Connect holds the
  connection of its key, with the capability if the key needs it.

Each layer was model-checked before it was proved. `SafelyImplements` rests on
`IInv`: that `Sweep` closes exactly the streams of its link is `InvStreams`.

`WebsocketHandlersProofs` proves `StreamsReleased` and `CountdownExact` for any
number of targets. The release is inductive with `InvRelease`: behind the
release loop's position no channel is open on a link that serves, and before
initialization none is open at all. The countdown needs `InvCount`:
`doneCounter` is the number of targets less the number of those counted, the
counted ones are among those whose agent closed, and no pump counts twice. A
counter at zero then leaves no target out, by the cardinality of subsets of an
interval.

`PersistentSessionProofs` proves `ControlIsHeldByAttached`,
`RevocationLeavesNobody`, `RevocationSilences` and `EndingIsFinal` for any number
of browsers, tabs, requests and outputs. A revocation takes several steps of some
goroutine, and `SessionInv` says what holds between them: a revoked session has no
clients, or somebody who will call `closeClients` is on the way; whoever revokes
is such a goroutine; the watch does not begin before `bindDelegation`; and a
revoked session's replay is empty.

`SessionOutputProofs` proves `ReplayIsLongest` and `OutputHasNoGaps` for any
number of browsers, outputs and their sizes, any limit of the replay and any
length of a client's queue. `ReplayInv` says that the replay lists the outputs
after some m which fit at all, that `replayBytes` is their sum, and that with
output m it would be too large; the loop of `appendOutput` stops at the first
entry that makes room, so the entry dropped last takes the place of m. `GapInv`
looks at what a connection was shown together with the frames in its queue:
they rise, each later frame lies after the earlier ones, and those after `since`
are `since + 1 .. m`, with m the newest output for a connection that is registered
and open (`Served`); a connection that was not yet added was sent nothing
(`FreshIsUnsent`). It needs `SessionInv`, since a frame goes to the registered
only, and `ReplayInv`, since the first frame is the replay.

`LimitProofs` proves `LimitHolds` and `NoStreamIsLost`. The limit is
inductive with `RoomKept`: while a creation holds the lock, the room it found
stays, and its own session is counted as soon as it is entered, also if it has
been marked ended, since `connected` will be written over that. The streams need
`EndedIsShut` (only a session whose stream is closed has ended, so what cleanup
does not terminate needs no terminating) and `OwnEntry` (a failed creation takes
back its own entry). It also proves `CacheStaysBounded` and `LiveEntriesLeaveLast`
of the token cache, by the cardinalities of the live entries before and after
`set`.

`ComponentProofs` holds the parts whose proofs share nothing:

- The agent (`AgentNeverPanics`, `AgentTellsHandlers`, any keys, handlers and
  capacities): no two keys share a channel, and the channels in the map are open
  as long as the reader reads.
- The switcher (`MasterIsFollowed`, any masters): the remote proxy was made for
  `address`, and while the loop sleeps that is what it read last, if usable.
- Client connections (`ForwardedHeadersAreOwn`, any number of connections and
  addresses): of two connections from one address the earlier one has ended
  (`AddressReused`), an entry of the table belongs to a connection from its
  address that was not yet reported closed (`InfosOwned`), and one that is served
  has its entry (`ServedNamed`).
- The HTTP pipe (`EOFSentOnce`, `NoContentLost`, `StreamReleased`, any number of
  chunks): `closed` is set by whoever sends the EOF; what was received is what was
  written, but for the chunks that `start` and the handler have in hand, as long
  as the handler reads, and what was sent is what was received until the stream is
  cut (`InvSent`); and `start` ends, which the handler waits for, only on a
  closed channel.

`RequestProofs` proves `RefusalsAreComplete` and `OnlyOwedReceipts` for any
hosts, any number of targets and any number of attempts at once. `Reporting` is
the loop invariant: every host the refusal is about is recorded or still to come,
none comes twice, nothing was sent to those to come, and there are grounds for the
receipts. The grounds of a refusal at one target rest on `AtTarget`: no target is
looked at before the loops begin, and those that the first loop has passed are
verified. That the targets name every host rests on a least index
for each, by the well-foundedness of the naturals. It also proves
`OwnFiltersAlwaysRun` for any configurations and any number of requests and
reloads. In `InterceptorInv` a request's slice starts with the filters of its
template, whether it is a copy or the shared array, because `append` writes
behind the template's own length only (`SpareOK`: filters of the same
configuration); what it ran is what the loop over these takes up to `next`
(`Passed`), and a router, once built, stays as it is. The finding about the
elements behind that length, `MatchedFiltersRun`, does not contradict it.

`SequenceLemmas` are lemmas about numbers and sequences. The library's induction
theorems take the property as an operator, which the provers cannot instantiate;
`BoundedInduction` takes it as a set and `RecursionExists` the step as a function,
and with these two the recursive functions of the models (`FrontBytes`, `Kept`,
`Flat`) are shown to exist, to have their type and to satisfy their equations.

The assumptions are those named in the modules, on the constants only. Only
model-checked: `PlatformWebsocket`, which has no safety property, and all
liveness, which is out of the prover's reach, that part of `ImplementsStreams`
included. Only proved, and part of no run: `EndingIsFinal` and
`AgentTellsHandlers`. Types are inductive parts of the proofs (`Typed`, `InvTypes`
and the like) and, for `Multiplexer`, a run's invariant.

## Not modelled

- Sequential code over data: the text format of messages and URLs (keys are
  random identifiers without separators, so parsing cannot confuse them), claims
  of tickets (`delegation.Parse`, `AllowsPath`), JSON, path cleaning and routing,
  configuration, certificates, the bytes of PROXY headers, access log, redaction.
  Where they decide something, the model has their outcomes.
- `k8s/swagger.go`, 18,080 of the repository's 24,906 lines, is embedded data.
  The models map about two fifths of the lines that are left.
- `main.go`, `testutils`: start-up and test tools.
- The separate TLS listener, which shares the table of PROXY headers.
- A composition of `BackendAgent` with `Multiplexer`: the two share only the
  websocket, which both models let break, fall silent or bring any message.
- Behaviours that the models have and no property speaks of, because nothing in
  the repository says what should hold: a message queued after `done` was closed
  is reported as queued and never written; a creation whose `connect` fails
  leaves its watch running until the ticket expires; an input is sent by a
  browser that has lost control since `allowed` was read; a relay closes both
  sockets while the other direction's last bytes are copied, and leaves the
  platform's socket open if the browser's cannot be taken over; the splitting
  listener waits up to a second for each connection's first byte in turn.
- The manager's lock of the backend proxies is a step of its own, not a resource
  that is held. Several hosts share nothing but that lock.
