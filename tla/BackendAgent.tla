---------------------------- MODULE BackendAgent ----------------------------
(***************************************************************************)
(* The agent's end of a connection: connectToProxyWS in backend/backend.go *)
(* with the timer of backend/pong_handler.go.  The reader routes messages  *)
(* to handlers, one goroutine and one channel each; the writer sends what  *)
(* the handlers answer; the timer closes a websocket on which no pong was  *)
(* handled for ten seconds.  Channels are bounded and nothing that is sent *)
(* on one has a timeout.                                                   *)
(*                                                                         *)
(* Handlers are the agent's own.  They are taken to receive their channel  *)
(* until it is closed, to answer when they like, and to say Close when     *)
(* they are done, which may be at any time.                                *)
(***************************************************************************)
EXTENDS Naturals, FiniteSets

CONSTANTS
  AgentKeys,    \* message keys
  MaxHandlers,  \* bound: Connect messages that start a handler
  ChanCap       \* capacity of msgChan and of responseChannel (10 in the code)

ASSUME AgentAssumption ==
  MaxHandlers \in Nat /\ ChanCap \in Nat \ {0}

Handlers == 1..MaxHandlers

VARIABLES
  ws,           \* "open" or "closed"
  reading,      \* the reader: where it is, and the handler it has a Body for
  returned,     \* how connectToProxyWS returned: "no", "error", "malformed"
  writing,      \* the writer: "on" or "gone"
  answering,    \* the proxy answers pings
  started,      \* number of handlers started
  responders,   \* [key -> handler, 0 when there is none]
  handler,      \* [handler -> "off", "on", "answering", "leaving", "done"]
  msgChan,      \* [handler -> messages in its channel]
  closedChans,  \* handlers whose channel is closed
  responses,    \* messages in responseChannel
  agentPanics   \* a channel was closed twice, or sent on when closed

handlerVars == <<handler, msgChan>>
routeVars   == <<started, responders, closedChans, agentPanics>>
agentVars == <<ws, reading, returned, writing, answering, started, responders, handler, msgChan,
               closedChans, responses, agentPanics>>

AgentInit ==
  /\ ws = "open" /\ returned = "no" /\ writing = "on" /\ answering = TRUE
  /\ reading = [at |-> "socket", for |-> 0]
  /\ started = 0 /\ responders = [k \in AgentKeys |-> 0]
  /\ handler = [h \in Handlers |-> "off"] /\ msgChan = [h \in Handlers |-> 0]
  /\ closedChans = {} /\ responses = 0 /\ agentPanics = FALSE

-----------------------------------------------------------------------------
(* The reader *)

Waiting == ws = "open" /\ reading.at = "socket"

\* close(msgChan) for the handlers hs.
CloseChannels(hs) ==
  /\ closedChans' = closedChans \cup hs
  /\ agentPanics' = (agentPanics \/ hs \cap closedChans # {})

\* Connect: a new channel and handler, also for a key that has one; or there is
\* no handler for the path and a Close has to be sent.
AgentConnect(k) ==
  /\ Waiting
  /\ \/ /\ started < MaxHandlers
        /\ started' = started + 1
        /\ responders' = [responders EXCEPT ![k] = started']
        /\ handler' = [handler EXCEPT ![started'] = "on"]
        /\ UNCHANGED reading
     \/ /\ reading' = [at |-> "response", for |-> 0]
        /\ UNCHANGED <<started, responders, handler>>
  /\ UNCHANGED <<ws, returned, writing, answering, msgChan, closedChans, responses, agentPanics>>

AgentBody(k) ==
  /\ Waiting
  /\ reading' = IF responders[k] = 0 THEN [at |-> "response", for |-> 0]
                                     ELSE [at |-> "handler", for |-> responders[k]]
  /\ UNCHANGED <<ws, returned, writing, answering, routeVars, handlerVars, responses>>

\* Fault: the closed channel stays in the map.
closeHandler_NotDeleted(k) ==
  /\ Waiting
  /\ IF responders[k] = 0 THEN UNCHANGED <<closedChans, agentPanics>>
                          ELSE CloseChannels({responders[k]})
  /\ UNCHANGED <<ws, reading, returned, writing, answering, started, responders, handlerVars,
                 responses>>

closeHandler(k) ==
  /\ Waiting
  /\ responders[k] # 0
  /\ CloseChannels({responders[k]})
  /\ responders' = [responders EXCEPT ![k] = 0]
  /\ UNCHANGED <<ws, reading, returned, writing, answering, started, handlerVars, responses>>

\* The blocking sends: msgChan <- body, responseChannel <- Close.
ReaderHandsOver ==
  /\ \/ /\ reading.at = "handler"
        /\ msgChan[reading.for] < ChanCap
        /\ msgChan' = [msgChan EXCEPT ![reading.for] = @ + 1]
        /\ agentPanics' = (agentPanics \/ reading.for \in closedChans)
        /\ UNCHANGED responses
     \/ /\ reading.at = "response"
        /\ responses < ChanCap
        /\ responses' = responses + 1
        /\ UNCHANGED <<msgChan, agentPanics>>
  /\ reading' = [at |-> "socket", for |-> 0]
  /\ UNCHANGED <<ws, returned, writing, answering, started, responders, handler, closedChans>>

\* A malformed message: the websocket is closed, the handlers are not told.
ReaderRejects ==
  /\ Waiting
  /\ ws' = "closed"
  /\ reading' = [at |-> "gone", for |-> 0]
  /\ returned' = "malformed"
  /\ UNCHANGED <<writing, answering, routeVars, handlerVars, responses>>

\* ReadMessage fails: every handler of the map is told.
ReaderFails ==
  /\ ws = "closed" /\ reading.at = "socket"
  /\ CloseChannels({responders[k] : k \in AgentKeys} \ {0})
  /\ reading' = [at |-> "gone", for |-> 0]
  /\ returned' = "error"
  /\ UNCHANGED <<ws, writing, answering, started, responders, handlerVars, responses>>

-----------------------------------------------------------------------------
(* The writer, the timer and the network *)

\* A response is written while the websocket is open.
WriterSendsResponse ==
  /\ writing = "on" /\ ws = "open" /\ responses > 0
  /\ responses' = responses - 1
  /\ UNCHANGED <<ws, reading, returned, writing, answering, routeVars, handlerVars>>

\* A write or a ping fails, as it does on a closed websocket, or a response is
\* too long: the writer returns, and nothing is taken from responseChannel again.
WriterGivesUp ==
  /\ writing = "on"
  /\ writing' = "gone" /\ ws' = "closed"
  /\ \/ UNCHANGED responses
     \/ responses > 0 /\ responses' = responses - 1
  /\ UNCHANGED <<reading, returned, answering, routeVars, handlerVars>>

\* Fault: the timer is looked at in the read loop, between two messages.
PongTimeout_InReadLoop ==
  /\ ws = "open" /\ ~answering /\ reading.at = "socket"
  /\ ws' = "closed"
  /\ UNCHANGED <<reading, returned, writing, answering, routeVars, handlerVars, responses>>

\* Pongs are handled inside ReadMessage: none is while the reader is held up.
PongTimeout ==
  /\ ws = "open"
  /\ ~answering \/ reading.at # "socket"
  /\ ws' = "closed"
  /\ UNCHANGED <<reading, returned, writing, answering, routeVars, handlerVars, responses>>

ProxyGoesSilent ==
  /\ answering
  /\ answering' = FALSE
  /\ UNCHANGED <<ws, reading, returned, writing, routeVars, handlerVars, responses>>

WebsocketBreaks ==
  /\ ws = "open"
  /\ ws' = "closed"
  /\ UNCHANGED <<reading, returned, writing, answering, routeVars, handlerVars, responses>>

-----------------------------------------------------------------------------
(* Handlers *)

HandlerReceives(h) ==
  /\ handler[h] = "on"
  /\ \/ msgChan[h] > 0 /\ msgChan' = [msgChan EXCEPT ![h] = @ - 1] /\ UNCHANGED handler
     \/ msgChan[h] = 0 /\ h \in closedChans /\ handler' = [handler EXCEPT ![h] = "leaving"]
                       /\ UNCHANGED msgChan
  /\ UNCHANGED <<ws, reading, returned, writing, answering, routeVars, responses>>

HandlerDecides(h) ==
  /\ handler[h] = "on"
  /\ handler' \in {[handler EXCEPT ![h] = "answering"], [handler EXCEPT ![h] = "leaving"]}
  /\ UNCHANGED <<ws, reading, returned, writing, answering, routeVars, msgChan, responses>>

\* response <- message, or SignalHandlerClosed.
HandlerResponds(h) ==
  /\ handler[h] \in {"answering", "leaving"}
  /\ responses < ChanCap
  /\ responses' = responses + 1
  /\ handler' = [handler EXCEPT ![h] = IF @ = "answering" THEN "on" ELSE "done"]
  /\ UNCHANGED <<ws, reading, returned, writing, answering, routeVars, msgChan>>

AgentHandlerStep(h) == HandlerReceives(h) \/ HandlerResponds(h)

AgentReaderStep == ReaderHandsOver \/ ReaderFails

AgentNext ==
  \/ \E k \in AgentKeys : AgentConnect(k) \/ AgentBody(k) \/ closeHandler(k)
  \/ AgentReaderStep \/ ReaderRejects
  \/ WriterSendsResponse \/ WriterGivesUp \/ PongTimeout \/ ProxyGoesSilent \/ WebsocketBreaks
  \/ \E h \in Handlers : AgentHandlerStep(h) \/ HandlerDecides(h)

AgentSpec == AgentInit /\ [][AgentNext]_agentVars

-----------------------------------------------------------------------------
(* Fairness: goroutines run, a waiting sender gets its turn when a channel     *)
(* has room again and again, and a write or ping on a closed websocket fails. *)
(* Nothing is assumed of a write on an open one, which has no deadline, or of *)
(* what handlers choose to do.                                                *)

AgentFairness ==
  /\ WF_agentVars(AgentReaderStep) /\ WF_agentVars(PongTimeout)
  /\ WF_agentVars(ws = "closed" /\ WriterGivesUp)
  /\ \A h \in Handlers : SF_agentVars(AgentHandlerStep(h))

-----------------------------------------------------------------------------
\* No handler channel is closed twice or sent on when closed, by whatever order
\* of Connect, Body and Close for whatever keys: the agent does not panic.
AgentNoPanic == ~agentPanics

\* When the connection ends with a read error, every handler learns of it, except
\* one whose key was connected a second time: its channel is in no map.
HandlersTold ==
  returned = "error" =>
    \A h \in Handlers : h \in closedChans \/ \A k \in AgentKeys : responders[k] # h

\* Nobody will ever take from responseChannel again, and it is full.
Jammed == writing = "gone" /\ responses = ChanCap

\* Nothing will ever take what the reader has in hand: its handler is done, or
\* waits like the reader itself for a jammed responseChannel.
ReaderStuck ==
  \/ reading.at = "response" /\ Jammed
  \/ /\ reading.at = "handler" /\ msgChan[reading.for] = ChanCap
     /\ \/ handler[reading.for] = "done"
        \/ handler[reading.for] \in {"answering", "leaving"} /\ Jammed

\* A connection that broke, or whose proxy no longer answers pings, ends
\* connectToProxyWS, so that the agent can connect again; all that can prevent it
\* is a send of the reader that nobody will take.
LinkEnds == ws = "closed" \/ ~answering ~> (returned # "no" \/ ReaderStuck)
=============================================================================
