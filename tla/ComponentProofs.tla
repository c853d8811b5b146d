-------------------------- MODULE ComponentProofs ---------------------------
(***************************************************************************)
(* The parts that keep to themselves, each for every value of its          *)
(* constants: no channel of the agent's handlers is closed twice or sent   *)
(* on when closed, and a connection that ends with a read error closes     *)
(* those in the map; requests go to the master that was read last; what is *)
(* forwarded of a connection is its own; a proxied HTTP request loses no   *)
(* content, ends its body once and leaves nothing registered.              *)
(***************************************************************************)
EXTENDS BackendAgent, Switcher, ClientConnections, HTTPHandler, TLAPS

-----------------------------------------------------------------------------
(* BackendAgent *)

Kept == <<started, responders, closedChans, agentPanics, reading, returned>>

\* The reader is the only one that makes, sends on and closes the channels.
AgentTyped ==
  /\ started \in 0..MaxHandlers
  /\ responders \in [AgentKeys -> 0..started]
  /\ closedChans \subseteq 1..started
  /\ reading \in [at : {"socket", "handler", "response", "gone"}, for : 0..started]

\* Two keys never share a channel: each Connect makes a new one.
OneKeyEach == \A j, k \in AgentKeys : responders[j] = responders[k] /\ responders[j] # 0 => j = k

\* While the reader reads, the channels in the map and the one it is about to
\* send on are open.
OpenInMap ==
  /\ reading.at # "gone" => \A k \in AgentKeys : responders[k] \notin closedChans
  /\ reading.at = "handler" => reading.for \notin closedChans

ReturnedIsGone == returned # "no" => reading.at = "gone"

AgentInv == AgentTyped /\ OneKeyEach /\ OpenInMap /\ ReturnedIsGone /\ AgentNoPanic /\ HandlersTold

\* Nothing is open at first.
LEMMA AgentInitial == AgentInit => AgentInv
BY AgentAssumption DEF AgentInit, AgentInv, AgentTyped, OneKeyEach, OpenInMap, ReturnedIsGone,
   AgentNoPanic, HandlersTold, Handlers

\* The writer, the timer and the handlers leave all of it alone.
LEMMA AgentKept == ASSUME AgentInv, UNCHANGED Kept PROVE AgentInv'
BY Zenon DEF Kept, AgentInv, AgentTyped, OneKeyEach, OpenInMap, ReturnedIsGone, AgentNoPanic, HandlersTold

\* A Connect enters a channel that nobody has seen.
LEMMA ConnectKeeps ==
  ASSUME AgentInv, NEW k \in AgentKeys, AgentConnect(k)
  PROVE  AgentInv'
<1>0. reading.at = "socket" /\ returned = "no" /\ UNCHANGED <<returned, closedChans, agentPanics>>
  BY Zenon DEF AgentInv, ReturnedIsGone, AgentConnect, Waiting
<1>1. CASE /\ started < MaxHandlers
           /\ started' = started + 1
           /\ responders' = [responders EXCEPT ![k] = started']
           /\ UNCHANGED reading
  <2>1. AgentTyped'
    BY <1>0, <1>1, AgentAssumption DEF AgentInv, AgentTyped
  <2>2. OneKeyEach'
    BY <1>1, AgentAssumption DEF AgentInv, AgentTyped, OneKeyEach
  <2>3. OpenInMap'
    BY <1>0, <1>1, AgentAssumption DEF AgentInv, AgentTyped, OpenInMap
  <2>4. (ReturnedIsGone /\ HandlersTold)'
    BY Zenon, <1>0 DEF ReturnedIsGone, HandlersTold
  <2>5. QED
    BY Zenon, <1>0, <2>1, <2>2, <2>3, <2>4 DEF AgentInv, AgentNoPanic
<1>2. CASE reading' = [at |-> "response", for |-> 0] /\ UNCHANGED <<started, responders>>
  <2>1. AgentTyped' /\ OneKeyEach' /\ OpenInMap'
    BY <1>0, <1>2, AgentAssumption DEF AgentInv, AgentTyped, OneKeyEach, OpenInMap
  <2>2. (ReturnedIsGone /\ HandlersTold)'
    BY Zenon, <1>0 DEF ReturnedIsGone, HandlersTold
  <2>3. QED
    BY Zenon, <1>0, <2>1, <2>2 DEF AgentInv, AgentNoPanic
<1>3. QED
  BY Zenon, <1>1, <1>2 DEF AgentConnect

\* A Body has its handler from the map, whose channels are open.
LEMMA BodyKeeps ==
  ASSUME AgentInv, NEW k \in AgentKeys, AgentBody(k)
  PROVE  AgentInv'
<1>0. reading.at = "socket" /\ returned = "no" /\ UNCHANGED <<returned, routeVars>>
  BY Zenon DEF AgentInv, ReturnedIsGone, AgentBody, Waiting
<1>1. /\ UNCHANGED <<started, responders, closedChans, agentPanics>>
      /\ reading' = IF responders[k] = 0 THEN [at |-> "response", for |-> 0]
                                         ELSE [at |-> "handler", for |-> responders[k]]
  BY Zenon DEF AgentBody, routeVars
<1>2. responders[k] \in 0..started /\ responders[k] \notin closedChans
  BY Zenon, <1>0 DEF AgentInv, AgentTyped, OpenInMap
<1>3. AgentTyped'
  BY Zenon, <1>1, <1>2, AgentAssumption DEF AgentInv, AgentTyped
<1>4. OneKeyEach' /\ OpenInMap'
  BY Zenon, <1>0, <1>1, <1>2 DEF AgentInv, OneKeyEach, OpenInMap
<1>5. (ReturnedIsGone /\ HandlersTold)'
  BY Zenon, <1>0 DEF ReturnedIsGone, HandlersTold
<1>6. QED
  BY Zenon, <1>1, <1>3, <1>4, <1>5 DEF AgentInv, AgentNoPanic

\* Closing channels that are open is no panic.
LEMMA CloseChannelsSafe ==
  ASSUME AgentNoPanic, NEW hs, CloseChannels(hs), hs \cap closedChans = {}
  PROVE  AgentNoPanic'
BY Zenon DEF AgentNoPanic, CloseChannels

\* The channel that is closed leaves the map with the same message.
LEMMA CloseKeeps ==
  ASSUME AgentInv, NEW k \in AgentKeys, closeHandler(k)
  PROVE  AgentInv'
<1>0. /\ reading.at = "socket" /\ returned = "no" /\ responders[k] # 0
      /\ UNCHANGED <<returned, reading, started>>
      /\ responders' = [responders EXCEPT ![k] = 0]
      /\ CloseChannels({responders[k]})
  BY Zenon DEF AgentInv, ReturnedIsGone, closeHandler, Waiting
<1>1. responders[k] \in 1..started /\ responders[k] \notin closedChans
  BY <1>0, AgentAssumption DEF AgentInv, AgentTyped, OpenInMap
<1>2. closedChans' = closedChans \cup {responders[k]}
  BY Zenon, <1>0 DEF CloseChannels
<1>3. AgentTyped'
  <2>1. responders' \in [AgentKeys -> 0..started]
    BY <1>0, AgentAssumption DEF AgentInv, AgentTyped
  <2>2. closedChans' \subseteq 1..started
    BY ZenonT(30), <1>1, <1>2 DEF AgentInv, AgentTyped
  <2>3. QED
    BY Zenon, <1>0, <2>1, <2>2 DEF AgentInv, AgentTyped
<1>4. OneKeyEach'
  BY Zenon, <1>0 DEF AgentInv, AgentTyped, OneKeyEach
<1>5. OpenInMap'
  BY <1>0, <1>1, <1>2 DEF AgentInv, AgentTyped, OneKeyEach, OpenInMap
<1>6. AgentNoPanic'
  BY Zenon, <1>0, <1>1, CloseChannelsSafe DEF AgentInv
<1>7. (ReturnedIsGone /\ HandlersTold)'
  BY Zenon, <1>0 DEF ReturnedIsGone, HandlersTold
<1>8. QED
  BY Zenon, <1>3, <1>4, <1>5, <1>6, <1>7 DEF AgentInv

\* The blocking sends of the reader go to an open channel.
LEMMA HandOverKeeps ==
  ASSUME AgentInv, ReaderHandsOver
  PROVE  AgentInv'
<1>0. /\ UNCHANGED <<returned, started, responders, closedChans>>
      /\ reading' = [at |-> "socket", for |-> 0]
      /\ reading.at # "gone" /\ returned = "no"
  BY Zenon DEF AgentInv, ReturnedIsGone, ReaderHandsOver
<1>1. AgentNoPanic'
  <2>1. CASE reading.at = "handler" /\ agentPanics' = (agentPanics \/ reading.for \in closedChans)
    BY Zenon, <2>1 DEF AgentInv, AgentNoPanic, OpenInMap
  <2>2. CASE UNCHANGED agentPanics
    BY Zenon, <2>2 DEF AgentInv, AgentNoPanic
  <2>3. QED
    BY Zenon, <2>1, <2>2 DEF ReaderHandsOver
<1>2. AgentTyped' /\ OneKeyEach' /\ OpenInMap'
  BY <1>0, AgentAssumption DEF AgentInv, AgentTyped, OneKeyEach, OpenInMap
<1>3. (ReturnedIsGone /\ HandlersTold)'
  BY Zenon, <1>0 DEF ReturnedIsGone, HandlersTold
<1>4. QED
  BY Zenon, <1>1, <1>2, <1>3 DEF AgentInv

\* A malformed message ends the reader without touching a channel.
LEMMA RejectKeeps ==
  ASSUME AgentInv, ReaderRejects
  PROVE  AgentInv'
<1>0. /\ UNCHANGED <<started, responders, closedChans, agentPanics>>
      /\ reading' = [at |-> "gone", for |-> 0] /\ returned' = "malformed"
  BY Zenon DEF ReaderRejects, routeVars
<1>1. QED
  BY <1>0, AgentAssumption DEF AgentInv, AgentTyped, OneKeyEach, OpenInMap, ReturnedIsGone,
     AgentNoPanic, HandlersTold

\* The read error closes every channel of the map, once each.
LEMMA ReadFailsKeeps ==
  ASSUME AgentInv, ReaderFails
  PROVE  AgentInv'
<1> DEFINE told == {responders[k] : k \in AgentKeys} \ {0}
<1>0. /\ reading.at = "socket" /\ UNCHANGED <<started, responders>>
      /\ reading' = [at |-> "gone", for |-> 0]
      /\ CloseChannels(told)
  BY Zenon DEF ReaderFails
<1>1. told \subseteq 1..started /\ told \cap closedChans = {}
  BY <1>0, AgentAssumption DEF AgentInv, AgentTyped, OpenInMap
<1>2. closedChans' = closedChans \cup told
  BY Zenon, <1>0 DEF CloseChannels
<1>3. AgentTyped'
  <2>1. closedChans' \subseteq 1..started
    BY ZenonT(30), <1>1, <1>2 DEF AgentInv, AgentTyped
  <2>2. reading' \in [at : {"socket", "handler", "response", "gone"}, for : 0..started]
    BY <1>0, AgentAssumption DEF AgentInv, AgentTyped
  <2>3. QED
    BY Zenon, <1>0, <2>1, <2>2 DEF AgentInv, AgentTyped
<1>3a. OneKeyEach' /\ OpenInMap' /\ ReturnedIsGone'
  BY Zenon, <1>0 DEF AgentInv, OneKeyEach, OpenInMap, ReturnedIsGone
<1>4. AgentNoPanic'
  BY Zenon, <1>0, <1>1, CloseChannelsSafe DEF AgentInv
<1>5. HandlersTold'
  <2> SUFFICES ASSUME NEW h \in Handlers, NEW k \in AgentKeys, responders'[k] = h
               PROVE  h \in closedChans'
    BY Zenon DEF HandlersTold
  <2>1. h # 0
    BY AgentAssumption DEF Handlers
  <2>2. QED
    BY Zenon, <1>0, <1>2, <2>1
<1>6. QED
  BY Zenon, <1>3, <1>3a, <1>4, <1>5 DEF AgentInv

\* Every step of the agent preserves the invariant.
LEMMA AgentStep == AgentInv /\ [AgentNext]_agentVars => AgentInv'
<1> SUFFICES ASSUME AgentInv, [AgentNext]_agentVars PROVE AgentInv'
  BY Zenon
<1>1. ASSUME NEW k \in AgentKeys, AgentConnect(k) \/ AgentBody(k) \/ closeHandler(k) PROVE AgentInv'
  BY Zenon, <1>1, ConnectKeeps, BodyKeeps, CloseKeeps
<1>2. CASE AgentReaderStep \/ ReaderRejects
  BY Zenon, <1>2, HandOverKeeps, ReadFailsKeeps, RejectKeeps DEF AgentReaderStep
<1>3. CASE WriterSendsResponse \/ WriterGivesUp \/ PongTimeout \/ ProxyGoesSilent \/ WebsocketBreaks
  <2>1. UNCHANGED Kept
    BY Zenon, <1>3 DEF Kept, routeVars, WriterSendsResponse, WriterGivesUp, PongTimeout, ProxyGoesSilent,
       WebsocketBreaks
  <2>2. QED
    BY Zenon, <2>1, AgentKept
<1>4. ASSUME NEW h \in Handlers, AgentHandlerStep(h) \/ HandlerDecides(h) PROVE AgentInv'
  <2>1. UNCHANGED Kept
    BY Zenon, <1>4 DEF Kept, routeVars, AgentHandlerStep, HandlerDecides, HandlerReceives, HandlerResponds
  <2>2. QED
    BY Zenon, <2>1, AgentKept
<1>5. CASE UNCHANGED agentVars
  BY Zenon, <1>5, AgentKept DEF agentVars, Kept
<1>6. QED
  BY Zenon, <1>1, <1>2, <1>3, <1>4, <1>5 DEF AgentNext

\* The agent does not panic on its handlers' channels, whatever order of Connect,
\* Body and Close the proxy sends for whatever keys.
THEOREM AgentNeverPanics == AgentSpec => []AgentNoPanic
<1>1. AgentInv => AgentNoPanic
  BY Zenon DEF AgentInv
<1>2. QED
  BY AgentInitial, AgentStep, <1>1, PTL DEF AgentSpec

\* After a read error every handler in the map has been told by its channel.
THEOREM AgentTellsHandlers == AgentSpec => []HandlersTold
<1>1. AgentInv => HandlersTold
  BY Zenon DEF AgentInv
<1>2. QED
  BY AgentInitial, AgentStep, <1>1, PTL DEF AgentSpec

-----------------------------------------------------------------------------
(* Switcher *)

\* The remote proxy was made for s.addr; while start sleeps that is what it read
\* last, if it could be used.
SwitcherInv ==
  /\ remote = address
  /\ poll \in {"off", "sleep", "apply"}
  /\ read \in Masters \cup {NoMaster, BadMaster}
  /\ file \in Masters \cup {NoMaster, BadMaster}
  /\ poll = "off" => read = NoMaster /\ address = NoMaster
  /\ MasterFollowed

\* Requests go where the file said when it was last read, for any set of
\* addresses and however often the file is written between reading and readConfig.
THEOREM MasterIsFollowed == SwitcherSpec => []MasterFollowed
<1>1. SwitcherInit => SwitcherInv
  BY Zenon DEF SwitcherInit, SwitcherInv, MasterFollowed
<1>2. SwitcherInv /\ [SwitcherNext]_switcherVars => SwitcherInv'
  <2> SUFFICES ASSUME SwitcherInv, [SwitcherNext]_switcherVars PROVE SwitcherInv'
    BY Zenon
  <2> USE SwitcherAssumption DEF SwitcherInv, MasterFollowed
  <2>1. CASE Start
    BY Zenon, <2>1 DEF Start
  <2>2. CASE ReadFile
    BY Zenon, <2>2 DEF ReadFile
  <2>3. CASE readConfig
    BY Zenon, <2>3 DEF readConfig, clear
  <2>4. CASE WriteMaster
    BY Zenon, <2>4 DEF WriteMaster
  <2>5. CASE UNCHANGED switcherVars
    BY Zenon, <2>5 DEF switcherVars
  <2>6. QED
    BY Zenon, <2>1, <2>2, <2>3, <2>4, <2>5 DEF SwitcherNext
<1>3. SwitcherInv => MasterFollowed
  BY Zenon DEF SwitcherInv
<1>4. QED
  BY <1>1, <1>2, <1>3, PTL DEF SwitcherSpec

-----------------------------------------------------------------------------
(* ClientConnections *)

Stages == {"none", "queued", "peek", "read", "serve", "failed", "closed", "done", "hijacked", "left"}

ConnsTyped ==
  /\ listener \in {"none", "plain", "split"}
  /\ opened \in 0..MaxConns
  /\ addr \in [Conns -> Addrs \cup {CHOOSE a \in Addrs : TRUE}] /\ \A c \in 1..opened : addr[c] \in Addrs
  /\ says \in [Conns -> Says]
  /\ stage \in [Conns -> Stages] /\ \A c \in Conns : c > opened => stage[c] = "none"
  /\ infos \in [Addrs -> 0..MaxConns]
  /\ late \subseteq Conns

\* Of two connections from one address the earlier has ended, and if it is still
\* to be reported the later one is late.
AddressReused ==
  \A c \in 1..opened : \A d \in 1..c - 1 : addr[d] = addr[c] =>
    stage[d] \in {"closed", "done", "left"} /\ (stage[d] = "closed" => c \in late)

\* An entry of the table is the header of a connection from that address that was
\* not reported closed.
InfosOwned ==
  \A a \in Addrs : infos[a] # 0 =>
    /\ infos[a] \in 1..opened /\ addr[infos[a]] = a /\ Names(infos[a])
    /\ stage[infos[a]] \in {"serve", "failed", "closed", "hijacked", "left"}

\* The entry of a connection that is served is there, unless it came too early.
ServedNamed ==
  \A c \in Conns : stage[c] = "serve" /\ c \notin late /\ Names(c) => infos[addr[c]] = c

ConnsInv == ConnsTyped /\ AddressReused /\ InfosOwned /\ ServedNamed

\* A connection that was made is one of Conns.
LEMMA OpenedConns == ASSUME ConnsInv PROVE 1..opened \subseteq Conns /\ opened \in Nat
BY SMTT(30), ConnectionsAssumption DEF ConnsInv, ConnsTyped, Conns

\* The three facts together say whose header a request gets.
LEMMA OwnFromInv == ConnsInv => ForwardedIsOwn
<1> SUFFICES ASSUME ConnsInv, NEW c \in Conns, stage[c] = "serve", c \notin late,
                    getInfo(c) # OwnHeader(c)
             PROVE  ~Names(c) /\ stage[getInfo(c)] = "left"
  BY Zenon DEF ForwardedIsOwn
<1>1. ~Names(c)
  BY Zenon DEF ConnsInv, ServedNamed, getInfo, OwnHeader
<1>2. c \in 1..opened /\ addr[c] \in Addrs
  BY ConnectionsAssumption DEF ConnsInv, ConnsTyped, Conns
<1> DEFINE d == infos[addr[c]]
<1>3. d # 0
  BY Zenon, <1>1 DEF getInfo, OwnHeader
<1>4. d \in 1..opened /\ addr[d] = addr[c] /\ Names(d) /\ stage[d] # "done"
  BY Zenon, <1>2, <1>3 DEF ConnsInv, InfosOwned
<1>5. d # c
  BY Zenon, <1>1, <1>4
<1>6. CASE c < d
  <2>1. c \in 1..d - 1
    BY SMTT(30), <1>2, <1>4, <1>6
  <2>2. QED
    BY Zenon, <1>4, <2>1 DEF ConnsInv, AddressReused
<1>7. CASE d < c
  <2>1. d \in 1..c - 1
    BY <1>2, <1>4, <1>7
  <2>2. QED
    BY Zenon, <1>1, <1>2, <1>4, <2>1 DEF ConnsInv, AddressReused, getInfo
<1>8. QED
  BY <1>2, <1>4, <1>5, <1>6, <1>7

\* A step of one connection that leaves the table alone and neither serves it nor
\* undoes its end keeps all three.
LEMMA StageMoves ==
  ASSUME ConnsInv, NEW c \in 1..opened, NEW s \in Stages, To(c, s),
         UNCHANGED <<opened, addr, says, infos, late>>, listener' \in {"none", "plain", "split"},
         \/ stage[c] \in {"queued", "peek", "read"} /\ s \in {"peek", "read", "failed"}
         \/ stage[c] \in {"serve", "failed", "hijacked"} /\ s \in {"closed", "hijacked", "left"},
         \A d \in 1..opened : c < d => addr[d] # addr[c]
  PROVE  ConnsInv'
<1>1. c \in Conns
  BY Zenon, OpenedConns
<1>2. stage' = [stage EXCEPT ![c] = s]
  BY Zenon DEF To
<1>3. ConnsTyped'
  BY Zenon, <1>1, <1>2 DEF ConnsInv, ConnsTyped
<1>4. AddressReused'
  <2> SUFFICES ASSUME NEW e \in 1..opened, NEW d \in 1..e - 1, addr[d] = addr[e]
               PROVE  stage'[d] \in {"closed", "done", "left"} /\ (stage'[d] = "closed" => e \in late)
    BY Zenon DEF AddressReused
  <2>1. d # c
    BY DEF ConnsInv, ConnsTyped
  <2>2. d \in Conns
    BY OpenedConns DEF ConnsInv, ConnsTyped
  <2>3. QED
    BY Zenon, <1>2, <2>1, <2>2 DEF ConnsInv, ConnsTyped, AddressReused
<1>5. InfosOwned'
  <2> SUFFICES ASSUME NEW a \in Addrs, infos[a] # 0
               PROVE  /\ infos[a] \in 1..opened /\ addr[infos[a]] = a /\ Names(infos[a])
                      /\ stage'[infos[a]] \in {"serve", "failed", "closed", "hijacked", "left"}
    BY Zenon DEF InfosOwned, Names
  <2>1. infos[a] \in Conns
    BY DEF ConnsInv, ConnsTyped, InfosOwned, Conns
  <2>2. QED
    BY SMTT(30), <1>1, <1>2, <2>1 DEF ConnsInv, ConnsTyped, InfosOwned
<1>6. ServedNamed'
  BY Zenon, <1>1, <1>2 DEF ConnsInv, ConnsTyped, ServedNamed, Names
<1>7. QED
  BY Zenon, <1>3, <1>4, <1>5, <1>6 DEF ConnsInv

\* A connection that has not ended is the last one from its address.
LEMMA LastFromAddress ==
  ASSUME ConnsInv, NEW c \in Conns, stage[c] \notin {"none", "closed", "done", "left"}
  PROVE  c \in 1..opened /\ \A d \in 1..opened : c < d => addr[d] # addr[c]
<1>1. c \in 1..opened
  BY ConnectionsAssumption DEF ConnsInv, ConnsTyped, Conns
<1>2. ASSUME NEW d \in 1..opened, c < d, addr[d] = addr[c] PROVE FALSE
  <2>1. c \in 1..d - 1
    BY <1>1, <1>2
  <2>2. QED
    BY Zenon, <1>2, <2>1 DEF ConnsInv, AddressReused
<1>3. QED
  BY Zenon, <1>1, <1>2

\* The server accepts connections before anything is in the table.
LEMMA OpenKeeps == ASSUME ConnsInv, Open PROVE ConnsInv'
<1> DEFINE n == opened + 1
<1>1. PICK a \in Addrs, w \in Says :
        /\ \A d \in {e \in 1..opened : addr[e] = a} : stage[d] \in {"closed", "done", "left"}
        /\ addr' = [addr EXCEPT ![n] = a] /\ says' = [says EXCEPT ![n] = w]
        /\ late' = IF \E d \in {e \in 1..opened : addr[e] = a} : stage[d] = "closed"
                   THEN late \cup {n} ELSE late
  BY ZenonT(30) DEF Open
<1>2. /\ opened' = n /\ n \in Conns /\ opened \in Nat /\ n \notin 1..opened
      /\ stage' = [stage EXCEPT ![n] = "queued"] /\ UNCHANGED <<listener, infos>>
  BY ConnectionsAssumption DEF Open, To, ConnsInv, ConnsTyped, Conns
<1>3. \A d \in 1..opened :
        d \in Conns /\ d # n /\ addr'[d] = addr[d] /\ stage'[d] = stage[d] /\ says'[d] = says[d]
  <2> SUFFICES ASSUME NEW d \in 1..opened
               PROVE  d \in Conns /\ d # n /\ addr'[d] = addr[d] /\ stage'[d] = stage[d] /\ says'[d] = says[d]
    BY Zenon
  <2>1. d \in Conns /\ d # n
    BY Zenon, <1>2, OpenedConns
  <2>2. QED
    BY Zenon, <1>1, <1>2, <2>1 DEF ConnsInv, ConnsTyped
<1>4. addr'[n] = a /\ stage'[n] = "queued"
  BY Zenon, <1>1, <1>2 DEF ConnsInv, ConnsTyped
<1>5. 1..n = 1..opened \cup {n}
  BY <1>2
<1>6. ConnsTyped'
  <2>1. listener' \in {"none", "plain", "split"} /\ infos' \in [Addrs -> 0..MaxConns]
    BY Zenon, <1>2 DEF ConnsInv, ConnsTyped
  <2>2. opened' \in 0..MaxConns
    BY <1>2 DEF Conns
  <2>3. addr' \in [Conns -> Addrs \cup {CHOOSE b \in Addrs : TRUE}]
    BY Zenon, <1>1, <1>2 DEF ConnsInv, ConnsTyped
  <2>4. \A c \in 1..n : addr'[c] \in Addrs
    BY Zenon, <1>3, <1>4, <1>5 DEF ConnsInv, ConnsTyped
  <2>5. says' \in [Conns -> Says] /\ late' \subseteq Conns
    BY Zenon, <1>1, <1>2 DEF ConnsInv, ConnsTyped
  <2>6. stage' \in [Conns -> Stages]
    BY Zenon, <1>2 DEF ConnsInv, ConnsTyped, Stages
  <2>7. \A c \in Conns : c > n => stage'[c] = "none"
    BY <1>2 DEF ConnsInv, ConnsTyped, Conns
  <2>8. QED
    BY Zenon, <1>2, <2>1, <2>2, <2>3, <2>4, <2>5, <2>6, <2>7 DEF ConnsTyped
<1>7. AddressReused'
  <2> SUFFICES ASSUME NEW c \in 1..n, NEW d \in 1..c - 1, addr'[d] = addr'[c]
               PROVE  stage'[d] \in {"closed", "done", "left"} /\ (stage'[d] = "closed" => c \in late')
    BY Zenon, <1>2 DEF AddressReused
  <2>1. d \in 1..opened
    BY <1>2
  <2>2. CASE c \in 1..opened
    BY Zenon, <1>1, <1>3, <2>1, <2>2 DEF ConnsInv, AddressReused
  <2>3. CASE c = n
    BY SMTT(30), <1>1, <1>3, <1>4, <2>1, <2>3
  <2>4. QED
    BY Zenon, <1>5, <2>2, <2>3
<1>8. InfosOwned'
  <2> SUFFICES ASSUME NEW b \in Addrs, infos[b] # 0
               PROVE  /\ infos[b] \in 1..n /\ addr'[infos[b]] = b /\ Names(infos[b])'
                      /\ stage'[infos[b]] \in {"serve", "failed", "closed", "hijacked", "left"}
    BY Zenon, <1>2 DEF InfosOwned, Names
  <2>1. /\ infos[b] \in 1..opened /\ addr[infos[b]] = b /\ Names(infos[b])
        /\ stage[infos[b]] \in {"serve", "failed", "closed", "hijacked", "left"}
    BY Zenon DEF ConnsInv, InfosOwned
  <2>2. Names(infos[b])'
    BY Zenon, <1>2, <1>3, <2>1 DEF Names
  <2>3. QED
    BY Zenon, <1>3, <1>5, <2>1, <2>2
<1>9. ServedNamed'
  <2> SUFFICES ASSUME NEW c \in Conns, stage'[c] = "serve", c \notin late', Names(c)'
               PROVE  infos[addr'[c]] = c
    BY Zenon, <1>2 DEF ServedNamed
  <2>1. c # n /\ stage[c] = "serve"
    BY Zenon, <1>2, <1>4 DEF ConnsInv, ConnsTyped
  <2>2. c \in 1..opened
    BY Zenon, <2>1, LastFromAddress
  <2>3. QED
    BY Zenon, <1>1, <1>3, <2>1, <2>2 DEF ConnsInv, ServedNamed, Names
<1>10. QED
  BY Zenon, <1>6, <1>7, <1>8, <1>9 DEF ConnsInv

\* What the first read finds is put into the table of its own address.
LEMMA CheckPrefixKeeps == ASSUME ConnsInv, NEW c \in Conns, checkPrefix(c) PROVE ConnsInv'
<1>1. c \in 1..opened /\ addr[c] \in Addrs /\ \A d \in 1..opened : c < d => addr[d] # addr[c]
  BY Zenon, LastFromAddress DEF checkPrefix, ConnsInv, ConnsTyped
<1>2. CASE ~Names(c) /\ To(c, "failed")
  BY Zenon, <1>1, <1>2, StageMoves DEF checkPrefix, ConnsInv, ConnsTyped, Stages
<1>3. CASE Names(c) \/ To(c, "serve")
  <2>1. PICK s \in {"serve", "failed"} : stage' = [stage EXCEPT ![c] = s]
    BY Zenon DEF checkPrefix, To
  <2>2. UNCHANGED <<listener, opened, addr, says, late>> /\ stage[c] \in {"peek", "read"}
    BY Zenon DEF checkPrefix
  <2>3. infos' = IF Names(c) THEN [infos EXCEPT ![addr[c]] = c] ELSE infos
    BY Zenon DEF checkPrefix
  <2>4. ConnsTyped'
    <3>1. infos' \in [Addrs -> 0..MaxConns]
      BY <1>1, <2>3 DEF ConnsInv, ConnsTyped, Conns
    <3>2. stage' \in [Conns -> Stages] /\ \A d \in Conns : d > opened => stage'[d] = "none"
      BY <1>1, <2>1 DEF ConnsInv, ConnsTyped, Stages
    <3>3. QED
      BY Zenon, <2>2, <3>1, <3>2 DEF ConnsInv, ConnsTyped
  <2>5. AddressReused'
    <3> SUFFICES ASSUME NEW e \in 1..opened, NEW d \in 1..e - 1, addr[d] = addr[e]
                 PROVE  stage'[d] \in {"closed", "done", "left"} /\ (stage'[d] = "closed" => e \in late)
      BY Zenon, <2>2 DEF AddressReused
    <3>1. d # c
      BY <1>1 DEF ConnsInv, ConnsTyped
    <3>2. d \in Conns
      BY SMTT(30), OpenedConns DEF ConnsInv, ConnsTyped
    <3>3. QED
      BY Zenon, <2>1, <3>1, <3>2 DEF ConnsInv, ConnsTyped, AddressReused
  <2>6. InfosOwned'
    <3> SUFFICES ASSUME NEW a \in Addrs, infos'[a] # 0
                 PROVE  /\ infos'[a] \in 1..opened /\ addr[infos'[a]] = a /\ Names(infos'[a])
                        /\ stage'[infos'[a]] \in {"serve", "failed", "closed", "hijacked", "left"}
      BY Zenon, <2>2 DEF InfosOwned, Names
    <3>1. CASE Names(c) /\ a = addr[c]
      <4>1. infos'[a] = c
        BY Zenon, <2>3, <3>1 DEF ConnsInv, ConnsTyped
      <4>2. stage'[c] \in {"serve", "failed"}
        BY Zenon, <2>1 DEF ConnsInv, ConnsTyped
      <4>3. QED
        BY Zenon, <1>1, <3>1, <4>1, <4>2
    <3>2. CASE ~(Names(c) /\ a = addr[c])
      <4>1. infos'[a] = infos[a]
        BY Zenon, <2>3, <3>2 DEF ConnsInv, ConnsTyped
      <4>2. infos[a] \in Conns
        BY <4>1 DEF ConnsInv, ConnsTyped, InfosOwned, Conns
      <4>3. QED
        BY <2>1, <2>2, <4>1, <4>2 DEF ConnsInv, ConnsTyped, InfosOwned
    <3>3. QED
      BY Zenon, <3>1, <3>2
  <2>7. ServedNamed'
    <3> SUFFICES ASSUME NEW d \in Conns, stage'[d] = "serve", d \notin late, Names(d)
                 PROVE  infos'[addr[d]] = d
      BY Zenon, <2>2 DEF ServedNamed, Names
    <3>1. CASE d = c
      BY Zenon, <1>1, <2>3, <3>1 DEF ConnsInv, ConnsTyped
    <3>2. CASE d # c
      <4>1. stage[d] = "serve"
        BY Zenon, <2>1, <3>2 DEF ConnsInv, ConnsTyped
      <4>2. d \in 1..opened /\ addr[d] \in Addrs /\ addr[d] # addr[c]
        BY <1>1, <2>2, <3>2, <4>1, LastFromAddress DEF ConnsInv, ConnsTyped
      <4>3. infos'[addr[d]] = infos[addr[d]]
        BY Zenon, <2>3, <4>2 DEF ConnsInv, ConnsTyped
      <4>4. QED
        BY Zenon, <4>1, <4>3 DEF ConnsInv, ServedNamed
    <3>3. QED
      BY Zenon, <3>1, <3>2
  <2>8. QED
    BY Zenon, <2>4, <2>5, <2>6, <2>7 DEF ConnsInv
<1>4. QED
  BY Zenon, <1>2, <1>3 DEF checkPrefix

\* A report removes the entry of its address, which is of no connection that is
\* served unless that one is late.
LEMMA StateCleanupKeeps == ASSUME ConnsInv, NEW c \in Conns, StateCleanup(c) PROVE ConnsInv'
<1>1. /\ stage[c] = "closed" /\ stage' = [stage EXCEPT ![c] = "done"]
      /\ infos' = [infos EXCEPT ![addr[c]] = 0] /\ UNCHANGED <<listener, opened, addr, says, late>>
  BY Zenon DEF StateCleanup, To
<1>2. c \in 1..opened /\ addr[c] \in Addrs
  BY SMTT(30), <1>1, ConnectionsAssumption DEF ConnsInv, ConnsTyped, Conns
<1>3. ConnsTyped'
  <2>1. infos' \in [Addrs -> 0..MaxConns]
    <3>1. 0 \in 0..MaxConns /\ infos \in [Addrs -> 0..MaxConns]
      BY ConnectionsAssumption DEF ConnsInv, ConnsTyped
    <3>2. QED
      BY ZenonT(30), <1>1, <3>1
  <2>2. stage' \in [Conns -> Stages] /\ \A d \in Conns : d > opened => stage'[d] = "none"
    BY Zenon, <1>1, <1>2 DEF ConnsInv, ConnsTyped, Stages
  <2>3. QED
    BY Zenon, <1>1, <2>1, <2>2 DEF ConnsInv, ConnsTyped
<1>4. AddressReused'
  <2> SUFFICES ASSUME NEW e \in 1..opened, NEW d \in 1..e - 1, addr[d] = addr[e]
               PROVE  stage'[d] \in {"closed", "done", "left"} /\ (stage'[d] = "closed" => e \in late)
    BY Zenon, <1>1 DEF AddressReused
  <2>1. d \in Conns
    BY OpenedConns DEF ConnsInv, ConnsTyped
  <2>2. QED
    BY Zenon, <1>1, <2>1 DEF ConnsInv, ConnsTyped, AddressReused
<1>5. InfosOwned'
  <2> SUFFICES ASSUME NEW a \in Addrs, infos'[a] # 0
               PROVE  /\ infos'[a] \in 1..opened /\ addr[infos'[a]] = a /\ Names(infos'[a])
                      /\ stage'[infos'[a]] \in {"serve", "failed", "closed", "hijacked", "left"}
    BY Zenon, <1>1 DEF InfosOwned, Names
  <2>1. a # addr[c] /\ infos'[a] = infos[a]
    BY Zenon, <1>1 DEF ConnsInv, ConnsTyped
  <2>2. infos[a] \in 1..opened /\ addr[infos[a]] = a
    BY Zenon, <2>1 DEF ConnsInv, InfosOwned
  <2>3. infos[a] # c /\ infos[a] \in Conns
    BY <2>1, <2>2 DEF ConnsInv, ConnsTyped, Conns
  <2>4. QED
    BY <1>1, <2>1, <2>3 DEF ConnsInv, ConnsTyped, InfosOwned
<1>6. ServedNamed'
  <2> SUFFICES ASSUME NEW d \in Conns, stage'[d] = "serve", d \notin late, Names(d)
               PROVE  infos'[addr[d]] = d
    BY Zenon, <1>1 DEF ServedNamed, Names
  <2>1. d # c /\ stage[d] = "serve"
    BY Zenon, <1>1 DEF ConnsInv, ConnsTyped
  <2>2. d \in 1..opened /\ addr[d] \in Addrs
    BY Zenon, <2>1, LastFromAddress DEF ConnsInv, ConnsTyped
  <2>3. ASSUME addr[d] = addr[c] PROVE FALSE
    <3>1. CASE d < c
      BY Zenon, <1>2, <2>1, <2>2, <2>3, <3>1, LastFromAddress
    <3>2. CASE c < d
      <4>1. c \in 1..d - 1
        BY <1>2, <2>2, <3>2
      <4>2. QED
        BY Zenon, <1>1, <2>2, <2>3, <4>1 DEF ConnsInv, AddressReused
    <3>3. QED
      BY <1>2, <2>1, <2>2, <3>1, <3>2
  <2>4. infos'[addr[d]] = infos[addr[d]]
    BY Zenon, <1>1, <2>2, <2>3 DEF ConnsInv, ConnsTyped
  <2>5. QED
    BY Zenon, <2>1, <2>4 DEF ConnsInv, ServedNamed
<1>7. QED
  BY Zenon, <1>3, <1>4, <1>5, <1>6 DEF ConnsInv

\* Every step preserves the invariant.
LEMMA ConnsStep == ConnsInv /\ [ConnectionsNext]_connVars => ConnsInv'
<1> SUFFICES ASSUME ConnsInv, [ConnectionsNext]_connVars PROVE ConnsInv'
  BY Zenon
<1>1. CASE Listen \/ UNCHANGED connVars
  <2>1. UNCHANGED <<opened, addr, says, stage, infos, late>> /\ listener' \in {"none", "plain", "split"}
    BY Zenon, <1>1 DEF Listen, connVars, ConnsInv, ConnsTyped
  <2>2. QED
    BY Zenon, <2>1 DEF ConnsInv, ConnsTyped, AddressReused, InfosOwned, ServedNamed, Names
<1>2. CASE Open
  BY Zenon, <1>2, OpenKeeps
<1>3. ASSUME NEW c \in Conns, Accept(c) \/ ServerCloses(c) \/ Hijack(c) \/ WebsocketEnds(c)
      PROVE  ConnsInv'
  <2>1. PICK s \in Stages :
          /\ To(c, s) /\ UNCHANGED <<opened, addr, says, infos, late>> /\ UNCHANGED listener
          /\ \/ stage[c] = "queued" /\ s \in {"peek", "read"}
             \/ stage[c] \in {"serve", "failed", "hijacked"} /\ s \in {"closed", "hijacked", "left"}
    BY Zenon, <1>3 DEF Accept, ServerCloses, Hijack, WebsocketEnds, Stages
  <2>2. c \in 1..opened /\ \A d \in 1..opened : c < d => addr[d] # addr[c]
    BY Zenon, <2>1, LastFromAddress
  <2>3. listener' \in {"none", "plain", "split"}
    BY Zenon, <2>1 DEF ConnsInv, ConnsTyped
  <2>4. QED
    BY Zenon, <2>1, <2>2, <2>3, StageMoves
<1>4. ASSUME NEW c \in Conns, checkPrefix(c) PROVE ConnsInv'
  BY Zenon, <1>4, CheckPrefixKeeps
<1>5. ASSUME NEW c \in Conns, StateCleanup(c) PROVE ConnsInv'
  BY Zenon, <1>5, StateCleanupKeeps
<1>6. QED
  BY Zenon, <1>1, <1>2, <1>3, <1>4, <1>5 DEF ConnectionsNext

\* The forwarded headers of a request are taken from the connection it came on,
\* for any addresses, whichever are trusted, and any number of connections: with
\* the two exceptions that ForwardedIsOwn states and no other.
THEOREM ForwardedHeadersAreOwn == ConnectionsSpec => []ForwardedIsOwn
<1>1. ConnectionsInit => ConnsInv
  <2> SUFFICES ASSUME ConnectionsInit PROVE ConnsInv
    BY Zenon
  <2>1. ConnsTyped
    BY ConnectionsAssumption DEF ConnectionsInit, ConnsTyped, Says, Stages
  <2>2. AddressReused
    BY DEF ConnectionsInit, AddressReused
  <2>3. InfosOwned
    BY Zenon DEF ConnectionsInit, InfosOwned
  <2>4. ServedNamed
    BY Zenon DEF ConnectionsInit, ServedNamed
  <2>5. QED
    BY Zenon, <2>1, <2>2, <2>3, <2>4 DEF ConnsInv
<1>2. QED
  BY <1>1, ConnsStep, OwnFromInv, PTL DEF ConnectionsSpec

-----------------------------------------------------------------------------
(* HTTPHandler *)

\* Whoever goes on to send the EOF mark has set closed, and nobody else does.
InvEOF ==
  /\ eofs \in Nat
  /\ closed \in BOOLEAN
  /\ ~closed => eofs = 0 /\ pc # "sendEOF" /\ copier # "sendEOF"
  /\ pc = "sendEOF" => eofs = 0 /\ copier # "sendEOF"
  /\ copier = "sendEOF" => eofs = 0
  /\ eofs <= 1

\* The content that is on its way: in start's hand, or in the handler's.
InHand == IF start = "handing" /\ chunk = "content" THEN 1 ELSE 0

InWrite == IF pc = "writing" THEN 1 ELSE 0

\* Until serveHTTP turns to its deferred calls, no content is lost.
InvContent ==
  /\ got \in Nat /\ put \in Nat
  /\ pc \in {"auth", "initialize", "connect", "abandon", "request", "reading", "writing"}
       => got = put + InHand + InWrite

\* Content is lost only after the stream was closed, and never after the agent's
\* Close has been received.
InvSent ==
  /\ sent \in Nat
  /\ chan \in {"none", "open"} => sent = got
  /\ consuming => sent = got /\ command # "running"
  /\ start = "off" => ~consuming

\* The stream outlives start, which outlives the handler's use of b.data.
InvStream ==
  /\ pc \in {"auth", "initialize"} => chan = "none"
  /\ pc \in {"auth", "initialize", "connect", "abandon"} <=> start = "off" /\ pc # "returned"
  /\ pc \in {"closeWriter", "sendEOF"} => data = "closed"
  /\ pc = "returned" => data = "closed" \/ (start = "off" /\ (chan = "open" => link = "down"))
  /\ data = "closed" => start = "done"
  /\ start = "done" => chan = "closed"
  /\ chan \in {"none", "open", "closed"} /\ link \in {"up", "down"}

HTTPInv == InvEOF /\ InvContent /\ InvSent /\ InvStream

\* Every step of the handler's goroutines, the agent and the link keeps it.
LEMMA HTTPStep == HTTPInv /\ [HTTPNext]_httpVars => HTTPInv'
<1> SUFFICES ASSUME HTTPInv, [HTTPNext]_httpVars PROVE HTTPInv'
  BY Zenon
<1> USE DEF HTTPInv, InvEOF, InvContent, InvSent, InvStream, InHand, InWrite, startVars, sendVars, backVars,
         contentVars
<1>1. CASE Auth
  BY Zenon, <1>1 DEF Auth
<1>2. CASE InitializeClient
  BY Zenon, <1>2 DEF InitializeClient
<1>3. CASE ConnectPipe
  BY Zenon, <1>3 DEF ConnectPipe
<1>4. CASE Abandon
  BY Zenon, <1>4 DEF Abandon, CloseConnection
<1>5. CASE WriteRequest
  BY Zenon, <1>5 DEF WriteRequest
<1>6. CASE Read
  BY SMTT(30), <1>6 DEF Read
<1>7. CASE ReadEOF
  BY Zenon, <1>7 DEF ReadEOF
<1>8. CASE Write
  BY SMTT(30), <1>8 DEF Write
<1>9. CASE CloseReader
  BY Zenon, <1>9 DEF CloseReader
<1>10. CASE Drain
  BY Zenon, <1>10 DEF Drain
<1>11. CASE CloseWriter
  BY Zenon, <1>11 DEF CloseWriter
<1>12. CASE SendEOF
  BY SMTT(30), <1>12 DEF SendEOF
<1>13. CASE StartReleases
  BY Zenon, <1>13 DEF StartReleases, CloseConnection
<1>14. CASE StartEnds
  BY Zenon, <1>14 DEF StartEnds
<1>15. CASE ReceiveBody
  BY SMTT(30), <1>15 DEF ReceiveBody
<1>16. CASE ReceiveClose
  BY Zenon, <1>16 DEF ReceiveClose
<1>17. CASE CopierReads
  BY Zenon, <1>17 DEF CopierReads
<1>18. CASE CopierFails
  BY Zenon, <1>18 DEF CopierFails
<1>19. CASE CopierSends
  BY Zenon, <1>19 DEF CopierSends
<1>20. CASE CopierCloses
  BY Zenon, <1>20 DEF CopierCloses
<1>21. CASE CopierSendsEOF
  BY SMTT(30), <1>21 DEF CopierSendsEOF
<1>22. CASE CloserCloses
  BY Zenon, <1>22 DEF CloserCloses, CloseConnection
<1>23. CASE BrowserLeaves
  BY Zenon, <1>23 DEF BrowserLeaves
<1>24. CASE LinkDrops
  BY Zenon, <1>24 DEF LinkDrops
<1>25. CASE LinkSwept
  BY SMTT(30), <1>25 DEF LinkSwept, ContentLost
<1>26. CASE StreamCut
  BY SMTT(30), <1>26 DEF StreamCut, ContentLost
<1>27. CASE OrphanClosed
  BY SMTT(30), <1>27 DEF OrphanClosed, ContentLost
<1>28. CASE UNCHANGED httpVars
  BY Zenon, <1>28 DEF httpVars
<1> HIDE DEF HTTPInv
<1> QED
  BY Zenon, <1>1, <1>2, <1>3, <1>4, <1>5, <1>6, <1>7, <1>8, <1>9, <1>10, <1>11, <1>12, <1>13, <1>14,
     <1>15, <1>16, <1>17, <1>18, <1>19, <1>20, <1>21, <1>22, <1>23, <1>24, <1>25, <1>26, <1>27,
     <1>28
     DEF HTTPNext, HandlerStep, StartStep, CopierStep

\* It holds of every request.
LEMMA HTTPInvariant == HTTPSpec => []HTTPInv
<1>1. HTTPInit => HTTPInv
  <2> SUFFICES ASSUME HTTPInit PROVE HTTPInv
    BY Zenon
  <2>1. InvEOF
    <3>1. closed \in BOOLEAN /\ pc # "sendEOF" /\ copier # "sendEOF"
      BY Zenon DEF HTTPInit
    <3>2. eofs = 0
      BY Zenon DEF HTTPInit
    <3> QED
      BY <3>1, <3>2 DEF InvEOF
  <2>2. InvContent
    BY DEF HTTPInit, InvContent, InHand, InWrite
  <2>3. InvStream
    BY Zenon DEF HTTPInit, InvStream
  <2>4. InvSent
    BY DEF HTTPInit, InvSent
  <2> QED
    BY Zenon, <2>1, <2>2, <2>3, <2>4 DEF HTTPInv
<1> QED
  BY <1>1, HTTPStep, PTL DEF HTTPSpec

\* The copier and serveHTTP both close the writer, and the agent is told the end
\* of the request once.
THEOREM EOFSentOnce == HTTPSpec => []EOFOnce
<1>1. HTTPInv => EOFOnce
  BY Zenon DEF HTTPInv, InvEOF, EOFOnce
<1> QED
  BY <1>1, HTTPInvariant, PTL

\* When Read reports the end of the response because b.data is closed, all
\* content that start received has been written to the browser, however much
\* there was; after the agent's Close that is all the agent sent.
THEOREM NoContentLost == HTTPSpec => []ResponseComplete
<1>1. HTTPInv => ResponseComplete
  BY DEF HTTPInv, InvContent, InvSent, InvStream, InHand, InWrite, ResponseComplete
<1> QED
  BY <1>1, HTTPInvariant, PTL

\* serveHTTP returns only when its stream is gone from the multiplexer, or is on
\* a link that is about to end.
THEOREM StreamReleased == HTTPSpec => []NothingLeftRegistered
<1>1. HTTPInv => NothingLeftRegistered
  BY Zenon DEF HTTPInv, InvStream, NothingLeftRegistered
<1> QED
  BY <1>1, HTTPInvariant, PTL
=============================================================================
