---------------------- MODULE PersistentSessionProofs ----------------------
(***************************************************************************)
(* Control and revocation of a persistent session, for any number of       *)
(* browsers, tabs, requests, outputs, queue and replay size.               *)
(***************************************************************************)
EXTENDS PersistentSession, TLAPS

Typed ==
  /\ at \in [Procs -> CallPositions]
  /\ mode \in [Procs -> {"plain", "full"}]
  /\ controller \in Tabs \cup {NoTab}
  /\ clients \in [Tabs -> Conns \cup {NoConn}]
  /\ tab \in [Conns -> Tabs]
  /\ grant \in {"none", "live", "revoked"}

\* Who revokes also closes the clients.
RevokersAreFull == \A p \in Procs : at[p] = "revoke" => mode[p] = "full"

Sweeping(p) == mode[p] = "full" /\ at[p] \in {"terminate", "close", "ended", "sweep"}

Nobody == \A t \in Tabs : clients[t] = NoConn

\* A revoked session has no clients, or somebody is on the way to closeClients.
RevokedIsSwept == grant = "revoked" => Nobody \/ \E p \in Procs : Sweeping(p)

\* Until bindDelegation the watch has not begun.
WatchIsOff == create \in {"new", "bind"} => at[Watcher] = "idle"

RevokedIsEmpty == grant = "revoked" => replay = <<>> /\ replayBytes = 0

SweepInv == RevokersAreFull /\ RevokedIsSwept /\ WatchIsOff

SessionInv == Typed /\ ControllerIsAttached /\ SweepInv /\ RevokedIsEmpty

\* A new session has no clients and is not revoked.
LEMMA SessionInitial == Init => SessionInv
<1> SUFFICES ASSUME Init PROVE SessionInv
  BY Zenon
<1>1. Typed
  BY Zenon, ConstantsAssumption DEF Init, Typed, CallPositions
<1>2. ControllerIsAttached
  BY Zenon DEF Init, ControllerIsAttached
<1>3. RevokersAreFull /\ WatchIsOff
  BY Zenon DEF Init, RevokersAreFull, WatchIsOff, Procs
<1>4. grant # "revoked"
  BY Zenon, ConstantsAssumption DEF Init
<1>5. QED
  BY Zenon, <1>1, <1>2, <1>3, <1>4 DEF SessionInv, SweepInv, RevokedIsSwept, RevokedIsEmpty

-----------------------------------------------------------------------------
(* Frames *)

\* What the replay's part of the invariant depends on.
LEMMA EmptyStays ==
  ASSUME RevokedIsEmpty, UNCHANGED <<grant, replay, replayBytes>>
  PROVE  RevokedIsEmpty'
BY Zenon DEF RevokedIsEmpty

\* A step that moves no goroutine and leaves clients and grant alone.
LEMMA StillStays ==
  ASSUME SweepInv, UNCHANGED <<at, mode, grant, clients>>, create' \in {"new", "bind"} => create' = create \/ create = "new"
  PROVE  SweepInv'
BY Zenon DEF SweepInv, RevokersAreFull, RevokedIsSwept, WatchIsOff, Nobody, Sweeping

\* Control stays when clients do and the session is over only with nobody in control.
LEMMA ControlStays ==
  ASSUME ControllerIsAttached, UNCHANGED <<kind, clients>>,
         \/ controller' = NoTab
         \/ controller' = controller /\ status' = status
         \/ controller' = controller /\ status' # "ended"
  PROVE  ControllerIsAttached'
BY Zenon DEF ControllerIsAttached, over

\* A goroutine that is not sweeping goes elsewhere, but not to revoke.
LEMMA MoveStays ==
  ASSUME Typed, SweepInv, NEW p \in Procs, NEW to, Go(p, to), to # "revoke",
         Sweeping(p) => mode'[p] = "full" /\ to \in {"terminate", "close", "ended", "sweep"},
         \A q \in Procs \ {p} : mode'[q] = mode[q],
         p = Watcher => at[p] # "idle", UNCHANGED <<grant, create>>, Nobody => Nobody'
  PROVE  SweepInv'
<1>1. at'[p] = to /\ \A q \in Procs \ {p} : at'[q] = at[q]
  BY Zenon DEF Typed, Go
<1>2. RevokersAreFull'
  BY Zenon, <1>1 DEF SweepInv, RevokersAreFull
<1>2a. WatchIsOff'
  BY Zenon, <1>1 DEF SweepInv, WatchIsOff, Procs
<1>3. \A q \in Procs : Sweeping(q) => Sweeping(q)'
  BY Zenon, <1>1 DEF Sweeping
<1>4. QED
  BY Zenon, <1>2, <1>2a, <1>3 DEF SweepInv, RevokedIsSwept

\* A goroutine that moves on keeps the types of positions and modes.
LEMMA MoveTyped ==
  ASSUME Typed, NEW p \in Procs, NEW to \in CallPositions, Go(p, to),
         UNCHANGED <<controller, clients, tab, grant>>, mode' \in [Procs -> {"plain", "full"}]
  PROVE  Typed'
BY ZenonT(30) DEF Typed, Go

-----------------------------------------------------------------------------
(* Steps that move no goroutine *)

\* Steps that leave clients, control, ticket and replay alone.
LEMMA OutsideKeeps ==
  ASSUME SessionInv,
         \/ InitializeClient \/ BindStop \/ ConnectMember \/ ConnectQueued \/ ForgetFailed
         \/ PumpStops \/ PumpReleases \/ LinkDrops \/ LinkSwept \/ OrphanClosed
  PROVE  SessionInv'
<1>1. /\ UNCHANGED <<kind, status, controller, tab>> /\ UNCHANGED <<at, mode, grant, clients>>
      /\ UNCHANGED <<grant, replay, replayBytes>>
  BY Zenon DEF InitializeClient, BindStop, ConnectMember, ConnectQueued, ForgetFailed, PumpStops,
     PumpReleases, LinkDrops, LinkSwept, OrphanClosed, replayVars, grantVars, connVars
<1>2. create' \in {"new", "bind"} => create' = create \/ create = "new"
  BY Zenon DEF InitializeClient, BindStop, ConnectMember, ConnectQueued, ForgetFailed, PumpStops,
     PumpReleases, LinkDrops, LinkSwept, OrphanClosed, lifeVars
<1>3. Typed' /\ ControllerIsAttached'
  BY Zenon, <1>1 DEF SessionInv, Typed, ControllerIsAttached, over
<1>4. QED
  BY Zenon, <1>1, <1>2, <1>3, StillStays, EmptyStays DEF SessionInv

\* Frames on their way are no concern of the invariant.
LEMMA WireKeeps ==
  ASSUME SessionInv, NEW c \in Conns, AnswerFrame(c) \/ WriterSends(c) \/ WriterFails(c)
  PROVE  SessionInv'
<1>1. /\ UNCHANGED <<kind, status, controller, tab, create>> /\ UNCHANGED <<at, mode, grant, clients>>
      /\ UNCHANGED <<grant, replay, replayBytes>>
  BY ZenonT(30) DEF AnswerFrame, WriterSends, WriterFails, replayVars, grantVars, connVars, lifeVars
<1>2. Typed' /\ ControllerIsAttached'
  BY Zenon, <1>1 DEF SessionInv, Typed, ControllerIsAttached, over
<1>3. QED
  BY Zenon, <1>1, <1>2, StillStays, EmptyStays DEF SessionInv

\* The unlocked write of "connected" leaves nobody in control of an ended session.
LEMMA StartPumpKeeps == ASSUME SessionInv, StartPump PROVE SessionInv'
<1>1. /\ UNCHANGED <<kind, controller, tab>> /\ UNCHANGED <<at, mode, grant, clients>>
      /\ UNCHANGED <<grant, replay, replayBytes>> /\ status' = "connected" /\ create' = "done"
  BY Zenon DEF StartPump, replayVars, grantVars, connVars
<1>2. Typed' /\ ControllerIsAttached'
  BY Zenon, <1>1 DEF SessionInv, Typed, ControllerIsAttached, over
<1>3. QED
  BY Zenon, <1>1, <1>2, StillStays, EmptyStays DEF SessionInv

\* Output is appended only while the session is not revoked.
LEMMA AppendKeeps == ASSUME SessionInv, NEW size, appendOutput(size) PROVE SessionInv'
<1>1. /\ UNCHANGED <<kind, controller, tab, create>> /\ UNCHANGED <<at, mode, grant, clients>>
      /\ status' = "connected" /\ grant # "revoked"
  BY Zenon DEF appendOutput, lifeVars, grantVars, connVars
<1>2. Typed' /\ ControllerIsAttached' /\ RevokedIsEmpty'
  BY Zenon, <1>1 DEF SessionInv, Typed, ControllerIsAttached, over, RevokedIsEmpty
<1>3. QED
  BY Zenon, <1>1, <1>2, StillStays DEF SessionInv

\* markEnded takes control away.
LEMMA MarkEndedControl ==
  ASSUME ControllerIsAttached, controller \in Tabs \cup {NoTab}, markEnded, UNCHANGED <<kind, clients>>
  PROVE  ControllerIsAttached' /\ controller' \in Tabs \cup {NoTab}
BY Zenon DEF markEnded, ControllerIsAttached, over

\* The end of the pump takes control away.
LEMMA PumpMarksKeeps == ASSUME SessionInv, PumpMarksEnded PROVE SessionInv'
<1>1. /\ UNCHANGED <<kind, clients>> /\ UNCHANGED <<tab, create>> /\ UNCHANGED <<at, mode, grant, clients>>
      /\ UNCHANGED <<grant, replay, replayBytes>> /\ markEnded
  BY Zenon DEF PumpMarksEnded, replayVars, grantVars, connVars
<1>2. ControllerIsAttached' /\ controller' \in Tabs \cup {NoTab}
  BY Zenon, <1>1, MarkEndedControl DEF SessionInv, Typed
<1>3. Typed'
  BY Zenon, <1>1, <1>2 DEF SessionInv, Typed
<1>4. QED
  BY Zenon, <1>1, <1>2, <1>3, StillStays, EmptyStays DEF SessionInv

-----------------------------------------------------------------------------
(* Goroutines on their way *)

\* bindDelegation starts the watch.
LEMMA StartWatchKeeps == ASSUME SessionInv, StartWatch PROVE SessionInv'
<1>1. /\ UNCHANGED <<kind, status, controller, clients, tab, mode, grant, replay, replayBytes>>
      /\ create = "bind" /\ create' = "bound" /\ at' = [at EXCEPT ![Watcher] = "waiting"]
  BY Zenon DEF StartWatch, Go, replayVars, grantVars, connVars
<1>2. Typed' /\ ControllerIsAttached' /\ RevokedIsEmpty'
  BY ZenonT(30), <1>1 DEF SessionInv, Typed, ControllerIsAttached, over, RevokedIsEmpty, CallPositions
<1>3. at[Watcher] = "idle"
  BY Zenon, <1>1 DEF SessionInv, SweepInv, WatchIsOff
<1>4. \A p \in Procs : at'[p] = at[p] \/ (p = Watcher /\ at'[p] = "waiting")
  BY Zenon, <1>1 DEF SessionInv, Typed
<1>5. SweepInv'
  BY Zenon, <1>1, <1>3, <1>4 DEF SessionInv, SweepInv, RevokersAreFull, RevokedIsSwept, WatchIsOff,
     Sweeping, Nobody
<1>6. QED
  BY Zenon, <1>2, <1>5 DEF SessionInv

\* A goroutine that is not on its way to closeClients goes on.
LEMMA PlainMoveKeeps ==
  ASSUME SessionInv, NEW p \in Procs, NEW to \in CallPositions \ {"revoke"}, Go(p, to),
         at[p] \notin {"terminate", "close", "ended", "sweep"}, p = Watcher => at[p] # "idle",
         UNCHANGED <<kind, status, create, mode, controller, clients, tab, grant, replay, replayBytes>>
  PROVE  SessionInv'
<1>1. Typed'
  BY Zenon, MoveTyped DEF SessionInv, Typed
<1>2. ControllerIsAttached' /\ RevokedIsEmpty'
  BY Zenon DEF SessionInv, ControllerIsAttached, over, RevokedIsEmpty
<1>3. ~Sweeping(p) /\ (Nobody => Nobody') /\ \A q \in Procs \ {p} : mode'[q] = mode[q]
  BY Zenon DEF Sweeping, Nobody
<1>4. SweepInv'
  BY Zenon, <1>3, MoveStays DEF SessionInv
<1>5. QED
  BY Zenon, <1>1, <1>2, <1>4 DEF SessionInv

\* A check is refused, or the ticket has expired.
LEMMA RefusedKeeps ==
  ASSUME SessionInv, NEW p \in Procs, Go(p, "revoke"), mode' = [mode EXCEPT ![p] = "full"],
         at[p] \in {"waiting", "checking"},
         UNCHANGED <<kind, status, create, controller, clients, tab, grant, replay, replayBytes>>
  PROVE  SessionInv'
<1>1. Typed'
  BY Zenon, MoveTyped DEF SessionInv, Typed, CallPositions
<1>2. ControllerIsAttached' /\ RevokedIsEmpty'
  BY Zenon DEF SessionInv, ControllerIsAttached, over, RevokedIsEmpty
<1>3. /\ at'[p] = "revoke" /\ mode'[p] = "full"
      /\ \A q \in Procs \ {p} : at'[q] = at[q] /\ mode'[q] = mode[q]
  BY Zenon DEF SessionInv, Typed, Go
<1>4. RevokersAreFull'
  BY Zenon, <1>3 DEF SessionInv, SweepInv, RevokersAreFull
<1>5. RevokedIsSwept'
  BY Zenon, <1>3 DEF SessionInv, SweepInv, RevokedIsSwept, Nobody, Sweeping
<1>6. WatchIsOff'
  BY Zenon, <1>3 DEF SessionInv, SweepInv, WatchIsOff, Procs
<1>7. QED
  BY Zenon, <1>1, <1>2, <1>4, <1>5, <1>6 DEF SessionInv, SweepInv

\* The watch can only lead to a revocation.
LEMMA WatchKeeps ==
  ASSUME SessionInv, WatchTick \/ WatchCancelled \/ WatchExpires \/ WatchChecked
  PROVE  SessionInv'
<1>1. UNCHANGED <<kind, status, create, controller, clients, tab, grant, replay, replayBytes>>
  BY Zenon DEF WatchTick, WatchCancelled, WatchExpires, WatchChecked, lifeVars, grantVars,
     replayVars, connVars
<1>2. at[Watcher] \in {"waiting", "checking"} /\ Watcher \in Procs
  BY Zenon DEF WatchTick, WatchCancelled, WatchExpires, WatchChecked, Procs
<1>3. \/ UNCHANGED mode /\ \E to \in {"checking", "gone", "waiting"} : Go(Watcher, to)
      \/ Go(Watcher, "revoke") /\ mode' = [mode EXCEPT ![Watcher] = "full"]
  BY Zenon DEF WatchTick, WatchCancelled, WatchExpires, WatchChecked
<1>4. CASE Go(Watcher, "revoke") /\ mode' = [mode EXCEPT ![Watcher] = "full"]
  BY ZenonT(30), <1>1, <1>2, <1>4, RefusedKeeps
<1>5. ASSUME UNCHANGED mode, NEW to \in {"checking", "gone", "waiting"}, Go(Watcher, to)
      PROVE  SessionInv'
  <2>1. to \in CallPositions \ {"revoke"}
    BY Zenon DEF CallPositions
  <2>2. UNCHANGED <<kind, status, create, mode, controller, clients, tab, grant, replay, replayBytes>>
    BY Zenon, <1>1, <1>5
  <2>3. QED
    BY Zenon, <1>2, <1>5, <2>1, <2>2, PlainMoveKeeps
<1>6. QED
  BY Zenon, <1>3, <1>4, <1>5

\* Requests, up to a check that fails.
LEMMA RequestKeeps ==
  ASSUME SessionInv, NEW p \in Procs, Lookup(p) \/ Match(p) \/ Checked(p)
  PROVE  SessionInv'
<1>1. UNCHANGED <<kind, status, create, controller, clients, tab, grant, replay, replayBytes>>
  BY ZenonT(30) DEF Lookup, Match, Checked, lifeVars, grantVars, replayVars, connVars
<1>2. at[p] \in {"idle", "match", "checking"} /\ (p = Watcher => at[p] # "idle")
  BY ZenonT(30), ConstantsAssumption DEF Lookup, Match, Checked
<1>3. \/ UNCHANGED mode /\ \E to \in {"match", "gone", "idle", "checking", "add", "terminate"} : Go(p, to)
      \/ at[p] = "checking" /\ Go(p, "revoke") /\ mode' = [mode EXCEPT ![p] = "full"]
  <2>1. CASE Lookup(p) \/ Checked(p)
    BY Zenon, <2>1 DEF Lookup, Checked, Accepted
  <2>2. CASE Match(p)
    BY ZenonT(30), <2>2 DEF Match, Accepted, SessionInv, Typed
  <2>3. QED
    BY Zenon, <2>1, <2>2
<1>4. CASE at[p] = "checking" /\ Go(p, "revoke") /\ mode' = [mode EXCEPT ![p] = "full"]
  BY ZenonT(30), <1>1, <1>4, RefusedKeeps
<1>5. ASSUME UNCHANGED mode, NEW to \in {"match", "gone", "idle", "checking", "add", "terminate"}, Go(p, to)
      PROVE  SessionInv'
  <2>1. to \in CallPositions \ {"revoke"}
    BY Zenon DEF CallPositions
  <2>2. UNCHANGED <<kind, status, create, mode, controller, clients, tab, grant, replay, replayBytes>>
    BY Zenon, <1>1, <1>5
  <2>3. at[p] \notin {"terminate", "close", "ended", "sweep"}
    BY Zenon, <1>2
  <2>4. QED
    BY Zenon, <1>2, <1>5, <2>1, <2>2, <2>3, PlainMoveKeeps
<1>6. QED
  BY Zenon, <1>3, <1>4, <1>5

-----------------------------------------------------------------------------
(* revokeDelegation, terminate, closeClients and cleanup *)

\* Who revokes is on the way to closeClients.
LEMMA RevokeKeeps ==
  ASSUME SessionInv, NEW p \in Procs, Revoke(p)
  PROVE  SessionInv'
<1>1. /\ UNCHANGED <<kind, status, create, mode, controller, clients, tab>>
      /\ at[p] = "revoke" /\ at' = [at EXCEPT ![p] = "terminate"]
      /\ grant' = "revoked" /\ replay' = <<>> /\ replayBytes' = 0
  BY Zenon DEF Revoke, Go, connVars
<1>2. Typed' /\ ControllerIsAttached' /\ RevokedIsEmpty'
  BY Zenon, <1>1 DEF SessionInv, Typed, CallPositions, ControllerIsAttached, over, RevokedIsEmpty
<1>3. at'[p] = "terminate" /\ \A q \in Procs \ {p} : at'[q] = at[q]
  BY Zenon, <1>1 DEF SessionInv, Typed
<1>4. mode[p] = "full"
  BY Zenon, <1>1 DEF SessionInv, SweepInv, RevokersAreFull
<1>5. SweepInv'
  BY Zenon, <1>1, <1>3, <1>4 DEF SessionInv, SweepInv, RevokersAreFull, RevokedIsSwept, WatchIsOff,
     Sweeping, Procs
<1>6. QED
  BY Zenon, <1>2, <1>5 DEF SessionInv

\* Where terminate returns to.
LEMMA HomePlaces == ASSUME NEW p PROVE Home(p) \in {"gone", "reading", "idle"}
BY Zenon DEF Home

\* terminate goes on, or returns; with the clients still to be closed, to closeClients.
LEMMA TerminatingKeeps ==
  ASSUME SessionInv, NEW p \in Procs, at[p] \in {"terminate", "close", "ended"},
         AfterTerminate(p) \/ Go(p, "close") \/ Go(p, "ended"),
         UNCHANGED <<create, mode, tab>>, UNCHANGED <<kind, clients>>,
         UNCHANGED <<grant, replay, replayBytes>>,
         ControllerIsAttached', controller' \in Tabs \cup {NoTab}
  PROVE  SessionInv'
<1>1. PICK to : /\ Go(p, to) /\ to \in {"close", "ended", "sweep", "gone", "reading", "idle"}
                /\ mode[p] = "full" => to \in {"close", "ended", "sweep"}
  BY Zenon, HomePlaces DEF AfterTerminate
<1>2. Typed'
  BY Zenon, <1>1 DEF SessionInv, Typed, Go, CallPositions
<1>3. (Nobody => Nobody') /\ \A q \in Procs : mode'[q] = mode[q]
  BY Zenon DEF Nobody
<1>4. Sweeping(p) => mode'[p] = "full" /\ to \in {"terminate", "close", "ended", "sweep"}
  BY Zenon, <1>1, <1>3 DEF Sweeping
<1>5. SweepInv'
  BY Zenon, <1>1, <1>3, <1>4, MoveStays DEF SessionInv
<1>6. QED
  BY Zenon, <1>2, <1>5, EmptyStays DEF SessionInv

\* terminate keeps who terminates on that way.
LEMMA TerminateKeeps ==
  ASSUME SessionInv, NEW p \in Procs, Terminate(p) \/ CloseConnection(p)
  PROVE  SessionInv'
<1>1. /\ UNCHANGED <<create, mode, tab>> /\ UNCHANGED <<kind, clients>>
      /\ UNCHANGED <<grant, replay, replayBytes>> /\ UNCHANGED controller
      /\ at[p] \in {"terminate", "close", "ended"}
      /\ AfterTerminate(p) \/ Go(p, "close") \/ Go(p, "ended")
      /\ status' = status \/ status' # "ended"
  BY Zenon DEF Terminate, CloseConnection, grantVars, replayVars, connVars
<1>2. ControllerIsAttached' /\ controller' \in Tabs \cup {NoTab}
  BY Zenon, <1>1, ControlStays DEF SessionInv, Typed
<1>3. QED
  BY Zenon, <1>1, <1>2, TerminatingKeeps

\* So does markEnded after a Close that failed.
LEMMA EndFailedKeeps ==
  ASSUME SessionInv, NEW p \in Procs, EndFailed(p)
  PROVE  SessionInv'
<1>1. /\ UNCHANGED <<create, mode, tab>> /\ UNCHANGED <<kind, clients>>
      /\ UNCHANGED <<grant, replay, replayBytes>> /\ markEnded
      /\ at[p] \in {"terminate", "close", "ended"} /\ AfterTerminate(p)
  BY Zenon DEF EndFailed, grantVars, replayVars, connVars
<1>2. ControllerIsAttached' /\ controller' \in Tabs \cup {NoTab}
  BY Zenon, <1>1, MarkEndedControl DEF SessionInv, Typed
<1>3. QED
  BY Zenon, <1>1, <1>2, TerminatingKeeps

\* closeClients leaves no client.
LEMMA CloseClientsKeeps ==
  ASSUME SessionInv, NEW p \in Procs, closeClients(p)
  PROVE  SessionInv'
<1>1. /\ UNCHANGED <<kind, status, create, mode, tab>> /\ UNCHANGED <<grant, replay, replayBytes>>
      /\ at[p] = "sweep" /\ Go(p, Home(p)) /\ controller' = NoTab
      /\ clients' = [t \in Tabs |-> NoConn]
  BY Zenon DEF closeClients, lifeVars, grantVars, replayVars, connVars
<1>2. Typed' /\ ControllerIsAttached'
  BY Zenon, <1>1, HomePlaces DEF SessionInv, Typed, Go, CallPositions, ControllerIsAttached
<1>3. at'[p] \in {"gone", "reading", "idle"} /\ \A q \in Procs \ {p} : at'[q] = at[q]
  BY Zenon, <1>1, HomePlaces DEF SessionInv, Typed, Go
<1>4. Nobody'
  BY Zenon, <1>1 DEF Nobody
<1>5. SweepInv'
  BY Zenon, <1>1, <1>3, <1>4 DEF SessionInv, SweepInv, RevokersAreFull, RevokedIsSwept, WatchIsOff, Procs
<1>6. QED
  BY Zenon, <1>1, <1>2, <1>5, EmptyStays DEF SessionInv

\* cleanup closes the clients, too.
LEMMA CleanupKeeps == ASSUME SessionInv, Cleanup PROVE SessionInv'
<1>1. /\ UNCHANGED <<kind, status, create, controller, tab, clients>>
      /\ UNCHANGED <<grant, replay, replayBytes>> /\ at[Cleaner] = "idle"
      /\ mode' = [mode EXCEPT ![Cleaner] = "full"]
      /\ Go(Cleaner, "sweep") \/ Go(Cleaner, "terminate")
  BY Zenon DEF Cleanup, grantVars, replayVars, connVars
<1>2. Typed' /\ ControllerIsAttached'
  BY ZenonT(30), <1>1 DEF SessionInv, Typed, Go, CallPositions, ControllerIsAttached, over
<1>3. /\ Cleaner \in Procs /\ Cleaner # Watcher /\ ~Sweeping(Cleaner) /\ (Nobody => Nobody')
      /\ \A q \in Procs \ {Cleaner} : mode'[q] = mode[q]
  BY Zenon, <1>1, ConstantsAssumption DEF Procs, Sweeping, Nobody, SessionInv, Typed
<1>4. SweepInv'
  BY Zenon, <1>1, <1>3, MoveStays DEF SessionInv
<1>5. QED
  BY Zenon, <1>1, <1>2, <1>4, EmptyStays DEF SessionInv

-----------------------------------------------------------------------------
(* Browser connections *)

\* Input changes none of it.
LEMMA InputKeeps ==
  ASSUME SessionInv, NEW c \in Conns, writeInput(c) \/ SendInput(c)
  PROVE  SessionInv'
<1>1. UNCHANGED <<kind, status, create, mode, controller, clients, tab, grant, replay, replayBytes>>
  BY Zenon DEF writeInput, SendInput, lifeVars, grantVars, replayVars, connVars
<1>2. /\ at[c] \notin {"terminate", "close", "ended", "sweep"} /\ c \in Procs /\ c # Watcher
  BY Zenon, ConstantsAssumption DEF writeInput, SendInput, Procs
<1>3. PICK to \in {"sending", "reading", "terminate"} : Go(c, to)
  BY Zenon DEF writeInput, SendInput
<1>4. to \in CallPositions \ {"revoke"}
  BY Zenon DEF CallPositions
<1>5. QED
  BY Zenon, <1>1, <1>2, <1>3, <1>4, PlainMoveKeeps

\* Control is claimed by a tab whose browser is registered.
LEMMA ClaimKeeps == ASSUME SessionInv, NEW c \in Conns, claimControl(c) PROVE SessionInv'
<1>1. /\ UNCHANGED <<kind, status, tab, create>> /\ UNCHANGED <<at, mode, grant, clients>>
      /\ UNCHANGED <<grant, replay, replayBytes>>
      /\ kind = "terminal" /\ ~over /\ clients[tab[c]] = c /\ controller' = tab[c]
  BY Zenon DEF claimControl, Registered, lifeVars, grantVars, replayVars, connVars
<1>2. Typed'
  BY Zenon, <1>1 DEF SessionInv, Typed
<1>3. ControllerIsAttached'
  BY Zenon, <1>1, ConstantsAssumption DEF ControllerIsAttached, over
<1>4. QED
  BY Zenon, <1>1, <1>2, <1>3, StillStays, EmptyStays DEF SessionInv

\* A revoked session admits nobody, whatever was decided before.
LEMMA AddKeeps == ASSUME SessionInv, NEW c \in Conns, addClient(c) PROVE SessionInv'
<1>1. /\ UNCHANGED <<kind, status, tab, create, mode>> /\ UNCHANGED <<grant, replay, replayBytes>>
      /\ at[c] = "add" /\ Go(c, "reading")
      /\ \/ grant = "revoked" /\ UNCHANGED <<clients, controller>>
         \/ /\ grant # "revoked" /\ clients' = [clients EXCEPT ![tab[c]] = c]
            /\ controller' = IF kind = "terminal" /\ controller = NoTab /\ ~over THEN tab[c] ELSE controller
  BY Zenon DEF addClient, lifeVars, grantVars, replayVars
<1>2. tab[c] \in Tabs /\ c \in Procs /\ c # Watcher /\ c # NoConn
  BY Zenon, ConstantsAssumption DEF SessionInv, Typed, Procs
<1>3. Typed'
  BY Zenon, <1>1, <1>2 DEF SessionInv, Typed, Go, CallPositions
<1>4. ControllerIsAttached'
  BY <1>1, <1>2, ConstantsAssumption DEF SessionInv, Typed, ControllerIsAttached, over
<1>5. at'[c] = "reading" /\ \A q \in Procs \ {c} : at'[q] = at[q]
  BY Zenon, <1>1, <1>2 DEF SessionInv, Typed, Go
<1>6. SweepInv'
  <2>1. RevokersAreFull' /\ WatchIsOff'
    BY Zenon, <1>1, <1>2, <1>5 DEF SessionInv, SweepInv, RevokersAreFull, WatchIsOff, Procs
  <2>2. ASSUME grant = "revoked" PROVE (Nobody => Nobody') /\ \A q \in Procs : Sweeping(q) => Sweeping(q)'
    BY Zenon, <1>1, <1>5, <2>2 DEF Sweeping, Nobody
  <2>3. QED
    BY Zenon, <1>1, <2>1, <2>2 DEF SessionInv, SweepInv, RevokedIsSwept
<1>7. QED
  BY Zenon, <1>1, <1>3, <1>4, <1>6, EmptyStays DEF SessionInv

\* Control passes to a connection that is left.
LEMMA RemoveKeeps == ASSUME SessionInv, NEW c \in Conns, removeClient(c) PROVE SessionInv'
<1> DEFINE left == Registered \ {c}
<1>1. /\ UNCHANGED <<kind, status, tab, create, mode>> /\ UNCHANGED <<grant, replay, replayBytes>>
      /\ at[c] = "reading" /\ Go(c, "gone")
      /\ clients' = IF clients[tab[c]] = c THEN [clients EXCEPT ![tab[c]] = NoConn] ELSE clients
      /\ \/ controller # tab[c] /\ controller' = controller
         \/ /\ controller = tab[c]
            /\ controller' = NoTab \/ \E d \in left : controller' = tab[d]
  BY Zenon DEF removeClient, Registered, lifeVars, grantVars, replayVars, connVars
<1>2. tab[c] \in Tabs /\ c \in Procs /\ c # Watcher /\ NoTab \notin Tabs /\ NoConn \notin Conns
  BY Zenon, ConstantsAssumption DEF SessionInv, Typed, Procs
<1>3. /\ clients' \in [Tabs -> Conns \cup {NoConn}]
      /\ \A t \in Tabs : clients'[t] = IF t = tab[c] /\ clients[t] = c THEN NoConn ELSE clients[t]
  BY Zenon, <1>1, <1>2 DEF SessionInv, Typed
<1>4. \A d \in left : tab[d] \in Tabs /\ clients'[tab[d]] = d /\ d # NoConn
  BY Zenon, <1>2, <1>3 DEF Registered, SessionInv, Typed
<1>5. controller' \in Tabs \cup {NoTab}
  BY Zenon, <1>1, <1>4 DEF SessionInv, Typed
<1>6. Typed'
  BY ZenonT(30), <1>1, <1>3, <1>5 DEF SessionInv, Typed, Go, CallPositions
<1>7. ControllerIsAttached'
  <2>1. CASE controller # tab[c] /\ controller' = controller
    BY Zenon, <1>1, <1>3, <2>1 DEF SessionInv, Typed, ControllerIsAttached, over
  <2>2. CASE controller = tab[c] /\ (controller' = NoTab \/ \E d \in left : controller' = tab[d])
    BY <1>1, <1>2, <1>4, <2>2 DEF SessionInv, ControllerIsAttached, over
  <2>3. QED
    BY Zenon, <1>1, <2>1, <2>2
<1>9. (Nobody => Nobody') /\ ~Sweeping(c) /\ \A q \in Procs : mode'[q] = mode[q]
  BY Zenon, <1>1, <1>3 DEF Nobody, Sweeping
<1>10. SweepInv'
  BY Zenon, <1>1, <1>2, <1>9, MoveStays DEF SessionInv
<1>11. QED
  BY Zenon, <1>1, <1>6, <1>7, <1>10, EmptyStays DEF SessionInv

-----------------------------------------------------------------------------

\* Every step of the session preserves the invariant.
LEMMA SessionStep == SessionInv /\ [Next]_vars => SessionInv'
<1> SUFFICES ASSUME SessionInv, [Next]_vars PROVE SessionInv'
  BY Zenon
<1>1. CASE CreateStep
  BY Zenon, <1>1, OutsideKeeps, StartWatchKeeps, StartPumpKeeps DEF CreateStep
<1>2. CASE WatchTick \/ WatchCancelled \/ WatchExpires \/ WatchChecked
  BY Zenon, <1>2, WatchKeeps
<1>3. ASSUME NEW p \in Procs, Lookup(p) \/ CallStep(p) PROVE SessionInv'
  BY Zenon, <1>3, RequestKeeps, RevokeKeeps, TerminateKeeps, EndFailedKeeps, CloseClientsKeeps DEF CallStep
<1>4. CASE Cleanup \/ \E size \in Sizes : appendOutput(size)
  BY Zenon, <1>4, CleanupKeeps, AppendKeeps
<1>5. CASE PumpEnds
  BY Zenon, <1>5, OutsideKeeps, PumpMarksKeeps DEF PumpEnds
<1>6. CASE LinkDrops \/ LinkSwept \/ OrphanClosed
  BY Zenon, <1>6, OutsideKeeps
<1>7. ASSUME NEW c \in Conns, ConnStep(c) PROVE SessionInv'
  BY Zenon, <1>7, WireKeeps, InputKeeps, ClaimKeeps, AddKeeps, RemoveKeeps DEF ConnStep
<1>8. CASE UNCHANGED vars
  <2>1. /\ UNCHANGED <<kind, status, controller, tab, create>> /\ UNCHANGED <<at, mode, grant, clients>>
        /\ UNCHANGED <<grant, replay, replayBytes>>
    BY Zenon, <1>8 DEF vars
  <2>2. Typed' /\ ControllerIsAttached'
    BY Zenon, <2>1 DEF SessionInv, Typed, ControllerIsAttached, over
  <2>3. QED
    BY Zenon, <2>1, <2>2, StillStays, EmptyStays DEF SessionInv
<1>9. QED
  BY Zenon, <1>1, <1>2, <1>3, <1>4, <1>5, <1>6, <1>7, <1>8 DEF Next

\* Control is held by a connected tab of a running terminal session, or by nobody.
THEOREM ControlIsHeldByAttached == Spec => []ControllerIsAttached
<1>1. SessionInv => ControllerIsAttached
  BY Zenon DEF SessionInv
<1>2. QED
  BY SessionInitial, SessionStep, <1>1, PTL DEF Spec

\* Once every revocation that began has run to its end, no browser is registered.
THEOREM RevocationLeavesNobody == Spec => []RevokedLeavesNobody
<1>1. SessionInv => RevokedLeavesNobody
  BY Zenon DEF SessionInv, SweepInv, RevokedIsSwept, Sweeping, Nobody, RevokedLeavesNobody
<1>2. QED
  BY SessionInitial, SessionStep, <1>1, PTL DEF Spec

\* Output is numbered by appendOutput alone, and forgotten by a revocation.
LEMMA OutputStep ==
  ASSUME Next
  PROVE  \/ \E size \in Sizes : appendOutput(size)
         \/ \E p \in Procs : Revoke(p)
         \/ UNCHANGED <<grant, replayVars>>
<1>1. CASE CreateStep \/ PumpEnds \/ LinkDrops \/ LinkSwept \/ OrphanClosed
  BY Zenon, <1>1 DEF CreateStep, InitializeClient, StartWatch, BindStop, ConnectMember, ConnectQueued,
     ForgetFailed, StartPump, PumpEnds, PumpStops, PumpMarksEnded, PumpReleases, LinkDrops,
     LinkSwept, OrphanClosed, grantVars
<1>2. CASE WatchTick \/ WatchCancelled \/ WatchExpires \/ WatchChecked \/ Cleanup
  BY Zenon, <1>2 DEF WatchTick, WatchCancelled, WatchExpires, WatchChecked, Cleanup, grantVars
<1>3. ASSUME NEW p \in Procs, Lookup(p) \/ CallStep(p) PROVE Revoke(p) \/ UNCHANGED <<grant, replayVars>>
  BY ZenonT(30), <1>3 DEF Lookup, CallStep, Match, Checked, Terminate, CloseConnection, EndFailed,
     closeClients, grantVars
<1>4. ASSUME NEW c \in Conns, ConnStep(c) PROVE UNCHANGED <<grant, replayVars>>
  BY ZenonT(30), <1>4 DEF ConnStep, addClient, removeClient, claimControl, AnswerFrame, writeInput,
     SendInput,
     WriterSends, WriterFails, grantVars
<1>5. QED
  BY Zenon, <1>1, <1>2, <1>3, <1>4 DEF Next

\* A revoked session has an empty replay and numbers no more output.
THEOREM RevocationSilences == Spec => RevokedIsSilent
<1> DEFINE Silent == /\ grant' = "revoked" => replay' = <<>> /\ replayBytes' = 0
                     /\ grant = "revoked" => nextSequence' = nextSequence
<1>1. SessionInv /\ [Next]_vars => [Silent]_vars
  <2> SUFFICES ASSUME SessionInv, SessionInv', Next PROVE Silent
    BY Zenon, SessionStep
  <2>1. grant' = "revoked" => replay' = <<>> /\ replayBytes' = 0
    BY Zenon DEF SessionInv, RevokedIsEmpty
  <2>2. ASSUME NEW size, appendOutput(size) PROVE grant # "revoked"
    BY Zenon, <2>2 DEF appendOutput
  <2>3. (\E size \in Sizes : appendOutput(size)) \/ nextSequence' = nextSequence
    BY Zenon, OutputStep DEF Revoke, replayVars
  <2>4. QED
    BY Zenon, <2>1, <2>2, <2>3
<1>2. QED
  BY SessionInitial, SessionStep, <1>1, PTL DEF Spec, RevokedIsSilent

\* A session that exists does not come back from "closing" or "ended".
THEOREM EndingIsFinal == Spec => EndIsFinal
<1> DEFINE Final == create = "done" =>
             /\ status = "closing" => status' \in {"closing", "ended"}
             /\ status = "ended" => status' = "ended"
<1>1. [Next]_vars => [Final]_vars
  <2> SUFFICES ASSUME Next PROVE Final
    BY Zenon
  <2>1. CASE CreateStep \/ LinkDrops \/ LinkSwept \/ OrphanClosed
    BY Zenon, <2>1 DEF CreateStep, InitializeClient, StartWatch, BindStop, ConnectMember, ConnectQueued,
       ForgetFailed, StartPump, LinkDrops, LinkSwept, OrphanClosed
  <2>2. CASE PumpEnds
    BY Zenon, <2>2 DEF PumpEnds, PumpStops, PumpMarksEnded, PumpReleases, markEnded, over
  <2>3. CASE WatchTick \/ WatchCancelled \/ WatchExpires \/ WatchChecked \/ Cleanup
    BY Zenon, <2>3 DEF WatchTick, WatchCancelled, WatchExpires, WatchChecked, Cleanup
  <2>4. ASSUME NEW p \in Procs, Lookup(p) \/ CallStep(p) PROVE Final
    BY ZenonT(30), <2>4 DEF Lookup, CallStep, Match, Checked, Revoke, Terminate, CloseConnection, EndFailed,
       closeClients, markEnded, over
  <2>5. ASSUME NEW c \in Conns, ConnStep(c) PROVE Final
    BY ZenonT(30), <2>5 DEF ConnStep, addClient, removeClient, claimControl, AnswerFrame,
       writeInput, SendInput,
       WriterSends, WriterFails
  <2>6. ASSUME NEW size \in Sizes, appendOutput(size) PROVE Final
    BY Zenon, <2>6 DEF appendOutput, over
  <2>7. QED
    BY Zenon, <2>1, <2>2, <2>3, <2>4, <2>5, <2>6 DEF Next
<1>2. QED
  BY <1>1, PTL DEF Spec, EndIsFinal
=============================================================================
