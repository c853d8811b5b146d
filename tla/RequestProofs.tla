--------------------------- MODULE RequestProofs ----------------------------
(***************************************************************************)
(* What happens to a request before it is let through.  Definite refusals  *)
(* are complete and receipts are owed, for any hosts, tickets, number of   *)
(* targets and attempts at once.  Requests to the control platform pass    *)
(* the filters of their own configuration, for any files, matches, number  *)
(* of requests and of reloads at once.                                     *)
(***************************************************************************)
EXTENDS DenialReceipts, APIInterceptor, SequenceLemmas

-----------------------------------------------------------------------------
(* DenialReceipts: the inductive invariant *)

Early == {"new", "parse", "check", "upgrade", "targets"}
Looping == {"host", "capability", "inner", "initialize", "connect", "open"}
Places == Early \cup Looping \cup {"report", "post", "answered"}
Codes == Definite \cup {"none", "denied", "AuditUnavailable"}

TicketsTyped ==
  /\ ticket \in [Attempts -> Tickets] /\ index \in [Attempts -> Nat]
  /\ todo \in [Attempts -> SUBSET Nat]
  /\ posted \in [Attempts -> [Hosts -> Nat]]
  /\ recorded \in [Attempts -> SUBSET Hosts]
  /\ attempt \in [Attempts -> Places] /\ code \in [Attempts -> Codes]

TodoHosts(a) == {ticket[a].inner[i].host : i \in todo[a]}

\* Before a failure is made nothing has been sent, and no code is definite.
NothingYet(a) ==
  attempt[a] \in Early \cup Looping => recorded[a] = {} /\ \A h \in Hosts : posted[a][h] = 0

\* Where the handler may be with a ticket t at target i: no target is looked at
\* early; those that the first loop has passed, and later all, are verified.
MayBe(t, at, i) ==
  /\ at \in Early => i = 0
  /\ at \in Looping =>
       /\ i \in DOMAIN t.inner
       /\ \A j \in DOMAIN t.inner :
            (at = "host" => j < i) /\ (at \in {"capability", "inner"} => j <= i) => t.inner[j].of # "bad"

AtTarget(a) == MayBe(ticket[a], attempt[a], index[a])

\* While receipts are sent: each host is either recorded or still to come, none
\* comes twice, and there are grounds for them.
Reporting(a) ==
  attempt[a] \in {"report", "post"} =>
    /\ todo[a] # {} /\ todo[a] \subseteq DOMAIN ticket[a].inner
    /\ recorded[a] \cup TodoHosts(a) = Refused(a)
    /\ \A i, j \in todo[a] : ticket[a].inner[i].host = ticket[a].inner[j].host => i = j
    /\ \A h \in TodoHosts(a) : h \in Hosts /\ posted[a][h] = 0
    /\ Grounds(a)

Complete(a) == attempt[a] = "answered" /\ code[a] \in Definite => recorded[a] = Refused(a)

Owed(a) ==
  \A h \in Hosts : posted[a][h] > 0 => posted[a][h] = 1 /\ h \in Refused(a) /\ Grounds(a)

AttemptInv(a) == NothingYet(a) /\ AtTarget(a) /\ Reporting(a) /\ Complete(a) /\ Owed(a)

ReceiptsInv == TicketsTyped /\ \A a \in Attempts : AttemptInv(a)

-----------------------------------------------------------------------------
(* Targets *)

\* The targets of a ticket are numbered from 1.
LEMMA InnerTyped ==
  ASSUME NEW t \in Tickets
  PROVE  /\ t.inner \in Seq(TargetEntries) /\ DOMAIN t.inner \subseteq Nat
         /\ \A i \in DOMAIN t.inner : ~(i < 1) /\ t.inner[i].host \in Hosts
<1>1. PICK n \in 0..MaxTargets + 1 : t.inner \in [1..n -> TargetEntries]
  BY Zenon DEF Tickets
<1>2. n \in Nat
  BY ReceiptsAssumption
<1>3. t.inner \in Seq(TargetEntries)
  BY <1>1, <1>2
<1>4. DOMAIN t.inner \subseteq Nat /\ \A i \in DOMAIN t.inner : ~(i < 1) /\ t.inner[i] \in TargetEntries
  BY <1>1, <1>2
<1>5. QED
  BY <1>3, <1>4 DEF TargetEntries

\* Targets names every host of a verified ticket, and none twice.
LEMMA TargetsNameAll ==
  ASSUME NEW t \in Tickets, Targets(t) # {}
  PROVE  /\ Targets(t) \subseteq DOMAIN t.inner /\ Verified(t)
         /\ {t.inner[i].host : i \in Targets(t)} = {t.inner[i].host : i \in DOMAIN t.inner}
         /\ \A i, j \in Targets(t) : t.inner[i].host = t.inner[j].host => i = j
<1>0. Verified(t)
  BY Zenon DEF Targets
<1>2. DOMAIN t.inner \subseteq Nat
  BY Zenon, InnerTyped
<1>3. Targets(t) = {i \in DOMAIN t.inner :
                     \A j \in DOMAIN t.inner : j < i => t.inner[j].host # t.inner[i].host}
  BY Zenon, <1>0 DEF Targets
<1>4. \A i, j \in Targets(t) : t.inner[i].host = t.inner[j].host => i = j
  BY <1>2, <1>3
<1>5. ASSUME NEW i \in DOMAIN t.inner PROVE \E k \in Targets(t) : t.inner[k].host = t.inner[i].host
  <2> DEFINE T == {j \in DOMAIN t.inner : t.inner[j].host = t.inner[i].host}
  <2>1. T \in SUBSET Nat /\ T # {}
    BY Zenon, <1>2, <1>5
  <2>2. PICK k \in T : \A y \in T : k <= y
    BY ZenonT(30), <2>1, LeastNumber
  <2>3. k \in Targets(t)
    BY <1>2, <1>3, <2>2
  <2>4. QED
    BY Zenon, <2>2, <2>3
<1>6. Targets(t) \subseteq DOMAIN t.inner
  BY Zenon, <1>3
<1>7. {t.inner[i].host : i \in Targets(t)} = {t.inner[i].host : i \in DOMAIN t.inner}
  BY <1>5, <1>6
<1>8. QED
  BY Zenon, <1>0, <1>4, <1>6, <1>7

\* The next target is one of those to do.
LEMMA NextIsTodo ==
  ASSUME NEW a \in Attempts, todo[a] \in SUBSET Nat, todo[a] # {}
  PROVE  NextTarget(a) \in todo[a]
BY Zenon, LeastNumber DEF NextTarget

-----------------------------------------------------------------------------
(* One attempt does not touch another. *)

\* What a refusal is about depends on the ticket and the target.
LEMMA SameRefusal ==
  ASSUME NEW a \in Attempts, ticket'[a] = ticket[a], index'[a] = index[a]
  PROVE  Refused(a)' = Refused(a) /\ Grounds(a)' = Grounds(a)
<1>1. Target(a)' = Target(a) /\ NamedHosts(a)' = NamedHosts(a)
  BY DEF Target, NamedHosts
<1>2. Refused(a)' = Refused(a)
  BY Zenon, <1>1 DEF Refused
<1>3. Grounds(a)' = Grounds(a)
  BY <1>1 DEF Grounds
<1>4. QED
  BY Zenon, <1>2, <1>3

\* What an attempt's invariant speaks of is as before.
Untouched(b) ==
  /\ ticket'[b] = ticket[b] /\ index'[b] = index[b] /\ todo'[b] = todo[b] /\ posted'[b] = posted[b]
  /\ recorded'[b] = recorded[b] /\ attempt'[b] = attempt[b] /\ code'[b] = code[b]

\* An attempt is not affected by what leaves its own state alone.
LEMMA UntouchedKeeps ==
  ASSUME NEW b \in Attempts, AttemptInv(b), Untouched(b)
  PROVE  AttemptInv(b)'
<1>1. Refused(b)' = Refused(b) /\ Grounds(b)' = Grounds(b)
  BY Zenon, SameRefusal DEF Untouched
<1>2. TodoHosts(b)' = TodoHosts(b)
  BY DEF Untouched, TodoHosts
<1>3. AtTarget(b)'
  BY Zenon DEF Untouched, AttemptInv, AtTarget, MayBe
<1>4. (NothingYet(b) /\ Complete(b) /\ Owed(b))'
  BY Zenon, <1>1 DEF Untouched, AttemptInv, NothingYet, Complete, Owed
<1>5. Reporting(b)'
  BY Zenon, <1>1, <1>2 DEF Untouched, AttemptInv, Reporting
<1>6. QED
  BY Zenon, <1>3, <1>4, <1>5 DEF AttemptInv

\* At first no attempt has a ticket or a receipt.
LEMMA ReceiptsInitial == ReceiptsInit => ReceiptsInv
<1> SUFFICES ASSUME ReceiptsInit PROVE ReceiptsInv
  BY Zenon
<1>1. NoTicket \in Tickets
  <2>1. /\ << >> \in [1..0 -> TargetEntries] /\ 0 \in 0..MaxTargets + 1
        /\ DOMAIN << >> = {} /\ ~(Len(<< >>) > MaxTargets)
    BY ReceiptsAssumption
  <2>2. << >> \in UNION {[1..n -> TargetEntries] : n \in 0..MaxTargets + 1}
    BY Zenon, <2>1
  <2>3. QED
    BY Zenon, <2>1, <2>2 DEF NoTicket, Tickets
<1>2. TicketsTyped
  <2>1. "new" \in Places /\ "none" \in Codes /\ 0 \in Nat
    BY DEF Places, Early, Codes
  <2>2. QED
    BY Zenon, <1>1, <2>1 DEF ReceiptsInit, TicketsTyped
<1>3. \A a \in Attempts : AttemptInv(a)
  BY DEF ReceiptsInit, AttemptInv, NothingYet, AtTarget, MayBe, Looping, Reporting, Complete, Owed
<1>4. QED
  BY Zenon, <1>2, <1>3 DEF ReceiptsInv

\* An attempt that moves on without a receipt, with its ticket or another.
LEMMA GoKeeps ==
  ASSUME ReceiptsInv, NEW a \in Attempts, NEW at \in Early \cup Looping, Go(a, at),
         attempt[a] \in Early \cup Looping,
         ticket' \in [Attempts -> Tickets], index' \in [Attempts -> Nat],
         \A b \in Attempts \ {a} : ticket'[b] = ticket[b] /\ index'[b] = index[b],
         MayBe(ticket'[a], at, index'[a]),
         UNCHANGED <<posted, recorded>>
  PROVE  ReceiptsInv'
<1>1. TicketsTyped' /\ attempt'[a] = at /\ \A b \in Attempts \ {a} : Untouched(b)
  BY Zenon DEF ReceiptsInv, TicketsTyped, Go, Untouched, Places
<1>2. recorded'[a] = {} /\ \A h \in Hosts : posted'[a][h] = 0
  BY Zenon DEF ReceiptsInv, AttemptInv, NothingYet
<1>3. AtTarget(a)'
  BY Zenon, <1>1 DEF AtTarget
<1>4. (NothingYet(a) /\ Reporting(a) /\ Complete(a) /\ Owed(a))'
  BY <1>1, <1>2 DEF NothingYet, Reporting, Complete, Owed, Early, Looping
<1>5. QED
  BY Zenon, <1>1, <1>3, <1>4, UntouchedKeeps DEF ReceiptsInv, AttemptInv

\* "denied" is no definite code.
LEMMA RefuseKeeps ==
  ASSUME ReceiptsInv, NEW a \in Attempts, Refuse(a), UNCHANGED <<ticket, index, posted, recorded>>
  PROVE  ReceiptsInv'
<1>1. /\ TicketsTyped' /\ attempt'[a] = "answered" /\ code'[a] = "denied"
      /\ \A b \in Attempts \ {a} : Untouched(b)
  BY Zenon DEF ReceiptsInv, TicketsTyped, Refuse, Untouched, Places, Codes
<1>2. Owed(a)'
  BY Zenon, SameRefusal DEF ReceiptsInv, AttemptInv, Owed
<1>3. (NothingYet(a) /\ AtTarget(a) /\ Reporting(a) /\ Complete(a))'
  BY <1>1 DEF NothingYet, AtTarget, MayBe, Reporting, Complete, Definite, Early, Looping
<1>4. QED
  BY Zenon, <1>1, <1>2, <1>3, UntouchedKeeps DEF ReceiptsInv, AttemptInv

\* Nor is AuditUnavailable.
LEMMA UnavailableKeeps ==
  ASSUME ReceiptsInv, NEW a \in Attempts, Unavailable(a), UNCHANGED <<ticket, index, posted, recorded>>
  PROVE  ReceiptsInv'
<1>1. /\ TicketsTyped' /\ attempt'[a] = "answered" /\ code'[a] = "AuditUnavailable"
      /\ \A b \in Attempts \ {a} : Untouched(b)
  BY Zenon DEF ReceiptsInv, TicketsTyped, Unavailable, Untouched, Places, Codes
<1>2. Owed(a)'
  BY Zenon, SameRefusal DEF ReceiptsInv, AttemptInv, Owed
<1>3. (NothingYet(a) /\ AtTarget(a) /\ Reporting(a) /\ Complete(a))'
  BY <1>1 DEF NothingYet, AtTarget, MayBe, Reporting, Complete, Definite, Early, Looping
<1>4. QED
  BY Zenon, <1>1, <1>2, <1>3, UntouchedKeeps DEF ReceiptsInv, AttemptInv

\* A failure begins with all its targets to do.
LEMMA FailKeeps ==
  ASSUME ReceiptsInv, NEW a \in Attempts, NEW c \in Codes, NEW ts \in SUBSET Nat, Fail(a, c, ts),
         attempt[a] \in Early \cup Looping,
         ts # {} => /\ ts \subseteq DOMAIN ticket[a].inner
                    /\ {ticket[a].inner[i].host : i \in ts} = Refused(a)
                    /\ \A i, j \in ts : ticket[a].inner[i].host = ticket[a].inner[j].host => i = j
                    /\ Grounds(a),
         UNCHANGED <<ticket, index, posted, recorded>>
  PROVE  ReceiptsInv'
<1>1. /\ TicketsTyped' /\ \A b \in Attempts \ {a} : Untouched(b)
      /\ todo'[a] = ts
      /\ ts = {} => attempt'[a] = "answered" /\ code'[a] = "AuditUnavailable"
      /\ ts # {} => attempt'[a] = "report"
  <2>1. /\ {"answered", "report"} \subseteq Places /\ "AuditUnavailable" \in Codes
    BY Zenon DEF Places, Codes
  <2>2. TicketsTyped'
    BY Zenon, <2>1 DEF ReceiptsInv, TicketsTyped, Fail
  <2>3. QED
    BY ZenonT(30), <2>2 DEF ReceiptsInv, TicketsTyped, Fail, Untouched
<1>2. recorded'[a] = {} /\ \A h \in Hosts : posted'[a][h] = 0
  BY Zenon DEF ReceiptsInv, AttemptInv, NothingYet
<1>3. CASE ts = {}
  <2>1. AttemptInv(a)'
    BY <1>1, <1>2, <1>3 DEF AttemptInv, NothingYet, AtTarget, MayBe, Reporting, Complete, Owed,
       Definite, Early, Looping
  <2>2. QED
    BY Zenon, <1>1, <2>1, UntouchedKeeps DEF ReceiptsInv
<1>4. CASE ts # {}
  <2>1. Reporting(a)'
    <3>1. Refused(a)' = Refused(a) /\ Grounds(a)' = Grounds(a) /\ ticket' = ticket
      BY Zenon, SameRefusal
    <3>2. TodoHosts(a)' = Refused(a)
      BY <1>1, <1>4, <3>1 DEF TodoHosts
    <3>3. Refused(a) \subseteq Hosts
      <4>1. ticket[a] \in Tickets
        BY Zenon DEF ReceiptsInv, TicketsTyped
      <4>2. \A i \in DOMAIN ticket[a].inner : ticket[a].inner[i].host \in Hosts
        BY Zenon, <4>1, InnerTyped
      <4>3. QED
        BY <1>4, <4>2
    <3>4. QED
      BY ZenonT(30), <1>1, <1>2, <1>4, <3>1, <3>2, <3>3 DEF Reporting
  <2>2. (NothingYet(a) /\ AtTarget(a) /\ Complete(a) /\ Owed(a))'
    BY <1>1, <1>2, <1>4 DEF NothingYet, AtTarget, MayBe, Complete, Owed, Early, Looping
  <2>3. QED
    BY Zenon, <1>1, <2>1, <2>2, UntouchedKeeps DEF ReceiptsInv, AttemptInv
<1>5. QED
  BY Zenon, <1>3, <1>4

-----------------------------------------------------------------------------
(* auth *)

\* Where the handler is, it has the ticket for it.
LEMMA IsThere ==
  ASSUME ReceiptsInv, NEW a \in Attempts
  PROVE  /\ ticket[a] \in Tickets /\ index[a] \in Nat
         /\ attempt[a] \in Early => index[a] = 0
         /\ attempt[a] \in Looping => index[a] \in DOMAIN ticket[a].inner
BY Zenon DEF ReceiptsInv, TicketsTyped, AttemptInv, AtTarget, MayBe

\* A step within what comes before the targets, with any ticket.
LEMMA EarlyKeeps ==
  ASSUME ReceiptsInv, NEW a \in Attempts, NEW at \in Early, Go(a, at), attempt[a] \in Early,
         \/ UNCHANGED ticket \/ \E t \in Tickets : ticket' = [ticket EXCEPT ![a] = t],
         UNCHANGED <<index, posted, recorded>>
  PROVE  ReceiptsInv'
<1>1. /\ ticket' \in [Attempts -> Tickets] /\ index' \in [Attempts -> Nat]
      /\ \A b \in Attempts \ {a} : ticket'[b] = ticket[b] /\ index'[b] = index[b]
  BY Zenon DEF ReceiptsInv, TicketsTyped
<1>2. MayBe(ticket'[a], at, index'[a])
  BY IsThere DEF MayBe, Early, Looping
<1>3. at \in Early \cup Looping /\ attempt[a] \in Early \cup Looping
  BY Zenon
<1>4. QED
  BY Zenon, <1>1, <1>2, <1>3, GoKeeps

\* The loop over the targets begins with the first.
LEMMA BeginsKeeps ==
  ASSUME ReceiptsInv, NEW a \in Attempts, Go(a, "host"), attempt[a] \in Early,
         1 \in DOMAIN ticket[a].inner, index' = [index EXCEPT ![a] = 1],
         UNCHANGED <<ticket, posted, recorded>>
  PROVE  ReceiptsInv'
<1>1. ticket' \in [Attempts -> Tickets] /\ index \in [Attempts -> Nat]
  BY Zenon DEF ReceiptsInv, TicketsTyped
<1>2. /\ index' \in [Attempts -> Nat] /\ index'[a] = 1
      /\ \A b \in Attempts \ {a} : ticket'[b] = ticket[b] /\ index'[b] = index[b]
  BY <1>1
<1>3. \A j \in DOMAIN ticket[a].inner : ~(j < 1)
  BY Zenon, IsThere, InnerTyped
<1>4. MayBe(ticket'[a], "host", index'[a])
  BY <1>2, <1>3 DEF MayBe, Early
<1>5. "host" \in Early \cup Looping /\ attempt[a] \in Early \cup Looping
  BY Zenon DEF Looping
<1>6. QED
  BY Zenon, <1>1, <1>2, <1>4, <1>5, GoKeeps

\* A failure whose targets are those of the ticket.
LEMMA TicketFailKeeps ==
  ASSUME ReceiptsInv, NEW a \in Attempts, NEW c \in Codes, Fail(a, c, Targets(ticket[a])),
         attempt[a] \in Early, ticket[a].kind # "plain", UNCHANGED <<ticket, index, posted, recorded>>
  PROVE  ReceiptsInv'
<1>1. ticket[a] \in Tickets /\ index[a] = 0 /\ attempt[a] \in Early \cup Looping
  BY Zenon, IsThere
<1>2. Targets(ticket[a]) \in SUBSET Nat
  BY Zenon, <1>1, InnerTyped DEF Targets
<1>3. CASE Targets(ticket[a]) = {}
  BY Zenon, <1>1, <1>2, <1>3, FailKeeps
<1>4. CASE Targets(ticket[a]) # {}
  <2>1. Refused(a) = NamedHosts(a) /\ Grounds(a)
    BY Zenon, <1>1, <1>4, TargetsNameAll DEF Refused, Grounds
  <2>2. /\ Targets(ticket[a]) \subseteq DOMAIN ticket[a].inner
        /\ {ticket[a].inner[i].host : i \in Targets(ticket[a])} = Refused(a)
        /\ \A i, j \in Targets(ticket[a]) : ticket[a].inner[i].host = ticket[a].inner[j].host => i = j
    BY Zenon, <1>1, <1>4, <2>1, TargetsNameAll DEF NamedHosts
  <2>3. QED
    BY Zenon, <1>1, <1>2, <2>1, <2>2, FailKeeps
<1>5. QED
  BY Zenon, <1>3, <1>4

\* An expired ticket fails with its targets, or is refused.
LEMMA ExpiredKeeps ==
  ASSUME ReceiptsInv, NEW a \in Attempts, ExpiredAudit(a),
         attempt[a] \in Early, UNCHANGED <<ticket, index, posted, recorded>>
  PROVE  ReceiptsInv'
<1>1. "ApiKeyExpired" \in Codes
  BY Zenon DEF Codes, Definite
<1>2. QED
  BY Zenon, <1>1, RefuseKeeps, TicketFailKeeps DEF ExpiredAudit

\* A path that the delegation does not allow.
LEMMA RouteFailKeeps ==
  ASSUME ReceiptsInv, NEW a \in Attempts, ~ticket[a].allowed,
         Fail(a, "DelegationRouteDenied", Targets(ticket[a])),
         attempt[a] \in Early, UNCHANGED <<ticket, index, posted, recorded>>
  PROVE  ReceiptsInv'
<1>1. "DelegationRouteDenied" \in Codes
  BY Zenon DEF Codes, Definite
<1>2. ticket[a] \in Tickets
  BY Zenon, IsThere
<1>3. ticket[a].kind # "plain"
  BY <1>2 DEF Tickets
<1>4. QED
  BY Zenon, <1>1, <1>3, TicketFailKeeps

\* Admission begins with the only target, or leaves the targets for later.
LEMMA AdmitKeeps ==
  ASSUME ReceiptsInv, NEW a \in Attempts, Admit(a), attempt[a] \in Early,
         UNCHANGED <<ticket, posted, recorded>>
  PROVE  ReceiptsInv'
<1>1. CASE ticket[a].single /\ Go(a, "host") /\ index' = [index EXCEPT ![a] = 1]
  <2>1. ticket[a] \in Tickets
    BY Zenon, IsThere
  <2>2. 1 \in DOMAIN ticket[a].inner
    BY Zenon, <1>1, <2>1 DEF Tickets
  <2>3. QED
    BY Zenon, <1>1, <2>2, BeginsKeeps
<1>2. CASE Refuse(a) /\ UNCHANGED index
  BY Zenon, <1>2, RefuseKeeps
<1>3. CASE Go(a, "upgrade") /\ UNCHANGED index
  <2>1. "upgrade" \in Early
    BY Zenon DEF Early
  <2>2. QED
    BY Zenon, <1>3, <2>1, EarlyKeeps
<1>4. QED
  BY Zenon, <1>1, <1>2, <1>3 DEF Admit

\* So it is for all outcomes of parseToken, checkStreamRoute and Check.
LEMMA AuthenticatesKeeps ==
  ASSUME ReceiptsInv, NEW a \in Attempts, Arrives(a) \/ Authenticates(a) \/ ChecksGrant(a)
  PROVE  ReceiptsInv'
<1>1. attempt[a] \in Early /\ "parse" \in Early /\ "check" \in Early
  BY Zenon DEF Arrives, Authenticates, ChecksGrant, Early
<1>2. CASE Arrives(a)
  <2>1. /\ \E t \in Tickets : ticket' = [ticket EXCEPT ![a] = t]
        /\ Go(a, "parse") /\ UNCHANGED <<index, posted, recorded>>
    BY ZenonT(30), <1>2 DEF Arrives, historyVars
  <2>2. QED
    BY Zenon, <1>1, <2>1, EarlyKeeps
<1>3. CASE Authenticates(a) \/ ChecksGrant(a)
  <2>1. UNCHANGED <<ticket, posted, recorded>>
    BY Zenon, <1>3 DEF Authenticates, ChecksGrant, historyVars
  <2>2. \/ Admit(a)
        \/ UNCHANGED index /\ (Go(a, "check") \/ Refuse(a) \/ ExpiredAudit(a))
        \/ UNCHANGED index /\ ~ticket[a].allowed /\ Fail(a, "DelegationRouteDenied", Targets(ticket[a]))
    BY Zenon, <1>3 DEF Authenticates, ChecksGrant
  <2>3. CASE UNCHANGED index /\ Go(a, "check")
    BY Zenon, <1>1, <2>1, <2>3, EarlyKeeps
  <2>4. QED
    BY Zenon, <1>1, <2>1, <2>2, <2>3, AdmitKeeps, RefuseKeeps, ExpiredKeeps, RouteFailKeeps
<1>4. QED
  BY Zenon, <1>2, <1>3

-----------------------------------------------------------------------------
(* The targets *)

\* A failure of the target that the handler is at.
LEMMA TargetFailKeeps ==
  ASSUME ReceiptsInv, NEW a \in Attempts, NEW c \in Codes, FailTarget(a, c),
         attempt[a] \in Looping \ {"host"}, ticket[a].kind # "plain" \/ Target(a).of # "none",
         UNCHANGED <<ticket, posted, recorded>>
  PROVE  ReceiptsInv'
<1>1. /\ ticket[a] \in Tickets /\ index[a] \in Nat /\ index[a] \in DOMAIN ticket[a].inner
      /\ attempt[a] \in Early \cup Looping
  BY Zenon, IsThere
<1>2. ticket[a].inner \in Seq(TargetEntries) /\ index[a] # 0
  BY <1>1, InnerTyped
<1>3. \A i \in 1..index[a] : ticket[a].inner[i].of # "bad"
  <2>1. \A i \in 1..index[a] : i \in DOMAIN ticket[a].inner /\ i <= index[a]
    BY <1>1, <1>2
  <2>2. \A j \in DOMAIN ticket[a].inner : j <= index[a] => ticket[a].inner[j].of # "bad"
    BY Zenon DEF ReceiptsInv, AttemptInv, AtTarget, MayBe
  <2>3. QED
    BY Zenon, <2>1, <2>2
<1>4. Refused(a) = {Target(a).host} /\ Grounds(a)
  BY Zenon, <1>2, <1>3 DEF Refused, Grounds
<1>5. /\ {index[a]} \in SUBSET Nat /\ {index[a]} \subseteq DOMAIN ticket[a].inner
      /\ {ticket[a].inner[i].host : i \in {index[a]}} = Refused(a)
      /\ \A i, j \in {index[a]} : ticket[a].inner[i].host = ticket[a].inner[j].host => i = j
  BY Zenon, <1>1, <1>4 DEF Target
<1>6. QED
  BY Zenon, <1>1, <1>4, <1>5, FailKeeps DEF FailTarget

\* On to the next target, or to the first of the next loop.
LEMMA AdvanceKeeps ==
  ASSUME ReceiptsInv, NEW a \in Attempts, NEW at \in Looping, NEW after \in Looping,
         Advance(a, at, after), attempt[a] \in Looping,
         index[a] < Len(ticket[a].inner) => MayBe(ticket[a], at, index[a] + 1),
         ~(index[a] < Len(ticket[a].inner)) => MayBe(ticket[a], after, 1),
         UNCHANGED <<ticket, posted, recorded>>
  PROVE  ReceiptsInv'
<1>1. ticket' \in [Attempts -> Tickets] /\ index \in [Attempts -> Nat]
  BY Zenon DEF ReceiptsInv, TicketsTyped
<1>2. attempt[a] \in Early \cup Looping /\ at \in Early \cup Looping /\ after \in Early \cup Looping
  BY Zenon
<1>3. CASE index[a] < Len(ticket[a].inner)
  <2>1. Go(a, at) /\ index' = [index EXCEPT ![a] = index[a] + 1]
    BY Zenon, <1>3 DEF Advance
  <2>2. /\ index' \in [Attempts -> Nat] /\ index'[a] = index[a] + 1
        /\ \A b \in Attempts \ {a} : ticket'[b] = ticket[b] /\ index'[b] = index[b]
    BY <1>1, <2>1
  <2>3. MayBe(ticket'[a], at, index'[a])
    BY Zenon, <1>3, <2>2
  <2>4. QED
    BY Zenon, <1>1, <1>2, <2>1, <2>2, <2>3, GoKeeps
<1>4. CASE ~(index[a] < Len(ticket[a].inner))
  <2>1. Go(a, after) /\ index' = [index EXCEPT ![a] = 1]
    BY Zenon, <1>4 DEF Advance
  <2>2. /\ index' \in [Attempts -> Nat] /\ index'[a] = 1
        /\ \A b \in Attempts \ {a} : ticket'[b] = ticket[b] /\ index'[b] = index[b]
    BY <1>1, <2>1
  <2>3. MayBe(ticket'[a], after, index'[a])
    BY Zenon, <1>4, <2>2
  <2>4. QED
    BY Zenon, <1>1, <1>2, <2>1, <2>2, <2>3, GoKeeps
<1>5. QED
  BY Zenon, <1>3, <1>4

\* The upgrade, perhaps with another ticket, and parseStatsInfo before its loop.
LEMMA ParsesTargetsKeeps ==
  ASSUME ReceiptsInv, NEW a \in Attempts, Upgrades(a) \/ ParsesTargets(a)
  PROVE  ReceiptsInv'
<1>1. attempt[a] \in Early /\ "targets" \in Early /\ UNCHANGED <<posted, recorded>>
  BY Zenon DEF Upgrades, ParsesTargets, Early, historyVars
<1>2. CASE Upgrades(a)
  <2>1. /\ UNCHANGED index
        /\ \/ Refuse(a) /\ UNCHANGED ticket
           \/ Go(a, "targets") /\ UNCHANGED ticket
           \/ Go(a, "targets") /\ \E t \in Tickets : ticket' = [ticket EXCEPT ![a] = t]
    BY Zenon, <1>2 DEF Upgrades
  <2>2. CASE Go(a, "targets")
    BY ZenonT(30), <1>1, <2>1, <2>2, EarlyKeeps DEF Refuse
  <2>3. QED
    BY Zenon, <1>1, <2>1, <2>2, RefuseKeeps
<1>3. CASE ParsesTargets(a)
  <2>1. /\ UNCHANGED ticket
        /\ \/ /\ ~ticket[a].allowed /\ UNCHANGED index
              /\ Fail(a, "DelegationRouteDenied", Targets(ticket[a]))
           \/ Refuse(a) /\ UNCHANGED index
           \/ /\ Len(ticket[a].inner) \in 1..MaxTargets /\ Go(a, "host")
              /\ index' = [index EXCEPT ![a] = 1]
    BY Zenon, <1>3 DEF ParsesTargets
  <2>2. ASSUME Len(ticket[a].inner) \in 1..MaxTargets PROVE 1 \in DOMAIN ticket[a].inner
    <3>1. ticket[a].inner \in Seq(TargetEntries)
      BY Zenon, IsThere, InnerTyped
    <3>2. QED
      BY <2>2, <3>1, ReceiptsAssumption
  <2>3. QED
    BY Zenon, <1>1, <2>1, <2>2, RouteFailKeeps, RefuseKeeps, BeginsKeeps
<1>4. QED
  BY Zenon, <1>2, <1>3

\* A target that is found is verified, and so is what the rest of the loop is for.
LEMMA FindsBackendKeeps ==
  ASSUME ReceiptsInv, NEW a \in Attempts, FindsBackend(a) \/ RequiresKeyBackend(a)
  PROVE  ReceiptsInv'
<1>1. /\ attempt[a] \in {"host", "capability"} /\ UNCHANGED <<ticket, posted, recorded>>
      /\ attempt[a] \in Looping /\ attempt[a] \in Early \cup Looping
  BY Zenon DEF FindsBackend, RequiresKeyBackend, historyVars, Looping
<1>2. /\ index[a] \in Nat /\ DOMAIN ticket[a].inner \subseteq Nat /\ index[a] \in DOMAIN ticket[a].inner
      /\ ticket \in [Attempts -> Tickets] /\ index \in [Attempts -> Nat]
  BY Zenon, <1>1, IsThere, InnerTyped DEF ReceiptsInv, TicketsTyped
<1>3. MayBe(ticket[a], attempt[a], index[a])
  BY Zenon DEF ReceiptsInv, AttemptInv, AtTarget
<1>4. ASSUME NEW at \in {"capability", "initialize", "inner"}, Go(a, at), UNCHANGED index,
             MayBe(ticket[a], at, index[a])
      PROVE  ReceiptsInv'
  <2>1. at \in Early \cup Looping
    BY <1>4 DEF Looping
  <2>2. QED
    BY Zenon, <1>1, <1>2, <1>4, <2>1, GoKeeps
<1>5. CASE FindsBackend(a)
  <2>1. /\ attempt[a] = "host" /\ UNCHANGED index
        /\ (Target(a).of # "bad" /\ Go(a, "capability")) \/ Refuse(a)
    BY Zenon, <1>5 DEF FindsBackend
  <2>2. Target(a).of # "bad" => MayBe(ticket[a], "capability", index[a])
    BY <1>2, <1>3, <2>1 DEF MayBe, Looping, Early, Target
  <2>3. QED
    BY Zenon, <1>1, <1>4, <2>1, <2>2, RefuseKeeps
<1>6. CASE RequiresKeyBackend(a)
  <2>1. /\ attempt[a] = "capability"
        /\ \/ /\ FailTarget(a, "BackendAuditCapabilityUnavailable")
              /\ ticket[a].kind # "plain" \/ Target(a).of # "none"
           \/ Go(a, IF ticket[a].single THEN "initialize" ELSE "inner") /\ UNCHANGED index
    BY Zenon, <1>6 DEF RequiresKeyBackend
  <2>2. "BackendAuditCapabilityUnavailable" \in Codes /\ attempt[a] \in Looping \ {"host"}
    BY <2>1 DEF Codes, Definite, Looping
  <2>3. MayBe(ticket[a], "inner", index[a])
    BY <1>3, <2>1 DEF MayBe, Looping, Early
  <2>4. ticket[a].single => MayBe(ticket[a], "initialize", index[a])
    <3>1. ticket[a].single => DOMAIN ticket[a].inner = {1}
      BY Zenon, <1>2 DEF Tickets
    <3>2. QED
      BY <1>2, <1>3, <2>1, <3>1 DEF MayBe, Looping, Early
  <2>5. CASE Go(a, IF ticket[a].single THEN "initialize" ELSE "inner") /\ UNCHANGED index
    BY Zenon, <1>4, <2>3, <2>4, <2>5
  <2>6. QED
    BY Zenon, <1>1, <2>1, <2>2, <2>5, TargetFailKeeps
<1>7. QED
  BY Zenon, <1>5, <1>6

\* The loop goes on, or ends with all targets verified.
LEMMA ParsesInnerKeeps ==
  ASSUME ReceiptsInv, NEW a \in Attempts, ParsesInner(a)
  PROVE  ReceiptsInv'
<1>1. /\ attempt[a] = "inner" /\ UNCHANGED <<ticket, posted, recorded>>
      /\ \/ Refuse(a) /\ UNCHANGED index
         \/ (Target(a).of \in {"other", "same"} /\ FailTarget(a, "DelegationRouteDenied"))
         \/ Advance(a, "host", "initialize")
  BY Zenon DEF ParsesInner, historyVars
<1>2. /\ attempt[a] \in Looping \ {"host"} /\ "host" \in Looping /\ "initialize" \in Looping
      /\ "DelegationRouteDenied" \in Codes
  BY <1>1 DEF Looping, Codes, Definite
<1>3. /\ index[a] \in Nat /\ ticket[a].inner \in Seq(TargetEntries)
      /\ index[a] \in DOMAIN ticket[a].inner
  BY Zenon, <1>2, IsThere, InnerTyped
<1>4. \A j \in DOMAIN ticket[a].inner : j <= index[a] => ticket[a].inner[j].of # "bad"
  BY Zenon, <1>1, <1>2 DEF ReceiptsInv, AttemptInv, AtTarget, MayBe
<1>5. index[a] < Len(ticket[a].inner) => MayBe(ticket[a], "host", index[a] + 1)
  BY <1>3, <1>4 DEF MayBe, Looping, Early
<1>6. ~(index[a] < Len(ticket[a].inner)) => MayBe(ticket[a], "initialize", 1)
  BY <1>3, <1>4 DEF MayBe, Looping, Early
<1>7. CASE Target(a).of \in {"other", "same"} /\ FailTarget(a, "DelegationRouteDenied")
  <2>1. Target(a).of # "none"
    BY <1>7
  <2>2. QED
    BY Zenon, <1>1, <1>2, <1>7, <2>1, TargetFailKeeps
<1>8. CASE Advance(a, "host", "initialize")
  BY Zenon, <1>1, <1>2, <1>5, <1>6, <1>8, AdvanceKeeps
<1>9. QED
  BY Zenon, <1>1, <1>7, <1>8, RefuseKeeps

\* From then on it does not matter which target the handler is at.
LEMMA UsesBackendKeeps ==
  ASSUME ReceiptsInv, NEW a \in Attempts, UsesBackend(a)
  PROVE  ReceiptsInv'
<1>1. PICK step \in {<<"initialize", "connect">>, <<"connect", "open">>} :
        /\ attempt[a] = step[1]
        /\ \/ Refuse(a) /\ UNCHANGED index
           \/ Target(a).of # "none" /\ FailTarget(a, "BackendAuditCapabilityUnavailable")
           \/ Advance(a, step[1], step[2])
  BY Zenon DEF UsesBackend
<1>2. UNCHANGED <<ticket, posted, recorded>>
  BY Zenon DEF UsesBackend, historyVars
<1>3. /\ attempt[a] \in Looping \ {"host"} /\ step[1] \in {"initialize", "connect", "open"}
      /\ step[2] \in {"initialize", "connect", "open"} /\ step[1] \in Looping /\ step[2] \in Looping
      /\ "BackendAuditCapabilityUnavailable" \in Codes
  BY <1>1 DEF Looping, Codes, Definite
<1>4. /\ index[a] \in Nat /\ ticket[a].inner \in Seq(TargetEntries)
      /\ index[a] \in DOMAIN ticket[a].inner
  BY Zenon, <1>3, IsThere, InnerTyped
<1>5. \A j \in DOMAIN ticket[a].inner : ticket[a].inner[j].of # "bad"
  <2>1. MayBe(ticket[a], step[1], index[a])
    BY Zenon, <1>1 DEF ReceiptsInv, AttemptInv, AtTarget
  <2>2. QED
    BY <1>3, <2>1 DEF MayBe
<1>6. ASSUME NEW at \in {"initialize", "connect", "open"}, NEW i \in DOMAIN ticket[a].inner
      PROVE  MayBe(ticket[a], at, i)
  BY <1>5 DEF MayBe, Early, Looping
<1>7. /\ index[a] < Len(ticket[a].inner) => index[a] + 1 \in DOMAIN ticket[a].inner
      /\ 1 \in DOMAIN ticket[a].inner
  BY <1>4
<1>8. CASE Advance(a, step[1], step[2])
  <2>1. index[a] < Len(ticket[a].inner) => MayBe(ticket[a], step[1], index[a] + 1)
    BY Zenon, <1>3, <1>6, <1>7
  <2>2. MayBe(ticket[a], step[2], 1)
    BY Zenon, <1>3, <1>6, <1>7
  <2>3. QED
    BY Zenon, <1>2, <1>3, <1>8, <2>1, <2>2, AdvanceKeeps
<1>9. QED
  BY Zenon, <1>1, <1>2, <1>3, <1>8, RefuseKeeps, TargetFailKeeps

-----------------------------------------------------------------------------
(* Reports *)

\* The look-up of a proof sends nothing.
LEMMA LooksUpKeeps ==
  ASSUME ReceiptsInv, NEW a \in Attempts, LooksUpTicket(a)
  PROVE  ReceiptsInv'
<1>1. /\ attempt[a] = "report" /\ UNCHANGED <<ticket, index, posted, recorded>>
      /\ Go(a, "post") \/ Unavailable(a)
  BY Zenon DEF LooksUpTicket, historyVars
<1>2. CASE Go(a, "post")
  <2>1. /\ TicketsTyped' /\ attempt'[a] = "post" /\ UNCHANGED <<code, todo>>
        /\ \A b \in Attempts \ {a} : Untouched(b)
    BY Zenon, <1>1, <1>2 DEF ReceiptsInv, TicketsTyped, Go, Untouched, Places
  <2>2. AttemptInv(a)'
    <3>1. (Reporting(a) /\ Owed(a))'
      <4>1. Refused(a)' = Refused(a) /\ Grounds(a)' = Grounds(a) /\ TodoHosts(a)' = TodoHosts(a)
        BY Zenon, <1>1, <2>1, SameRefusal DEF TodoHosts
      <4>2. Reporting(a) /\ Owed(a) /\ attempt[a] \in {"report", "post"}
        BY Zenon, <1>1 DEF ReceiptsInv, AttemptInv
      <4>3. QED
        BY Zenon, <1>1, <2>1, <4>1, <4>2 DEF Reporting, Owed
    <3>2. (NothingYet(a) /\ AtTarget(a) /\ Complete(a))'
      BY <2>1 DEF NothingYet, AtTarget, MayBe, Complete, Early, Looping
    <3>3. QED
      BY Zenon, <3>1, <3>2 DEF AttemptInv
  <2>3. QED
    BY Zenon, <2>1, <2>2, UntouchedKeeps DEF ReceiptsInv
<1>3. QED
  BY Zenon, <1>1, <1>2, UnavailableKeeps

\* A receipt is sent for a host that has none yet.
LEMMA PostsKeeps ==
  ASSUME ReceiptsInv, NEW a \in Attempts, Posts(a)
  PROVE  ReceiptsInv'
<1> DEFINE i == NextTarget(a)
           h == NextHost(a)
<1>1. /\ attempt[a] = "post" /\ UNCHANGED <<ticket, index>>
      /\ posted' = [posted EXCEPT ![a] = [posted[a] EXCEPT ![h] = @ + 1]]
      /\ recorded' \in {recorded, [recorded EXCEPT ![a] = recorded[a] \cup {h}]}
  BY Zenon DEF Posts, Recorded
<1>2. Reporting(a) /\ Owed(a) /\ TicketsTyped /\ attempt[a] \in {"report", "post"}
  BY Zenon, <1>1 DEF ReceiptsInv, AttemptInv
<1>3. i \in todo[a]
  BY Zenon, <1>2, NextIsTodo DEF Reporting, TicketsTyped
<1>4. h = ticket[a].inner[i].host /\ h \in TodoHosts(a) /\ h \in Refused(a) /\ h \in Hosts /\ posted[a][h] = 0
  BY Zenon, <1>2, <1>3 DEF NextHost, TodoHosts, Reporting
<1>5. Refused(a)' = Refused(a) /\ Grounds(a)' /\ Grounds(a)
  BY Zenon, <1>1, <1>2, SameRefusal DEF Reporting
<1>6. posted'[a] \in [Hosts -> Nat] /\ \A g \in Hosts : posted'[a][g] = IF g = h THEN 1 ELSE posted[a][g]
  BY <1>1, <1>2, <1>4 DEF TicketsTyped
<1>7. Owed(a)'
  BY Zenon, <1>2, <1>4, <1>5, <1>6 DEF Owed
<1>8. /\ posted' \in [Attempts -> [Hosts -> Nat]] /\ recorded' \in [Attempts -> SUBSET Hosts]
      /\ \A b \in Attempts \ {a} : posted'[b] = posted[b] /\ recorded'[b] = recorded[b]
  <2>1. recorded[a] \cup {h} \in SUBSET Hosts
    BY Zenon, <1>2, <1>4 DEF TicketsTyped
  <2>2. recorded' \in [Attempts -> SUBSET Hosts]
    BY Zenon, <1>1, <1>2, <2>1 DEF TicketsTyped
  <2>3. posted' \in [Attempts -> [Hosts -> Nat]]
    BY Zenon, <1>1, <1>2, <1>6 DEF TicketsTyped
  <2>4. QED
    BY Zenon, <1>1, <1>2, <2>2, <2>3 DEF TicketsTyped
<1>9. CASE Unavailable(a)
  <2>1. /\ TicketsTyped' /\ attempt'[a] = "answered" /\ code'[a] = "AuditUnavailable"
        /\ \A b \in Attempts \ {a} : Untouched(b)
    BY Zenon, <1>1, <1>2, <1>8, <1>9 DEF TicketsTyped, Unavailable, Untouched, Places, Codes
  <2>2. AttemptInv(a)'
    BY <1>7, <2>1 DEF AttemptInv, NothingYet, AtTarget, MayBe, Reporting, Complete, Definite, Early, Looping
  <2>3. QED
    BY Zenon, <2>1, <2>2, UntouchedKeeps DEF ReceiptsInv
<1>10. CASE Recorded(a) /\ Accepted(a)
  <2>1. recorded'[a] = recorded[a] \cup {h}
    BY Zenon, <1>2, <1>10 DEF Recorded, TicketsTyped
  <2>2. /\ todo' = [todo EXCEPT ![a] = todo[a] \ {i}]
        /\ attempt' = [attempt EXCEPT ![a] = IF todo[a] = {i} THEN "answered" ELSE "report"]
        /\ UNCHANGED code
    BY Zenon, <1>10 DEF Accepted
  <2>3. /\ TicketsTyped' /\ todo'[a] = todo[a] \ {i}
        /\ attempt'[a] = IF todo[a] = {i} THEN "answered" ELSE "report"
        /\ \A b \in Attempts \ {a} : Untouched(b)
    <3>1. todo' \in [Attempts -> SUBSET Nat] /\ attempt' \in [Attempts -> Places]
      BY Zenon, <1>2, <2>2 DEF TicketsTyped, Places
    <3>2. TicketsTyped'
      BY Zenon, <1>1, <1>2, <1>8, <2>2, <3>1 DEF TicketsTyped
    <3>3. QED
      BY Zenon, <1>1, <1>2, <1>8, <2>2, <3>2 DEF TicketsTyped, Untouched
  <2>4. CASE todo[a] = {i}
    <3>1. TodoHosts(a) = {h}
      BY Zenon, <1>4, <2>4 DEF TodoHosts
    <3>2. recorded'[a] = Refused(a)
      BY Zenon, <1>2, <2>1, <3>1 DEF Reporting
    <3>3. AttemptInv(a)'
      <4>1. attempt'[a] = "answered" /\ recorded'[a] = Refused(a)'
        BY Zenon, <1>5, <2>3, <2>4, <3>2
      <4>2. (NothingYet(a) /\ AtTarget(a) /\ Reporting(a))'
        BY <4>1 DEF NothingYet, AtTarget, MayBe, Reporting, Early, Looping
      <4>3. QED
        BY Zenon, <1>7, <4>1, <4>2 DEF AttemptInv, Complete
    <3>4. QED
      BY Zenon, <2>3, <3>3, UntouchedKeeps DEF ReceiptsInv
  <2>5. CASE todo[a] # {i}
    <3>1. TodoHosts(a)' = TodoHosts(a) \ {h}
      BY <1>1, <1>2, <1>3, <1>4, <2>3 DEF TodoHosts, Reporting
    <3>2. todo'[a] # {}
      BY Zenon, <1>3, <2>3, <2>5
    <3>3. recorded'[a] \cup TodoHosts(a)' = Refused(a)
      BY Zenon, <1>2, <1>4, <2>1, <3>1 DEF Reporting
    <3>4. \A g \in TodoHosts(a)' : g \in Hosts /\ posted'[a][g] = 0
      BY Zenon, <1>2, <1>6, <3>1 DEF Reporting
    <3>5. \A j, k \in todo'[a] : ticket'[a].inner[j].host = ticket'[a].inner[k].host => j = k
      BY Zenon, <1>1, <1>2, <2>3 DEF Reporting
    <3>6. todo'[a] \subseteq DOMAIN ticket'[a].inner
      BY Zenon, <1>1, <1>2, <2>3 DEF Reporting
    <3>7. Reporting(a)'
      BY Zenon, <1>5, <3>2, <3>3, <3>4, <3>5, <3>6 DEF Reporting
    <3>8. AttemptInv(a)'
      <4>1. attempt'[a] = "report"
        BY Zenon, <2>3, <2>5
      <4>2. (NothingYet(a) /\ AtTarget(a) /\ Complete(a))'
        BY <4>1 DEF NothingYet, AtTarget, MayBe, Complete, Early, Looping
      <4>3. QED
        BY Zenon, <1>7, <3>7, <4>2 DEF AttemptInv
    <3>9. QED
      BY Zenon, <2>3, <3>8, UntouchedKeeps DEF ReceiptsInv
  <2>6. QED
    BY Zenon, <2>4, <2>5
<1>11. QED
  BY Zenon, <1>9, <1>10 DEF Posts

\* Every step preserves the invariant.
LEMMA ReceiptsStep == ReceiptsInv /\ [ReceiptsNext]_receiptVars => ReceiptsInv'
<1> SUFFICES ASSUME ReceiptsInv, [ReceiptsNext]_receiptVars PROVE ReceiptsInv'
  BY Zenon
<1>1. ASSUME UNCHANGED <<attempt, ticket, index, code, todo, posted, recorded>> PROVE ReceiptsInv'
  <2>1. TicketsTyped' /\ \A b \in Attempts : Untouched(b)
    BY Zenon, <1>1 DEF ReceiptsInv, TicketsTyped, Untouched
  <2>2. QED
    BY Zenon, <2>1, UntouchedKeeps DEF ReceiptsInv
<1>2. ASSUME NEW a \in Attempts,
             \/ Arrives(a) \/ Authenticates(a) \/ ChecksGrant(a)
             \/ Upgrades(a) \/ ParsesTargets(a)
             \/ FindsBackend(a) \/ RequiresKeyBackend(a) \/ ParsesInner(a) \/ UsesBackend(a)
             \/ LooksUpTicket(a) \/ Posts(a)
      PROVE  ReceiptsInv'
  BY Zenon, <1>2, AuthenticatesKeeps, ParsesTargetsKeeps, FindsBackendKeeps, ParsesInnerKeeps,
     UsesBackendKeeps, LooksUpKeeps, PostsKeeps
<1>3. CASE \/ \E a \in Attempts : TicketExpires(a)
           \/ \E h \in Hosts : AgentComesOrGoes(h)
           \/ UNCHANGED receiptVars
  BY Zenon, <1>1, <1>3 DEF TicketExpires, AgentComesOrGoes, historyVars, receiptVars
<1>4. QED
  BY Zenon, <1>2, <1>3 DEF ReceiptsNext

\* Whoever is refused with a definite code has left a receipt for every host the
\* refusal is about: all of the ticket, or the target the handler stopped at.
THEOREM RefusalsAreComplete == ReceiptsSpec => []DefiniteIsComplete
<1>1. ReceiptsInv => DefiniteIsComplete
  BY Zenon DEF ReceiptsInv, AttemptInv, Complete, DefiniteIsComplete
<1>2. QED
  BY ReceiptsInitial, ReceiptsStep, <1>1, PTL DEF ReceiptsSpec

\* A host gets one receipt at most for an attempt, and only from a refusal that is
\* about it, of a Key's ticket that is verified as far as the refusal goes.
THEOREM OnlyOwedReceipts == ReceiptsSpec => []ReceiptsAreOwed
<1>1. ReceiptsInv => ReceiptsAreOwed
  BY Zenon DEF ReceiptsInv, AttemptInv, Owed, ReceiptsAreOwed
<1>2. QED
  BY ReceiptsInitial, ReceiptsStep, <1>1, PTL DEF ReceiptsSpec

-----------------------------------------------------------------------------
(* APIInterceptor: loops over slices *)

\* f is what Kept defines by recursion.
KeptEquation(f, s, I) ==
  f = [i \in 0..Len(s) |->
         IF i = 0 THEN << >> ELSE IF i \in I THEN Append(f[i - 1], s[i]) ELSE f[i - 1]]

\* What Kept defines by recursion exists, and is made of the elements taken.
LEMMA KeptRecursion ==
  ASSUME NEW T, NEW s, Len(s) \in Nat, NEW I, \A i \in 1..Len(s) : i \in I => s[i] \in T
  PROVE  \E f : f \in [0..Len(s) -> Seq(T)] /\ KeptEquation(f, s, I)
<1> DEFINE N == Len(s)
<1> DEFINE S == Seq(T)
<1> DEFINE step == [n \in 1..N |-> [r \in S |-> IF n \in I THEN Append(r, s[n]) ELSE r]]
<1>1. \A n \in 1..N, r \in S : (IF n \in I THEN Append(r, s[n]) ELSE r) \in S
  OBVIOUS
<1>2. << >> \in S /\ N \in Nat
  OBVIOUS
<1> HIDE DEF N, S
<1>3. step \in [1..N -> [S -> S]]
  BY <1>1
<1>4. PICK f : Recurs(f, N, S, << >>, step)
  <2> HIDE DEF step
  <2>1. QED
    BY Zenon, <1>2, <1>3, RecursionExists
<1>5. f \in [0..N -> S] /\ f[0] = << >>
  BY Zenon, <1>4 DEF Recurs
<1>6. ASSUME NEW n \in 1..N PROVE f[n] = IF n \in I THEN Append(f[n - 1], s[n]) ELSE f[n - 1]
  <2>1. f[n - 1] \in S
    BY <1>2, <1>5
  <2>2. f[n] = step[n][f[n - 1]]
    BY Zenon, <1>4 DEF Recurs
  <2>3. QED
    BY Zenon, <2>1, <2>2
<1>7. ASSUME NEW i \in 0..N
      PROVE f[i] = IF i = 0 THEN << >> ELSE IF i \in I THEN Append(f[i - 1], s[i]) ELSE f[i - 1]
  <2>1. i = 0 \/ (i # 0 /\ i \in 1..N)
    BY <1>2
  <2>2. QED
    BY Zenon, <1>5, <1>6, <2>1
<1>8. KeptEquation(f, s, I)
  BY Zenon, <1>5, <1>7 DEF KeptEquation, N
<1>9. QED
  BY Zenon, <1>5, <1>8 DEF N, S

\* A loop takes nothing at first, and then each element whose index is in I.
Takes(s, I, T) ==
  /\ Kept(s, I, 0) = << >>
  /\ \A n \in 0..Len(s) : Kept(s, I, n) \in Seq(T)
  /\ \A n \in 1..Len(s) :
       Kept(s, I, n) = IF n \in I THEN Append(Kept(s, I, n - 1), s[n]) ELSE Kept(s, I, n - 1)

\* What Kept defines by recursion is such a loop, over the elements it takes.
LEMMA KeptSteps ==
  ASSUME NEW T, NEW s, Len(s) \in Nat, NEW I, \A i \in 1..Len(s) : i \in I => s[i] \in T
  PROVE  Takes(s, I, T)
<1> DEFINE g == CHOOSE f : KeptEquation(f, s, I)
<1>1. PICK h : h \in [0..Len(s) -> Seq(T)] /\ KeptEquation(h, s, I)
  BY Zenon, KeptRecursion
<1>2. KeptEquation(g, s, I)
  BY Zenon, <1>1
<1>3. ASSUME NEW n PROVE Kept(s, I, n) = g[n]
  BY Zenon DEF Kept, KeptEquation
<1> HIDE DEF g
<1>4. \A i \in 0..Len(s) :
        g[i] = IF i = 0 THEN << >> ELSE IF i \in I THEN Append(g[i - 1], s[i]) ELSE g[i - 1]
  BY Zenon, <1>2 DEF KeptEquation
<1>5. g[0] = << >>
  BY <1>4
<1>6. ASSUME NEW n \in 1..Len(s)
      PROVE  g[n] = IF n \in I THEN Append(g[n - 1], s[n]) ELSE g[n - 1]
  <2>1. n # 0 /\ n \in 0..Len(s)
    OBVIOUS
  <2>2. QED
    BY Zenon, <1>4, <2>1
<1> DEFINE G == {n \in 0..Len(s) : g[n] \in Seq(T)}
<1>7. 0 \in G
  <2>1. 0 \in 0..Len(s) /\ << >> \in Seq(T)
    OBVIOUS
  <2>2. QED
    BY Zenon, <1>5, <2>1
<1>8. ASSUME NEW n \in 1..Len(s), n - 1 \in G PROVE n \in G
  <2>1. g[n - 1] \in Seq(T)
    BY Zenon, <1>8
  <2>2. ASSUME NEW r \in Seq(T), n \in I PROVE Append(r, s[n]) \in Seq(T)
    <3>1. s[n] \in T
      BY Zenon, <2>2
    <3>2. QED
      BY <3>1
  <2>3. n \in 0..Len(s)
    OBVIOUS
  <2>4. QED
    BY Zenon, <1>6, <2>1, <2>2, <2>3
<1>9. \A n \in 0..Len(s) : n \in G
  <2> HIDE DEF G
  <2>1. QED
    BY Zenon, <1>7, <1>8, BoundedInduction
<1>10. QED
  BY Zenon, <1>3, <1>5, <1>6, <1>9 DEF Takes

\* f is what Flat defines by recursion.
FlatEquation(f, ss) ==
  f = [i \in 0..Len(ss) |-> IF i = 0 THEN << >> ELSE f[i - 1] \o ss[i]]

\* A nested loop goes through elements of the slices.
LEMMA FlatTyped ==
  ASSUME NEW T, NEW ss, Len(ss) \in Nat, \A i \in 1..Len(ss) : ss[i] \in Seq(T)
  PROVE  Flat(ss) \in Seq(T)
<1> DEFINE N == Len(ss)
<1> DEFINE S == Seq(T)
<1> DEFINE step == [n \in 1..N |-> [r \in S |-> r \o ss[n]]]
<1>1. \A n \in 1..N, r \in S : r \o ss[n] \in S
  OBVIOUS
<1>2. << >> \in S /\ N \in Nat
  OBVIOUS
<1> HIDE DEF N, S
<1>3. step \in [1..N -> [S -> S]]
  BY <1>1
<1>4. PICK f : Recurs(f, N, S, << >>, step)
  <2> HIDE DEF step
  <2>1. QED
    BY Zenon, <1>2, <1>3, RecursionExists
<1>5. f \in [0..N -> S] /\ f[0] = << >>
  BY Zenon, <1>4 DEF Recurs
<1>6. ASSUME NEW n \in 1..N PROVE f[n] = f[n - 1] \o ss[n]
  <2>1. f[n - 1] \in S
    BY <1>2, <1>5
  <2>2. f[n] = step[n][f[n - 1]]
    BY Zenon, <1>4 DEF Recurs
  <2>3. QED
    BY Zenon, <2>1, <2>2
<1>7. ASSUME NEW i \in 0..N PROVE f[i] = IF i = 0 THEN << >> ELSE f[i - 1] \o ss[i]
  <2>1. i = 0 \/ (i # 0 /\ i \in 1..N)
    BY <1>2
  <2>2. QED
    BY Zenon, <1>5, <1>6, <2>1
<1>8. FlatEquation(f, ss)
  BY Zenon, <1>5, <1>7 DEF FlatEquation, N
<1> DEFINE g == CHOOSE h : FlatEquation(h, ss)
<1>9. FlatEquation(g, ss)
  BY Zenon, <1>8
<1>10. Flat(ss) = g[N]
  BY Zenon DEF Flat, FlatEquation, N
<1> HIDE DEF g
<1>11. \A i \in 0..N : g[i] = IF i = 0 THEN << >> ELSE g[i - 1] \o ss[i]
  BY Zenon, <1>9 DEF FlatEquation, N
<1> DEFINE G == {n \in 0..N : g[n] \in S}
<1>12. 0 \in G
  <2>1. 0 \in 0..N
    BY <1>2
  <2>2. QED
    BY Zenon, <1>2, <1>11, <2>1
<1>13. ASSUME NEW n \in 1..N, n - 1 \in G PROVE n \in G
  <2>1. n # 0 /\ n \in 0..N
    BY <1>2
  <2>2. g[n - 1] \in S
    BY Zenon, <1>13
  <2>3. QED
    BY Zenon, <1>1, <1>11, <2>1, <2>2
<1>14. \A n \in 0..N : n \in G
  <2> HIDE DEF G
  <2>1. QED
    BY Zenon, <1>2, <1>12, <1>13, BoundedInduction
<1>15. N \in 0..N
  BY <1>2
<1>16. QED
  BY Zenon, <1>10, <1>14, <1>15 DEF S

-----------------------------------------------------------------------------
(* The filters of a router *)

\* The filters of the file that the router was built from.
Of(g) == Range(Files[built[g]])

\* The elements of a sequence over S.
LEMMA SequenceOver ==
  ASSUME NEW S, NEW s \in Seq(S)
  PROVE  Len(s) \in Nat /\ \A i \in 1..Len(s) : s[i] \in S
OBVIOUS

\* Those of a loop that takes all it is to take.
LEMMA ThoseTyped ==
  ASSUME NEW T, NEW s, Len(s) \in Nat, NEW I, \A i \in 1..Len(s) : i \in I => s[i] \in T
  PROVE  Those(s, I) \in Seq(T)
<1>1. Len(s) \in 0..Len(s)
  OBVIOUS
<1>2. QED
  BY Zenon, <1>1, KeptSteps DEF Takes, Those

\* The same for a sequence all of whose elements are in S.
LEMMA LoopOver ==
  ASSUME NEW S, NEW s \in Seq(S), NEW I
  PROVE  Takes(s, I, S)
<1>1. Len(s) \in Nat /\ \A i \in 1..Len(s) : i \in I => s[i] \in S
  BY Zenon, SequenceOver
<1>2. QED
  BY Zenon, <1>1, KeptSteps

PathEntries(g) == {[path |-> f.paths[j], filter |-> f] : f \in Of(g), j \in Nat}

\* A router is built from entries that pair a filter of the file with one of its paths.
LEMMA FilterPathsTyped ==
  ASSUME NEW g, built[g] \in DOMAIN Files
  PROVE  FilterPaths(g) \in Seq(PathEntries(g))
<1> DEFINE fs == Files[built[g]]
<1> DEFINE T == PathEntries(g)
<1> DEFINE Row(i) == [j \in 1..Len(fs[i].paths) |-> [path |-> fs[i].paths[j], filter |-> fs[i]]]
<1> DEFINE ss == [i \in 1..Len(fs) |-> Row(i)]
<1>1. fs \in Seq(Of(g)) /\ \A f \in Of(g) : f.paths \in Seq(Range(f.paths))
  BY Zenon, InterceptorAssumption DEF Of
<1>2. ASSUME NEW i \in 1..Len(fs) PROVE Row(i) \in Seq(T)
  <2>1. fs[i] \in Of(g)
    BY <1>1
  <2>2. Len(fs[i].paths) \in Nat
    <3>1. fs[i].paths \in Seq(Range(fs[i].paths))
      BY Zenon, <1>1, <2>1
    <3>2. QED
      BY <3>1
  <2>3. \A j \in Nat : [path |-> fs[i].paths[j], filter |-> fs[i]] \in T
    BY <2>1 DEF PathEntries
  <2> HIDE DEF T
  <2>4. \A j \in 1..Len(fs[i].paths) : [path |-> fs[i].paths[j], filter |-> fs[i]] \in T
    BY <2>2, <2>3
  <2>5. Row(i) \in [1..Len(fs[i].paths) -> T]
    BY Zenon, <2>4
  <2> HIDE DEF Row
  <2>6. QED
    BY <2>2, <2>5
<1>3. Len(fs) \in Nat
  BY <1>1
<1> HIDE DEF fs, T, Row
<1>4. Len(ss) = Len(fs) /\ \A i \in 1..Len(fs) : ss[i] = Row(i)
  BY <1>3
<1> HIDE DEF ss
<1>5. Flat(ss) \in Seq(T)
  BY Zenon, <1>2, <1>3, <1>4, FlatTyped
<1>6. QED
  BY Zenon, <1>5 DEF FilterPaths, ss, Row, fs, T

\* pathPreFilters holds filters of the file.
LEMMA PreFiltersTyped ==
  ASSUME NEW g, built[g] \in DOMAIN Files, NEW p
  PROVE  PreFilters(g, p) \in Seq(Of(g))
<1> DEFINE T == PathEntries(g)
<1> DEFINE es == FilterPaths(g)
<1> DEFINE I == {i \in 1..Len(es) : es[i].path = p}
<1> DEFINE own == Those(es, I)
<1>1. \A e \in T : e.filter \in Of(g)
  BY DEF PathEntries
<1>2. es \in Seq(T)
  BY Zenon, FilterPathsTyped
<1> HIDE DEF T, es
<1>3. Len(es) \in Nat /\ \A i \in 1..Len(es) : es[i] \in T
  BY <1>2
<1>4. own \in Seq(T)
  <2> HIDE DEF I
  <2>1. QED
    BY Zenon, <1>3, ThoseTyped
<1>5. PreFilters(g, p) = [i \in 1..Len(own) |-> own[i].filter]
  BY Zenon DEF PreFilters, es
<1> HIDE DEF own
<1>6. Len(own) \in Nat /\ \A i \in 1..Len(own) : own[i] \in T
  BY <1>4
<1>7. PreFilters(g, p) \in [1..Len(own) -> Of(g)]
  BY Zenon, <1>1, <1>5, <1>6
<1>8. QED
  BY <1>6, <1>7

\* The path templates that are matched match.
LEMMA MatchedTyped ==
  ASSUME NEW g, built[g] \in DOMAIN Files, NEW u, NEW m
  PROVE  Matched(g, u, m) \in Seq(Matching[u])
<1> DEFINE T == {e \in PathEntries(g) : e.path \in Matching[u]}
<1> DEFINE es == FilterPaths(g)
<1> DEFINE I == {i \in 1..Len(es) : m \in es[i].filter.methods /\ es[i].path \in Matching[u]}
<1> DEFINE all == Those(es, I)
<1> DEFINE J == {i \in 1..Len(all) : \A j \in 1..i - 1 : all[j].path # all[i].path}
<1> DEFINE first == Those(all, J)
<1>1. es \in Seq(PathEntries(g))
  BY Zenon, FilterPathsTyped
<1> HIDE DEF es
<1>2. Len(es) \in Nat /\ \A i \in 1..Len(es) : es[i] \in PathEntries(g)
  BY <1>1
<1>3. \A i \in 1..Len(es) : i \in I => es[i] \in T
  BY Zenon, <1>2
<1>4. \A e \in T : e.path \in Matching[u]
  BY Zenon
<1>5. Matched(g, u, m) = [i \in 1..Len(first) |-> first[i].path]
  BY Zenon DEF Matched, es
<1> HIDE DEF T, I
<1>6. all \in Seq(T)
  BY Zenon, <1>2, <1>3, ThoseTyped
<1> HIDE DEF all
<1>7. Len(all) \in Nat /\ \A i \in 1..Len(all) : all[i] \in T
  BY <1>6
<1> HIDE DEF J
<1>8. first \in Seq(T)
  BY Zenon, <1>7, ThoseTyped
<1> HIDE DEF first
<1>9. Len(first) \in Nat /\ \A i \in 1..Len(first) : first[i] \in T
  BY <1>8
<1>10. Matched(g, u, m) \in [1..Len(first) -> Matching[u]]
  BY Zenon, <1>4, <1>5, <1>9
<1>11. QED
  BY <1>9, <1>10

-----------------------------------------------------------------------------
(* A request on its way through the filters *)

\* A request that a router with the filters S serves.
Flights(g, S) ==
  [at : {"merge", "forwarded"}, gen : {g}, path : Templates, method : HTTPMethods,
   url : DOMAIN Matching, others : Seq(S), copy : Seq(S), extra : Nat, next : Nat \ {0}, ran : Seq(S)]

StartsWith(s, r) == Len(r) <= Len(s) /\ \A i \in 1..Len(r) : s[i] = r[i]

\* It ran the filters of its template up to next, or all of them at first.
Passed(q, own) ==
  IF q.next <= Len(own) + 1 THEN q.ran = Kept(own, For(own, q.method), q.next - 1)
  ELSE StartsWith(q.ran, Those(own, For(own, q.method)))

\* own are the filters of its template, of whose array len spare elements were written.
Consistent(q, own, len) ==
  /\ q.copy # << >> => StartsWith(q.copy, own)
  /\ q.copy = << >> => q.extra <= len
  /\ q.others # << >> => q.at = "merge" /\ q.next = 1 /\ q.ran = << >>
  /\ q.at = "forwarded" => q.next > Len(own)
  /\ Passed(q, own)

\* More spare elements do no harm.
LEMMA MoreSpare ==
  ASSUME NEW g, NEW S, NEW q \in Flights(g, S), NEW own, NEW m \in Nat, NEW n \in Nat, m <= n,
         Consistent(q, own, m)
  PROVE  Consistent(q, own, n)
<1>1. q.extra \in Nat
  BY Zenon DEF Flights
<1>2. q.extra <= m => q.extra <= n
  BY <1>1
<1>3. QED
  BY Zenon, <1>2 DEF Consistent

\* Dispatch: the first state of a request.
LEMMA DispatchedRequest ==
  ASSUME NEW g, NEW S, NEW p \in Templates, NEW m \in HTTPMethods, NEW u \in DOMAIN Matching,
         NEW others \in Seq(S), NEW own \in Seq(S), NEW len \in Nat, NEW q,
         q = [NewRequest EXCEPT !.at = "merge", !.gen = g, !.url = u, !.method = m, !.path = p,
                                !.others = others]
  PROVE  q \in Flights(g, S) /\ Consistent(q, own, len)
<1> DEFINE P == Templates \cup {""}
<1> DEFINE M == HTTPMethods \cup {""}
<1> DEFINE U == DOMAIN Matching \cup {""}
<1> DEFINE R == [at : {"new", "merge"}, gen : {0, g}, path : P, method : M, url : U, others : Seq(S),
                 copy : Seq(S), extra : Nat, next : Nat \ {0}, ran : Seq(S)]
<1>1. NewRequest \in R
  <2>1. << >> \in Seq(S) /\ 0 \in Nat /\ 1 \in Nat \ {0} /\ "" \in P /\ "" \in M /\ "" \in U
    OBVIOUS
  <2> HIDE DEF P, M, U
  <2>2. QED
    BY Zenon, <2>1 DEF NewRequest
<1>2. q \in Flights(g, S)
  <2>1. p \in P /\ m \in M /\ u \in U
    OBVIOUS
  <2> HIDE DEF P, M, U
  <2>2. q \in R
    BY Zenon, <1>1, <2>1
  <2>3. /\ q.at \in {"merge", "forwarded"} /\ q.gen \in {g}
        /\ q.path \in Templates /\ q.method \in HTTPMethods /\ q.url \in DOMAIN Matching
    BY Zenon, <1>1
  <2>4. QED
    BY Zenon, <2>2, <2>3 DEF Flights
<1>3. q.at = "merge" /\ q.copy = << >> /\ q.extra = 0 /\ q.next = 1 /\ q.ran = << >>
  BY DEF NewRequest
<1>4. Kept(own, For(own, q.method), 0) = << >>
  BY Zenon, LoopOver DEF Takes
<1>5. Passed(q, own)
  <2>1. 1 <= Len(own) + 1 /\ 1 - 1 = 0
    OBVIOUS
  <2>2. QED
    BY Zenon, <1>3, <1>4, <2>1 DEF Passed
<1>6. 0 <= len
  OBVIOUS
<1>7. QED
  BY Zenon, <1>2, <1>3, <1>5, <1>6 DEF Consistent

\* containsFilter found a duplicate, or append wrote into the array, or into a copy.
LEMMA MergedRequest ==
  ASSUME NEW g, NEW S, NEW q \in Flights(g, S), NEW own \in Seq(S), NEW len \in Nat,
         Consistent(q, own, len), q.others # << >>, NEW els \in Seq(S), StartsWith(els, own),
         NEW rest, rest = [q EXCEPT !.others = Tail(@)]
  PROVE  /\ rest \in Flights(g, S) /\ Consistent(rest, own, len)
         /\ LET r == [rest EXCEPT !.extra = @ + 1] IN
            r \in Flights(g, S) /\ \A n \in Nat : q.extra + 1 <= n => Consistent(r, own, n)
         /\ LET r == [rest EXCEPT !.copy = Append(els, Head(q.others))] IN
            r \in Flights(g, S) /\ Consistent(r, own, len)
<1>1. /\ q.others \in Seq(S) /\ q.copy \in Seq(S) /\ q.extra \in Nat /\ q.ran \in Seq(S)
      /\ q.next \in Nat
  BY Zenon DEF Flights
<1>2. q.at = "merge" /\ q.next = 1 /\ q.ran = << >>
  BY Zenon DEF Consistent
<1>3. Tail(q.others) \in Seq(S) /\ Head(q.others) \in S
  BY <1>1
<1>4. rest \in Flights(g, S)
  BY Zenon, <1>3 DEF Flights
<1>5. /\ rest.at = q.at /\ rest.method = q.method /\ rest.copy = q.copy /\ rest.extra = q.extra
      /\ rest.next = q.next /\ rest.ran = q.ran
  BY Zenon DEF Flights
<1>6. Consistent(rest, own, len)
  BY Zenon, <1>2, <1>5 DEF Consistent, Passed
<1>7. LET r == [rest EXCEPT !.extra = @ + 1] IN
      r \in Flights(g, S) /\ \A n \in Nat : q.extra + 1 <= n => Consistent(r, own, n)
  <2> DEFINE r == [rest EXCEPT !.extra = @ + 1]
  <2>1. rest.extra + 1 \in Nat
    BY <1>1, <1>5
  <2>2. r \in Flights(g, S)
    BY Zenon, <1>4, <2>1 DEF Flights
  <2>3. /\ r.at = q.at /\ r.method = q.method /\ r.copy = q.copy /\ r.extra = q.extra + 1
        /\ r.next = q.next /\ r.ran = q.ran
    BY Zenon, <1>4, <1>5 DEF Flights
  <2> HIDE DEF r
  <2>4. \A n \in Nat : q.extra + 1 <= n => Consistent(r, own, n)
    BY Zenon, <1>2, <2>3 DEF Consistent, Passed
  <2>5. QED
    BY Zenon, <2>2, <2>4 DEF r
<1>8. LET r == [rest EXCEPT !.copy = Append(els, Head(q.others))] IN
      r \in Flights(g, S) /\ Consistent(r, own, len)
  <2> DEFINE cp == Append(els, Head(q.others))
  <2> DEFINE r == [rest EXCEPT !.copy = cp]
  <2>1. cp \in Seq(S) /\ cp # << >> /\ StartsWith(cp, own)
    BY <1>3 DEF StartsWith
  <2> HIDE DEF cp
  <2>2. r \in Flights(g, S)
    BY Zenon, <1>4, <2>1 DEF Flights
  <2>3. /\ r.at = q.at /\ r.method = q.method /\ r.copy = cp
        /\ r.next = q.next /\ r.ran = q.ran
    BY Zenon, <1>4, <1>5 DEF Flights
  <2> HIDE DEF r
  <2>4. Consistent(r, own, len)
    BY Zenon, <1>2, <2>1, <2>3 DEF Consistent, Passed
  <2>5. QED
    BY Zenon, <2>2, <2>4 DEF r, cp
<1>9. QED
  BY Zenon, <1>4, <1>6, <1>7, <1>8

\* A sequence that is appended to starts as it did.
LEMMA AppendStarts ==
  ASSUME NEW S, NEW s \in Seq(S), NEW r \in Seq(S), StartsWith(s, r), NEW f \in S
  PROVE  StartsWith(Append(s, f), r)
BY DEF StartsWith

\* The loop over the filters goes on: q before, r after the filter f.
LEMMA PassedOne ==
  ASSUME NEW S, NEW own \in Seq(S), NEW f \in S, NEW q, NEW r, q.next \in Nat \ {0}, q.ran \in Seq(S),
         q.next <= Len(own) => f = own[q.next], r.next = q.next + 1, r.method = q.method,
         r.ran = IF q.method \in f.methods /\ f.known THEN Append(q.ran, f) ELSE q.ran,
         Passed(q, own)
  PROVE  Passed(r, own)
<1> DEFINE I == For(own, q.method)
<1> DEFINE all == Those(own, I)
<1>1. Takes(own, I, S)
  <2> HIDE DEF I
  <2>1. QED
    BY Zenon, LoopOver
<1>2. CASE q.next <= Len(own)
  <2>1. q.next \in 1..Len(own) /\ q.next <= Len(own) + 1 /\ r.next <= Len(own) + 1 /\ r.next - 1 = q.next
    BY <1>2
  <2>2. q.ran = Kept(own, I, q.next - 1)
    BY Zenon, <2>1 DEF Passed
  <2>3. Kept(own, I, q.next) = IF q.next \in I THEN Append(q.ran, own[q.next]) ELSE q.ran
    BY Zenon, <1>1, <2>1, <2>2 DEF Takes
  <2>4. q.next \in I <=> q.method \in own[q.next].methods /\ own[q.next].known
    BY Zenon, <2>1 DEF For
  <2> HIDE DEF I
  <2>5. r.ran = Kept(own, I, q.next)
    BY Zenon, <1>2, <2>3, <2>4
  <2>6. QED
    BY Zenon, <2>1, <2>5 DEF Passed, I
<1>3. CASE ~(q.next <= Len(own))
  <2>1. ~(r.next <= Len(own) + 1) /\ Len(own) \in 0..Len(own)
    BY <1>3
  <2>2. all \in Seq(S)
    BY Zenon, <1>1, <2>1 DEF Takes, Those
  <2>3. StartsWith(q.ran, all)
    <3>1. CASE q.next <= Len(own) + 1
      <4>1. q.next - 1 = Len(own)
        BY <1>3, <3>1
      <4>2. q.ran = all
        BY Zenon, <3>1, <4>1 DEF Passed, Those
      <4>3. QED
        BY <2>2, <4>2 DEF StartsWith
    <3>2. CASE ~(q.next <= Len(own) + 1)
      BY Zenon, <3>2 DEF Passed
    <3>3. QED
      BY Zenon, <3>1, <3>2
  <2>4. StartsWith(r.ran, all)
    <3> HIDE DEF all
    <3>1. QED
      BY Zenon, <2>2, <2>3, AppendStarts
  <2>5. QED
    BY Zenon, <2>1, <2>4 DEF Passed
<1>4. QED
  BY Zenon, <1>2, <1>3

\* A filter let the request pass, or was not for it.
LEMMA FilteredRequest ==
  ASSUME NEW g, NEW S, NEW q \in Flights(g, S), NEW own \in Seq(S), NEW len \in Nat,
         Consistent(q, own, len), q.at = "merge", q.others = << >>,
         NEW els \in Seq(S), StartsWith(els, own), q.next <= Len(els),
         NEW f, f = els[q.next], NEW r \in Flights(g, S),
         r.at = q.at, r.method = q.method, r.others = q.others, r.copy = q.copy, r.extra = q.extra,
         r.next = q.next + 1,
         r.ran = IF q.method \in f.methods /\ f.known THEN Append(q.ran, f) ELSE q.ran
  PROVE  Consistent(r, own, len)
<1>1. q.next \in Nat \ {0} /\ q.ran \in Seq(S)
  BY Zenon DEF Flights
<1>2. f \in S /\ (q.next <= Len(own) => f = own[q.next])
  BY <1>1 DEF StartsWith
<1>3. Passed(q, own)
  BY Zenon DEF Consistent
<1>4. Passed(r, own)
  BY Zenon, <1>1, <1>2, <1>3, PassedOne
<1>5. QED
  BY Zenon, <1>4 DEF Consistent

\* The loop has ended.
LEMMA ForwardedRequest ==
  ASSUME NEW g, NEW S, NEW q \in Flights(g, S), NEW own \in Seq(S), NEW len \in Nat,
         Consistent(q, own, len), q.others = << >>,
         NEW els \in Seq(S), StartsWith(els, own), q.next > Len(els),
         NEW r, r = [q EXCEPT !.at = "forwarded"]
  PROVE  r \in Flights(g, S) /\ Consistent(r, own, len)
<1>1. q.next \in Nat \ {0}
  BY Zenon DEF Flights
<1>2. q.next > Len(own)
  BY <1>1 DEF StartsWith
<1>3. r \in Flights(g, S)
  BY Zenon DEF Flights
<1>4. /\ r.method = q.method /\ r.others = q.others /\ r.copy = q.copy /\ r.extra = q.extra
      /\ r.next = q.next /\ r.ran = q.ran
  BY Zenon DEF Flights
<1>5. QED
  BY Zenon, <1>2, <1>3, <1>4 DEF Consistent, Passed

-----------------------------------------------------------------------------
(* The inductive invariant of the interceptor *)

Served(c) ==
  \E g \in 1..Len(built) :
    client[c] \in Flights(g, Of(g)) /\ Consistent(client[c], Own(c), Len(spare[g][client[c].path]))

RequestOK(c) ==
  \/ client[c] = NewRequest \/ client[c] = Answered
  \/ client[c].at = "set" /\ client[c].gen \in 1..Len(built)
  \/ Served(c)

\* What requests wrote behind a slice are filters of its configuration.
SpareOK ==
  /\ DOMAIN spare = 1..MaxBuilt /\ \A g \in 1..MaxBuilt : DOMAIN spare[g] = Templates
  /\ \A g \in 1..Len(built), p \in Templates : spare[g][p] \in Seq(Of(g))
  /\ \A g \in 1..MaxBuilt, p \in Templates : g > Len(built) => spare[g][p] = << >>

RoutersOK ==
  /\ disk \in DOMAIN Files \cup {Invalid}
  /\ built \in Seq(DOMAIN Files) /\ Len(built) <= MaxBuilt /\ router \in 1..Len(built)

InterceptorInv ==
  /\ RoutersOK /\ SpareOK /\ DOMAIN client = Clients \cup Reloads
  /\ \A c \in Clients \cup Reloads : RequestOK(c)

\* Routers and spare elements are only added.
Grown ==
  /\ Len(built) <= Len(built') /\ \A g \in 1..Len(built) : built'[g] = built[g]
  /\ \A g \in 1..Len(built), p \in Templates : Len(spare[g][p]) <= Len(spare'[g][p])

\* A router that was built comes from a file that can be decoded.
LEMMA RouterTyped ==
  ASSUME InterceptorInv, NEW g \in 1..Len(built)
  PROVE  built[g] \in DOMAIN Files /\ g \in 1..MaxBuilt /\ MaxBuilt \in Nat /\ Len(built) \in Nat
BY InterceptorAssumption DEF InterceptorInv, RoutersOK

\* What a request reads of its router stays as it is.
LEMMA SameRouter ==
  ASSUME NEW g, NEW p, built'[g] = built[g]
  PROVE  PreFilters(g, p)' = PreFilters(g, p) /\ Of(g)' = Of(g)
BY Zenon DEF PreFilters, FilterPaths, Of

\* A request that does not move keeps what is said of it while others append and reload.
LEMMA Undisturbed ==
  ASSUME InterceptorInv, Grown, RoutersOK', SpareOK', NEW c \in Clients \cup Reloads,
         client'[c] = client[c]
  PROVE  RequestOK(c)'
<1>1. CASE client[c].at = "set" /\ client[c].gen \in 1..Len(built)
  <2>1. client[c].gen \in 1..Len(built')
    BY <1>1 DEF Grown, InterceptorInv, RoutersOK
  <2>2. QED
    BY Zenon, <1>1, <2>1 DEF RequestOK
<1>2. CASE Served(c)
  <2>1. PICK g \in 1..Len(built) :
          /\ client[c] \in Flights(g, Of(g))
          /\ Consistent(client[c], Own(c), Len(spare[g][client[c].path]))
    BY Zenon, <1>2 DEF Served
  <2> DEFINE p == client[c].path
  <2>2. p \in Templates /\ client[c].gen = g
    BY Zenon, <2>1 DEF Flights
  <2>3. built'[g] = built[g] /\ Len(spare[g][p]) <= Len(spare'[g][p])
    BY Zenon, <2>2 DEF Grown
  <2>4. Own(c)' = Own(c) /\ Of(g)' = Of(g)
    BY Zenon, <2>2, <2>3, SameRouter DEF Own
  <2>5. g \in 1..Len(built')
    BY DEF Grown, InterceptorInv, RoutersOK
  <2>6. Len(spare[g][p]) \in Nat /\ Len(spare'[g][p]) \in Nat
    <3>1. spare[g][p] \in Seq(Of(g)) /\ spare'[g][p] \in Seq(Of(g)')
      BY Zenon, <2>2, <2>5 DEF InterceptorInv, SpareOK
    <3>2. QED
      BY Zenon, <3>1, SequenceOver
  <2>7. Consistent(client[c], Own(c), Len(spare'[g][p]))
    BY Zenon, <2>1, <2>3, <2>6, MoreSpare
  <2>8. QED
    BY Zenon, <2>1, <2>4, <2>5, <2>7 DEF RequestOK, Served
<1>3. QED
  BY Zenon, <1>1, <1>2 DEF InterceptorInv, RequestOK

\* The elements of preFilters start with the filters of the template.
LEMMA ElementsStart ==
  ASSUME InterceptorInv, NEW c, NEW g \in 1..Len(built), client[c] \in Flights(g, Of(g)),
         Consistent(client[c], Own(c), Len(spare[g][client[c].path]))
  PROVE  Own(c) \in Seq(Of(g)) /\ Elements(c) \in Seq(Of(g)) /\ StartsWith(Elements(c), Own(c))
<1> DEFINE q == client[c]
<1>1. /\ q.gen = g /\ q.path \in Templates /\ q.copy \in Seq(Of(g)) /\ q.extra \in Nat
  BY Zenon DEF Flights
<1>2. Own(c) \in Seq(Of(g))
  BY Zenon, <1>1, RouterTyped, PreFiltersTyped DEF Own
<1>3. CASE q.copy # << >>
  BY Zenon, <1>1, <1>2, <1>3 DEF Elements, Consistent
<1>4. CASE q.copy = << >>
  <2> DEFINE sp == spare[g][q.path]
  <2>1. sp \in Seq(Of(g)) /\ q.extra <= Len(sp)
    BY Zenon, <1>1, <1>4 DEF InterceptorInv, SpareOK, Consistent
  <2>2. Elements(c) = Own(c) \o SubSeq(sp, 1, q.extra)
    BY Zenon, <1>1, <1>4 DEF Elements
  <2> HIDE DEF sp, q
  <2>3. SubSeq(sp, 1, q.extra) \in Seq(Of(g))
    BY <1>1, <2>1
  <2>4. QED
    BY <1>2, <2>2, <2>3 DEF StartsWith
<1>5. QED
  BY Zenon, <1>3, <1>4

\* Which requests are new, and which go through the filters.
LEMMA WhichRequest ==
  ASSUME NEW c, RequestOK(c)
  PROVE  /\ client[c].at = "new" => client[c] = NewRequest
         /\ client[c].at = "set" => client[c].gen \in 1..Len(built)
         /\ client[c].at \in {"merge", "forwarded"} => Served(c)
<1>1. NewRequest.at = "new" /\ Answered.at = "answered"
  BY DEF NewRequest, Answered
<1>2. Served(c) => client[c].at \in {"merge", "forwarded"}
  BY Zenon DEF Served, Flights
<1>3. /\ "new" \notin {"merge", "forwarded", "set", "answered"}
      /\ "set" \notin {"merge", "forwarded", "answered"} /\ "answered" \notin {"merge", "forwarded"}
  OBVIOUS
<1>4. QED
  BY Zenon, <1>1, <1>2, <1>3 DEF RequestOK

\* A step of one request leaves the others alone.
LEMMA OneRequestMoves ==
  ASSUME InterceptorInv, RoutersOK', SpareOK', Grown, NEW c \in Clients \cup Reloads, NEW x,
         client' = [client EXCEPT ![c] = x], RequestOK(c)'
  PROVE  InterceptorInv'
<1>1. DOMAIN client' = Clients \cup Reloads
  BY Zenon DEF InterceptorInv
<1>2. ASSUME NEW d \in Clients \cup Reloads, d # c PROVE RequestOK(d)'
  <2>1. client'[d] = client[d]
    BY Zenon, <1>2 DEF InterceptorInv
  <2>2. QED
    BY Zenon, <2>1, Undisturbed
<1>3. QED
  BY Zenon, <1>1, <1>2 DEF InterceptorInv

\* A step that changes neither the routers built nor the spare elements.
LEMMA SpareStays ==
  ASSUME InterceptorInv, UNCHANGED <<built, spare>>
  PROVE  SpareOK' /\ Grown
<1>1. Len(built) <= Len(built)
  BY DEF InterceptorInv, RoutersOK
<1>2. \A g \in 1..Len(built), p \in Templates : Len(spare[g][p]) <= Len(spare[g][p])
  <2> TAKE g \in 1..Len(built), p \in Templates
  <2>1. spare[g][p] \in Seq(Of(g))
    BY Zenon DEF InterceptorInv, SpareOK
  <2>2. Len(spare[g][p]) \in Nat
    BY Zenon, <2>1, SequenceOver
  <2>3. QED
    BY <2>2
<1>3. Grown
  BY Zenon, <1>1, <1>2 DEF Grown
<1>4. QED
  BY Zenon, <1>3 DEF InterceptorInv, SpareOK, Of

\* A step of a request that only reads its router.
LEMMA SlicesStay ==
  ASSUME InterceptorInv, UNCHANGED <<disk, built, router, spare>>
  PROVE  RoutersOK' /\ SpareOK' /\ Grown
BY Zenon, SpareStays DEF InterceptorInv, RoutersOK

\* Dispatch keeps the invariant: the template chosen is one that matches the URL.
LEMMA DispatchKeeps ==
  ASSUME InterceptorInv, NEW c \in Clients, Dispatch(c)
  PROVE  InterceptorInv'
<1>1. c \in Clients \cup Reloads /\ client[c].at = "new" /\ UNCHANGED <<disk, built, router, spare>>
  BY Zenon DEF Dispatch
<1>2. client[c] = NewRequest
  BY Zenon, <1>1, WhichRequest DEF InterceptorInv
<1>3. RoutersOK' /\ SpareOK' /\ Grown
  BY Zenon, <1>1, SlicesStay
<1>4. CASE client' = [client EXCEPT ![c] = Answered]
  <2>1. RequestOK(c)'
    BY Zenon, <1>1, <1>4 DEF RequestOK, InterceptorInv
  <2>2. QED
    BY Zenon, <1>1, <1>3, <1>4, <2>1, OneRequestMoves
<1> DEFINE Ps(u, m) == Matched(router, u, m)
<1> DEFINE Os(ps) == Flat([i \in 1..Len(ps) - 1 |-> PreFilters(router, ps[i + 1])])
<1>5. \/ client' = [client EXCEPT ![c] = Answered]
      \/ \E u \in DOMAIN Matching, m \in HTTPMethods :
           /\ Ps(u, m) # << >>
           /\ client' = [client EXCEPT ![c] =
                [@ EXCEPT !.at = "merge", !.gen = router, !.url = u, !.method = m,
                          !.path = Ps(u, m)[1], !.others = Os(Ps(u, m))]]
  BY Zenon DEF Dispatch
<1>6. ASSUME NEW u \in DOMAIN Matching, NEW m \in HTTPMethods, Ps(u, m) # << >>,
             client' = [client EXCEPT ![c] =
                [@ EXCEPT !.at = "merge", !.gen = router, !.url = u, !.method = m,
                          !.path = Ps(u, m)[1], !.others = Os(Ps(u, m))]]
      PROVE  InterceptorInv'
  <2> DEFINE ps == Ps(u, m)
  <2> DEFINE os == Os(ps)
  <2> DEFINE S == Of(router)
  <2> DEFINE own == PreFilters(router, ps[1])
  <2> DEFINE len == Len(spare[router][ps[1]])
  <2>1. router \in 1..Len(built)
    BY Zenon DEF InterceptorInv, RoutersOK
  <2>2. built[router] \in DOMAIN Files
    BY Zenon, <2>1, RouterTyped
  <2>3. ps \in Seq(Matching[u])
    BY Zenon, <1>6, <2>2, MatchedTyped
  <2>4. ps[1] \in Templates
    <3>1. ps[1] \in Matching[u]
      BY <1>6, <2>3
    <3>2. QED
      BY Zenon, <3>1 DEF Templates
  <2>5. \A p : PreFilters(router, p) \in Seq(S)
    BY Zenon, <2>2, PreFiltersTyped
  <2>6. os \in Seq(S)
    <3> DEFINE ss == [i \in 1..Len(ps) - 1 |-> PreFilters(router, ps[i + 1])]
    <3>1. Len(ps) - 1 \in Nat
      BY <1>6, <2>3
    <3>2. Len(ss) = Len(ps) - 1
      BY <3>1
    <3>3. \A i \in 1..Len(ps) - 1 : ss[i] \in Seq(S)
      BY Zenon, <2>5
    <3>4. os = Flat(ss)
      BY Zenon, <1>6
    <3> HIDE DEF ss
    <3>5. QED
      BY Zenon, <3>1, <3>2, <3>3, <3>4, FlatTyped
  <2>7. len \in Nat
    <3>1. spare[router][ps[1]] \in Seq(S)
      BY Zenon, <2>1, <2>4 DEF InterceptorInv, SpareOK
    <3>2. QED
      BY Zenon, <3>1, SequenceOver
  <2> DEFINE r == [NewRequest EXCEPT !.at = "merge", !.gen = router, !.url = u, !.method = m,
                                     !.path = ps[1], !.others = os]
  <2>8. r.gen = router /\ r.path = ps[1]
    BY DEF NewRequest
  <2>9. client' = [client EXCEPT ![c] = r]
    BY Zenon, <1>1, <1>2, <1>6
  <2>10. client'[c] = r
    BY Zenon, <1>1, <2>9 DEF InterceptorInv
  <2>11. own \in Seq(S)
    BY Zenon, <2>5
  <2> HIDE DEF r, S, own, len
  <2>12. r \in Flights(router, S) /\ Consistent(r, own, len)
    BY Zenon, <2>4, <2>6, <2>7, <2>11, DispatchedRequest DEF r
  <2>13. Own(c)' = own /\ Of(router)' = S
    BY Zenon, <1>1, <2>8, <2>10, SameRouter DEF Own, own, S
  <2>14. Served(c)'
    BY Zenon, <1>1, <2>1, <2>8, <2>10, <2>12, <2>13 DEF Served, len
  <2>15. RequestOK(c)'
    BY Zenon, <2>14 DEF RequestOK
  <2>16. QED
    BY Zenon, <1>1, <1>3, <2>9, <2>15, OneRequestMoves
<1>7. QED
  <2> HIDE DEF Ps, Os
  <2>1. QED
    BY Zenon, <1>4, <1>5, <1>6

\* x consists of a, b and d.
Consists(x, a, b, d) == x = a \o b \o d
HasLength(x, a, b, d) == Len(x) = Len(a) + Len(b) + Len(d)

\* The length of three sequences joined.
LEMMA Joining ==
  ASSUME NEW S, NEW a \in Seq(S), NEW b \in Seq(S), NEW d \in Seq(S), NEW x, Consists(x, a, b, d)
  PROVE  x \in Seq(S) /\ HasLength(x, a, b, d)
<1>1. a \o b \in Seq(S) /\ Len(a \o b) = Len(a) + Len(b)
  OBVIOUS
<1>2. QED
  BY <1>1 DEF Consists, HasLength

\* append in place: an element is written behind the first n, the others stay.
Written(sp, n, f) == SubSeq(sp, 1, n) \o <<f>> \o SubSeq(sp, n + 2, Len(sp))

\* What append leaves in the array is no shorter than before and has the new element.
LEMMA WrittenBehind ==
  ASSUME NEW S, NEW sp \in Seq(S), NEW n \in Nat, n <= Len(sp), NEW f \in S
  PROVE  /\ Written(sp, n, f) \in Seq(S)
         /\ Len(sp) <= Len(Written(sp, n, f)) /\ n + 1 <= Len(Written(sp, n, f))
<1> DEFINE front == SubSeq(sp, 1, n)
<1> DEFINE mid == <<f>>
<1> DEFINE back == SubSeq(sp, n + 2, Len(sp))
<1>1. front \in Seq(S) /\ Len(front) = n
  OBVIOUS
<1>2. mid \in Seq(S) /\ Len(mid) = 1
  OBVIOUS
<1>3. back \in Seq(S) /\ Len(sp) <= n + 1 + Len(back)
  <2>1. CASE n + 2 <= Len(sp)
    BY <2>1
  <2>2. CASE ~(n + 2 <= Len(sp))
    <3>1. back = << >>
      BY <2>2
    <3> HIDE DEF back
    <3>2. QED
      BY <2>2, <3>1
  <2>3. QED
    BY Zenon, <2>1, <2>2
<1> DEFINE new == Written(sp, n, f)
<1>4. Consists(new, front, mid, back)
  BY Zenon DEF Written, Consists
<1> HIDE DEF front, mid, back, new
<1>5. new \in Seq(S) /\ HasLength(new, front, mid, back)
  BY Zenon, <1>1, <1>2, <1>3, <1>4, Joining
<1>6. Len(new) = n + 1 + Len(back)
  BY Zenon, <1>1, <1>2, <1>5 DEF HasLength
<1>7. Len(sp) \in Nat /\ Len(back) \in Nat
  BY Zenon, <1>3, SequenceOver
<1>8. n + 1 <= n + 1 + Len(back)
  BY <1>7
<1>9. QED
  BY Zenon, <1>3, <1>5, <1>6, <1>8 DEF new

\* MergeFilter keeps the invariant, whoever else extends the same slice.
LEMMA MergeKeeps ==
  ASSUME InterceptorInv, NEW c \in Clients, MergeFilter(c)
  PROVE  InterceptorInv'
<1> DEFINE q == client[c]
<1> DEFINE own == Own(c)
<1> DEFINE els == Elements(c)
<1> DEFINE rest == [q EXCEPT !.others = Tail(@)]
<1> DEFINE more == [rest EXCEPT !.extra = @ + 1]
<1> DEFINE copied == [rest EXCEPT !.copy = Append(els, Head(q.others))]
<1>1. c \in Clients \cup Reloads /\ q.at = "merge" /\ q.others # << >> /\ UNCHANGED <<disk, built, router>>
  BY Zenon DEF MergeFilter
<1>2. PICK g \in 1..Len(built) : q \in Flights(g, Of(g)) /\ Consistent(q, own, Len(spare[g][q.path]))
  <2>1. q.at \in {"merge", "forwarded"}
    BY Zenon, <1>1
  <2>2. QED
    BY Zenon, <1>1, <2>1, WhichRequest DEF InterceptorInv, Served
<1> DEFINE S == Of(g)
<1> DEFINE sp == spare[g][q.path]
<1>3. own \in Seq(S) /\ els \in Seq(S) /\ StartsWith(els, own)
  BY Zenon, <1>2, ElementsStart
<1>4. q.gen = g /\ q.path \in Templates /\ q.others \in Seq(S) /\ q.extra \in Nat
  BY Zenon, <1>2 DEF Flights
<1>5. sp \in Seq(S) /\ Len(sp) \in Nat
  <2>1. sp \in Seq(S)
    BY Zenon, <1>4 DEF InterceptorInv, SpareOK
  <2>2. QED
    BY Zenon, <2>1, SequenceOver
<1>6. /\ rest \in Flights(g, S) /\ Consistent(rest, own, Len(sp))
      /\ more \in Flights(g, S) /\ \A n \in Nat : q.extra + 1 <= n => Consistent(more, own, n)
      /\ copied \in Flights(g, S) /\ Consistent(copied, own, Len(sp))
  <2> HIDE DEF q, own, els, S, sp, rest
  <2>1. rest = [q EXCEPT !.others = Tail(@)]
    BY Zenon DEF rest
  <2>2. QED
    BY Zenon, <1>1, <1>2, <1>3, <1>5, <2>1, MergedRequest DEF sp, S, own, q
<1>7. rest.path = q.path /\ more.path = q.path /\ copied.path = q.path
  BY Zenon, <1>2, <1>6 DEF Flights
<1>8. rest.gen = g /\ more.gen = g /\ copied.gen = g
  BY Zenon, <1>6 DEF Flights
<1>9. Of(g)' = Of(g) /\ \A p : PreFilters(g, p)' = PreFilters(g, p)
  BY Zenon, <1>1, SameRouter
<1>10. own = PreFilters(g, q.path)
  BY Zenon, <1>4 DEF Own
<1> HIDE DEF q, own, els, rest, more, copied, S, sp
<1>11. ASSUME NEW r, r \in Flights(g, S), r.gen = g, r.path = q.path, client' = [client EXCEPT ![c] = r],
              Consistent(r, own, Len(spare'[g][q.path]))
       PROVE  RequestOK(c)'
  <2>1. client'[c] = r
    BY Zenon, <1>1, <1>11 DEF InterceptorInv
  <2>2. Own(c)' = own
    BY Zenon, <1>9, <1>10, <1>11, <2>1 DEF Own
  <2>3. Served(c)'
    BY Zenon, <1>1, <1>9, <1>11, <2>1, <2>2 DEF Served, S
  <2>4. QED
    BY Zenon, <2>3 DEF RequestOK
<1>12. ASSUME UNCHANGED spare,
              client' = [client EXCEPT ![c] = rest] \/ client' = [client EXCEPT ![c] = copied]
       PROVE  InterceptorInv'
  <2>1. RoutersOK' /\ SpareOK' /\ Grown
    BY Zenon, <1>1, <1>12, SlicesStay
  <2>2. RequestOK(c)'
    BY Zenon, <1>6, <1>7, <1>8, <1>11, <1>12 DEF sp
  <2>3. QED
    BY Zenon, <1>1, <1>12, <2>1, <2>2, OneRequestMoves
<1> DEFINE x == Written(sp, q.extra, Head(q.others))
<1>13. ASSUME q.copy = << >>, spare' = [spare EXCEPT ![g][q.path] = x],
              client' = [client EXCEPT ![c] = more]
       PROVE  InterceptorInv'
  <2>1. x \in Seq(S) /\ Len(sp) <= Len(x) /\ q.extra + 1 <= Len(x) /\ Len(x) \in Nat
    <3>1. q.extra <= Len(sp)
      BY Zenon, <1>2, <1>13 DEF Consistent, sp, q
    <3>2. Head(q.others) \in S
      BY <1>1, <1>4 DEF q
    <3> HIDE DEF x
    <3>3. x \in Seq(S) /\ Len(sp) <= Len(x) /\ q.extra + 1 <= Len(x)
      BY Zenon, <1>4, <1>5, <3>1, <3>2, WrittenBehind DEF x
    <3>4. QED
      BY Zenon, <3>3, SequenceOver
  <2> HIDE DEF x
  <2>2. g \in 1..MaxBuilt /\ DOMAIN spare = 1..MaxBuilt /\ \A h \in 1..MaxBuilt : DOMAIN spare[h] = Templates
    BY Zenon, RouterTyped DEF InterceptorInv, SpareOK
  <2>3. spare' = [spare EXCEPT ![g] = [spare[g] EXCEPT ![q.path] = x]]
    BY Zenon, <1>13
  <2>4. DOMAIN spare' = 1..MaxBuilt /\ spare'[g] = [spare[g] EXCEPT ![q.path] = x]
    BY Zenon, <2>2, <2>3
  <2>5. \A h \in 1..MaxBuilt : h # g => spare'[h] = spare[h]
    BY Zenon, <2>2, <2>3
  <2>6. q.path \in DOMAIN spare[g]
    BY Zenon, <1>4, <2>2
  <2>7. spare'[g][q.path] = x /\ DOMAIN spare'[g] = Templates
    BY Zenon, <2>2, <2>4, <2>6
  <2>8. \A p \in Templates : p # q.path => spare'[g][p] = spare[g][p]
    BY Zenon, <2>2, <2>4
  <2>9. SpareOK'
    <3>1. \A h \in 1..MaxBuilt : DOMAIN spare'[h] = Templates
      BY Zenon, <2>2, <2>5, <2>7
    <3>2. ASSUME NEW h \in 1..Len(built), NEW p \in Templates PROVE spare'[h][p] \in Seq(Of(h))
      <4>1. h \in 1..MaxBuilt /\ spare[h][p] \in Seq(Of(h))
        BY Zenon, RouterTyped DEF InterceptorInv, SpareOK
      <4>2. QED
        BY Zenon, <2>1, <2>5, <2>7, <2>8, <4>1 DEF S
    <3>3. ASSUME NEW h \in 1..MaxBuilt, NEW p \in Templates, h > Len(built) PROVE spare'[h][p] = << >>
      <4>1. h # g
        BY <3>3, RouterTyped
      <4>2. QED
        BY Zenon, <2>5, <3>3, <4>1 DEF InterceptorInv, SpareOK
    <3>4. \A h : Of(h)' = Of(h)
      BY Zenon, <1>1 DEF Of
    <3>5. QED
      BY Zenon, <1>1, <2>4, <3>1, <3>2, <3>3, <3>4 DEF SpareOK
  <2>10. Grown
    <3>1. ASSUME NEW h \in 1..Len(built), NEW p \in Templates PROVE Len(spare[h][p]) <= Len(spare'[h][p])
      <4>1. h \in 1..MaxBuilt /\ spare[h][p] \in Seq(Of(h))
        BY Zenon, RouterTyped DEF InterceptorInv, SpareOK
      <4>2. Len(spare[h][p]) \in Nat
        BY Zenon, <4>1, SequenceOver
      <4>3. Len(spare[h][p]) <= Len(spare[h][p])
        BY <4>2
      <4>4. QED
        BY Zenon, <2>1, <2>5, <2>7, <2>8, <4>1, <4>3 DEF sp
    <3>2. Len(built) <= Len(built)
      BY RouterTyped
    <3>3. QED
      BY Zenon, <1>1, <3>1, <3>2 DEF Grown
  <2>11. RoutersOK'
    BY Zenon, <1>1 DEF InterceptorInv, RoutersOK
  <2>12. RequestOK(c)'
    BY Zenon, <1>6, <1>7, <1>8, <1>11, <1>13, <2>1, <2>7
  <2>13. QED
    BY Zenon, <1>1, <1>13, <2>9, <2>10, <2>11, <2>12, OneRequestMoves
<1>14. QED
  BY Zenon, <1>4, <1>12, <1>13 DEF MergeFilter, Written, q, own, els, rest, more, copied, sp, x

\* A step of a request on its way that writes nothing others read.
LEMMA ServedMoves ==
  ASSUME InterceptorInv, UNCHANGED <<disk, built, router, spare>>, NEW c \in Clients,
         NEW g \in 1..Len(built), client[c] \in Flights(g, Of(g)), NEW r \in Flights(g, Of(g)),
         r.path = client[c].path, client' = [client EXCEPT ![c] = r],
         Consistent(r, Own(c), Len(spare[g][client[c].path]))
  PROVE  InterceptorInv'
<1>1. c \in Clients \cup Reloads /\ RoutersOK' /\ SpareOK' /\ Grown
  BY Zenon, SlicesStay
<1>2. client[c].gen = g /\ r.gen = g
  BY Zenon DEF Flights
<1>3. client'[c] = r
  BY Zenon, <1>1 DEF InterceptorInv
<1>4. Own(c)' = Own(c) /\ Of(g)' = Of(g)
  BY Zenon, <1>2, <1>3, SameRouter DEF Own
<1>5. RequestOK(c)'
  BY Zenon, <1>3, <1>4 DEF RequestOK, Served
<1>6. QED
  BY Zenon, <1>1, <1>5, OneRequestMoves

\* A request is answered without having gone to its destination.
LEMMA AnsweredMoves ==
  ASSUME InterceptorInv, UNCHANGED <<disk, built, router, spare>>, NEW c \in Clients \cup Reloads,
         client' = [client EXCEPT ![c] = Answered]
  PROVE  InterceptorInv'
<1>1. RoutersOK' /\ SpareOK' /\ Grown
  BY Zenon, SlicesStay
<1>2. RequestOK(c)'
  BY Zenon DEF RequestOK, InterceptorInv
<1>3. QED
  BY Zenon, <1>1, <1>2, OneRequestMoves

\* RunFilter keeps the invariant: the loop goes on, ends, or the request is answered.
LEMMA RunKeeps ==
  ASSUME InterceptorInv, NEW c \in Clients, RunFilter(c)
  PROVE  InterceptorInv'
<1> DEFINE q == client[c]
<1> DEFINE own == Own(c)
<1> DEFINE els == Elements(c)
<1> DEFINE f == els[q.next]
<1> DEFINE ok == q.method \in f.methods /\ f.known
<1> DEFINE sent == [q EXCEPT !.at = "forwarded"]
<1> DEFINE next == [q EXCEPT !.next = @ + 1]
<1> DEFINE passed == [q EXCEPT !.next = @ + 1, !.ran = Append(@, f)]
<1>1. c \in Clients \cup Reloads /\ q.at = "merge" /\ q.others = << >> /\ UNCHANGED <<disk, built, router, spare>>
  BY Zenon DEF RunFilter
<1>2. PICK g \in 1..Len(built) : q \in Flights(g, Of(g)) /\ Consistent(q, own, Len(spare[g][q.path]))
  <2>1. q.at \in {"merge", "forwarded"}
    BY Zenon, <1>1
  <2>2. QED
    BY Zenon, <1>1, <2>1, WhichRequest DEF InterceptorInv, Served
<1> DEFINE S == Of(g)
<1> DEFINE len == Len(spare[g][q.path])
<1>3. own \in Seq(S) /\ els \in Seq(S) /\ StartsWith(els, own)
  BY Zenon, <1>2, ElementsStart
<1>4. q.path \in Templates /\ q.next \in Nat \ {0} /\ q.ran \in Seq(S)
  BY Zenon, <1>2 DEF Flights
<1>5. len \in Nat
  <2>1. spare[g][q.path] \in Seq(S)
    BY Zenon, <1>4 DEF InterceptorInv, SpareOK
  <2>2. QED
    BY Zenon, <2>1, SequenceOver
<1>6. \/ q.next > Len(els) /\ client' = [client EXCEPT ![c] = sent]
      \/ ~(q.next > Len(els)) /\ ok /\ client' = [client EXCEPT ![c] = passed]
      \/ client' = [client EXCEPT ![c] = Answered]
      \/ ~(q.next > Len(els)) /\ ~ok /\ client' = [client EXCEPT ![c] = next]
  BY Zenon DEF RunFilter, AfterFilter
<1>7. CASE q.next > Len(els) /\ client' = [client EXCEPT ![c] = sent]
  <2>1. sent \in Flights(g, S) /\ Consistent(sent, own, len)
    <3> HIDE DEF q, own, els, S, len, sent
    <3>1. sent = [q EXCEPT !.at = "forwarded"]
      BY Zenon DEF sent
    <3>2. QED
      BY Zenon, <1>1, <1>2, <1>3, <1>5, <1>7, <3>1, ForwardedRequest DEF S, len
  <2>2. sent.path = q.path
    BY Zenon, <1>2 DEF Flights
  <2> HIDE DEF sent
  <2>3. QED
    BY Zenon, <1>1, <1>2, <1>7, <2>1, <2>2, ServedMoves
<1>8. ASSUME ~(q.next > Len(els)) PROVE q.next <= Len(els) /\ f \in S
  <2> HIDE DEF q, els, S
  <2>1. QED
    BY <1>3, <1>4, <1>8
<1>9. CASE ~(q.next > Len(els)) /\ ok /\ client' = [client EXCEPT ![c] = passed]
  <2>1. q.next + 1 \in Nat \ {0} /\ Append(q.ran, f) \in Seq(S)
    <3> HIDE DEF q, f, S
    <3>1. QED
      BY <1>4, <1>8, <1>9
  <2>2. passed \in Flights(g, S)
    BY Zenon, <1>2, <2>1 DEF Flights
  <2>3. /\ passed.at = q.at /\ passed.method = q.method /\ passed.others = q.others /\ passed.copy = q.copy
        /\ passed.extra = q.extra /\ passed.path = q.path /\ passed.next = q.next + 1
        /\ passed.ran = Append(q.ran, f)
    BY Zenon, <1>2 DEF Flights
  <2>4. Consistent(passed, own, len)
    <3>1. passed.ran = IF q.method \in f.methods /\ f.known THEN Append(q.ran, f) ELSE q.ran
      BY Zenon, <1>9, <2>3
    <3> HIDE DEF q, own, els, f, S, len, passed
    <3>2. f = els[q.next]
      BY Zenon DEF f
    <3>3. QED
      BY Zenon, <1>1, <1>2, <1>3, <1>5, <1>8, <1>9, <2>2, <2>3, <3>1, <3>2, FilteredRequest DEF S, len
  <2> HIDE DEF passed
  <2>5. QED
    BY Zenon, <1>1, <1>2, <1>9, <2>2, <2>3, <2>4, ServedMoves
<1>10. CASE ~(q.next > Len(els)) /\ ~ok /\ client' = [client EXCEPT ![c] = next]
  <2>1. q.next + 1 \in Nat \ {0}
    BY <1>4
  <2>2. next \in Flights(g, S)
    BY Zenon, <1>2, <2>1 DEF Flights
  <2>3. /\ next.at = q.at /\ next.method = q.method /\ next.others = q.others /\ next.copy = q.copy
        /\ next.extra = q.extra /\ next.path = q.path /\ next.next = q.next + 1 /\ next.ran = q.ran
    BY Zenon, <1>2 DEF Flights
  <2>4. Consistent(next, own, len)
    <3>1. next.ran = IF q.method \in f.methods /\ f.known THEN Append(q.ran, f) ELSE q.ran
      BY Zenon, <1>10, <2>3
    <3> HIDE DEF q, own, els, f, S, len, next
    <3>2. f = els[q.next]
      BY Zenon DEF f
    <3>3. QED
      BY Zenon, <1>1, <1>2, <1>3, <1>5, <1>8, <1>10, <2>2, <2>3, <3>1, <3>2, FilteredRequest DEF S, len
  <2> HIDE DEF next
  <2>5. QED
    BY Zenon, <1>1, <1>2, <1>10, <2>2, <2>3, <2>4, ServedMoves
<1>11. CASE client' = [client EXCEPT ![c] = Answered]
  BY Zenon, <1>1, <1>11, AnsweredMoves
<1>12. QED
  BY Zenon, <1>6, <1>7, <1>9, <1>10, <1>11

\* buildRouter: nothing is written behind the slices of the new router.
LEMMA ReloadKeeps ==
  ASSUME InterceptorInv, NEW c \in Reloads, Reload(c)
  PROVE  InterceptorInv'
<1>1. c \in Clients \cup Reloads /\ client[c].at = "new" /\ UNCHANGED <<disk, router, spare>>
  BY Zenon DEF Reload
<1>2. CASE client' = [client EXCEPT ![c] = Answered] /\ UNCHANGED built
  BY Zenon, <1>1, <1>2, AnsweredMoves
<1>3. CASE /\ disk # Invalid /\ Len(built) < MaxBuilt /\ built' = Append(built, disk)
           /\ client' = [client EXCEPT ![c].at = "set", ![c].gen = Len(built')]
  <2>1. /\ disk \in DOMAIN Files /\ built \in Seq(DOMAIN Files) /\ Len(built) \in Nat /\ MaxBuilt \in Nat
        /\ router \in 1..Len(built)
    <3>1. built \in Seq(DOMAIN Files)
      BY Zenon DEF InterceptorInv, RoutersOK
    <3>2. QED
      BY Zenon, <1>3, <3>1, InterceptorAssumption, SequenceOver DEF InterceptorInv, RoutersOK
  <2>2. /\ built' \in Seq(DOMAIN Files) /\ Len(built') = Len(built) + 1
        /\ \A g \in 1..Len(built) : built'[g] = built[g]
    BY <1>3, <2>1
  <2>3. /\ Len(built) <= Len(built') /\ Len(built') <= MaxBuilt /\ Len(built') \in 1..Len(built')
        /\ router \in 1..Len(built')
    BY <1>3, <2>1, <2>2
  <2>4. RoutersOK'
    BY Zenon, <1>1, <2>1, <2>2, <2>3 DEF InterceptorInv, RoutersOK
  <2>5. SpareOK'
    <3>1. ASSUME NEW g \in 1..Len(built'), NEW p \in Templates PROVE spare[g][p] \in Seq(Of(g)')
      <4>1. CASE g \in 1..Len(built)
        <5>1. Of(g)' = Of(g) /\ spare[g][p] \in Seq(Of(g))
          BY Zenon, <2>2, <4>1, SameRouter DEF InterceptorInv, SpareOK
        <5>2. QED
          BY Zenon, <5>1
      <4>2. CASE g \notin 1..Len(built)
        <5>1. g > Len(built) /\ g \in 1..MaxBuilt
          BY <1>3, <2>1, <2>2, <4>2
        <5>2. spare[g][p] = << >>
          BY Zenon, <5>1 DEF InterceptorInv, SpareOK
        <5>3. QED
          BY <5>2
      <4>3. QED
        BY Zenon, <4>1, <4>2
    <3>2. ASSUME NEW g \in 1..MaxBuilt, NEW p \in Templates, g > Len(built') PROVE spare[g][p] = << >>
      <4>1. g > Len(built)
        BY <2>1, <2>2, <3>2
      <4>2. QED
        BY Zenon, <4>1 DEF InterceptorInv, SpareOK
    <3>3. QED
      BY Zenon, <1>1, <3>1, <3>2 DEF InterceptorInv, SpareOK
  <2>6. Grown
    <3>1. ASSUME NEW g \in 1..Len(built), NEW p \in Templates PROVE Len(spare[g][p]) <= Len(spare[g][p])
      <4>1. spare[g][p] \in Seq(Of(g))
        BY Zenon DEF InterceptorInv, SpareOK
      <4>2. Len(spare[g][p]) \in Nat
        BY Zenon, <4>1, SequenceOver
      <4>3. QED
        BY <4>2
    <3>2. QED
      BY Zenon, <1>1, <2>2, <2>3, <3>1 DEF Grown
  <2> DEFINE r == [client[c] EXCEPT !.at = "set", !.gen = Len(built')]
  <2>7. client' = [client EXCEPT ![c] = r]
    BY Zenon, <1>3
  <2>8. client[c] = NewRequest
    BY Zenon, <1>1, WhichRequest DEF InterceptorInv
  <2>9. r.at = "set" /\ r.gen = Len(built')
    BY <2>8 DEF NewRequest
  <2> HIDE DEF r
  <2>10. client'[c] = r
    BY Zenon, <1>1, <2>7 DEF InterceptorInv
  <2>11. RequestOK(c)'
    BY Zenon, <2>3, <2>9, <2>10 DEF RequestOK
  <2>12. QED
    BY Zenon, <1>1, <2>4, <2>5, <2>6, <2>7, <2>11, OneRequestMoves
<1>4. QED
  BY Zenon, <1>2, <1>3 DEF Reload

\* setRouter keeps the invariant: what it puts in place was built.
LEMMA setRouterKeeps ==
  ASSUME InterceptorInv, NEW c \in Reloads, setRouter(c)
  PROVE  InterceptorInv'
<1>1. /\ c \in Clients \cup Reloads /\ client[c].at = "set" /\ UNCHANGED <<disk, built, spare>>
      /\ router' = client[c].gen /\ client' = [client EXCEPT ![c] = Answered]
  BY Zenon DEF setRouter
<1>2. client[c].gen \in 1..Len(built)
  BY Zenon, <1>1, WhichRequest DEF InterceptorInv
<1>3. RoutersOK'
  BY Zenon, <1>1, <1>2 DEF InterceptorInv, RoutersOK
<1>4. SpareOK' /\ Grown
  BY Zenon, <1>1, SpareStays
<1>5. RequestOK(c)'
  BY Zenon, <1>1 DEF RequestOK, InterceptorInv
<1>6. QED
  BY Zenon, <1>1, <1>3, <1>4, <1>5, OneRequestMoves

\* What the control plane does to the file touches no router.
LEMMA WriteFileKeeps ==
  ASSUME InterceptorInv, WriteFile \/ UNCHANGED interceptorVars
  PROVE  InterceptorInv'
<1>1. UNCHANGED <<built, router, spare, client>> /\ disk' \in DOMAIN Files \cup {Invalid}
  BY DEF WriteFile, interceptorVars, InterceptorInv, RoutersOK
<1>2. RoutersOK' /\ SpareOK' /\ Grown
  BY Zenon, <1>1, SpareStays DEF InterceptorInv, RoutersOK
<1>3. \A c \in Clients \cup Reloads : RequestOK(c)'
  BY Zenon, <1>1, <1>2, Undisturbed
<1>4. QED
  BY Zenon, <1>1, <1>2, <1>3 DEF InterceptorInv

\* The interceptor starts with a router and without requests.
LEMMA InterceptorStarts == InterceptorInit => InterceptorInv
<1> SUFFICES ASSUME InterceptorInit PROVE InterceptorInv
  BY Zenon
<1>1. disk \in DOMAIN Files
  BY Zenon, InterceptorAssumption DEF InterceptorInit
<1>2. built = <<disk>> /\ router = 1
  BY Zenon DEF InterceptorInit
<1>3. built \in Seq(DOMAIN Files) /\ Len(built) = 1 /\ router \in 1..Len(built)
  BY <1>1, <1>2
<1>4. MaxBuilt \in Nat /\ 1 <= MaxBuilt
  BY InterceptorAssumption
<1>5. RoutersOK
  BY Zenon, <1>1, <1>3, <1>4 DEF RoutersOK
<1>6. spare = [g \in 1..MaxBuilt |-> [p \in Templates |-> << >>]]
  BY Zenon DEF InterceptorInit
<1>7. \A g \in 1..MaxBuilt : DOMAIN spare[g] = Templates /\ \A p \in Templates : spare[g][p] = << >>
  BY Zenon, <1>6
<1>8. \A g \in 1..Len(built) : g \in 1..MaxBuilt
  BY <1>3, <1>4
<1>9. \A T : << >> \in Seq(T)
  OBVIOUS
<1>10. SpareOK
  BY Zenon, <1>6, <1>7, <1>8, <1>9 DEF SpareOK
<1>11. DOMAIN client = Clients \cup Reloads /\ \A c \in Clients \cup Reloads : client[c] = NewRequest
  BY Zenon DEF InterceptorInit
<1>12. QED
  BY Zenon, <1>5, <1>10, <1>11 DEF InterceptorInv, RequestOK

\* At the end of the loop the filters of the template come first.
LEMMA OwnComeFirst ==
  ASSUME NEW S, NEW own \in Seq(S), NEW q, q.next \in Nat, q.next > Len(own), q.ran \in Seq(S),
         Passed(q, own), NEW all, all = Those(own, For(own, q.method))
  PROVE  Len(all) <= Len(q.ran) /\ all = SubSeq(q.ran, 1, Len(all)) /\ Range(q.ran) \subseteq S
<1>1. all \in Seq(S)
  <2>1. Len(own) \in Nat /\ \A i \in 1..Len(own) : own[i] \in S
    BY Zenon, SequenceOver
  <2>2. QED
    BY Zenon, <2>1, ThoseTyped
<1>2. StartsWith(q.ran, all)
  <2>1. CASE q.next <= Len(own) + 1
    <3>1. q.next - 1 = Len(own)
      BY <2>1
    <3>2. q.ran = all
      BY Zenon, <2>1, <3>1 DEF Passed, Those
    <3>3. QED
      BY <1>1, <3>2 DEF StartsWith
  <2>2. CASE ~(q.next <= Len(own) + 1)
    BY Zenon, <2>2 DEF Passed
  <2>3. QED
    BY Zenon, <2>1, <2>2
<1> DEFINE s == q.ran
<1>3. s \in Seq(S) /\ StartsWith(s, all)
  BY Zenon, <1>2
<1> HIDE DEF s
<1>4. Len(all) <= Len(s) /\ all = SubSeq(s, 1, Len(all))
  <2>1. Len(all) \in Nat /\ Len(s) \in Nat /\ Len(all) <= Len(s)
    BY <1>1, <1>3 DEF StartsWith
  <2> DEFINE sub == SubSeq(s, 1, Len(all))
  <2>2. sub \in Seq(S) /\ Len(sub) = Len(all) /\ \A i \in 1..Len(all) : sub[i] = s[i]
    BY <1>3, <2>1
  <2> HIDE DEF sub
  <2>3. \A i \in 1..Len(all) : sub[i] = all[i]
    BY Zenon, <1>3, <2>2 DEF StartsWith
  <2>4. all = sub
    BY <1>1, <2>2, <2>3
  <2>5. QED
    BY Zenon, <2>1, <2>4 DEF sub
<1>5. Range(s) \subseteq S
  BY <1>3 DEF Range
<1>6. QED
  BY Zenon, <1>4, <1>5 DEF s

\* OwnFiltersRun: a request that goes to its destination has passed the filters
\* that its configuration lists for its path template and method, before any other
\* and in their order, and none of another configuration, for any configurations,
\* templates, methods and number of requests and reloads at once.
THEOREM OwnFiltersAlwaysRun == InterceptorSpec => []OwnFiltersRun
<1>1. InterceptorInv /\ [InterceptorNext]_interceptorVars => InterceptorInv'
  BY Zenon, DispatchKeeps, MergeKeeps, RunKeeps, ReloadKeeps, setRouterKeeps, WriteFileKeeps
     DEF InterceptorNext
<1>2. InterceptorInv => OwnFiltersRun
  <2> SUFFICES ASSUME InterceptorInv, NEW c \in Clients, client[c].at = "forwarded"
               PROVE  /\ LET own == Those(Own(c), For(Own(c), client[c].method)) IN
                         Len(own) <= Len(client[c].ran) /\ own = SubSeq(client[c].ran, 1, Len(own))
                      /\ Range(client[c].ran) \subseteq Range(Files[built[client[c].gen]])
    BY Zenon DEF OwnFiltersRun
  <2> DEFINE q == client[c]
  <2>1. PICK g \in 1..Len(built) : q \in Flights(g, Of(g)) /\ Consistent(q, Own(c), Len(spare[g][q.path]))
    <3>1. q.at \in {"merge", "forwarded"} /\ c \in Clients \cup Reloads
      BY Zenon
    <3>2. QED
      BY Zenon, <3>1, WhichRequest DEF InterceptorInv, Served
  <2>2. q.gen = g /\ q.next \in Nat /\ q.ran \in Seq(Of(g))
    BY Zenon, <2>1 DEF Flights
  <2>3. Own(c) \in Seq(Of(g))
    BY Zenon, <2>1, ElementsStart
  <2>4. q.next > Len(Own(c)) /\ Passed(q, Own(c))
    BY Zenon, <2>1 DEF Consistent
  <2>5. QED
    BY Zenon, <2>2, <2>3, <2>4, OwnComeFirst DEF Of
<1>3. QED
  BY <1>1, <1>2, InterceptorStarts, PTL DEF InterceptorSpec

=============================================================================
