--------------------------- MODULE DenialReceipts ---------------------------
(***************************************************************************)
(* How a stream request of an API Key is admitted or refused:              *)
(* FrontendHandler.auth in proxy/frontend_handler.go and StatsHandler in   *)
(* proxy/stats_handler.go with proxy/key_backend_capability.go,            *)
(* proxy/expired_handshake.go and delegation/failure.go.  A ticket is of   *)
(* one host, or of the hosts of its inner tickets (statistics of a project *)
(* or a service).  A refusal with a definite code is given only when the   *)
(* Engine has accepted a receipt for every host it is about: all that the  *)
(* ticket names when the ticket itself is refused, one when the statistics *)
(* handler stops at one of its targets.  Each is proved by the ticket with *)
(* which that host's agent is then connected; otherwise the answer is      *)
(* AuditUnavailable.  Agents come and go and tickets expire between any    *)
(* two steps, and the Engine may accept a receipt whose answer is lost.    *)
(***************************************************************************)
EXTENDS Naturals, Sequences

CONSTANTS
  Hosts,        \* host identities
  Attempts,     \* observed HTTP attempts, one attemptID each
  MaxTargets    \* maxStatsTargets

ASSUME ReceiptsAssumption == MaxTargets \in Nat \ {0}

\* A target: its host, and what the ticket is with which its stream is opened: of
\* the same Key and request as the outer ticket, of another, of no Key, or not
\* verified.
TargetEntries == [host : Hosts, of : {"same", "other", "none", "bad"}]

\* A verified ticket: a delegation, the audit metadata of a full Key, or neither;
\* whether a delegation allows the path; its hostUuid (with the ticket of the
\* request's URL), or else its inner tickets.  Of too many only their number is
\* looked at, so that they may as well be the same.
Tickets ==
  {t \in [kind : {"scoped", "audit", "plain"}, allowed : BOOLEAN, single : BOOLEAN,
          inner : UNION {[1..n -> TargetEntries] : n \in 0..MaxTargets + 1}] :
     /\ t.single => DOMAIN t.inner = {1} /\ t.inner[1].of \in {"same", "none"}
     /\ t.kind # "scoped" => t.allowed
     /\ t.kind = "plain" /\ ~t.single => \A i \in DOMAIN t.inner : t.inner[i].of # "same"
     /\ Len(t.inner) > MaxTargets => \A i \in DOMAIN t.inner : t.inner[i] = t.inner[1]}

\* The ticket of the request's URL itself.
OfURL(t) == t.single => (t.inner[1].of = "same" <=> t.kind # "plain")

NoTicket == [kind |-> "plain", allowed |-> TRUE, single |-> FALSE, inner |-> << >>]

VARIABLES
  backend,      \* [host -> its multiplexer: "none", "incapable", "capable" of Key traces]
  attempt,      \* [attempt -> where its goroutine is]
  ticket,       \* [attempt -> its ticket]
  expired,      \* attempts whose ticket has expired
  index,        \* [attempt -> the target its handler is at, 0 before it looks at one]
  code,         \* [attempt -> the code it is answered with, or about to be]
  todo,         \* [attempt -> targets not yet reported, as indices of its ticket's]
  posted,       \* history [attempt -> [host -> receipts sent]]
  recorded      \* history [attempt -> hosts whose receipt the Engine accepted]

receiptVars == <<backend, attempt, ticket, expired, index, code, todo, posted, recorded>>
historyVars == <<posted, recorded>>

ReceiptsInit ==
  /\ backend = [h \in Hosts |-> "none"]
  /\ attempt = [a \in Attempts |-> "new"]
  /\ ticket = [a \in Attempts |-> NoTicket]
  /\ expired = {}
  /\ index = [a \in Attempts |-> 0]
  /\ code = [a \in Attempts |-> "none"]
  /\ todo = [a \in Attempts |-> {}]
  /\ posted = [a \in Attempts |-> [h \in Hosts |-> 0]]
  /\ recorded = [a \in Attempts |-> {}]

-----------------------------------------------------------------------------
(* The targets of a failure *)

\* The number is right, and every inner ticket is verified and bound as the outer.
Verified(t) ==
  Len(t.inner) \in 1..MaxTargets /\ (t.single \/ \A i \in DOMAIN t.inner : t.inner[i].of = "same")

\* Fault: a host is named once per inner ticket.
Targets_NotDistinct(t) == IF Verified(t) THEN DOMAIN t.inner ELSE {}

\* Where the ticket first names each of its hosts; nothing unless it is verified
\* in all its parts.
Targets(t) ==
  IF Verified(t)
  THEN {i \in DOMAIN t.inner : \A j \in DOMAIN t.inner : j < i => t.inner[j].host # t.inner[i].host}
  ELSE {}

\* The failure is made; without targets it is answered AuditUnavailable at once.
Fail(a, c, ts) ==
  /\ todo' = [todo EXCEPT ![a] = ts]
  /\ code' = [code EXCEPT ![a] = IF ts = {} THEN "AuditUnavailable" ELSE c]
  /\ attempt' = [attempt EXCEPT ![a] = IF ts = {} THEN "answered" ELSE "report"]

\* Refused without a receipt, or on to the next step.
Go(a, at) == attempt' = [attempt EXCEPT ![a] = at] /\ UNCHANGED <<code, todo>>
Refuse(a) == /\ attempt' = [attempt EXCEPT ![a] = "answered"]
             /\ code' = [code EXCEPT ![a] = "denied"]
             /\ UNCHANGED todo

-----------------------------------------------------------------------------
(* auth *)

Arrives(a) ==
  /\ attempt[a] = "new"
  /\ \E t \in Tickets : OfURL(t) /\ ticket' = [ticket EXCEPT ![a] = t]
  /\ Go(a, "parse")
  /\ UNCHANGED <<backend, expired, index, historyVars>>

\* expiredDelegationAudit: nothing is to be audited for a ticket of no Key.
ExpiredAudit(a) ==
  IF ticket[a].kind = "plain" THEN Refuse(a) ELSE Fail(a, "ApiKeyExpired", Targets(ticket[a]))

\* FrontendHandler goes on with the ticket's own host, which an aggregate does not
\* have; StatsHandler with the upgrade.
Admit(a) ==
  \/ ticket[a].single /\ Go(a, "host") /\ index' = [index EXCEPT ![a] = 1]
  \/ ~ticket[a].single /\ Refuse(a) /\ UNCHANGED index
  \/ Go(a, "upgrade") /\ UNCHANGED index

\* parseToken, and checkStreamRoute for a delegation.
Authenticates(a) ==
  /\ attempt[a] = "parse"
  /\ LET t == ticket[a] IN
     \/ a \in expired /\ ExpiredAudit(a) /\ UNCHANGED index
     \/ a \notin expired /\ t.kind # "scoped" /\ Admit(a)
     \/ a \notin expired /\ t.kind = "scoped" /\ t.allowed /\ Go(a, "check") /\ UNCHANGED index
     \/ /\ a \notin expired /\ ~t.allowed
        /\ Fail(a, "DelegationRouteDenied", Targets(t)) /\ UNCHANGED index
  /\ UNCHANGED <<backend, ticket, expired, historyVars>>

\* delegations.Check by the Engine; the ticket may have expired meanwhile.
ChecksGrant(a) ==
  /\ attempt[a] = "check"
  /\ \/ Admit(a)
     \/ a \in expired /\ ExpiredAudit(a) /\ UNCHANGED index
     \/ a \notin expired /\ Refuse(a) /\ UNCHANGED index
  /\ UNCHANGED <<backend, ticket, expired, historyVars>>

-----------------------------------------------------------------------------
(* The targets *)

Target(a) == ticket[a].inner[index[a]]

\* On to the next target, or after the last with the first of the next loop.
Advance(a, at, after) ==
  IF index[a] < Len(ticket[a].inner)
  THEN Go(a, at) /\ index' = [index EXCEPT ![a] = index[a] + 1]
  ELSE Go(a, after) /\ index' = [index EXCEPT ![a] = 1]

\* A failure of this target alone.
FailTarget(a, c) == Fail(a, c, {index[a]}) /\ UNCHANGED index

\* StatsHandler upgrades; the browser may send another ticket (claim payload).
Upgrades(a) ==
  /\ attempt[a] = "upgrade"
  /\ \/ Refuse(a) /\ UNCHANGED <<ticket, expired>>
     \/ Go(a, "targets") /\ UNCHANGED <<ticket, expired>>
     \/ /\ Go(a, "targets")
        /\ \E t \in Tickets : ticket' = [ticket EXCEPT ![a] = t]
        /\ expired' = expired \ {a}
  /\ UNCHANGED <<backend, index, historyVars>>

\* parseStatsInfo before its loop.  It is also refused by Check, or because the
\* path asks for the other sort of ticket.
ParsesTargets(a) ==
  /\ attempt[a] = "targets"
  /\ LET t == ticket[a] IN
     \/ a \notin expired /\ ~t.allowed
        /\ Fail(a, "DelegationRouteDenied", Targets(t)) /\ UNCHANGED index
     \/ (a \in expired \/ t.allowed) /\ Refuse(a) /\ UNCHANGED index
     \/ /\ a \notin expired /\ t.allowed /\ Len(t.inner) \in 1..MaxTargets
        /\ Go(a, "host") /\ index' = [index EXCEPT ![a] = 1]
  /\ UNCHANGED <<backend, ticket, expired, historyVars>>

\* The inner ticket is verified, which may have expired, and hasBackend.
FindsBackend(a) ==
  /\ attempt[a] = "host"
  /\ \/ Target(a).of # "bad" /\ backend[Target(a).host] # "none" /\ Go(a, "capability")
     \/ (~ticket[a].single \/ backend[Target(a).host] = "none") /\ Refuse(a)
  /\ UNCHANGED <<backend, ticket, expired, index, historyVars>>

\* requireKeyBackend for the ticket, and in the loop for the inner one first.
RequiresKeyBackend(a) ==
  /\ attempt[a] = "capability"
  /\ LET t == ticket[a]
         keyTrace == t.kind # "plain" \/ (~t.single /\ Target(a).of # "none")
     IN IF keyTrace /\ backend[Target(a).host] # "capable"
        THEN FailTarget(a, "BackendAuditCapabilityUnavailable")
        ELSE Go(a, IF t.single THEN "initialize" ELSE "inner") /\ UNCHANGED index
  /\ UNCHANGED <<backend, ticket, expired, historyVars>>

\* The rest of the loop: the URL, and for a delegation checkStreamRoute and Check.
ParsesInner(a) ==
  /\ attempt[a] = "inner"
  /\ \/ Refuse(a) /\ UNCHANGED index
     \/ /\ Target(a).of = "other" \/ (Target(a).of = "same" /\ ticket[a].kind = "scoped")
        /\ FailTarget(a, "DelegationRouteDenied")
     \/ Advance(a, "host", "initialize")
  /\ UNCHANGED <<backend, ticket, expired, historyVars>>

\* initializeForURL for every target, then connect for every target: both look at
\* the backend again, for the ticket of the target's URL.  initializeKeyClient
\* takes a missing backend for an incapable one.  FrontendHandler's upgrade and the
\* last look at the ticket come first and may fail; so may the multiplexer.
UsesBackend(a) ==
  /\ \E step \in {<<"initialize", "connect">>, <<"connect", "open">>} :
       /\ attempt[a] = step[1]
       /\ LET has == backend[Target(a).host]
              keyTrace == Target(a).of # "none"
              missing == has = "none" /\ (step[1] = "connect" \/ ~keyTrace)
          IN \/ keyTrace /\ has # "capable" /\ ~missing
                /\ FailTarget(a, "BackendAuditCapabilityUnavailable")
             \/ has # "none" /\ (keyTrace => has = "capable") /\ Advance(a, step[1], step[2])
             \/ /\ missing \/ (keyTrace => has = "capable")
                   \/ (step[1] = "initialize" /\ index[a] = 1)
                /\ Refuse(a) /\ UNCHANGED index
  /\ UNCHANGED <<backend, ticket, expired, historyVars>>

-----------------------------------------------------------------------------
(* reportRouteDenial, reportExpiredDenial, reportBackendFailure *)

\* The targets are taken in the order of the ticket.
NextTarget(a) == CHOOSE i \in todo[a] : \A j \in todo[a] : i <= j
NextHost(a) == ticket[a].inner[NextTarget(a)].host

Unavailable(a) ==
  /\ attempt' = [attempt EXCEPT ![a] = "answered"]
  /\ code' = [code EXCEPT ![a] = "AuditUnavailable"]
  /\ UNCHANGED todo

\* The proof for the next target is looked up: there is none when its agent is
\* not connected, or no time is left.
LooksUpTicket(a) ==
  /\ attempt[a] = "report"
  /\ \/ backend[NextHost(a)] # "none" /\ Go(a, "post")
     \/ (backend[NextHost(a)] = "none" \/ recorded[a] # {}) /\ Unavailable(a)
  /\ UNCHANGED <<backend, ticket, expired, index, historyVars>>

\* Fault: one accepted receipt is enough.
Accepted_First(a) ==
  /\ todo' = [todo EXCEPT ![a] = {}]
  /\ attempt' = [attempt EXCEPT ![a] = "answered"]
  /\ UNCHANGED code

Accepted(a) ==
  /\ todo' = [todo EXCEPT ![a] = todo[a] \ {NextTarget(a)}]
  /\ attempt' = [attempt EXCEPT ![a] = IF todo[a] = {NextTarget(a)} THEN "answered" ELSE "report"]
  /\ UNCHANGED code

Recorded(a) == recorded' = [recorded EXCEPT ![a] = recorded[a] \cup {NextHost(a)}]

\* report: the Engine accepts the receipt or does not; the answer may be lost.
Posts(a) ==
  /\ attempt[a] = "post"
  /\ posted' = [posted EXCEPT ![a] = [posted[a] EXCEPT ![NextHost(a)] = @ + 1]]
  /\ \/ Recorded(a) /\ Accepted(a)
     \/ (Recorded(a) \/ UNCHANGED recorded) /\ Unavailable(a)
  /\ UNCHANGED <<backend, ticket, expired, index>>

-----------------------------------------------------------------------------
(* Meanwhile *)

AgentComesOrGoes(h) ==
  /\ \E b \in {"none", "incapable", "capable"} \ {backend[h]} : backend' = [backend EXCEPT ![h] = b]
  /\ UNCHANGED <<attempt, ticket, expired, index, code, todo, historyVars>>

\* Once the targets are looked at, it is the inner tickets that may expire.
TicketExpires(a) ==
  /\ a \notin expired /\ attempt[a] \in {"new", "parse", "check", "upgrade", "targets"}
  /\ expired' = expired \cup {a}
  /\ UNCHANGED <<backend, attempt, ticket, index, code, todo, historyVars>>

ReceiptsNext ==
  \/ \E a \in Attempts :
       \/ Arrives(a) \/ Authenticates(a) \/ ChecksGrant(a)
       \/ Upgrades(a) \/ ParsesTargets(a)
       \/ FindsBackend(a) \/ RequiresKeyBackend(a) \/ ParsesInner(a) \/ UsesBackend(a)
       \/ LooksUpTicket(a) \/ Posts(a) \/ TicketExpires(a)
  \/ \E h \in Hosts : AgentComesOrGoes(h)

ReceiptsSpec == ReceiptsInit /\ [][ReceiptsNext]_receiptVars

-----------------------------------------------------------------------------
Definite == {"ApiKeyExpired", "DelegationRouteDenied", "BackendAuditCapabilityUnavailable"}

NamedHosts(a) == {ticket[a].inner[i].host : i \in DOMAIN ticket[a].inner}

\* What a refusal is about: the ticket, and so all its hosts, or one target.
Refused(a) == IF index[a] = 0 THEN NamedHosts(a) ELSE {Target(a).host}

\* A refusal with a definite code leaves a receipt in the Engine's records for
\* every host it is about, whatever agents disconnect or answers are lost while
\* the receipts are sent one after the other.
DefiniteIsComplete ==
  \A a \in Attempts :
    attempt[a] = "answered" /\ code[a] \in Definite => recorded[a] = Refused(a)

\* A ticket that is refused itself is a Key's and verified in all its parts; where
\* the handler stops at a target, that or the ticket is a Key's, and the target and
\* those before it are verified.
Grounds(a) ==
  IF index[a] = 0
  THEN ticket[a].kind # "plain" /\ Verified(ticket[a])
  ELSE /\ ticket[a].kind # "plain" \/ Target(a).of # "none"
       /\ \A i \in 1..index[a] : ticket[a].inner[i].of # "bad"

\* Receipts are sent only on these grounds, only for the hosts the refusal is about
\* and once at most for each, however often the inner tickets name the host.
ReceiptsAreOwed ==
  \A a \in Attempts, h \in Hosts :
    posted[a][h] > 0 => posted[a][h] = 1 /\ h \in Refused(a) /\ Grounds(a)
=============================================================================
