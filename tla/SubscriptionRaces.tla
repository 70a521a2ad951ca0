------------------------- MODULE SubscriptionRaces -------------------------
(***************************************************************************)
(* The handlers of one contract, split at their awaits.                    *)
(*                                                                         *)
(* Every request and every webhook runs on its own copy of the document:   *)
(* it reads the whole document, awaits the gateway, writes the whole       *)
(* document back (`set` without merge, no transaction) and then writes the *)
(* student's mirror.  A worker is one handler in flight; several of them   *)
(* interleave at the awaits.  With Crashes, the process may stop at an     *)
(* await and the handler is gone.  A notification is acknowledged when its *)
(* handler ends and comes back until then.                                 *)
(*                                                                         *)
(* The contract was accepted before the model starts: a plan sold for a    *)
(* period waiting for its card, or a Mensal whose preapproval exists.      *)
(***************************************************************************)
EXTENDS SubscriptionDomain

CONSTANTS
    Workers,       \* handlers that may be in flight at once
    Crashes,       \* may the process stop at an await?
    CycleIds,      \* the monthly cycles of the preapproval
    ThePreapproval \* the preapproval of a recurring contract

ASSUME RacesAssumption ==
    /\ Crashes \in BOOLEAN
    /\ ThePreapproval \in PreapprovalIds
    /\ CycleIds \cap OrderIds = {}

VARIABLES
    sub,      \* the document of collection `subscriptions`
    user,     \* the mirror on the student's document
    orders,   \* external: [OrderIds -> status of the order]
    cycles,   \* external: [CycleIds -> status of the cycle]
    live,     \* external: is the preapproval authorized?
    acked,    \* notifications answered with a 2xx
    worker    \* [Workers -> the handler in flight]

vars == <<sub, user, orders, cycles, live, acked, worker>>
external == <<orders, cycles, live>>

\* `doc` is the handler's copy, `id` the order or cycle it works on.
Idle == [step |-> "idle"]
At(w, step) == worker[w].step = step

Contracts == {BuildSubscription(plan, "CREDIT_CARD", NoCoupon, 0) : plan \in Plans}

Init ==
    /\ sub \in {[s EXCEPT !.preId = IF IsRecurring(s.plan) THEN ThePreapproval ELSE NoId] :
                   s \in Contracts}
    /\ user = Mirror(sub)
    /\ orders = [o \in OrderIds |-> "ABSENT"]
    /\ cycles = [c \in CycleIds |-> "ABSENT"]
    /\ live = IsRecurring(sub.plan)
    /\ acked = {}
    /\ worker = [w \in Workers |-> Idle]

-----------------------------------------------------------------------------
(* Steps shared by the handlers *)

Goto(w, step, doc, id) ==
    worker' = [worker EXCEPT ![w] = [step |-> step, doc |-> doc, id |-> id]]

\* The handler ends; a notification it was serving is acknowledged.
Finish(w, answered) ==
    /\ worker' = [worker EXCEPT ![w] = Idle]
    /\ acked' = acked \cup (answered \cap (OrderIds \cup CycleIds))

\* confirmCharge: the whole document is written from the handler's copy.
Confirmed(doc, id) ==
    IF id \in OrderIds
    THEN {Confirm(doc, i) : i \in {j \in PendingCharges(doc.charges) : IsLinked(doc.charges, j, id)}}
    ELSE {Confirm(doc, i) : i \in {j \in PendingCharges(doc.charges) : IsNextPending(doc.charges, j)}}

SaveConfirmed(w) ==
    /\ At(w, "confirm")
    /\ \E s \in Confirmed(worker[w].doc, worker[w].id) :
          /\ WithinBound(s)
          /\ sub' = ToPlain(s)
          /\ Goto(w, "sync", s, worker[w].id)
    /\ UNCHANGED <<user, external, acked>>

\* syncUser, from the same copy.
WriteMirror(w) ==
    /\ At(w, "sync")
    /\ user' = Mirror(worker[w].doc)
    /\ Finish(w, {worker[w].id})
    /\ UNCHANGED <<sub, external>>

-----------------------------------------------------------------------------
(* payWithCard on a plan sold for a period *)

OpenLink(s, i) == IsNextPending(s.charges, i) /\ ~ IsRecurring(s.plan)

PayRead(w) ==
    /\ At(w, "idle")
    /\ \E i \in DOMAIN sub.charges : OpenLink(sub, i)
    /\ Goto(w, "check", sub, NoId)
    /\ UNCHANGED <<sub, user, external, acked>>

\* existingCardOutcome asks twice for the order of the open charge: whether it
\* is paid, and then whether its challenge is open.  A question that fails is
\* passed over, and an order paid between the two is not noticed.
PayCheck(w) ==
    /\ At(w, "check")
    /\ \E i \in DOMAIN worker[w].doc.charges :
          LET link == worker[w].doc.charges[i].link
          IN  /\ OpenLink(worker[w].doc, i)
              /\ \/ /\ link \in OrderIds /\ orders[link] = "PAID"
                    /\ Goto(w, "confirm", worker[w].doc, link)
                 \/ link \in OrderIds /\ Goto(w, "check again", worker[w].doc, NoId)
                 \/ link \notin OrderIds /\ Goto(w, "create", worker[w].doc, NoId)
    /\ UNCHANGED <<sub, user, external, acked>>

PayCheckAgain(w) ==
    /\ At(w, "check again")
    /\ \/ /\ \E i \in DOMAIN worker[w].doc.charges :
                LET link == worker[w].doc.charges[i].link
                IN  /\ OpenLink(worker[w].doc, i)
                    /\ link \in OrderIds /\ orders[link] = "CHALLENGE"
          /\ Finish(w, {})
       \/ Goto(w, "create", worker[w].doc, NoId) /\ UNCHANGED acked
    /\ UNCHANGED <<sub, user, external>>

PayCreate(w, o, outcome) ==
    /\ At(w, "create")
    /\ orders[o] = "ABSENT"
    /\ orders' = [orders EXCEPT ![o] = outcome]
    /\ Goto(w, IF outcome = "PAID" THEN "link paid" ELSE "link", worker[w].doc, o)
    /\ UNCHANGED <<sub, user, cycles, live, acked>>

\* The gateway is busy, in conflict or refuses with no order (402).
PayRefused(w) ==
    /\ At(w, "create")
    /\ Finish(w, {})
    /\ UNCHANGED <<sub, user, external>>

\* Mutant: only the schedule is written, merged into what is stored.
PayLinkMerged(w) ==
    /\ At(w, "link") \/ At(w, "link paid")
    /\ \E i \in DOMAIN worker[w].doc.charges :
          /\ OpenLink(worker[w].doc, i)
          /\ LET linked == [worker[w].doc EXCEPT !.charges[i].link = worker[w].id]
             IN  /\ sub' = [sub EXCEPT !.charges = ToPlain(linked).charges]
                 /\ \/ /\ At(w, "link paid")
                       /\ Goto(w, "confirm", linked, worker[w].id) /\ UNCHANGED acked
                    \/ At(w, "link") /\ Finish(w, {})
    /\ UNCHANGED <<user, external>>

PayLink(w) ==
    /\ At(w, "link") \/ At(w, "link paid")
    /\ \E i \in DOMAIN worker[w].doc.charges :
          /\ OpenLink(worker[w].doc, i)
          /\ LET linked == [worker[w].doc EXCEPT !.charges[i].link = worker[w].id]
             IN  /\ sub' = ToPlain(linked)
                 /\ \/ /\ At(w, "link paid")
                       /\ Goto(w, "confirm", linked, worker[w].id) /\ UNCHANGED acked
                    \/ At(w, "link") /\ Finish(w, {})
    /\ UNCHANGED <<user, external>>

-----------------------------------------------------------------------------
(* refreshCardPayment and restartCardPayment on a plan sold for a period *)

RereadLink(w, step) ==
    /\ At(w, "idle")
    /\ \E i \in DOMAIN sub.charges : OpenLink(sub, i) /\ sub.charges[i].link # NoId
    /\ Goto(w, step, sub, NoId)
    /\ UNCHANGED <<sub, user, external, acked>>

\* Mutant: the end of the challenge is taken for the payment.
RefreshTrusting(w) ==
    /\ At(w, "refresh")
    /\ \E i \in DOMAIN worker[w].doc.charges :
          /\ OpenLink(worker[w].doc, i)
          /\ Goto(w, "confirm", worker[w].doc, worker[w].doc.charges[i].link)
    /\ UNCHANGED <<sub, user, external, acked>>

RefreshFetch(w) ==
    /\ At(w, "refresh")
    /\ \E i \in DOMAIN worker[w].doc.charges :
          LET link == worker[w].doc.charges[i].link
          IN  /\ OpenLink(worker[w].doc, i)
              /\ \/ /\ orders[link] = "PAID"
                    /\ Goto(w, "confirm", worker[w].doc, link) /\ UNCHANGED acked
                 \/ orders[link] # "PAID" /\ Finish(w, {})
    /\ UNCHANGED <<sub, user, external>>

RestartFetch(w) ==
    /\ At(w, "restart")
    /\ \E i \in DOMAIN worker[w].doc.charges :
          LET link == worker[w].doc.charges[i].link
          IN  /\ OpenLink(worker[w].doc, i)
              /\ \/ /\ orders[link] = "PAID"
                    /\ Goto(w, "confirm", worker[w].doc, link) /\ UNCHANGED acked
                 \/ /\ orders[link] # "PAID"
                    /\ Goto(w, "abandon", [worker[w].doc EXCEPT
                                             !.charges[i].abandoned = @ \cup {link},
                                             !.charges[i].link = NoId], link)
                    /\ UNCHANGED acked
    /\ UNCHANGED <<sub, user, external>>

RestartSave(w) ==
    /\ At(w, "abandon")
    /\ sub' = ToPlain(worker[w].doc)
    /\ Finish(w, {})
    /\ UNCHANGED <<user, external>>

-----------------------------------------------------------------------------
(* cancelSubscription on a recurring plan *)

CancelRead(w) ==
    /\ At(w, "idle")
    /\ sub.status # "CANCELLED" /\ IsRecurring(sub.plan)
    /\ Goto(w, "release", sub, NoId)
    /\ UNCHANGED <<sub, user, external, acked>>

CancelRelease(w) ==
    /\ At(w, "release")
    /\ live' = (live /\ worker[w].doc.preId = NoId)
    /\ Goto(w, "cancel",
            [worker[w].doc EXCEPT !.status = "CANCELLED", !.preId = NoId,
                                  !.accessUntil = PaidAccessUntil(worker[w].doc),
                                  !.charges = KeepPaid(@)], NoId)
    /\ UNCHANGED <<sub, user, orders, cycles, acked>>

\* The last write of a cancellation, of a suspension and of the end of the
\* preapproval, each prepared on the handler's copy.
SaveStatus(w) ==
    /\ At(w, "cancel")
    /\ sub' = ToPlain(worker[w].doc)
    /\ Goto(w, "sync", worker[w].doc, worker[w].id)
    /\ UNCHANGED <<user, external, acked>>

-----------------------------------------------------------------------------
(* Notifications: the resource is read, then the document *)

OrderNotified(w, o) ==
    /\ At(w, "idle") /\ o \notin acked /\ orders[o] = "PAID"
    /\ IF \E i \in PendingCharges(sub.charges) : IsLinked(sub.charges, i, o)
       THEN Goto(w, "confirm", sub, o) /\ UNCHANGED acked
       ELSE Finish(w, {o})
    /\ UNCHANGED <<sub, user, external>>

CycleNotified(w, c) ==
    /\ At(w, "idle") /\ c \notin acked /\ cycles[c] # "ABSENT"
    /\ \/ /\ sub.preId = ThePreapproval /\ cycles[c] = "PAID"
          /\ Goto(w, "confirm", sub, c) /\ UNCHANGED acked
       \/ /\ sub.preId = ThePreapproval /\ cycles[c] = "REFUSED" /\ sub.status # "PAST_DUE"
          /\ Goto(w, "cancel", [sub EXCEPT !.status = "PAST_DUE"], c) /\ UNCHANGED acked
       \/ /\ \/ sub.preId # ThePreapproval
             \/ cycles[c] = "REFUSED" /\ sub.status = "PAST_DUE"
          /\ Finish(w, {c})
    /\ UNCHANGED <<sub, user, external>>

EndNotified(w) ==
    /\ At(w, "idle") /\ ~ live
    /\ sub.preId = ThePreapproval /\ sub.status # "CANCELLED"
    /\ Goto(w, "cancel", [sub EXCEPT !.status = "CANCELLED", !.preId = NoId,
                                     !.charges = KeepPaid(@)], NoId)
    /\ UNCHANGED <<sub, user, external, acked>>

-----------------------------------------------------------------------------
(* The gateway, and the end of the process *)

\* A challenge is solved in the student's browser, once the answer that
\* carries its URL has left the handler.
DecideOrder(o) ==
    /\ \/ orders[o] = "PENDING"
       \/ /\ orders[o] = "CHALLENGE"
          /\ ~ \E w \in Workers : At(w, "link") /\ worker[w].id = o
    /\ \E outcome \in {"PAID", "REJECTED"} : orders' = [orders EXCEPT ![o] = outcome]
    /\ UNCHANGED <<sub, user, cycles, live, acked, worker>>

DecideCycle(c) ==
    /\ live /\ cycles[c] = "ABSENT"
    /\ \E outcome \in {"PAID", "REFUSED"} : cycles' = [cycles EXCEPT ![c] = outcome]
    /\ UNCHANGED <<sub, user, orders, live, acked, worker>>

GatewayEnds ==
    /\ live /\ \E c \in CycleIds : cycles[c] = "REFUSED"
    /\ live' = FALSE
    /\ UNCHANGED <<sub, user, orders, cycles, acked, worker>>

Crash(w) ==
    /\ Crashes /\ ~ At(w, "idle")
    /\ worker' = [worker EXCEPT ![w] = Idle]
    /\ UNCHANGED <<sub, user, external, acked>>

-----------------------------------------------------------------------------
Request(w) ==
    \/ PayRead(w) \/ RereadLink(w, "refresh") \/ RereadLink(w, "restart") \/ CancelRead(w)

\* A handler that was started runs on.
Continue(w) ==
    \/ SaveConfirmed(w) \/ WriteMirror(w)
    \/ PayCheck(w) \/ PayCheckAgain(w) \/ PayRefused(w) \/ PayLink(w)
    \/ \E o \in OrderIds, outcome \in {"PENDING", "CHALLENGE", "PAID", "REJECTED"} :
          PayCreate(w, o, outcome)
    \/ RefreshFetch(w) \/ RestartFetch(w) \/ RestartSave(w)
    \/ CancelRelease(w) \/ SaveStatus(w)

Notified(w) ==
    \/ \E o \in OrderIds : OrderNotified(w, o)
    \/ \E c \in CycleIds : CycleNotified(w, c)
    \/ EndNotified(w)

Next ==
    \/ \E w \in Workers : Request(w) \/ Continue(w) \/ Notified(w) \/ Crash(w)
    \/ \E o \in OrderIds : DecideOrder(o)
    \/ \E c \in CycleIds : DecideCycle(c)
    \/ GatewayEnds

Spec == Init /\ [][Next]_vars

-----------------------------------------------------------------------------
(* Properties *)

InFlight == {worker[w].doc : w \in {v \in Workers : ~ At(v, "idle")}}

Coherent(s) ==
    /\ CountsWhatWasPaid(s)
    /\ IF IsRecurring(s.plan) THEN HasFullWindow(s) ELSE WhollyPaidOrUnpaid(s)

\* However handlers interleave and wherever the process stops, the document
\* and every copy in flight agree with themselves: what is written is always
\* a whole document that one handler computed.
DocumentsAreCoherent == \A s \in InFlight \cup {sub} : Coherent(s)

\* However handlers interleave, a plan sold for a period is not confirmed
\* without a credited order.
PeriodIsPaidFor ==
    ~ IsRecurring(sub.plan) /\ sub.status = "ACTIVE" =>
        \E o \in OrderIds : orders[o] = "PAID"
=============================================================================
