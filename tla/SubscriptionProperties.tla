----------------------- MODULE SubscriptionProperties -----------------------
(***************************************************************************)
(* What must hold of module Subscription.                                  *)
(***************************************************************************)
EXTENDS Subscription

\* Type invariant.
TypeOK ==
    /\ sub \in Documents(sub.charges) /\ IsSchedule(sub.charges)
    /\ user \in [isPaying : BOOLEAN, accessUntil : Nat]
    /\ acceptances \in Seq(Acceptances) /\ unsaved \in BOOLEAN
    /\ orders \in [OrderIds -> Orders]
    /\ preapprovals \in [PreapprovalIds -> Preapprovals]
    /\ now \in Nat
    /\ restarted \subseteq OrderIds

Contracted == sub.status # "NONE"

-----------------------------------------------------------------------------
(* Invariants of the document *)

\* A plan sold for a period is wholly unpaid or wholly paid, and paid gives
\* access to the end of the period: confirmCharge settles every charge of it,
\* whichever handler or notification confirmed, and nothing suspends it.
ClosedPlanAllOrNothing ==
    Contracted /\ ~ IsRecurring(sub.plan) => WhollyPaidOrUnpaid(sub)

\* The counter, the schedule and the date agree: whatever happened to the
\* plan, the access it records is exactly what its paid charges bought.
AccessIsWhatWasPaid == CountsWhatWasPaid(sub)

\* A running recurring plan always shows ScheduleMonths renewals ahead, and
\* charges are numbered without gaps and paid in order: notifications of PIX
\* orders and of cycles never pay a charge while an earlier one is open.
ScheduleIsAWindow ==
    Contracted /\ IsRecurring(sub.plan) => HasFullWindow(sub)

\* The student's mirror, which the access guards read, says what the document
\* says (while no write of the mirror fails).
MirrorFollowsDocument == Contracted => user = Mirror(sub)

-----------------------------------------------------------------------------
(* Documents against the gateway *)

\* Money received for the contract in force.
CreditedOrders == {o \in OrderIds : orders[o].status = "PAID" /\ orders[o].contract = Contract}

Delivered(p, c) ==
    /\ preapprovals[p].contract = Contract
    /\ IsCycle(p, c) /\ preapprovals[p].cycles[c].status = "PAID"
    /\ preapprovals[p].cycles[c].delivered

DeliveredCycles ==
    {pc \in PreapprovalIds \X (1 .. MaxCycles) : Delivered(pc[1], pc[2])}

ChargedFor == {i \in PaidCharges(sub.charges) : sub.charges[i].amount > 0}

\* No charge is paid without money: each paid renewal has a PIX order or a
\* card cycle of this contract to itself, and a plan sold for a period one
\* credited order.
PaidIsCredited ==
    Contracted =>
        IF IsRecurring(sub.plan)
        THEN Cardinality(ChargedFor) <= Cardinality(CreditedOrders) + Cardinality(DeliveredCycles)
        ELSE ChargedFor # {} => CreditedOrders # {}

\* One contract is debited once: without a read failure, a lost answer or an
\* order left in processing, no second card order of a contract is credited,
\* but for those the student set aside.
ContractDebitedOnce ==
    \A o, q \in {r \in OrderIds \ restarted : orders[r].status = "PAID" /\ orders[r].kind = "CARD"} :
        orders[o].contract = orders[q].contract => o = q

\* A card order debits the base of its contract, of which what the student
\* accepted is the amount with interest: never that amount itself, which the
\* gateway would take without a word and add interest to once more, nor one
\* charge of the plan, nor the total of another contract.
DebitIsWhatWasAccepted ==
    \A o \in OrderIds :
        orders[o].status # "ABSENT" /\ orders[o].kind = "CARD" =>
            LET accepted == acceptances[orders[o].contract]
            IN  accepted.total = PayerAmount(accepted.plan, orders[o].amount)

\* A preapproval made for the contract in force is alive only while the
\* document links it: cancelling and changing to PIX end it, a second payment
\* does not make another.
PreapprovalIsLinked ==
    \A p \in PreapprovalIds :
        preapprovals[p].state = "AUTHORIZED" /\ preapprovals[p].contract = Contract
            => sub.preId = p

\* The gateway charges next what the schedule says is next, the month a
\* coupon ends included.
RecurringAmountFollowsSchedule ==
    \A p \in PreapprovalIds, i \in DOMAIN sub.charges :
        /\ preapprovals[p].state = "AUTHORIZED" /\ sub.preId = p
        /\ IsNextPending(sub.charges, i)
        => preapprovals[p].amount = sub.charges[i].amount

\* What the gateway will debit by itself is what the document promises: no
\* preapproval of the contract in force runs unlinked, and the linked one
\* charges the amount the schedule says, the month a coupon ends included.
GatewayFollowsDocument == PreapprovalIsLinked /\ RecurringAmountFollowsSchedule

-----------------------------------------------------------------------------
(* The manager's page of contracts, listAcceptances *)

\* Mutant: every acceptance of the plan answers with the document of today.
PurchaseOfAny(acceptance, current) ==
    IF sub.plan # acceptance.plan
    THEN "SUPERSEDED"
    ELSE IF sub.paid > 0 THEN "PAID" ELSE "UNPAID"

\* Only the newest acceptance is answered from the document.
PurchaseOf(acceptance, current) ==
    IF current /\ sub.status = "NONE" THEN "UNPAID"
    ELSE IF ~ current \/ sub.plan # acceptance.plan THEN "SUPERSEDED"
    ELSE IF sub.paid > 0 THEN "PAID" ELSE "UNPAID"

\* A contract the manager sees as paid received money of its own, or its
\* coupon left nothing to charge: never the money of a contract before or
\* after it, though one document serves them all.
PaidContractsWereCredited ==
    \A n \in 1 .. Contract :
        PurchaseOf(acceptances[n], n = Contract /\ ~ unsaved) = "PAID" =>
            \/ \E o \in OrderIds : OrderPaid(o) /\ orders[o].contract = n
            \/ \E p \in PreapprovalIds, c \in 1 .. MaxCycles :
                  preapprovals[p].contract = n /\ IsCycle(p, c)
                  /\ preapprovals[p].cycles[c].delivered
            \/ \E i \in PaidCharges(sub.charges) : sub.charges[i].amount = 0

-----------------------------------------------------------------------------
(* What a step may never do *)

SameContract == acceptances' = acceptances

\* Access that was bought is not taken back within a contract, a cancellation
\* by the student or by the gateway included.
AccessNeverShrinks ==
    [][SameContract => sub'.accessUntil >= sub.accessUntil]_vars

\* A paid charge keeps its amount and the order that paid it: cancelling,
\* changing the method, restarting and late notifications leave it alone.
PaymentsAreKept ==
    [][SameContract =>
          \A i \in PaidCharges(sub.charges) :
              i \in PaidCharges(sub'.charges)
              /\ sub'.charges[i].amount = sub.charges[i].amount
              /\ sub'.charges[i].link = sub.charges[i].link]_vars

\* The handlers implement the lifecycle a plan promises.
Lifecycle == INSTANCE PlanLifecycle WITH
    Sizes    <- {IF IsRecurring(p) THEN 0 ELSE Installments[p] : p \in Plans},
    contract <- Contract,
    status   <- sub.status,
    size     <- IF sub.status = "NONE" \/ IsRecurring(sub.plan)
                THEN 0 ELSE Installments[sub.plan],
    paid     <- sub.paid

ImplementsLifecycle == Lifecycle!Spec

-----------------------------------------------------------------------------
(***************************************************************************)
(* Fairness.  Mercado Pago notifies again until it reads a 2xx, so a       *)
(* notification that keeps having an effect is in the end handled.         *)
(* Nothing is assumed of students, of issuers or of the clock.             *)
(***************************************************************************)
Fairness ==
    /\ \A o \in OrderIds : WF_vars(\E i \in DOMAIN sub.charges : OrderUpdated(o, i))
    /\ \A p \in PreapprovalIds, c \in 1 .. MaxCycles :
          /\ WF_vars(\E i \in DOMAIN sub.charges : CycleCredited(p, c, i))
          /\ WF_vars(CycleUnmatched(p, c))
    /\ \A p \in PreapprovalIds : WF_vars(PreapprovalCancelled(p))

FairSpec == Spec /\ Fairness

\* What the gateway decided reaches the document: a credited order the
\* document links pays its charge, a credited cycle is recorded or matches no
\* document, and a preapproval the gateway ended is let go.
GatewayNewsIsRecorded ==
    /\ \A o \in OrderIds :
          LET waiting == OrderPaid(o) /\ \E i \in PendingCharges(sub.charges) :
                                            sub.charges[i].link = o
          IN  waiting ~> ~ waiting
    /\ \A p \in PreapprovalIds :
          /\ \A c \in 1 .. MaxCycles :
                (IsCycle(p, c) /\ preapprovals[p].cycles[c].status = "PAID")
                    ~> (IsCycle(p, c) /\ preapprovals[p].cycles[c].delivered)
          /\ (preapprovals[p].state = "CANCELLED" /\ sub.preId = p) ~> sub.preId # p
=============================================================================
