---------------------------- MODULE Subscription ----------------------------
(***************************************************************************)
(* One student's subscription: the handlers of SubscriptionService, the    *)
(* documents they write and the payment gateway they talk to.              *)
(*                                                                         *)
(* Here a handler runs from its read to its last save in one step; module  *)
(* SubscriptionRaces splits the handlers at their awaits.  The gateway     *)
(* (Mercado Pago) is external: its orders, its recurring subscriptions     *)
(* ("preapprovals") and their monthly cycles are modelled from what the    *)
(* code sends it and reads back.  A notification only names a resource and *)
(* the handler acts on what it reads of it, so a notification that arrives *)
(* late, twice or out of order is the handler running at any moment.       *)
(***************************************************************************)
EXTENDS SubscriptionDomain, Sequences

CONSTANTS
    Faults,            \* the failures this instance allows, see FaultKinds
    DevMode,           \* DEV_MODE
    RefusalsToCancel,  \* refused cycles after which the gateway gives up
    MaxMonth,          \* bound on the clock
    MaxContracts,      \* bound on contracts
    MaxCycles          \* bound on the cycles of a preapproval

(***************************************************************************)
(* "save"      the plan is not saved after its acceptance was recorded     *)
(* "sync"      the write of the student's mirror fails                     *)
(* "read"      the gateway cannot be read back before a charge             *)
(* "lost"      the gateway creates a resource and the answer is lost       *)
(* "pending"   an order stays in processing before it is decided           *)
(* "release"   the gateway refuses to end a preapproval                    *)
(* "update"    the gateway refuses to change the amount of a preapproval   *)
(* "redeliver" a cycle already credited is notified once more              *)
(* "stale_key" the PIX idempotency key of an earlier contract still answers*)
(***************************************************************************)
FaultKinds == {"save", "sync", "read", "lost", "pending",
               "release", "update", "redeliver", "stale_key"}

ASSUME EnvironmentAssumption ==
    /\ Faults \subseteq FaultKinds
    /\ DevMode \in BOOLEAN
    /\ {RefusalsToCancel, MaxMonth, MaxContracts, MaxCycles} \subseteq Nat

VARIABLES
    sub,           \* the document of collection `subscriptions`
    user,          \* the mirror on the document of collection `users`
    acceptances,   \* `planAcceptances`, oldest first: those whose plan was saved
    unsaved,       \* whether one was recorded after them whose plan was not saved
    orders,        \* external: [OrderIds -> order], "ABSENT" if not created
    preapprovals,  \* external: [PreapprovalIds -> preapproval]
    now,           \* today, in months
    restarted      \* history, for checking: orders a student set aside

vars == <<sub, user, acceptances, unsaved, orders, preapprovals, now, restarted>>
gateway == <<orders, preapprovals>>

-----------------------------------------------------------------------------
(* Types and initial state *)

Orders ==
    [status   : {"ABSENT", "PENDING", "CHALLENGE", "PAID", "REJECTED"},
     kind     : {"PIX", "CARD"},
     index    : Nat,
     amount   : Nat,
     contract : Nat]

Cycles == [status    : {"SCHEDULED", "RECYCLING", "PAID", "REFUSED"},
           delivered : BOOLEAN]

Acceptances == [plan : Plans, total : Nat]

Preapprovals ==
    [state    : {"ABSENT", "AUTHORIZED", "CANCELLED"},
     amount   : Nat,
     contract : Nat,
     born     : Nat,
     cycles   : Seq(Cycles)]

NoSubscription ==
    [plan |-> CHOOSE p \in Plans : TRUE, status |-> "NONE", method |-> "CREDIT_CARD",
     coupon |-> NoCoupon, start |-> 0, charges |-> [i \in {} |-> {}], paid |-> 0,
     total |-> 0, installment |-> 0, preId |-> NoId, accessUntil |-> NoAccess]

Init ==
    /\ sub = NoSubscription
    /\ user = [isPaying |-> FALSE, accessUntil |-> NoAccess]
    /\ acceptances = <<>>
    /\ unsaved = FALSE
    /\ orders = [o \in OrderIds |-> [status |-> "ABSENT", kind |-> "CARD",
                                     index |-> 0, amount |-> 0, contract |-> 0]]
    /\ preapprovals = [p \in PreapprovalIds |->
                          [state |-> "ABSENT", amount |-> 0, contract |-> 0,
                           born |-> 0, cycles |-> <<>>]]
    /\ now = 0
    /\ restarted = {}

-----------------------------------------------------------------------------
(* Writing documents *)

Contract == Len(acceptances)

Save(s) == sub' = ToPlain(s)

\* syncUser swallows its own failure.
SyncUser(s) ==
    \/ user' = Mirror(s)
    \/ "sync" \in Faults /\ UNCHANGED user

SaveAndSync(s) == Save(s) /\ SyncUser(s)

ConfirmCharge(s, i) ==
    /\ WithinBound(Confirm(s, i))
    /\ SaveAndSync(Confirm(s, i))

-----------------------------------------------------------------------------
(* The gateway's side of a call *)

OrderPaid(id) == id \in OrderIds /\ orders[id].status = "PAID"
OrderChallenged(id) == id \in OrderIds /\ orders[id].status = "CHALLENGE"

CreateOrder(o, kind, status, index, amount, contract) ==
    /\ orders[o].status = "ABSENT"
    /\ orders' = [orders EXCEPT ![o] = [status |-> status, kind |-> kind, index |-> index,
                                        amount |-> amount, contract |-> contract]]

\* What a request says of the charge it is for: nothing of the contract.
ExternalId(index, amount) == <<index, amount>>

\* A PIX is idempotent by its externalId; a card order by its token too.
SameKey(o, index, amount) ==
    /\ orders[o].status # "ABSENT" /\ orders[o].kind = "PIX"
    /\ ExternalId(orders[o].index, orders[o].amount) = ExternalId(index, amount)

CreatePixOrder(o, index, amount, contract) ==
    \/ /\ SameKey(o, index, amount)
       /\ orders[o].contract = contract \/ "stale_key" \in Faults
       /\ UNCHANGED orders
    \/ /\ \A q \in OrderIds : SameKey(q, index, amount) => orders[q].contract # contract
       /\ CreateOrder(o, "PIX", "PENDING", index, amount, contract)

\* createSubscription: charged from its first cycle on, of which there is none.
Authorized(amount, contract) ==
    [state |-> "AUTHORIZED", amount |-> amount, contract |-> contract,
     born |-> now, cycles |-> <<>>]

\* cancelSubscription of the gateway: one it no longer has is ended as well.
EndPreapproval(p) == preapprovals' = [preapprovals EXCEPT ![p].state = "CANCELLED"]

\* updateSubscriptionAmount: what the cycles to come will charge.
WithAmount(current, p, amount) == [current EXCEPT ![p].amount = amount]

\* releaseGatewaySubscription: a failure is logged and the link dropped.
ReleasePreapproval(s) ==
    IF s.preId = NoId
    THEN UNCHANGED preapprovals
    ELSE \/ EndPreapproval(s.preId)
         \/ "release" \in Faults /\ UNCHANGED preapprovals

-----------------------------------------------------------------------------
(* Requests of the student *)

\* A closed plan still in force, or an active one, bars another contract.
MayContract(s, today) ==
    /\ ~ (/\ s.status # "NONE" /\ ~ IsRecurring(s.plan)
          /\ s.accessUntil # NoAccess /\ today <= s.accessUntil)
    /\ s.status # "ACTIVE"

\* Mutant: the PIX order is recorded as the recurring subscription too.
IssueChargeAsSubscription(s, i, contract) ==
    /\ s.charges[i].amount > 0
    /\ \/ s.method = "CREDIT_CARD" /\ Save(s) /\ UNCHANGED orders
       \/ /\ s.method = "PIX_RECURRING"
          /\ \E o \in OrderIds :
                /\ CreatePixOrder(o, i, s.charges[i].amount, contract)
                /\ Save([s EXCEPT !.charges[i].link = o, !.preId = o])

\* issueCharge when there is something to charge: a PIX is issued now, the
\* card waits for payWithCard.  A PIX that fails leaves the charge unlinked.
IssueCharge(s, i, contract) ==
    /\ s.charges[i].amount > 0
    /\ \/ s.method = "CREDIT_CARD" /\ Save(s) /\ UNCHANGED orders
       \/ /\ s.method = "PIX_RECURRING"
          /\ \/ Save(s) /\ UNCHANGED orders
             \/ \E o \in OrderIds :
                   /\ CreatePixOrder(o, i, s.charges[i].amount, contract)
                   /\ \/ Save([s EXCEPT !.charges[i].link = o])
                      \/ "lost" \in Faults /\ Save(s)

\* A charge a coupon brought to zero is confirmed at once.
ConfirmZeroCharge(s, i) ==
    s.charges[i].amount = 0 /\ ConfirmCharge(s, i) /\ UNCHANGED orders

\* recordAcceptance: what the student agreed to pay, interest included, which
\* is not what is charged of the gateway.
Acceptance(s) == [plan |-> s.plan, total |-> PayerAmount(s.plan, s.total)]

\* choosePlan, stopped between the acceptance and the save of the plan.
AcceptanceWithoutPlan(plan, method) ==
    /\ "save" \in Faults
    /\ MethodAllowed(plan, method)
    /\ MayContract(sub, now)
    /\ unsaved' = TRUE
    /\ UNCHANGED <<sub, user, acceptances, gateway, now, restarted>>

ChoosePlan(plan, method, coupon) ==
    /\ Contract < MaxContracts
    /\ MethodAllowed(plan, method)
    /\ MayContract(sub, now)
    /\ LET s == BuildSubscription(plan, method, coupon, now)
       IN  /\ acceptances' = Append(acceptances, Acceptance(s))
           /\ \/ IssueCharge(s, 1, Contract + 1) /\ SyncUser(s)
              \/ ConfirmZeroCharge(s, 1)
    /\ unsaved' = FALSE
    /\ UNCHANGED <<preapprovals, now, restarted>>

CardContract(i) ==
    /\ sub.status \notin {"NONE", "CANCELLED"} /\ sub.method = "CREDIT_CARD"
    /\ IsNextPending(sub.charges, i)

\* Mutant: another attempt opens another preapproval.
PayRecurringAgain(i, p) ==
    /\ CardContract(i) /\ IsRecurring(sub.plan)
    /\ preapprovals[p].state = "ABSENT"
    /\ preapprovals' = [preapprovals EXCEPT ![p] = Authorized(sub.charges[i].amount, Contract)]
    /\ Save([sub EXCEPT !.charges[i].link = p, !.preId = p])
    /\ UNCHANGED <<user, acceptances, unsaved, orders, now, restarted>>

\* payWithCard on a recurring plan creates a preapproval, unless the document
\* already links one.  Its first charge comes later, by notification.
PayRecurring(i, p) ==
    /\ CardContract(i) /\ IsRecurring(sub.plan)
    /\ sub.preId = NoId
    /\ preapprovals[p].state = "ABSENT"
    /\ preapprovals' = [preapprovals EXCEPT ![p] = Authorized(sub.charges[i].amount, Contract)]
    /\ \/ Save([sub EXCEPT !.charges[i].link = p, !.preId = p])
       \/ "lost" \in Faults /\ UNCHANGED sub
    /\ UNCHANGED <<user, acceptances, unsaved, orders, now, restarted>>

\* existingCardOutcome, the charge was already paid: by an abandoned order or
\* by the linked one.  The confirmation records the order that really paid.
ConfirmPaidCard(i) ==
    /\ CardContract(i) /\ ~ IsRecurring(sub.plan)
    /\ \E o \in sub.charges[i].abandoned \cup {sub.charges[i].link} :
          /\ OrderPaid(o)
          /\ ConfirmCharge([sub EXCEPT !.charges[i].link = o], i)
    /\ UNCHANGED <<acceptances, unsaved, gateway, now, restarted>>

\* Mutant: an open challenge is forgotten.
FreeToChargeOverChallenge(charge) ==
    \A o \in charge.abandoned \cup {charge.link} : ~ OrderPaid(o)

\* existingCardOutcome lets a new order through.
FreeToCharge(charge) ==
    \/ "read" \in Faults
    \/ /\ \A o \in charge.abandoned \cup {charge.link} : ~ OrderPaid(o)
       /\ ~ OrderChallenged(charge.link)

\* Mutant: what the student agreed to pay is charged, not the base of it.
PayClosedAtPayerTotal(i, o, outcome) ==
    /\ CardContract(i) /\ ~ IsRecurring(sub.plan)
    /\ FreeToCharge(sub.charges[i])
    /\ outcome = "PENDING" => "pending" \in Faults
    /\ CreateOrder(o, "CARD", outcome, i, PayerAmount(sub.plan, sub.total), Contract)
    /\ LET linked == [sub EXCEPT !.charges[i].link = o]
       IN  \/ outcome = "PAID" /\ ConfirmCharge(linked, i)
           \/ outcome # "PAID" /\ Save(linked) /\ UNCHANGED user
    /\ UNCHANGED <<acceptances, unsaved, preapprovals, now, restarted>>

\* payWithCard on a closed plan: one order debits the base of the whole plan,
\* to which the issuer adds the interest.  A refusal
\* without an order (402), a conflict and a busy gateway change nothing.
PayClosed(i, o, outcome) ==
    /\ CardContract(i) /\ ~ IsRecurring(sub.plan)
    /\ FreeToCharge(sub.charges[i])
    /\ outcome = "PENDING" => "pending" \in Faults
    /\ CreateOrder(o, "CARD", outcome, i, sub.total, Contract)
    /\ LET linked == [sub EXCEPT !.charges[i].link = o]
       IN  \/ outcome = "PAID" /\ ConfirmCharge(linked, i)
           \/ outcome # "PAID" /\ Save(linked) /\ UNCHANGED user
           \/ "lost" \in Faults /\ UNCHANGED <<sub, user>>
    /\ UNCHANGED <<acceptances, unsaved, preapprovals, now, restarted>>

\* restartCardPayment sets the open charge's gateway id aside.
RestartCardPayment(i) ==
    /\ sub.method = "CREDIT_CARD" /\ IsNextPending(sub.charges, i)
    /\ sub.charges[i].link # NoId
    /\ \/ /\ OrderPaid(sub.charges[i].link)
          /\ ConfirmCharge(sub, i)
          /\ UNCHANGED restarted
       \/ /\ ~ OrderPaid(sub.charges[i].link) \/ "read" \in Faults
          /\ Save([sub EXCEPT !.charges[i].abandoned = @ \cup {sub.charges[i].link},
                              !.charges[i].link = NoId])
          /\ restarted' = restarted \cup ({sub.charges[i].link} \cap OrderIds)
          /\ UNCHANGED user
    /\ UNCHANGED <<acceptances, unsaved, gateway, now>>

\* refreshCardPayment: the student's browser asks after a 3DS challenge.
RefreshCardPayment(i) ==
    /\ IsNextPending(sub.charges, i) /\ ~ IsRecurring(sub.plan)
    /\ OrderPaid(sub.charges[i].link)
    /\ ConfirmCharge(sub, i)
    /\ UNCHANGED <<acceptances, unsaved, gateway, now, restarted>>

ChangePaymentMethod(method) ==
    /\ sub.status \notin {"NONE", "CANCELLED"}
    /\ MethodAllowed(sub.plan, method) /\ method # sub.method
    /\ ReleasePreapproval(sub)
    /\ \E i \in DOMAIN sub.charges :
          /\ IsNextPending(sub.charges, i)
          /\ LET s == [sub EXCEPT !.method = method, !.preId = NoId,
                                  !.charges[i].link = NoId]
             IN  \/ IssueCharge(s, i, Contract) /\ UNCHANGED user
                 \/ ConfirmZeroCharge(s, i)
    /\ UNCHANGED <<acceptances, unsaved, now, restarted>>

\* Mutants: cancelling takes the paid access back; a closed plan is cancelled.
CancelTakingAccess ==
    /\ sub.status \notin {"NONE", "CANCELLED"} /\ IsRecurring(sub.plan)
    /\ ReleasePreapproval(sub)
    /\ SaveAndSync([sub EXCEPT !.status = "CANCELLED", !.preId = NoId,
                               !.accessUntil = NoAccess, !.charges = KeepPaid(@)])
    /\ UNCHANGED <<acceptances, unsaved, orders, now, restarted>>

CancelAnyPlan ==
    /\ sub.status \notin {"NONE", "CANCELLED"}
    /\ ReleasePreapproval(sub)
    /\ SaveAndSync([sub EXCEPT !.status = "CANCELLED", !.preId = NoId,
                               !.accessUntil = PaidAccessUntil(sub),
                               !.charges = KeepPaid(@)])
    /\ UNCHANGED <<acceptances, unsaved, orders, now, restarted>>

\* Closed plans are bought, not subscribed: nothing to cancel.
CancelSubscription ==
    /\ sub.status \notin {"NONE", "CANCELLED"} /\ IsRecurring(sub.plan)
    /\ ReleasePreapproval(sub)
    /\ SaveAndSync([sub EXCEPT !.status = "CANCELLED", !.preId = NoId,
                               !.accessUntil = PaidAccessUntil(sub),
                               !.charges = KeepPaid(@)])
    /\ UNCHANGED <<acceptances, unsaved, orders, now, restarted>>

\* mockPay, only in DEV_MODE.
MockPay(i) ==
    /\ DevMode
    /\ IsNextPending(sub.charges, i)
    /\ ConfirmCharge(sub, i)
    /\ UNCHANGED <<acceptances, unsaved, gateway, now, restarted>>

-----------------------------------------------------------------------------
(* Notifications *)

\* onOrderUpdated
OrderUpdated(o, i) ==
    /\ OrderPaid(o)
    /\ IsLinked(sub.charges, i, o)
    /\ sub.charges[i].status = "PENDING"
    /\ ConfirmCharge(sub, i)
    /\ UNCHANGED <<acceptances, unsaved, gateway, now, restarted>>

IsCycle(p, c) == c \in DOMAIN preapprovals[p].cycles

\* Mutant: the preapproval keeps its first amount.
KeepRecurringAmount(s, p, delivered) == Save(s) /\ preapprovals' = delivered

\* syncRecurringAmount after confirming: the amount the gateway charges next
\* follows the next pending charge of `s`.
SyncRecurringAmount(s, p, delivered) ==
    \E j \in DOMAIN s.charges :
        /\ IsNextPending(s.charges, j)
        /\ \/ /\ s.charges[j].amount = s.installment
              /\ Save(s) /\ preapprovals' = delivered
           \/ /\ s.charges[j].amount # s.installment
              /\ \/ /\ preapprovals' = WithAmount(delivered, p, s.charges[j].amount)
                    /\ Save([s EXCEPT !.installment = s.charges[j].amount])
                 \/ "update" \in Faults /\ preapprovals' = delivered /\ Save(s)

\* Mutant: a processed cycle is taken for a paid one.
CycleProcessed(p, c, i) ==
    /\ IsCycle(p, c) /\ preapprovals[p].cycles[c].status \in {"PAID", "REFUSED"}
    /\ ~ preapprovals[p].cycles[c].delivered
    /\ sub.preId = p
    /\ IsNextPending(sub.charges, i)
    /\ LET s == Confirm(sub, i)
       IN  /\ WithinBound(s)
           /\ SyncRecurringAmount(s, p,
                 [preapprovals EXCEPT ![p].cycles[c].delivered = TRUE])
           /\ SyncUser(s)
    /\ UNCHANGED <<acceptances, unsaved, orders, now, restarted>>

\* onSubscriptionCycle, credited: whichever charge is next is confirmed.
CycleCredited(p, c, i) ==
    /\ IsCycle(p, c) /\ preapprovals[p].cycles[c].status = "PAID"
    /\ preapprovals[p].cycles[c].delivered => "redeliver" \in Faults
    /\ sub.preId = p
    /\ IsNextPending(sub.charges, i)
    /\ LET s == Confirm(sub, i)
       IN  /\ WithinBound(s)
           /\ SyncRecurringAmount(s, p,
                 [preapprovals EXCEPT ![p].cycles[c].delivered = TRUE])
           /\ SyncUser(s)
    /\ UNCHANGED <<acceptances, unsaved, orders, now, restarted>>

\* A credited cycle of a preapproval no document links is answered 200.
CycleUnmatched(p, c) ==
    /\ IsCycle(p, c) /\ preapprovals[p].cycles[c].status = "PAID"
    /\ sub.preId # p
    /\ ~ preapprovals[p].cycles[c].delivered
    /\ preapprovals' = [preapprovals EXCEPT ![p].cycles[c].delivered = TRUE]
    /\ UNCHANGED <<sub, user, acceptances, unsaved, orders, now, restarted>>

\* onSubscriptionCycle, anything but credited: markPastDue.
CycleNotCredited(p, c) ==
    /\ IsCycle(p, c) /\ preapprovals[p].cycles[c].status # "PAID"
    /\ sub.preId = p /\ sub.status # "PAST_DUE"
    /\ SaveAndSync([sub EXCEPT !.status = "PAST_DUE"])
    /\ UNCHANGED <<acceptances, unsaved, gateway, now, restarted>>

\* Mutants: the end of a preapproval is not mirrored; its id is kept.
PreapprovalCancelledUnmirrored(p) ==
    /\ preapprovals[p].state = "CANCELLED"
    /\ sub.preId = p /\ sub.status # "CANCELLED"
    /\ Save([sub EXCEPT !.status = "CANCELLED", !.preId = NoId,
                        !.charges = KeepPaid(@)])
    /\ UNCHANGED <<user, acceptances, unsaved, gateway, now, restarted>>

PreapprovalCancelledStillLinked(p) ==
    /\ preapprovals[p].state = "CANCELLED"
    /\ sub.preId = p /\ sub.status # "CANCELLED"
    /\ SaveAndSync([sub EXCEPT !.status = "CANCELLED", !.charges = KeepPaid(@)])
    /\ UNCHANGED <<acceptances, unsaved, gateway, now, restarted>>

\* onPreapprovalUpdated: the gateway gave up by itself.
PreapprovalCancelled(p) ==
    /\ preapprovals[p].state = "CANCELLED"
    /\ sub.preId = p /\ sub.status # "CANCELLED"
    /\ SaveAndSync([sub EXCEPT !.status = "CANCELLED", !.preId = NoId,
                               !.charges = KeepPaid(@)])
    /\ UNCHANGED <<acceptances, unsaved, gateway, now, restarted>>

-----------------------------------------------------------------------------
(* The gateway and the calendar *)

DecideOrder(o, outcome) ==
    /\ orders[o].status \in {"PENDING", "CHALLENGE"}
    /\ orders' = [orders EXCEPT ![o].status = outcome]
    /\ UNCHANGED <<sub, user, acceptances, unsaved, preapprovals, now, restarted>>

\* A preapproval opens one cycle a month.
OpenCycle(p) ==
    /\ preapprovals[p].state = "AUTHORIZED"
    /\ Len(preapprovals[p].cycles) < MaxCycles
    /\ preapprovals[p].born + Len(preapprovals[p].cycles) <= now
    /\ preapprovals' = [preapprovals EXCEPT ![p].cycles =
                           Append(@, [status |-> "SCHEDULED", delivered |-> FALSE])]
    /\ UNCHANGED <<sub, user, acceptances, unsaved, orders, now, restarted>>

AttemptCycle(p, c, outcome) ==
    /\ preapprovals[p].state = "AUTHORIZED"
    /\ IsCycle(p, c) /\ preapprovals[p].cycles[c].status \in {"SCHEDULED", "RECYCLING"}
    /\ preapprovals' = [preapprovals EXCEPT ![p].cycles[c].status = outcome]
    /\ UNCHANGED <<sub, user, acceptances, unsaved, orders, now, restarted>>

RefusedCycles(p) == {c \in DOMAIN preapprovals[p].cycles :
                        preapprovals[p].cycles[c].status = "REFUSED"}

GatewayCancels(p) ==
    /\ preapprovals[p].state = "AUTHORIZED"
    /\ Cardinality(RefusedCycles(p)) >= RefusalsToCancel
    /\ preapprovals' = [preapprovals EXCEPT ![p].state = "CANCELLED"]
    /\ UNCHANGED <<sub, user, acceptances, unsaved, orders, now, restarted>>

MonthPasses ==
    /\ now < MaxMonth
    /\ now' = now + 1
    /\ UNCHANGED <<sub, user, acceptances, unsaved, orders, preapprovals, restarted>>

-----------------------------------------------------------------------------
StudentRequest ==
    \/ \E plan \in Plans, method \in Methods, coupon \in Coupons :
          ChoosePlan(plan, method, coupon) \/ AcceptanceWithoutPlan(plan, method)
    \/ \E i \in DOMAIN sub.charges :
          \/ \E p \in PreapprovalIds : PayRecurring(i, p)
          \/ ConfirmPaidCard(i)
          \/ \E o \in OrderIds, outcome \in {"PENDING", "CHALLENGE", "PAID", "REJECTED"} :
                PayClosed(i, o, outcome)
          \/ RestartCardPayment(i)
          \/ RefreshCardPayment(i)
          \/ MockPay(i)
    \/ \E method \in Methods : ChangePaymentMethod(method)
    \/ CancelSubscription

Notification ==
    \/ \E o \in OrderIds, i \in DOMAIN sub.charges : OrderUpdated(o, i)
    \/ \E p \in PreapprovalIds :
          \/ \E c \in DOMAIN preapprovals[p].cycles :
                \/ \E i \in DOMAIN sub.charges : CycleCredited(p, c, i)
                \/ CycleUnmatched(p, c)
                \/ CycleNotCredited(p, c)
          \/ PreapprovalCancelled(p)

Environment ==
    \/ \E o \in OrderIds, outcome \in {"PAID", "REJECTED"} : DecideOrder(o, outcome)
    \/ \E p \in PreapprovalIds :
          \/ OpenCycle(p)
          \/ \E c \in DOMAIN preapprovals[p].cycles, outcome \in {"RECYCLING", "PAID", "REFUSED"} :
                AttemptCycle(p, c, outcome)
          \/ GatewayCancels(p)
    \/ MonthPasses

Next == StudentRequest \/ Notification \/ Environment

Spec == Init /\ [][Next]_vars
=============================================================================
