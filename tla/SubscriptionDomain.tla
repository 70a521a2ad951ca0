------------------------- MODULE SubscriptionDomain -------------------------
(***************************************************************************)
(* The pure part of the subscription code: the plan catalogue, the coupon, *)
(* the schedule of charges and what confirming a payment does to a         *)
(* subscription document (subscription.entity.ts, coupon.entity.ts and the *)
(* private helpers of subscription.service.ts).                            *)
(*                                                                         *)
(* Dates are month numbers counted from the start of the model: every date *)
(* the code computes is `addMonths` of another.  0 is an absent date, since*)
(* no paid period ends in month 0.  Amounts are naturals: cents.           *)
(***************************************************************************)
EXTENDS Naturals, FiniteSets

CONSTANTS
    Plans,           \* the plans on sale
    Recurring,       \* the plans that renew every month (the Mensal)
    Installments,    \* [Plans -> number of charges that close the plan]
    Price,           \* [Plans -> amount of one charge, before the coupon]
    PayerTotal,      \* [Plans -> what the student pays, interest included]
    ScheduleMonths,  \* RECURRING_SCHEDULE_MONTHS, renewals projected ahead
    Coupons,         \* the coupons in force, NoCoupon included
    OrderIds,        \* ids the gateway gives to orders
    PreapprovalIds,  \* ids the gateway gives to recurring subscriptions
    NoId,            \* an absent gateway id
    MaxCharges       \* bound on the charges of a recurring schedule

(***************************************************************************)
(* A coupon takes `discount` off the charges 1..months of a plan.          *)
(***************************************************************************)
Lifetime == 0                            \* the null of `durationMonths`
NoCoupon == [discount |-> 0, months |-> Lifetime]

ASSUME CatalogueAssumption ==
    /\ Plans # {}
    /\ Recurring \subseteq Plans
    /\ Installments \in [Plans -> Nat \ {0}]
    /\ Price \in [Plans -> Nat \ {0}]
    /\ PayerTotal \in [Plans -> Nat \ {0}]
    /\ ScheduleMonths \in Nat \ {0}
    /\ Coupons \subseteq [discount : Nat, months : Nat]
    /\ NoCoupon \in Coupons

ASSUME GatewayIdAssumption ==
    /\ OrderIds \cap PreapprovalIds = {}
    /\ NoId \notin OrderIds \cup PreapprovalIds

GatewayIds == OrderIds \cup PreapprovalIds
Methods == {"PIX_RECURRING", "CREDIT_CARD"}
NoAccess == 0

(***************************************************************************)
(* Documents.  `charges` maps the index of a charge to the charge.         *)
(* `status` "NONE" is a student without a subscription document.           *)
(***************************************************************************)
Charge == [amount    : Nat,
           status    : {"PENDING", "PAID"},
           link      : GatewayIds \cup {NoId},      \* gatewayChargeId
           abandoned : SUBSET GatewayIds]           \* abandonedChargeIds

\* A schedule is a function from the indexes of its charges.
IsSchedule(charges) ==
    /\ DOMAIN charges \subseteq 1 .. MaxCharges
    /\ charges \in [DOMAIN charges -> Charge]

\* The documents with a given schedule.
Documents(charges) ==
    [plan        : Plans,
     status      : {"NONE", "PENDING", "ACTIVE", "PAST_DUE", "CANCELLED"},
     method      : Methods,
     coupon      : Coupons,
     start       : Nat,
     charges     : {charges},
     paid        : Nat,
     total       : Nat,
     installment : Nat,
     preId       : PreapprovalIds \cup {NoId},
     accessUntil : Nat]

IsRecurring(plan) == plan \in Recurring

\* PIX does not close an instalment plan.
MethodAllowed(plan, method) ==
    method = "PIX_RECURRING" => Installments[plan] = 1

ApplyDiscount(amount, discount) ==
    IF amount > discount THEN amount - discount ELSE 0

AmountFor(plan, coupon, index) ==
    IF coupon.months = Lifetime \/ index <= coupon.months
    THEN ApplyDiscount(Price[plan], coupon.discount)
    ELSE Price[plan]

\* How many of the charges of a closed plan the coupon reaches.
CoveredCharges(plan, coupon) ==
    IF coupon.months = Lifetime \/ coupon.months > Installments[plan]
    THEN Installments[plan]
    ELSE coupon.months

\* The sum of the charges of a closed plan; the price of a recurring one.
TotalAmount(plan, coupon) ==
    IF IsRecurring(plan)
    THEN Price[plan]
    ELSE   CoveredCharges(plan, coupon) * ApplyDiscount(Price[plan], coupon.discount)
         + (Installments[plan] - CoveredCharges(plan, coupon)) * Price[plan]

\* payerAmountsOf: the interest of the catalogue on a base the coupon reduced,
\* rounded to the cent, half up.
PayerAmount(plan, base) ==
    LET catalogue == TotalAmount(plan, NoCoupon)
    IN  (2 * base * PayerTotal[plan] + catalogue) \div (2 * catalogue)

\* Interest is only ever added, and none where nothing is financed.
ASSUME PayerAssumption ==
    \A plan \in Plans : PayerTotal[plan] >= TotalAmount(plan, NoCoupon)

Scheduled(plan) ==
    IF IsRecurring(plan) THEN ScheduleMonths ELSE Installments[plan]

ASSUME ScheduleAssumption ==
    MaxCharges \in Nat /\ \A plan \in Plans : Scheduled(plan) <= MaxCharges

NewCharge(plan, coupon, index) ==
    [amount    |-> AmountFor(plan, coupon, index),
     status    |-> "PENDING",
     link      |-> NoId,
     abandoned |-> {}]

BuildSubscription(plan, method, coupon, today) ==
    [plan        |-> plan,
     status      |-> "PENDING",
     method      |-> method,
     coupon      |-> coupon,
     start       |-> today,
     charges     |-> [i \in 1 .. Scheduled(plan) |-> NewCharge(plan, coupon, i)],
     paid        |-> 0,                                  \* paidInstallments
     total       |-> TotalAmount(plan, coupon),          \* totalAmount
     installment |-> AmountFor(plan, coupon, 1),         \* installmentAmount
     preId       |-> NoId,                               \* gatewaySubscriptionId
     accessUntil |-> NoAccess]

(***************************************************************************)
(* Reading a schedule.                                                     *)
(***************************************************************************)
PaidCharges(charges) == {i \in DOMAIN charges : charges[i].status = "PAID"}
PendingCharges(charges) == DOMAIN charges \ PaidCharges(charges)

\* nextPendingCharge: the pending charge with the smallest index, if any.
IsNextPending(charges, i) ==
    /\ i \in PendingCharges(charges)
    /\ \A j \in PendingCharges(charges) : i <= j

\* What `charges.find` returns for a gateway id: the first linked charge.
IsLinked(charges, i, id) ==
    /\ i \in DOMAIN charges
    /\ charges[i].link = id
    /\ \A j \in DOMAIN charges : charges[j].link = id => i <= j

\* Mutant: the filter is inverted.
KeepPending(charges) == [i \in PendingCharges(charges) |-> charges[i]]

KeepPaid(charges) == [i \in PaidCharges(charges) |-> charges[i]]

PaidAccessUntil(s) ==
    IF s.paid = 0
    THEN NoAccess
    ELSE s.start + (IF IsRecurring(s.plan) THEN s.paid ELSE Installments[s.plan])

(***************************************************************************)
(* confirmCharge, from the charge `i` it found to the document it saves.   *)
(***************************************************************************)
Settle(charges, settled, i) ==
    [j \in DOMAIN charges |->
        IF j \in settled /\ charges[j].status = "PENDING"
        THEN [charges[j] EXCEPT
                !.status = "PAID",
                !.link   = IF @ = NoId THEN charges[i].link ELSE @]
        ELSE charges[j]]

\* Mutant: the window is one renewal short before it is refilled.
ExtendScheduleLate(plan, coupon, charges) ==
    LET missing == ScheduleMonths - Cardinality(PendingCharges(charges))
        length  == Cardinality(DOMAIN charges)
    IN  IF IsRecurring(plan) /\ Cardinality(PendingCharges(charges)) + 1 < ScheduleMonths
        THEN [j \in DOMAIN charges \cup ((length + 1) .. (length + missing)) |->
                IF j \in DOMAIN charges THEN charges[j]
                                        ELSE NewCharge(plan, coupon, j)]
        ELSE charges

\* extendRecurringSchedule: new charges are numbered after the length.
ExtendSchedule(plan, coupon, charges) ==
    LET missing == ScheduleMonths - Cardinality(PendingCharges(charges))
        length  == Cardinality(DOMAIN charges)
    IN  IF IsRecurring(plan) /\ Cardinality(PendingCharges(charges)) < ScheduleMonths
        THEN [j \in DOMAIN charges \cup ((length + 1) .. (length + missing)) |->
                IF j \in DOMAIN charges THEN charges[j]
                                        ELSE NewCharge(plan, coupon, j)]
        ELSE charges

\* Mutants: the date is computed before the payment is counted; one order of a
\* closed plan pays one charge of it.
ConfirmDatedBeforeCounting(s, i) ==
    LET settled == IF IsRecurring(s.plan) THEN {i} ELSE DOMAIN s.charges
        charges == Settle(s.charges, settled, i)
    IN  [s EXCEPT !.paid        = Cardinality(PaidCharges(charges)),
                  !.status      = "ACTIVE",
                  !.accessUntil = PaidAccessUntil(s),
                  !.charges     = ExtendSchedule(s.plan, s.coupon, charges)]

ConfirmOneCharge(s, i) ==
    LET charges == Settle(s.charges, {i}, i)
        counted == [s EXCEPT !.paid   = Cardinality(PaidCharges(charges)),
                             !.status = "ACTIVE"]
    IN  [counted EXCEPT
            !.accessUntil = PaidAccessUntil(counted),
            !.charges     = ExtendSchedule(s.plan, s.coupon, charges)]

Confirm(s, i) ==
    LET settled == IF IsRecurring(s.plan) THEN {i} ELSE DOMAIN s.charges
        charges == Settle(s.charges, settled, i)
        counted == [s EXCEPT !.paid   = Cardinality(PaidCharges(charges)),
                             !.status = "ACTIVE"]
    IN  [counted EXCEPT
            !.accessUntil = PaidAccessUntil(counted),
            !.charges     = ExtendSchedule(s.plan, s.coupon, charges)]

\* Confirming grows a recurring schedule: the bound on it.
WithinBound(s) == DOMAIN s.charges \subseteq 1 .. MaxCharges

\* grantsAccess and the mirror `syncUser` writes on the student's document.
GrantsAccess(status) == status = "ACTIVE"
Mirror(s) == [isPaying |-> GrantsAccess(s.status), accessUntil |-> s.accessUntil]

\* hasPaidAccess, as the guard reads it from the mirror.
HasPaidAccess(user, today) ==
    user.isPaying \/ (user.accessUntil # NoAccess /\ today <= user.accessUntil)

\* SubscriptionRepository.toPlain: what a save writes of a document.
ToPlain(s) ==
    [s EXCEPT !.charges = [i \in DOMAIN s.charges |->
                              [s.charges[i] EXCEPT !.abandoned = {}]]]

-----------------------------------------------------------------------------
(***************************************************************************)
(* What every write must leave in a document.                              *)
(***************************************************************************)

\* A plan sold for a period is wholly unpaid or wholly paid, and paid gives
\* access to the end of the period.
WhollyPaidOrUnpaid(s) ==
    \/ /\ s.status = "PENDING"
       /\ PaidCharges(s.charges) = {} /\ s.accessUntil = NoAccess
    \/ /\ s.status = "ACTIVE"
       /\ PendingCharges(s.charges) = {}
       /\ s.accessUntil = s.start + Installments[s.plan]

\* Counter, schedule and date agree.
CountsWhatWasPaid(s) ==
    /\ s.paid = Cardinality(PaidCharges(s.charges))
    /\ s.accessUntil = PaidAccessUntil(s)

\* Charges are numbered without gaps and paid in order; a plan that still
\* renews shows ScheduleMonths renewals ahead.
HasFullWindow(s) ==
    /\ PaidCharges(s.charges) = 1 .. s.paid
    /\ PendingCharges(s.charges) =
          IF s.status = "CANCELLED"
          THEN {}
          ELSE (s.paid + 1) .. (s.paid + ScheduleMonths)
=============================================================================
