--------------------- MODULE SubscriptionDomain_proofs ---------------------
(***************************************************************************)
(* Lemmas about the document of a subscription: what each way of writing   *)
(* it keeps, for every catalogue of plans, every set of coupons and ids    *)
(* and every bound on the schedule.  The proofs about Subscription, where  *)
(* a handler is one step, and about SubscriptionRaces, where it is split   *)
(* at its awaits, both rest on them.                                       *)
(***************************************************************************)
EXTENDS SubscriptionDomain, FiniteSetTheorems, TLAPS

\* What TypeOK says of one document.
DocumentOK(s) == s \in Documents(s.charges) /\ IsSchedule(s.charges)

\* A gateway id is recorded on the next open charge only.
OnlyNextIsLinked(charges) ==
    \A i \in PendingCharges(charges) :
        charges[i].link # NoId => IsNextPending(charges, i)

\* Every charge costs what the plan and the coupon say of its index.
Priced(charges, plan, coupon) ==
    \A i \in DOMAIN charges : charges[i].amount = AmountFor(plan, coupon, i)

\* The inductive part of the document's invariants.  What the properties do
\* not say and the proof needs: only the next open charge of a recurring plan
\* carries a gateway id, so no notification pays out of turn, and neither a
\* closed plan nor a cancelled one keeps a preapproval that could suspend it.
DocInv(s) ==
    /\ DocumentOK(s) /\ CountsWhatWasPaid(s)
    /\ s.status # "NONE" /\ Priced(s.charges, s.plan, s.coupon)
    /\ s.preId # NoId => IsRecurring(s.plan) /\ s.status # "CANCELLED"
    /\ IF IsRecurring(s.plan)
       THEN HasFullWindow(s) /\ OnlyNextIsLinked(s.charges)
       ELSE WhollyPaidOrUnpaid(s) /\ DOMAIN s.charges = 1 .. Installments[s.plan]

-----------------------------------------------------------------------------
(* Lemmas about the pure operators *)

\* Schedules are finite: their parts can be counted.
LEMMA ScheduleIsFinite ==
    ASSUME NEW charges, DOMAIN charges \subseteq 1 .. MaxCharges
    PROVE  /\ IsFiniteSet(DOMAIN charges)
           /\ IsFiniteSet(PaidCharges(charges))
           /\ IsFiniteSet(PendingCharges(charges))
           /\ Cardinality(DOMAIN charges) \in Nat
           /\ Cardinality(PaidCharges(charges)) \in Nat
           /\ Cardinality(PendingCharges(charges)) \in Nat
PROOF
  <1>1. IsFiniteSet(1 .. MaxCharges)
    BY FS_Interval, ScheduleAssumption
  <1>2. \A S \in SUBSET (1 .. MaxCharges) : IsFiniteSet(S)
    BY <1>1, FS_Subset
  <1>3. /\ PaidCharges(charges) \in SUBSET (1 .. MaxCharges)
        /\ PendingCharges(charges) \in SUBSET (1 .. MaxCharges)
    BY DEF PaidCharges, PendingCharges
  <1> QED
    BY <1>2, <1>3, FS_CardinalityType

\* A coupon never takes a charge below zero.
LEMMA AmountForType ==
    ASSUME NEW plan \in Plans, NEW coupon \in Coupons, NEW i \in Nat
    PROVE  AmountFor(plan, coupon, i) \in Nat
PROOF
  <1>1. Price[plan] \in Nat /\ coupon.discount \in Nat
    BY CatalogueAssumption
  <1> QED
    BY <1>1 DEF AmountFor, ApplyDiscount

LEMMA NewChargeType ==
    ASSUME NEW plan \in Plans, NEW coupon \in Coupons, NEW i \in Nat
    PROVE  /\ NewCharge(plan, coupon, i) \in Charge
           /\ NewCharge(plan, coupon, i).status = "PENDING"
    BY AmountForType DEF NewCharge, Charge

\* The total of a plan is an amount.
LEMMA TotalAmountType ==
    ASSUME NEW plan \in Plans, NEW coupon \in Coupons
    PROVE  TotalAmount(plan, coupon) \in Nat
PROOF
  <1> DEFINE n == Installments[plan]
             k == CoveredCharges(plan, coupon)
             d == ApplyDiscount(Price[plan], coupon.discount)
  <1>1. n \in Nat /\ Price[plan] \in Nat /\ coupon.discount \in Nat /\ coupon.months \in Nat
    BY CatalogueAssumption
  <1>2. k \in Nat /\ n - k \in Nat
    BY <1>1 DEF CoveredCharges, Lifetime
  <1>3. d \in Nat
    BY <1>1 DEF ApplyDiscount
  <1>4. k * d \in Nat /\ (n - k) * Price[plan] \in Nat
    BY <1>1, <1>2, <1>3
  <1> QED
    BY <1>1, <1>4 DEF TotalAmount

LEMMA BuildType ==
    ASSUME NEW plan \in Plans, NEW method \in Methods, NEW coupon \in Coupons, NEW today \in Nat
    PROVE  DocumentOK(BuildSubscription(plan, method, coupon, today))
PROOF
  <1> DEFINE s == BuildSubscription(plan, method, coupon, today)
  <1>1. Scheduled(plan) \in Nat \ {0} /\ Scheduled(plan) <= MaxCharges
    BY CatalogueAssumption, ScheduleAssumption DEF Scheduled
  <1>2. 1 .. Scheduled(plan) \subseteq 1 .. MaxCharges
    BY <1>1, ScheduleAssumption
  <1>3. \A i \in 1 .. Scheduled(plan) : NewCharge(plan, coupon, i) \in Charge
    BY NewChargeType
  <1>4. IsSchedule(s.charges)
    BY <1>2, <1>3 DEF BuildSubscription, IsSchedule
  <1>5. AmountFor(plan, coupon, 1) \in Nat
    BY AmountForType
  <1>6. s \in Documents(s.charges)
    BY <1>5, TotalAmountType DEF BuildSubscription, Documents, NoAccess
  <1> QED
    BY <1>4, <1>6 DEF DocumentOK

LEMMA ToPlainType ==
    ASSUME NEW s, DocumentOK(s)
    PROVE  /\ DocumentOK(ToPlain(s))
           /\ PaidCharges(ToPlain(s).charges) = PaidCharges(s.charges)
           /\ PendingCharges(ToPlain(s).charges) = PendingCharges(s.charges)
           /\ DOMAIN ToPlain(s).charges = DOMAIN s.charges
           /\ ToPlain(s).paid = s.paid /\ ToPlain(s).status = s.status
           /\ ToPlain(s).plan = s.plan /\ ToPlain(s).start = s.start
           /\ ToPlain(s).accessUntil = s.accessUntil
           /\ ToPlain(s).coupon = s.coupon /\ ToPlain(s).total = s.total
PROOF
  <1> DEFINE charges == [i \in DOMAIN s.charges |-> [s.charges[i] EXCEPT !.abandoned = {}]]
  <1>1. ToPlain(s) = [s EXCEPT !.charges = charges]
    BY DEF ToPlain
  <1>2. \A i \in DOMAIN s.charges : charges[i] \in Charge /\ charges[i].status = s.charges[i].status
    BY DEF DocumentOK, IsSchedule, Charge
  <1>3. IsSchedule(charges)
    BY <1>2 DEF DocumentOK, IsSchedule
  <1>4. /\ ToPlain(s) \in Documents(charges) /\ ToPlain(s).charges = charges
        /\ ToPlain(s).paid = s.paid /\ ToPlain(s).status = s.status
        /\ ToPlain(s).plan = s.plan /\ ToPlain(s).start = s.start
        /\ ToPlain(s).accessUntil = s.accessUntil
        /\ ToPlain(s).coupon = s.coupon /\ ToPlain(s).total = s.total
    BY <1>1 DEF DocumentOK, Documents
  <1>5. PaidCharges(charges) = PaidCharges(s.charges)
    BY <1>2 DEF PaidCharges
  <1> QED
    BY <1>3, <1>4, <1>5 DEF DocumentOK, PendingCharges

-----------------------------------------------------------------------------
(* Lemmas about confirmCharge *)

LEMMA SettleFacts ==
    ASSUME NEW charges, IsSchedule(charges), NEW settled, NEW i \in DOMAIN charges
    PROVE  /\ IsSchedule(Settle(charges, settled, i))
           /\ DOMAIN Settle(charges, settled, i) = DOMAIN charges
           /\ PaidCharges(Settle(charges, settled, i))
                 = PaidCharges(charges) \cup (settled \cap DOMAIN charges)
           /\ \A j \in DOMAIN charges \ settled : Settle(charges, settled, i)[j] = charges[j]
           /\ \A j \in DOMAIN charges :
                 Settle(charges, settled, i)[j].amount = charges[j].amount
           /\ Settle(charges, settled, i)[i].link = charges[i].link
PROOF
  <1> DEFINE new == Settle(charges, settled, i)
  <1>1. DOMAIN new = DOMAIN charges
    BY DEF Settle
  <1>2. ASSUME NEW j \in DOMAIN charges
        PROVE  /\ new[j] \in Charge
               /\ new[j].status = "PAID" <=> charges[j].status = "PAID" \/ j \in settled
               /\ j \notin settled => new[j] = charges[j]
               /\ new[j].amount = charges[j].amount
               /\ j = i => new[j].link = charges[j].link
    <2>1. charges[j] \in Charge /\ charges[i] \in Charge
      BY DEF IsSchedule
    <2>2. CASE j \in settled /\ charges[j].status = "PENDING"
      <3>1. new[j] = [charges[j] EXCEPT !.status = "PAID",
                                        !.link = IF @ = NoId THEN charges[i].link ELSE @]
        BY <2>2 DEF Settle
      <3> QED
        BY <2>1, <2>2, <3>1 DEF Charge
    <2>3. CASE ~ (j \in settled /\ charges[j].status = "PENDING")
      BY <2>1, <2>3 DEF Settle, Charge
    <2> QED
      BY <2>2, <2>3
  <1>3. IsSchedule(new)
    BY <1>1, <1>2 DEF IsSchedule, Settle
  <1>4. PaidCharges(new) = PaidCharges(charges) \cup (settled \cap DOMAIN charges)
    BY <1>1, <1>2 DEF PaidCharges
  <1> QED
    BY <1>1, <1>2, <1>3, <1>4

LEMMA ExtendFacts ==
    ASSUME NEW plan \in Plans, NEW coupon \in Coupons,
           NEW charges, IsSchedule(charges),
           DOMAIN ExtendSchedule(plan, coupon, charges) \subseteq 1 .. MaxCharges
    PROVE  /\ IsSchedule(ExtendSchedule(plan, coupon, charges))
           /\ PaidCharges(ExtendSchedule(plan, coupon, charges)) = PaidCharges(charges)
           /\ DOMAIN charges \subseteq DOMAIN ExtendSchedule(plan, coupon, charges)
           /\ \A j \in DOMAIN charges : ExtendSchedule(plan, coupon, charges)[j] = charges[j]
           /\ \A j \in DOMAIN ExtendSchedule(plan, coupon, charges) \ DOMAIN charges :
                 ExtendSchedule(plan, coupon, charges)[j] = NewCharge(plan, coupon, j)
PROOF
  <1> DEFINE new == ExtendSchedule(plan, coupon, charges)
             missing == ScheduleMonths - Cardinality(PendingCharges(charges))
             length  == Cardinality(DOMAIN charges)
             grown == DOMAIN charges \cup ((length + 1) .. (length + missing))
  <1>1. CASE IsRecurring(plan) /\ Cardinality(PendingCharges(charges)) < ScheduleMonths
    <2>1. new = [j \in grown |-> IF j \in DOMAIN charges THEN charges[j]
                                                       ELSE NewCharge(plan, coupon, j)]
      BY <1>1 DEF ExtendSchedule
    <2> HIDE DEF grown
    <2>2. DOMAIN new = grown
      BY <2>1
    <2>3. DOMAIN charges \subseteq grown
      BY DEF grown
    <2>4. \A j \in grown : new[j] \in Charge /\ (j \notin DOMAIN charges => new[j].status = "PENDING")
      <3> SUFFICES ASSUME NEW j \in grown
                   PROVE  new[j] \in Charge /\ (j \notin DOMAIN charges => new[j].status = "PENDING")
        OBVIOUS
      <3>1. j \in Nat
        BY <2>2
      <3>2. NewCharge(plan, coupon, j) \in Charge /\ NewCharge(plan, coupon, j).status = "PENDING"
        BY <3>1, NewChargeType
      <3> QED
        BY <2>1, <3>2 DEF IsSchedule
    <2>5. \A j \in DOMAIN charges : new[j] = charges[j]
      BY <2>1, <2>3
    <2>6. PaidCharges(new) = PaidCharges(charges)
      BY <2>2, <2>3, <2>4, <2>5 DEF PaidCharges
    <2>7. IsSchedule(new)
      <3>1. new \in [grown -> Charge]
        BY <2>1, <2>4
      <3> QED
        BY <2>2, <3>1 DEF IsSchedule
    <2> QED
      BY <2>1, <2>2, <2>3, <2>5, <2>6, <2>7
  <1>2. CASE ~ (IsRecurring(plan) /\ Cardinality(PendingCharges(charges)) < ScheduleMonths)
    BY <1>2 DEF ExtendSchedule
  <1> QED
    BY <1>1, <1>2

-----------------------------------------------------------------------------
(* How a handler may change a document *)

\* A paid charge keeps its amount and its order.
KeepsPayments(s, t) ==
    \A i \in PaidCharges(s.charges) :
        /\ i \in PaidCharges(t.charges)
        /\ t.charges[i].amount = s.charges[i].amount
        /\ t.charges[i].link = s.charges[i].link

\* Links, method, preapproval and amount may change, nothing else.
Rewritten(s, t) ==
    /\ DocInv(t)
    /\ t.plan = s.plan /\ t.status = s.status /\ t.start = s.start
    /\ t.coupon = s.coupon /\ t.total = s.total
    /\ t.paid = s.paid /\ t.accessUntil = s.accessUntil
    /\ PaidCharges(t.charges) = PaidCharges(s.charges)
    /\ PendingCharges(t.charges) = PendingCharges(s.charges)
    /\ KeepsPayments(s, t)

\* One step of a contract.
Paying(s, t) ==
    /\ s.status \in {"PENDING", "ACTIVE", "PAST_DUE"} /\ t.status = "ACTIVE"
    /\ ~ IsRecurring(s.plan) => s.paid = 0
    /\ t.paid = s.paid + (IF IsRecurring(s.plan) THEN 1 ELSE Installments[s.plan])

Suspending(s, t) ==
    /\ s.status \in {"PENDING", "ACTIVE"} /\ t.status = "PAST_DUE"
    /\ IsRecurring(s.plan)
    /\ t.paid = s.paid

Ending(s, t) ==
    /\ s.status \in {"PENDING", "ACTIVE", "PAST_DUE"} /\ t.status = "CANCELLED"
    /\ IsRecurring(s.plan)
    /\ t.paid = s.paid

Continues(s, t) ==
    /\ DocInv(t)
    /\ t.plan = s.plan /\ t.coupon = s.coupon /\ t.total = s.total
    /\ t.accessUntil >= s.accessUntil
    /\ KeepsPayments(s, t)
    /\ \/ t.status = s.status /\ t.paid = s.paid
       \/ Paying(s, t)
       \/ Suspending(s, t)
       \/ Ending(s, t)

LEMMA DocTypes ==
    ASSUME NEW s, DocInv(s)
    PROVE  /\ s.plan \in Plans /\ s.method \in Methods /\ s.coupon \in Coupons
           /\ s.status \in {"PENDING", "ACTIVE", "PAST_DUE", "CANCELLED"}
           /\ s.start \in Nat /\ s.paid \in Nat /\ s.accessUntil \in Nat
           /\ s.total \in Nat /\ s.installment \in Nat
           /\ s.preId \in PreapprovalIds \cup {NoId}
           /\ DOMAIN s.charges \subseteq 1 .. MaxCharges
           /\ s.charges \in [DOMAIN s.charges -> Charge]
           /\ PaidCharges(s.charges) \subseteq DOMAIN s.charges
           /\ PendingCharges(s.charges) \subseteq DOMAIN s.charges
  BY DEF DocInv, DocumentOK, Documents, IsSchedule, PaidCharges, PendingCharges

\* Changing what is not a status nor a date of a document keeps it coherent,
\* if new links are given to the next open charge only.
LEMMA RewriteStep ==
    ASSUME NEW s, DocInv(s), NEW t, DocumentOK(t),
           t.plan = s.plan, t.status = s.status, t.start = s.start,
           t.coupon = s.coupon, t.total = s.total,
           t.paid = s.paid, t.accessUntil = s.accessUntil,
           DOMAIN t.charges = DOMAIN s.charges,
           \A j \in DOMAIN s.charges :
              /\ t.charges[j].status = s.charges[j].status
              /\ t.charges[j].amount = s.charges[j].amount
              /\ t.charges[j].link \in {s.charges[j].link, NoId} \/ IsNextPending(s.charges, j)
              /\ j \in PaidCharges(s.charges) => t.charges[j].link = s.charges[j].link,
           t.preId # NoId => IsRecurring(s.plan) /\ s.status # "CANCELLED"
    PROVE  Rewritten(s, t)
PROOF
  <1>1. /\ PaidCharges(t.charges) = PaidCharges(s.charges)
        /\ PendingCharges(t.charges) = PendingCharges(s.charges)
    BY DEF PaidCharges, PendingCharges
  <1>2. \A i : IsNextPending(t.charges, i) <=> IsNextPending(s.charges, i)
    BY <1>1 DEF IsNextPending
  <1>3. CountsWhatWasPaid(t) /\ t.status # "NONE" /\ Priced(t.charges, t.plan, t.coupon)
    BY <1>1 DEF DocInv, CountsWhatWasPaid, PaidAccessUntil, Priced
  <1>4. CASE IsRecurring(s.plan)
    <2>1. HasFullWindow(t)
      BY <1>1, <1>4 DEF DocInv, HasFullWindow
    <2>2. ASSUME NEW i \in PendingCharges(t.charges), t.charges[i].link # NoId
          PROVE  IsNextPending(t.charges, i)
      BY <1>1, <1>2, <1>4, <2>2, DocTypes DEF DocInv, OnlyNextIsLinked
    <2>3. DocInv(t)
      BY <1>3, <1>4, <2>1, <2>2 DEF DocInv, OnlyNextIsLinked
    <2> QED
      BY <1>1, <2>3, DocTypes DEF Rewritten, KeepsPayments
  <1>5. CASE ~ IsRecurring(s.plan)
    <2>1. WhollyPaidOrUnpaid(t)
      BY <1>1, <1>5 DEF DocInv, WhollyPaidOrUnpaid
    <2>2. DocInv(t)
      BY <1>3, <1>5, <2>1 DEF DocInv
    <2> QED
      BY <1>1, <2>2, DocTypes DEF Rewritten, KeepsPayments
  <1> QED
    BY <1>4, <1>5

LEMMA SaveStep ==
    ASSUME NEW s, DocInv(s)
    PROVE  Rewritten(s, ToPlain(s))
PROOF
  <1> DEFINE t == ToPlain(s)
  <1>1. DocumentOK(t)
    BY ToPlainType DEF DocInv
  <1>2. /\ t.plan = s.plan /\ t.status = s.status /\ t.start = s.start
        /\ t.paid = s.paid /\ t.accessUntil = s.accessUntil
        /\ t.coupon = s.coupon /\ t.total = s.total
        /\ DOMAIN t.charges = DOMAIN s.charges
    BY ToPlainType DEF DocInv
  <1>3. s.charges \in [DOMAIN s.charges -> Charge]
    BY DocTypes
  <1>4. t.preId = s.preId /\ t.charges = [i \in DOMAIN s.charges |-> [s.charges[i] EXCEPT !.abandoned = {}]]
    BY DEF ToPlain, DocInv, DocumentOK, Documents
  <1>5. ASSUME NEW j \in DOMAIN s.charges
        PROVE  /\ t.charges[j].status = s.charges[j].status
               /\ t.charges[j].amount = s.charges[j].amount
               /\ t.charges[j].link = s.charges[j].link
    BY <1>3, <1>4 DEF Charge
  <1>6. t.preId # NoId => IsRecurring(s.plan) /\ s.status # "CANCELLED"
    BY <1>4 DEF DocInv
  <1> QED
    BY <1>1, <1>2, <1>5, <1>6, RewriteStep

\* Steps compose with rewritings on either side.
LEMMA RewrittenContinues ==
    ASSUME NEW s, DocInv(s), NEW r, Rewritten(s, r), NEW t, Continues(r, t)
    PROVE  Continues(s, t)
  BY DocTypes DEF Rewritten, Continues, KeepsPayments, Paying, Suspending, Ending

LEMMA ContinuesRewritten ==
    ASSUME NEW s, DocInv(s), NEW r, Continues(s, r), NEW t, Rewritten(r, t)
    PROVE  Continues(s, t)
  BY DocTypes DEF Rewritten, Continues, KeepsPayments, Paying, Suspending, Ending

LEMMA RewritingContinues ==
    ASSUME NEW s, DocInv(s), NEW t, Rewritten(s, t)
    PROVE  Continues(s, t)
  BY DocTypes DEF Rewritten, Continues

LEMMA SavedContinues ==
    ASSUME NEW s, DocInv(s), NEW t, Continues(s, t)
    PROVE  Continues(s, ToPlain(t))
  BY SaveStep, ContinuesRewritten DEF Continues

LEMMA CountTo ==
    ASSUME NEW n \in Nat
    PROVE  Cardinality(1 .. n) = n
PROOF
  <1>1. Cardinality(1 .. n) = IF 1 > n THEN 0 ELSE n - 1 + 1
    BY FS_Interval
  <1> QED
    BY <1>1

\* A new contract starts coherent: nothing paid, a full schedule ahead.
LEMMA BuildInv ==
    ASSUME NEW plan \in Plans, NEW method \in Methods, NEW coupon \in Coupons, NEW today \in Nat
    PROVE  LET s == BuildSubscription(plan, method, coupon, today)
           IN  /\ DocInv(s)
               /\ s.plan = plan /\ s.status = "PENDING" /\ s.paid = 0
               /\ s.charges[1].status = "PENDING" /\ IsNextPending(s.charges, 1)
PROOF
  <1> DEFINE s == BuildSubscription(plan, method, coupon, today)
  <1>1. DocumentOK(s)
    BY BuildType
  <1>2. /\ s.plan = plan /\ s.status = "PENDING" /\ s.paid = 0 /\ s.start = today
        /\ s.preId = NoId /\ s.accessUntil = 0
        /\ s.charges = [i \in 1 .. Scheduled(plan) |-> NewCharge(plan, coupon, i)]
    BY DEF BuildSubscription, NoAccess
  <1>3. Scheduled(plan) \in Nat \ {0}
    BY CatalogueAssumption DEF Scheduled
  <1>4. DOMAIN s.charges = 1 .. Scheduled(plan)
    BY <1>2
  <1>5. \A i \in 1 .. Scheduled(plan) : s.charges[i].status = "PENDING" /\ s.charges[i].link = NoId
    BY <1>2 DEF NewCharge
  <1>6. PaidCharges(s.charges) = {}
    BY <1>4, <1>5 DEF PaidCharges
  <1>7. PendingCharges(s.charges) = 1 .. Scheduled(plan)
    BY <1>4, <1>6 DEF PendingCharges
  <1>8. CountsWhatWasPaid(s)
    BY <1>2, <1>6, FS_EmptySet DEF CountsWhatWasPaid, PaidAccessUntil, NoAccess
  <1>9. IF IsRecurring(plan) THEN HasFullWindow(s) ELSE WhollyPaidOrUnpaid(s)
    <2>1. CASE IsRecurring(plan)
      <3>1. Scheduled(plan) = ScheduleMonths
        BY <2>1 DEF Scheduled
      <3>2. PaidCharges(s.charges) = 1 .. 0 /\ PendingCharges(s.charges) = (0 + 1) .. (0 + ScheduleMonths)
        BY <1>6, <1>7, <3>1, CatalogueAssumption
      <3> QED
        BY <1>2, <2>1, <3>2 DEF HasFullWindow
    <2>2. CASE ~ IsRecurring(plan)
      BY <1>2, <1>6, <2>2 DEF WhollyPaidOrUnpaid, NoAccess
    <2> QED
      BY <2>1, <2>2
  <1>10. IsNextPending(s.charges, 1)
    BY <1>3, <1>7 DEF IsNextPending
  <1>11. DocInv(s)
    <2>1. s.coupon = coupon /\ Priced(s.charges, s.plan, s.coupon)
      BY <1>2 DEF Priced, NewCharge, BuildSubscription
    <2> QED
      BY <1>1, <1>2, <1>4, <1>5, <1>7, <1>8, <1>9, <2>1 DEF DocInv, Scheduled, OnlyNextIsLinked
  <1>12. s.charges[1].status = "PENDING"
    BY <1>3, <1>5
  <1> QED
    BY <1>2, <1>10, <1>11, <1>12

LEMMA Intervals ==
    ASSUME NEW n \in Nat, NEW m \in Nat \ {0}
    PROVE  /\ (1 .. n) \cup ((n + 1) .. (n + m)) = 1 .. (n + m)
           /\ (1 .. n) \cup {n + 1} = 1 .. (n + 1)
           /\ (1 .. (n + m)) \ (1 .. n) = (n + 1) .. (n + m)
           /\ (1 .. (n + m)) \ (1 .. (n + 1)) = (n + 2) .. (n + m)
           /\ (1 .. (n + m)) \cup ((n + m + 1) .. (n + m + 1)) = 1 .. (n + 1 + m)
           /\ (1 .. (n + 1 + m)) \ (1 .. (n + 1)) = (n + 2) .. (n + 1 + m)
           /\ Cardinality((n + 2) .. (n + m)) = m - 1
PROOF
  <1>1. Cardinality((n + 2) .. (n + m)) = IF n + 2 > n + m THEN 0 ELSE (n + m) - (n + 2) + 1
    BY FS_Interval
  <1>2. Cardinality((n + 2) .. (n + m)) = m - 1
    BY <1>1
  <1>3. (1 .. n) \cup ((n + 1) .. (n + m)) = 1 .. (n + m)
    OBVIOUS
  <1>4. (1 .. n) \cup {n + 1} = 1 .. (n + 1)
    OBVIOUS
  <1>5. (1 .. (n + m)) \ (1 .. n) = (n + 1) .. (n + m)
    OBVIOUS
  <1>6. (1 .. (n + m)) \ (1 .. (n + 1)) = (n + 2) .. (n + m)
    OBVIOUS
  <1>7. (1 .. (n + m)) \cup ((n + m + 1) .. (n + m + 1)) = 1 .. (n + 1 + m)
    OBVIOUS
  <1>8. (1 .. (n + 1 + m)) \ (1 .. (n + 1)) = (n + 2) .. (n + 1 + m)
    OBVIOUS
  <1> QED
    BY <1>2, <1>3, <1>4, <1>5, <1>6, <1>7, <1>8

\* A schedule with n renewals paid and a full window ahead.
Window(charges, n) ==
    /\ PaidCharges(charges) = 1 .. n
    /\ PendingCharges(charges) = (n + 1) .. (n + ScheduleMonths)

LEMMA NextInWindow ==
    ASSUME NEW charges, NEW n \in Nat, Window(charges, n), NEW i, IsNextPending(charges, i)
    PROVE  /\ i = n + 1
           /\ i \in DOMAIN charges
           /\ DOMAIN charges = 1 .. (n + ScheduleMonths)
PROOF
  <1>1. ScheduleMonths \in Nat \ {0}
    BY CatalogueAssumption
  <1>2. n + 1 \in PendingCharges(charges)
    BY <1>1 DEF Window
  <1>3. i <= n + 1 /\ i \in (n + 1) .. (n + ScheduleMonths)
    BY <1>2 DEF IsNextPending, Window
  <1>4. i \in DOMAIN charges
    BY DEF IsNextPending, PendingCharges
  <1>5. DOMAIN charges = PaidCharges(charges) \cup PendingCharges(charges)
    BY DEF PaidCharges, PendingCharges
  <1>6. DOMAIN charges = (1 .. n) \cup ((n + 1) .. (n + ScheduleMonths))
    BY <1>5 DEF Window
  <1> QED
    BY <1>1, <1>3, <1>4, <1>6, Intervals

\* The schedule after a renewal is paid.
Renewed(plan, coupon, charges, i) == ExtendSchedule(plan, coupon, Settle(charges, {i}, i))

\* The charges already paid are not touched.
SamePaid(charges, new) == \A j \in PaidCharges(charges) : new[j] = charges[j]

\* No open charge is linked.
NoneLinked(charges) == \A j \in PendingCharges(charges) : charges[j].link = NoId

\* The next renewal of a plan may be paid, within the bound on its schedule.
Renewable(plan, coupon, n, charges, i) ==
    /\ plan \in Recurring /\ coupon \in Coupons /\ n \in Nat
    /\ IsSchedule(charges) /\ Window(charges, n) /\ OnlyNextIsLinked(charges)
    /\ IsNextPending(charges, i)
    /\ DOMAIN Renewed(plan, coupon, charges, i) \subseteq 1 .. MaxCharges

\* Paying the next renewal of a schedule and extending it slides its window.
LEMMA WindowSlides ==
    ASSUME NEW plan, NEW coupon, NEW n, NEW charges, NEW i,
           Renewable(plan, coupon, n, charges, i)
    PROVE  /\ IsSchedule(Renewed(plan, coupon, charges, i))
           /\ Window(Renewed(plan, coupon, charges, i), n + 1)
           /\ OnlyNextIsLinked(Renewed(plan, coupon, charges, i))
           /\ SamePaid(charges, Renewed(plan, coupon, charges, i))
           /\ PaidCharges(Settle(charges, {i}, i)) = 1 .. (n + 1)
           /\ NoneLinked(Renewed(plan, coupon, charges, i))
           /\ Renewed(plan, coupon, charges, i)[i].link = charges[i].link
PROOF
  <1> DEFINE m == ScheduleMonths
             settled == Settle(charges, {i}, i)
             longer == ExtendSchedule(plan, coupon, settled)
  <1>0. /\ plan \in Recurring /\ coupon \in Coupons /\ n \in Nat
        /\ IsSchedule(charges) /\ Window(charges, n) /\ OnlyNextIsLinked(charges)
        /\ IsNextPending(charges, i)
        /\ DOMAIN longer \subseteq 1 .. MaxCharges
    BY DEF Renewable, Renewed
  <1>1. m \in Nat \ {0} /\ plan \in Plans
    BY <1>0, CatalogueAssumption
  <1>2. i = n + 1 /\ i \in DOMAIN charges /\ DOMAIN charges = 1 .. (n + m)
    BY <1>0, NextInWindow
  <1>3. PaidCharges(charges) = 1 .. n
    BY <1>0 DEF Window
  <1>4. /\ IsSchedule(settled) /\ DOMAIN settled = DOMAIN charges
        /\ PaidCharges(settled) = PaidCharges(charges) \cup ({i} \cap DOMAIN charges)
        /\ \A j \in DOMAIN charges \ {i} : settled[j] = charges[j]
        /\ settled[i].link = charges[i].link
    <2>1. i \in DOMAIN charges
      BY <1>2
    <2> QED
      BY <1>0, <2>1, SettleFacts
  <1> HIDE DEF m, settled
  <1>5. /\ (1 .. n) \cup {n + 1} = 1 .. (n + 1)
        /\ (1 .. (n + m)) \ (1 .. (n + 1)) = (n + 2) .. (n + m)
        /\ (1 .. (n + m)) \cup ((n + m + 1) .. (n + m + 1)) = 1 .. (n + 1 + m)
        /\ (1 .. (n + 1 + m)) \ (1 .. (n + 1)) = (n + 2) .. (n + 1 + m)
        /\ Cardinality((n + 2) .. (n + m)) = m - 1
    BY <1>0, <1>1, Intervals
  <1>6. PaidCharges(settled) = 1 .. (n + 1)
    <2>1. PaidCharges(settled) = (1 .. n) \cup {n + 1}
      BY <1>2, <1>3, <1>4
    <2> QED
      BY <1>5, <2>1
  <1>7. PendingCharges(settled) = (n + 2) .. (n + m)
    BY <1>2, <1>4, <1>5, <1>6 DEF PendingCharges
  <1>8. Cardinality(PendingCharges(settled)) = m - 1 /\ Cardinality(DOMAIN settled) = n + m
    BY <1>0, <1>1, <1>2, <1>4, <1>5, <1>7, CountTo
  <1>9. DOMAIN longer = 1 .. (n + 1 + m)
    <2>1. m - 1 < m /\ m - (m - 1) = 1
      BY <1>1
    <2>2. DOMAIN longer = DOMAIN settled \cup ((n + m + 1) .. (n + m + 1))
      BY <1>0, <1>1, <1>8, <2>1 DEF ExtendSchedule, IsRecurring, m
    <2> QED
      BY <1>2, <1>4, <1>5, <2>2
  <1>10. DOMAIN longer \subseteq 1 .. MaxCharges
    BY <1>0 DEF settled
  <1>11. /\ IsSchedule(longer) /\ PaidCharges(longer) = PaidCharges(settled)
         /\ \A j \in DOMAIN settled : longer[j] = settled[j]
         /\ \A j \in DOMAIN longer \ DOMAIN settled : longer[j] = NewCharge(plan, coupon, j)
    BY <1>0, <1>1, <1>4, <1>10, ExtendFacts
  <1> HIDE DEF longer
  <1>12. PendingCharges(longer) = (n + 2) .. (n + 1 + m)
    BY <1>5, <1>6, <1>9, <1>11 DEF PendingCharges
  <1>13. ASSUME NEW j \in PendingCharges(longer)
         PROVE  longer[j].link = NoId
    <2>1. j \in DOMAIN longer /\ j \notin PaidCharges(charges) /\ ~ (j <= i) /\ j # i
      BY <1>0, <1>2, <1>3, <1>12 DEF PendingCharges
    <2>2. CASE j \in DOMAIN charges
      <3>1. j \in PendingCharges(charges)
        BY <2>1, <2>2 DEF PendingCharges
      <3>2. ~ IsNextPending(charges, j)
        BY <1>0, <2>1 DEF IsNextPending
      <3>3. longer[j] = charges[j]
        BY <1>4, <1>11, <2>1, <2>2
      <3> QED
        BY <1>0, <3>1, <3>2, <3>3 DEF OnlyNextIsLinked
    <2>3. CASE j \notin DOMAIN charges
      <3>1. longer[j] = NewCharge(plan, coupon, j)
        BY <1>4, <1>11, <2>1, <2>3
      <3> QED
        BY <3>1 DEF NewCharge
    <2> QED
      BY <2>2, <2>3
  <1>14. ASSUME NEW j \in PaidCharges(charges)
         PROVE  longer[j] = charges[j]
    <2>1. j \in DOMAIN charges /\ j # i
      BY <1>0, <1>2, <1>3 DEF PaidCharges
    <2> QED
      BY <1>4, <1>11, <2>1
  <1>15. Window(longer, n + 1)
    <2>1. (n + 1) + 1 = n + 2 /\ (n + 1) + m = n + 1 + m
      BY <1>0, <1>1
    <2> QED
      BY <1>6, <1>11, <1>12, <2>1 DEF Window, m
  <1>16. OnlyNextIsLinked(longer)
    BY <1>13 DEF OnlyNextIsLinked
  <1> QED
    BY <1>2, <1>4, <1>6, <1>11, <1>13, <1>14, <1>15, <1>16
       DEF longer, settled, Renewed, SamePaid, NoneLinked

\* What confirmCharge settles, and the schedule it leaves.
Settled(s, i) == IF IsRecurring(s.plan) THEN {i} ELSE DOMAIN s.charges
Afterwards(s, i) == ExtendSchedule(s.plan, s.coupon, Settle(s.charges, Settled(s, i), i))

\* What is paid and what is projected costs what it did, and so does the rest.
LEMMA AfterwardsPriced ==
    ASSUME NEW s, DocInv(s), NEW i \in DOMAIN s.charges,
           DOMAIN Afterwards(s, i) \subseteq 1 .. MaxCharges
    PROVE  Priced(Afterwards(s, i), s.plan, s.coupon)
PROOF
  <1> DEFINE settled == Settle(s.charges, Settled(s, i), i)
             longer  == Afterwards(s, i)
  <1>1. /\ s.plan \in Plans /\ s.coupon \in Coupons /\ IsSchedule(s.charges)
        /\ Priced(s.charges, s.plan, s.coupon)
    BY DocTypes DEF DocInv, DocumentOK
  <1>2. /\ IsSchedule(settled) /\ DOMAIN settled = DOMAIN s.charges
        /\ \A j \in DOMAIN s.charges : settled[j].amount = s.charges[j].amount
    BY <1>1, SettleFacts
  <1>3. longer = ExtendSchedule(s.plan, s.coupon, settled)
    BY DEF Afterwards
  <1> HIDE DEF settled, longer
  <1>4. /\ \A j \in DOMAIN settled : longer[j] = settled[j]
        /\ \A j \in DOMAIN longer \ DOMAIN settled : longer[j] = NewCharge(s.plan, s.coupon, j)
    <2>1. DOMAIN longer \subseteq 1 .. MaxCharges
      BY DEF longer
    <2> QED
      BY <1>1, <1>2, <1>3, <2>1, ExtendFacts
  <1>5. Priced(longer, s.plan, s.coupon)
    BY <1>1, <1>2, <1>4 DEF Priced, NewCharge
  <1> QED
    BY <1>5 DEF longer

\* The document confirmCharge saves, field by field.
LEMMA ConfirmFields ==
    ASSUME NEW s, DocInv(s), NEW i, NEW n \in Nat \ {0},
           Cardinality(PaidCharges(Settle(s.charges, Settled(s, i), i))) = n,
           IsSchedule(Afterwards(s, i))
    PROVE  /\ DocumentOK(Confirm(s, i))
           /\ Confirm(s, i).plan = s.plan /\ Confirm(s, i).start = s.start
           /\ Confirm(s, i).status = "ACTIVE" /\ Confirm(s, i).paid = n
           /\ Confirm(s, i).accessUntil =
                 s.start + (IF IsRecurring(s.plan) THEN n ELSE Installments[s.plan])
           /\ Confirm(s, i).charges = Afterwards(s, i)
           /\ Confirm(s, i).preId = s.preId
           /\ Confirm(s, i).coupon = s.coupon /\ Confirm(s, i).total = s.total
           /\ Confirm(s, i).installment = s.installment
PROOF
  <1> DEFINE counted == [s EXCEPT !.paid = n, !.status = "ACTIVE"]
             until == s.start + (IF IsRecurring(s.plan) THEN n ELSE Installments[s.plan])
             charges == Afterwards(s, i)
             t == Confirm(s, i)
  <1>1. s \in Documents(s.charges)
    BY DEF DocInv, DocumentOK
  <1>2. counted.paid = n /\ counted.start = s.start /\ counted.plan = s.plan
    BY <1>1 DEF Documents
  <1>3. t = [counted EXCEPT !.accessUntil = PaidAccessUntil(counted), !.charges = charges]
    BY DEF Confirm, Afterwards, Settled
  <1> HIDE DEF counted, charges, t
  <1>4. PaidAccessUntil(counted) = until
    BY <1>2 DEF PaidAccessUntil
  <1>5. until \in Nat
    BY DocTypes, CatalogueAssumption
  <1> HIDE DEF until
  <1>6. t = [s EXCEPT !.paid = n, !.status = "ACTIVE", !.accessUntil = until, !.charges = charges]
    BY <1>1, <1>3, <1>4 DEF Documents, counted
  <1>7. t \in Documents(charges)
    BY <1>1, <1>5, <1>6 DEF Documents
  <1>8. /\ t.plan = s.plan /\ t.status = "ACTIVE" /\ t.start = s.start /\ t.paid = n
        /\ t.accessUntil = until /\ t.charges = charges /\ t.preId = s.preId
        /\ t.coupon = s.coupon /\ t.total = s.total /\ t.installment = s.installment
    BY <1>1, <1>6 DEF Documents
  <1> QED
    BY <1>7, <1>8 DEF DocumentOK, t, until, charges

\* What a payment leaves of the links: no open charge has one, and a renewal
\* that was paid keeps its own.
Pays(s, t, i) ==
    /\ t.preId = s.preId /\ t.installment = s.installment
    /\ NoneLinked(t.charges)
    /\ IsRecurring(s.plan) =>
          /\ PaidCharges(t.charges) = PaidCharges(s.charges) \cup {i}
          /\ t.charges[i].link = s.charges[i].link

\* confirmCharge on a plan that renews: one more renewal is paid.
LEMMA ConfirmRecurring ==
    ASSUME NEW s, DocInv(s), NEW i, IsNextPending(s.charges, i), IsRecurring(s.plan),
           WithinBound(Confirm(s, i))
    PROVE  /\ Continues(s, Confirm(s, i)) /\ Confirm(s, i).status = "ACTIVE"
           /\ Pays(s, Confirm(s, i), i)
PROOF
  <1> DEFINE n == s.paid
             t == Confirm(s, i)
             longer == Renewed(s.plan, s.coupon, s.charges, i)
  <1>1. /\ n \in Nat /\ s.plan \in Recurring /\ s.coupon \in Coupons /\ s.start \in Nat
        /\ s.status \in {"PENDING", "ACTIVE", "PAST_DUE", "CANCELLED"}
        /\ IsSchedule(s.charges) /\ s.accessUntil \in Nat
    BY DocTypes DEF DocInv, DocumentOK, IsRecurring
  <1>2. s.status # "CANCELLED" /\ Window(s.charges, n) /\ OnlyNextIsLinked(s.charges)
    BY DEF DocInv, HasFullWindow, IsNextPending, Window
  <1>3. Afterwards(s, i) = longer /\ Settled(s, i) = {i}
    BY DEF Afterwards, Settled, Renewed
  <1>4. t.charges = longer
    BY <1>3 DEF Confirm, Afterwards, Settled, DocInv, DocumentOK, Documents
  <1>5. DOMAIN longer \subseteq 1 .. MaxCharges
    BY <1>4 DEF WithinBound
  <1>6. /\ IsSchedule(longer) /\ Window(longer, n + 1) /\ OnlyNextIsLinked(longer)
        /\ SamePaid(s.charges, longer)
        /\ PaidCharges(Settle(s.charges, {i}, i)) = 1 .. (n + 1)
        /\ NoneLinked(longer)
        /\ longer[i].link = s.charges[i].link
    <2>1. Renewable(s.plan, s.coupon, n, s.charges, i)
      BY <1>1, <1>2, <1>5 DEF Renewable
    <2> QED
      BY <2>1, WindowSlides
  <1>7. /\ DocumentOK(t) /\ t.plan = s.plan /\ t.start = s.start
        /\ t.status = "ACTIVE" /\ t.paid = n + 1 /\ t.preId = s.preId
        /\ t.accessUntil = s.start + (n + 1)
        /\ t.coupon = s.coupon /\ t.total = s.total /\ t.installment = s.installment
        /\ Priced(longer, s.plan, s.coupon)
    <2>1. n + 1 \in Nat \ {0}
      BY <1>1
    <2>2. Cardinality(PaidCharges(Settle(s.charges, Settled(s, i), i))) = n + 1
      BY <1>3, <1>6, <2>1, CountTo
    <2>3. IsSchedule(Afterwards(s, i))
      BY <1>3, <1>6
    <2>4. Priced(longer, s.plan, s.coupon)
      BY <1>3, <1>5, AfterwardsPriced DEF IsNextPending, PendingCharges
    <2> QED
      BY <2>1, <2>2, <2>3, <2>4, ConfirmFields
  <1> HIDE DEF t, longer
  <1>8. CountsWhatWasPaid(t)
    <2>1. Cardinality(PaidCharges(t.charges)) = n + 1
      BY <1>1, <1>4, <1>6, CountTo DEF Window
    <2> QED
      BY <1>1, <1>7, <2>1 DEF CountsWhatWasPaid, PaidAccessUntil, IsRecurring
  <1>9. HasFullWindow(t)
    BY <1>4, <1>6, <1>7 DEF HasFullWindow, Window
  <1>10. DocInv(t)
    BY <1>1, <1>2, <1>4, <1>6, <1>7, <1>8, <1>9 DEF DocInv, IsRecurring
  <1>11. KeepsPayments(s, t)
    <2>1. \A j \in PaidCharges(s.charges) : j \in PaidCharges(longer)
      BY <1>1, <1>2, <1>6 DEF Window
    <2> QED
      BY <1>4, <1>6, <2>1 DEF KeepsPayments, SamePaid
  <1>12. t.accessUntil >= s.accessUntil
    <2>1. s.accessUntil <= s.start + n
      BY <1>1 DEF DocInv, CountsWhatWasPaid, PaidAccessUntil, NoAccess, IsRecurring
    <2> QED
      BY <1>1, <1>7, <2>1
  <1>13. Pays(s, t, i)
    <2>1. i = n + 1
      BY <1>1, <1>2, NextInWindow
    <2>2. PaidCharges(t.charges) = PaidCharges(s.charges) \cup {i}
      BY <1>1, <1>2, <1>4, <1>6, <2>1 DEF Window
    <2> QED
      BY <1>4, <1>6, <1>7, <2>2 DEF Pays
  <1> QED
    BY <1>1, <1>2, <1>7, <1>10, <1>11, <1>12, <1>13 DEF Continues, Paying, IsRecurring, t

\* confirmCharge on a plan sold for a period: the whole plan is paid at once.
LEMMA ConfirmClosed ==
    ASSUME NEW s, DocInv(s), NEW i \in PendingCharges(s.charges), ~ IsRecurring(s.plan)
    PROVE  /\ Continues(s, Confirm(s, i)) /\ Confirm(s, i).status = "ACTIVE"
           /\ Pays(s, Confirm(s, i), i)
PROOF
  <1> DEFINE n == Installments[s.plan]
             charges == Settle(s.charges, DOMAIN s.charges, i)
             t == Confirm(s, i)
  <1>1. /\ n \in Nat \ {0} /\ s.plan \in Plans /\ s.start \in Nat /\ IsSchedule(s.charges)
        /\ DOMAIN s.charges = 1 .. n /\ i \in DOMAIN s.charges
    BY DocTypes, CatalogueAssumption DEF DocInv, DocumentOK
  <1>2. s.status = "PENDING" /\ PaidCharges(s.charges) = {} /\ s.accessUntil = 0 /\ s.paid = 0
    BY FS_EmptySet DEF DocInv, WhollyPaidOrUnpaid, NoAccess, CountsWhatWasPaid
  <1>3. IsSchedule(charges) /\ DOMAIN charges = 1 .. n /\ PaidCharges(charges) = 1 .. n
    <2>1. /\ IsSchedule(charges) /\ DOMAIN charges = DOMAIN s.charges
          /\ PaidCharges(charges) = PaidCharges(s.charges) \cup (DOMAIN s.charges \cap DOMAIN s.charges)
      BY <1>1, SettleFacts
    <2> QED
      BY <1>1, <1>2, <2>1
  <1>4. Afterwards(s, i) = charges /\ Settled(s, i) = DOMAIN s.charges
    BY DEF Afterwards, Settled, ExtendSchedule
  <1> HIDE DEF t
  <1>5. /\ DocumentOK(t) /\ t.plan = s.plan /\ t.start = s.start
        /\ t.status = "ACTIVE" /\ t.paid = n /\ t.preId = s.preId
        /\ t.accessUntil = s.start + n /\ t.charges = charges
        /\ t.coupon = s.coupon /\ t.total = s.total /\ t.installment = s.installment
        /\ Priced(charges, s.plan, s.coupon)
    <2>1. Cardinality(PaidCharges(Settle(s.charges, Settled(s, i), i))) = n
      BY <1>1, <1>3, <1>4, CountTo
    <2>2. IsSchedule(Afterwards(s, i))
      BY <1>3, <1>4
    <2>3. Priced(charges, s.plan, s.coupon)
      <3>1. DOMAIN charges \subseteq 1 .. MaxCharges
        BY <1>3 DEF IsSchedule
      <3> QED
        BY <1>1, <1>4, <3>1, AfterwardsPriced
    <2> QED
      BY <1>1, <1>4, <2>1, <2>2, <2>3, ConfirmFields DEF t
  <1> HIDE DEF charges
  <1>6. Cardinality(PaidCharges(charges)) = n /\ PendingCharges(charges) = {}
    BY <1>1, <1>3, CountTo DEF PendingCharges
  <1>7. CountsWhatWasPaid(t)
    BY <1>1, <1>5, <1>6 DEF CountsWhatWasPaid, PaidAccessUntil
  <1>8. WhollyPaidOrUnpaid(t)
    BY <1>5, <1>6 DEF WhollyPaidOrUnpaid
  <1>9. DocInv(t)
    BY <1>3, <1>5, <1>7, <1>8 DEF DocInv
  <1>10. KeepsPayments(s, t)
    BY <1>2 DEF KeepsPayments
  <1>11. t.accessUntil >= s.accessUntil /\ t.paid = s.paid + n
    BY <1>1, <1>2, <1>5
  <1>12. Pays(s, t, i)
    BY <1>5, <1>6 DEF Pays, NoneLinked
  <1> QED
    BY <1>2, <1>5, <1>9, <1>10, <1>11, <1>12 DEF Continues, Paying, t

\* Either way a charge that may be confirmed is the next one, or the plan is
\* paid whole.
LEMMA ConfirmStep ==
    ASSUME NEW s, DocInv(s), NEW i \in PendingCharges(s.charges),
           IsRecurring(s.plan) => IsNextPending(s.charges, i),
           WithinBound(Confirm(s, i))
    PROVE  /\ Continues(s, Confirm(s, i)) /\ Confirm(s, i).status = "ACTIVE"
           /\ Pays(s, Confirm(s, i), i)
  BY ConfirmRecurring, ConfirmClosed

\* Cancelling drops the open renewals and keeps what was paid.
LEMMA CancelStep ==
    ASSUME NEW s, DocInv(s), IsRecurring(s.plan), s.status # "CANCELLED",
           NEW until, until = s.accessUntil,
           NEW t, t = [s EXCEPT !.status = "CANCELLED", !.preId = NoId, !.accessUntil = until,
                                !.charges = KeepPaid(@)]
    PROVE  Continues(s, t)
PROOF
  <1> DEFINE kept == KeepPaid(s.charges)
  <1>1. s \in Documents(s.charges) /\ IsSchedule(s.charges)
    BY DEF DocInv, DocumentOK
  <1>2. /\ DOMAIN kept = PaidCharges(s.charges)
        /\ \A i \in PaidCharges(s.charges) : kept[i] = s.charges[i]
    BY DEF KeepPaid
  <1>3. IsSchedule(kept) /\ PaidCharges(kept) = PaidCharges(s.charges)
    BY <1>1, <1>2 DEF IsSchedule, PaidCharges, KeepPaid
  <1>4. PendingCharges(kept) = {}
    BY <1>2, <1>3 DEF PendingCharges
  <1> HIDE DEF kept
  <1>5. t = [s EXCEPT !.status = "CANCELLED", !.preId = NoId, !.accessUntil = s.accessUntil,
                      !.charges = kept]
    BY <1>1 DEF kept, Documents
  <1>6. /\ t.status = "CANCELLED" /\ t.preId = NoId /\ t.accessUntil = s.accessUntil
        /\ t.charges = kept /\ t.plan = s.plan /\ t.start = s.start /\ t.paid = s.paid
        /\ t.coupon = s.coupon /\ t.total = s.total
    BY <1>1, <1>5 DEF Documents
  <1>7. DocumentOK(t)
    BY <1>1, <1>3, <1>5, <1>6 DEF DocumentOK, Documents
  <1>8. CountsWhatWasPaid(t) /\ HasFullWindow(t)
    BY <1>3, <1>4, <1>6 DEF DocInv, CountsWhatWasPaid, PaidAccessUntil, HasFullWindow
  <1>9. DocInv(t)
    <2>1. Priced(kept, s.plan, s.coupon)
      BY <1>2 DEF DocInv, Priced, PaidCharges, kept
    <2> QED
      BY <1>4, <1>6, <1>7, <1>8, <2>1 DEF DocInv, OnlyNextIsLinked
  <1>10. KeepsPayments(s, t)
    BY <1>2, <1>3, <1>6 DEF KeepsPayments, kept
  <1> QED
    BY <1>6, <1>9, <1>10, DocTypes DEF Continues, Ending

\* A renewal that was not credited suspends a plan that renews.
LEMMA PastDueStep ==
    ASSUME NEW s, DocInv(s), IsRecurring(s.plan), s.status \notin {"CANCELLED", "PAST_DUE"},
           NEW t, t = [s EXCEPT !.status = "PAST_DUE"]
    PROVE  Continues(s, t)
PROOF
  <1>1. s \in Documents(s.charges) /\ IsSchedule(s.charges)
    BY DEF DocInv, DocumentOK
  <1>2. /\ DocumentOK(t) /\ t.status = "PAST_DUE" /\ t.accessUntil = s.accessUntil
        /\ t.charges = s.charges /\ t.plan = s.plan /\ t.start = s.start /\ t.paid = s.paid
        /\ t.preId = s.preId /\ t.coupon = s.coupon /\ t.total = s.total
    BY <1>1 DEF DocumentOK, Documents
  <1>3. CountsWhatWasPaid(t) /\ HasFullWindow(t)
    BY <1>2 DEF DocInv, CountsWhatWasPaid, PaidAccessUntil, HasFullWindow
  <1>4. DocInv(t)
    BY <1>2, <1>3 DEF DocInv
  <1> QED
    BY <1>2, <1>4, DocTypes DEF Continues, Suspending, KeepsPayments

\* A handler writes a gateway id on a charge, or sets one aside.
Relinked(s, i, charge, method, pre) ==
    [s EXCEPT !.method = method, !.preId = pre, !.charges = [@ EXCEPT ![i] = charge]]

LEMMA LinkStep ==
    ASSUME NEW s, DocInv(s), NEW i, IsNextPending(s.charges, i),
           NEW charge \in Charge,
           charge.status = s.charges[i].status, charge.amount = s.charges[i].amount,
           NEW method \in Methods, NEW pre \in PreapprovalIds \cup {NoId},
           pre # NoId => IsRecurring(s.plan)
    PROVE  /\ Rewritten(s, Relinked(s, i, charge, method, pre))
           /\ IsNextPending(Relinked(s, i, charge, method, pre).charges, i)
           /\ Relinked(s, i, charge, method, pre).method = method
PROOF
  <1> DEFINE charges == [s.charges EXCEPT ![i] = charge]
             t == Relinked(s, i, charge, method, pre)
  <1>1. s \in Documents(s.charges) /\ IsSchedule(s.charges)
    BY DEF DocInv, DocumentOK
  <1>2. i \in PendingCharges(s.charges) /\ i \in DOMAIN s.charges
    BY DEF IsNextPending, PendingCharges
  <1>3. /\ IsSchedule(charges) /\ DOMAIN charges = DOMAIN s.charges /\ charges[i] = charge
        /\ \A j \in DOMAIN s.charges \ {i} : charges[j] = s.charges[j]
    BY <1>1, <1>2 DEF IsSchedule
  <1>4. t = [s EXCEPT !.method = method, !.preId = pre, !.charges = charges]
    BY DEF Relinked
  <1> HIDE DEF charges, t
  <1>5. /\ t.charges = charges /\ t.preId = pre /\ t.method = method
        /\ t.plan = s.plan /\ t.status = s.status /\ t.start = s.start
        /\ t.paid = s.paid /\ t.accessUntil = s.accessUntil
        /\ t.coupon = s.coupon /\ t.total = s.total
    BY <1>1, <1>4 DEF Documents
  <1>6. DocumentOK(t)
    BY <1>1, <1>3, <1>4, <1>5 DEF DocumentOK, Documents
  <1>7. ASSUME NEW j \in DOMAIN s.charges
        PROVE  /\ t.charges[j].status = s.charges[j].status
               /\ t.charges[j].amount = s.charges[j].amount
               /\ t.charges[j].link \in {s.charges[j].link, NoId} \/ IsNextPending(s.charges, j)
               /\ j \in PaidCharges(s.charges) => t.charges[j].link = s.charges[j].link
    <2>1. CASE j = i
      BY <1>2, <1>3, <1>5, <2>1 DEF PendingCharges
    <2>2. CASE j # i
      BY <1>3, <1>5, <2>2
    <2> QED
      BY <2>1, <2>2
  <1>8. t.preId # NoId => IsRecurring(s.plan) /\ s.status # "CANCELLED"
    <2>1. IsRecurring(s.plan) => s.status # "CANCELLED"
      BY <1>2 DEF DocInv, HasFullWindow
    <2> QED
      BY <1>5, <2>1
  <1>9. Rewritten(s, t)
    BY <1>3, <1>5, <1>6, <1>7, <1>8, RewriteStep
  <1>10. IsNextPending(t.charges, i)
    BY <1>9 DEF Rewritten, IsNextPending
  <1> QED
    BY <1>5, <1>9, <1>10 DEF t

\* The ways a handler writes on the next open charge.
LEMMA LinkForms ==
    ASSUME NEW s, DocInv(s), NEW i, IsNextPending(s.charges, i)
    PROVE  /\ \A id \in GatewayIds :
                 /\ Rewritten(s, [s EXCEPT !.charges[i].link = id])
                 /\ IsNextPending([s EXCEPT !.charges[i].link = id].charges, i)
           /\ \A p \in PreapprovalIds : IsRecurring(s.plan) =>
                 Rewritten(s, [s EXCEPT !.charges[i].link = p, !.preId = p])
           /\ \A id \in GatewayIds :
                 Rewritten(s, [s EXCEPT !.charges[i].abandoned = @ \cup {id},
                                        !.charges[i].link = NoId])
           /\ \A method \in Methods :
                 LET t == [s EXCEPT !.method = method, !.preId = NoId, !.charges[i].link = NoId]
                 IN  Rewritten(s, t) /\ IsNextPending(t.charges, i) /\ t.method = method
PROOF
  <1>1. /\ s \in Documents(s.charges) /\ i \in DOMAIN s.charges
        /\ s.method \in Methods /\ s.preId \in PreapprovalIds \cup {NoId}
        /\ s.charges[i] \in Charge /\ s.charges[i].abandoned \in SUBSET GatewayIds
    BY DEF DocInv, DocumentOK, Documents, IsSchedule, Charge, IsNextPending, PendingCharges
  <1>2. s.preId # NoId => IsRecurring(s.plan)
    BY DEF DocInv
  <1>3. ASSUME NEW id \in GatewayIds
        PROVE  /\ Rewritten(s, [s EXCEPT !.charges[i].link = id])
               /\ IsNextPending([s EXCEPT !.charges[i].link = id].charges, i)
    <2> DEFINE charge == [s.charges[i] EXCEPT !.link = id]
               t == [s EXCEPT !.charges[i].link = id]
    <2>1. /\ charge \in Charge /\ charge.status = s.charges[i].status
          /\ charge.amount = s.charges[i].amount
      BY <1>1 DEF Charge
    <2>2. t = Relinked(s, i, charge, s.method, s.preId)
      BY <1>1 DEF Documents, Relinked
    <2> HIDE DEF charge, t
    <2>3. Rewritten(s, t) /\ IsNextPending(t.charges, i)
      BY <1>1, <1>2, <2>1, <2>2, LinkStep
    <2> QED
      BY <2>3 DEF t
  <1>4. ASSUME NEW p \in PreapprovalIds, IsRecurring(s.plan)
        PROVE  Rewritten(s, [s EXCEPT !.charges[i].link = p, !.preId = p])
    <2> DEFINE charge == [s.charges[i] EXCEPT !.link = p]
    <2>1. /\ charge \in Charge /\ charge.status = s.charges[i].status
          /\ charge.amount = s.charges[i].amount
      BY <1>1 DEF Charge, GatewayIds
    <2>2. [s EXCEPT !.charges[i].link = p, !.preId = p] = Relinked(s, i, charge, s.method, p)
      BY <1>1 DEF Documents, Relinked
    <2>3. p \in PreapprovalIds \cup {NoId}
      OBVIOUS
    <2> HIDE DEF charge
    <2> QED
      BY <1>1, <1>4, <2>1, <2>2, <2>3, LinkStep
  <1>5. ASSUME NEW id \in GatewayIds
        PROVE  Rewritten(s, [s EXCEPT !.charges[i].abandoned = @ \cup {id},
                                      !.charges[i].link = NoId])
    <2> DEFINE charge == [s.charges[i] EXCEPT !.abandoned = @ \cup {id}, !.link = NoId]
    <2>1. /\ charge \in Charge /\ charge.status = s.charges[i].status
          /\ charge.amount = s.charges[i].amount
      BY <1>1 DEF Charge
    <2>2. [s EXCEPT !.charges[i].abandoned = @ \cup {id}, !.charges[i].link = NoId]
             = Relinked(s, i, charge, s.method, s.preId)
      BY <1>1 DEF Documents, Relinked
    <2> HIDE DEF charge
    <2> QED
      BY <1>1, <1>2, <2>1, <2>2, LinkStep
  <1>6. ASSUME NEW method \in Methods
        PROVE  LET t == [s EXCEPT !.method = method, !.preId = NoId, !.charges[i].link = NoId]
               IN  Rewritten(s, t) /\ IsNextPending(t.charges, i) /\ t.method = method
    <2> DEFINE charge == [s.charges[i] EXCEPT !.link = NoId]
               t == [s EXCEPT !.method = method, !.preId = NoId, !.charges[i].link = NoId]
    <2>1. /\ charge \in Charge /\ charge.status = s.charges[i].status
          /\ charge.amount = s.charges[i].amount
      BY <1>1 DEF Charge
    <2>2. t = Relinked(s, i, charge, method, NoId)
      BY <1>1 DEF Documents, Relinked
    <2>3. NoId \in PreapprovalIds \cup {NoId}
      OBVIOUS
    <2> HIDE DEF charge, t
    <2>4. Rewritten(s, t) /\ IsNextPending(t.charges, i) /\ t.method = method
      BY <1>1, <2>1, <2>2, <2>3, LinkStep
    <2> QED
      BY <2>4 DEF t
  <1> QED
    BY <1>3, <1>4, <1>5, <1>6

-----------------------------------------------------------------------------
(* What the student agrees to pay *)

\* The price of the catalogue is never zero: the interest has a base.
LEMMA CataloguePositive ==
    ASSUME NEW plan \in Plans
    PROVE  TotalAmount(plan, NoCoupon) \in Nat \ {0}
PROOF
  <1>1. Price[plan] \in Nat \ {0} /\ Installments[plan] \in Nat \ {0}
    BY CatalogueAssumption
  <1>2. NoCoupon.discount = 0 /\ NoCoupon.months = Lifetime
    BY DEF NoCoupon
  <1>3. ApplyDiscount(Price[plan], NoCoupon.discount) = Price[plan]
    BY <1>1, <1>2 DEF ApplyDiscount
  <1>4. CoveredCharges(plan, NoCoupon) = Installments[plan]
    BY <1>2 DEF CoveredCharges
  <1>5. TotalAmount(plan, NoCoupon) =
           IF IsRecurring(plan)
           THEN Price[plan]
           ELSE Installments[plan] * Price[plan] + (Installments[plan] - Installments[plan]) * Price[plan]
    BY <1>3, <1>4 DEF TotalAmount
  <1>6. \A a, b \in Nat \ {0} : a * b + (a - a) * b \in Nat \ {0}
    <2>1. \A a, b \in Nat \ {0} : a * b \in Nat \ {0} /\ a - a = 0
      OBVIOUS
    <2>2. \A b \in Nat \ {0} : 0 * b = 0
      OBVIOUS
    <2> QED
      BY <2>1, <2>2
  <1> QED
    BY <1>1, <1>5, <1>6

\* What is accepted is an amount.
LEMMA PayerAmountType ==
    ASSUME NEW plan \in Plans, NEW base \in Nat
    PROVE  PayerAmount(plan, base) \in Nat
PROOF
  <1> DEFINE catalogue == TotalAmount(plan, NoCoupon)
             owed == 2 * base * PayerTotal[plan] + catalogue
  <1>1. catalogue \in Nat \ {0} /\ PayerTotal[plan] \in Nat
    BY CataloguePositive, CatalogueAssumption
  <1>2. owed \in Nat /\ 2 * catalogue \in Nat \ {0}
    BY <1>1
  <1>3. \A n \in Nat, d \in Nat \ {0} : n \div d \in Nat
    OBVIOUS
  <1> HIDE DEF catalogue, owed
  <1>4. owed \div (2 * catalogue) \in Nat
    BY <1>2, <1>3
  <1> QED
    BY <1>4 DEF PayerAmount, owed, catalogue
=============================================================================
