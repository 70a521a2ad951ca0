------------------------ MODULE Subscription_proofs ------------------------
(***************************************************************************)
(* Theorems about module Subscription, for every catalogue of plans, every *)
(* set of coupons and ids, every set of faults and every bound.            *)
(***************************************************************************)
EXTENDS SubscriptionProperties, SubscriptionDomain_proofs

\* What TypeOK says of everything but the document.
WorldOK ==
    /\ user \in [isPaying : BOOLEAN, accessUntil : Nat]
    /\ acceptances \in Seq([plan : Plans, total : Nat])
    /\ orders \in [OrderIds -> Orders]
    /\ preapprovals \in [PreapprovalIds -> Preapprovals]
    /\ now \in Nat
    /\ restarted \subseteq OrderIds

\* The inductive invariant.
IInv == WorldOK /\ (sub = NoSubscription \/ DocInv(sub))

-----------------------------------------------------------------------------
(* What the helpers of the handlers leave behind *)

UserOK(u) == u \in [isPaying : BOOLEAN, accessUntil : Nat]

LEMMA SyncStep ==
    ASSUME NEW s, DocInv(s), UserOK(user), SyncUser(s)
    PROVE  UserOK(user')
PROOF
  <1>1. s.accessUntil \in Nat
    BY DocTypes
  <1>2. GrantsAccess(s.status) \in BOOLEAN
    BY DEF GrantsAccess
  <1>3. Mirror(s) \in [isPaying : BOOLEAN, accessUntil : Nat]
    BY <1>1, <1>2 DEF Mirror
  <1> QED
    BY <1>3 DEF UserOK, SyncUser

LEMMA SaveAndSyncStep ==
    ASSUME NEW s, DocInv(s), NEW t, Continues(s, t), UserOK(user), SaveAndSync(t)
    PROVE  Continues(s, sub') /\ UserOK(user')
PROOF
  <1>1. sub' = ToPlain(t) /\ SyncUser(t)
    BY DEF SaveAndSync, Save
  <1>2. DocInv(t)
    BY DEF Continues
  <1> QED
    BY <1>1, <1>2, SavedContinues, SyncStep

LEMMA ConfirmChargeStep ==
    ASSUME NEW s, DocInv(s), NEW i \in PendingCharges(s.charges),
           IsRecurring(s.plan) => IsNextPending(s.charges, i),
           UserOK(user), ConfirmCharge(s, i)
    PROVE  Continues(s, sub') /\ UserOK(user') /\ sub'.status = "ACTIVE"
PROOF
  <1>1. WithinBound(Confirm(s, i)) /\ SaveAndSync(Confirm(s, i))
    BY DEF ConfirmCharge
  <1>2. Continues(s, Confirm(s, i)) /\ Confirm(s, i).status = "ACTIVE"
    BY <1>1, ConfirmStep
  <1>3. Rewritten(Confirm(s, i), sub')
    BY <1>1, <1>2, SaveStep DEF SaveAndSync, Save, Continues
  <1> QED
    BY <1>1, <1>2, <1>3, SaveAndSyncStep DEF Rewritten

OrdersOK(os) == os \in [OrderIds -> Orders]

LEMMA CreateOrderStep ==
    ASSUME NEW o \in OrderIds, NEW kind \in {"PIX", "CARD"},
           NEW status \in {"PENDING", "CHALLENGE", "PAID", "REJECTED"},
           NEW index \in Nat, NEW amount \in Nat, NEW contract \in Nat,
           OrdersOK(orders), CreateOrder(o, kind, status, index, amount, contract)
    PROVE  OrdersOK(orders')
  BY DEF OrdersOK, CreateOrder, Orders

LEMMA IssueChargeStep ==
    ASSUME NEW s, DocInv(s), NEW i, IsNextPending(s.charges, i), NEW contract \in Nat,
           OrdersOK(orders), IssueCharge(s, i, contract)
    PROVE  Rewritten(s, sub') /\ OrdersOK(orders')
PROOF
  <1>1. i \in Nat /\ s.charges[i].amount \in Nat
    BY DocTypes DEF IsNextPending, PendingCharges, Charge
  <1>2. CASE Save(s) /\ UNCHANGED orders
    BY <1>2, SaveStep DEF Save
  <1>3. CASE \E o \in OrderIds :
                /\ CreatePixOrder(o, i, s.charges[i].amount, contract)
                /\ \/ Save([s EXCEPT !.charges[i].link = o])
                   \/ "lost" \in Faults /\ Save(s)
    <2>1. PICK o \in OrderIds :
             /\ CreatePixOrder(o, i, s.charges[i].amount, contract)
             /\ \/ Save([s EXCEPT !.charges[i].link = o])
                \/ "lost" \in Faults /\ Save(s)
      BY <1>3
    <2>2. OrdersOK(orders')
      BY <1>1, <2>1, CreateOrderStep DEF CreatePixOrder
    <2>3. Rewritten(s, [s EXCEPT !.charges[i].link = o])
      BY LinkForms DEF GatewayIds
    <2>4. CASE Save(s)
      BY <2>2, <2>4, SaveStep DEF Save
    <2>5. CASE Save([s EXCEPT !.charges[i].link = o])
      <3> DEFINE t == [s EXCEPT !.charges[i].link = o]
      <3>1. DocInv(t) /\ Rewritten(t, sub')
        BY <2>3, <2>5, SaveStep DEF Save, Rewritten
      <3> QED
        BY <2>2, <2>3, <3>1 DEF Rewritten, KeepsPayments
    <2> QED
      BY <2>1, <2>4, <2>5
  <1> QED
    BY <1>2, <1>3 DEF IssueCharge

-----------------------------------------------------------------------------
(* What every step leaves behind *)

\* The contract in force goes on, or a new one starts.
Ongoing ==
    /\ acceptances' = acceptances
    /\ sub' = sub \/ (DocInv(sub) /\ Continues(sub, sub'))

Contracting ==
    /\ sub.status # "ACTIVE"
    /\ \E plan \in Plans, total \in Nat :
          /\ acceptances' = Append(acceptances, [plan |-> plan, total |-> PayerAmount(plan, total)])
          /\ DocInv(sub') /\ sub'.plan = plan /\ sub'.total = total
          /\ \/ sub'.status = "PENDING" /\ sub'.paid = 0
             \/ /\ sub'.status = "ACTIVE"
                /\ sub'.paid = IF IsRecurring(plan) THEN 1 ELSE Installments[plan]

StepOK == WorldOK' /\ (Ongoing \/ Contracting)

PreapprovalsOK(ps) == ps \in [PreapprovalIds -> Preapprovals]

\* WorldOK, one variable at a time.
LEMMA WorldParts ==
    ASSUME WorldOK
    PROVE  /\ UserOK(user) /\ OrdersOK(orders) /\ PreapprovalsOK(preapprovals)
           /\ acceptances \in Seq([plan : Plans, total : Nat])
           /\ Contract \in Nat /\ now \in Nat /\ restarted \subseteq OrderIds
  BY DEF WorldOK, UserOK, OrdersOK, PreapprovalsOK, Contract

LEMMA WorldWhole ==
    ASSUME UserOK(user'), OrdersOK(orders'), PreapprovalsOK(preapprovals'),
           acceptances' \in Seq([plan : Plans, total : Nat]),
           now' \in Nat, restarted' \subseteq OrderIds
    PROVE  WorldOK'
  BY DEF WorldOK, UserOK, OrdersOK, PreapprovalsOK

\* A step that touches neither the catalogue of acceptances nor the calendar.
LEMMA OngoingStep ==
    ASSUME WorldOK, Ongoing, UserOK(user'), OrdersOK(orders'), PreapprovalsOK(preapprovals'),
           now' \in Nat, restarted' \subseteq OrderIds
    PROVE  StepOK
PROOF
  <1>1. acceptances' \in Seq([plan : Plans, total : Nat])
    BY WorldParts DEF Ongoing
  <1> QED
    BY <1>1, WorldWhole DEF StepOK

\* Only a student with a document has charges, a status or a preapproval.
LEMMA HasDocument ==
    ASSUME IInv, sub.status # "NONE" \/ sub.preId # NoId \/ DOMAIN sub.charges # {}
    PROVE  DocInv(sub)
PROOF
  <1>1. /\ NoSubscription.status = "NONE" /\ NoSubscription.preId = NoId
        /\ DOMAIN NoSubscription.charges = {}
    BY DEF NoSubscription
  <1> QED
    BY <1>1 DEF IInv

LEMMA NextPendingHas ==
    ASSUME IInv, NEW i, IsNextPending(sub.charges, i)
    PROVE  DocInv(sub) /\ i \in PendingCharges(sub.charges) /\ i \in DOMAIN sub.charges
  BY HasDocument DEF IsNextPending, PendingCharges

\* The changes a step makes to a preapproval keep it one.
LEMMA PreapprovalForms ==
    ASSUME PreapprovalsOK(preapprovals), NEW p \in PreapprovalIds
    PROVE  /\ PreapprovalsOK([preapprovals EXCEPT ![p].state = "CANCELLED"])
           /\ \A n \in Nat : PreapprovalsOK([preapprovals EXCEPT ![p].amount = n])
           /\ PreapprovalsOK([preapprovals EXCEPT ![p].cycles =
                 Append(@, [status |-> "SCHEDULED", delivered |-> FALSE])])
           /\ \A c \in DOMAIN preapprovals[p].cycles :
                 PreapprovalsOK([preapprovals EXCEPT ![p].cycles[c].delivered = TRUE])
           /\ \A c \in DOMAIN preapprovals[p].cycles, outcome \in {"RECYCLING", "PAID", "REFUSED"} :
                 PreapprovalsOK([preapprovals EXCEPT ![p].cycles[c].status = outcome])
PROOF
  <1> DEFINE pre == preapprovals[p]
  <1>1. pre \in Preapprovals
    BY DEF PreapprovalsOK
  <1>2. \A new \in Preapprovals : PreapprovalsOK([preapprovals EXCEPT ![p] = new])
    BY DEF PreapprovalsOK
  <1> HIDE DEF pre
  <1>3. [pre EXCEPT !.state = "CANCELLED"] \in Preapprovals
    BY <1>1 DEF Preapprovals
  <1>4. \A n \in Nat : [pre EXCEPT !.amount = n] \in Preapprovals
    BY <1>1 DEF Preapprovals
  <1>5. \A s \in Seq(Cycles) : [pre EXCEPT !.cycles = s] \in Preapprovals
    BY <1>1 DEF Preapprovals
  <1>6. pre.cycles \in Seq(Cycles)
    BY <1>1 DEF Preapprovals
  <1>7. Append(pre.cycles, [status |-> "SCHEDULED", delivered |-> FALSE]) \in Seq(Cycles)
    <2>1. [status |-> "SCHEDULED", delivered |-> FALSE] \in Cycles
      BY DEF Cycles
    <2> QED
      BY <1>6, <2>1
  <1>8. \A c \in DOMAIN pre.cycles, cycle \in Cycles : [pre.cycles EXCEPT ![c] = cycle] \in Seq(Cycles)
    BY <1>6
  <1>9. \A c \in DOMAIN pre.cycles : pre.cycles[c] \in Cycles
    BY <1>6
  <1>10. ASSUME NEW c \in DOMAIN pre.cycles
         PROVE  /\ [pre EXCEPT !.cycles[c].delivered = TRUE] \in Preapprovals
                /\ \A outcome \in {"RECYCLING", "PAID", "REFUSED"} :
                      [pre EXCEPT !.cycles[c].status = outcome] \in Preapprovals
    <2>1. /\ [pre.cycles[c] EXCEPT !.delivered = TRUE] \in Cycles
          /\ \A outcome \in {"RECYCLING", "PAID", "REFUSED"} :
                [pre.cycles[c] EXCEPT !.status = outcome] \in Cycles
      BY <1>9 DEF Cycles
    <2>2. /\ [pre.cycles EXCEPT ![c].delivered = TRUE] \in Seq(Cycles)
          /\ \A outcome \in {"RECYCLING", "PAID", "REFUSED"} :
                [pre.cycles EXCEPT ![c].status = outcome] \in Seq(Cycles)
      BY <1>8, <2>1
    <2> QED
      BY <1>5, <2>2
  <1> QED
    BY <1>2, <1>3, <1>4, <1>5, <1>7, <1>10 DEF pre

LEMMA ReleaseStep ==
    ASSUME PreapprovalsOK(preapprovals), NEW s, DocInv(s), ReleasePreapproval(s)
    PROVE  PreapprovalsOK(preapprovals')
PROOF
  <1>1. s.preId \in PreapprovalIds \cup {NoId}
    BY DocTypes
  <1> QED
    BY <1>1, PreapprovalForms DEF ReleasePreapproval, EndPreapproval

\* Saving a document a handler rewrote, or confirmed after rewriting it.
LEMMA SaveRewritten ==
    ASSUME NEW s, DocInv(s), NEW t, Rewritten(s, t), Save(t)
    PROVE  Continues(s, sub')
  BY SavedContinues, RewritingContinues DEF Save

LEMMA ConfirmRewritten ==
    ASSUME NEW s, DocInv(s), NEW t, Rewritten(s, t), NEW i, IsNextPending(s.charges, i),
           UserOK(user), ConfirmCharge(t, i)
    PROVE  Continues(s, sub') /\ UserOK(user')
PROOF
  <1>1. DocInv(t) /\ IsNextPending(t.charges, i) /\ i \in PendingCharges(t.charges)
    BY DEF Rewritten, IsNextPending
  <1>2. Continues(t, sub') /\ UserOK(user')
    BY <1>1, ConfirmChargeStep
  <1> QED
    BY <1>2, RewrittenContinues

\* A rewriting of the document itself.
LEMMA RewrittenSelf ==
    ASSUME NEW s, DocInv(s)
    PROVE  Rewritten(s, s)
  BY DocTypes DEF Rewritten, KeepsPayments

-----------------------------------------------------------------------------
(* Requests of the student *)

LEMMA ChoosePlanStep ==
    ASSUME IInv, NEW plan \in Plans, NEW method \in Methods, NEW coupon \in Coupons,
           ChoosePlan(plan, method, coupon)
    PROVE  StepOK
PROOF
  <1> DEFINE s == BuildSubscription(plan, method, coupon, now)
  <1>1. WorldOK /\ Contract \in Nat /\ now \in Nat /\ UserOK(user) /\ OrdersOK(orders)
    BY WorldParts DEF IInv
  <1>2. DocInv(s) /\ s.plan = plan /\ s.status = "PENDING" /\ s.paid = 0 /\ IsNextPending(s.charges, 1)
    BY <1>1, BuildInv
  <1>3. s.total \in Nat
    BY <1>2, DocTypes
  <1>4. /\ MayContract(sub, now)
        /\ acceptances' = Append(acceptances, [plan |-> plan, total |-> PayerAmount(plan, s.total)])
        /\ \/ IssueCharge(s, 1, Contract + 1) /\ SyncUser(s)
           \/ ConfirmZeroCharge(s, 1)
        /\ UNCHANGED <<preapprovals, now, restarted>>
    BY <1>2 DEF ChoosePlan, Acceptance
  <1> HIDE DEF s
  <1>5. /\ DocInv(sub') /\ sub'.plan = plan /\ sub'.total = s.total /\ UserOK(user') /\ OrdersOK(orders')
        /\ \/ sub'.status = "PENDING" /\ sub'.paid = 0
           \/ /\ sub'.status = "ACTIVE"
              /\ sub'.paid = IF IsRecurring(plan) THEN 1 ELSE Installments[plan]
    <2>1. CASE IssueCharge(s, 1, Contract + 1) /\ SyncUser(s)
      <3>1. Rewritten(s, sub') /\ OrdersOK(orders')
        BY <1>1, <1>2, <2>1, IssueChargeStep
      <3>2. UserOK(user')
        BY <1>1, <1>2, <2>1, SyncStep
      <3> QED
        BY <1>2, <3>1, <3>2 DEF Rewritten
    <2>2. CASE ConfirmZeroCharge(s, 1)
      <3>1. ConfirmCharge(s, 1) /\ UNCHANGED orders
        BY <2>2 DEF ConfirmZeroCharge
      <3>2. 1 \in PendingCharges(s.charges)
        BY <1>2 DEF IsNextPending
      <3>3. Continues(s, sub') /\ UserOK(user') /\ sub'.status = "ACTIVE"
        BY <1>1, <1>2, <3>1, <3>2, ConfirmChargeStep
      <3>4. Paying(s, sub')
        BY <1>2, <3>3 DEF Continues, Suspending, Ending
      <3>5. Installments[plan] \in Nat
        BY CatalogueAssumption
      <3> QED
        BY <1>1, <1>2, <3>1, <3>3, <3>4, <3>5 DEF Continues, Paying
    <2> QED
      BY <1>4, <2>1, <2>2
  <1>6. Contracting
    BY <1>3, <1>4, <1>5 DEF Contracting, MayContract
  <1>7. acceptances' \in Seq([plan : Plans, total : Nat])
    BY <1>1, <1>3, <1>4, WorldParts, PayerAmountType
  <1>8. /\ PreapprovalsOK(preapprovals') /\ now' \in Nat /\ restarted' \subseteq OrderIds
    BY <1>1, <1>4, WorldParts
  <1> QED
    BY <1>5, <1>6, <1>7, <1>8, WorldWhole DEF StepOK

\* A student stopped before the plan was saved leaves an acceptance only.
LEMMA StopKeepsAll ==
    ASSUME NEW plan, NEW method, NEW coupon, AcceptanceWithoutPlan(plan, method)
    PROVE  UNCHANGED <<sub, user, acceptances, orders, preapprovals, now, restarted>>
  BY DEF AcceptanceWithoutPlan, gateway

LEMMA SameStep ==
    ASSUME IInv, UNCHANGED <<sub, user, acceptances, orders, preapprovals, now, restarted>>
    PROVE  StepOK
  BY WorldParts, OngoingStep DEF IInv, Ongoing

LEMMA PayRecurringStep ==
    ASSUME IInv, NEW i, NEW p \in PreapprovalIds, PayRecurring(i, p)
    PROVE  StepOK
PROOF
  <1> DEFINE new == [state |-> "AUTHORIZED", amount |-> sub.charges[i].amount,
                     contract |-> Contract, born |-> now, cycles |-> <<>>]
  <1>1. /\ IsNextPending(sub.charges, i) /\ IsRecurring(sub.plan)
        /\ preapprovals' = [preapprovals EXCEPT ![p] = new]
        /\ \/ Save([sub EXCEPT !.charges[i].link = p, !.preId = p])
           \/ UNCHANGED sub
        /\ UNCHANGED <<user, acceptances, orders, now, restarted>>
    BY DEF PayRecurring, CardContract, Authorized
  <1>2. DocInv(sub) /\ i \in DOMAIN sub.charges
    BY <1>1, NextPendingHas
  <1>3. /\ WorldOK /\ Contract \in Nat /\ now \in Nat /\ UserOK(user) /\ OrdersOK(orders)
        /\ PreapprovalsOK(preapprovals) /\ restarted \subseteq OrderIds
    BY WorldParts DEF IInv
  <1>4. new \in Preapprovals
    <2>1. sub.charges[i].amount \in Nat
      BY <1>2, DocTypes DEF Charge
    <2> QED
      BY <1>3, <2>1 DEF Preapprovals
  <1> HIDE DEF new
  <1>5. PreapprovalsOK(preapprovals')
    BY <1>1, <1>3, <1>4 DEF PreapprovalsOK
  <1>6. Ongoing
    <2>1. Rewritten(sub, [sub EXCEPT !.charges[i].link = p, !.preId = p])
      BY <1>1, <1>2, LinkForms
    <2> QED
      BY <1>1, <1>2, <2>1, SaveRewritten DEF Ongoing
  <1> QED
    BY <1>1, <1>3, <1>5, <1>6, OngoingStep

\* Confirming, whichever handler does it, with nothing else changing.
LEMMA OnlyConfirms ==
    ASSUME IInv, NEW i, IsNextPending(sub.charges, i), NEW t, Rewritten(sub, t),
           ConfirmCharge(t, i), UNCHANGED <<acceptances, orders, preapprovals, now, restarted>>
    PROVE  StepOK
PROOF
  <1>1. WorldOK /\ DocInv(sub)
    BY NextPendingHas DEF IInv
  <1>2. Continues(sub, sub') /\ UserOK(user')
    BY <1>1, WorldParts, ConfirmRewritten
  <1>3. Ongoing
    BY <1>1, <1>2 DEF Ongoing
  <1> QED
    BY <1>1, <1>2, <1>3, WorldParts, OngoingStep

LEMMA ConfirmPaidCardStep ==
    ASSUME IInv, NEW i, ConfirmPaidCard(i)
    PROVE  StepOK
PROOF
  <1>1. PICK o : /\ OrderPaid(o)
                 /\ ConfirmCharge([sub EXCEPT !.charges[i].link = o], i)
    BY DEF ConfirmPaidCard
  <1>2. IsNextPending(sub.charges, i) /\ UNCHANGED <<acceptances, orders, preapprovals, now, restarted>>
    BY DEF ConfirmPaidCard, CardContract, gateway
  <1>3. Rewritten(sub, [sub EXCEPT !.charges[i].link = o])
    BY <1>1, <1>2, NextPendingHas, LinkForms DEF OrderPaid, GatewayIds
  <1> QED
    BY <1>1, <1>2, <1>3, OnlyConfirms

LEMMA PayClosedStep ==
    ASSUME IInv, NEW i, NEW o \in OrderIds,
           NEW outcome \in {"PENDING", "CHALLENGE", "PAID", "REJECTED"}, PayClosed(i, o, outcome)
    PROVE  StepOK
PROOF
  <1> DEFINE linked == [sub EXCEPT !.charges[i].link = o]
  <1>1. /\ IsNextPending(sub.charges, i)
        /\ CreateOrder(o, "CARD", outcome, i, sub.total, Contract)
        /\ \/ outcome = "PAID" /\ ConfirmCharge(linked, i)
           \/ outcome # "PAID" /\ Save(linked) /\ UNCHANGED user
           \/ "lost" \in Faults /\ UNCHANGED <<sub, user>>
        /\ UNCHANGED <<acceptances, preapprovals, now, restarted>>
    BY DEF PayClosed, CardContract
  <1>2. DocInv(sub) /\ i \in DOMAIN sub.charges
    BY <1>1, NextPendingHas
  <1>3. Rewritten(sub, linked)
    BY <1>1, <1>2, LinkForms DEF GatewayIds
  <1> HIDE DEF linked
  <1>4. /\ WorldOK /\ Contract \in Nat /\ now \in Nat /\ UserOK(user) /\ OrdersOK(orders)
        /\ PreapprovalsOK(preapprovals) /\ restarted \subseteq OrderIds
    BY WorldParts DEF IInv
  <1>5. OrdersOK(orders')
    <2>1. i \in Nat /\ sub.total \in Nat
      BY <1>2, DocTypes
    <2> QED
      BY <1>1, <1>4, <2>1, CreateOrderStep
  <1>6. Ongoing /\ UserOK(user')
    <2>1. CASE outcome = "PAID" /\ ConfirmCharge(linked, i)
      BY <1>1, <1>2, <1>3, <1>4, <2>1, ConfirmRewritten DEF Ongoing
    <2>2. CASE outcome # "PAID" /\ Save(linked) /\ UNCHANGED user
      BY <1>1, <1>2, <1>3, <1>4, <2>2, SaveRewritten DEF Ongoing
    <2>3. CASE UNCHANGED <<sub, user>>
      BY <1>1, <1>4, <2>3 DEF Ongoing
    <2> QED
      BY <1>1, <2>1, <2>2, <2>3
  <1> QED
    BY <1>1, <1>4, <1>5, <1>6, OngoingStep

LEMMA RestartCardPaymentStep ==
    ASSUME IInv, NEW i, RestartCardPayment(i)
    PROVE  StepOK
PROOF
  <1> DEFINE id == sub.charges[i].link
             set == [sub EXCEPT !.charges[i].abandoned = @ \cup {id}, !.charges[i].link = NoId]
  <1>1. /\ IsNextPending(sub.charges, i) /\ id # NoId
        /\ UNCHANGED <<acceptances, orders, preapprovals, now>>
        /\ \/ ConfirmCharge(sub, i) /\ UNCHANGED restarted
           \/ /\ Save(set) /\ UNCHANGED user
              /\ restarted' = restarted \cup ({id} \cap OrderIds)
    BY DEF RestartCardPayment, gateway
  <1>2. DocInv(sub) /\ i \in DOMAIN sub.charges
    BY <1>1, NextPendingHas
  <1>3. id \in GatewayIds
    BY <1>1, <1>2, DocTypes DEF Charge
  <1>4. Rewritten(sub, set)
    BY <1>1, <1>2, <1>3, LinkForms
  <1> HIDE DEF set
  <1>5. CASE ConfirmCharge(sub, i) /\ UNCHANGED restarted
    BY <1>1, <1>2, <1>5, RewrittenSelf, OnlyConfirms
  <1>6. CASE /\ Save(set) /\ UNCHANGED user
             /\ restarted' = restarted \cup ({id} \cap OrderIds)
    <2>1. Ongoing
      BY <1>1, <1>2, <1>4, <1>6, SaveRewritten DEF Ongoing
    <2>2. WorldOK
      BY DEF IInv
    <2>3. restarted' \subseteq OrderIds
      BY <1>6, <2>2, WorldParts
    <2> QED
      BY <1>1, <1>6, <2>1, <2>2, <2>3, WorldParts, OngoingStep
  <1> QED
    BY <1>1, <1>5, <1>6

LEMMA RefreshCardPaymentStep ==
    ASSUME IInv, NEW i, RefreshCardPayment(i)
    PROVE  StepOK
  BY NextPendingHas, RewrittenSelf, OnlyConfirms DEF RefreshCardPayment, gateway

LEMMA MockPayStep ==
    ASSUME IInv, NEW i, MockPay(i)
    PROVE  StepOK
  BY NextPendingHas, RewrittenSelf, OnlyConfirms DEF MockPay, gateway

LEMMA ChangePaymentMethodStep ==
    ASSUME IInv, NEW method \in Methods, ChangePaymentMethod(method)
    PROVE  StepOK
PROOF
  <1>1. ReleasePreapproval(sub) /\ UNCHANGED <<acceptances, now, restarted>>
    BY DEF ChangePaymentMethod
  <1>2. PICK i \in DOMAIN sub.charges :
           /\ IsNextPending(sub.charges, i)
           /\ LET s == [sub EXCEPT !.method = method, !.preId = NoId, !.charges[i].link = NoId]
              IN  \/ IssueCharge(s, i, Contract) /\ UNCHANGED user
                  \/ ConfirmZeroCharge(s, i)
    BY DEF ChangePaymentMethod
  <1> DEFINE s == [sub EXCEPT !.method = method, !.preId = NoId, !.charges[i].link = NoId]
  <1>3. DocInv(sub)
    BY <1>2, NextPendingHas
  <1>4. Rewritten(sub, s) /\ IsNextPending(s.charges, i)
    BY <1>2, <1>3, LinkForms
  <1>5. \/ IssueCharge(s, i, Contract) /\ UNCHANGED user
        \/ ConfirmZeroCharge(s, i)
    BY <1>2
  <1> HIDE DEF s
  <1>6. /\ WorldOK /\ Contract \in Nat /\ UserOK(user) /\ OrdersOK(orders)
        /\ PreapprovalsOK(preapprovals)
    BY WorldParts DEF IInv
  <1>7. Continues(sub, sub') /\ UserOK(user') /\ OrdersOK(orders')
    <2>1. CASE IssueCharge(s, i, Contract) /\ UNCHANGED user
      <3>1. DocInv(s)
        BY <1>4 DEF Rewritten
      <3>2. Rewritten(s, sub') /\ OrdersOK(orders')
        BY <1>4, <1>6, <2>1, <3>1, IssueChargeStep
      <3>3. Continues(sub, sub')
        BY <1>3, <1>4, <3>1, <3>2, RewritingContinues, RewrittenContinues
      <3> QED
        BY <1>6, <2>1, <3>2, <3>3
    <2>2. CASE ConfirmZeroCharge(s, i)
      <3>1. ConfirmCharge(s, i) /\ UNCHANGED orders
        BY <2>2 DEF ConfirmZeroCharge
      <3> QED
        BY <1>2, <1>3, <1>4, <1>6, <3>1, ConfirmRewritten
    <2> QED
      BY <1>5, <2>1, <2>2
  <1>8. Ongoing
    BY <1>1, <1>3, <1>7 DEF Ongoing
  <1> QED
    BY <1>1, <1>3, <1>6, <1>7, <1>8, ReleaseStep, WorldParts, OngoingStep

LEMMA CancelSubscriptionStep ==
    ASSUME IInv, CancelSubscription
    PROVE  StepOK
PROOF
  <1> DEFINE t == [sub EXCEPT !.status = "CANCELLED", !.preId = NoId,
                              !.accessUntil = PaidAccessUntil(sub), !.charges = KeepPaid(@)]
  <1>1. /\ sub.status \notin {"NONE", "CANCELLED"} /\ IsRecurring(sub.plan)
        /\ ReleasePreapproval(sub)
        /\ SaveAndSync(t)
        /\ UNCHANGED <<acceptances, orders, now, restarted>>
    BY DEF CancelSubscription
  <1>2. DocInv(sub)
    BY <1>1, HasDocument
  <1>3. Continues(sub, t)
    <2>1. PaidAccessUntil(sub) = sub.accessUntil
      BY <1>2 DEF DocInv, CountsWhatWasPaid
    <2> QED
      BY <1>1, <1>2, <2>1, CancelStep
  <1> HIDE DEF t
  <1>4. WorldOK /\ UserOK(user) /\ PreapprovalsOK(preapprovals)
    BY WorldParts DEF IInv
  <1>5. Continues(sub, sub') /\ UserOK(user')
    BY <1>1, <1>2, <1>3, <1>4, SaveAndSyncStep
  <1>6. Ongoing
    BY <1>1, <1>2, <1>5 DEF Ongoing
  <1> QED
    BY <1>1, <1>2, <1>4, <1>5, <1>6, ReleaseStep, WorldParts, OngoingStep

-----------------------------------------------------------------------------
(* Notifications *)

LEMMA OrderUpdatedStep ==
    ASSUME IInv, NEW o \in OrderIds, NEW i \in DOMAIN sub.charges, OrderUpdated(o, i)
    PROVE  StepOK
PROOF
  <1>1. /\ IsLinked(sub.charges, i, o) /\ sub.charges[i].status = "PENDING"
        /\ ConfirmCharge(sub, i)
        /\ UNCHANGED <<acceptances, orders, preapprovals, now, restarted>>
    BY DEF OrderUpdated, gateway
  <1>2. DocInv(sub) /\ i \in PendingCharges(sub.charges)
    BY <1>1, HasDocument DEF PendingCharges, PaidCharges
  <1>3. sub.charges[i].link # NoId
    BY <1>1, GatewayIdAssumption DEF IsLinked
  <1>4. IsRecurring(sub.plan) => IsNextPending(sub.charges, i)
    BY <1>2, <1>3 DEF DocInv, OnlyNextIsLinked
  <1>5. WorldOK /\ UserOK(user)
    BY WorldParts DEF IInv
  <1>6. Continues(sub, sub') /\ UserOK(user')
    BY <1>1, <1>2, <1>4, <1>5, ConfirmChargeStep
  <1>7. Ongoing
    BY <1>1, <1>2, <1>6 DEF Ongoing
  <1> QED
    BY <1>1, <1>5, <1>6, <1>7, WorldParts, OngoingStep

\* Recording the amount the gateway charges next.
LEMMA InstallmentForm ==
    ASSUME NEW s, DocInv(s), NEW n \in Nat
    PROVE  Rewritten(s, [s EXCEPT !.installment = n])
PROOF
  <1> DEFINE t == [s EXCEPT !.installment = n]
  <1>1. s \in Documents(s.charges) /\ IsSchedule(s.charges)
    BY DEF DocInv, DocumentOK
  <1>2. /\ t.charges = s.charges /\ t.preId = s.preId /\ t.plan = s.plan
        /\ t.status = s.status /\ t.start = s.start /\ t.paid = s.paid
        /\ t.accessUntil = s.accessUntil /\ DocumentOK(t)
        /\ t.coupon = s.coupon /\ t.total = s.total
    BY <1>1 DEF Documents, DocumentOK
  <1>3. t.preId # NoId => IsRecurring(s.plan) /\ s.status # "CANCELLED"
    BY <1>2 DEF DocInv
  <1> HIDE DEF t
  <1>4. Rewritten(s, t)
    BY <1>2, <1>3, RewriteStep
  <1> QED
    BY <1>4 DEF t

LEMMA CycleCreditedStep ==
    ASSUME IInv, NEW p \in PreapprovalIds, NEW c, NEW i, CycleCredited(p, c, i)
    PROVE  StepOK
PROOF
  <1> DEFINE s == Confirm(sub, i)
             delivered == [preapprovals EXCEPT ![p].cycles[c].delivered = TRUE]
  <1>1. /\ c \in DOMAIN preapprovals[p].cycles /\ sub.preId = p
        /\ IsNextPending(sub.charges, i)
        /\ WithinBound(s) /\ SyncRecurringAmount(s, p, delivered) /\ SyncUser(s)
        /\ UNCHANGED <<acceptances, orders, now, restarted>>
    BY DEF CycleCredited, IsCycle
  <1>2. DocInv(sub) /\ i \in PendingCharges(sub.charges)
    BY <1>1, NextPendingHas
  <1>3. Continues(sub, s)
    BY <1>1, <1>2, ConfirmStep
  <1>4. WorldOK /\ UserOK(user) /\ PreapprovalsOK(preapprovals)
    BY WorldParts DEF IInv
  <1>5. PreapprovalsOK(delivered)
    BY <1>1, <1>4, PreapprovalForms
  <1>6. \A n \in Nat : PreapprovalsOK([delivered EXCEPT ![p].amount = n])
    BY <1>5 DEF PreapprovalsOK, Preapprovals
  <1> HIDE DEF delivered, s
  <1>7. PICK j \in DOMAIN s.charges :
           \/ Save(s) /\ preapprovals' = delivered
           \/ /\ preapprovals' = [delivered EXCEPT ![p].amount = s.charges[j].amount]
              /\ Save([s EXCEPT !.installment = s.charges[j].amount])
    BY <1>1 DEF SyncRecurringAmount, WithAmount
  <1>8. DocInv(s) /\ s.charges[j].amount \in Nat
    BY <1>3, DocTypes DEF Continues, Charge
  <1>9. Rewritten(s, [s EXCEPT !.installment = s.charges[j].amount])
    BY <1>8, InstallmentForm
  <1>10. Continues(sub, sub') /\ PreapprovalsOK(preapprovals')
    <2>1. CASE Save(s) /\ preapprovals' = delivered
      BY <1>2, <1>3, <1>5, <2>1, SavedContinues DEF Save
    <2>2. CASE /\ preapprovals' = [delivered EXCEPT ![p].amount = s.charges[j].amount]
               /\ Save([s EXCEPT !.installment = s.charges[j].amount])
      <3>1. PreapprovalsOK(preapprovals')
        BY <1>6, <1>8, <2>2
      <3>2. Continues(sub, [s EXCEPT !.installment = s.charges[j].amount])
        BY <1>2, <1>3, <1>9, ContinuesRewritten
      <3> QED
        BY <1>2, <2>2, <3>1, <3>2, SavedContinues DEF Save
    <2> QED
      BY <1>7, <2>1, <2>2
  <1>11. UserOK(user')
    BY <1>1, <1>4, <1>8, SyncStep
  <1>12. Ongoing
    BY <1>1, <1>2, <1>10 DEF Ongoing
  <1> QED
    BY <1>1, <1>4, <1>10, <1>11, <1>12, WorldParts, OngoingStep

LEMMA CycleUnmatchedStep ==
    ASSUME IInv, NEW p \in PreapprovalIds, NEW c, CycleUnmatched(p, c)
    PROVE  StepOK
PROOF
  <1>1. /\ c \in DOMAIN preapprovals[p].cycles
        /\ preapprovals' = [preapprovals EXCEPT ![p].cycles[c].delivered = TRUE]
        /\ UNCHANGED <<sub, user, acceptances, orders, now, restarted>>
    BY DEF CycleUnmatched, IsCycle
  <1>2. WorldOK /\ PreapprovalsOK(preapprovals')
    BY <1>1, WorldParts, PreapprovalForms DEF IInv
  <1> QED
    BY <1>1, <1>2, WorldParts, OngoingStep DEF Ongoing

LEMMA CycleNotCreditedStep ==
    ASSUME IInv, NEW p \in PreapprovalIds, NEW c, CycleNotCredited(p, c)
    PROVE  StepOK
PROOF
  <1> DEFINE t == [sub EXCEPT !.status = "PAST_DUE"]
  <1>1. /\ sub.preId = p /\ sub.status # "PAST_DUE" /\ SaveAndSync(t)
        /\ UNCHANGED <<acceptances, orders, preapprovals, now, restarted>>
    BY DEF CycleNotCredited, gateway
  <1>2. sub.preId # NoId
    BY <1>1, GatewayIdAssumption
  <1>3. DocInv(sub)
    BY <1>2, HasDocument
  <1>4. IsRecurring(sub.plan) /\ sub.status \notin {"CANCELLED", "PAST_DUE"}
    BY <1>1, <1>2, <1>3 DEF DocInv
  <1>5. Continues(sub, t)
    BY <1>3, <1>4, PastDueStep
  <1> HIDE DEF t
  <1>6. WorldOK /\ UserOK(user)
    BY WorldParts DEF IInv
  <1>7. Continues(sub, sub') /\ UserOK(user')
    BY <1>1, <1>3, <1>5, <1>6, SaveAndSyncStep
  <1>8. Ongoing
    BY <1>1, <1>3, <1>7 DEF Ongoing
  <1> QED
    BY <1>1, <1>6, <1>7, <1>8, WorldParts, OngoingStep

LEMMA PreapprovalCancelledStep ==
    ASSUME IInv, NEW p \in PreapprovalIds, PreapprovalCancelled(p)
    PROVE  StepOK
PROOF
  <1> DEFINE t == [sub EXCEPT !.status = "CANCELLED", !.preId = NoId,
                              !.accessUntil = sub.accessUntil, !.charges = KeepPaid(@)]
  <1>1. /\ sub.preId = p /\ sub.status # "CANCELLED"
        /\ SaveAndSync([sub EXCEPT !.status = "CANCELLED", !.preId = NoId,
                                   !.charges = KeepPaid(@)])
        /\ UNCHANGED <<acceptances, orders, preapprovals, now, restarted>>
    BY DEF PreapprovalCancelled, gateway
  <1>2. sub.preId # NoId
    BY <1>1, GatewayIdAssumption
  <1>3. DocInv(sub)
    BY <1>2, HasDocument
  <1>4. IsRecurring(sub.plan) /\ sub.status # "CANCELLED"
    BY <1>1, <1>2, <1>3 DEF DocInv
  <1>5. Continues(sub, t)
    BY <1>3, <1>4, CancelStep
  <1>6. SaveAndSync(t)
    <2>1. t = [sub EXCEPT !.status = "CANCELLED", !.preId = NoId, !.charges = KeepPaid(@)]
      BY <1>3 DEF DocInv, DocumentOK, Documents
    <2> QED
      BY <1>1, <2>1
  <1> HIDE DEF t
  <1>7. WorldOK /\ UserOK(user)
    BY WorldParts DEF IInv
  <1>8. Continues(sub, sub') /\ UserOK(user')
    BY <1>3, <1>5, <1>6, <1>7, SaveAndSyncStep
  <1>9. Ongoing
    BY <1>1, <1>3, <1>8 DEF Ongoing
  <1> QED
    BY <1>1, <1>7, <1>8, <1>9, WorldParts, OngoingStep

-----------------------------------------------------------------------------
(* The gateway, the calendar and the whole next-state relation *)

LEMMA EnvironmentStep ==
    ASSUME IInv, Environment
    PROVE  StepOK
PROOF
  <1>1. /\ WorldOK /\ UserOK(user) /\ OrdersOK(orders) /\ PreapprovalsOK(preapprovals)
        /\ now \in Nat /\ restarted \subseteq OrderIds
    BY WorldParts DEF IInv
  <1>2. ASSUME NEW o \in OrderIds, NEW outcome \in {"PAID", "REJECTED"}, DecideOrder(o, outcome)
        PROVE  StepOK
    <2>1. OrdersOK(orders')
      BY <1>1, <1>2 DEF DecideOrder, OrdersOK, Orders
    <2> QED
      BY <1>1, <1>2, <2>1, OngoingStep DEF DecideOrder, Ongoing
  <1>3. ASSUME NEW p \in PreapprovalIds, OpenCycle(p)
        PROVE  StepOK
    <2>1. PreapprovalsOK(preapprovals')
      BY <1>1, <1>3, PreapprovalForms DEF OpenCycle
    <2> QED
      BY <1>1, <1>3, <2>1, OngoingStep DEF OpenCycle, Ongoing
  <1>4. ASSUME NEW p \in PreapprovalIds, NEW c \in DOMAIN preapprovals[p].cycles,
               NEW outcome \in {"RECYCLING", "PAID", "REFUSED"}, AttemptCycle(p, c, outcome)
        PROVE  StepOK
    <2>1. PreapprovalsOK(preapprovals')
      BY <1>1, <1>4, PreapprovalForms DEF AttemptCycle
    <2> QED
      BY <1>1, <1>4, <2>1, OngoingStep DEF AttemptCycle, Ongoing
  <1>5. ASSUME NEW p \in PreapprovalIds, GatewayCancels(p)
        PROVE  StepOK
    <2>1. PreapprovalsOK(preapprovals')
      BY <1>1, <1>5, PreapprovalForms DEF GatewayCancels
    <2> QED
      BY <1>1, <1>5, <2>1, OngoingStep DEF GatewayCancels, Ongoing
  <1>6. CASE MonthPasses
    BY <1>1, <1>6, OngoingStep DEF MonthPasses, Ongoing
  <1> QED
    BY <1>2, <1>3, <1>4, <1>5, <1>6 DEF Environment

LEMMA NextStep ==
    ASSUME IInv, [Next]_vars
    PROVE  StepOK
PROOF
  <1>1. CASE StudentRequest
    BY <1>1, ChoosePlanStep, StopKeepsAll, SameStep, PayRecurringStep, ConfirmPaidCardStep, PayClosedStep,
       RestartCardPaymentStep, RefreshCardPaymentStep, MockPayStep, ChangePaymentMethodStep,
       CancelSubscriptionStep DEF StudentRequest
  <1>2. CASE Notification
    BY <1>2, OrderUpdatedStep, CycleCreditedStep, CycleUnmatchedStep, CycleNotCreditedStep,
       PreapprovalCancelledStep DEF Notification
  <1>3. CASE Environment
    BY <1>3, EnvironmentStep
  <1>4. CASE UNCHANGED vars
    BY <1>4, SameStep DEF vars
  <1> QED
    BY <1>1, <1>2, <1>3, <1>4 DEF Next

-----------------------------------------------------------------------------
(* Theorems *)

LEMMA NoSubscriptionFacts ==
    /\ NoSubscription.status = "NONE" /\ NoSubscription.paid = 0
    /\ NoSubscription.accessUntil = 0 /\ NoSubscription.preId = NoId
    /\ DOMAIN NoSubscription.charges = {}
    /\ DocumentOK(NoSubscription)
PROOF
  <1> DEFINE none == [i \in {} |-> {}]
  <1>1. (CHOOSE p \in Plans : TRUE) \in Plans /\ NoCoupon \in Coupons
    BY CatalogueAssumption
  <1>2. DOMAIN none = {} /\ IsSchedule(none)
    BY DEF IsSchedule
  <1> HIDE DEF none
  <1>3. /\ NoSubscription.charges = none
        /\ NoSubscription.status = "NONE" /\ NoSubscription.paid = 0
        /\ NoSubscription.accessUntil = 0 /\ NoSubscription.preId = NoId
    BY DEF NoSubscription, none, NoAccess
  <1>4. NoSubscription \in Documents(none)
    BY <1>1 DEF NoSubscription, none, NoAccess, Documents, Methods
  <1> QED
    BY <1>2, <1>3, <1>4 DEF DocumentOK

LEMMA InitInv == Init => IInv
PROOF
  <1> SUFFICES ASSUME Init PROVE IInv
    OBVIOUS
  <1>1. sub = NoSubscription
    BY DEF Init
  <1>2. user \in [isPaying : BOOLEAN, accessUntil : Nat]
    BY DEF Init, NoAccess
  <1>3. orders \in [OrderIds -> Orders]
    BY DEF Init, Orders
  <1>4. preapprovals \in [PreapprovalIds -> Preapprovals]
    <2>1. <<>> \in Seq(Cycles)
      OBVIOUS
    <2> QED
      BY <2>1 DEF Init, Preapprovals
  <1>5. acceptances \in Seq([plan : Plans, total : Nat]) /\ now \in Nat /\ restarted \subseteq OrderIds
    BY DEF Init
  <1> QED
    BY <1>1, <1>2, <1>3, <1>4, <1>5 DEF IInv, WorldOK

LEMMA NextInv == IInv /\ [Next]_vars => IInv'
PROOF
  <1> SUFFICES ASSUME IInv, [Next]_vars PROVE IInv'
    OBVIOUS
  <1>1. StepOK
    BY NextStep
  <1>2. sub' = NoSubscription \/ DocInv(sub')
    BY <1>1 DEF IInv, StepOK, Ongoing, Continues, Contracting
  <1>3. NoSubscription' = NoSubscription
    BY DEF NoSubscription, NoCoupon, Lifetime, NoAccess
  <1> QED
    BY <1>1, <1>2, <1>3 DEF IInv, StepOK

\* The inductive invariant holds in every state the handlers reach.
THEOREM Invariance == Spec => []IInv
PROOF
  <1> QED
    BY InitInv, NextInv, PTL DEF Spec

\* Every document, mirror, acceptance, order and preapproval has its type:
\* no handler writes a status, an amount or a link the code does not know.
THEOREM TypeCorrect == Spec => []TypeOK
PROOF
  <1> DEFINE UnsavedOK == unsaved \in BOOLEAN
  <1>1. IInv /\ UnsavedOK => TypeOK
    <2> SUFFICES ASSUME IInv, UnsavedOK PROVE TypeOK
      OBVIOUS
    <2>1. DocumentOK(sub)
      BY NoSubscriptionFacts DEF IInv, DocInv
    <2>2. acceptances \in Seq(Acceptances)
      BY DEF IInv, WorldOK, Acceptances
    <2> QED
      BY <2>1, <2>2 DEF IInv, WorldOK, TypeOK, DocumentOK
  <1>2. Init => UnsavedOK
    BY DEF Init
  <1>3. IInv /\ UnsavedOK /\ [Next]_vars => UnsavedOK'
    <2> SUFFICES ASSUME IInv, UnsavedOK, [Next]_vars PROVE UnsavedOK'
      OBVIOUS
    <2>1. CASE unsaved' \in {unsaved, FALSE, TRUE}
      BY <2>1
    <2>3. CASE StudentRequest
      BY <2>1, <2>3
         DEF StudentRequest, AcceptanceWithoutPlan, ChoosePlan, PayRecurring, ConfirmPaidCard, PayClosed, RestartCardPayment,
             RefreshCardPayment, MockPay, ChangePaymentMethod, CancelSubscription
    <2>4. CASE Notification
      BY <2>1, <2>4 DEF Notification, OrderUpdated, CycleCredited, CycleUnmatched, CycleNotCredited,
                        PreapprovalCancelled
    <2>5. CASE Environment
      BY <2>1, <2>5 DEF Environment, DecideOrder, OpenCycle, AttemptCycle, GatewayCancels, MonthPasses
    <2>6. CASE UNCHANGED vars
      BY <2>1, <2>6 DEF vars
    <2> QED
      BY <2>3, <2>4, <2>5, <2>6 DEF Next
  <1> QED
    BY <1>1, <1>2, <1>3, Invariance, PTL DEF Spec

\* Whichever handler or notification confirmed, a plan sold for a period is
\* paid as a whole, to the end of its period, or not at all (confirmCharge).
THEOREM ClosedPlans == Spec => []ClosedPlanAllOrNothing
PROOF
  <1>1. IInv => ClosedPlanAllOrNothing
    BY NoSubscriptionFacts DEF IInv, DocInv, ClosedPlanAllOrNothing, Contracted
  <1> QED
    BY <1>1, Invariance, PTL

\* paidInstallments, the schedule and accessUntil agree in every state, after
\* any cancellation, change of method, restart or notification.
THEOREM AccessWasPaid == Spec => []AccessIsWhatWasPaid
PROOF
  <1>1. IInv => AccessIsWhatWasPaid
    <2> SUFFICES ASSUME IInv PROVE CountsWhatWasPaid(sub)
      BY DEF AccessIsWhatWasPaid
    <2>1. CASE sub = NoSubscription
      <3>1. PaidCharges(sub.charges) = {}
        BY <2>1, NoSubscriptionFacts DEF PaidCharges
      <3> QED
        BY <2>1, <3>1, NoSubscriptionFacts, FS_EmptySet
           DEF CountsWhatWasPaid, PaidAccessUntil, NoAccess
    <2>2. CASE DocInv(sub)
      BY <2>2 DEF DocInv
    <2> QED
      BY <2>1, <2>2 DEF IInv
  <1> QED
    BY <1>1, Invariance, PTL

\* A plan that renews is paid in order and always shows ScheduleMonths
\* renewals ahead (extendRecurringSchedule).
THEOREM Windows == Spec => []ScheduleIsAWindow
PROOF
  <1>1. IInv => ScheduleIsAWindow
    BY NoSubscriptionFacts DEF IInv, DocInv, ScheduleIsAWindow, Contracted
  <1> QED
    BY <1>1, Invariance, PTL

\* An accepted contract is one more acceptance.
LEMMA ContractingGrows ==
    ASSUME WorldOK, Contracting
    PROVE  Len(acceptances') = Len(acceptances) + 1 /\ acceptances' # acceptances
  BY WorldParts DEF Contracting

LEMMA StepKeepsAccess ==
    IInv /\ [Next]_vars => [SameContract => sub'.accessUntil >= sub.accessUntil]_vars
PROOF
  <1> SUFFICES ASSUME IInv, [Next]_vars, SameContract
               PROVE  sub'.accessUntil >= sub.accessUntil
    OBVIOUS
  <1>1. Ongoing
    BY NextStep, ContractingGrows DEF IInv, StepOK, SameContract
  <1>2. sub.accessUntil \in Nat
    BY NoSubscriptionFacts, DocTypes DEF IInv
  <1> QED
    BY <1>1, <1>2 DEF Ongoing, Continues

\* No handler and no notification takes access back within a contract.
THEOREM AccessIsKept == Spec => AccessNeverShrinks
PROOF
  <1> QED
    BY Invariance, StepKeepsAccess, PTL DEF Spec, AccessNeverShrinks

PaymentsKeptStep ==
    SameContract =>
        \A i \in PaidCharges(sub.charges) :
            /\ i \in PaidCharges(sub'.charges)
            /\ sub'.charges[i].amount = sub.charges[i].amount
            /\ sub'.charges[i].link = sub.charges[i].link

LEMMA StepKeepsPayments == IInv /\ [Next]_vars => PaymentsKeptStep
PROOF
  <1> SUFFICES ASSUME IInv, [Next]_vars, SameContract,
                      NEW i \in PaidCharges(sub.charges)
               PROVE  /\ i \in PaidCharges(sub'.charges)
                      /\ sub'.charges[i].amount = sub.charges[i].amount
                      /\ sub'.charges[i].link = sub.charges[i].link
    BY DEF PaymentsKeptStep
  <1>1. Ongoing
    BY NextStep, ContractingGrows DEF IInv, StepOK, SameContract
  <1> QED
    BY <1>1 DEF Ongoing, Continues, KeepsPayments

\* A payment recorded is never undone nor moved to another order within its
\* contract (cancelSubscription, changePaymentMethod, restartCardPayment).
THEOREM PaymentsStay == Spec => PaymentsAreKept
PROOF
  <1>1. PaymentsKeptStep => [SameContract =>
          \A i \in PaidCharges(sub.charges) :
              i \in PaidCharges(sub'.charges)
              /\ sub'.charges[i].amount = sub.charges[i].amount
              /\ sub'.charges[i].link = sub.charges[i].link]_vars
    BY DEF PaymentsKeptStep
  <1> QED
    BY <1>1, Invariance, StepKeepsPayments, PTL DEF Spec, PaymentsAreKept

-----------------------------------------------------------------------------
(* The handlers implement PlanLifecycle *)

\* The abstract size of a document, as ImplementsLifecycle maps it.
SizeOf(s) == IF s.status = "NONE" \/ IsRecurring(s.plan) THEN 0 ELSE Installments[s.plan]
AllSizes == {IF IsRecurring(p) THEN 0 ELSE Installments[p] : p \in Plans}

LEMMA MappedInit == Init => Lifecycle!Init
PROOF
  <1> SUFFICES ASSUME Init PROVE Lifecycle!Init
    OBVIOUS
  <1>1. Contract = 0
    BY DEF Init, Contract
  <1>2. sub.status = "NONE" /\ sub.paid = 0
    BY NoSubscriptionFacts DEF Init
  <1> QED
    BY <1>1, <1>2 DEF Lifecycle!Init

\* A contract that goes on pays, falls due, is cancelled or does not move.
LEMMA MappedOngoing ==
    ASSUME IInv, Ongoing
    PROVE  Lifecycle!Next \/ UNCHANGED Lifecycle!vars
PROOF
  <1>1. Contract' = Contract
    BY DEF Ongoing, Contract
  <1>2. CASE sub' = sub
    <2>1. /\ sub'.status = sub.status /\ sub'.paid = sub.paid /\ SizeOf(sub') = SizeOf(sub)
      BY <1>2
    <2> QED
      BY <1>1, <2>1 DEF Lifecycle!vars, SizeOf
  <1>3. CASE DocInv(sub) /\ Continues(sub, sub')
    <2>1. /\ sub.status # "NONE" /\ sub'.status # "NONE" /\ sub'.plan = sub.plan
          /\ sub.plan \in Plans /\ sub.paid \in Nat
      BY <1>3, DocTypes DEF DocInv, Continues
    <2>2. Installments[sub.plan] \in Nat \ {0}
      BY <2>1, CatalogueAssumption
    <2>3. SizeOf(sub') = SizeOf(sub)
      BY <2>1 DEF SizeOf
    <2>4. SizeOf(sub) = IF IsRecurring(sub.plan) THEN 0 ELSE Installments[sub.plan]
      BY <2>1 DEF SizeOf
    <2>5. CASE sub'.status = sub.status /\ sub'.paid = sub.paid
      BY <1>1, <2>3, <2>5 DEF Lifecycle!vars, SizeOf
    <2>6. CASE Paying(sub, sub')
      <3>1. Lifecycle!Payment(SizeOf(sub)) =
               IF IsRecurring(sub.plan) THEN 1 ELSE Installments[sub.plan]
        BY <2>2, <2>4 DEF Lifecycle!Payment
      <3>2. SizeOf(sub) > 0 => sub.paid = 0
        BY <2>2, <2>4, <2>6 DEF Paying
      <3>3. Lifecycle!Pay
        BY <1>1, <2>3, <2>6, <3>1, <3>2 DEF Lifecycle!Pay, Paying, SizeOf
      <3> QED
        BY <3>3 DEF Lifecycle!Next
    <2>7. CASE Suspending(sub, sub')
      <3>1. Lifecycle!FallDue
        BY <1>1, <2>3, <2>4, <2>7 DEF Lifecycle!FallDue, Suspending, SizeOf
      <3> QED
        BY <3>1 DEF Lifecycle!Next
    <2>8. CASE Ending(sub, sub')
      <3>1. Lifecycle!Cancel
        BY <1>1, <2>3, <2>4, <2>8 DEF Lifecycle!Cancel, Ending, SizeOf
      <3> QED
        BY <3>1 DEF Lifecycle!Next
    <2> QED
      BY <1>3, <2>5, <2>6, <2>7, <2>8 DEF Continues
  <1> QED
    BY <1>2, <1>3 DEF Ongoing

\* A new contract is the abstract Accept.
LEMMA MappedContracting ==
    ASSUME WorldOK, Contracting
    PROVE  Lifecycle!Next
PROOF
  <1>1. PICK plan \in Plans :
           /\ DocInv(sub') /\ sub'.plan = plan
           /\ \/ sub'.status = "PENDING" /\ sub'.paid = 0
              \/ /\ sub'.status = "ACTIVE"
                 /\ sub'.paid = IF IsRecurring(plan) THEN 1 ELSE Installments[plan]
    BY DEF Contracting
  <1>2. Contract' = Contract + 1 /\ sub.status # "ACTIVE"
    BY ContractingGrows DEF Contract, Contracting
  <1>3. Installments[plan] \in Nat \ {0}
    BY CatalogueAssumption
  <1>4. SizeOf(sub') = IF IsRecurring(plan) THEN 0 ELSE Installments[plan]
    BY <1>1 DEF SizeOf, DocInv
  <1>5. SizeOf(sub') \in AllSizes
    BY <1>4 DEF AllSizes
  <1>6. sub'.status = "ACTIVE" => sub'.paid = Lifecycle!Payment(SizeOf(sub'))
    BY <1>1, <1>3, <1>4 DEF Lifecycle!Payment
  <1>7. Lifecycle!Accept
    BY <1>1, <1>2, <1>5, <1>6 DEF Lifecycle!Accept, SizeOf, AllSizes
  <1> QED
    BY <1>7 DEF Lifecycle!Next

LEMMA MappedNext == IInv /\ [Next]_vars => [Lifecycle!Next]_(Lifecycle!vars)
PROOF
  <1> SUFFICES ASSUME IInv, [Next]_vars PROVE Lifecycle!Next \/ UNCHANGED Lifecycle!vars
    OBVIOUS
  <1> QED
    BY NextStep, MappedOngoing, MappedContracting DEF IInv, StepOK

\* Every behaviour of the handlers is one of the plan lifecycle: contracts
\* start unpaid or wholly paid, a cancelled contract takes no payment, a plan
\* sold for a period is paid once, and only a renewing plan is suspended.
THEOREM Refinement == Spec => ImplementsLifecycle
PROOF
  <1> QED
    BY Invariance, MappedInit, MappedNext, PTL DEF Spec, ImplementsLifecycle, Lifecycle!Spec

-----------------------------------------------------------------------------
(* What is debited *)

\* An order belongs to a contract that was accepted, and a card order debits
\* the base of what was accepted, which the document in force repeats.
DebitInv ==
    /\ \A o \in OrderIds : orders[o].status # "ABSENT" => orders[o].contract \in 1 .. Contract
    /\ DebitIsWhatWasAccepted
    /\ sub.status # "NONE" =>
          /\ Contract > 0
          /\ acceptances[Contract].plan = sub.plan
          /\ acceptances[Contract].total = PayerAmount(sub.plan, sub.total)

IsBaseOf(amount, accepted) == accepted.total = PayerAmount(accepted.plan, amount)

\* An order is created for the contract in force, which the step may have
\* started; one that was created keeps what it debits.
IsCreated(o) ==
    /\ orders'[o].contract = Contract' /\ Contract' > 0
    /\ orders'[o].kind = "CARD" => IsBaseOf(orders'[o].amount, acceptances'[Contract'])

IsKept(o) ==
    /\ orders[o].status # "ABSENT"
    /\ orders'[o].contract = orders[o].contract
    /\ orders'[o].kind = orders[o].kind /\ orders'[o].amount = orders[o].amount

OrdersMove ==
    \A o \in OrderIds : orders'[o] = orders[o] \/ IsCreated(o) \/ IsKept(o)

LEMMA CreateMoves ==
    ASSUME OrdersOK(orders), NEW o \in OrderIds, NEW kind \in {"PIX", "CARD"}, NEW status,
           NEW index, NEW amount, NEW contract,
           CreateOrder(o, kind, status, index, amount, contract),
           contract = Contract', Contract' > 0,
           kind = "CARD" => IsBaseOf(amount, acceptances'[Contract'])
    PROVE  OrdersMove
PROOF
  <1> DEFINE new == [status |-> status, kind |-> kind, index |-> index,
                     amount |-> amount, contract |-> contract]
  <1>1. orders' = [orders EXCEPT ![o] = new]
    BY DEF CreateOrder
  <1>2. orders'[o] = new /\ \A q \in OrderIds \ {o} : orders'[q] = orders[q]
    BY <1>1 DEF OrdersOK
  <1>3. IsCreated(o)
    BY <1>2 DEF IsCreated
  <1> QED
    BY <1>2, <1>3 DEF OrdersMove

LEMMA IssueMoves ==
    ASSUME OrdersOK(orders), NEW s, NEW i, IssueCharge(s, i, Contract'), Contract' > 0
    PROVE  OrdersMove
PROOF
  <1>1. CASE UNCHANGED orders
    BY <1>1 DEF OrdersMove
  <1>2. CASE \E o \in OrderIds : CreatePixOrder(o, i, s.charges[i].amount, Contract')
    <2>1. PICK o \in OrderIds : CreatePixOrder(o, i, s.charges[i].amount, Contract')
      BY <1>2
    <2>2. CASE CreateOrder(o, "PIX", "PENDING", i, s.charges[i].amount, Contract')
      BY <2>2, CreateMoves
    <2> QED
      BY <1>1, <2>1, <2>2 DEF CreatePixOrder
  <1> QED
    BY <1>1, <1>2 DEF IssueCharge

LEMMA OrdersMoveStep ==
    ASSUME IInv, DebitInv, [Next]_vars
    PROVE  OrdersMove
PROOF
  <1>1. OrdersOK(orders) /\ Contract \in Nat
    BY WorldParts DEF IInv
  <1>2. CASE UNCHANGED orders
    BY <1>2 DEF OrdersMove
  <1>3. ASSUME NEW plan \in Plans, NEW method \in Methods, NEW coupon \in Coupons,
               ChoosePlan(plan, method, coupon)
        PROVE  OrdersMove
    <2> DEFINE s == BuildSubscription(plan, method, coupon, now)
    <2>1. Contract' = Contract + 1
      BY <1>3, WorldParts DEF IInv, ChoosePlan, Contract
    <2>2. IssueCharge(s, 1, Contract') \/ UNCHANGED orders
      BY <1>3, <2>1 DEF ChoosePlan, ConfirmZeroCharge
    <2> HIDE DEF s
    <2> QED
      BY <1>1, <1>2, <2>1, <2>2, IssueMoves
  <1>4. ASSUME NEW i \in DOMAIN sub.charges, NEW o \in OrderIds,
               NEW outcome \in {"PENDING", "CHALLENGE", "PAID", "REJECTED"},
               PayClosed(i, o, outcome)
        PROVE  OrdersMove
    <2>1. /\ CreateOrder(o, "CARD", outcome, i, sub.total, Contract)
          /\ acceptances' = acceptances /\ sub.status # "NONE"
      BY <1>4 DEF PayClosed, CardContract
    <2>2. Contract' = Contract /\ Contract > 0
      BY <2>1 DEF Contract, DebitInv
    <2>3. IsBaseOf(sub.total, acceptances'[Contract'])
      BY <2>1, <2>2 DEF DebitInv, IsBaseOf
    <2> QED
      BY <1>1, <2>1, <2>2, <2>3, CreateMoves
  <1>5. ASSUME NEW method \in Methods, ChangePaymentMethod(method)
        PROVE  OrdersMove
    <2>1. /\ acceptances' = acceptances /\ sub.status # "NONE"
          /\ \E s, i : IssueCharge(s, i, Contract) \/ UNCHANGED orders
      BY <1>5 DEF ChangePaymentMethod, ConfirmZeroCharge
    <2>2. Contract' = Contract /\ Contract > 0
      BY <2>1 DEF Contract, DebitInv
    <2> QED
      BY <1>1, <1>2, <2>1, <2>2, IssueMoves
  <1>6. ASSUME NEW o \in OrderIds, NEW outcome \in {"PAID", "REJECTED"}, DecideOrder(o, outcome)
        PROVE  OrdersMove
    <2>1. /\ orders[o].status # "ABSENT" /\ orders[o] \in Orders
          /\ orders' = [orders EXCEPT ![o].status = outcome]
      BY <1>1, <1>6 DEF DecideOrder, OrdersOK
    <2>2. /\ orders'[o] = [orders[o] EXCEPT !.status = outcome]
          /\ \A q \in OrderIds \ {o} : orders'[q] = orders[q]
      BY <1>1, <2>1 DEF OrdersOK
    <2>3. IsKept(o)
      BY <2>1, <2>2 DEF IsKept, Orders
    <2> QED
      BY <2>2, <2>3 DEF OrdersMove
  <1>7. CASE StudentRequest
    BY <1>2, <1>3, <1>4, <1>5, <1>7, StopKeepsAll
       DEF StudentRequest, PayRecurring, ConfirmPaidCard, RestartCardPayment, RefreshCardPayment,
           MockPay, CancelSubscription, gateway
  <1>8. CASE Notification
    BY <1>2, <1>8 DEF Notification, OrderUpdated, CycleCredited, CycleUnmatched, CycleNotCredited,
                      PreapprovalCancelled, gateway
  <1>9. CASE Environment
    BY <1>2, <1>6, <1>9 DEF Environment, OpenCycle, AttemptCycle, GatewayCancels, MonthPasses
  <1>10. CASE UNCHANGED vars
    BY <1>2, <1>10 DEF vars
  <1> QED
    BY <1>7, <1>8, <1>9, <1>10 DEF Next

LEMMA DebitStep == IInv /\ DebitInv /\ [Next]_vars => DebitInv'
PROOF
  <1> SUFFICES ASSUME IInv, DebitInv, [Next]_vars PROVE DebitInv'
    OBVIOUS
  <1>1. StepOK /\ OrdersMove
    BY NextStep, OrdersMoveStep
  <1>2. /\ acceptances \in Seq([plan : Plans, total : Nat]) /\ Contract \in Nat
        /\ OrdersOK(orders) /\ WorldOK
    BY WorldParts DEF IInv
  <1>3. /\ Contract' \in Nat /\ Contract <= Contract'
        /\ \A n \in 1 .. Contract : acceptances'[n] = acceptances[n]
    <2>1. CASE Ongoing
      BY <1>2, <2>1 DEF Ongoing, Contract
    <2>2. CASE Contracting
      BY <1>2, <2>2 DEF Contracting, Contract
    <2> QED
      BY <1>1, <2>1, <2>2 DEF StepOK
  <1>4. sub'.status # "NONE" =>
          /\ Contract' > 0
          /\ acceptances'[Contract'].plan = sub'.plan
          /\ acceptances'[Contract'].total = PayerAmount(sub'.plan, sub'.total)
    <2>1. CASE Ongoing
      <3>1. Contract' = Contract /\ acceptances' = acceptances
        BY <2>1 DEF Ongoing, Contract
      <3>2. sub' = sub \/ (sub.status # "NONE" /\ sub'.plan = sub.plan /\ sub'.total = sub.total)
        BY <2>1 DEF Ongoing, Continues, DocInv
      <3> QED
        BY <3>1, <3>2 DEF DebitInv
    <2>2. CASE Contracting
      <3>1. PICK plan \in Plans, total \in Nat :
               /\ acceptances' = Append(acceptances, [plan |-> plan, total |-> PayerAmount(plan, total)])
               /\ sub'.plan = plan /\ sub'.total = total
        BY <2>2 DEF Contracting
      <3> DEFINE accepted == PayerAmount(plan, total)
      <3>a. accepted \in Nat /\ acceptances' = Append(acceptances, [plan |-> plan, total |-> accepted])
        BY <3>1, PayerAmountType
      <3>b. accepted = PayerAmount(plan, total)
        OBVIOUS
      <3> HIDE DEF accepted
      <3>2. Contract' = Contract + 1 /\ acceptances'[Contract + 1] = [plan |-> plan, total |-> accepted]
        BY <1>2, <3>a DEF Contract
      <3>3. acceptances'[Contract'] = [plan |-> plan, total |-> accepted]
        BY <3>2
      <3>4. acceptances'[Contract'].plan = plan /\ acceptances'[Contract'].total = PayerAmount(plan, total)
        BY <3>3, <3>b
      <3>5. sub'.plan = plan /\ sub'.total = total /\ Contract' > 0
        BY <1>2, <3>1, <3>2
      <3> QED
        BY <3>4, <3>5
    <2> QED
      BY <1>1, <2>1, <2>2 DEF StepOK
  <1>5. ASSUME NEW o \in OrderIds, orders'[o].status # "ABSENT"
        PROVE  /\ orders'[o].contract \in 1 .. Contract'
               /\ orders'[o].kind = "CARD" =>
                    IsBaseOf(orders'[o].amount, acceptances'[orders'[o].contract])
    <2>1. CASE orders'[o] = orders[o] \/ IsKept(o)
      <3>1. /\ orders[o].status # "ABSENT" /\ orders'[o].contract = orders[o].contract
            /\ orders'[o].kind = orders[o].kind /\ orders'[o].amount = orders[o].amount
        BY <1>5, <2>1 DEF IsKept
      <3>2. /\ orders[o].contract \in 1 .. Contract
            /\ orders[o].kind = "CARD" => IsBaseOf(orders[o].amount, acceptances[orders[o].contract])
        BY <3>1 DEF DebitInv, DebitIsWhatWasAccepted, IsBaseOf
      <3> QED
        BY <1>2, <1>3, <3>1, <3>2
    <2>2. CASE IsCreated(o)
      BY <1>3, <2>2 DEF IsCreated
    <2> QED
      BY <1>1, <2>1, <2>2 DEF OrdersMove
  <1> QED
    BY <1>4, <1>5 DEF DebitInv, DebitIsWhatWasAccepted, IsBaseOf

LEMMA DebitInit == Init => DebitInv
PROOF
  <1> SUFFICES ASSUME Init PROVE DebitInv
    OBVIOUS
  <1>1. \A o \in OrderIds : orders[o].status = "ABSENT"
    BY DEF Init
  <1>2. sub.status = "NONE"
    BY NoSubscriptionFacts DEF Init
  <1> QED
    BY <1>1, <1>2 DEF DebitInv, DebitIsWhatWasAccepted

\* Orders are of contracts that exist, and the document in force repeats the
\* plan and the total of the last one that was accepted.
THEOREM DebitInvariance == Spec => []DebitInv
PROOF
  <1> QED
    BY Invariance, DebitInit, DebitStep, PTL DEF Spec

\* Whatever fails, a card order debits the base whose amount with interest is
\* what the student accepted of the contract it is for (payWithCard).
THEOREM DebitsWereAccepted == Spec => []DebitIsWhatWasAccepted
PROOF
  <1>1. DebitInv => DebitIsWhatWasAccepted
    BY DEF DebitInv
  <1> QED
    BY <1>1, DebitInvariance, PTL

-----------------------------------------------------------------------------
(* The student's mirror *)

\* What the mirror is computed from is there.
HasMirrored(s) == {"status", "accessUntil", "charges"} \subseteq DOMAIN s

LEMMA MirroredFields ==
    /\ \A s : DocInv(s) => HasMirrored(s)
    /\ \A s : HasMirrored(s) => Mirror(ToPlain(s)) = Mirror(s)
    /\ \A s, i : HasMirrored(s) => HasMirrored(Confirm(s, i))
    /\ \A s, t : Rewritten(s, t) => Mirror(t) = Mirror(s)
PROOF
  <1>1. \A s : DocInv(s) => HasMirrored(s)
    BY DEF DocInv, DocumentOK, Documents, HasMirrored
  <1>2. \A s : HasMirrored(s) => Mirror(ToPlain(s)) = Mirror(s)
    BY DEF HasMirrored, ToPlain, Mirror
  <1>3. \A s, i : HasMirrored(s) => HasMirrored(Confirm(s, i))
    BY DEF HasMirrored, Confirm
  <1>4. \A s, t : Rewritten(s, t) => Mirror(t) = Mirror(s)
    BY DEF Rewritten, Mirror
  <1> QED
    BY <1>1, <1>2, <1>3, <1>4

Mirrored == user = Mirror(sub)

LEMMA ConfirmMirrors ==
    ASSUME "sync" \notin Faults, NEW s, HasMirrored(s), NEW i, ConfirmCharge(s, i)
    PROVE  Mirrored'
PROOF
  <1>1. sub' = ToPlain(Confirm(s, i)) /\ user' = Mirror(Confirm(s, i))
    BY DEF ConfirmCharge, SaveAndSync, Save, SyncUser
  <1> QED
    BY <1>1, MirroredFields DEF Mirrored

LEMMA SyncMirrors ==
    ASSUME "sync" \notin Faults, NEW s, HasMirrored(s), SaveAndSync(s)
    PROVE  Mirrored'
PROOF
  <1>1. sub' = ToPlain(s) /\ user' = Mirror(s)
    BY DEF SaveAndSync, Save, SyncUser
  <1> QED
    BY <1>1, MirroredFields DEF Mirrored

LEMMA SaveMirrors ==
    ASSUME Mirrored, DocInv(sub), NEW t, Rewritten(sub, t), Save(t), UNCHANGED user
    PROVE  Mirrored'
PROOF
  <1>1. sub' = ToPlain(t) /\ HasMirrored(t) /\ Mirror(t) = Mirror(sub)
    BY MirroredFields DEF Save, Rewritten
  <1> QED
    BY <1>1, MirroredFields DEF Mirrored

LEMMA SameMirrors ==
    ASSUME MirrorFollowsDocument, UNCHANGED <<sub, user>>
    PROVE  MirrorFollowsDocument'
PROOF BY DEF MirrorFollowsDocument, Contracted

LEMMA ChoosePlanMirrors ==
    ASSUME IInv, "sync" \notin Faults, NEW plan \in Plans, NEW method \in Methods,
           NEW coupon \in Coupons, ChoosePlan(plan, method, coupon)
    PROVE  Mirrored'
PROOF
  <1> DEFINE s == BuildSubscription(plan, method, coupon, now)
  <1>1. DocInv(s) /\ IsNextPending(s.charges, 1) /\ Contract \in Nat /\ OrdersOK(orders)
    BY WorldParts, BuildInv DEF IInv
  <1>2. \/ IssueCharge(s, 1, Contract + 1) /\ SyncUser(s)
        \/ ConfirmZeroCharge(s, 1)
    BY DEF ChoosePlan
  <1> HIDE DEF s
  <1>3. CASE IssueCharge(s, 1, Contract + 1) /\ SyncUser(s)
    <2>1. Rewritten(s, sub') /\ user' = Mirror(s)
      BY <1>1, <1>3, IssueChargeStep DEF SyncUser
    <2> QED
      BY <2>1, MirroredFields DEF Mirrored
  <1>4. CASE ConfirmZeroCharge(s, 1)
    BY <1>1, <1>4, MirroredFields, ConfirmMirrors DEF ConfirmZeroCharge
  <1> QED
    BY <1>2, <1>3, <1>4

LEMMA ChangeMethodMirrors ==
    ASSUME IInv, Mirrored, "sync" \notin Faults, NEW method \in Methods,
           ChangePaymentMethod(method)
    PROVE  Mirrored'
PROOF
  <1> DEFINE t(i) == [sub EXCEPT !.method = method, !.preId = NoId, !.charges[i].link = NoId]
  <1>1. PICK i \in DOMAIN sub.charges :
          /\ IsNextPending(sub.charges, i)
          /\ \/ IssueCharge(t(i), i, Contract) /\ UNCHANGED user
             \/ ConfirmZeroCharge(t(i), i)
    BY DEF ChangePaymentMethod
  <1>2. DocInv(sub) /\ Contract \in Nat /\ OrdersOK(orders)
    BY <1>1, NextPendingHas, WorldParts DEF IInv
  <1>3. Rewritten(sub, t(i)) /\ IsNextPending(t(i).charges, i)
    BY <1>1, <1>2, LinkForms
  <1> DEFINE s == t(i)
  <1>4. /\ DocInv(s) /\ Rewritten(sub, s) /\ IsNextPending(s.charges, i)
        /\ (IssueCharge(s, i, Contract) /\ UNCHANGED user) \/ ConfirmZeroCharge(s, i)
    BY <1>1, <1>3 DEF Rewritten
  <1> HIDE DEF s, t
  <1>5. CASE IssueCharge(s, i, Contract) /\ UNCHANGED user
    <2>1. Rewritten(s, sub')
      BY <1>2, <1>4, <1>5, IssueChargeStep
    <2> QED
      BY <1>4, <1>5, <2>1, MirroredFields DEF Mirrored
  <1>6. CASE ConfirmZeroCharge(s, i)
    BY <1>4, <1>6, MirroredFields, ConfirmMirrors DEF ConfirmZeroCharge
  <1> QED
    BY <1>4, <1>5, <1>6

LEMMA RequestMirrors ==
    ASSUME IInv, MirrorFollowsDocument, "sync" \notin Faults, StudentRequest
    PROVE  MirrorFollowsDocument'
PROOF
  <1>1. Mirrored' => MirrorFollowsDocument'
    BY DEF Mirrored, MirrorFollowsDocument
  <1>2. DocInv(sub) => Mirrored
    BY DEF MirrorFollowsDocument, Contracted, DocInv, Mirrored
  <1>3. ASSUME NEW plan \in Plans, NEW method \in Methods, NEW coupon \in Coupons,
               ChoosePlan(plan, method, coupon)
        PROVE  MirrorFollowsDocument'
    BY <1>1, <1>3, ChoosePlanMirrors
  <1>4. ASSUME NEW i \in DOMAIN sub.charges, IsNextPending(sub.charges, i)
        PROVE  /\ DocInv(sub) /\ Mirrored /\ HasMirrored(sub)
               /\ \A id \in GatewayIds : Rewritten(sub, [sub EXCEPT !.charges[i].link = id])
    BY <1>2, <1>4, NextPendingHas, LinkForms, MirroredFields
  <1>5. ASSUME NEW i \in DOMAIN sub.charges, NEW p \in PreapprovalIds, PayRecurring(i, p)
        PROVE  MirrorFollowsDocument'
    <2>1. /\ IsNextPending(sub.charges, i) /\ IsRecurring(sub.plan) /\ UNCHANGED user
          /\ Save([sub EXCEPT !.charges[i].link = p, !.preId = p]) \/ UNCHANGED sub
      BY <1>5 DEF PayRecurring, CardContract
    <2>2. Rewritten(sub, [sub EXCEPT !.charges[i].link = p, !.preId = p])
      BY <1>4, <2>1, LinkForms
    <2> QED
      BY <1>1, <1>4, <2>1, <2>2, SaveMirrors, SameMirrors
  <1>6. ASSUME NEW i \in DOMAIN sub.charges, ConfirmPaidCard(i)
        PROVE  MirrorFollowsDocument'
    <2>1. PICK o : OrderPaid(o) /\ ConfirmCharge([sub EXCEPT !.charges[i].link = o], i)
      BY <1>6 DEF ConfirmPaidCard
    <2>2. IsNextPending(sub.charges, i) /\ o \in GatewayIds
      BY <1>6, <2>1 DEF ConfirmPaidCard, CardContract, OrderPaid, GatewayIds
    <2>3. HasMirrored([sub EXCEPT !.charges[i].link = o])
      BY <1>4, <2>2, MirroredFields DEF Rewritten
    <2> QED
      BY <1>1, <2>1, <2>3, ConfirmMirrors
  <1>7. ASSUME NEW i \in DOMAIN sub.charges, NEW o \in OrderIds,
               NEW outcome \in {"PENDING", "CHALLENGE", "PAID", "REJECTED"},
               PayClosed(i, o, outcome)
        PROVE  MirrorFollowsDocument'
    <2> DEFINE t == [sub EXCEPT !.charges[i].link = o]
    <2>1. /\ IsNextPending(sub.charges, i)
          /\ \/ ConfirmCharge(t, i)
             \/ Save(t) /\ UNCHANGED user
             \/ UNCHANGED <<sub, user>>
      BY <1>7 DEF PayClosed, CardContract
    <2>2. Rewritten(sub, t) /\ HasMirrored(t)
      BY <1>4, <2>1, MirroredFields DEF Rewritten, GatewayIds
    <2> HIDE DEF t
    <2> QED
      BY <1>1, <1>4, <2>1, <2>2, ConfirmMirrors, SaveMirrors, SameMirrors
  <1>8. ASSUME NEW i \in DOMAIN sub.charges, RestartCardPayment(i)
        PROVE  MirrorFollowsDocument'
    <2> DEFINE id == sub.charges[i].link
               t  == [sub EXCEPT !.charges[i].abandoned = @ \cup {id}, !.charges[i].link = NoId]
    <2>1. /\ IsNextPending(sub.charges, i) /\ id # NoId
          /\ ConfirmCharge(sub, i) \/ (Save(t) /\ UNCHANGED user)
      BY <1>8 DEF RestartCardPayment
    <2>2. DocInv(sub) /\ id \in GatewayIds
      BY <1>4, <2>1, DocTypes DEF Charge
    <2>3. Rewritten(sub, t)
      BY <2>1, <2>2, LinkForms
    <2> HIDE DEF t
    <2> QED
      BY <1>1, <1>4, <2>1, <2>3, ConfirmMirrors, SaveMirrors
  <1>9. ASSUME NEW i \in DOMAIN sub.charges, RefreshCardPayment(i) \/ MockPay(i)
        PROVE  MirrorFollowsDocument'
    BY <1>1, <1>4, <1>9, ConfirmMirrors DEF RefreshCardPayment, MockPay
  <1>10. ASSUME NEW method \in Methods, ChangePaymentMethod(method)
         PROVE  MirrorFollowsDocument'
    <2>1. DocInv(sub)
      BY <1>10, HasDocument DEF ChangePaymentMethod
    <2> QED
      BY <1>1, <1>2, <1>10, <2>1, ChangeMethodMirrors
  <1>11. ASSUME CancelSubscription
         PROVE  MirrorFollowsDocument'
    <2> DEFINE t == [sub EXCEPT !.status = "CANCELLED", !.preId = NoId,
                                !.accessUntil = PaidAccessUntil(sub), !.charges = KeepPaid(@)]
    <2>1. SaveAndSync(t) /\ DocInv(sub)
      BY <1>11, HasDocument DEF CancelSubscription
    <2>2. HasMirrored(t)
      BY <2>1, MirroredFields DEF HasMirrored
    <2> HIDE DEF t
    <2> QED
      BY <1>1, <2>1, <2>2, SyncMirrors
  <1>12. ASSUME NEW plan, NEW method, NEW coupon, AcceptanceWithoutPlan(plan, method)
         PROVE  MirrorFollowsDocument'
    BY <1>12, StopKeepsAll, SameMirrors
  <1> QED
    BY <1>3, <1>5, <1>6, <1>7, <1>8, <1>9, <1>10, <1>11, <1>12 DEF StudentRequest

LEMMA NotificationMirrors ==
    ASSUME IInv, MirrorFollowsDocument, "sync" \notin Faults, Notification
    PROVE  MirrorFollowsDocument'
PROOF
  <1>1. Mirrored' => MirrorFollowsDocument'
    BY DEF Mirrored, MirrorFollowsDocument
  <1>2. DocInv(sub) => HasMirrored(sub)
    BY MirroredFields
  <1>3. ASSUME NEW o \in OrderIds, NEW i \in DOMAIN sub.charges, OrderUpdated(o, i)
        PROVE  MirrorFollowsDocument'
    BY <1>1, <1>2, <1>3, HasDocument, ConfirmMirrors DEF OrderUpdated
  <1>4. ASSUME NEW p \in PreapprovalIds, NEW c, NEW i \in DOMAIN sub.charges,
               CycleCredited(p, c, i)
        PROVE  MirrorFollowsDocument'
    <2> DEFINE s == Confirm(sub, i)
    <2>1. /\ user' = Mirror(s)
          /\ \E n : Save(s) \/ Save([s EXCEPT !.installment = n])
      BY <1>4 DEF CycleCredited, SyncUser, SyncRecurringAmount
    <2>2. HasMirrored(s)
      BY <1>2, HasDocument, MirroredFields
    <2> HIDE DEF s
    <2>3. \A n : /\ HasMirrored([s EXCEPT !.installment = n])
                 /\ Mirror([s EXCEPT !.installment = n]) = Mirror(s)
      BY <2>2 DEF HasMirrored, Mirror
    <2> QED
      BY <1>1, <2>1, <2>2, <2>3, MirroredFields DEF Save, Mirrored
  <1>5. ASSUME NEW p \in PreapprovalIds, sub.preId = p
        PROVE  HasMirrored(sub)
    BY <1>2, <1>5, HasDocument, GatewayIdAssumption
  <1>6. ASSUME NEW p \in PreapprovalIds, NEW c, CycleNotCredited(p, c)
        PROVE  MirrorFollowsDocument'
    <2> DEFINE t == [sub EXCEPT !.status = "PAST_DUE"]
    <2>1. SaveAndSync(t) /\ HasMirrored(t)
      BY <1>5, <1>6 DEF CycleNotCredited, HasMirrored
    <2> HIDE DEF t
    <2> QED
      BY <1>1, <2>1, SyncMirrors
  <1>7. ASSUME NEW p \in PreapprovalIds, PreapprovalCancelled(p)
        PROVE  MirrorFollowsDocument'
    <2> DEFINE t == [sub EXCEPT !.status = "CANCELLED", !.preId = NoId, !.charges = KeepPaid(@)]
    <2>1. SaveAndSync(t) /\ HasMirrored(t)
      BY <1>5, <1>7 DEF PreapprovalCancelled, HasMirrored
    <2> HIDE DEF t
    <2> QED
      BY <1>1, <2>1, SyncMirrors
  <1>8. ASSUME NEW p \in PreapprovalIds, NEW c, CycleUnmatched(p, c)
        PROVE  MirrorFollowsDocument'
    BY <1>8, SameMirrors DEF CycleUnmatched
  <1> QED
    BY <1>3, <1>4, <1>6, <1>7, <1>8 DEF Notification

\* While its writes do not fail, the mirror the guards read follows every
\* write of the document, whichever handler made it (syncUser).
THEOREM MirrorIsCurrent ==
    ASSUME "sync" \notin Faults
    PROVE  Spec => []MirrorFollowsDocument
PROOF
  <1>1. Init => MirrorFollowsDocument
    BY NoSubscriptionFacts DEF Init, MirrorFollowsDocument, Contracted
  <1>2. IInv /\ MirrorFollowsDocument /\ [Next]_vars => MirrorFollowsDocument'
    <2> SUFFICES ASSUME IInv, MirrorFollowsDocument, [Next]_vars
                 PROVE  MirrorFollowsDocument'
      OBVIOUS
    <2>1. CASE Environment
      BY <2>1, SameMirrors DEF Environment, DecideOrder, OpenCycle, AttemptCycle,
                               GatewayCancels, MonthPasses
    <2>2. CASE UNCHANGED vars
      BY <2>2, SameMirrors DEF vars
    <2> QED
      BY <2>1, <2>2, RequestMirrors, NotificationMirrors DEF Next
  <1> QED
    BY <1>1, <1>2, Invariance, PTL DEF Spec

-----------------------------------------------------------------------------
(* What the gateway debits by itself *)

\* No call that creates, ends or changes a preapproval fails, and nothing is
\* paid outside the gateway.
GatewayObeys == {"lost", "release", "update"} \cap Faults = {} /\ ~ DevMode

\* What the gateway should charge next.
NextAmount(s) == AmountFor(s.plan, s.coupon, s.paid + 1)

\* The strengthening of GatewayFollowsDocument.  syncRecurringAmount compares
\* the next charge with the document's installmentAmount, not with what the
\* gateway has: that is the amount of an earlier charge, or of the next one,
\* and a coupon ends only once.  No order can pay a plan under a preapproval.
GatewayInv ==
    /\ \A p \in PreapprovalIds :
          /\ preapprovals[p].contract <= Contract
          /\ preapprovals[p].state = "AUTHORIZED" /\ sub.preId = p =>
                preapprovals[p].amount = NextAmount(sub)
    /\ PreapprovalIsLinked
    /\ sub.preId # NoId =>
          \A i \in PendingCharges(sub.charges) : sub.charges[i].link \notin OrderIds
    /\ Contracted =>
          \E k \in 1 .. (sub.paid + 1) : sub.installment = AmountFor(sub.plan, sub.coupon, k)

\* A document keeps what its amounts are computed from, and pays forward.
SameTerms(s, t) ==
    /\ t.plan = s.plan /\ t.coupon = s.coupon /\ t.installment = s.installment
    /\ s.paid <= t.paid

SameLink(s, t) == t.preId = s.preId /\ t.paid = s.paid

\* A preapproval does not move, or ends.
Standing(p) ==
    /\ preapprovals'[p].contract = preapprovals[p].contract
    /\ preapprovals'[p].amount = preapprovals[p].amount
    /\ preapprovals'[p].state \in {preapprovals[p].state, "CANCELLED"}

\* The kinds of step.
Starts ==
    /\ Contract' = Contract + 1
    /\ UNCHANGED preapprovals
    /\ sub'.preId = NoId /\ sub'.paid \in Nat
    /\ sub'.installment = AmountFor(sub'.plan, sub'.coupon, 1)

Links(p) ==
    /\ Contract' = Contract
    /\ sub.preId = NoId /\ sub'.preId = p /\ sub'.paid = sub.paid /\ SameTerms(sub, sub')
    /\ preapprovals'[p].contract = Contract /\ preapprovals'[p].amount = NextAmount(sub)
    /\ \A q \in PreapprovalIds \ {p} : preapprovals'[q] = preapprovals[q]
    /\ \A i \in PendingCharges(sub'.charges) : sub'.charges[i].link \notin OrderIds
    /\ sub.status # "NONE"

Unlinks ==
    /\ Contract' = Contract
    /\ \A p \in PreapprovalIds : Standing(p)
    /\ sub'.preId = NoId /\ SameTerms(sub, sub') /\ sub.paid \in Nat /\ sub'.paid \in Nat
    /\ sub.preId # NoId => preapprovals'[sub.preId].state # "AUTHORIZED"
    /\ sub.status = "NONE" => sub'.status = "NONE"

Holds ==
    /\ Contract' = Contract
    /\ \A p \in PreapprovalIds : Standing(p)
    /\ SameLink(sub, sub') /\ SameTerms(sub, sub') /\ sub.status # "NONE"
    /\ \A i \in PendingCharges(sub'.charges) : sub'.charges[i].link \notin OrderIds

Renews(p) ==
    /\ Contract' = Contract
    /\ sub.preId = p /\ sub'.preId = p /\ NoneLinked(sub'.charges)
    /\ \A q \in PreapprovalIds :
          preapprovals'[q].contract = preapprovals[q].contract
          /\ preapprovals'[q].state = preapprovals[q].state
    /\ preapprovals[p].state = "AUTHORIZED" => preapprovals'[p].amount = NextAmount(sub')
    /\ \E k \in 1 .. (sub'.paid + 1) : sub'.installment = AmountFor(sub'.plan, sub'.coupon, k)

GatewayMoves ==
    \/ Starts \/ Unlinks \/ Holds
    \/ \E p \in PreapprovalIds : Links(p) \/ Renews(p)

LEMMA GatewayMovesKeep ==
    ASSUME WorldOK, GatewayInv, GatewayMoves
    PROVE  GatewayInv'
PROOF
  <1>1. Contract \in Nat /\ \A p \in PreapprovalIds : preapprovals[p].contract \in Nat
    BY WorldParts DEF PreapprovalsOK, Preapprovals
  <1>2. CASE Starts
    <2>1. \A p \in PreapprovalIds :
             preapprovals[p].contract <= Contract
      BY DEF GatewayInv
    <2>2. \A p \in PreapprovalIds :
             preapprovals[p].contract <= Contract' /\ preapprovals[p].contract # Contract'
      BY <1>1, <1>2, <2>1 DEF Starts
    <2>3. \A p \in PreapprovalIds : sub'.preId # p
      BY <1>2, GatewayIdAssumption DEF Starts
    <2> QED
      BY <1>2, <2>2, <2>3 DEF Starts, GatewayInv, PreapprovalIsLinked
  <1>3. ASSUME NEW p \in PreapprovalIds, Links(p)
        PROVE  GatewayInv'
    <2>1. \A q \in PreapprovalIds : preapprovals[q].state = "AUTHORIZED" => preapprovals[q].contract # Contract
      BY <1>3, GatewayIdAssumption DEF GatewayInv, PreapprovalIsLinked, Links
    <2>2. NextAmount(sub') = NextAmount(sub)
      BY <1>3 DEF Links, SameTerms, NextAmount
    <2>3. \E k \in 1 .. (sub'.paid + 1) : sub'.installment = AmountFor(sub'.plan, sub'.coupon, k)
      BY <1>3 DEF Links, SameTerms, GatewayInv, Contracted
    <2> QED
      BY <1>1, <1>3, <2>1, <2>2, <2>3 DEF Links, GatewayInv, PreapprovalIsLinked
  <1>4. CASE Unlinks
    <2>1. \A p \in PreapprovalIds : sub'.preId # p
      BY <1>4, GatewayIdAssumption DEF Unlinks
    <2>2. \A p \in PreapprovalIds :
             preapprovals'[p].state = "AUTHORIZED" => preapprovals'[p].contract # Contract'
      BY <1>4, GatewayIdAssumption DEF Unlinks, Standing, GatewayInv, PreapprovalIsLinked
    <2>3. Contracted' => \E k \in 1 .. (sub'.paid + 1) :
                            sub'.installment = AmountFor(sub'.plan, sub'.coupon, k)
      <3> SUFFICES ASSUME Contracted'
                   PROVE  \E k \in 1 .. (sub'.paid + 1) :
                             sub'.installment = AmountFor(sub'.plan, sub'.coupon, k)
        OBVIOUS
      <3>1. PICK k \in 1 .. (sub.paid + 1) : sub.installment = AmountFor(sub.plan, sub.coupon, k)
        BY <1>4 DEF Unlinks, Contracted, GatewayInv
      <3>2. k \in 1 .. (sub'.paid + 1)
        BY <1>4 DEF Unlinks, SameTerms
      <3> QED
        BY <1>4, <3>1, <3>2 DEF Unlinks, SameTerms
    <2> QED
      BY <1>4, <2>1, <2>2, <2>3 DEF Unlinks, Standing, GatewayInv, PreapprovalIsLinked
  <1>5. CASE Holds
    <2>1. NextAmount(sub') = NextAmount(sub)
      BY <1>5 DEF Holds, SameLink, SameTerms, NextAmount
    <2>2. \E k \in 1 .. (sub'.paid + 1) : sub'.installment = AmountFor(sub'.plan, sub'.coupon, k)
      BY <1>5 DEF Holds, SameLink, SameTerms, GatewayInv, Contracted
    <2> QED
      BY <1>5, <2>1, <2>2 DEF Holds, SameLink, Standing, GatewayInv, PreapprovalIsLinked
  <1>6. ASSUME NEW p \in PreapprovalIds, Renews(p)
        PROVE  GatewayInv'
    <2>1. \A i \in PendingCharges(sub'.charges) : sub'.charges[i].link \notin OrderIds
      BY <1>6, GatewayIdAssumption DEF Renews, NoneLinked
    <2> QED
      BY <1>6, <2>1 DEF Renews, GatewayInv, PreapprovalIsLinked
  <1> QED
    BY <1>2, <1>3, <1>4, <1>5, <1>6 DEF GatewayMoves

-----------------------------------------------------------------------------
(* Every step is of one of those kinds *)

\* What a save leaves of the links and the amounts.
LEMMA PlainKeeps ==
    ASSUME NEW s, DocInv(s)
    PROVE  /\ SameTerms(s, ToPlain(s)) /\ SameLink(s, ToPlain(s))
           /\ ToPlain(s).status = s.status
           /\ PendingCharges(ToPlain(s).charges) = PendingCharges(s.charges)
           /\ \A i \in DOMAIN s.charges : ToPlain(s).charges[i].link = s.charges[i].link
PROOF
  <1> DEFINE t == ToPlain(s)
  <1>1. /\ t.plan = s.plan /\ t.coupon = s.coupon /\ t.paid = s.paid /\ t.status = s.status
        /\ PendingCharges(t.charges) = PendingCharges(s.charges)
    BY ToPlainType DEF DocInv
  <1>2. s \in Documents(s.charges) /\ s.paid \in Nat /\ s.charges \in [DOMAIN s.charges -> Charge]
    BY DocTypes DEF DocInv, DocumentOK
  <1>3. /\ t.preId = s.preId /\ t.installment = s.installment
        /\ t.charges = [i \in DOMAIN s.charges |-> [s.charges[i] EXCEPT !.abandoned = {}]]
    BY <1>2 DEF ToPlain, Documents
  <1>4. \A i \in DOMAIN s.charges : t.charges[i].link = s.charges[i].link
    BY <1>2, <1>3 DEF Charge
  <1> QED
    BY <1>1, <1>2, <1>3, <1>4 DEF SameTerms, SameLink

\* What writing on the next open charge leaves of them.
WithLink(s, t, pre) == SameTerms(s, t) /\ t.preId = pre

LEMMA LinkKeeps ==
    ASSUME NEW s, DocInv(s), NEW i \in DOMAIN s.charges, NEW id, NEW pre, NEW method, NEW ids
    PROVE  /\ WithLink(s, [s EXCEPT !.charges[i].link = id], s.preId)
           /\ WithLink(s, [s EXCEPT !.charges[i].link = id, !.preId = pre], pre)
           /\ WithLink(s, [s EXCEPT !.charges[i].abandoned = ids, !.charges[i].link = id], s.preId)
           /\ WithLink(s, [s EXCEPT !.method = method, !.preId = NoId, !.charges[i].link = NoId], NoId)
PROOF
  <1>1. s \in Documents(s.charges) /\ s.paid \in Nat
    BY DocTypes DEF DocInv, DocumentOK
  <1> QED
    BY <1>1 DEF Documents, SameTerms, WithLink

\* A document without a preapproval that is saved, or confirmed, without one.
LEMMA SavesUnlinked ==
    ASSUME DocInv(sub), acceptances' = acceptances, \A p \in PreapprovalIds : Standing(p),
           sub.preId # NoId => preapprovals'[sub.preId].state # "AUTHORIZED",
           NEW t, DocInv(t), SameTerms(sub, t), t.preId = NoId, Save(t)
    PROVE  Unlinks
PROOF
  <1>1. /\ SameTerms(t, sub') /\ sub'.preId = NoId
    BY PlainKeeps DEF Save, SameLink
  <1>2. sub.paid \in Nat /\ t.paid \in Nat /\ sub.status # "NONE" /\ sub'.paid = t.paid
    BY DocTypes, PlainKeeps DEF DocInv, Save, SameLink
  <1> QED
    BY <1>1, <1>2 DEF Unlinks, SameTerms, Contract

LEMMA ConfirmTerms ==
    ASSUME NEW s, DocInv(s), NEW i \in PendingCharges(s.charges),
           IsRecurring(s.plan) => IsNextPending(s.charges, i), WithinBound(Confirm(s, i))
    PROVE  DocInv(Confirm(s, i)) /\ SameTerms(s, Confirm(s, i)) /\ Confirm(s, i).preId = s.preId
PROOF
  <1> DEFINE t == Confirm(s, i)
  <1>1. Continues(s, t) /\ Pays(s, t, i)
    BY ConfirmStep
  <1>2. s.paid \in Nat /\ s.plan \in Plans
    BY DocTypes
  <1>3. Installments[s.plan] \in Nat
    BY <1>2, CatalogueAssumption
  <1> HIDE DEF t
  <1>4. s.paid <= t.paid
    BY <1>1, <1>2, <1>3 DEF Continues, Paying, Suspending, Ending
  <1> QED
    BY <1>1, <1>4 DEF Continues, Pays, SameTerms, t

LEMMA ConfirmsUnlinked ==
    ASSUME DocInv(sub), acceptances' = acceptances, \A p \in PreapprovalIds : Standing(p),
           sub.preId # NoId => preapprovals'[sub.preId].state # "AUTHORIZED",
           NEW s, DocInv(s), SameTerms(sub, s), s.preId = NoId,
           NEW i \in PendingCharges(s.charges),
           IsRecurring(s.plan) => IsNextPending(s.charges, i), ConfirmCharge(s, i)
    PROVE  Unlinks
PROOF
  <1> DEFINE t == Confirm(s, i)
  <1>1. DocInv(t) /\ SameTerms(s, t) /\ t.preId = NoId /\ Save(t)
    BY ConfirmTerms DEF ConfirmCharge, SaveAndSync
  <1> HIDE DEF t
  <1>2. SameTerms(sub, t)
    BY <1>1, DocTypes DEF SameTerms
  <1> QED
    BY <1>1, <1>2, SavesUnlinked

\* Releasing a preapproval ends the one the document links.
LEMMA ReleaseEnds ==
    ASSUME GatewayObeys, PreapprovalsOK(preapprovals), DocInv(sub), ReleasePreapproval(sub)
    PROVE  /\ \A p \in PreapprovalIds : Standing(p)
           /\ sub.preId # NoId => preapprovals'[sub.preId].state # "AUTHORIZED"
PROOF
  <1>1. sub.preId \in PreapprovalIds \cup {NoId}
    BY DocTypes
  <1>2. CASE sub.preId = NoId
    BY <1>2 DEF ReleasePreapproval, Standing
  <1>3. CASE sub.preId # NoId
    <2>1. preapprovals' = [preapprovals EXCEPT ![sub.preId].state = "CANCELLED"]
      BY <1>3 DEF ReleasePreapproval, GatewayObeys, EndPreapproval
    <2>2. preapprovals[sub.preId] \in Preapprovals
      BY <1>1, <1>3 DEF PreapprovalsOK
    <2>3. /\ preapprovals'[sub.preId] = [preapprovals[sub.preId] EXCEPT !.state = "CANCELLED"]
          /\ \A p \in PreapprovalIds \ {sub.preId} : preapprovals'[p] = preapprovals[p]
      BY <1>1, <1>3, <2>1 DEF PreapprovalsOK
    <2> QED
      BY <2>2, <2>3 DEF Preapprovals, Standing
  <1> QED
    BY <1>2, <1>3

\* Nothing is written: the document stays linked, or unlinked, as it was.
LEMMA SameHolds ==
    ASSUME IInv, GatewayInv, acceptances' = acceptances,
           \A p \in PreapprovalIds : Standing(p), sub' = sub
    PROVE  GatewayMoves
PROOF
  <1>1. sub.paid \in Nat /\ SameTerms(sub, sub') /\ Contract' = Contract
    BY NoSubscriptionFacts, DocTypes DEF IInv, SameTerms, Contract
  <1>2. CASE sub.preId = NoId
    BY <1>1, <1>2 DEF Unlinks, GatewayMoves
  <1>3. CASE sub.preId # NoId
    <2>1. sub.status # "NONE"
      BY <1>3, HasDocument DEF DocInv
    <2> QED
      BY <1>1, <1>3, <2>1 DEF Holds, SameLink, GatewayInv, GatewayMoves
  <1> QED
    BY <1>2, <1>3
LEMMA IssueTerms ==
    ASSUME NEW s, DocInv(s), NEW i, IsNextPending(s.charges, i), NEW contract,
           IssueCharge(s, i, contract)
    PROVE  \E t : DocInv(t) /\ SameTerms(s, t) /\ t.preId = s.preId /\ Save(t)
PROOF
  <1>1. i \in DOMAIN s.charges /\ s.paid \in Nat
    BY DocTypes DEF IsNextPending, PendingCharges
  <1>2. CASE Save(s)
    BY <1>1, <1>2 DEF SameTerms
  <1>3. CASE \E o \in OrderIds : Save([s EXCEPT !.charges[i].link = o])
    <2>1. PICK o \in OrderIds : Save([s EXCEPT !.charges[i].link = o])
      BY <1>3
    <2> DEFINE t == [s EXCEPT !.charges[i].link = o]
    <2>2. DocInv(t)
      BY LinkForms DEF GatewayIds, Rewritten
    <2>3. WithLink(s, t, s.preId)
      BY <1>1, LinkKeeps
    <2> QED
      BY <2>1, <2>2, <2>3 DEF WithLink
  <1> QED
    BY <1>2, <1>3 DEF IssueCharge

LEMMA ChoosePlanMoves ==
    ASSUME IInv, NEW plan \in Plans, NEW method \in Methods, NEW coupon \in Coupons,
           ChoosePlan(plan, method, coupon)
    PROVE  Starts
PROOF
  <1> DEFINE s == BuildSubscription(plan, method, coupon, now)
  <1>1. DocInv(s) /\ IsNextPending(s.charges, 1)
    BY WorldParts, BuildInv DEF IInv
  <1>2. s.preId = NoId /\ s.plan = plan /\ s.coupon = coupon /\ s.installment = AmountFor(plan, coupon, 1)
    BY DEF BuildSubscription
  <1>3. IssueCharge(s, 1, Contract + 1) \/ ConfirmZeroCharge(s, 1)
    BY DEF ChoosePlan
  <1>4. Contract' = Contract + 1 /\ UNCHANGED preapprovals
    BY WorldParts DEF IInv, ChoosePlan, Contract
  <1> HIDE DEF s
  <1>5. \E t : DocInv(t) /\ SameTerms(s, t) /\ t.preId = NoId /\ Save(t)
    <2>1. CASE IssueCharge(s, 1, Contract + 1)
      BY <1>1, <1>2, <2>1, IssueTerms
    <2>2. CASE ConfirmZeroCharge(s, 1)
      <3>1. ConfirmCharge(s, 1) /\ 1 \in PendingCharges(s.charges)
        BY <1>1, <2>2 DEF ConfirmZeroCharge, IsNextPending
      <3> QED
        BY <1>1, <1>2, <3>1, ConfirmTerms DEF ConfirmCharge, SaveAndSync
    <2> QED
      BY <1>3, <2>1, <2>2
  <1>6. SameTerms(s, sub') /\ sub'.preId = NoId /\ sub'.paid \in Nat
    <2>1. PICK t : DocInv(t) /\ SameTerms(s, t) /\ t.preId = NoId /\ Save(t)
      BY <1>5
    <2>2. SameTerms(t, sub') /\ sub'.preId = NoId /\ sub'.paid = t.paid
      BY <2>1, PlainKeeps DEF Save, SameLink
    <2>3. t.paid \in Nat /\ s.paid \in Nat
      BY <1>1, <2>1, DocTypes
    <2> QED
      BY <2>1, <2>2, <2>3 DEF SameTerms
  <1> QED
    BY <1>2, <1>4, <1>6 DEF Starts, SameTerms

LEMMA PayRecurringMoves ==
    ASSUME IInv, GatewayObeys, NEW i, NEW p \in PreapprovalIds, PayRecurring(i, p)
    PROVE  Links(p)
PROOF
  <1> DEFINE t == [sub EXCEPT !.charges[i].link = p, !.preId = p]
             new == Authorized(sub.charges[i].amount, Contract)
  <1>1. /\ IsNextPending(sub.charges, i) /\ IsRecurring(sub.plan) /\ sub.preId = NoId
        /\ preapprovals' = [preapprovals EXCEPT ![p] = new]
        /\ Save(t) /\ acceptances' = acceptances
    BY DEF PayRecurring, CardContract, GatewayObeys
  <1>2. DocInv(sub) /\ i \in DOMAIN sub.charges /\ i \in PendingCharges(sub.charges)
    BY <1>1, NextPendingHas
  <1>3. Rewritten(sub, t)
    BY <1>1, <1>2, LinkForms
  <1>4. /\ SameTerms(sub, t) /\ t.preId = p /\ t.charges[i].link = p
        /\ \A j \in DOMAIN sub.charges \ {i} : t.charges[j] = sub.charges[j]
    <2>1. WithLink(sub, t, p)
      BY <1>2, LinkKeeps
    <2> QED
      BY <1>2, <2>1, DocTypes DEF WithLink, DocInv, DocumentOK, Documents, Charge
  <1> HIDE DEF t
  <1>5. DocInv(t) /\ t.paid = sub.paid /\ PendingCharges(t.charges) = PendingCharges(sub.charges)
    BY <1>3 DEF Rewritten
  <1>6. /\ SameTerms(t, sub') /\ SameLink(t, sub')
        /\ PendingCharges(sub'.charges) = PendingCharges(t.charges)
        /\ \A j \in DOMAIN t.charges : sub'.charges[j].link = t.charges[j].link
    BY <1>1, <1>5, PlainKeeps DEF Save
  <1>7. ASSUME NEW j \in PendingCharges(sub'.charges)
        PROVE  sub'.charges[j].link \notin OrderIds
    <2>1. j \in PendingCharges(sub.charges) /\ j \in DOMAIN sub.charges /\ j \in DOMAIN t.charges
      BY <1>5, <1>6 DEF PendingCharges
    <2>2. CASE j = i
      BY <1>4, <1>6, <2>1, <2>2, GatewayIdAssumption
    <2>3. CASE j # i
      <3>1. ~ IsNextPending(sub.charges, j)
        BY <1>1, <1>2, <2>1, <2>3, DocTypes DEF IsNextPending
      <3>2. sub.charges[j].link = NoId
        BY <1>1, <1>2, <2>1, <3>1 DEF DocInv, OnlyNextIsLinked
      <3> QED
        BY <1>4, <1>6, <2>1, <2>3, <3>2, GatewayIdAssumption
    <2> QED
      BY <2>2, <2>3
  <1>8. sub.charges[i].amount = NextAmount(sub)
    <2>1. Window(sub.charges, sub.paid) /\ sub.paid \in Nat
      BY <1>1, <1>2, DocTypes DEF DocInv, HasFullWindow, Window, PendingCharges
    <2>2. i = sub.paid + 1
      BY <1>1, <2>1, NextInWindow
    <2> QED
      BY <1>2, <2>2 DEF DocInv, Priced, NextAmount
  <1>9. /\ preapprovals'[p].contract = Contract /\ preapprovals'[p].amount = NextAmount(sub)
        /\ \A q \in PreapprovalIds \ {p} : preapprovals'[q] = preapprovals[q]
    <2>1. new.contract = Contract /\ new.amount = NextAmount(sub)
      BY <1>8 DEF Authorized
    <2>2. PreapprovalsOK(preapprovals)
      BY WorldParts DEF IInv
    <2> HIDE DEF new
    <2> QED
      BY <1>1, <2>1, <2>2 DEF PreapprovalsOK
  <1>10. SameTerms(sub, sub') /\ sub'.preId = p /\ sub'.paid = sub.paid
    BY <1>2, <1>4, <1>5, <1>6, DocTypes DEF SameTerms, SameLink
  <1> QED
    BY <1>1, <1>2, <1>7, <1>9, <1>10 DEF Links, Contract, DocInv

\* A charge that an order paid is not of a plan under a preapproval.
LEMMA OrdersPayUnlinked ==
    ASSUME IInv, GatewayInv, UNCHANGED <<acceptances, preapprovals>>,
           NEW i \in PendingCharges(sub.charges), OrderPaid(sub.charges[i].link),
           IsRecurring(sub.plan) => IsNextPending(sub.charges, i), ConfirmCharge(sub, i)
    PROVE  GatewayMoves
PROOF
  <1>1. DocInv(sub)
    BY HasDocument DEF PendingCharges
  <1>2. sub.preId = NoId
    BY DEF GatewayInv, OrderPaid
  <1>3. SameTerms(sub, sub) /\ \A p \in PreapprovalIds : Standing(p)
    BY <1>1, DocTypes DEF SameTerms, Standing
  <1>4. Unlinks
    BY <1>1, <1>2, <1>3, ConfirmsUnlinked
  <1> QED
    BY <1>4 DEF GatewayMoves

\* A plan sold for a period has no preapproval, whatever is paid or saved.
LEMMA ClosedUnlinked ==
    ASSUME DocInv(sub), ~ IsRecurring(sub.plan), UNCHANGED <<acceptances, preapprovals>>,
           NEW i, IsNextPending(sub.charges, i), NEW o \in OrderIds,
           LET t == [sub EXCEPT !.charges[i].link = o] IN ConfirmCharge(t, i) \/ Save(t)
    PROVE  GatewayMoves
PROOF
  <1> DEFINE t == [sub EXCEPT !.charges[i].link = o]
  <1>1. sub.preId = NoId /\ i \in DOMAIN sub.charges
    BY DEF DocInv, IsNextPending, PendingCharges
  <1>2. Rewritten(sub, t) /\ IsNextPending(t.charges, i)
    BY LinkForms DEF GatewayIds
  <1>3. WithLink(sub, t, sub.preId)
    BY <1>1, LinkKeeps
  <1>4. ConfirmCharge(t, i) \/ Save(t)
    OBVIOUS
  <1> HIDE DEF t
  <1>5. \A p \in PreapprovalIds : Standing(p)
    BY DEF Standing
  <1>6. DocInv(t) /\ i \in PendingCharges(t.charges)
    BY <1>2 DEF Rewritten, IsNextPending
  <1>7. Unlinks
    BY <1>1, <1>2, <1>3, <1>4, <1>5, <1>6, SavesUnlinked, ConfirmsUnlinked DEF WithLink
  <1> QED
    BY <1>7 DEF GatewayMoves

LEMMA RestartMoves ==
    ASSUME IInv, GatewayInv, NEW i, RestartCardPayment(i)
    PROVE  GatewayMoves
PROOF
  <1> DEFINE id == sub.charges[i].link
             t == [sub EXCEPT !.charges[i].abandoned = @ \cup {id}, !.charges[i].link = NoId]
  <1>1. /\ IsNextPending(sub.charges, i) /\ id # NoId
        /\ UNCHANGED <<acceptances, preapprovals>>
        /\ \/ OrderPaid(id) /\ ConfirmCharge(sub, i)
           \/ Save(t)
    BY DEF RestartCardPayment, gateway
  <1>2. DocInv(sub) /\ i \in DOMAIN sub.charges /\ i \in PendingCharges(sub.charges)
    BY <1>1, NextPendingHas
  <1>3. CASE OrderPaid(id) /\ ConfirmCharge(sub, i)
    BY <1>1, <1>2, <1>3, OrdersPayUnlinked
  <1>4. CASE Save(t)
    <2>1. id \in GatewayIds
      BY <1>1, <1>2, DocTypes DEF Charge
    <2>2. Rewritten(sub, t)
      BY <1>1, <1>2, <2>1, LinkForms
    <2>3. /\ SameTerms(sub, t) /\ t.preId = sub.preId /\ t.charges[i].link = NoId
          /\ \A j \in DOMAIN sub.charges \ {i} : t.charges[j] = sub.charges[j]
      <3>1. WithLink(sub, t, sub.preId)
        BY <1>2, LinkKeeps
      <3> QED
        BY <1>2, <3>1, DocTypes DEF WithLink, DocInv, DocumentOK, Documents, Charge
    <2> HIDE DEF t
    <2>4. /\ DocInv(t) /\ t.paid = sub.paid
          /\ PendingCharges(t.charges) = PendingCharges(sub.charges)
          /\ \A p \in PreapprovalIds : Standing(p)
      BY <1>1, <2>2 DEF Rewritten, Standing
    <2>5. CASE sub.preId = NoId
      <3>1. Unlinks
        BY <1>1, <1>2, <1>4, <2>3, <2>4, <2>5, SavesUnlinked
      <3> QED
        BY <3>1 DEF GatewayMoves
    <2>6. CASE sub.preId # NoId
      <3>1. /\ SameTerms(t, sub') /\ SameLink(t, sub')
            /\ PendingCharges(sub'.charges) = PendingCharges(t.charges)
            /\ \A j \in DOMAIN t.charges : sub'.charges[j].link = t.charges[j].link
        BY <1>4, <2>4, PlainKeeps DEF Save
      <3>2. ASSUME NEW j \in PendingCharges(sub'.charges)
            PROVE  sub'.charges[j].link \notin OrderIds
        <4>1. j \in PendingCharges(sub.charges) /\ j \in DOMAIN sub.charges /\ j \in DOMAIN t.charges
          BY <2>4, <3>1 DEF PendingCharges
        <4>2. sub.charges[j].link \notin OrderIds
          BY <2>6, <4>1 DEF GatewayInv
        <4> QED
          BY <2>3, <3>1, <4>1, <4>2, GatewayIdAssumption
      <3>3. SameTerms(sub, sub') /\ SameLink(sub, sub') /\ sub.status # "NONE"
        BY <1>2, <2>3, <2>4, <3>1, DocTypes DEF SameTerms, SameLink, DocInv
      <3> QED
        BY <1>1, <2>4, <3>2, <3>3 DEF Holds, GatewayMoves, Contract
    <2> QED
      BY <2>5, <2>6
  <1> QED
    BY <1>1, <1>3, <1>4

LEMMA ChangeMethodMoves ==
    ASSUME IInv, GatewayObeys, NEW method \in Methods, ChangePaymentMethod(method)
    PROVE  GatewayMoves
PROOF
  <1> DEFINE t(i) == [sub EXCEPT !.method = method, !.preId = NoId, !.charges[i].link = NoId]
  <1>1. ReleasePreapproval(sub) /\ acceptances' = acceptances
    BY DEF ChangePaymentMethod
  <1>2. PICK i \in DOMAIN sub.charges :
          /\ IsNextPending(sub.charges, i)
          /\ IssueCharge(t(i), i, Contract) \/ ConfirmZeroCharge(t(i), i)
    BY DEF ChangePaymentMethod
  <1>3. DocInv(sub) /\ PreapprovalsOK(preapprovals)
    BY <1>2, NextPendingHas, WorldParts DEF IInv
  <1>4. Rewritten(sub, t(i)) /\ IsNextPending(t(i).charges, i)
    BY <1>2, <1>3, LinkForms
  <1>5. WithLink(sub, t(i), NoId)
    BY <1>3, LinkKeeps
  <1> DEFINE s == t(i)
  <1>6. /\ DocInv(s) /\ SameTerms(sub, s) /\ s.preId = NoId /\ IsNextPending(s.charges, i)
        /\ i \in PendingCharges(s.charges)
        /\ IssueCharge(s, i, Contract) \/ ConfirmZeroCharge(s, i)
    BY <1>2, <1>4, <1>5 DEF Rewritten, IsNextPending, WithLink
  <1> HIDE DEF s, t
  <1>7. /\ \A p \in PreapprovalIds : Standing(p)
        /\ sub.preId # NoId => preapprovals'[sub.preId].state # "AUTHORIZED"
    BY <1>1, <1>3, ReleaseEnds
  <1>8. CASE IssueCharge(s, i, Contract)
    <2>1. PICK r : DocInv(r) /\ SameTerms(s, r) /\ r.preId = NoId /\ Save(r)
      BY <1>6, <1>8, IssueTerms
    <2>2. SameTerms(sub, r)
      BY <1>3, <1>6, <2>1, DocTypes DEF SameTerms
    <2>3. Unlinks
      BY <1>1, <1>3, <1>7, <2>1, <2>2, SavesUnlinked
    <2> QED
      BY <2>3 DEF GatewayMoves
  <1>9. CASE ConfirmZeroCharge(s, i)
    <2>1. Unlinks
      BY <1>1, <1>3, <1>6, <1>7, <1>9, ConfirmsUnlinked DEF ConfirmZeroCharge
    <2> QED
      BY <2>1 DEF GatewayMoves
  <1> QED
    BY <1>6, <1>8, <1>9

\* Ending a plan that renews, by the student or by the gateway.
LEMMA EndsUnlinked ==
    ASSUME DocInv(sub), IsRecurring(sub.plan), sub.status # "CANCELLED",
           acceptances' = acceptances, \A p \in PreapprovalIds : Standing(p),
           sub.preId # NoId => preapprovals'[sub.preId].state # "AUTHORIZED",
           NEW until, until = sub.accessUntil,
           Save([sub EXCEPT !.status = "CANCELLED", !.preId = NoId, !.accessUntil = until,
                            !.charges = KeepPaid(@)])
    PROVE  GatewayMoves
PROOF
  <1> DEFINE t == [sub EXCEPT !.status = "CANCELLED", !.preId = NoId, !.accessUntil = until,
                              !.charges = KeepPaid(@)]
  <1>1. DocInv(t)
    BY CancelStep DEF Continues
  <1>2. SameTerms(sub, t) /\ t.preId = NoId
    BY DocTypes DEF SameTerms, DocInv, DocumentOK, Documents
  <1> HIDE DEF t
  <1>3. Save(t)
    BY DEF t
  <1>4. Unlinks
    BY <1>1, <1>2, <1>3, SavesUnlinked
  <1> QED
    BY <1>4 DEF GatewayMoves

\* A coupon ends once: an amount between two equal ones is the same.
LEMMA CouponEndsOnce ==
    ASSUME NEW plan \in Plans, NEW coupon \in Coupons, NEW k \in Nat, NEW i \in Nat, NEW j \in Nat,
           k <= i, i <= j, AmountFor(plan, coupon, k) = AmountFor(plan, coupon, j)
    PROVE  AmountFor(plan, coupon, i) = AmountFor(plan, coupon, j)
PROOF
  <1>1. coupon.months \in Nat /\ coupon.discount \in Nat /\ Price[plan] \in Nat
    BY CatalogueAssumption
  <1>2. CASE coupon.months = Lifetime
    BY <1>2 DEF AmountFor
  <1>3. CASE coupon.months # Lifetime
    BY <1>1, <1>3 DEF AmountFor
  <1> QED
    BY <1>2, <1>3

\* What a credited cycle leaves of the preapprovals.
SameStanding(old, new) ==
    \A q \in PreapprovalIds : new[q].contract = old[q].contract /\ new[q].state = old[q].state

SameAmounts(old, new) == \A q \in PreapprovalIds : new[q].amount = old[q].amount

Repriced(old, new, p, n) == SameStanding(old, new) /\ new[p].amount = n

LEMMA DeliveredForms ==
    ASSUME PreapprovalsOK(preapprovals), NEW p \in PreapprovalIds,
           NEW c \in DOMAIN preapprovals[p].cycles
    PROVE  /\ SameStanding(preapprovals, [preapprovals EXCEPT ![p].cycles[c].delivered = TRUE])
           /\ SameAmounts(preapprovals, [preapprovals EXCEPT ![p].cycles[c].delivered = TRUE])
PROOF
  <1> DEFINE delivered == [preapprovals EXCEPT ![p].cycles[c].delivered = TRUE]
  <1>1. /\ \A q \in PreapprovalIds : preapprovals[q] \in Preapprovals
        /\ \A q \in PreapprovalIds \ {p} : delivered[q] = preapprovals[q]
        /\ delivered[p] = [preapprovals[p] EXCEPT !.cycles[c].delivered = TRUE]
    BY DEF PreapprovalsOK
  <1>2. /\ delivered[p].contract = preapprovals[p].contract
        /\ delivered[p].state = preapprovals[p].state
        /\ delivered[p].amount = preapprovals[p].amount
    BY <1>1 DEF Preapprovals
  <1> HIDE DEF delivered
  <1>3. SameStanding(preapprovals, delivered) /\ SameAmounts(preapprovals, delivered)
    BY <1>1, <1>2 DEF SameStanding, SameAmounts
  <1> QED
    BY <1>3 DEF delivered

LEMMA RepricedForms ==
    ASSUME NEW all, PreapprovalsOK(all), NEW p \in PreapprovalIds, NEW n
    PROVE  Repriced(all, [all EXCEPT ![p].amount = n], p, n)
PROOF
  <1>1. all[p] \in Preapprovals
    BY DEF PreapprovalsOK
  <1> QED
    BY <1>1 DEF PreapprovalsOK, Preapprovals, Repriced, SameStanding

LEMMA CycleCreditedMoves ==
    ASSUME IInv, GatewayInv, GatewayObeys, NEW p \in PreapprovalIds, NEW c, NEW i,
           CycleCredited(p, c, i)
    PROVE  Renews(p)
PROOF
  <1> DEFINE s == Confirm(sub, i)
             delivered == [preapprovals EXCEPT ![p].cycles[c].delivered = TRUE]
  <1>1. /\ c \in DOMAIN preapprovals[p].cycles /\ sub.preId = p
        /\ IsNextPending(sub.charges, i)
        /\ WithinBound(s) /\ SyncRecurringAmount(s, p, delivered)
        /\ acceptances' = acceptances
    BY DEF CycleCredited, IsCycle
  <1>2. DocInv(sub) /\ i \in PendingCharges(sub.charges) /\ PreapprovalsOK(preapprovals)
    BY <1>1, NextPendingHas, WorldParts DEF IInv
  <1>3. /\ Continues(sub, s) /\ s.status = "ACTIVE" /\ s.preId = p
        /\ s.installment = sub.installment /\ NoneLinked(s.charges)
    BY <1>1, <1>2, ConfirmStep DEF Pays
  <1>4. IsRecurring(sub.plan) /\ sub.paid \in Nat /\ sub.plan \in Plans /\ sub.coupon \in Coupons
    BY <1>1, <1>2, GatewayIdAssumption, DocTypes DEF DocInv
  <1>5. DocInv(s) /\ s.plan = sub.plan /\ s.coupon = sub.coupon
    BY <1>3 DEF Continues
  <1>6. s.paid = sub.paid + 1
    <2>1. Window(sub.charges, sub.paid)
      BY <1>1, <1>2, <1>4 DEF DocInv, HasFullWindow, Window, IsNextPending
    <2>2. i = sub.paid + 1
      BY <1>1, <1>4, <2>1, NextInWindow
    <2>3. PaidCharges(s.charges) = PaidCharges(sub.charges) \cup {i}
      BY <1>1, <1>2, <1>4, ConfirmStep DEF Pays
    <2>4. PaidCharges(s.charges) = 1 .. s.paid /\ s.paid \in Nat
      BY <1>4, <1>5, DocTypes DEF DocInv, HasFullWindow
    <2>5. sub.paid + 1 \in 1 .. s.paid /\ s.paid \in (1 .. sub.paid) \cup {sub.paid + 1}
      BY <1>4, <2>1, <2>2, <2>3, <2>4 DEF Window
    <2> QED
      BY <1>4, <2>4, <2>5
  <1> HIDE DEF s, delivered
  <1>7. PICK j \in DOMAIN s.charges :
          /\ IsNextPending(s.charges, j)
          /\ \/ /\ s.charges[j].amount = s.installment
                /\ Save(s) /\ preapprovals' = delivered
             \/ /\ preapprovals' = [delivered EXCEPT ![p].amount = s.charges[j].amount]
                /\ Save([s EXCEPT !.installment = s.charges[j].amount])
    BY <1>1 DEF SyncRecurringAmount, WithAmount, GatewayObeys
  <1>8. j = s.paid + 1 /\ s.charges[j].amount = NextAmount(s) /\ s.charges[j].amount \in Nat
    <2>1. Window(s.charges, s.paid) /\ s.paid \in Nat
      BY <1>3, <1>4, <1>5, DocTypes DEF DocInv, HasFullWindow, Window
    <2>2. j = s.paid + 1
      BY <1>7, <2>1, NextInWindow
    <2> QED
      BY <1>5, <2>2, DocTypes DEF DocInv, Priced, NextAmount, Charge
  <1> DEFINE changed == [delivered EXCEPT ![p].amount = s.charges[j].amount]
  <1>9. /\ SameStanding(preapprovals, delivered) /\ SameAmounts(preapprovals, delivered)
        /\ SameStanding(preapprovals, changed) /\ changed[p].amount = s.charges[j].amount
    <2>1. SameStanding(preapprovals, delivered) /\ SameAmounts(preapprovals, delivered)
      BY <1>1, <1>2, DeliveredForms DEF delivered
    <2>2. PreapprovalsOK(delivered)
      BY <1>1, <1>2, PreapprovalForms DEF delivered
    <2>3. Repriced(delivered, changed, p, s.charges[j].amount)
      BY <2>2, RepricedForms
    <2> QED
      BY <2>1, <2>3 DEF Repriced, SameStanding
  <1>10. CASE s.charges[j].amount = s.installment /\ Save(s) /\ preapprovals' = delivered
    <2>1. /\ SameTerms(s, sub') /\ SameLink(s, sub')
          /\ PendingCharges(sub'.charges) = PendingCharges(s.charges)
          /\ \A l \in DOMAIN s.charges : sub'.charges[l].link = s.charges[l].link
      BY <1>5, <1>10, PlainKeeps DEF Save
    <2>2. NoneLinked(sub'.charges)
      BY <1>3, <2>1 DEF NoneLinked, PendingCharges
    <2>3. PICK k \in 1 .. (sub.paid + 1) : sub.installment = AmountFor(sub.plan, sub.coupon, k)
      BY <1>2 DEF GatewayInv, Contracted, DocInv
    <2>4. AmountFor(sub.plan, sub.coupon, k) = AmountFor(sub.plan, sub.coupon, s.paid + 1)
      BY <1>3, <1>5, <1>8, <1>10, <2>3 DEF NextAmount
    <2>5. AmountFor(sub.plan, sub.coupon, sub.paid + 1) = AmountFor(sub.plan, sub.coupon, s.paid + 1)
      <3>1. k \in Nat /\ k <= sub.paid + 1 /\ sub.paid + 1 <= s.paid + 1
            /\ sub.paid + 1 \in Nat /\ s.paid + 1 \in Nat
        BY <1>4, <1>6, <2>3
      <3> QED
        BY <1>4, <2>4, <3>1, CouponEndsOnce
    <2>6. preapprovals[p].state = "AUTHORIZED" => preapprovals[p].amount = NextAmount(sub)
      BY <1>1 DEF GatewayInv
    <2>7. NextAmount(sub') = NextAmount(sub)
      BY <1>5, <2>1, <2>5 DEF SameTerms, SameLink, NextAmount
    <2>8. /\ k \in 1 .. (sub'.paid + 1)
          /\ sub'.installment = AmountFor(sub'.plan, sub'.coupon, k)
      BY <1>3, <1>4, <1>5, <1>6, <2>1, <2>3 DEF SameTerms, SameLink
    <2> QED
      BY <1>1, <1>3, <1>9, <1>10, <2>1, <2>2, <2>6, <2>7, <2>8
         DEF Renews, SameLink, Contract, SameStanding, SameAmounts
  <1>11. CASE /\ preapprovals' = [delivered EXCEPT ![p].amount = s.charges[j].amount]
              /\ Save([s EXCEPT !.installment = s.charges[j].amount])
    <2> DEFINE t == [s EXCEPT !.installment = s.charges[j].amount]
    <2>1. DocInv(t) /\ t.preId = s.preId /\ t.charges = s.charges /\ t.plan = s.plan
          /\ t.coupon = s.coupon /\ t.paid = s.paid /\ t.installment = s.charges[j].amount
      <3>1. DocInv(t)
        BY <1>5, <1>8, InstallmentForm DEF Rewritten
      <3> QED
        BY <1>5, <3>1 DEF DocInv, DocumentOK, Documents
    <2>2. Save(t)
      BY <1>11
    <2> HIDE DEF t
    <2>3. /\ SameTerms(t, sub') /\ SameLink(t, sub')
          /\ PendingCharges(sub'.charges) = PendingCharges(t.charges)
          /\ \A l \in DOMAIN t.charges : sub'.charges[l].link = t.charges[l].link
      BY <2>1, <2>2, PlainKeeps DEF Save
    <2>4. NoneLinked(sub'.charges)
      BY <1>3, <2>1, <2>3 DEF NoneLinked, PendingCharges
    <2>5. NextAmount(sub') = s.charges[j].amount /\ sub'.paid = s.paid
      BY <1>8, <2>1, <2>3 DEF SameTerms, SameLink, NextAmount
    <2>6. sub'.installment = AmountFor(sub'.plan, sub'.coupon, sub'.paid + 1)
      BY <2>1, <2>3, <2>5 DEF SameTerms, NextAmount
    <2>7. sub'.paid + 1 \in 1 .. (sub'.paid + 1)
      BY <1>4, <1>6, <2>5
    <2>8. sub'.preId = p
      BY <1>3, <2>1, <2>3 DEF SameLink
    <2> QED
      BY <1>1, <1>9, <1>11, <2>4, <2>5, <2>6, <2>7, <2>8 DEF Renews, Contract, SameStanding
  <1> QED
    BY <1>7, <1>10, <1>11

LEMMA GatewayRequestMoves ==
    ASSUME IInv, GatewayInv, GatewayObeys, StudentRequest
    PROVE  GatewayMoves
PROOF
  <1>1. ASSUME NEW plan \in Plans, NEW method \in Methods, NEW coupon \in Coupons,
               ChoosePlan(plan, method, coupon)
        PROVE  GatewayMoves
    BY <1>1, ChoosePlanMoves DEF GatewayMoves
  <1>2. ASSUME NEW i \in DOMAIN sub.charges, NEW p \in PreapprovalIds, PayRecurring(i, p)
        PROVE  GatewayMoves
    BY <1>2, PayRecurringMoves DEF GatewayMoves
  <1>3. ASSUME NEW i \in DOMAIN sub.charges, IsNextPending(sub.charges, i)
        PROVE  DocInv(sub) /\ i \in PendingCharges(sub.charges)
    BY <1>3, NextPendingHas
  <1>4. ASSUME NEW i \in DOMAIN sub.charges, ConfirmPaidCard(i)
        PROVE  GatewayMoves
    BY <1>3, <1>4, ClosedUnlinked DEF ConfirmPaidCard, CardContract, gateway, OrderPaid
  <1>5. ASSUME NEW i \in DOMAIN sub.charges, NEW o \in OrderIds,
               NEW outcome \in {"PENDING", "CHALLENGE", "PAID", "REJECTED"},
               PayClosed(i, o, outcome)
        PROVE  GatewayMoves
    BY <1>3, <1>5, ClosedUnlinked DEF PayClosed, CardContract, GatewayObeys
  <1>6. ASSUME NEW i \in DOMAIN sub.charges, RestartCardPayment(i)
        PROVE  GatewayMoves
    BY <1>6, RestartMoves
  <1>7. ASSUME NEW i \in DOMAIN sub.charges, RefreshCardPayment(i)
        PROVE  GatewayMoves
    BY <1>3, <1>7, OrdersPayUnlinked DEF RefreshCardPayment, gateway
  <1>8. ASSUME NEW method \in Methods, ChangePaymentMethod(method)
        PROVE  GatewayMoves
    BY <1>8, ChangeMethodMoves
  <1>9. ASSUME CancelSubscription
        PROVE  GatewayMoves
    <2>1. /\ sub.status \notin {"NONE", "CANCELLED"} /\ IsRecurring(sub.plan)
          /\ ReleasePreapproval(sub) /\ acceptances' = acceptances
          /\ Save([sub EXCEPT !.status = "CANCELLED", !.preId = NoId,
                              !.accessUntil = PaidAccessUntil(sub), !.charges = KeepPaid(@)])
      BY <1>9 DEF CancelSubscription, SaveAndSync
    <2>2. DocInv(sub) /\ PaidAccessUntil(sub) = sub.accessUntil /\ PreapprovalsOK(preapprovals)
      BY <2>1, HasDocument, WorldParts DEF IInv, DocInv, CountsWhatWasPaid
    <2>3. /\ \A p \in PreapprovalIds : Standing(p)
          /\ sub.preId # NoId => preapprovals'[sub.preId].state # "AUTHORIZED"
      BY <2>1, <2>2, ReleaseEnds
    <2> QED
      BY <2>1, <2>2, <2>3, EndsUnlinked
  <1>10. ASSUME NEW i \in DOMAIN sub.charges, MockPay(i)
         PROVE  GatewayMoves
    BY <1>10 DEF MockPay, GatewayObeys
  <1>11. ASSUME NEW plan, NEW method, NEW coupon, AcceptanceWithoutPlan(plan, method)
         PROVE  GatewayMoves
    BY <1>11, StopKeepsAll, SameHolds DEF Standing
  <1> QED
    BY <1>1, <1>2, <1>4, <1>5, <1>6, <1>7, <1>8, <1>9, <1>10, <1>11 DEF StudentRequest

LEMMA GatewayNotificationMoves ==
    ASSUME IInv, GatewayInv, GatewayObeys, Notification
    PROVE  GatewayMoves
PROOF
  <1>1. PreapprovalsOK(preapprovals)
    BY WorldParts DEF IInv
  <1>2. ASSUME NEW o \in OrderIds, NEW i \in DOMAIN sub.charges, OrderUpdated(o, i)
        PROVE  GatewayMoves
    <2>1. /\ OrderPaid(o) /\ sub.charges[i].link = o /\ ConfirmCharge(sub, i)
          /\ UNCHANGED <<acceptances, preapprovals>> /\ i \in PendingCharges(sub.charges)
      BY <1>2 DEF OrderUpdated, IsLinked, gateway, PendingCharges, PaidCharges
    <2>2. DocInv(sub)
      BY HasDocument
    <2>3. IsRecurring(sub.plan) => IsNextPending(sub.charges, i)
      BY <2>1, <2>2, GatewayIdAssumption DEF DocInv, OnlyNextIsLinked
    <2> QED
      BY <2>1, <2>3, OrdersPayUnlinked
  <1>3. ASSUME NEW p \in PreapprovalIds, NEW c, NEW i, CycleCredited(p, c, i)
        PROVE  GatewayMoves
    BY <1>3, CycleCreditedMoves DEF GatewayMoves
  <1>4. ASSUME NEW p \in PreapprovalIds, NEW c, CycleUnmatched(p, c)
        PROVE  GatewayMoves
    <2>1. /\ c \in DOMAIN preapprovals[p].cycles /\ acceptances' = acceptances /\ sub' = sub
          /\ preapprovals' = [preapprovals EXCEPT ![p].cycles[c].delivered = TRUE]
      BY <1>4 DEF CycleUnmatched, IsCycle
    <2>3. \A q \in PreapprovalIds : Standing(q)
      BY <1>1, <2>1, DeliveredForms DEF Standing, SameStanding, SameAmounts
    <2> QED
      BY <2>1, <2>3, SameHolds
  <1>5. ASSUME NEW p \in PreapprovalIds, sub.preId = p
        PROVE  DocInv(sub) /\ IsRecurring(sub.plan) /\ sub.preId # NoId
    <2>1. sub.preId # NoId
      BY <1>5, GatewayIdAssumption
    <2> QED
      BY <2>1, HasDocument DEF DocInv
  <1>6. ASSUME NEW p \in PreapprovalIds, NEW c, CycleNotCredited(p, c)
        PROVE  GatewayMoves
    <2> DEFINE t == [sub EXCEPT !.status = "PAST_DUE"]
    <2>1. /\ sub.preId = p /\ sub.status # "PAST_DUE" /\ Save(t)
          /\ UNCHANGED <<acceptances, preapprovals>>
      BY <1>6 DEF CycleNotCredited, SaveAndSync, gateway
    <2>2. DocInv(sub) /\ IsRecurring(sub.plan) /\ sub.preId # NoId /\ sub.status # "CANCELLED"
      BY <1>5, <2>1 DEF DocInv
    <2>3. DocInv(t)
      BY <2>1, <2>2, PastDueStep DEF Continues
    <2>4. SameTerms(sub, t) /\ SameLink(sub, t) /\ t.charges = sub.charges
      BY <2>2, DocTypes DEF SameTerms, SameLink, DocInv, DocumentOK, Documents
    <2> HIDE DEF t
    <2>5. /\ SameTerms(t, sub') /\ SameLink(t, sub')
          /\ PendingCharges(sub'.charges) = PendingCharges(t.charges)
          /\ \A l \in DOMAIN t.charges : sub'.charges[l].link = t.charges[l].link
      BY <2>1, <2>3, PlainKeeps DEF Save
    <2>6. \A l \in PendingCharges(sub'.charges) : sub'.charges[l].link \notin OrderIds
      BY <2>2, <2>4, <2>5 DEF GatewayInv, PendingCharges
    <2>7. SameTerms(sub, sub') /\ SameLink(sub, sub')
      BY <2>2, <2>4, <2>5, DocTypes DEF SameTerms, SameLink
    <2> QED
      BY <2>1, <2>2, <2>6, <2>7 DEF Holds, GatewayMoves, Standing, Contract, DocInv
  <1>7. ASSUME NEW p \in PreapprovalIds, PreapprovalCancelled(p)
        PROVE  GatewayMoves
    <2>1. /\ sub.preId = p /\ sub.status # "CANCELLED" /\ preapprovals[p].state = "CANCELLED"
          /\ UNCHANGED <<acceptances, preapprovals>>
          /\ Save([sub EXCEPT !.status = "CANCELLED", !.preId = NoId, !.charges = KeepPaid(@)])
      BY <1>7 DEF PreapprovalCancelled, SaveAndSync, gateway
    <2>2. DocInv(sub) /\ IsRecurring(sub.plan)
      BY <1>5, <2>1
    <2>3. [sub EXCEPT !.status = "CANCELLED", !.preId = NoId, !.charges = KeepPaid(@)]
            = [sub EXCEPT !.status = "CANCELLED", !.preId = NoId,
                          !.accessUntil = sub.accessUntil, !.charges = KeepPaid(@)]
      BY <2>2 DEF DocInv, DocumentOK, Documents
    <2>4. \A q \in PreapprovalIds : Standing(q)
      BY <2>1 DEF Standing
    <2> QED
      BY <2>1, <2>2, <2>3, <2>4, EndsUnlinked
  <1> QED
    BY <1>2, <1>3, <1>4, <1>6, <1>7 DEF Notification

\* What the gateway does by itself: it never revives, moves or reprices a
\* preapproval.
LEMMA GatewayEnvironmentMoves ==
    ASSUME IInv, GatewayInv, Environment
    PROVE  GatewayMoves
PROOF
  <1>1. PreapprovalsOK(preapprovals)
    BY WorldParts DEF IInv
  <1>2. \A p \in PreapprovalIds : preapprovals[p] \in Preapprovals
    BY <1>1 DEF PreapprovalsOK
  <1>3. sub' = sub /\ acceptances' = acceptances
    BY DEF Environment, DecideOrder, OpenCycle, AttemptCycle, GatewayCancels, MonthPasses
  <1>4. CASE UNCHANGED preapprovals
    BY <1>3, <1>4, SameHolds DEF Standing
  <1>5. ASSUME NEW p \in PreapprovalIds, NEW new \in Preapprovals,
               preapprovals' = [preapprovals EXCEPT ![p] = new],
               new.contract = preapprovals[p].contract, new.amount = preapprovals[p].amount,
               new.state \in {preapprovals[p].state, "CANCELLED"}
        PROVE  GatewayMoves
    <2>1. \A q \in PreapprovalIds : Standing(q)
      BY <1>1, <1>5 DEF PreapprovalsOK, Standing
    <2> QED
      BY <1>3, <2>1, SameHolds
  <1>6. ASSUME NEW p \in PreapprovalIds, OpenCycle(p)
        PROVE  GatewayMoves
    <2> DEFINE all == [preapprovals EXCEPT ![p].cycles =
                          Append(@, [status |-> "SCHEDULED", delivered |-> FALSE])]
    <2>1. preapprovals' = all /\ PreapprovalsOK(all)
      BY <1>1, <1>6, PreapprovalForms DEF OpenCycle
    <2>2. /\ all[p].contract = preapprovals[p].contract /\ all[p].amount = preapprovals[p].amount
          /\ all[p].state = preapprovals[p].state /\ all = [preapprovals EXCEPT ![p] = all[p]]
      BY <1>1, <1>2 DEF PreapprovalsOK, Preapprovals
    <2>3. all[p] \in Preapprovals
      BY <2>1 DEF PreapprovalsOK
    <2> HIDE DEF all
    <2> QED
      BY <1>5, <2>1, <2>2, <2>3
  <1>7. ASSUME NEW p \in PreapprovalIds, NEW c \in DOMAIN preapprovals[p].cycles,
               NEW outcome \in {"RECYCLING", "PAID", "REFUSED"}, AttemptCycle(p, c, outcome)
        PROVE  GatewayMoves
    <2> DEFINE all == [preapprovals EXCEPT ![p].cycles[c].status = outcome]
    <2>1. preapprovals' = all /\ PreapprovalsOK(all)
      BY <1>1, <1>7, PreapprovalForms DEF AttemptCycle
    <2>2. /\ all[p].contract = preapprovals[p].contract /\ all[p].amount = preapprovals[p].amount
          /\ all[p].state = preapprovals[p].state /\ all = [preapprovals EXCEPT ![p] = all[p]]
      BY <1>1, <1>2 DEF PreapprovalsOK, Preapprovals
    <2>3. all[p] \in Preapprovals
      BY <2>1 DEF PreapprovalsOK
    <2> HIDE DEF all
    <2> QED
      BY <1>5, <2>1, <2>2, <2>3
  <1>8. ASSUME NEW p \in PreapprovalIds, GatewayCancels(p)
        PROVE  GatewayMoves
    <2> DEFINE new == [preapprovals[p] EXCEPT !.state = "CANCELLED"]
    <2>1. preapprovals' = [preapprovals EXCEPT ![p] = new]
      BY <1>8 DEF GatewayCancels
    <2>2. /\ new \in Preapprovals /\ new.contract = preapprovals[p].contract
          /\ new.amount = preapprovals[p].amount /\ new.state = "CANCELLED"
      BY <1>2 DEF Preapprovals
    <2> HIDE DEF new
    <2> QED
      BY <1>5, <2>1, <2>2
  <1> QED
    BY <1>4, <1>6, <1>7, <1>8 DEF Environment, DecideOrder, MonthPasses

\* The amounts and the links the gateway acts on are the document's, or of
\* the charge before it.
THEOREM GatewayInvariance ==
    ASSUME GatewayObeys
    PROVE  Spec => []GatewayInv
PROOF
  <1>1. Init => GatewayInv
    <2> SUFFICES ASSUME Init PROVE GatewayInv
      OBVIOUS
    <2>1. \A p \in PreapprovalIds : preapprovals[p].state = "ABSENT" /\ preapprovals[p].contract = 0
      BY DEF Init
    <2>2. sub.status = "NONE" /\ sub.preId = NoId /\ Contract = 0
      BY NoSubscriptionFacts DEF Init, Contract
    <2> QED
      BY <2>1, <2>2 DEF GatewayInv, PreapprovalIsLinked, Contracted
  <1>2. IInv /\ GatewayInv /\ [Next]_vars => GatewayInv'
    <2> SUFFICES ASSUME IInv, GatewayInv, [Next]_vars PROVE GatewayInv'
      OBVIOUS
    <2>1. CASE UNCHANGED vars
      BY <2>1, SameHolds, GatewayMovesKeep DEF vars, Standing, IInv
    <2> QED
      BY <2>1, GatewayRequestMoves, GatewayNotificationMoves, GatewayEnvironmentMoves,
         GatewayMovesKeep DEF Next, IInv
  <1> QED
    BY <1>1, <1>2, Invariance, PTL DEF Spec

\* What runs on the student's card by itself is linked by the document and
\* charges what its schedule says is next, through payments, changes of
\* method, cancellations and the end of a coupon (syncRecurringAmount).
THEOREM GatewayFollows ==
    ASSUME GatewayObeys
    PROVE  Spec => []GatewayFollowsDocument
PROOF
  <1>1. IInv /\ GatewayInv => GatewayFollowsDocument
    <2> SUFFICES ASSUME IInv, GatewayInv,
                        NEW p \in PreapprovalIds, NEW i \in DOMAIN sub.charges,
                        preapprovals[p].state = "AUTHORIZED", sub.preId = p,
                        IsNextPending(sub.charges, i)
                 PROVE  preapprovals[p].amount = sub.charges[i].amount
      BY DEF GatewayFollowsDocument, RecurringAmountFollowsSchedule, GatewayInv
    <2>1. DocInv(sub) /\ sub.paid \in Nat
      BY NextPendingHas, DocTypes
    <2>2. Window(sub.charges, sub.paid)
      BY <2>1, GatewayIdAssumption DEF DocInv, HasFullWindow, Window
    <2>3. i = sub.paid + 1
      BY <2>1, <2>2, NextInWindow
    <2> QED
      BY <2>1, <2>3 DEF GatewayInv, DocInv, Priced, NextAmount
  <1> QED
    BY <1>1, Invariance, GatewayInvariance, PTL

-----------------------------------------------------------------------------
(* One debit of a contract *)

\* No read of the gateway fails, no answer is lost, no card order is left in
\* processing, and no plan sold for a period may be paid with a single PIX,
\* so the student cannot change the method of one while a challenge is open.
CardIsRead ==
    /\ {"read", "lost", "pending"} \cap Faults = {}
    /\ \A plan \in Plans \ Recurring : Installments[plan] > 1

\* A card order that is credited, or may still be, and was not set aside.
Live(o) ==
    /\ o \in OrderIds \ restarted
    /\ orders[o].kind = "CARD" /\ orders[o].status \in {"CHALLENGE", "PAID"}

\* The order a new one would be charged beside: the open charge still links it.
IsWatched(o) ==
    /\ Contracted /\ ~ IsRecurring(sub.plan)
    /\ \A i \in DOMAIN sub.charges : IsNextPending(sub.charges, i) => sub.charges[i].link = o

\* The strengthening of ContractDebitedOnce: an order that waits for the
\* issuer's challenge counts too, and the charge keeps its id until it is paid.
CardsNeverWait ==
    \A o \in OrderIds : orders[o].kind = "CARD" => orders[o].status # "PENDING"

OneLive == \A o, q : Live(o) /\ Live(q) /\ orders[o].contract = orders[q].contract => o = q

LiveIsWatched == \A o : Live(o) /\ orders[o].contract = Contract => IsWatched(o)

ClosedByCard == Contracted /\ ~ IsRecurring(sub.plan) => sub.method = "CREDIT_CARD"

DebitedInv == CardsNeverWait /\ OneLive /\ LiveIsWatched /\ ClosedByCard

\* What a step does to the orders: none becomes live, or one of this contract.
NoneLives ==
    /\ CardsNeverWait'
    /\ \A o : Live(o)' => Live(o) /\ orders'[o].contract = orders[o].contract

OneLives(n) ==
    /\ CardsNeverWait'
    /\ orders'[n].contract = Contract
    /\ \A o : Live(o)' /\ o # n => Live(o) /\ orders'[o].contract = orders[o].contract

\* What it does to the document: a plan sold for a period is left alone, or
\* wholly paid, or its open charge links the order.
Unmoved ==
    /\ acceptances' = acceptances
    /\ \/ sub' = sub
       \/ Contracted' /\ IsRecurring(sub.plan) /\ IsRecurring(sub'.plan)

WhollyPaid ==
    /\ acceptances' = acceptances
    /\ Contracted /\ Contracted' /\ sub'.plan = sub.plan /\ sub'.method = sub.method
    /\ PendingCharges(sub'.charges) = {}

LinksOrder(n) ==
    /\ acceptances' = acceptances
    /\ Contracted /\ Contracted' /\ sub'.plan = sub.plan /\ sub'.method = sub.method
    /\ \A i \in DOMAIN sub'.charges : IsNextPending(sub'.charges, i) => sub'.charges[i].link = n

\* The kinds of step.
DebitMoves ==
    \/ NoneLives /\ (Unmoved \/ WhollyPaid)
    \/ /\ NoneLives /\ Contract' = Contract + 1 /\ ClosedByCard'
    \/ /\ ~ IsRecurring(sub.plan) /\ \A o : Live(o)' => orders'[o].contract # Contract
       /\ NoneLives /\ LinksOrder(NoId)
    \/ /\ ~ IsRecurring(sub.plan) /\ \A o : Live(o) => orders[o].contract # Contract
       /\ \E n \in OrderIds : OneLives(n) /\ (WhollyPaid \/ LinksOrder(n))

LEMMA DebitMovesKeep ==
    ASSUME WorldOK, DebitInv, DebitedInv, DebitMoves
    PROVE  DebitedInv'
PROOF
  <1>1. Contract \in Nat
    BY WorldParts
  <1>2. acceptances' = acceptances => Contract' = Contract
    BY DEF Contract
  <1>3. CASE NoneLives /\ Unmoved
    <2>1. CardsNeverWait' /\ OneLive'
      BY <1>3 DEF NoneLives, OneLive, DebitedInv
    <2>2. CASE sub' = sub
      <3>1. ClosedByCard' /\ \A o : IsWatched(o) => IsWatched(o)'
        BY <2>2 DEF ClosedByCard, DebitedInv, Contracted, IsWatched
      <3>2. LiveIsWatched'
        BY <1>2, <1>3, <3>1 DEF LiveIsWatched, DebitedInv, NoneLives, Unmoved
      <3> QED
        BY <2>1, <3>1, <3>2 DEF DebitedInv
    <2>3. CASE IsRecurring(sub.plan) /\ IsRecurring(sub'.plan)
      <3>1. ClosedByCard'
        BY <2>3 DEF ClosedByCard
      <3>2. LiveIsWatched'
        BY <1>2, <1>3, <2>3 DEF LiveIsWatched, DebitedInv, NoneLives, Unmoved, IsWatched
      <3> QED
        BY <2>1, <3>1, <3>2 DEF DebitedInv
    <2> QED
      BY <1>3, <2>2, <2>3 DEF Unmoved
  <1>4. CASE NoneLives /\ WhollyPaid
    <2>1. CardsNeverWait' /\ OneLive'
      BY <1>4 DEF NoneLives, OneLive, DebitedInv
    <2>2. ClosedByCard'
      BY <1>4 DEF ClosedByCard, WhollyPaid, DebitedInv
    <2>3. \A o : IsWatched(o) => IsWatched(o)'
      BY <1>4 DEF WhollyPaid, IsWatched, IsNextPending
    <2>4. LiveIsWatched'
      BY <1>2, <1>4, <2>3 DEF LiveIsWatched, DebitedInv, NoneLives, WhollyPaid
    <2> QED
      BY <2>1, <2>2, <2>4 DEF DebitedInv
  <1>5. CASE NoneLives /\ Contract' = Contract + 1 /\ ClosedByCard'
    <2>1. CardsNeverWait' /\ OneLive'
      BY <1>5 DEF NoneLives, OneLive, DebitedInv
    <2>2. \A o : Live(o) => orders[o].contract <= Contract
      BY DEF Live, DebitInv
    <2>3. LiveIsWatched'
      BY <1>1, <1>5, <2>2 DEF LiveIsWatched, NoneLives
    <2> QED
      BY <1>5, <2>1, <2>3 DEF DebitedInv
  <1>6. CASE /\ ~ IsRecurring(sub.plan) /\ \A o : Live(o)' => orders'[o].contract # Contract
             /\ NoneLives /\ LinksOrder(NoId)
    <2>1. CardsNeverWait' /\ OneLive'
      BY <1>6 DEF NoneLives, OneLive, DebitedInv
    <2>2. ClosedByCard' /\ LiveIsWatched'
      BY <1>2, <1>6 DEF ClosedByCard, LinksOrder, DebitedInv, LiveIsWatched
    <2> QED
      BY <2>1, <2>2 DEF DebitedInv
  <1>7. CASE /\ ~ IsRecurring(sub.plan) /\ \A o : Live(o) => orders[o].contract # Contract
             /\ \E n \in OrderIds : OneLives(n) /\ (WhollyPaid \/ LinksOrder(n))
    <2>1. PICK n \in OrderIds : OneLives(n) /\ (WhollyPaid \/ LinksOrder(n))
      BY <1>7
    <2>2. Contract' = Contract /\ ClosedByCard'
      BY <1>2, <2>1 DEF WhollyPaid, LinksOrder, ClosedByCard, DebitedInv
    <2>3. \A o : Live(o)' /\ o # n => Live(o) /\ orders'[o].contract # Contract
      BY <1>7, <2>1 DEF OneLives
    <2>4. OneLive'
      BY <2>1, <2>3 DEF OneLives, OneLive, DebitedInv
    <2>5. IsWatched(n)'
      BY <1>7, <2>1 DEF WhollyPaid, LinksOrder, IsWatched, IsNextPending
    <2>6. LiveIsWatched'
      BY <2>2, <2>3, <2>5 DEF LiveIsWatched
    <2> QED
      BY <2>1, <2>2, <2>4, <2>6 DEF DebitedInv, OneLives
  <1> QED
    BY <1>3, <1>4, <1>5, <1>6, <1>7 DEF DebitMoves

\* Steps that leave the orders alone, or create only a PIX.
LEMMA SameNoneLives ==
    ASSUME CardsNeverWait, UNCHANGED orders, restarted \subseteq restarted'
    PROVE  NoneLives
  BY DEF NoneLives, CardsNeverWait, Live

LEMMA CreatedOrder ==
    ASSUME OrdersOK(orders), NEW o \in OrderIds, NEW kind, NEW status, NEW index, NEW amount,
           NEW contract, CreateOrder(o, kind, status, index, amount, contract)
    PROVE  /\ orders'[o].kind = kind /\ orders'[o].status = status
           /\ orders'[o].contract = contract
           /\ \A q \in OrderIds \ {o} : orders'[q] = orders[q]
PROOF
  <1> DEFINE new == [status |-> status, kind |-> kind, index |-> index,
                     amount |-> amount, contract |-> contract]
  <1>1. orders' = [orders EXCEPT ![o] = new]
    BY DEF CreateOrder
  <1>2. orders'[o] = new /\ \A q \in OrderIds \ {o} : orders'[q] = orders[q]
    BY <1>1 DEF OrdersOK
  <1> QED
    BY <1>2

LEMMA PixNoneLives ==
    ASSUME OrdersOK(orders), CardsNeverWait, UNCHANGED restarted, NEW s, NEW i, NEW contract,
           IssueCharge(s, i, contract)
    PROVE  NoneLives
PROOF
  <1>1. CASE UNCHANGED orders
    BY <1>1, SameNoneLives
  <1>2. CASE \E o \in OrderIds : CreatePixOrder(o, i, s.charges[i].amount, contract)
    <2>1. PICK o \in OrderIds : CreatePixOrder(o, i, s.charges[i].amount, contract)
      BY <1>2
    <2>2. CASE CreateOrder(o, "PIX", "PENDING", i, s.charges[i].amount, contract)
      <3>1. orders'[o].kind = "PIX" /\ \A q \in OrderIds \ {o} : orders'[q] = orders[q]
        BY <2>2, CreatedOrder
      <3> QED
        BY <3>1 DEF NoneLives, CardsNeverWait, Live
    <2> QED
      BY <1>1, <2>1, <2>2 DEF CreatePixOrder
  <1> QED
    BY <1>1, <1>2 DEF IssueCharge

\* Confirming a plan sold for a period pays all of it, by the method it has.
LEMMA ConfirmsWhole ==
    ASSUME DocInv(sub), ~ IsRecurring(sub.plan), acceptances' = acceptances, UserOK(user),
           NEW t, DocInv(t), t.plan = sub.plan, t.method = sub.method,
           NEW i \in PendingCharges(t.charges), ConfirmCharge(t, i)
    PROVE  WhollyPaid
PROOF
  <1>1. Continues(t, sub') /\ sub'.status = "ACTIVE"
    BY ConfirmChargeStep
  <1>2. PendingCharges(sub'.charges) = {}
    BY <1>1 DEF Continues, DocInv, WhollyPaidOrUnpaid
  <1>3. sub'.method = t.method
    <2>1. "method" \in DOMAIN t
      BY DEF DocInv, DocumentOK, Documents
    <2>2. sub' = ToPlain(Confirm(t, i))
      BY DEF ConfirmCharge, SaveAndSync, Save
    <2>3. t \in Documents(t.charges)
      BY DEF DocInv, DocumentOK
    <2>4. Confirm(t, i).method = t.method /\ "method" \in DOMAIN Confirm(t, i)
      BY <2>3 DEF Confirm, Documents
    <2>5. ToPlain(Confirm(t, i)).method = Confirm(t, i).method
      BY <2>4 DEF ToPlain
    <2> QED
      BY <2>2, <2>4, <2>5
  <1>4. sub.status # "NONE" /\ sub'.status # "NONE" /\ sub'.plan = sub.plan
    BY <1>1 DEF DocInv, Continues
  <1> QED
    BY <1>2, <1>3, <1>4 DEF WhollyPaid, Contracted

\* The charge that is due is one.
LEMMA OneIsNext ==
    ASSUME NEW s, DocInv(s), NEW i, NEW j, IsNextPending(s.charges, i), IsNextPending(s.charges, j)
    PROVE  i = j
PROOF
  <1>1. i \in Nat /\ j \in Nat /\ i <= j /\ j <= i
    BY DocTypes DEF IsNextPending
  <1> QED
    BY <1>1

\* Saving a link leaves the due charge with it.
LEMMA SavesLink ==
    ASSUME DocInv(sub), acceptances' = acceptances, NEW i, IsNextPending(sub.charges, i),
           NEW t, Rewritten(sub, t), t.method = sub.method, NEW n, t.charges[i].link = n, Save(t)
    PROVE  LinksOrder(n)
PROOF
  <1>1. DocInv(t) /\ i \in DOMAIN t.charges /\ IsNextPending(t.charges, i)
    BY DEF Rewritten, IsNextPending, PendingCharges
  <1>2. /\ Rewritten(t, sub') /\ sub' = ToPlain(t)
        /\ sub'.charges[i].link = n
        /\ PendingCharges(sub'.charges) = PendingCharges(t.charges)
    BY <1>1, SaveStep, PlainKeeps DEF Save
  <1>3. DocInv(sub') /\ sub'.plan = sub.plan
    BY <1>2 DEF Rewritten
  <1>4. \A j : IsNextPending(sub'.charges, j) => j = i
    BY <1>1, <1>2, <1>3, OneIsNext DEF IsNextPending
  <1>5. sub'.method = sub.method
    <2>1. t \in Documents(t.charges)
      BY <1>1 DEF DocInv, DocumentOK
    <2> QED
      BY <1>2, <2>1 DEF ToPlain, Documents
  <1>6. sub.status # "NONE" /\ sub'.status # "NONE"
    BY <1>3 DEF DocInv
  <1> QED
    BY <1>2, <1>3, <1>4, <1>5, <1>6 DEF LinksOrder, Contracted

\* The handlers of a recurring plan, which no live order is for.
LEMMA RecurringUnmoved ==
    ASSUME IInv, StepOK, DebitedInv, DocInv(sub), IsRecurring(sub.plan), acceptances' = acceptances,
           UNCHANGED orders, restarted \subseteq restarted'
    PROVE  DebitMoves
PROOF
  <1>1. sub' = sub \/ (DocInv(sub') /\ sub'.plan = sub.plan)
    <2>1. ~ Contracting
      BY ContractingGrows DEF IInv
    <2> QED
      BY <2>1 DEF StepOK, Ongoing, Continues
  <1>2. Unmoved
    BY <1>1 DEF Unmoved, Contracted, DocInv
  <1> QED
    BY <1>2, SameNoneLives DEF DebitMoves, DebitedInv

LEMMA ConfirmsDebited ==
    ASSUME IInv, StepOK, DebitedInv, acceptances' = acceptances, UNCHANGED <<orders, restarted>>,
           DocInv(sub), NEW i \in PendingCharges(sub.charges), ConfirmCharge(sub, i)
    PROVE  DebitMoves
PROOF
  <1>1. UserOK(user)
    BY WorldParts DEF IInv
  <1>2. CASE IsRecurring(sub.plan)
    BY <1>2, RecurringUnmoved
  <1>3. CASE ~ IsRecurring(sub.plan)
    BY <1>1, <1>3, ConfirmsWhole, SameNoneLives DEF DebitMoves, DebitedInv
  <1> QED
    BY <1>2, <1>3

LEMMA ChoosePlanDebits ==
    ASSUME CardIsRead, IInv, DebitInv, DebitedInv, StepOK,
           NEW plan \in Plans, NEW method \in Methods, NEW coupon \in Coupons,
           ChoosePlan(plan, method, coupon)
    PROVE  DebitMoves
PROOF
  <1> DEFINE s == BuildSubscription(plan, method, coupon, now)
  <1>1. /\ MethodAllowed(plan, method)
        /\ acceptances' = Append(acceptances, Acceptance(s))
        /\ \/ IssueCharge(s, 1, Contract + 1)
           \/ ConfirmZeroCharge(s, 1)
        /\ UNCHANGED restarted
    BY DEF ChoosePlan
  <1>2. DocInv(s) /\ s.plan = plan /\ s.method = method /\ IsNextPending(s.charges, 1)
    <2>1. now \in Nat
      BY WorldParts DEF IInv
    <2>2. DocInv(s) /\ s.plan = plan /\ IsNextPending(s.charges, 1)
      BY <2>1, BuildInv
    <2>3. s.method = method
      BY DEF BuildSubscription
    <2> QED
      BY <2>2, <2>3
  <1>3. Contract' = Contract + 1
    BY <1>1, WorldParts DEF IInv, Contract
  <1>4. OrdersOK(orders) /\ UserOK(user)
    BY WorldParts DEF IInv
  <1> HIDE DEF s
  <1>5. NoneLives
    BY <1>1, <1>4, PixNoneLives, SameNoneLives DEF ConfirmZeroCharge, DebitedInv
  <1>6. ~ IsRecurring(plan) => method = "CREDIT_CARD"
    BY <1>1 DEF CardIsRead, MethodAllowed, IsRecurring, Methods
  <1>7. sub'.plan = plan /\ sub'.method = method
    <2>1. \A t : DocInv(t) => t \in Documents(t.charges)
      BY DEF DocInv, DocumentOK
    <2>2. \A t : DocInv(t) => ToPlain(t).plan = t.plan /\ ToPlain(t).method = t.method
      BY <2>1 DEF ToPlain, Documents
    <2>3. CASE IssueCharge(s, 1, Contract + 1)
      <3>1. Save(s) \/ \E o \in OrderIds : Save([s EXCEPT !.charges[1].link = o])
        BY <2>3 DEF IssueCharge
      <3>2. \A o \in OrderIds : DocInv([s EXCEPT !.charges[1].link = o])
        BY <1>2, LinkForms DEF Rewritten, GatewayIds
      <3>3. \A o : /\ [s EXCEPT !.charges[1].link = o].plan = s.plan
                   /\ [s EXCEPT !.charges[1].link = o].method = s.method
        BY <1>2, <2>1 DEF Documents
      <3> QED
        BY <1>2, <2>2, <3>1, <3>2, <3>3 DEF Save
    <2>4. CASE ConfirmZeroCharge(s, 1)
      <3>1. ConfirmCharge(s, 1) /\ 1 \in PendingCharges(s.charges)
        BY <1>2, <2>4 DEF ConfirmZeroCharge, IsNextPending
      <3>2. DocInv(Confirm(s, 1)) /\ sub' = ToPlain(Confirm(s, 1))
        BY <1>2, <3>1, ConfirmTerms DEF ConfirmCharge, SaveAndSync, Save
      <3>3. Confirm(s, 1).plan = s.plan /\ Confirm(s, 1).method = s.method
        BY <1>2, <2>1 DEF Confirm, Documents
      <3> QED
        BY <1>2, <2>2, <3>2, <3>3
    <2> QED
      BY <1>1, <2>3, <2>4
  <1> QED
    BY <1>3, <1>5, <1>6, <1>7 DEF DebitMoves, ClosedByCard

\* A free charge has no live order: the one it would link is watched.
LEMMA PayClosedDebits ==
    ASSUME CardIsRead, IInv, DebitInv, DebitedInv, NEW i, NEW o \in OrderIds, NEW outcome,
           PayClosed(i, o, outcome)
    PROVE  DebitMoves
PROOF
  <1> DEFINE linked == [sub EXCEPT !.charges[i].link = o]
  <1>1. /\ IsNextPending(sub.charges, i) /\ ~ IsRecurring(sub.plan)
        /\ FreeToCharge(sub.charges[i])
        /\ outcome # "PENDING"
        /\ CreateOrder(o, "CARD", outcome, i, sub.total, Contract)
        /\ \/ outcome = "PAID" /\ ConfirmCharge(linked, i)
           \/ outcome # "PAID" /\ Save(linked)
        /\ UNCHANGED <<acceptances, preapprovals, now, restarted>>
    BY DEF PayClosed, CardContract, CardIsRead
  <1>2. DocInv(sub) /\ i \in DOMAIN sub.charges /\ i \in PendingCharges(sub.charges)
    BY <1>1, NextPendingHas
  <1>3. Rewritten(sub, linked) /\ IsNextPending(linked.charges, i)
    BY <1>1, <1>2, LinkForms DEF GatewayIds
  <1>4. linked.charges[i].link = o /\ linked.method = sub.method /\ linked.plan = sub.plan
    BY <1>2, DocTypes DEF DocInv, DocumentOK, Documents, Charge
  <1> HIDE DEF linked
  <1>5. OrdersOK(orders) /\ UserOK(user)
    BY WorldParts DEF IInv
  <1>6. OneLives(o)
    <2>1. /\ orders'[o].kind = "CARD" /\ orders'[o].status = outcome
          /\ orders'[o].contract = Contract
          /\ \A q \in OrderIds \ {o} : orders'[q] = orders[q]
      BY <1>1, <1>5, CreatedOrder
    <2> QED
      BY <1>1, <2>1 DEF OneLives, CardsNeverWait, DebitedInv, Live
  <1>7. \A q : Live(q) => orders[q].contract # Contract
    <2> SUFFICES ASSUME NEW q, Live(q), orders[q].contract = Contract PROVE FALSE
      OBVIOUS
    <2>1. sub.charges[i].link = q
      BY <1>1, <1>2 DEF DebitedInv, LiveIsWatched, IsWatched
    <2> QED
      BY <1>1, <2>1 DEF FreeToCharge, CardIsRead, OrderPaid, OrderChallenged, Live
  <1>8. WhollyPaid \/ LinksOrder(o)
    <2>1. CASE outcome = "PAID" /\ ConfirmCharge(linked, i)
      <3>1. DocInv(linked) /\ i \in PendingCharges(linked.charges)
        BY <1>3 DEF Rewritten, IsNextPending
      <3> QED
        BY <1>1, <1>2, <1>4, <1>5, <2>1, <3>1, ConfirmsWhole
    <2>2. CASE Save(linked)
      BY <1>1, <1>2, <1>3, <1>4, <2>2, SavesLink
    <2> QED
      BY <1>1, <2>1, <2>2
  <1> QED
    BY <1>1, <1>6, <1>7, <1>8 DEF DebitMoves

LEMMA RestartDebits ==
    ASSUME IInv, StepOK, DebitInv, DebitedInv, NEW i, RestartCardPayment(i)
    PROVE  DebitMoves
PROOF
  <1> DEFINE id == sub.charges[i].link
             set == [sub EXCEPT !.charges[i].abandoned = @ \cup {id}, !.charges[i].link = NoId]
  <1>1. /\ IsNextPending(sub.charges, i) /\ id # NoId
        /\ UNCHANGED <<acceptances, orders, preapprovals, now>>
        /\ \/ ConfirmCharge(sub, i) /\ UNCHANGED restarted
           \/ Save(set) /\ restarted' = restarted \cup ({id} \cap OrderIds)
    BY DEF RestartCardPayment, gateway
  <1>2. DocInv(sub) /\ i \in DOMAIN sub.charges /\ i \in PendingCharges(sub.charges)
    BY <1>1, NextPendingHas
  <1>3. CASE ConfirmCharge(sub, i) /\ UNCHANGED restarted
    BY <1>1, <1>2, <1>3, ConfirmsDebited
  <1>4. CASE Save(set) /\ restarted' = restarted \cup ({id} \cap OrderIds)
    <2>1. CASE IsRecurring(sub.plan)
      BY <1>1, <1>2, <1>4, <2>1, RecurringUnmoved
    <2>2. CASE ~ IsRecurring(sub.plan)
      <3>1. NoneLives
        BY <1>1, <1>4, SameNoneLives DEF DebitedInv
      <3>2. \A o : Live(o)' => orders'[o].contract # Contract
        BY <1>1, <1>2, <1>4 DEF Live, DebitedInv, LiveIsWatched, IsWatched
      <3>3. id \in GatewayIds
        BY <1>1, <1>2, DocTypes DEF Charge
      <3>4. Rewritten(sub, set)
        BY <1>1, <1>2, <3>3, LinkForms
      <3>5. set.charges[i].link = NoId /\ set.method = sub.method
        BY <1>2, DocTypes DEF DocInv, DocumentOK, Documents, Charge
      <3>6. LinksOrder(NoId)
        BY <1>1, <1>2, <1>4, <3>4, <3>5, SavesLink
      <3> QED
        BY <2>2, <3>1, <3>2, <3>6 DEF DebitMoves
    <2> QED
      BY <2>1, <2>2
  <1> QED
    BY <1>1, <1>3, <1>4

\* A plan sold for a period is paid by card: it has no other method to take.
LEMMA ChangeMethodDebits ==
    ASSUME CardIsRead, IInv, StepOK, DebitedInv, NEW method \in Methods, ChangePaymentMethod(method)
    PROVE  DebitMoves
PROOF
  <1>1. /\ sub.status # "NONE" /\ MethodAllowed(sub.plan, method) /\ method # sub.method
        /\ UNCHANGED <<acceptances, restarted>>
    BY DEF ChangePaymentMethod
  <1>2. DocInv(sub) /\ OrdersOK(orders)
    BY <1>1, HasDocument, WorldParts DEF IInv
  <1>3. IsRecurring(sub.plan)
    <2> SUFFICES ASSUME ~ IsRecurring(sub.plan) PROVE FALSE
      OBVIOUS
    <2>1. sub.plan \in Plans \ Recurring /\ sub.method = "CREDIT_CARD"
      BY <1>1, <1>2, DocTypes DEF IsRecurring, DebitedInv, ClosedByCard, Contracted
    <2>2. method = "PIX_RECURRING"
      BY <1>1, <2>1 DEF Methods
    <2>3. Installments[sub.plan] = 1 /\ Installments[sub.plan] > 1
      BY <1>1, <2>1, <2>2 DEF MethodAllowed, CardIsRead
    <2> QED
      BY <2>3
  <1>4. NoneLives
    <2>1. \E s, i : IssueCharge(s, i, Contract) \/ UNCHANGED orders
      BY DEF ChangePaymentMethod, ConfirmZeroCharge
    <2> QED
      BY <1>1, <1>2, <2>1, PixNoneLives, SameNoneLives DEF DebitedInv
  <1>5. (DocInv(sub') /\ sub'.plan = sub.plan) \/ sub' = sub
    BY <1>1, ContractingGrows DEF IInv, StepOK, Ongoing, Continues
  <1> QED
    BY <1>1, <1>3, <1>4, <1>5 DEF DebitMoves, Unmoved, Contracted, DocInv

LEMMA DecideDebits ==
    ASSUME IInv, DebitedInv, NEW o \in OrderIds, NEW outcome \in {"PAID", "REJECTED"},
           DecideOrder(o, outcome)
    PROVE  DebitMoves
PROOF
  <1>1. /\ orders[o].status \in {"PENDING", "CHALLENGE"} /\ orders[o] \in Orders
        /\ orders' = [orders EXCEPT ![o].status = outcome]
        /\ UNCHANGED <<sub, acceptances, restarted>>
    BY WorldParts DEF DecideOrder, IInv, OrdersOK
  <1>2. /\ orders'[o] = [orders[o] EXCEPT !.status = outcome]
        /\ \A q \in OrderIds \ {o} : orders'[q] = orders[q]
    BY <1>1, WorldParts DEF IInv, OrdersOK
  <1>3. /\ orders'[o].status = outcome /\ orders'[o].kind = orders[o].kind
        /\ orders'[o].contract = orders[o].contract
    BY <1>1, <1>2 DEF Orders
  <1>4. NoneLives
    BY <1>1, <1>2, <1>3 DEF NoneLives, CardsNeverWait, DebitedInv, Live
  <1> QED
    BY <1>1, <1>4 DEF DebitMoves, Unmoved

LEMMA SameDebits ==
    ASSUME DebitedInv, UNCHANGED <<sub, acceptances, orders, restarted>>
    PROVE  DebitMoves
  BY SameNoneLives DEF DebitMoves, DebitedInv, Unmoved

LEMMA RequestDebits ==
    ASSUME CardIsRead, IInv, StepOK, DebitInv, DebitedInv, StudentRequest
    PROVE  DebitMoves
PROOF
  <1>1. ASSUME NEW plan \in Plans, NEW method \in Methods, NEW coupon \in Coupons,
               ChoosePlan(plan, method, coupon)
        PROVE  DebitMoves
    BY <1>1, ChoosePlanDebits
  <1>2. ASSUME NEW i, NEW p \in PreapprovalIds, PayRecurring(i, p)
        PROVE  DebitMoves
    <2>1. /\ IsNextPending(sub.charges, i) /\ IsRecurring(sub.plan)
          /\ UNCHANGED <<acceptances, orders, restarted>>
      BY <1>2 DEF PayRecurring, CardContract
    <2> QED
      BY <2>1, NextPendingHas, RecurringUnmoved
  <1>3. ASSUME NEW i, ConfirmPaidCard(i)
        PROVE  DebitMoves
    <2>1. PICK o : /\ OrderPaid(o)
                   /\ ConfirmCharge([sub EXCEPT !.charges[i].link = o], i)
      BY <1>3 DEF ConfirmPaidCard
    <2> DEFINE t == [sub EXCEPT !.charges[i].link = o]
    <2>2. /\ IsNextPending(sub.charges, i) /\ ~ IsRecurring(sub.plan)
          /\ UNCHANGED <<acceptances, orders, restarted>>
      BY <1>3 DEF ConfirmPaidCard, CardContract, gateway
    <2>3. DocInv(sub) /\ UserOK(user)
      BY <2>2, NextPendingHas, WorldParts DEF IInv
    <2>4. Rewritten(sub, t) /\ IsNextPending(t.charges, i)
      BY <2>1, <2>2, <2>3, LinkForms DEF OrderPaid, GatewayIds
    <2>5. t.method = sub.method /\ ConfirmCharge(t, i)
      BY <2>1, <2>3 DEF DocInv, DocumentOK, Documents
    <2> HIDE DEF t
    <2>6. WhollyPaid
      BY <2>2, <2>3, <2>4, <2>5, ConfirmsWhole DEF Rewritten, IsNextPending
    <2> QED
      BY <2>2, <2>6, SameNoneLives DEF DebitMoves, DebitedInv
  <1>4. ASSUME NEW i, NEW o \in OrderIds, NEW outcome, PayClosed(i, o, outcome)
        PROVE  DebitMoves
    BY <1>4, PayClosedDebits
  <1>5. ASSUME NEW i, RestartCardPayment(i)
        PROVE  DebitMoves
    BY <1>5, RestartDebits
  <1>6. ASSUME NEW i, RefreshCardPayment(i) \/ MockPay(i)
        PROVE  DebitMoves
    <2>1. /\ IsNextPending(sub.charges, i) /\ ConfirmCharge(sub, i)
          /\ UNCHANGED <<acceptances, orders, restarted>>
      BY <1>6 DEF RefreshCardPayment, MockPay, gateway
    <2> QED
      BY <2>1, NextPendingHas, ConfirmsDebited
  <1>7. ASSUME NEW method \in Methods, ChangePaymentMethod(method)
        PROVE  DebitMoves
    BY <1>7, ChangeMethodDebits
  <1>8. CASE CancelSubscription
    <2>1. /\ sub.status # "NONE" /\ IsRecurring(sub.plan)
          /\ UNCHANGED <<acceptances, orders, restarted>>
      BY <1>8 DEF CancelSubscription
    <2> QED
      BY <2>1, HasDocument, RecurringUnmoved
  <1>9. ASSUME NEW plan, NEW method, NEW coupon, AcceptanceWithoutPlan(plan, method)
        PROVE  DebitMoves
    BY <1>9, StopKeepsAll, SameDebits
  <1> QED
    BY <1>1, <1>2, <1>3, <1>4, <1>5, <1>6, <1>7, <1>8, <1>9 DEF StudentRequest

LEMMA NotificationDebits ==
    ASSUME IInv, StepOK, DebitedInv, Notification
    PROVE  DebitMoves
PROOF
  <1>1. ASSUME NEW o \in OrderIds, NEW i \in DOMAIN sub.charges, OrderUpdated(o, i)
        PROVE  DebitMoves
    <2>1. /\ i \in PendingCharges(sub.charges) /\ ConfirmCharge(sub, i)
          /\ UNCHANGED <<acceptances, orders, restarted>>
      BY <1>1 DEF OrderUpdated, gateway, PendingCharges, PaidCharges
    <2> QED
      BY <2>1, HasDocument, ConfirmsDebited
  <1>2. ASSUME NEW p \in PreapprovalIds, sub.preId = p, UNCHANGED <<acceptances, orders, restarted>>
        PROVE  DebitMoves
    <2>1. DocInv(sub) /\ IsRecurring(sub.plan)
      BY <1>2, GatewayIdAssumption, HasDocument DEF DocInv
    <2> QED
      BY <1>2, <2>1, RecurringUnmoved
  <1>3. ASSUME NEW p \in PreapprovalIds, NEW c, CycleUnmatched(p, c)
        PROVE  DebitMoves
    BY <1>3, SameDebits DEF CycleUnmatched
  <1> QED
    BY <1>1, <1>2, <1>3 DEF Notification, CycleCredited, CycleNotCredited, PreapprovalCancelled, gateway

LEMMA EnvironmentDebits ==
    ASSUME IInv, DebitedInv, Environment
    PROVE  DebitMoves
PROOF
  <1>1. CASE UNCHANGED <<sub, acceptances, orders, restarted>>
    BY <1>1, SameDebits
  <1> QED
    BY <1>1, DecideDebits DEF Environment, OpenCycle, AttemptCycle, GatewayCancels, MonthPasses

\* At any time at most one card order of a contract is credited or waits for
\* its challenge, but for those set aside, and the open charge keeps its id.
THEOREM DebitedInvariance ==
    ASSUME CardIsRead
    PROVE  Spec => []DebitedInv
PROOF
  <1>1. Init => DebitedInv
    <2> SUFFICES ASSUME Init PROVE DebitedInv
      OBVIOUS
    <2>1. \A o \in OrderIds : orders[o].status = "ABSENT"
      BY DEF Init
    <2>2. ~ Contracted
      BY NoSubscriptionFacts DEF Init, Contracted
    <2> QED
      BY <2>1, <2>2 DEF DebitedInv, CardsNeverWait, OneLive, LiveIsWatched, ClosedByCard, Live
  <1>2. IInv /\ DebitInv /\ DebitedInv /\ [Next]_vars => DebitedInv'
    <2> SUFFICES ASSUME IInv, DebitInv, DebitedInv, [Next]_vars PROVE DebitedInv'
      OBVIOUS
    <2>1. StepOK
      BY NextStep
    <2>2. DebitMoves
      BY <2>1, RequestDebits, NotificationDebits, EnvironmentDebits, SameDebits DEF Next, vars
    <2> QED
      BY <2>2, DebitMovesKeep DEF IInv
  <1> QED
    BY <1>1, <1>2, Invariance, DebitInvariance, PTL DEF Spec

\* While the gateway can be read, answers and decides, no second card order of
\* a contract is credited, whatever the student repeats, restarts or abandons
\* at the challenge and in whatever order the notifications arrive, but for the
\* orders the student set aside (payWithCard, existingCardOutcome,
\* restartCardPayment, onOrderUpdated).
THEOREM ContractsAreDebitedOnce ==
    ASSUME CardIsRead
    PROVE  Spec => []ContractDebitedOnce
PROOF
  <1>1. DebitedInv => ContractDebitedOnce
    BY DEF DebitedInv, OneLive, Live, ContractDebitedOnce
  <1> QED
    BY <1>1, DebitedInvariance, PTL

-----------------------------------------------------------------------------
(* No charge is paid without money *)

\* DEV_MODE is off, and a PIX is not answered with the order of an earlier
\* contract.
MoneyOnly == "stale_key" \notin Faults /\ ~ DevMode

\* The paid charges that no order of the gateway paid.
ByCycle == {i \in ChargedFor : sub.charges[i].link \notin OrderIds}

\* An order the document names was created for this contract and, of a plan
\* that renews, for the charge that names it, so no two charges share one.
OpenLinks(s, os, n) ==
    \A i \in PendingCharges(s.charges) :
        s.charges[i].link \in OrderIds =>
            /\ os[s.charges[i].link].status # "ABSENT"
            /\ os[s.charges[i].link].contract = n
            /\ IsRecurring(s.plan) => os[s.charges[i].link].index = i

PaidLinks(s, os, n) ==
    \A i \in PaidCharges(s.charges) :
        s.charges[i].link \in OrderIds =>
            /\ os[s.charges[i].link].status = "PAID"
            /\ os[s.charges[i].link].contract = n
            /\ os[s.charges[i].link].index = i

\* The preapproval it names was made for this contract, and the charge its
\* next cycle pays waits for no order.
LinkedContract(s, ps, n) ==
    s.preId # NoId =>
        /\ ps[s.preId].contract = n /\ ps[s.preId].state # "ABSENT"
        /\ \A i \in PendingCharges(s.charges) : s.charges[i].link \notin OrderIds

NoneAbandoned(s) == \A i \in DOMAIN s.charges : s.charges[i].abandoned = {}

\* A renewal that no order paid had a cycle to itself.
CyclesPay ==
    /\ ByCycle # {} => DeliveredCycles # {}
    /\ "redeliver" \notin Faults /\ IsFiniteSet(PreapprovalIds) =>
          Cardinality(ByCycle) <= Cardinality(DeliveredCycles)

Free(s) == \E i \in PaidCharges(s.charges) : s.charges[i].amount = 0

PaidPart ==
    Contracted =>
        IF IsRecurring(sub.plan)
        THEN PaidLinks(sub, orders, Contract) /\ CyclesPay
        ELSE PaidCharges(sub.charges) # {} => CreditedOrders # {} \/ Free(sub)

OpenPart(s, os, ps, n) == OpenLinks(s, os, n) /\ LinkedContract(s, ps, n)

CyclesOK ==
    \A p \in PreapprovalIds :
        /\ preapprovals[p].state = "ABSENT" => preapprovals[p].cycles = <<>>
        /\ Len(preapprovals[p].cycles) <= MaxCycles

\* The strengthening of PaidIsCredited.
CreditInv ==
    /\ PaidPart /\ CyclesOK
    /\ OpenPart(sub, orders, preapprovals, Contract) /\ NoneAbandoned(sub)

\* What a step does to the gateway: what was created and received stays so.
OrdersGo ==
    \A o \in OrderIds :
        orders[o].status # "ABSENT" =>
            /\ orders'[o].status # "ABSENT" /\ (orders[o].status = "PAID" => orders'[o].status = "PAID")
            /\ orders'[o].contract = orders[o].contract /\ orders'[o].index = orders[o].index

CyclesGo ==
    \A p \in PreapprovalIds :
        preapprovals[p].state # "ABSENT" =>
            /\ preapprovals'[p].state # "ABSENT"
            /\ preapprovals'[p].contract = preapprovals[p].contract
            /\ \A c \in DOMAIN preapprovals[p].cycles :
                  /\ c \in DOMAIN preapprovals'[p].cycles
                  /\ preapprovals[p].cycles[c].status = "PAID" => preapprovals'[p].cycles[c].status = "PAID"
                  /\ preapprovals[p].cycles[c].delivered => preapprovals'[p].cycles[c].delivered

GatewayGoes == OrdersGo /\ CyclesGo /\ CyclesOK'

\* What it does to the paid charges of the contract in force.
PaysNothing ==
    \/ UNCHANGED <<sub, acceptances>>
    \/ /\ Contract' = Contract /\ Contracted /\ Contracted'
       /\ sub'.plan = sub.plan /\ KeepsPayments(sub, sub')
       /\ PaidCharges(sub'.charges) = PaidCharges(sub.charges)

ByNewCycle ==
    \E pc \in DeliveredCycles' : pc \in DeliveredCycles => "redeliver" \in Faults

PaysNext(i) ==
    /\ Contract' = Contract /\ Contracted /\ Contracted' /\ IsRecurring(sub.plan)
    /\ sub'.plan = sub.plan /\ KeepsPayments(sub, sub')
    /\ i \notin PaidCharges(sub.charges)
    /\ PaidCharges(sub'.charges) = PaidCharges(sub.charges) \cup {i}
    /\ IF sub'.charges[i].link \in OrderIds
       THEN /\ orders'[sub'.charges[i].link].status = "PAID"
            /\ orders'[sub'.charges[i].link].contract = Contract
            /\ orders'[sub'.charges[i].link].index = i
       ELSE sub'.charges[i].amount = 0 \/ ByNewCycle

PaysWhole ==
    /\ ~ IsRecurring(sub'.plan)
    /\ CreditedOrders' # {} \/ Free(sub')

Begins ==
    /\ IsRecurring(sub'.plan) =>
          \A i \in PaidCharges(sub'.charges) :
              sub'.charges[i].amount = 0 /\ sub'.charges[i].link = NoId
    /\ ~ IsRecurring(sub'.plan) => PaidCharges(sub'.charges) = {} \/ Free(sub')

\* Credited money stays credited within the contract.
LEMMA DeliveredStay ==
    ASSUME WorldOK, CyclesOK, CyclesGo, CyclesOK', Contract' = Contract
    PROVE  DeliveredCycles \subseteq DeliveredCycles'
PROOF
  <1> SUFFICES ASSUME NEW p \in PreapprovalIds, NEW c \in 1 .. MaxCycles, Delivered(p, c)
               PROVE  Delivered(p, c)'
    BY DEF DeliveredCycles
  <1>1. preapprovals[p].cycles # <<>>
    BY DEF Delivered, IsCycle
  <1>2. preapprovals[p].state # "ABSENT"
    BY <1>1 DEF CyclesOK
  <1> QED
    BY <1>2 DEF Delivered, IsCycle, CyclesGo

LEMMA CreditedStay ==
    ASSUME OrdersGo, Contract' = Contract
    PROVE  CreditedOrders \subseteq CreditedOrders'
  BY DEF OrdersGo, CreditedOrders

LEMMA DeliveredFinite ==
    ASSUME IsFiniteSet(PreapprovalIds)
    PROVE  /\ IsFiniteSet(DeliveredCycles) /\ Cardinality(DeliveredCycles) \in Nat
           /\ IsFiniteSet(DeliveredCycles') /\ Cardinality(DeliveredCycles') \in Nat
PROOF
  <1>1. MaxCycles \in Nat
    BY EnvironmentAssumption
  <1>2. IsFiniteSet(1 .. MaxCycles)
    BY <1>1, FS_Interval
  <1>3. IsFiniteSet(PreapprovalIds \X (1 .. MaxCycles))
    BY <1>2, FS_Product
  <1>4. /\ DeliveredCycles \in SUBSET (PreapprovalIds \X (1 .. MaxCycles))
        /\ DeliveredCycles' \in SUBSET (PreapprovalIds \X (1 .. MaxCycles))
    BY DEF DeliveredCycles
  <1> QED
    BY <1>3, <1>4, FS_Subset, FS_CardinalityType

\* What a paid charge keeps decides whether a cycle paid it.
LEMMA SameByCycle ==
    ASSUME KeepsPayments(sub, sub')
    PROVE  /\ ByCycle \subseteq ByCycle'
           /\ \A i \in ByCycle' : i \in PaidCharges(sub.charges) => i \in ByCycle
  BY DEF ByCycle, ChargedFor, KeepsPayments

LEMMA ByCycleFinite ==
    ASSUME DocInv(sub)
    PROVE  IsFiniteSet(ByCycle) /\ Cardinality(ByCycle) \in Nat
PROOF
  <1>1. IsFiniteSet(PaidCharges(sub.charges))
    BY DocTypes, ScheduleIsFinite
  <1>2. ByCycle \in SUBSET PaidCharges(sub.charges)
    BY DEF ByCycle, ChargedFor
  <1> QED
    BY <1>1, <1>2, FS_Subset, FS_CardinalityType

LEMMA DeliveredGrow ==
    ASSUME WorldOK, CyclesOK, GatewayGoes, Contract' = Contract, IsFiniteSet(PreapprovalIds)
    PROVE  Cardinality(DeliveredCycles) <= Cardinality(DeliveredCycles')
  BY DeliveredStay, DeliveredFinite, FS_Subset DEF GatewayGoes

LEMMA PaysNothingKeeps ==
    ASSUME IInv, CyclesOK, PaidPart, GatewayGoes, PaysNothing
    PROVE  PaidPart'
PROOF
  <1>1. Contract' = Contract
    BY DEF PaysNothing, Contract
  <1>2. CreditedOrders \subseteq CreditedOrders' /\ DeliveredCycles \subseteq DeliveredCycles'
    BY <1>1, CreditedStay, DeliveredStay DEF GatewayGoes, IInv
  <1>3. SUFFICES ASSUME Contracted'
                 PROVE  IF IsRecurring(sub'.plan)
                        THEN PaidLinks(sub', orders', Contract') /\ CyclesPay'
                        ELSE PaidCharges(sub'.charges) # {} => CreditedOrders' # {} \/ Free(sub')
    BY DEF PaidPart
  <1>4. /\ Contracted /\ DocInv(sub) /\ sub'.plan = sub.plan /\ KeepsPayments(sub, sub')
        /\ PaidCharges(sub'.charges) = PaidCharges(sub.charges)
    BY <1>3, HasDocument DEF PaysNothing, Contracted, KeepsPayments
  <1>5. ByCycle' = ByCycle
    <2>1. \A i \in ByCycle' : i \in PaidCharges(sub.charges)
      BY <1>4 DEF ByCycle, ChargedFor
    <2> QED
      BY <1>4, <2>1, SameByCycle
  <1>6. CASE IsRecurring(sub.plan)
    <2>1. PaidLinks(sub, orders, Contract) /\ CyclesPay
      BY <1>4, <1>6 DEF PaidPart
    <2>2. PaidLinks(sub', orders', Contract')
      BY <1>1, <1>4, <2>1 DEF PaidLinks, KeepsPayments, GatewayGoes, OrdersGo
    <2>3. DeliveredCycles # {} => DeliveredCycles' # {}
      BY <1>2
    <2>4. ASSUME "redeliver" \notin Faults, IsFiniteSet(PreapprovalIds)
          PROVE  Cardinality(ByCycle) <= Cardinality(DeliveredCycles')
      <3>1. Cardinality(DeliveredCycles) <= Cardinality(DeliveredCycles')
        BY <1>1, <2>4, DeliveredGrow DEF IInv
      <3>2. /\ Cardinality(ByCycle) <= Cardinality(DeliveredCycles)
            /\ Cardinality(DeliveredCycles) \in Nat /\ Cardinality(DeliveredCycles') \in Nat
            /\ Cardinality(ByCycle) \in Nat
        BY <1>4, <2>1, <2>4, DeliveredFinite, ByCycleFinite DEF CyclesPay
      <3> QED
        BY <3>1, <3>2
    <2>5. CyclesPay'
      BY <1>5, <2>1, <2>3, <2>4 DEF CyclesPay
    <2> QED
      BY <1>4, <1>6, <2>2, <2>5
  <1>7. CASE ~ IsRecurring(sub.plan)
    BY <1>2, <1>4, <1>7 DEF PaidPart, Free, KeepsPayments
  <1> QED
    BY <1>6, <1>7

LEMMA PaysNextKeeps ==
    ASSUME IInv, CyclesOK, PaidPart, GatewayGoes, NEW i, PaysNext(i)
    PROVE  PaidPart'
PROOF
  <1>1. /\ Contract' = Contract /\ Contracted /\ Contracted' /\ DocInv(sub)
        /\ sub'.plan = sub.plan /\ IsRecurring(sub.plan) /\ KeepsPayments(sub, sub')
        /\ i \notin PaidCharges(sub.charges)
        /\ PaidCharges(sub'.charges) = PaidCharges(sub.charges) \cup {i}
    BY HasDocument DEF PaysNext, Contracted
  <1>2. PaidLinks(sub, orders, Contract) /\ CyclesPay
    BY <1>1 DEF PaidPart
  <1>3. PaidLinks(sub', orders', Contract')
    BY <1>1, <1>2 DEF PaidLinks, KeepsPayments, GatewayGoes, OrdersGo, PaysNext
  <1>4. DeliveredCycles \subseteq DeliveredCycles'
    BY <1>1, DeliveredStay DEF GatewayGoes, IInv
  <1>5. ByCycle' \subseteq ByCycle \cup {i}
    <2>1. \A j \in ByCycle' : j \in PaidCharges(sub.charges) \/ j = i
      BY <1>1 DEF ByCycle, ChargedFor
    <2> QED
      BY <1>1, <2>1, SameByCycle
  <1>6. i \in ByCycle' => ByNewCycle
    BY DEF PaysNext, ByCycle, ChargedFor
  <1>7. ByCycle' # {} => DeliveredCycles' # {}
    BY <1>2, <1>4, <1>5, <1>6 DEF CyclesPay, ByNewCycle
  <1>8. ASSUME "redeliver" \notin Faults, IsFiniteSet(PreapprovalIds)
        PROVE  Cardinality(ByCycle') <= Cardinality(DeliveredCycles')
    <2>1. /\ Cardinality(ByCycle) <= Cardinality(DeliveredCycles)
          /\ IsFiniteSet(DeliveredCycles) /\ IsFiniteSet(DeliveredCycles')
          /\ Cardinality(DeliveredCycles) \in Nat /\ Cardinality(DeliveredCycles') \in Nat
          /\ IsFiniteSet(ByCycle) /\ Cardinality(ByCycle) \in Nat
      BY <1>1, <1>2, <1>8, DeliveredFinite, ByCycleFinite DEF CyclesPay
    <2>2. Cardinality(DeliveredCycles) <= Cardinality(DeliveredCycles')
      BY <1>1, <1>8, DeliveredGrow DEF IInv
    <2>3. CASE i \notin ByCycle'
      <3>1. ByCycle' \in SUBSET ByCycle
        BY <1>5, <2>3
      <3>2. Cardinality(ByCycle') <= Cardinality(ByCycle) /\ Cardinality(ByCycle') \in Nat
        BY <2>1, <3>1, FS_Subset, FS_CardinalityType
      <3> QED
        BY <2>1, <2>2, <3>2
    <2>4. CASE i \in ByCycle'
      <3>1. PICK pc \in DeliveredCycles' : pc \notin DeliveredCycles
        BY <1>6, <1>8, <2>4 DEF ByNewCycle
      <3>2. i \notin ByCycle /\ ByCycle' = ByCycle \cup {i}
        BY <1>1, <1>5, <2>4, SameByCycle DEF ByCycle, ChargedFor
      <3>3. Cardinality(ByCycle') = Cardinality(ByCycle) + 1
        BY <2>1, <3>2, FS_AddElement
      <3>4. Cardinality(DeliveredCycles \cup {pc}) = Cardinality(DeliveredCycles) + 1
        BY <2>1, <3>1, FS_AddElement
      <3>5. Cardinality(DeliveredCycles \cup {pc}) <= Cardinality(DeliveredCycles')
        BY <1>4, <2>1, <3>1, FS_Subset
      <3> QED
        BY <2>1, <3>3, <3>4, <3>5
    <2> QED
      BY <2>3, <2>4
  <1>9. CyclesPay'
    BY <1>7, <1>8 DEF CyclesPay
  <1> QED
    BY <1>1, <1>3, <1>9 DEF PaidPart

LEMMA BeginsKeeps ==
    ASSUME Begins
    PROVE  PaidPart'
PROOF
  <1>1. CASE IsRecurring(sub'.plan)
    <2>1. PaidLinks(sub', orders', Contract')
      BY <1>1, GatewayIdAssumption DEF Begins, PaidLinks
    <2>2. ByCycle' = {}
      BY <1>1 DEF Begins, ByCycle, ChargedFor
    <2>3. IsFiniteSet(PreapprovalIds) => Cardinality(ByCycle') <= Cardinality(DeliveredCycles')
      <3>1. Cardinality(ByCycle') = 0
        BY <2>2, FS_EmptySet
      <3> QED
        BY <3>1, DeliveredFinite
    <2>4. CyclesPay'
      BY <2>2, <2>3 DEF CyclesPay
    <2> QED
      BY <1>1, <2>1, <2>4 DEF PaidPart
  <1>2. CASE ~ IsRecurring(sub'.plan)
    BY <1>2 DEF Begins, PaidPart
  <1> QED
    BY <1>1, <1>2

LEMMA PaysWholeKeeps ==
    ASSUME PaysWhole
    PROVE  PaidPart'
  BY DEF PaysWhole, PaidPart

\* What a save, and a step of the gateway, leave of the open charges.
LEMMA OpenPlain ==
    ASSUME NEW s, DocInv(s), NEW os, NEW ps, NEW n, OpenPart(s, os, ps, n)
    PROVE  OpenPart(ToPlain(s), os, ps, n) /\ NoneAbandoned(ToPlain(s))
PROOF
  <1> DEFINE t == ToPlain(s)
  <1>1. /\ t.plan = s.plan /\ t.preId = s.preId
        /\ PendingCharges(t.charges) = PendingCharges(s.charges)
        /\ PendingCharges(s.charges) \subseteq DOMAIN s.charges
        /\ \A i \in DOMAIN s.charges : t.charges[i].link = s.charges[i].link
    BY PlainKeeps, DocTypes DEF SameTerms, SameLink
  <1>2. NoneAbandoned(t)
    <2>1. s \in Documents(s.charges) /\ s.charges \in [DOMAIN s.charges -> Charge]
      BY DocTypes DEF DocInv, DocumentOK
    <2>2. t.charges = [i \in DOMAIN s.charges |-> [s.charges[i] EXCEPT !.abandoned = {}]]
      BY <2>1 DEF ToPlain, Documents
    <2> QED
      BY <2>1, <2>2 DEF NoneAbandoned, Charge
  <1> HIDE DEF t
  <1>3. OpenPart(t, os, ps, n)
    BY <1>1 DEF OpenPart, OpenLinks, LinkedContract
  <1> QED
    BY <1>2, <1>3 DEF t

LEMMA OpenGoes ==
    ASSUME NEW s, DocInv(s), NEW n, GatewayGoes, OpenPart(s, orders, preapprovals, n)
    PROVE  OpenPart(s, orders', preapprovals', n)
PROOF
  <1>1. s.preId \in PreapprovalIds \cup {NoId}
    BY DocTypes
  <1>2. OpenLinks(s, orders', n)
    BY DEF OpenPart, OpenLinks, GatewayGoes, OrdersGo
  <1>3. LinkedContract(s, preapprovals', n)
    BY <1>1 DEF OpenPart, LinkedContract, GatewayGoes, CyclesGo
  <1> QED
    BY <1>2, <1>3 DEF OpenPart

LEMMA OpenUnlinked ==
    ASSUME NEW s, NEW os, NEW ps, NEW n, NoneLinked(s.charges),
           s.preId # NoId => ps[s.preId].contract = n /\ ps[s.preId].state # "ABSENT"
    PROVE  OpenPart(s, os, ps, n)
  BY GatewayIdAssumption DEF OpenPart, OpenLinks, LinkedContract, NoneLinked

\* Writing on the due charge: its link is dropped, or names a new order.
LEMMA OpenRelinked ==
    ASSUME NEW s, NEW t, NEW os, NEW ps, NEW n, OpenPart(s, os, ps, n),
           t.plan = s.plan, PendingCharges(t.charges) = PendingCharges(s.charges), NEW i,
           \A j \in PendingCharges(s.charges) : j # i => t.charges[j].link = s.charges[j].link,
           t.preId \in {s.preId, NoId},
           \/ t.charges[i].link \notin OrderIds
           \/ /\ os[t.charges[i].link].status # "ABSENT" /\ os[t.charges[i].link].contract = n
              /\ IsRecurring(s.plan) => os[t.charges[i].link].index = i
              /\ t.preId = NoId
    PROVE  OpenPart(t, os, ps, n)
PROOF
  <1>1. OpenLinks(t, os, n)
    BY DEF OpenPart, OpenLinks
  <1>2. LinkedContract(t, ps, n)
    BY DEF OpenPart, LinkedContract
  <1> QED
    BY <1>1, <1>2 DEF OpenPart

-----------------------------------------------------------------------------
(* What the gateway keeps *)

LEMMA OrdersSame ==
    ASSUME UNCHANGED orders
    PROVE  OrdersGo
  BY DEF OrdersGo

LEMMA CyclesSame ==
    ASSUME CyclesOK, UNCHANGED preapprovals
    PROVE  CyclesGo /\ CyclesOK'
  BY DEF CyclesGo, CyclesOK

LEMMA CreateGoes ==
    ASSUME OrdersOK(orders), NEW o \in OrderIds, NEW kind, NEW status \in {"PENDING", "CHALLENGE", "PAID", "REJECTED"},
           NEW index, NEW amount, NEW contract, CreateOrder(o, kind, status, index, amount, contract)
    PROVE  /\ OrdersGo
           /\ orders'[o].status = status /\ orders'[o].contract = contract
           /\ orders'[o].index = index
PROOF
  <1> DEFINE new == [status |-> status, kind |-> kind, index |-> index,
                     amount |-> amount, contract |-> contract]
  <1>1. orders' = [orders EXCEPT ![o] = new] /\ orders[o].status = "ABSENT"
    BY DEF CreateOrder
  <1>2. orders'[o] = new /\ \A q \in OrderIds \ {o} : orders'[q] = orders[q]
    BY <1>1 DEF OrdersOK
  <1> QED
    BY <1>1, <1>2 DEF OrdersGo

\* Issuing a charge, of a document without a preapproval.
LEMMA IssueOpens ==
    ASSUME "stale_key" \notin Faults, OrdersOK(orders), CyclesOK, NEW s, DocInv(s), NEW i,
           IsNextPending(s.charges, i), s.preId = NoId, NEW n, OpenPart(s, orders, preapprovals, n),
           CyclesGo, CyclesOK', IssueCharge(s, i, n)
    PROVE  GatewayGoes /\ OpenPart(sub', orders', preapprovals', n) /\ NoneAbandoned(sub')
PROOF
  <1>1. i \in DOMAIN s.charges /\ i \in PendingCharges(s.charges)
    BY DEF IsNextPending, PendingCharges
  <1> DEFINE t(o) == [s EXCEPT !.charges[i].link = o]
  <1>2. CASE Save(s) /\ OrdersGo
    <2>1. GatewayGoes
      BY <1>2 DEF GatewayGoes
    <2> QED
      BY <1>2, <2>1, OpenGoes, OpenPlain DEF Save
  <1>3. ASSUME NEW o \in OrderIds, CreatePixOrder(o, i, s.charges[i].amount, n)
        PROVE  /\ OrdersGo /\ orders'[o].status # "ABSENT"
               /\ orders'[o].contract = n /\ orders'[o].index = i
    <2>1. CASE CreateOrder(o, "PIX", "PENDING", i, s.charges[i].amount, n)
      BY <2>1, CreateGoes
    <2>2. CASE SameKey(o, i, s.charges[i].amount) /\ orders[o].contract = n /\ UNCHANGED orders
      BY <2>2, OrdersSame DEF SameKey, ExternalId
    <2> QED
      BY <1>3, <2>1, <2>2 DEF CreatePixOrder
  <1>4. ASSUME NEW o \in OrderIds, CreatePixOrder(o, i, s.charges[i].amount, n), Save(t(o))
        PROVE  GatewayGoes /\ OpenPart(sub', orders', preapprovals', n) /\ NoneAbandoned(sub')
    <2>1. GatewayGoes
      BY <1>3, <1>4 DEF GatewayGoes
    <2>2. OpenPart(s, orders', preapprovals', n)
      BY <2>1, OpenGoes
    <2>3. Rewritten(s, t(o))
      BY LinkForms DEF GatewayIds
    <2>4. /\ t(o).charges[i].link = o /\ t(o).preId = NoId
          /\ \A j \in DOMAIN s.charges \ {i} : t(o).charges[j] = s.charges[j]
      BY <1>1, DocTypes DEF DocInv, DocumentOK, Documents, Charge
    <2>5. /\ DocInv(t(o)) /\ t(o).plan = s.plan
          /\ PendingCharges(t(o).charges) = PendingCharges(s.charges)
      BY <2>3 DEF Rewritten
    <2> HIDE DEF t
    <2>6. OpenPart(t(o), orders', preapprovals', n)
      BY <1>3, <1>4, <2>2, <2>4, <2>5, OpenRelinked DEF PendingCharges
    <2> QED
      BY <1>4, <2>1, <2>5, <2>6, OpenPlain DEF Save
  <1> QED
    BY <1>2, <1>3, <1>4, OrdersSame DEF IssueCharge

\* One preapproval moves forward.
Forward(old, new) ==
    /\ new.state # "ABSENT" /\ Len(new.cycles) <= MaxCycles
    /\ old.state # "ABSENT" => new.contract = old.contract
    /\ \A c \in DOMAIN old.cycles :
          /\ c \in DOMAIN new.cycles
          /\ old.cycles[c].status = "PAID" => new.cycles[c].status = "PAID"
          /\ old.cycles[c].delivered => new.cycles[c].delivered

LEMMA ForwardGoes ==
    ASSUME PreapprovalsOK(preapprovals), CyclesOK, NEW p \in PreapprovalIds, NEW new,
           Forward(preapprovals[p], new), preapprovals' = [preapprovals EXCEPT ![p] = new]
    PROVE  CyclesGo /\ CyclesOK' /\ preapprovals'[p] = new
PROOF
  <1>1. preapprovals'[p] = new /\ \A q \in PreapprovalIds \ {p} : preapprovals'[q] = preapprovals[q]
    BY DEF PreapprovalsOK
  <1>2. CyclesGo
    BY <1>1 DEF CyclesGo, Forward
  <1>3. CyclesOK'
    BY <1>1 DEF CyclesOK, Forward
  <1> QED
    BY <1>1, <1>2, <1>3

\* The forms of a move of a preapproval that exists.
LEMMA MovesForward ==
    ASSUME NEW pre \in Preapprovals, pre.state # "ABSENT", Len(pre.cycles) <= MaxCycles
    PROVE  /\ Forward(pre, [pre EXCEPT !.state = "CANCELLED"])
           /\ \A n : Forward(pre, [pre EXCEPT !.amount = n])
           /\ Len(pre.cycles) < MaxCycles =>
                 Forward(pre, [pre EXCEPT !.cycles =
                                  Append(@, [status |-> "SCHEDULED", delivered |-> FALSE])])
           /\ \A c \in DOMAIN pre.cycles :
                 Forward(pre, [pre EXCEPT !.cycles[c].delivered = TRUE])
           /\ \A outcome : \A c \in DOMAIN pre.cycles :
                 pre.cycles[c].status # "PAID" =>
                    Forward(pre, [pre EXCEPT !.cycles[c].status = outcome])
PROOF
  <1>1. /\ pre.cycles \in Seq(Cycles) /\ Len(pre.cycles) \in Nat /\ MaxCycles \in Nat
        /\ DOMAIN pre.cycles = 1 .. Len(pre.cycles)
    BY EnvironmentAssumption DEF Preapprovals
  <1>2. Forward(pre, [pre EXCEPT !.state = "CANCELLED"])
    BY DEF Forward, Preapprovals
  <1>3. \A n : Forward(pre, [pre EXCEPT !.amount = n])
    BY DEF Forward, Preapprovals
  <1>4. ASSUME Len(pre.cycles) < MaxCycles
        PROVE  Forward(pre, [pre EXCEPT !.cycles =
                                Append(@, [status |-> "SCHEDULED", delivered |-> FALSE])])
    <2> DEFINE cycle == [status |-> "SCHEDULED", delivered |-> FALSE]
               longer == Append(pre.cycles, cycle)
               new == [pre EXCEPT !.cycles = longer]
    <2>1. cycle \in Cycles
      BY DEF Cycles
    <2> HIDE DEF cycle
    <2>2. /\ Len(longer) = Len(pre.cycles) + 1 /\ DOMAIN longer = 1 .. Len(longer)
          /\ \A c \in 1 .. Len(pre.cycles) : longer[c] = pre.cycles[c]
      BY <1>1, <2>1
    <2> HIDE DEF longer
    <2>3. new.cycles = longer /\ new.state = pre.state /\ new.contract = pre.contract
      BY DEF Preapprovals
    <2> HIDE DEF new
    <2>4. Len(longer) <= MaxCycles /\ \A c \in DOMAIN pre.cycles : c \in DOMAIN longer
      BY <1>1, <1>4, <2>2
    <2>5. Forward(pre, new)
      BY <1>1, <2>2, <2>3, <2>4 DEF Forward
    <2> QED
      BY <2>5 DEF new, longer, cycle
  <1>5. ASSUME NEW c \in DOMAIN pre.cycles, NEW cycle,
               pre.cycles[c].status = "PAID" => cycle.status = "PAID",
               pre.cycles[c].delivered => cycle.delivered
        PROVE  Forward(pre, [pre EXCEPT !.cycles = [pre.cycles EXCEPT ![c] = cycle]])
    <2> DEFINE other == [pre.cycles EXCEPT ![c] = cycle]
               new == [pre EXCEPT !.cycles = other]
    <2>1. /\ DOMAIN other = DOMAIN pre.cycles /\ other[c] = cycle
          /\ \A d \in DOMAIN pre.cycles \ {c} : other[d] = pre.cycles[d]
      BY <1>1
    <2>2. Len(other) = Len(pre.cycles)
      BY <1>1
    <2> HIDE DEF other
    <2>3. new.cycles = other /\ new.state = pre.state /\ new.contract = pre.contract
      BY DEF Preapprovals
    <2> HIDE DEF new
    <2>4. Forward(pre, new)
      BY <1>5, <2>1, <2>2, <2>3 DEF Forward
    <2> QED
      BY <2>4 DEF new, other
  <1>6. \A c \in DOMAIN pre.cycles : pre.cycles[c] \in Cycles
    BY <1>1
  <1>7. ASSUME NEW c \in DOMAIN pre.cycles
        PROVE  Forward(pre, [pre EXCEPT !.cycles[c].delivered = TRUE])
    <2> DEFINE cycle == [pre.cycles[c] EXCEPT !.delivered = TRUE]
    <2>1. cycle.status = pre.cycles[c].status /\ cycle.delivered
      BY <1>6 DEF Cycles
    <2> HIDE DEF cycle
    <2>2. Forward(pre, [pre EXCEPT !.cycles = [pre.cycles EXCEPT ![c] = cycle]])
      BY <1>5, <2>1
    <2> QED
      BY <2>2 DEF cycle
  <1>8. ASSUME NEW c \in DOMAIN pre.cycles, NEW outcome, pre.cycles[c].status # "PAID"
        PROVE  Forward(pre, [pre EXCEPT !.cycles[c].status = outcome])
    <2> DEFINE cycle == [pre.cycles[c] EXCEPT !.status = outcome]
    <2>1. cycle.delivered = pre.cycles[c].delivered
      BY <1>6 DEF Cycles
    <2> HIDE DEF cycle
    <2>2. Forward(pre, [pre EXCEPT !.cycles = [pre.cycles EXCEPT ![c] = cycle]])
      BY <1>5, <1>8, <2>1
    <2> QED
      BY <2>2 DEF cycle
  <1> QED
    BY <1>2, <1>3, <1>4, <1>7, <1>8

LEMMA ReleaseGoes ==
    ASSUME PreapprovalsOK(preapprovals), CyclesOK, NEW n, OpenPart(sub, orders, preapprovals, n),
           DocInv(sub), ReleasePreapproval(sub)
    PROVE  CyclesGo /\ CyclesOK'
PROOF
  <1>1. CASE UNCHANGED preapprovals
    BY <1>1, CyclesSame
  <1>2. CASE sub.preId # NoId /\ EndPreapproval(sub.preId)
    <2>1. sub.preId \in PreapprovalIds
      BY <1>2, DocTypes
    <2>2. /\ preapprovals[sub.preId] \in Preapprovals /\ preapprovals[sub.preId].state # "ABSENT"
          /\ Len(preapprovals[sub.preId].cycles) <= MaxCycles
      BY <1>2, <2>1 DEF OpenPart, LinkedContract, PreapprovalsOK, CyclesOK
    <2>3. Forward(preapprovals[sub.preId], [preapprovals[sub.preId] EXCEPT !.state = "CANCELLED"])
      BY <2>2, MovesForward
    <2> QED
      BY <1>2, <2>1, <2>3, ForwardGoes DEF EndPreapproval
  <1> QED
    BY <1>1, <1>2 DEF ReleasePreapproval

-----------------------------------------------------------------------------
(* What every step does *)

GoesOn ==
    /\ GatewayGoes
    /\ OpenPart(sub', orders', preapprovals', Contract') /\ NoneAbandoned(sub')
    /\ PaysNothing \/ PaysWhole \/ Begins \/ \E i : PaysNext(i)

LEMMA GoesOnKeeps ==
    ASSUME IInv, CreditInv, GoesOn
    PROVE  CreditInv'
PROOF
  <1>1. PaidPart'
    BY PaysNothingKeeps, PaysNextKeeps, PaysWholeKeeps, BeginsKeeps DEF GoesOn, CreditInv
  <1> QED
    BY <1>1 DEF GoesOn, CreditInv, GatewayGoes

LEMMA SameGatewayGoes ==
    ASSUME CreditInv, UNCHANGED <<orders, preapprovals>>
    PROVE  GatewayGoes
  BY OrdersSame, CyclesSame DEF GatewayGoes, CreditInv

\* The document is left alone.
LEMMA SameGoesOn ==
    ASSUME IInv, CreditInv, UNCHANGED <<sub, acceptances>>, GatewayGoes
    PROVE  GoesOn
PROOF
  <1>1. Contract' = Contract
    BY DEF Contract
  <1>2. OpenPart(sub, orders', preapprovals', Contract)
    <2>1. CASE DocInv(sub)
      BY <2>1, OpenGoes DEF CreditInv
    <2>2. CASE sub = NoSubscription
      BY <2>2, NoSubscriptionFacts DEF OpenPart, OpenLinks, LinkedContract, PendingCharges
    <2> QED
      BY <2>1, <2>2 DEF IInv
  <1> QED
    BY <1>1, <1>2 DEF GoesOn, CreditInv, PaysNothing

\* It is rewritten: no charge is paid.
LEMMA RewrittenGoesOn ==
    ASSUME IInv, DocInv(sub), acceptances' = acceptances, GatewayGoes, NEW t, DocInv(t),
           t.plan = sub.plan, KeepsPayments(sub, t),
           PaidCharges(t.charges) = PaidCharges(sub.charges),
           OpenPart(t, orders', preapprovals', Contract), Save(t)
    PROVE  GoesOn
PROOF
  <1>1. Contract' = Contract
    BY DEF Contract
  <1>2. OpenPart(sub', orders', preapprovals', Contract) /\ NoneAbandoned(sub')
    BY OpenPlain DEF Save
  <1>3. Rewritten(t, sub')
    BY SaveStep DEF Save
  <1>4. PaysNothing
    BY <1>1, <1>3 DEF PaysNothing, Rewritten, KeepsPayments, Contracted, DocInv
  <1> QED
    BY <1>1, <1>2, <1>4 DEF GoesOn

\* The document `u` is `t` with its charge `i` paid, or all of them.
PaysOff(t, u, i) ==
    /\ Continues(t, u) /\ u.status = "ACTIVE" /\ u.preId = t.preId /\ NoneLinked(u.charges)
    /\ IsRecurring(t.plan) =>
          /\ PaidCharges(u.charges) = PaidCharges(t.charges) \cup {i}
          /\ u.charges[i].link = t.charges[i].link

PaidOff(t, i) ==
    /\ OpenPart(sub', orders', preapprovals', Contract') /\ NoneAbandoned(sub')
    /\ Contract' = Contract /\ Contracted /\ Contracted'
    /\ sub'.plan = sub.plan /\ KeepsPayments(sub, sub')
    /\ i \in PaidCharges(sub'.charges) /\ sub'.charges[i].amount = t.charges[i].amount
    /\ IsRecurring(sub.plan) =>
          /\ i \notin PaidCharges(sub.charges)
          /\ PaidCharges(sub'.charges) = PaidCharges(sub.charges) \cup {i}
          /\ sub'.charges[i].link = t.charges[i].link

LEMMA ConfirmPaysOff ==
    ASSUME NEW t, DocInv(t), NEW i \in PendingCharges(t.charges),
           IsRecurring(t.plan) => IsNextPending(t.charges, i), WithinBound(Confirm(t, i))
    PROVE  PaysOff(t, Confirm(t, i), i)
  BY ConfirmStep DEF PaysOff, Pays

LEMMA SavesPaid ==
    ASSUME NEW t, DocInv(t), NEW i \in PendingCharges(t.charges), NEW u, PaysOff(t, u, i), Save(u),
           NEW n, t.preId # NoId => preapprovals'[t.preId].contract = n
                                    /\ preapprovals'[t.preId].state # "ABSENT"
    PROVE  /\ OpenPart(sub', orders', preapprovals', n) /\ NoneAbandoned(sub')
           /\ DocInv(sub') /\ sub'.plan = t.plan /\ KeepsPayments(t, sub')
           /\ i \in PaidCharges(sub'.charges) /\ sub'.charges[i].amount = t.charges[i].amount
           /\ IsRecurring(t.plan) =>
                /\ PaidCharges(sub'.charges) = PaidCharges(t.charges) \cup {i}
                /\ sub'.charges[i].link = t.charges[i].link
PROOF
  <1>1. /\ DocInv(u) /\ u.plan = t.plan /\ t.coupon = u.coupon /\ KeepsPayments(t, u)
    BY DEF PaysOff, Continues
  <1>2. /\ Rewritten(u, sub') /\ sub' = ToPlain(u)
        /\ \A j \in DOMAIN u.charges : sub'.charges[j].link = u.charges[j].link
    BY <1>1, SaveStep, PlainKeeps DEF Save
  <1>3. /\ DocInv(sub') /\ sub'.plan = t.plan /\ sub'.coupon = t.coupon
        /\ PaidCharges(sub'.charges) = PaidCharges(u.charges)
        /\ KeepsPayments(t, sub')
    BY <1>1, <1>2 DEF Rewritten, KeepsPayments
  <1>4. OpenPart(sub', orders', preapprovals', n) /\ NoneAbandoned(sub')
    <2>1. OpenPart(u, orders', preapprovals', n)
      BY OpenUnlinked DEF PaysOff
    <2> QED
      BY <1>1, <1>2, <2>1, OpenPlain
  <1>5. i \in PaidCharges(u.charges)
    <2>1. CASE IsRecurring(t.plan)
      BY <2>1 DEF PaysOff
    <2>2. CASE ~ IsRecurring(t.plan)
      <3>1. i \in DOMAIN u.charges
        BY <1>1, <2>2 DEF DocInv, PendingCharges
      <3>2. PendingCharges(u.charges) = {}
        BY <1>1, <2>2 DEF PaysOff, DocInv, WhollyPaidOrUnpaid
      <3> QED
        BY <3>1, <3>2 DEF PendingCharges
    <2> QED
      BY <2>1, <2>2
  <1>6. sub'.charges[i].amount = t.charges[i].amount
    <2>1. i \in DOMAIN sub'.charges /\ i \in DOMAIN t.charges
      BY <1>3, <1>5 DEF PaidCharges, PendingCharges
    <2> QED
      BY <1>3, <2>1 DEF DocInv, Priced
  <1>7. IsRecurring(t.plan) =>
          /\ PaidCharges(sub'.charges) = PaidCharges(t.charges) \cup {i}
          /\ sub'.charges[i].link = t.charges[i].link
    BY <1>2, <1>3, <1>5 DEF PaysOff, PaidCharges
  <1> QED
    BY <1>3, <1>4, <1>5, <1>6, <1>7

LEMMA SavesPaidOff ==
    ASSUME DocInv(sub), acceptances' = acceptances, NEW t, Rewritten(sub, t),
           NEW i \in PendingCharges(t.charges), NEW u, PaysOff(t, u, i), Save(u),
           t.preId # NoId =>
              /\ preapprovals'[t.preId].contract = Contract
              /\ preapprovals'[t.preId].state # "ABSENT"
    PROVE  PaidOff(t, i)
PROOF
  <1>1. Contract' = Contract
    BY DEF Contract
  <1>2. /\ DocInv(t) /\ t.plan = sub.plan /\ KeepsPayments(sub, t)
        /\ PaidCharges(t.charges) = PaidCharges(sub.charges)
    BY DEF Rewritten
  <1>3. /\ OpenPart(sub', orders', preapprovals', Contract) /\ NoneAbandoned(sub')
        /\ DocInv(sub') /\ sub'.plan = t.plan /\ KeepsPayments(t, sub')
        /\ i \in PaidCharges(sub'.charges) /\ sub'.charges[i].amount = t.charges[i].amount
        /\ IsRecurring(t.plan) =>
             /\ PaidCharges(sub'.charges) = PaidCharges(t.charges) \cup {i}
             /\ sub'.charges[i].link = t.charges[i].link
    BY <1>2, SavesPaid
  <1>4. KeepsPayments(sub, sub') /\ i \notin PaidCharges(sub.charges)
    BY <1>2, <1>3 DEF KeepsPayments, PendingCharges
  <1> QED
    BY <1>1, <1>2, <1>3, <1>4 DEF PaidOff, Contracted, DocInv

\* A charge an order of the contract paid, or that cost nothing.
OrderOf(o, i) ==
    /\ o \in OrderIds /\ orders'[o].status = "PAID" /\ orders'[o].contract = Contract
    /\ IsRecurring(sub.plan) => orders'[o].index = i

LEMMA PaidGoesOn ==
    ASSUME GatewayGoes, NEW t, NEW i, PaidOff(t, i),
           \/ OrderOf(t.charges[i].link, i)
           \/ t.charges[i].amount = 0 /\ t.charges[i].link \notin OrderIds
           \/ IsRecurring(sub.plan) /\ t.charges[i].link \notin OrderIds /\ ByNewCycle
    PROVE  GoesOn
PROOF
  <1>1. CASE IsRecurring(sub.plan)
    <2>1. PaysNext(i)
      BY <1>1 DEF PaidOff, OrderOf, PaysNext
    <2> QED
      BY <2>1 DEF GoesOn, PaidOff
  <1>2. CASE ~ IsRecurring(sub.plan)
    <2>1. PaysWhole
      BY <1>2 DEF PaidOff, OrderOf, PaysWhole, CreditedOrders, Free
    <2> QED
      BY <2>1 DEF GoesOn, PaidOff
  <1> QED
    BY <1>1, <1>2

-----------------------------------------------------------------------------
(* Requests of the student *)

LEMMA ChoosePlanCredits ==
    ASSUME MoneyOnly, IInv, CreditInv, NEW plan \in Plans, NEW method \in Methods,
           NEW coupon \in Coupons, ChoosePlan(plan, method, coupon)
    PROVE  GoesOn
PROOF
  <1> DEFINE s == BuildSubscription(plan, method, coupon, now)
  <1>1. now \in Nat /\ Contract \in Nat /\ OrdersOK(orders) /\ CyclesOK
    BY WorldParts DEF IInv, CreditInv
  <1>2. DocInv(s) /\ IsNextPending(s.charges, 1)
    BY <1>1, BuildInv
  <1>3. /\ s.preId = NoId /\ NoneLinked(s.charges) /\ PaidCharges(s.charges) = {}
        /\ s.charges[1].link = NoId
    <2>1. s.charges = [i \in 1 .. Scheduled(plan) |-> NewCharge(plan, coupon, i)] /\ s.preId = NoId
      BY DEF BuildSubscription
    <2>2. 1 \in DOMAIN s.charges
      BY <1>2 DEF IsNextPending, PendingCharges
    <2> QED
      BY <2>1, <2>2 DEF NewCharge, NoneLinked, PendingCharges, PaidCharges
  <1>4. /\ Contract' = Contract + 1 /\ UNCHANGED preapprovals
        /\ IssueCharge(s, 1, Contract + 1) \/ ConfirmZeroCharge(s, 1)
    BY <1>1, WorldParts DEF IInv, ChoosePlan, Contract
  <1>5. CyclesGo /\ CyclesOK'
    BY <1>1, <1>4, CyclesSame
  <1>6. OpenPart(s, orders, preapprovals, Contract + 1)
    BY <1>3, OpenUnlinked
  <1> HIDE DEF s
  <1>7. CASE IssueCharge(s, 1, Contract + 1)
    <2>1. GatewayGoes /\ OpenPart(sub', orders', preapprovals', Contract + 1) /\ NoneAbandoned(sub')
      BY <1>1, <1>2, <1>3, <1>5, <1>6, <1>7, IssueOpens DEF MoneyOnly
    <2>2. PaidCharges(sub'.charges) = {}
      BY <1>1, <1>2, <1>3, <1>7, IssueChargeStep DEF Rewritten
    <2> QED
      BY <1>4, <2>1, <2>2 DEF GoesOn, Begins
  <1>8. CASE ConfirmZeroCharge(s, 1)
    <2>1. /\ s.charges[1].amount = 0 /\ UNCHANGED orders /\ WithinBound(Confirm(s, 1))
          /\ Save(Confirm(s, 1))
      BY <1>8 DEF ConfirmZeroCharge, ConfirmCharge, SaveAndSync
    <2>2. GatewayGoes
      BY <1>5, <2>1, OrdersSame DEF GatewayGoes
    <2>3. 1 \in PendingCharges(s.charges)
      BY <1>2 DEF IsNextPending
    <2>4. PaysOff(s, Confirm(s, 1), 1)
      BY <1>2, <2>1, <2>3, ConfirmPaysOff
    <2>5. /\ OpenPart(sub', orders', preapprovals', Contract + 1) /\ NoneAbandoned(sub')
          /\ sub'.plan = s.plan
          /\ 1 \in PaidCharges(sub'.charges) /\ sub'.charges[1].amount = 0
          /\ IsRecurring(s.plan) =>
               PaidCharges(sub'.charges) = {1} /\ sub'.charges[1].link = NoId
      <3> HIDE DEF PaysOff
      <3> QED
        BY <1>2, <1>3, <2>1, <2>3, <2>4, SavesPaid
    <2>6. Begins
      BY <2>5 DEF Begins, Free
    <2> QED
      BY <1>4, <2>2, <2>5, <2>6 DEF GoesOn
  <1> QED
    BY <1>4, <1>7, <1>8

\* Confirming, with nothing else changing, what an order of the contract paid.
LEMMA ConfirmsCredited ==
    ASSUME IInv, CreditInv, DocInv(sub), UNCHANGED <<acceptances, orders, preapprovals>>,
           NEW i \in PendingCharges(sub.charges), IsRecurring(sub.plan) => IsNextPending(sub.charges, i),
           OrderPaid(sub.charges[i].link), ConfirmCharge(sub, i)
    PROVE  GoesOn
PROOF
  <1>1. GatewayGoes
    BY OrdersSame, CyclesSame DEF GatewayGoes, CreditInv
  <1>2. OrderOf(sub.charges[i].link, i)
    BY DEF OrderPaid, OrderOf, CreditInv, OpenPart, OpenLinks
  <1>3. WithinBound(Confirm(sub, i)) /\ Save(Confirm(sub, i))
    BY DEF ConfirmCharge, SaveAndSync
  <1>4. PaysOff(sub, Confirm(sub, i), i)
    BY <1>3, ConfirmPaysOff
  <1>5. PaidOff(sub, i)
    BY <1>3, <1>4, RewrittenSelf, SavesPaidOff DEF CreditInv, OpenPart, LinkedContract
  <1> QED
    BY <1>1, <1>2, <1>5, PaidGoesOn

LEMMA PayRecurringCredits ==
    ASSUME IInv, CreditInv, NEW i, NEW p \in PreapprovalIds, PayRecurring(i, p)
    PROVE  GoesOn
PROOF
  <1> DEFINE t == [sub EXCEPT !.charges[i].link = p, !.preId = p]
             new == Authorized(sub.charges[i].amount, Contract)
  <1>1. /\ IsNextPending(sub.charges, i) /\ IsRecurring(sub.plan)
        /\ preapprovals[p].state = "ABSENT"
        /\ preapprovals' = [preapprovals EXCEPT ![p] = new]
        /\ Save(t) \/ UNCHANGED sub
        /\ UNCHANGED <<acceptances, orders>>
    BY DEF PayRecurring, CardContract
  <1>2. DocInv(sub) /\ i \in DOMAIN sub.charges /\ i \in PendingCharges(sub.charges)
    BY <1>1, NextPendingHas
  <1>3. PreapprovalsOK(preapprovals) /\ CyclesOK
    BY WorldParts DEF IInv, CreditInv
  <1>4. /\ new.state # "ABSENT" /\ new.contract = Contract /\ new.cycles = <<>>
    BY DEF Authorized
  <1>5. CyclesGo /\ CyclesOK' /\ preapprovals'[p] = new
    <2>1. preapprovals[p].cycles = <<>>
      BY <1>1, <1>3 DEF CyclesOK
    <2>2. Forward(preapprovals[p], new)
      BY <1>1, <1>4, <2>1, EnvironmentAssumption DEF Forward
    <2> HIDE DEF new
    <2> QED
      BY <1>1, <1>3, <2>2, ForwardGoes
  <1> HIDE DEF new
  <1>6. GatewayGoes
    BY <1>1, <1>5, OrdersSame DEF GatewayGoes
  <1>7. CASE Save(t)
    <2>1. Rewritten(sub, t)
      BY <1>1, <1>2, LinkForms
    <2>2. /\ t.preId = p /\ t.charges[i].link = p
          /\ \A j \in DOMAIN sub.charges \ {i} : t.charges[j] = sub.charges[j]
      BY <1>2, DocTypes DEF DocInv, DocumentOK, Documents, Charge
    <2> HIDE DEF t
    <2>3. \A j \in PendingCharges(t.charges) : t.charges[j].link \notin OrderIds
      <3> SUFFICES ASSUME NEW j \in PendingCharges(t.charges) PROVE t.charges[j].link \notin OrderIds
        OBVIOUS
      <3>1. j \in PendingCharges(sub.charges) /\ j \in DOMAIN sub.charges
        BY <2>1 DEF Rewritten, PendingCharges
      <3>2. CASE j = i
        BY <2>2, <3>2, GatewayIdAssumption
      <3>3. CASE j # i
        <4>1. ~ IsNextPending(sub.charges, j)
          BY <1>1, <1>2, <3>3, OneIsNext
        <4>2. sub.charges[j].link = NoId
          BY <1>1, <1>2, <3>1, <4>1 DEF DocInv, OnlyNextIsLinked
        <4> QED
          BY <2>2, <3>1, <3>3, <4>2, GatewayIdAssumption
      <3> QED
        BY <3>2, <3>3
    <2>4. OpenPart(t, orders', preapprovals', Contract)
      BY <1>4, <1>5, <2>2, <2>3 DEF OpenPart, OpenLinks, LinkedContract
    <2> QED
      BY <1>1, <1>2, <1>6, <1>7, <2>1, <2>4, RewrittenGoesOn DEF Rewritten
  <1>8. CASE UNCHANGED sub
    BY <1>1, <1>6, <1>8, SameGoesOn
  <1> QED
    BY <1>1, <1>7, <1>8

\* Confirming a rewriting of the document that an order paid or that is free.
LEMMA ConfirmGoesOn ==
    ASSUME DocInv(sub), acceptances' = acceptances, GatewayGoes, NEW t, Rewritten(sub, t),
           NEW i \in PendingCharges(t.charges), IsRecurring(t.plan) => IsNextPending(t.charges, i),
           t.preId # NoId =>
              /\ preapprovals'[t.preId].contract = Contract
              /\ preapprovals'[t.preId].state # "ABSENT",
           \/ OrderOf(t.charges[i].link, i)
           \/ t.charges[i].amount = 0 /\ t.charges[i].link \notin OrderIds,
           ConfirmCharge(t, i)
    PROVE  GoesOn
PROOF
  <1>1. WithinBound(Confirm(t, i)) /\ Save(Confirm(t, i))
    BY DEF ConfirmCharge, SaveAndSync
  <1>2. PaysOff(t, Confirm(t, i), i)
    BY <1>1, ConfirmPaysOff DEF Rewritten
  <1>3. PaidOff(t, i)
    BY <1>1, <1>2, SavesPaidOff
  <1> QED
    BY <1>3, PaidGoesOn

LinkedTo(s, t, i, o) ==
    /\ Rewritten(s, t) /\ t.charges[i].link = o /\ t.preId = s.preId
    /\ i \in PendingCharges(t.charges) /\ IsNextPending(t.charges, i)
    /\ \A j \in DOMAIN s.charges \ {i} : t.charges[j] = s.charges[j]

LEMMA NewLink ==
    ASSUME NEW s, DocInv(s), NEW i, IsNextPending(s.charges, i), NEW o \in OrderIds
    PROVE  LinkedTo(s, [s EXCEPT !.charges[i].link = o], i, o)
PROOF
  <1> DEFINE t == [s EXCEPT !.charges[i].link = o]
  <1>1. Rewritten(s, t) /\ IsNextPending(t.charges, i)
    BY LinkForms DEF GatewayIds
  <1>2. i \in DOMAIN s.charges /\ s \in Documents(s.charges) /\ s.charges \in [DOMAIN s.charges -> Charge]
    BY DocTypes DEF IsNextPending, PendingCharges, DocInv, DocumentOK
  <1>3. /\ t.charges[i].link = o /\ t.preId = s.preId
        /\ \A j \in DOMAIN s.charges \ {i} : t.charges[j] = s.charges[j]
    BY <1>2 DEF Documents, Charge
  <1>4. i \in PendingCharges(t.charges)
    BY <1>1 DEF IsNextPending
  <1> HIDE DEF t
  <1>5. LinkedTo(s, t, i, o)
    BY <1>1, <1>3, <1>4 DEF LinkedTo
  <1> QED
    BY <1>5 DEF t

\* A plan sold for a period has no preapproval.
LEMMA ConfirmPaidCardCredits ==
    ASSUME IInv, CreditInv, NEW i, ConfirmPaidCard(i)
    PROVE  GoesOn
PROOF
  <1>1. /\ IsNextPending(sub.charges, i) /\ ~ IsRecurring(sub.plan)
        /\ UNCHANGED <<acceptances, orders, preapprovals>>
    BY DEF ConfirmPaidCard, CardContract, gateway
  <1>2. PICK o \in sub.charges[i].abandoned \cup {sub.charges[i].link} :
           /\ OrderPaid(o)
           /\ ConfirmCharge([sub EXCEPT !.charges[i].link = o], i)
    BY DEF ConfirmPaidCard
  <1> DEFINE t == [sub EXCEPT !.charges[i].link = o]
  <1>3. DocInv(sub) /\ i \in DOMAIN sub.charges /\ i \in PendingCharges(sub.charges)
    BY <1>1, NextPendingHas
  <1>4. o \in OrderIds /\ orders[o].status = "PAID" /\ o = sub.charges[i].link
    BY <1>2, <1>3 DEF OrderPaid, CreditInv, NoneAbandoned
  <1>5. OrderOf(o, i)
    BY <1>1, <1>3, <1>4 DEF OrderOf, CreditInv, OpenPart, OpenLinks
  <1>6. LinkedTo(sub, t, i, o) /\ ConfirmCharge(t, i)
    BY <1>1, <1>2, <1>3, <1>4, NewLink
  <1> HIDE DEF t
  <1>7. /\ Rewritten(sub, t) /\ t.charges[i].link = o /\ t.preId = sub.preId
        /\ i \in PendingCharges(t.charges) /\ IsNextPending(t.charges, i)
    BY <1>6 DEF LinkedTo
  <1>8. t.preId = NoId
    BY <1>1, <1>3, <1>7 DEF DocInv
  <1>9. GatewayGoes
    BY <1>1, OrdersSame, CyclesSame DEF GatewayGoes, CreditInv
  <1> QED
    BY <1>1, <1>3, <1>5, <1>6, <1>7, <1>8, <1>9, ConfirmGoesOn

LEMMA PayClosedCredits ==
    ASSUME IInv, CreditInv, NEW i, NEW o \in OrderIds,
           NEW outcome \in {"PENDING", "CHALLENGE", "PAID", "REJECTED"}, PayClosed(i, o, outcome)
    PROVE  GoesOn
PROOF
  <1> DEFINE linked == [sub EXCEPT !.charges[i].link = o]
  <1>1. /\ IsNextPending(sub.charges, i) /\ ~ IsRecurring(sub.plan)
        /\ CreateOrder(o, "CARD", outcome, i, sub.total, Contract)
        /\ \/ outcome = "PAID" /\ ConfirmCharge(linked, i)
           \/ Save(linked)
           \/ UNCHANGED sub
        /\ UNCHANGED <<acceptances, preapprovals>>
    BY DEF PayClosed, CardContract
  <1>2. DocInv(sub) /\ i \in DOMAIN sub.charges /\ i \in PendingCharges(sub.charges) /\ OrdersOK(orders)
    BY <1>1, NextPendingHas, WorldParts DEF IInv
  <1>3. /\ OrdersGo /\ orders'[o].status = outcome /\ orders'[o].contract = Contract
        /\ orders'[o].index = i
    BY <1>1, <1>2, CreateGoes
  <1>4. GatewayGoes
    BY <1>1, <1>3, CyclesSame DEF GatewayGoes, CreditInv
  <1>5. LinkedTo(sub, linked, i, o)
    BY <1>1, <1>2, NewLink
  <1> HIDE DEF linked
  <1>6. linked.preId = NoId
    BY <1>1, <1>2, <1>5 DEF LinkedTo, DocInv
  <1>7. CASE outcome = "PAID" /\ ConfirmCharge(linked, i)
    <2>1. OrderOf(o, i)
      BY <1>3, <1>7 DEF OrderOf
    <2> QED
      BY <1>1, <1>2, <1>4, <1>5, <1>6, <1>7, <2>1, ConfirmGoesOn DEF LinkedTo
  <1>8. CASE Save(linked)
    <2>1. /\ DocInv(linked) /\ linked.plan = sub.plan /\ KeepsPayments(sub, linked)
          /\ PaidCharges(linked.charges) = PaidCharges(sub.charges)
          /\ PendingCharges(linked.charges) = PendingCharges(sub.charges)
      BY <1>5 DEF LinkedTo, Rewritten
    <2>2. OpenPart(sub, orders', preapprovals', Contract)
      BY <1>2, <1>4, OpenGoes DEF CreditInv
    <2>3. OpenPart(linked, orders', preapprovals', Contract)
      BY <1>1, <1>3, <1>5, <1>6, <2>1, <2>2, OpenRelinked DEF PendingCharges, LinkedTo
    <2> QED
      BY <1>1, <1>2, <1>4, <1>8, <2>1, <2>3, RewrittenGoesOn
  <1>9. CASE UNCHANGED sub
    BY <1>1, <1>4, <1>9, SameGoesOn
  <1> QED
    BY <1>1, <1>7, <1>8, <1>9

LEMMA RestartCredits ==
    ASSUME IInv, CreditInv, NEW i, RestartCardPayment(i)
    PROVE  GoesOn
PROOF
  <1> DEFINE id == sub.charges[i].link
             set == [sub EXCEPT !.charges[i].abandoned = @ \cup {id}, !.charges[i].link = NoId]
  <1>1. /\ IsNextPending(sub.charges, i) /\ id # NoId
        /\ UNCHANGED <<acceptances, orders, preapprovals>>
        /\ \/ OrderPaid(id) /\ ConfirmCharge(sub, i)
           \/ Save(set)
    BY DEF RestartCardPayment, gateway
  <1>2. DocInv(sub) /\ i \in DOMAIN sub.charges /\ i \in PendingCharges(sub.charges)
    BY <1>1, NextPendingHas
  <1>3. CASE OrderPaid(id) /\ ConfirmCharge(sub, i)
    BY <1>1, <1>2, <1>3, ConfirmsCredited
  <1>4. CASE Save(set)
    <2>1. id \in GatewayIds
      BY <1>1, <1>2, DocTypes DEF Charge
    <2>2. Rewritten(sub, set)
      BY <1>1, <1>2, <2>1, LinkForms
    <2>3. /\ set.charges[i].link = NoId /\ set.preId = sub.preId
          /\ \A j \in DOMAIN sub.charges \ {i} : set.charges[j] = sub.charges[j]
      BY <1>2, DocTypes DEF DocInv, DocumentOK, Documents, Charge
    <2> HIDE DEF set
    <2>4. /\ DocInv(set) /\ set.plan = sub.plan /\ KeepsPayments(sub, set)
          /\ PaidCharges(set.charges) = PaidCharges(sub.charges)
          /\ PendingCharges(set.charges) = PendingCharges(sub.charges)
      BY <2>2 DEF Rewritten
    <2>5. OpenPart(set, orders', preapprovals', Contract)
      BY <1>1, <2>3, <2>4, OpenRelinked, GatewayIdAssumption DEF CreditInv, PendingCharges
    <2>6. GatewayGoes
      BY <1>1, OrdersSame, CyclesSame DEF GatewayGoes, CreditInv
    <2> QED
      BY <1>1, <1>2, <1>4, <2>4, <2>5, <2>6, RewrittenGoesOn
  <1> QED
    BY <1>1, <1>3, <1>4

LEMMA ChangeMethodCredits ==
    ASSUME MoneyOnly, IInv, CreditInv, NEW method \in Methods, ChangePaymentMethod(method)
    PROVE  GoesOn
PROOF
  <1> DEFINE t(i) == [sub EXCEPT !.method = method, !.preId = NoId, !.charges[i].link = NoId]
  <1>1. ReleasePreapproval(sub) /\ acceptances' = acceptances
    BY DEF ChangePaymentMethod
  <1>2. PICK i \in DOMAIN sub.charges :
          /\ IsNextPending(sub.charges, i)
          /\ IssueCharge(t(i), i, Contract) \/ ConfirmZeroCharge(t(i), i)
    BY DEF ChangePaymentMethod
  <1>3. /\ DocInv(sub) /\ i \in PendingCharges(sub.charges) /\ OrdersOK(orders)
        /\ PreapprovalsOK(preapprovals) /\ Contract \in Nat
    BY <1>2, NextPendingHas, WorldParts DEF IInv
  <1> DEFINE s == t(i)
  <1>4. Rewritten(sub, s) /\ IsNextPending(s.charges, i)
    BY <1>2, <1>3, LinkForms
  <1>5. /\ s.preId = NoId /\ s.charges[i].link = NoId
        /\ \A j \in DOMAIN sub.charges \ {i} : s.charges[j] = sub.charges[j]
    BY <1>2, <1>3, DocTypes DEF DocInv, DocumentOK, Documents, Charge
  <1>6. IssueCharge(s, i, Contract) \/ ConfirmZeroCharge(s, i)
    BY <1>2
  <1> HIDE DEF s, t
  <1>7. /\ DocInv(s) /\ s.plan = sub.plan
        /\ PaidCharges(s.charges) = PaidCharges(sub.charges)
        /\ PendingCharges(s.charges) = PendingCharges(sub.charges)
        /\ i \in PendingCharges(s.charges)
    BY <1>3, <1>4 DEF Rewritten
  <1>8. CyclesOK /\ CyclesGo /\ CyclesOK'
    BY <1>1, <1>3, ReleaseGoes DEF CreditInv
  <1>9. CASE IssueCharge(s, i, Contract)
    <2>1. OpenPart(s, orders, preapprovals, Contract)
      BY <1>5, <1>7, OpenRelinked, GatewayIdAssumption DEF CreditInv, PendingCharges
    <2>2. GatewayGoes /\ OpenPart(sub', orders', preapprovals', Contract) /\ NoneAbandoned(sub')
      BY <1>3, <1>4, <1>5, <1>7, <1>8, <1>9, <2>1, IssueOpens DEF MoneyOnly
    <2>3. Rewritten(s, sub')
      BY <1>3, <1>4, <1>7, <1>9, IssueChargeStep
    <2>4. PaysNothing
      BY <1>1, <1>3, <1>4, <2>3 DEF PaysNothing, Rewritten, KeepsPayments, Contracted, Contract, DocInv
    <2>5. Contract' = Contract
      BY <1>1 DEF Contract
    <2> QED
      BY <2>2, <2>4, <2>5 DEF GoesOn
  <1>10. CASE ConfirmZeroCharge(s, i)
    <2>1. s.charges[i].amount = 0 /\ ConfirmCharge(s, i) /\ UNCHANGED orders
      BY <1>10 DEF ConfirmZeroCharge
    <2>2. GatewayGoes
      BY <1>8, <2>1, OrdersSame DEF GatewayGoes
    <2> QED
      BY <1>1, <1>3, <1>4, <1>5, <1>7, <2>1, <2>2, ConfirmGoesOn, GatewayIdAssumption
  <1> QED
    BY <1>6, <1>9, <1>10

\* Ending a plan that renews drops its open charges and keeps the paid ones.
LEMMA EndsGoOn ==
    ASSUME IInv, CreditInv, DocInv(sub), IsRecurring(sub.plan), sub.status # "CANCELLED",
           acceptances' = acceptances, GatewayGoes, NEW until, until = sub.accessUntil,
           Save([sub EXCEPT !.status = "CANCELLED", !.preId = NoId, !.accessUntil = until,
                            !.charges = KeepPaid(@)])
    PROVE  GoesOn
PROOF
  <1> DEFINE t == [sub EXCEPT !.status = "CANCELLED", !.preId = NoId, !.accessUntil = until,
                              !.charges = KeepPaid(@)]
  <1>1. Continues(sub, t)
    BY CancelStep
  <1>2. t.preId = NoId /\ t.charges = KeepPaid(sub.charges)
    BY DEF DocInv, DocumentOK, Documents
  <1>3. Save(t)
    OBVIOUS
  <1> HIDE DEF t
  <1>4. PaidCharges(t.charges) = PaidCharges(sub.charges) /\ PendingCharges(t.charges) = {}
    <2>1. /\ DOMAIN t.charges = PaidCharges(sub.charges)
          /\ \A j \in PaidCharges(sub.charges) : t.charges[j] = sub.charges[j]
      BY <1>2 DEF KeepPaid
    <2> QED
      BY <2>1 DEF PaidCharges, PendingCharges
  <1>5. OpenPart(t, orders', preapprovals', Contract)
    BY <1>2, <1>4, OpenUnlinked DEF NoneLinked
  <1> QED
    BY <1>1, <1>3, <1>4, <1>5, RewrittenGoesOn DEF Continues

LEMMA CancelCredits ==
    ASSUME IInv, CreditInv, CancelSubscription
    PROVE  GoesOn
PROOF
  <1>1. /\ sub.status \notin {"NONE", "CANCELLED"} /\ IsRecurring(sub.plan)
        /\ ReleasePreapproval(sub) /\ UNCHANGED <<acceptances, orders>>
        /\ Save([sub EXCEPT !.status = "CANCELLED", !.preId = NoId,
                            !.accessUntil = PaidAccessUntil(sub), !.charges = KeepPaid(@)])
    BY DEF CancelSubscription, SaveAndSync
  <1>2. DocInv(sub) /\ PreapprovalsOK(preapprovals)
    BY <1>1, HasDocument, WorldParts DEF IInv
  <1>3. PaidAccessUntil(sub) = sub.accessUntil
    BY <1>2 DEF DocInv, CountsWhatWasPaid
  <1>4. GatewayGoes
    BY <1>1, <1>2, ReleaseGoes, OrdersSame DEF GatewayGoes, CreditInv
  <1> QED
    BY <1>1, <1>2, <1>3, <1>4, EndsGoOn

LEMMA RequestCredits ==
    ASSUME MoneyOnly, IInv, CreditInv, StudentRequest
    PROVE  GoesOn
PROOF
  <1>1. ASSUME NEW i, RefreshCardPayment(i)
        PROVE  GoesOn
    <2>1. /\ IsNextPending(sub.charges, i) /\ OrderPaid(sub.charges[i].link)
          /\ ConfirmCharge(sub, i) /\ UNCHANGED <<acceptances, orders, preapprovals>>
      BY <1>1 DEF RefreshCardPayment, gateway
    <2> QED
      BY <2>1, NextPendingHas, ConfirmsCredited
  <1>2. ASSUME NEW i, MockPay(i)
        PROVE  FALSE
    BY <1>2 DEF MockPay, MoneyOnly
  <1>3. ASSUME NEW plan, NEW method, NEW coupon, AcceptanceWithoutPlan(plan, method)
        PROVE  GoesOn
    <2>1. UNCHANGED <<sub, acceptances, orders, preapprovals>>
      BY <1>3, StopKeepsAll
    <2> QED
      BY <2>1, SameGatewayGoes, SameGoesOn
  <1> QED
    BY <1>1, <1>2, <1>3, ChoosePlanCredits, PayRecurringCredits, ConfirmPaidCardCredits,
       PayClosedCredits, RestartCredits, ChangeMethodCredits, CancelCredits DEF StudentRequest

-----------------------------------------------------------------------------
(* Notifications *)

LEMMA DeliverForward ==
    ASSUME NEW pre \in Preapprovals, pre.state # "ABSENT", Len(pre.cycles) <= MaxCycles,
           NEW c \in DOMAIN pre.cycles, NEW n \in Nat, NEW new,
           \/ new = [pre EXCEPT !.cycles[c].delivered = TRUE]
           \/ new = [[pre EXCEPT !.cycles[c].delivered = TRUE] EXCEPT !.amount = n]
    PROVE  Forward(pre, new) /\ new.cycles[c].delivered
PROOF
  <1> DEFINE cycle == [pre.cycles[c] EXCEPT !.delivered = TRUE]
             other == [pre.cycles EXCEPT ![c] = cycle]
             mid == [pre EXCEPT !.cycles = other]
  <1>1. pre.cycles \in Seq(Cycles) /\ pre.cycles[c] \in Cycles
    BY DEF Preapprovals
  <1>2. Forward(pre, mid)
    BY MovesForward
  <1>3. cycle \in Cycles /\ cycle.delivered
    BY <1>1 DEF Cycles
  <1> HIDE DEF cycle
  <1>4. other[c] = cycle /\ other \in Seq(Cycles)
    BY <1>1, <1>3
  <1> HIDE DEF other
  <1>5. mid.cycles = other /\ mid \in Preapprovals
    BY <1>4 DEF Preapprovals
  <1>6. new = mid \/ new = [mid EXCEPT !.amount = n]
    BY DEF other, cycle
  <1> HIDE DEF mid
  <1>7. /\ new.cycles = mid.cycles /\ new.state = mid.state /\ new.contract = mid.contract
    BY <1>5, <1>6 DEF Preapprovals
  <1> QED
    BY <1>2, <1>3, <1>4, <1>5, <1>7 DEF Forward

LEMMA DeliverGoes ==
    ASSUME PreapprovalsOK(preapprovals), CyclesOK, NEW p \in PreapprovalIds,
           NEW c \in DOMAIN preapprovals[p].cycles, NEW n \in Nat, NEW delivered,
           delivered = [preapprovals EXCEPT ![p].cycles[c].delivered = TRUE],
           preapprovals' = delivered \/ preapprovals' = [delivered EXCEPT ![p].amount = n]
    PROVE  CyclesGo /\ CyclesOK' /\ preapprovals'[p].cycles[c].delivered
PROOF
  <1> DEFINE mid == [preapprovals[p] EXCEPT !.cycles[c].delivered = TRUE]
  <1>1. /\ preapprovals[p] \in Preapprovals /\ preapprovals[p].state # "ABSENT"
        /\ Len(preapprovals[p].cycles) <= MaxCycles
    BY DEF CyclesOK, PreapprovalsOK
  <1>2. delivered = [preapprovals EXCEPT ![p] = mid]
    OBVIOUS
  <1>3. Forward(preapprovals[p], mid) /\ mid.cycles[c].delivered
    BY <1>1, DeliverForward
  <1>4. Forward(preapprovals[p], [mid EXCEPT !.amount = n]) /\ [mid EXCEPT !.amount = n].cycles[c].delivered
    BY <1>1, DeliverForward
  <1> HIDE DEF mid
  <1>5. CASE preapprovals' = delivered
    BY <1>2, <1>3, <1>5, ForwardGoes
  <1>6. CASE preapprovals' = [delivered EXCEPT ![p].amount = n]
    <2> DEFINE new == [mid EXCEPT !.amount = n]
    <2>1. preapprovals' = [preapprovals EXCEPT ![p] = new]
      BY <1>2, <1>6 DEF PreapprovalsOK
    <2>2. Forward(preapprovals[p], new) /\ new.cycles[c].delivered
      BY <1>4
    <2> HIDE DEF new
    <2> QED
      BY <2>1, <2>2, ForwardGoes
  <1> QED
    BY <1>5, <1>6

\* The charge a credited cycle pays waits for no order of the gateway.
LEMMA CycleCredits ==
    ASSUME IInv, CreditInv, NEW p \in PreapprovalIds, NEW c, NEW i, CycleCredited(p, c, i)
    PROVE  GoesOn
PROOF
  <1> DEFINE s == Confirm(sub, i)
             delivered == [preapprovals EXCEPT ![p].cycles[c].delivered = TRUE]
  <1>1. /\ c \in DOMAIN preapprovals[p].cycles /\ sub.preId = p
        /\ preapprovals[p].cycles[c].status = "PAID"
        /\ preapprovals[p].cycles[c].delivered => "redeliver" \in Faults
        /\ IsNextPending(sub.charges, i)
        /\ WithinBound(s) /\ SyncRecurringAmount(s, p, delivered)
        /\ UNCHANGED <<acceptances, orders>>
    BY DEF CycleCredited, IsCycle
  <1>2. DocInv(sub) /\ i \in PendingCharges(sub.charges) /\ PreapprovalsOK(preapprovals) /\ CyclesOK
    BY <1>1, NextPendingHas, WorldParts DEF IInv, CreditInv
  <1>3. /\ IsRecurring(sub.plan) /\ sub.charges[i].link \notin OrderIds
        /\ preapprovals[p].contract = Contract /\ preapprovals[p].state # "ABSENT"
    BY <1>1, <1>2, GatewayIdAssumption DEF DocInv, CreditInv, OpenPart, LinkedContract
  <1>4. PaysOff(sub, s, i)
    BY <1>1, <1>2, ConfirmPaysOff
  <1> HIDE DEF s
  <1>5. PICK j \in DOMAIN s.charges :
           \/ Save(s) /\ preapprovals' = delivered
           \/ /\ preapprovals' = [delivered EXCEPT ![p].amount = s.charges[j].amount]
              /\ Save([s EXCEPT !.installment = s.charges[j].amount])
    BY <1>1 DEF SyncRecurringAmount, WithAmount
  <1>6. DocInv(s) /\ s.charges[j].amount \in Nat
    BY <1>4, DocTypes DEF PaysOff, Continues, Charge
  <1>7. delivered = [preapprovals EXCEPT ![p].cycles[c].delivered = TRUE]
    OBVIOUS
  <1> HIDE DEF delivered
  <1>8. CyclesGo /\ CyclesOK' /\ preapprovals'[p].cycles[c].delivered
    BY <1>1, <1>2, <1>5, <1>6, <1>7, DeliverGoes
  <1>9. GatewayGoes
    BY <1>1, <1>8, OrdersSame DEF GatewayGoes
  <1>10. \E u : PaysOff(sub, u, i) /\ Save(u)
    <2>1. CASE Save(s)
      BY <1>4, <2>1
    <2>2. CASE Save([s EXCEPT !.installment = s.charges[j].amount])
      <3> DEFINE u == [s EXCEPT !.installment = s.charges[j].amount]
      <3>1. Rewritten(s, u)
        BY <1>6, InstallmentForm
      <3>2. Continues(sub, s)
        BY <1>4 DEF PaysOff
      <3>3. u.status = s.status /\ u.preId = s.preId /\ u.charges = s.charges
        BY <1>6 DEF DocInv, DocumentOK, Documents
      <3>4. Save(u)
        BY <2>2
      <3> HIDE DEF u
      <3>5. Continues(sub, u)
        BY <1>2, <3>1, <3>2, ContinuesRewritten
      <3>6. PaysOff(sub, u, i)
        BY <1>4, <3>3, <3>5 DEF PaysOff
      <3> QED
        BY <3>4, <3>6
    <2> QED
      BY <1>5, <2>1, <2>2
  <1>11. preapprovals'[p].contract = Contract /\ preapprovals'[p].state # "ABSENT"
    BY <1>3, <1>8 DEF CyclesGo
  <1>12. PaidOff(sub, i)
    BY <1>1, <1>2, <1>10, <1>11, RewrittenSelf, SavesPaidOff
  <1>13. ByNewCycle
    <2>1. c \in DOMAIN preapprovals'[p].cycles /\ preapprovals'[p].cycles[c].status = "PAID"
      BY <1>1, <1>3, <1>8 DEF CyclesGo
    <2>2. c \in 1 .. MaxCycles
      <3>1. preapprovals[p].cycles \in Seq(Cycles) /\ Len(preapprovals[p].cycles) <= MaxCycles
        BY <1>2 DEF PreapprovalsOK, Preapprovals, CyclesOK
      <3> QED
        BY <1>1, <3>1, EnvironmentAssumption
    <2>3. Contract' = Contract
      BY <1>1 DEF Contract
    <2>4. <<p, c>> \in DeliveredCycles'
      BY <1>8, <1>11, <2>1, <2>2, <2>3 DEF DeliveredCycles, Delivered, IsCycle
    <2>5. <<p, c>> \in DeliveredCycles => "redeliver" \in Faults
      BY <1>1 DEF DeliveredCycles, Delivered
    <2> QED
      BY <2>4, <2>5 DEF ByNewCycle
  <1> QED
    BY <1>3, <1>9, <1>12, <1>13, PaidGoesOn

LEMMA NotCreditedGoesOn ==
    ASSUME IInv, CreditInv, NEW p \in PreapprovalIds, NEW c, CycleNotCredited(p, c)
    PROVE  GoesOn
PROOF
  <1> DEFINE t == [sub EXCEPT !.status = "PAST_DUE"]
  <1>1. /\ sub.preId = p /\ sub.status # "PAST_DUE" /\ Save(t)
        /\ UNCHANGED <<acceptances, orders, preapprovals>>
    BY DEF CycleNotCredited, SaveAndSync, gateway
  <1>2. /\ DocInv(sub) /\ IsRecurring(sub.plan) /\ sub.status # "CANCELLED"
    <2>1. sub.preId # NoId
      BY <1>1, GatewayIdAssumption
    <2> QED
      BY <2>1, HasDocument DEF DocInv
  <1>3. Continues(sub, t)
    BY <1>1, <1>2, PastDueStep
  <1>4. t.charges = sub.charges /\ t.preId = sub.preId /\ t.plan = sub.plan
    BY <1>2 DEF DocInv, DocumentOK, Documents
  <1> HIDE DEF t
  <1>5. OpenPart(t, orders', preapprovals', Contract)
    BY <1>1, <1>4 DEF CreditInv, OpenPart, OpenLinks, LinkedContract
  <1>6. GatewayGoes
    BY <1>1, OrdersSame, CyclesSame DEF GatewayGoes, CreditInv
  <1> QED
    BY <1>1, <1>2, <1>3, <1>4, <1>5, <1>6, RewrittenGoesOn DEF Continues

LEMMA NotificationCredits ==
    ASSUME IInv, CreditInv, Notification
    PROVE  GoesOn
PROOF
  <1>1. PreapprovalsOK(preapprovals) /\ CyclesOK
    BY WorldParts DEF IInv, CreditInv
  <1>2. ASSUME NEW o \in OrderIds, NEW i \in DOMAIN sub.charges, OrderUpdated(o, i)
        PROVE  GoesOn
    <2>1. /\ OrderPaid(o) /\ sub.charges[i].link = o /\ ConfirmCharge(sub, i)
          /\ UNCHANGED <<acceptances, orders, preapprovals>> /\ i \in PendingCharges(sub.charges)
      BY <1>2 DEF OrderUpdated, IsLinked, gateway, PendingCharges, PaidCharges
    <2>2. DocInv(sub)
      BY HasDocument
    <2>3. IsRecurring(sub.plan) => IsNextPending(sub.charges, i)
      BY <2>1, <2>2, GatewayIdAssumption DEF DocInv, OnlyNextIsLinked
    <2> QED
      BY <2>1, <2>2, <2>3, ConfirmsCredited
  <1>3. ASSUME NEW p \in PreapprovalIds, NEW c, CycleUnmatched(p, c)
        PROVE  GoesOn
    <2>1. /\ c \in DOMAIN preapprovals[p].cycles /\ UNCHANGED <<sub, acceptances, orders>>
          /\ preapprovals' = [preapprovals EXCEPT ![p].cycles[c].delivered = TRUE]
      BY <1>3 DEF CycleUnmatched, IsCycle
    <2>2. CyclesGo /\ CyclesOK'
      <3>1. 0 \in Nat
        OBVIOUS
      <3> QED
        BY <1>1, <2>1, <3>1, DeliverGoes
    <2> QED
      BY <2>1, <2>2, OrdersSame, SameGoesOn DEF GatewayGoes
  <1>4. ASSUME NEW p \in PreapprovalIds, PreapprovalCancelled(p)
        PROVE  GoesOn
    <2>1. /\ sub.preId = p /\ sub.status # "CANCELLED"
          /\ UNCHANGED <<acceptances, orders, preapprovals>>
          /\ Save([sub EXCEPT !.status = "CANCELLED", !.preId = NoId, !.charges = KeepPaid(@)])
      BY <1>4 DEF PreapprovalCancelled, SaveAndSync, gateway
    <2>2. DocInv(sub) /\ IsRecurring(sub.plan)
      BY <2>1, HasDocument, GatewayIdAssumption DEF DocInv
    <2>3. [sub EXCEPT !.status = "CANCELLED", !.preId = NoId, !.charges = KeepPaid(@)]
            = [sub EXCEPT !.status = "CANCELLED", !.preId = NoId,
                          !.accessUntil = sub.accessUntil, !.charges = KeepPaid(@)]
      BY <2>2 DEF DocInv, DocumentOK, Documents
    <2>4. GatewayGoes
      BY <2>1, OrdersSame, CyclesSame DEF GatewayGoes, CreditInv
    <2> QED
      BY <2>1, <2>2, <2>3, <2>4, EndsGoOn
  <1> QED
    BY <1>2, <1>3, <1>4, CycleCredits, NotCreditedGoesOn DEF Notification

-----------------------------------------------------------------------------
(* The gateway and the whole next-state relation *)

LEMMA DecideGoesOn ==
    ASSUME IInv, CreditInv, NEW o \in OrderIds, NEW outcome, DecideOrder(o, outcome),
           outcome # "ABSENT"
    PROVE  GoesOn
PROOF
  <1>1. /\ orders[o].status \in {"PENDING", "CHALLENGE"} /\ orders[o] \in Orders
        /\ orders' = [orders EXCEPT ![o].status = outcome]
        /\ UNCHANGED <<sub, acceptances, preapprovals>>
    BY WorldParts DEF DecideOrder, IInv, OrdersOK
  <1>2. /\ orders'[o] = [orders[o] EXCEPT !.status = outcome]
        /\ \A q \in OrderIds \ {o} : orders'[q] = orders[q]
    BY <1>1, WorldParts DEF IInv, OrdersOK
  <1>3. /\ orders'[o].status = outcome /\ orders'[o].index = orders[o].index
        /\ orders'[o].contract = orders[o].contract
    BY <1>1, <1>2 DEF Orders
  <1>4. OrdersGo
    BY <1>1, <1>2, <1>3 DEF OrdersGo
  <1> QED
    BY <1>1, <1>4, CyclesSame, SameGoesOn DEF GatewayGoes, CreditInv

LEMMA EnvironmentCredits ==
    ASSUME IInv, CreditInv, Environment
    PROVE  GoesOn
PROOF
  <1>1. PreapprovalsOK(preapprovals) /\ CyclesOK
    BY WorldParts DEF IInv, CreditInv
  <1>2. ASSUME NEW p \in PreapprovalIds, NEW new, preapprovals[p].state # "ABSENT",
               Forward(preapprovals[p], new), preapprovals' = [preapprovals EXCEPT ![p] = new],
               UNCHANGED <<sub, acceptances, orders>>
        PROVE  GoesOn
    BY <1>1, <1>2, ForwardGoes, OrdersSame, SameGoesOn DEF GatewayGoes
  <1>3. \A p \in PreapprovalIds : preapprovals[p] \in Preapprovals /\ Len(preapprovals[p].cycles) <= MaxCycles
    BY <1>1 DEF PreapprovalsOK, CyclesOK
  <1>4. ASSUME NEW p \in PreapprovalIds, OpenCycle(p)
        PROVE  GoesOn
    <2> DEFINE new == [preapprovals[p] EXCEPT !.cycles =
                          Append(@, [status |-> "SCHEDULED", delivered |-> FALSE])]
    <2>1. /\ preapprovals' = [preapprovals EXCEPT ![p] = new] /\ preapprovals[p].state # "ABSENT"
          /\ Len(preapprovals[p].cycles) < MaxCycles /\ UNCHANGED <<sub, acceptances, orders>>
      BY <1>4 DEF OpenCycle
    <2>2. Forward(preapprovals[p], new)
      BY <1>3, <2>1, MovesForward
    <2> HIDE DEF new
    <2> QED
      BY <1>2, <2>1, <2>2
  <1>5. ASSUME NEW p \in PreapprovalIds, NEW c \in DOMAIN preapprovals[p].cycles, NEW outcome,
               AttemptCycle(p, c, outcome)
        PROVE  GoesOn
    <2> DEFINE new == [preapprovals[p] EXCEPT !.cycles[c].status = outcome]
    <2>1. /\ preapprovals' = [preapprovals EXCEPT ![p] = new] /\ preapprovals[p].state # "ABSENT"
          /\ preapprovals[p].cycles[c].status # "PAID" /\ UNCHANGED <<sub, acceptances, orders>>
      BY <1>5 DEF AttemptCycle
    <2>2. Forward(preapprovals[p], new)
      BY <1>3, <2>1, MovesForward
    <2> HIDE DEF new
    <2> QED
      BY <1>2, <2>1, <2>2
  <1>6. ASSUME NEW p \in PreapprovalIds, GatewayCancels(p)
        PROVE  GoesOn
    <2> DEFINE new == [preapprovals[p] EXCEPT !.state = "CANCELLED"]
    <2>1. /\ preapprovals' = [preapprovals EXCEPT ![p] = new] /\ preapprovals[p].state # "ABSENT"
          /\ UNCHANGED <<sub, acceptances, orders>>
      BY <1>6 DEF GatewayCancels
    <2>2. Forward(preapprovals[p], new)
      BY <1>3, <2>1, MovesForward
    <2> HIDE DEF new
    <2> QED
      BY <1>2, <2>1, <2>2
  <1>7. CASE MonthPasses
    BY <1>1, <1>7, OrdersSame, CyclesSame, SameGoesOn DEF MonthPasses, GatewayGoes
  <1> QED
    BY <1>4, <1>5, <1>6, <1>7, DecideGoesOn DEF Environment

LEMMA CreditInit == Init => CreditInv
PROOF
  <1> SUFFICES ASSUME Init PROVE CreditInv
    OBVIOUS
  <1>1. sub = NoSubscription /\ \A p \in PreapprovalIds : preapprovals[p].cycles = <<>>
    BY DEF Init
  <1>2. ~ Contracted /\ sub.preId = NoId /\ DOMAIN sub.charges = {}
    BY <1>1, NoSubscriptionFacts DEF Contracted
  <1>3. CyclesOK
    BY <1>1, EnvironmentAssumption DEF CyclesOK
  <1> QED
    BY <1>2, <1>3 DEF CreditInv, PaidPart, OpenPart, OpenLinks, LinkedContract, NoneAbandoned, PendingCharges

\* An order the document names was created for its contract and its charge,
\* the preapproval it names for its contract, and every paid renewal was paid
\* by such an order, by a cycle delivered to itself, or cost nothing.
THEOREM CreditInvariance ==
    ASSUME MoneyOnly
    PROVE  Spec => []CreditInv
PROOF
  <1>1. IInv /\ CreditInv /\ [Next]_vars => CreditInv'
    <2> SUFFICES ASSUME IInv, CreditInv, [Next]_vars PROVE CreditInv'
      OBVIOUS
    <2>1. CASE UNCHANGED vars
      <3>1. UNCHANGED <<sub, acceptances, orders, preapprovals>>
        BY <2>1 DEF vars
      <3> QED
        BY <3>1, SameGatewayGoes, SameGoesOn, GoesOnKeeps
    <2>2. CASE Next
      BY <2>2, RequestCredits, NotificationCredits, EnvironmentCredits, GoesOnKeeps DEF Next
    <2> QED
      BY <2>1, <2>2
  <1> QED
    BY <1>1, CreditInit, Invariance, PTL DEF Spec

\* A contract the manager sees as paid (listAcceptances) has a credited order
\* or a delivered cycle of its own, or a charge its coupon left at zero, while
\* DEV_MODE is off and the gateway answers no PIX with the order of another
\* contract: a redelivered cycle included, and every other failure.
THEOREM PaidContractsHaveMoney ==
    ASSUME MoneyOnly
    PROVE  Spec => []PaidContractsWereCredited
PROOF
  <1>1. IInv /\ CreditInv => PaidContractsWereCredited
    <2> SUFFICES ASSUME IInv, CreditInv, NEW n \in 1 .. Contract, NEW current,
                        current => n = Contract, PurchaseOf(acceptances[n], current) = "PAID"
                 PROVE  \/ \E o \in OrderIds : OrderPaid(o) /\ orders[o].contract = n
                        \/ \E p \in PreapprovalIds, c \in 1 .. MaxCycles :
                              preapprovals[p].contract = n /\ IsCycle(p, c)
                              /\ preapprovals[p].cycles[c].delivered
                        \/ \E i \in PaidCharges(sub.charges) : sub.charges[i].amount = 0
      BY DEF PaidContractsWereCredited
    <2>1. n = Contract /\ sub.paid > 0
      BY DEF PurchaseOf
    <2>2. DocInv(sub) /\ Contracted
      BY <2>1, NoSubscriptionFacts DEF IInv, DocInv, Contracted
    <2>3. PaidCharges(sub.charges) # {}
      <3>1. Cardinality(PaidCharges(sub.charges)) # 0
        BY <2>1, <2>2 DEF DocInv, CountsWhatWasPaid
      <3> QED
        BY <3>1, FS_EmptySet
    <2>4. CreditedOrders # {} => \E o \in OrderIds : OrderPaid(o) /\ orders[o].contract = n
      BY <2>1 DEF CreditedOrders, OrderPaid
    <2>5. CASE IsRecurring(sub.plan)
      <3>1. PaidLinks(sub, orders, Contract) /\ CyclesPay
        BY <2>2, <2>5 DEF CreditInv, PaidPart
      <3>2. PICK i \in PaidCharges(sub.charges) : TRUE
        BY <2>3
      <3>3. sub.charges[i].amount \in Nat
        BY <2>2, DocTypes DEF Charge
      <3>4. CASE sub.charges[i].link \in OrderIds
        BY <2>1, <3>1, <3>4 DEF PaidLinks, OrderPaid
      <3>5. CASE sub.charges[i].link \notin OrderIds /\ sub.charges[i].amount > 0
        <4>1. DeliveredCycles # {}
          BY <3>1, <3>5 DEF CyclesPay, ByCycle, ChargedFor
        <4> QED
          BY <2>1, <4>1 DEF DeliveredCycles, Delivered
      <3> QED
        BY <3>3, <3>4, <3>5
    <2>6. CASE ~ IsRecurring(sub.plan)
      BY <2>2, <2>3, <2>4, <2>6 DEF CreditInv, PaidPart, Free
    <2> QED
      BY <2>5, <2>6
  <1> QED
    BY <1>1, Invariance, CreditInvariance, PTL

\* No coupon leaves a charge of a plan sold for a period at zero: one that
\* did would confirm the whole period (issueCharge), and nothing in the code
\* compares a coupon with a price.
NoFreePeriod ==
    \A plan \in Plans \ Recurring, coupon \in Coupons : coupon.discount < Price[plan]

\* An order pays the one charge it was created for.
LEMMA OrdersPayOne ==
    ASSUME DocInv(sub), PaidLinks(sub, orders, Contract), IsFiniteSet(OrderIds)
    PROVE  /\ IsFiniteSet(CreditedOrders) /\ IsFiniteSet(ChargedFor \ ByCycle)
           /\ Cardinality(ChargedFor \ ByCycle) <= Cardinality(CreditedOrders)
PROOF
  <1> DEFINE ByOrder == ChargedFor \ ByCycle
             link == [i \in ByOrder |-> sub.charges[i].link]
  <1>1. IsFiniteSet(CreditedOrders) /\ Cardinality(CreditedOrders) \in Nat
    <2>1. CreditedOrders \in SUBSET OrderIds
      BY DEF CreditedOrders
    <2> QED
      BY <2>1, FS_Subset, FS_CardinalityType
  <1>2. IsFiniteSet(ByOrder) /\ Cardinality(ByOrder) \in Nat
    <2>1. IsFiniteSet(PaidCharges(sub.charges))
      BY DocTypes, ScheduleIsFinite
    <2>2. ByOrder \in SUBSET PaidCharges(sub.charges)
      BY DEF ChargedFor
    <2> QED
      BY <2>1, <2>2, FS_Subset, FS_CardinalityType
  <1>3. \A i \in ByOrder : /\ sub.charges[i].link \in CreditedOrders
                           /\ orders[sub.charges[i].link].index = i
    BY DEF ByCycle, ChargedFor, PaidLinks, CreditedOrders
  <1> HIDE DEF ByOrder
  <1>4. link \in [ByOrder -> CreditedOrders]
    BY <1>3
  <1>5. \A i, j \in ByOrder : link[i] = link[j] => i = j
    BY <1>3
  <1> HIDE DEF link
  <1>6. ~ (Cardinality(CreditedOrders) < Cardinality(ByOrder))
    BY <1>1, <1>2, <1>4, <1>5, FS_PigeonHole
  <1> QED
    BY <1>1, <1>2, <1>6 DEF ByOrder

\* No charge is paid without money: each paid renewal has an order or a cycle
\* of this contract to itself and a plan sold for a period a credited order,
\* while a cycle is notified as credited once, DEV_MODE is off, no PIX is
\* answered with another contract's order and no coupon gives a month of a
\* period away (confirmCharge, from every handler that calls it).
THEOREM PaymentsHaveMoney ==
    ASSUME MoneyOnly, "redeliver" \notin Faults, NoFreePeriod,
           IsFiniteSet(OrderIds), IsFiniteSet(PreapprovalIds)
    PROVE  Spec => []PaidIsCredited
PROOF
  <1>1. IInv /\ CreditInv => PaidIsCredited
    <2> SUFFICES ASSUME IInv, CreditInv, Contracted
                 PROVE  IF IsRecurring(sub.plan)
                        THEN Cardinality(ChargedFor) <= Cardinality(CreditedOrders) + Cardinality(DeliveredCycles)
                        ELSE ChargedFor # {} => CreditedOrders # {}
      BY DEF PaidIsCredited
    <2>1. DocInv(sub)
      BY HasDocument DEF Contracted
    <2>2. CASE IsRecurring(sub.plan)
      <3> DEFINE ByOrder == ChargedFor \ ByCycle
      <3>1. PaidLinks(sub, orders, Contract) /\ CyclesPay
        BY <2>2 DEF CreditInv, PaidPart
      <3>2. /\ IsFiniteSet(CreditedOrders) /\ IsFiniteSet(ByOrder)
            /\ Cardinality(ByOrder) <= Cardinality(CreditedOrders)
        BY <2>1, <3>1, OrdersPayOne
      <3>3. /\ IsFiniteSet(ByCycle) /\ Cardinality(ByCycle) \in Nat
            /\ Cardinality(ByCycle) <= Cardinality(DeliveredCycles)
            /\ Cardinality(DeliveredCycles) \in Nat
        BY <2>1, <3>1, ByCycleFinite, DeliveredFinite DEF CyclesPay
      <3>4. ByOrder \cup ByCycle = ChargedFor /\ ByOrder \cap ByCycle = {}
        BY DEF ByCycle
      <3> HIDE DEF ByOrder
      <3>5. Cardinality(ChargedFor) = Cardinality(ByOrder) + Cardinality(ByCycle)
        <4>1. Cardinality(ByOrder \cup ByCycle) =
                 Cardinality(ByOrder) + Cardinality(ByCycle) - Cardinality(ByOrder \cap ByCycle)
          BY <3>2, <3>3, FS_Union
        <4>2. Cardinality(ByOrder \cap ByCycle) = 0 /\ Cardinality(ByOrder) \in Nat
          BY <3>2, <3>4, FS_EmptySet, FS_CardinalityType
        <4> QED
          BY <3>3, <3>4, <4>1, <4>2
      <3>6. Cardinality(CreditedOrders) \in Nat /\ Cardinality(ByOrder) \in Nat
        BY <3>2, FS_CardinalityType
      <3> QED
        BY <2>2, <3>2, <3>3, <3>5, <3>6
    <2>3. CASE ~ IsRecurring(sub.plan)
      <3>1. ~ Free(sub)
        <4> SUFFICES ASSUME NEW i \in PaidCharges(sub.charges), sub.charges[i].amount = 0
                     PROVE  FALSE
          BY DEF Free
        <4>1. /\ i \in DOMAIN sub.charges /\ sub.plan \in Plans \ Recurring /\ sub.coupon \in Coupons
          BY <2>1, <2>3, DocTypes DEF IsRecurring
        <4>2. AmountFor(sub.plan, sub.coupon, i) = 0
          BY <2>1, <4>1 DEF DocInv, Priced
        <4>3. sub.coupon.discount < Price[sub.plan] /\ sub.coupon.discount \in Nat /\ Price[sub.plan] \in Nat
          BY <4>1, CatalogueAssumption DEF NoFreePeriod
        <4> QED
          BY <4>2, <4>3 DEF AmountFor, ApplyDiscount
      <3> QED
        BY <2>3, <3>1 DEF CreditInv, PaidPart, ChargedFor
    <2> QED
      BY <2>2, <2>3
  <1> QED
    BY <1>1, Invariance, CreditInvariance, PTL
=============================================================================
