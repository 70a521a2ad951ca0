---------------------- MODULE SubscriptionRaces_proofs ----------------------
(***************************************************************************)
(* Theorems about module SubscriptionRaces, for any number of handlers in  *)
(* flight, any catalogue of plans, and a process that may stop or not.     *)
(***************************************************************************)
EXTENDS SubscriptionRaces, SubscriptionDomain_proofs

-----------------------------------------------------------------------------
(* The inductive invariant *)

OrderStatuses == {"ABSENT", "PENDING", "CHALLENGE", "PAID", "REJECTED"}
HandlerSteps == {"check", "check again", "create", "link", "link paid", "confirm", "sync",
                 "refresh", "restart", "abandon", "release", "cancel"}

SomePaid(os) == \E o \in OrderIds : os[o] = "PAID"

\* What is known of the document and of every copy of it: it is coherent, the
\* open charges of a plan sold for a period are linked to orders only, and one
\* that is confirmed was paid for.
CopyInv(s, os) ==
    /\ DocInv(s)
    /\ ~ IsRecurring(s.plan) =>
          /\ \A i \in PendingCharges(s.charges) : s.charges[i].link \in OrderIds \cup {NoId}
          /\ s.status = "ACTIVE" => SomePaid(os)

\* What a handler in flight learned before the await it is at.
HandlerInv(h, os) ==
    \/ h = Idle
    \/ /\ h.step \in HandlerSteps /\ CopyInv(h.doc, os)
       /\ h.step \in {"link", "link paid"} => h.id \in OrderIds
       /\ h.step = "link paid" => SomePaid(os)
       /\ h.step = "confirm" /\ ~ IsRecurring(h.doc.plan) => SomePaid(os)
       /\ h.step \in {"refresh", "restart"} =>
             \E i \in DOMAIN h.doc.charges : OpenLink(h.doc, i) /\ h.doc.charges[i].link # NoId
       /\ h.step = "release" => IsRecurring(h.doc.plan) /\ h.doc.status # "CANCELLED"

RacesInv ==
    /\ CopyInv(sub, orders)
    /\ orders \in [OrderIds -> OrderStatuses]
    /\ DOMAIN worker = Workers
    /\ \A w \in Workers : HandlerInv(worker[w], orders)

-----------------------------------------------------------------------------
(* Copies *)

LEMMA CopyStays ==
    ASSUME NEW s, NEW os, NEW ps, CopyInv(s, os), SomePaid(os) => SomePaid(ps)
    PROVE  CopyInv(s, ps)
PROOF BY DEF CopyInv

LEMMA HandlerStays ==
    ASSUME NEW h, NEW os, NEW ps, HandlerInv(h, os), SomePaid(os) => SomePaid(ps)
    PROVE  HandlerInv(h, ps)
PROOF BY CopyStays DEF HandlerInv

\* A save writes what the handler computed, but for the ids set aside.
LEMMA CopySaved ==
    ASSUME NEW s, NEW os, CopyInv(s, os)
    PROVE  CopyInv(ToPlain(s), os)
PROOF
  <1>1. DocInv(s) /\ s.charges \in [DOMAIN s.charges -> Charge]
    BY DocTypes DEF CopyInv
  <1>2. Rewritten(s, ToPlain(s))
    BY <1>1, SaveStep
  <1>3. ToPlain(s).charges = [i \in DOMAIN s.charges |-> [s.charges[i] EXCEPT !.abandoned = {}]]
    BY <1>1 DEF ToPlain, DocInv, DocumentOK, Documents
  <1>4. \A i \in DOMAIN s.charges : ToPlain(s).charges[i].link = s.charges[i].link
    BY <1>1, <1>3 DEF Charge
  <1>5. PendingCharges(s.charges) \subseteq DOMAIN s.charges
    BY DEF PendingCharges
  <1> QED
    BY <1>2, <1>4, <1>5 DEF CopyInv, Rewritten

\* A copy on the next open charge of which a handler wrote an order, or none.
LEMMA CopyLinked ==
    ASSUME NEW s, NEW os, CopyInv(s, os), NEW i, OpenLink(s, i)
    PROVE  /\ i \in PendingCharges(s.charges) /\ s.status = "PENDING"
           /\ s.charges[i].link \in OrderIds \cup {NoId}
           /\ \A id \in OrderIds : CopyInv([s EXCEPT !.charges[i].link = id], os)
           /\ s.charges[i].link # NoId =>
                CopyInv([s EXCEPT !.charges[i].abandoned = @ \cup {s.charges[i].link},
                                  !.charges[i].link = NoId], os)
PROOF
  <1>1. /\ DocInv(s) /\ IsNextPending(s.charges, i) /\ ~ IsRecurring(s.plan)
        /\ i \in PendingCharges(s.charges) /\ i \in DOMAIN s.charges
    BY DEF CopyInv, OpenLink, IsNextPending, PendingCharges
  <1>2. s.status = "PENDING" /\ s.charges[i].link \in OrderIds \cup {NoId}
    BY <1>1 DEF CopyInv, DocInv, WhollyPaidOrUnpaid
  <1>3. s \in Documents(s.charges) /\ s.charges[i] \in Charge
    BY <1>1 DEF DocInv, DocumentOK, IsSchedule
  <1>4. ASSUME NEW t, Rewritten(s, t), t.charges[i].link \in OrderIds \cup {NoId},
               \A j \in DOMAIN s.charges \ {i} : t.charges[j] = s.charges[j]
        PROVE  CopyInv(t, os)
    BY <1>1, <1>2, <1>4 DEF CopyInv, Rewritten, PendingCharges
  <1>5. ASSUME NEW id \in OrderIds
        PROVE  CopyInv([s EXCEPT !.charges[i].link = id], os)
    <2> DEFINE t == [s EXCEPT !.charges[i].link = id]
    <2>1. Rewritten(s, t)
      BY <1>1, LinkForms DEF GatewayIds
    <2>2. t.charges = [s.charges EXCEPT ![i].link = id]
      BY <1>3 DEF Documents
    <2>3. /\ t.charges[i].link = id
          /\ \A j \in DOMAIN s.charges \ {i} : t.charges[j] = s.charges[j]
      BY <1>1, <1>3, <2>2 DEF Charge
    <2> HIDE DEF t
    <2>4. CopyInv(t, os)
      BY <1>4, <2>1, <2>3
    <2> QED
      BY <2>4 DEF t
  <1>6. ASSUME s.charges[i].link # NoId
        PROVE  CopyInv([s EXCEPT !.charges[i].abandoned = @ \cup {s.charges[i].link},
                                 !.charges[i].link = NoId], os)
    <2> DEFINE id == s.charges[i].link
               t == [s EXCEPT !.charges[i].abandoned = @ \cup {id}, !.charges[i].link = NoId]
    <2>1. id \in GatewayIds
      BY <1>2, <1>6 DEF GatewayIds
    <2>2. Rewritten(s, t)
      BY <1>1, <2>1, LinkForms
    <2>3. t.charges = [s.charges EXCEPT ![i].abandoned = @ \cup {id}, ![i].link = NoId]
      BY <1>3 DEF Documents
    <2>4. /\ t.charges[i].link = NoId
          /\ \A j \in DOMAIN s.charges \ {i} : t.charges[j] = s.charges[j]
      BY <1>1, <1>3, <2>3 DEF Charge
    <2> HIDE DEF t
    <2>5. CopyInv(t, os)
      BY <1>4, <2>2, <2>4
    <2> QED
      BY <2>5 DEF t
  <1> QED
    BY <1>1, <1>2, <1>5, <1>6

\* confirmCharge, on the copy of a handler that knows of a payment.
LEMMA CopyConfirmed ==
    ASSUME NEW s, NEW os, CopyInv(s, os), ~ IsRecurring(s.plan) => SomePaid(os),
           NEW id, NEW t \in Confirmed(s, id), WithinBound(t)
    PROVE  CopyInv(t, os)
PROOF
  <1>1. DocInv(s)
    BY DEF CopyInv
  <1>2. PICK i \in PendingCharges(s.charges) :
               t = Confirm(s, i) /\ (IsRecurring(s.plan) => IsNextPending(s.charges, i))
    <2>1. CASE id \in OrderIds
      <3>1. PICK i \in PendingCharges(s.charges) : t = Confirm(s, i) /\ IsLinked(s.charges, i, id)
        BY <2>1 DEF Confirmed
      <3>2. s.charges[i].link # NoId
        BY <2>1, <3>1, GatewayIdAssumption DEF IsLinked
      <3>3. IsRecurring(s.plan) => IsNextPending(s.charges, i)
        BY <1>1, <3>2 DEF DocInv, OnlyNextIsLinked
      <3> QED
        BY <3>1, <3>3
    <2>2. CASE id \notin OrderIds
      BY <2>2 DEF Confirmed
    <2> QED
      BY <2>1, <2>2
  <1>3. Continues(s, t) /\ t.status = "ACTIVE"
    BY <1>1, <1>2, ConfirmStep
  <1>4. DocInv(t) /\ t.plan = s.plan
    BY <1>3 DEF Continues
  <1>5. ~ IsRecurring(t.plan) => PendingCharges(t.charges) = {}
    BY <1>3, <1>4 DEF DocInv, WhollyPaidOrUnpaid
  <1> QED
    BY <1>4, <1>5 DEF CopyInv

\* Cancelling a plan that renews, by the student or by the gateway.
LEMMA CopyCancelled ==
    ASSUME NEW s, NEW os, CopyInv(s, os), IsRecurring(s.plan), s.status # "CANCELLED"
    PROVE  /\ CopyInv([s EXCEPT !.status = "CANCELLED", !.preId = NoId,
                                !.accessUntil = PaidAccessUntil(s), !.charges = KeepPaid(@)], os)
           /\ CopyInv([s EXCEPT !.status = "CANCELLED", !.preId = NoId,
                                !.charges = KeepPaid(@)], os)
PROOF
  <1> DEFINE t == [s EXCEPT !.status = "CANCELLED", !.preId = NoId,
                            !.accessUntil = PaidAccessUntil(s), !.charges = KeepPaid(@)]
             u == [s EXCEPT !.status = "CANCELLED", !.preId = NoId, !.charges = KeepPaid(@)]
  <1>1. /\ DocInv(s) /\ s \in Documents(s.charges) /\ PaidAccessUntil(s) = s.accessUntil
    BY DEF CopyInv, DocInv, DocumentOK, CountsWhatWasPaid
  <1>2. Continues(s, t)
    BY <1>1, CancelStep
  <1>3. u = [s EXCEPT !.status = "CANCELLED", !.preId = NoId, !.accessUntil = s.accessUntil,
                      !.charges = KeepPaid(@)]
    BY <1>1 DEF Documents
  <1>4. Continues(s, u)
    BY <1>1, <1>3, CancelStep
  <1> HIDE DEF t, u
  <1>5. \A v : Continues(s, v) => CopyInv(v, os)
    BY DEF Continues, CopyInv
  <1>6. CopyInv(t, os) /\ CopyInv(u, os)
    BY <1>2, <1>4, <1>5
  <1> QED
    BY <1>6 DEF t, u

LEMMA CopySuspended ==
    ASSUME NEW s, NEW os, CopyInv(s, os), IsRecurring(s.plan),
           s.status \notin {"CANCELLED", "PAST_DUE"}
    PROVE  CopyInv([s EXCEPT !.status = "PAST_DUE"], os)
PROOF
  <1> DEFINE t == [s EXCEPT !.status = "PAST_DUE"]
  <1>1. Continues(s, t)
    BY PastDueStep DEF CopyInv
  <1> HIDE DEF t
  <1>2. CopyInv(t, os)
    BY <1>1 DEF Continues, CopyInv
  <1> QED
    BY <1>2 DEF t

-----------------------------------------------------------------------------
(* Handlers *)

\* A step of one handler: the others know no less than before.
LEMMA HandlerStep ==
    ASSUME RacesInv, NEW w \in Workers, NEW h, worker' = [worker EXCEPT ![w] = h],
           orders' \in [OrderIds -> OrderStatuses], SomePaid(orders) => SomePaid(orders'),
           CopyInv(sub', orders'), HandlerInv(h, orders')
    PROVE  RacesInv'
PROOF
  <1>1. DOMAIN worker' = Workers
    BY DEF RacesInv
  <1>2. ASSUME NEW v \in Workers
        PROVE  HandlerInv(worker'[v], orders')
    <2>1. CASE v = w
      BY <2>1 DEF RacesInv
    <2>2. CASE v # w
      <3>1. worker'[v] = worker[v] /\ HandlerInv(worker[v], orders)
        BY <2>2 DEF RacesInv
      <3> QED
        BY <3>1, HandlerStays
    <2> QED
      BY <2>1, <2>2
  <1> QED
    BY <1>1, <1>2 DEF RacesInv

\* Most steps write neither the document nor an order.
LEMMA HandlerGoes ==
    ASSUME RacesInv, NEW w \in Workers, NEW h, worker' = [worker EXCEPT ![w] = h],
           UNCHANGED <<sub, orders>>, HandlerInv(h, orders)
    PROVE  RacesInv'
PROOF
  <1>1. CopyInv(sub', orders') /\ HandlerInv(h, orders') /\ orders' \in [OrderIds -> OrderStatuses]
    BY DEF RacesInv
  <1>2. SomePaid(orders) => SomePaid(orders')
    OBVIOUS
  <1> QED
    BY <1>1, <1>2, HandlerStep

\* Others write the document.
LEMMA HandlerSaves ==
    ASSUME RacesInv, NEW w \in Workers, NEW h, worker' = [worker EXCEPT ![w] = h],
           orders' = orders, CopyInv(sub', orders), HandlerInv(h, orders)
    PROVE  RacesInv'
PROOF
  <1>1. CopyInv(sub', orders') /\ HandlerInv(h, orders') /\ orders' \in [OrderIds -> OrderStatuses]
    BY DEF RacesInv
  <1>2. SomePaid(orders) => SomePaid(orders')
    OBVIOUS
  <1> QED
    BY <1>1, <1>2, HandlerStep

\* A handler found at a step of its own knows what that step needs.
LEMMA InFlightKnows ==
    ASSUME RacesInv, NEW w \in Workers, NEW step \in HandlerSteps, At(w, step)
    PROVE  /\ CopyInv(worker[w].doc, orders)
           /\ step \in {"link", "link paid"} => worker[w].id \in OrderIds
           /\ step = "link paid" => SomePaid(orders)
           /\ step = "confirm" /\ ~ IsRecurring(worker[w].doc.plan) => SomePaid(orders)
           /\ step \in {"refresh", "restart"} =>
                 \E i \in DOMAIN worker[w].doc.charges :
                    OpenLink(worker[w].doc, i) /\ worker[w].doc.charges[i].link # NoId
           /\ step = "release" =>
                 IsRecurring(worker[w].doc.plan) /\ worker[w].doc.status # "CANCELLED"
PROOF
  <1>1. HandlerInv(worker[w], orders)
    BY DEF RacesInv
  <1>2. worker[w] # Idle
    <2>1. Idle.step = "idle" /\ step # "idle" /\ worker[w].step = step
      BY DEF At, Idle, HandlerSteps
    <2> QED
      BY <2>1
  <1> QED
    BY <1>1, <1>2 DEF HandlerInv, At

\* The steps that take nothing for granted but their copy, and those that do.
LEMMA CopyAtStep ==
    ASSUME NEW s, NEW os, CopyInv(s, os), NEW id
    PROVE  /\ \A step \in {"check", "check again", "create", "sync", "abandon", "cancel"} :
                 HandlerInv([step |-> step, doc |-> s, id |-> id], os)
           /\ (~ IsRecurring(s.plan) => SomePaid(os)) =>
                 HandlerInv([step |-> "confirm", doc |-> s, id |-> id], os)
           /\ id \in OrderIds => HandlerInv([step |-> "link", doc |-> s, id |-> id], os)
           /\ id \in OrderIds /\ SomePaid(os) =>
                 HandlerInv([step |-> "link paid", doc |-> s, id |-> id], os)
PROOF
  <1>1. ASSUME NEW step \in {"check", "check again", "create", "sync", "abandon", "cancel"}
        PROVE  HandlerInv([step |-> step, doc |-> s, id |-> id], os)
    BY DEF HandlerInv, HandlerSteps
  <1>2. (~ IsRecurring(s.plan) => SomePaid(os)) =>
           HandlerInv([step |-> "confirm", doc |-> s, id |-> id], os)
    BY DEF HandlerInv, HandlerSteps
  <1>3. id \in OrderIds => HandlerInv([step |-> "link", doc |-> s, id |-> id], os)
    BY DEF HandlerInv, HandlerSteps
  <1>4. id \in OrderIds /\ SomePaid(os) =>
           HandlerInv([step |-> "link paid", doc |-> s, id |-> id], os)
    BY DEF HandlerInv, HandlerSteps
  <1> QED
    BY <1>1, <1>2, <1>3, <1>4

LEMMA IdleIsSafe ==
    ASSUME NEW os
    PROVE  HandlerInv(Idle, os)
PROOF BY DEF HandlerInv

\* A schedule has one next open charge.
LEMMA OneNextPending ==
    ASSUME NEW s, DocInv(s), NEW i, NEW j,
           IsNextPending(s.charges, i), IsNextPending(s.charges, j)
    PROVE  i = j
PROOF
  <1>1. DOMAIN s.charges \subseteq Nat
    BY ScheduleAssumption DEF DocInv, DocumentOK, IsSchedule
  <1>2. i \in Nat /\ j \in Nat /\ i <= j /\ j <= i
    BY <1>1 DEF IsNextPending, PendingCharges
  <1> QED
    BY <1>2

-----------------------------------------------------------------------------
(* The steps *)

LEMMA SaveConfirmedStep ==
    ASSUME RacesInv, NEW w \in Workers, SaveConfirmed(w)
    PROVE  RacesInv'
PROOF
  <1> DEFINE doc == worker[w].doc
             id  == worker[w].id
  <1>1. CopyInv(doc, orders) /\ (~ IsRecurring(doc.plan) => SomePaid(orders))
    BY InFlightKnows DEF SaveConfirmed, HandlerSteps
  <1>2. PICK t \in Confirmed(doc, id) :
          /\ WithinBound(t) /\ sub' = ToPlain(t) /\ orders' = orders
          /\ worker' = [worker EXCEPT ![w] = [step |-> "sync", doc |-> t, id |-> id]]
    BY DEF SaveConfirmed, Goto, external
  <1> HIDE DEF doc, id
  <1>3. CopyInv(t, orders)
    BY <1>1, <1>2, CopyConfirmed
  <1>4. CopyInv(sub', orders)
    BY <1>2, <1>3, CopySaved
  <1>5. HandlerInv([step |-> "sync", doc |-> t, id |-> id], orders)
    BY <1>3, CopyAtStep
  <1> QED
    BY <1>2, <1>4, <1>5, HandlerSaves

LEMMA FinishStep ==
    ASSUME RacesInv, NEW w \in Workers, worker' = [worker EXCEPT ![w] = Idle],
           UNCHANGED <<sub, orders>>
    PROVE  RacesInv'
PROOF BY IdleIsSafe, HandlerGoes

LEMMA PayCheckStep ==
    ASSUME RacesInv, NEW w \in Workers, PayCheck(w)
    PROVE  RacesInv'
PROOF
  <1> DEFINE doc == worker[w].doc
  <1>1. CopyInv(doc, orders)
    BY InFlightKnows DEF PayCheck, HandlerSteps
  <1>2. UNCHANGED <<sub, orders>>
    BY DEF PayCheck, external
  <1>3. PICK i \in DOMAIN doc.charges :
          \/ /\ doc.charges[i].link \in OrderIds /\ orders[doc.charges[i].link] = "PAID"
             /\ worker' = [worker EXCEPT ![w] =
                             [step |-> "confirm", doc |-> doc, id |-> doc.charges[i].link]]
          \/ worker' = [worker EXCEPT ![w] = [step |-> "check again", doc |-> doc, id |-> NoId]]
          \/ worker' = [worker EXCEPT ![w] = [step |-> "create", doc |-> doc, id |-> NoId]]
    BY DEF PayCheck, Goto
  <1> HIDE DEF doc
  <1>4. CASE /\ doc.charges[i].link \in OrderIds /\ orders[doc.charges[i].link] = "PAID"
             /\ worker' = [worker EXCEPT ![w] =
                             [step |-> "confirm", doc |-> doc, id |-> doc.charges[i].link]]
    <2>1. SomePaid(orders)
      BY <1>4 DEF SomePaid
    <2>2. HandlerInv([step |-> "confirm", doc |-> doc, id |-> doc.charges[i].link], orders)
      BY <1>1, <2>1, CopyAtStep
    <2> QED
      BY <1>2, <1>4, <2>2, HandlerGoes
  <1>5. ASSUME NEW step \in {"check again", "create"},
               worker' = [worker EXCEPT ![w] = [step |-> step, doc |-> doc, id |-> NoId]]
        PROVE  RacesInv'
    <2>1. HandlerInv([step |-> step, doc |-> doc, id |-> NoId], orders)
      BY <1>1, CopyAtStep
    <2> QED
      BY <1>2, <1>5, <2>1, HandlerGoes
  <1> QED
    BY <1>3, <1>4, <1>5

LEMMA PayCheckAgainStep ==
    ASSUME RacesInv, NEW w \in Workers, PayCheckAgain(w)
    PROVE  RacesInv'
PROOF
  <1> DEFINE doc == worker[w].doc
  <1>1. CopyInv(doc, orders)
    BY InFlightKnows DEF PayCheckAgain, HandlerSteps
  <1>2. UNCHANGED <<sub, orders>>
    BY DEF PayCheckAgain, external
  <1>3. \/ worker' = [worker EXCEPT ![w] = Idle]
        \/ worker' = [worker EXCEPT ![w] = [step |-> "create", doc |-> doc, id |-> NoId]]
    BY DEF PayCheckAgain, Goto, Finish
  <1> HIDE DEF doc
  <1>4. CASE worker' = [worker EXCEPT ![w] = Idle]
    BY <1>2, <1>4, FinishStep
  <1>5. CASE worker' = [worker EXCEPT ![w] = [step |-> "create", doc |-> doc, id |-> NoId]]
    <2>1. HandlerInv([step |-> "create", doc |-> doc, id |-> NoId], orders)
      BY <1>1, CopyAtStep
    <2> QED
      BY <1>2, <1>5, <2>1, HandlerGoes
  <1> QED
    BY <1>3, <1>4, <1>5

LEMMA PayCreateStep ==
    ASSUME RacesInv, NEW w \in Workers, NEW o \in OrderIds,
           NEW outcome \in {"PENDING", "CHALLENGE", "PAID", "REJECTED"}, PayCreate(w, o, outcome)
    PROVE  RacesInv'
PROOF
  <1> DEFINE doc  == worker[w].doc
             step == IF outcome = "PAID" THEN "link paid" ELSE "link"
             h    == [step |-> step, doc |-> doc, id |-> o]
  <1>1. CopyInv(doc, orders)
    BY InFlightKnows DEF PayCreate, HandlerSteps
  <1>2. /\ orders[o] = "ABSENT" /\ orders' = [orders EXCEPT ![o] = outcome]
        /\ sub' = sub /\ worker' = [worker EXCEPT ![w] = h]
    BY DEF PayCreate, Goto
  <1>3. orders \in [OrderIds -> OrderStatuses] /\ CopyInv(sub, orders)
    BY DEF RacesInv
  <1>4. /\ orders' \in [OrderIds -> OrderStatuses] /\ orders'[o] = outcome
        /\ \A q \in OrderIds \ {o} : orders'[q] = orders[q]
    BY <1>2, <1>3 DEF OrderStatuses
  <1>5. SomePaid(orders) => SomePaid(orders')
    BY <1>2, <1>4 DEF SomePaid
  <1>6. CopyInv(doc, orders') /\ CopyInv(sub', orders')
    BY <1>1, <1>2, <1>3, <1>5, CopyStays
  <1>7. outcome = "PAID" => SomePaid(orders')
    BY <1>4 DEF SomePaid
  <1> HIDE DEF doc
  <1>8. HandlerInv(h, orders')
    BY <1>6, <1>7, CopyAtStep
  <1> HIDE DEF h
  <1> QED
    BY <1>2, <1>4, <1>5, <1>6, <1>8, HandlerStep

LEMMA PayLinkStep ==
    ASSUME RacesInv, NEW w \in Workers, PayLink(w)
    PROVE  RacesInv'
PROOF
  <1> DEFINE doc == worker[w].doc
             id  == worker[w].id
             t(i) == [doc EXCEPT !.charges[i].link = id]
  <1>1. /\ CopyInv(doc, orders) /\ id \in OrderIds
        /\ At(w, "link paid") => SomePaid(orders)
    BY InFlightKnows DEF PayLink, HandlerSteps
  <1>2. PICK i \in DOMAIN doc.charges :
          /\ OpenLink(doc, i) /\ sub' = ToPlain(t(i)) /\ orders' = orders
          /\ \/ /\ At(w, "link paid")
                /\ worker' = [worker EXCEPT ![w] = [step |-> "confirm", doc |-> t(i), id |-> id]]
             \/ worker' = [worker EXCEPT ![w] = Idle]
    BY DEF PayLink, Goto, Finish, external
  <1> HIDE DEF doc, id
  <1>3. CopyInv(t(i), orders)
    BY <1>1, <1>2, CopyLinked
  <1> DEFINE u == t(i)
  <1>4. u = t(i)
    OBVIOUS
  <1> HIDE DEF u, t
  <1>5. CopyInv(u, orders)
    BY <1>3, <1>4
  <1>6. CopyInv(sub', orders)
    BY <1>2, <1>4, <1>5, CopySaved
  <1>7. CASE /\ At(w, "link paid")
             /\ worker' = [worker EXCEPT ![w] = [step |-> "confirm", doc |-> t(i), id |-> id]]
    <2>1. HandlerInv([step |-> "confirm", doc |-> u, id |-> id], orders)
      BY <1>1, <1>5, <1>7, CopyAtStep
    <2> QED
      BY <1>2, <1>4, <1>6, <1>7, <2>1, HandlerSaves
  <1>8. CASE worker' = [worker EXCEPT ![w] = Idle]
    BY <1>2, <1>6, <1>8, IdleIsSafe, HandlerSaves
  <1> QED
    BY <1>2, <1>7, <1>8

LEMMA PayReadStep ==
    ASSUME RacesInv, NEW w \in Workers, PayRead(w)
    PROVE  RacesInv'
PROOF
  <1>1. CopyInv(sub, orders)
    BY DEF RacesInv
  <1>2. HandlerInv([step |-> "check", doc |-> sub, id |-> NoId], orders)
    BY <1>1, CopyAtStep
  <1> QED
    BY <1>2, HandlerGoes DEF PayRead, Goto, external

LEMMA RereadLinkStep ==
    ASSUME RacesInv, NEW w \in Workers, NEW step \in {"refresh", "restart"}, RereadLink(w, step)
    PROVE  RacesInv'
PROOF
  <1>1. CopyInv(sub, orders)
    BY DEF RacesInv
  <1>2. \E i \in DOMAIN sub.charges : OpenLink(sub, i) /\ sub.charges[i].link # NoId
    BY DEF RereadLink
  <1>3. HandlerInv([step |-> step, doc |-> sub, id |-> NoId], orders)
    BY <1>1, <1>2 DEF HandlerInv, HandlerSteps
  <1> QED
    BY <1>3, HandlerGoes DEF RereadLink, Goto, external

\* A link found again on the next open charge is the one that was read.
LEMMA LinkFoundAgain ==
    ASSUME NEW s, NEW os, CopyInv(s, os), NEW i, OpenLink(s, i),
           \E j \in DOMAIN s.charges : OpenLink(s, j) /\ s.charges[j].link # NoId
    PROVE  s.charges[i].link \in OrderIds /\ s.charges[i].link # NoId
PROOF
  <1>1. PICK j \in DOMAIN s.charges : OpenLink(s, j) /\ s.charges[j].link # NoId
    OBVIOUS
  <1>2. i = j
    BY <1>1, OneNextPending DEF CopyInv, OpenLink
  <1> QED
    BY <1>1, <1>2, CopyLinked

LEMMA RefreshFetchStep ==
    ASSUME RacesInv, NEW w \in Workers, RefreshFetch(w)
    PROVE  RacesInv'
PROOF
  <1> DEFINE doc == worker[w].doc
  <1>1. /\ CopyInv(doc, orders)
        /\ \E i \in DOMAIN doc.charges : OpenLink(doc, i) /\ doc.charges[i].link # NoId
    BY InFlightKnows DEF RefreshFetch, HandlerSteps
  <1>2. UNCHANGED <<sub, orders>>
    BY DEF RefreshFetch, external
  <1>3. PICK i \in DOMAIN doc.charges :
          /\ OpenLink(doc, i)
          /\ \/ /\ orders[doc.charges[i].link] = "PAID"
                /\ worker' = [worker EXCEPT ![w] =
                                [step |-> "confirm", doc |-> doc, id |-> doc.charges[i].link]]
             \/ worker' = [worker EXCEPT ![w] = Idle]
    BY DEF RefreshFetch, Goto, Finish
  <1> HIDE DEF doc
  <1>4. doc.charges[i].link \in OrderIds
    BY <1>1, <1>3, LinkFoundAgain
  <1>5. CASE /\ orders[doc.charges[i].link] = "PAID"
             /\ worker' = [worker EXCEPT ![w] =
                             [step |-> "confirm", doc |-> doc, id |-> doc.charges[i].link]]
    <2>1. SomePaid(orders)
      BY <1>4, <1>5 DEF SomePaid
    <2>2. HandlerInv([step |-> "confirm", doc |-> doc, id |-> doc.charges[i].link], orders)
      BY <1>1, <2>1, CopyAtStep
    <2> QED
      BY <1>2, <1>5, <2>2, HandlerGoes
  <1>6. CASE worker' = [worker EXCEPT ![w] = Idle]
    BY <1>2, <1>6, FinishStep
  <1> QED
    BY <1>3, <1>5, <1>6

LEMMA RestartFetchStep ==
    ASSUME RacesInv, NEW w \in Workers, RestartFetch(w)
    PROVE  RacesInv'
PROOF
  <1> DEFINE doc == worker[w].doc
             t(i) == [doc EXCEPT !.charges[i].abandoned = @ \cup {doc.charges[i].link},
                                 !.charges[i].link = NoId]
  <1>1. /\ CopyInv(doc, orders)
        /\ \E i \in DOMAIN doc.charges : OpenLink(doc, i) /\ doc.charges[i].link # NoId
    BY InFlightKnows DEF RestartFetch, HandlerSteps
  <1>2. UNCHANGED <<sub, orders>>
    BY DEF RestartFetch, external
  <1>3. PICK i \in DOMAIN doc.charges :
          /\ OpenLink(doc, i)
          /\ \/ /\ orders[doc.charges[i].link] = "PAID"
                /\ worker' = [worker EXCEPT ![w] =
                                [step |-> "confirm", doc |-> doc, id |-> doc.charges[i].link]]
             \/ worker' = [worker EXCEPT ![w] =
                             [step |-> "abandon", doc |-> t(i), id |-> doc.charges[i].link]]
    BY DEF RestartFetch, Goto
  <1> HIDE DEF doc
  <1>4. doc.charges[i].link \in OrderIds /\ doc.charges[i].link # NoId
    BY <1>1, <1>3, LinkFoundAgain
  <1>5. CASE /\ orders[doc.charges[i].link] = "PAID"
             /\ worker' = [worker EXCEPT ![w] =
                             [step |-> "confirm", doc |-> doc, id |-> doc.charges[i].link]]
    <2>1. SomePaid(orders)
      BY <1>4, <1>5 DEF SomePaid
    <2>2. HandlerInv([step |-> "confirm", doc |-> doc, id |-> doc.charges[i].link], orders)
      BY <1>1, <2>1, CopyAtStep
    <2> QED
      BY <1>2, <1>5, <2>2, HandlerGoes
  <1>6. CASE worker' = [worker EXCEPT ![w] =
                          [step |-> "abandon", doc |-> t(i), id |-> doc.charges[i].link]]
    <2>1. CopyInv(t(i), orders)
      BY <1>1, <1>3, <1>4, CopyLinked
    <2> HIDE DEF t
    <2>2. HandlerInv([step |-> "abandon", doc |-> t(i), id |-> doc.charges[i].link], orders)
      BY <2>1, CopyAtStep
    <2> QED
      BY <1>2, <1>6, <2>2, HandlerGoes
  <1> QED
    BY <1>3, <1>5, <1>6

LEMMA RestartSaveStep ==
    ASSUME RacesInv, NEW w \in Workers, RestartSave(w)
    PROVE  RacesInv'
PROOF
  <1>1. CopyInv(worker[w].doc, orders)
    BY InFlightKnows DEF RestartSave, HandlerSteps
  <1>2. /\ sub' = ToPlain(worker[w].doc) /\ orders' = orders
        /\ worker' = [worker EXCEPT ![w] = Idle]
    BY DEF RestartSave, Finish, external
  <1>3. CopyInv(sub', orders)
    BY <1>1, <1>2, CopySaved
  <1> QED
    BY <1>2, <1>3, IdleIsSafe, HandlerSaves

LEMMA CancelReadStep ==
    ASSUME RacesInv, NEW w \in Workers, CancelRead(w)
    PROVE  RacesInv'
PROOF
  <1>1. CopyInv(sub, orders) /\ IsRecurring(sub.plan) /\ sub.status # "CANCELLED"
    BY DEF RacesInv, CancelRead
  <1>2. HandlerInv([step |-> "release", doc |-> sub, id |-> NoId], orders)
    BY <1>1 DEF HandlerInv, HandlerSteps
  <1> QED
    BY <1>2, HandlerGoes DEF CancelRead, Goto, external

LEMMA CancelReleaseStep ==
    ASSUME RacesInv, NEW w \in Workers, CancelRelease(w)
    PROVE  RacesInv'
PROOF
  <1> DEFINE doc == worker[w].doc
             t   == [doc EXCEPT !.status = "CANCELLED", !.preId = NoId,
                                !.accessUntil = PaidAccessUntil(doc), !.charges = KeepPaid(@)]
  <1>1. CopyInv(doc, orders) /\ IsRecurring(doc.plan) /\ doc.status # "CANCELLED"
    BY InFlightKnows DEF CancelRelease, HandlerSteps
  <1>2. /\ sub' = sub /\ orders' = orders
        /\ worker' = [worker EXCEPT ![w] = [step |-> "cancel", doc |-> t, id |-> NoId]]
    BY DEF CancelRelease, Goto
  <1> HIDE DEF doc
  <1>3. CopyInv(t, orders)
    BY <1>1, CopyCancelled
  <1> HIDE DEF t
  <1>4. HandlerInv([step |-> "cancel", doc |-> t, id |-> NoId], orders)
    BY <1>3, CopyAtStep
  <1> QED
    BY <1>2, <1>4, HandlerGoes

LEMMA SaveStatusStep ==
    ASSUME RacesInv, NEW w \in Workers, SaveStatus(w)
    PROVE  RacesInv'
PROOF
  <1> DEFINE doc == worker[w].doc
             id  == worker[w].id
  <1>1. CopyInv(doc, orders)
    BY InFlightKnows DEF SaveStatus, HandlerSteps
  <1>2. /\ sub' = ToPlain(doc) /\ orders' = orders
        /\ worker' = [worker EXCEPT ![w] = [step |-> "sync", doc |-> doc, id |-> id]]
    BY DEF SaveStatus, Goto, external
  <1> HIDE DEF doc, id
  <1>3. CopyInv(sub', orders)
    BY <1>1, <1>2, CopySaved
  <1>4. HandlerInv([step |-> "sync", doc |-> doc, id |-> id], orders)
    BY <1>1, CopyAtStep
  <1> QED
    BY <1>2, <1>3, <1>4, HandlerSaves

LEMMA OrderNotifiedStep ==
    ASSUME RacesInv, NEW w \in Workers, NEW o \in OrderIds, OrderNotified(w, o)
    PROVE  RacesInv'
PROOF
  <1>1. CopyInv(sub, orders) /\ SomePaid(orders) /\ UNCHANGED <<sub, orders>>
    BY DEF RacesInv, OrderNotified, SomePaid, external
  <1>2. HandlerInv([step |-> "confirm", doc |-> sub, id |-> o], orders)
    BY <1>1, CopyAtStep
  <1>3. \/ worker' = [worker EXCEPT ![w] = [step |-> "confirm", doc |-> sub, id |-> o]]
        \/ worker' = [worker EXCEPT ![w] = Idle]
    BY DEF OrderNotified, Goto, Finish
  <1> QED
    BY <1>1, <1>2, <1>3, HandlerGoes, FinishStep

\* Only a plan that renews, and was not cancelled, has the preapproval.
LEMMA PreapprovalHolder ==
    ASSUME NEW s, NEW os, CopyInv(s, os), s.preId = ThePreapproval
    PROVE  IsRecurring(s.plan) /\ s.status # "CANCELLED"
PROOF BY RacesAssumption, GatewayIdAssumption DEF CopyInv, DocInv

LEMMA CycleNotifiedStep ==
    ASSUME RacesInv, NEW w \in Workers, NEW c \in CycleIds, CycleNotified(w, c)
    PROVE  RacesInv'
PROOF
  <1> DEFINE t == [sub EXCEPT !.status = "PAST_DUE"]
  <1>1. CopyInv(sub, orders) /\ UNCHANGED <<sub, orders>>
    BY DEF RacesInv, CycleNotified, external
  <1>2. CASE /\ sub.preId = ThePreapproval
             /\ worker' = [worker EXCEPT ![w] = [step |-> "confirm", doc |-> sub, id |-> c]]
    <2>1. HandlerInv([step |-> "confirm", doc |-> sub, id |-> c], orders)
      BY <1>1, <1>2, PreapprovalHolder, CopyAtStep
    <2> QED
      BY <1>1, <1>2, <2>1, HandlerGoes
  <1>3. CASE /\ sub.preId = ThePreapproval /\ sub.status # "PAST_DUE"
             /\ worker' = [worker EXCEPT ![w] = [step |-> "cancel", doc |-> t, id |-> c]]
    <2>1. CopyInv(t, orders)
      BY <1>1, <1>3, PreapprovalHolder, CopySuspended
    <2> HIDE DEF t
    <2>2. HandlerInv([step |-> "cancel", doc |-> t, id |-> c], orders)
      BY <2>1, CopyAtStep
    <2> QED
      BY <1>1, <1>3, <2>2, HandlerGoes
  <1>4. CASE worker' = [worker EXCEPT ![w] = Idle]
    BY <1>1, <1>4, FinishStep
  <1> QED
    BY <1>2, <1>3, <1>4 DEF CycleNotified, Goto, Finish

LEMMA EndNotifiedStep ==
    ASSUME RacesInv, NEW w \in Workers, EndNotified(w)
    PROVE  RacesInv'
PROOF
  <1> DEFINE t == [sub EXCEPT !.status = "CANCELLED", !.preId = NoId, !.charges = KeepPaid(@)]
  <1>1. /\ CopyInv(sub, orders) /\ IsRecurring(sub.plan) /\ sub.status # "CANCELLED"
        /\ UNCHANGED <<sub, orders>>
    BY PreapprovalHolder DEF RacesInv, EndNotified, external
  <1>2. worker' = [worker EXCEPT ![w] = [step |-> "cancel", doc |-> t, id |-> NoId]]
    BY DEF EndNotified, Goto
  <1>3. CopyInv(t, orders)
    BY <1>1, CopyCancelled
  <1> HIDE DEF t
  <1>4. HandlerInv([step |-> "cancel", doc |-> t, id |-> NoId], orders)
    BY <1>3, CopyAtStep
  <1> QED
    BY <1>1, <1>2, <1>4, HandlerGoes

\* What the gateway decides of an order never takes a payment back.
LEMMA DecideOrderStep ==
    ASSUME RacesInv, NEW o \in OrderIds, DecideOrder(o)
    PROVE  RacesInv'
PROOF
  <1>1. /\ orders \in [OrderIds -> OrderStatuses] /\ orders[o] # "PAID"
        /\ UNCHANGED <<sub, worker>>
    BY DEF RacesInv, DecideOrder
  <1>2. PICK outcome \in {"PAID", "REJECTED"} : orders' = [orders EXCEPT ![o] = outcome]
    BY DEF DecideOrder
  <1>3. /\ orders' \in [OrderIds -> OrderStatuses]
        /\ \A q \in OrderIds \ {o} : orders'[q] = orders[q]
    BY <1>1, <1>2 DEF OrderStatuses
  <1>4. SomePaid(orders) => SomePaid(orders')
    BY <1>1, <1>3 DEF SomePaid
  <1>5. CopyInv(sub', orders')
    BY <1>1, <1>4, CopyStays DEF RacesInv
  <1>6. \A w \in Workers : HandlerInv(worker'[w], orders')
    BY <1>1, <1>4, HandlerStays DEF RacesInv
  <1> QED
    BY <1>1, <1>3, <1>5, <1>6 DEF RacesInv

\* The steps that neither the document, the orders nor a handler sees.
LEMMA UnseenStep ==
    ASSUME RacesInv, UNCHANGED <<sub, orders, worker>>
    PROVE  RacesInv'
PROOF BY DEF RacesInv

LEMMA InitInv ==
    ASSUME Init
    PROVE  RacesInv
PROOF
  <1>1. PICK plan \in Plans :
          LET s == BuildSubscription(plan, "CREDIT_CARD", NoCoupon, 0)
          IN  sub = [s EXCEPT !.preId = IF IsRecurring(s.plan) THEN ThePreapproval ELSE NoId]
    BY DEF Init, Contracts
  <1> DEFINE s   == BuildSubscription(plan, "CREDIT_CARD", NoCoupon, 0)
             pre == IF IsRecurring(plan) THEN ThePreapproval ELSE NoId
  <1>2. /\ DocInv(s) /\ s.plan = plan /\ s.status = "PENDING" /\ IsNextPending(s.charges, 1)
    BY BuildInv, CatalogueAssumption DEF Methods
  <1>3. /\ s.charges = [i \in 1 .. Scheduled(plan) |-> NewCharge(plan, NoCoupon, i)]
        /\ s.method = "CREDIT_CARD"
    BY DEF BuildSubscription
  <1>4. sub = [s EXCEPT !.preId = pre]
    BY <1>1, <1>2
  <1>5. pre \in PreapprovalIds \cup {NoId} /\ (pre # NoId => IsRecurring(plan))
    BY RacesAssumption
  <1> HIDE DEF s, pre
  <1>6. /\ s \in Documents(s.charges) /\ IsSchedule(s.charges)
    BY <1>2 DEF DocInv, DocumentOK
  <1>7. 1 \in DOMAIN s.charges /\ s.charges[1] \in Charge
    BY <1>2, <1>6 DEF IsNextPending, PendingCharges, IsSchedule
  <1>8. sub = Relinked(s, 1, s.charges[1], s.method, pre)
    <2>1. [s.charges EXCEPT ![1] = s.charges[1]] = s.charges
      BY <1>6, <1>7 DEF IsSchedule
    <2>2. Relinked(s, 1, s.charges[1], s.method, pre)
             = [s EXCEPT !.method = s.method, !.preId = pre, !.charges = s.charges]
      BY <2>1 DEF Relinked
    <2> QED
      BY <1>4, <1>6, <2>2 DEF Documents
  <1>9. Rewritten(s, sub)
    BY <1>2, <1>3, <1>5, <1>7, <1>8, LinkStep DEF Methods
  <1>10. sub.charges = s.charges
    BY <1>4, <1>6 DEF Documents
  <1>11. \A i \in PendingCharges(sub.charges) : sub.charges[i].link = NoId
    BY <1>3, <1>10 DEF PendingCharges, NewCharge
  <1>12. CopyInv(sub, orders)
    BY <1>2, <1>9, <1>11 DEF Rewritten, CopyInv
  <1>13. orders \in [OrderIds -> OrderStatuses]
    BY DEF Init, OrderStatuses
  <1>14. DOMAIN worker = Workers /\ \A w \in Workers : HandlerInv(worker[w], orders)
    BY IdleIsSafe DEF Init
  <1> QED
    BY <1>12, <1>13, <1>14 DEF RacesInv

\* Every step of the handlers, of the gateway and of the process keeps it.
LEMMA StepInv ==
    ASSUME RacesInv, [Next]_vars
    PROVE  RacesInv'
PROOF
  <1>1. ASSUME NEW w \in Workers, Request(w)
        PROVE  RacesInv'
    BY <1>1, PayReadStep, RereadLinkStep, CancelReadStep DEF Request
  <1>2. ASSUME NEW w \in Workers, Continue(w)
        PROVE  RacesInv'
    <2>1. CASE SaveConfirmed(w)
      BY <2>1, SaveConfirmedStep
    <2>2. CASE WriteMirror(w)
      BY <2>2, FinishStep DEF WriteMirror, Finish, external
    <2>3. CASE PayCheck(w)
      BY <2>3, PayCheckStep
    <2>4. CASE PayRefused(w)
      BY <2>4, FinishStep DEF PayRefused, Finish, external
    <2>5. CASE PayLink(w)
      BY <2>5, PayLinkStep
    <2>6. CASE \E o \in OrderIds, outcome \in {"PENDING", "CHALLENGE", "PAID", "REJECTED"} :
                  PayCreate(w, o, outcome)
      BY <2>6, PayCreateStep
    <2>7. CASE RefreshFetch(w)
      BY <2>7, RefreshFetchStep
    <2>8. CASE RestartFetch(w)
      BY <2>8, RestartFetchStep
    <2>9. CASE RestartSave(w)
      BY <2>9, RestartSaveStep
    <2>10. CASE CancelRelease(w)
      BY <2>10, CancelReleaseStep
    <2>11. CASE SaveStatus(w)
      BY <2>11, SaveStatusStep
    <2>12. CASE PayCheckAgain(w)
      BY <2>12, PayCheckAgainStep
    <2> QED
      BY <1>2, <2>1, <2>2, <2>3, <2>4, <2>5, <2>6, <2>7, <2>8, <2>9, <2>10, <2>11, <2>12
         DEF Continue
  <1>3. ASSUME NEW w \in Workers, Notified(w)
        PROVE  RacesInv'
    BY <1>3, OrderNotifiedStep, CycleNotifiedStep, EndNotifiedStep DEF Notified
  <1>4. ASSUME NEW w \in Workers, Crash(w)
        PROVE  RacesInv'
    BY <1>4, FinishStep DEF Crash, external
  <1>5. ASSUME NEW o \in OrderIds, DecideOrder(o)
        PROVE  RacesInv'
    BY <1>5, DecideOrderStep
  <1>6. ASSUME NEW c \in CycleIds, DecideCycle(c)
        PROVE  RacesInv'
    BY <1>6, UnseenStep DEF DecideCycle
  <1>7. CASE GatewayEnds
    BY <1>7, UnseenStep DEF GatewayEnds
  <1>8. CASE UNCHANGED vars
    BY <1>8, UnseenStep DEF vars
  <1> QED
    BY <1>1, <1>2, <1>3, <1>4, <1>5, <1>6, <1>7, <1>8 DEF Next

-----------------------------------------------------------------------------
(* The theorems *)

\* However the handlers of a contract interleave at their awaits, and wherever
\* the process stops, the document and all its copies stay well formed.
THEOREM RacesInvariance == Spec => []RacesInv
PROOF
  <1>1. Init => RacesInv
    BY InitInv
  <1>2. RacesInv /\ [Next]_vars => RacesInv'
    BY StepInv
  <1> QED
    BY <1>1, <1>2, PTL DEF Spec

\* What is stored, and what any handler would store, agrees with itself: the
\* counter, the date, the schedule and its window (confirmCharge).
THEOREM CopiesAreCoherent == Spec => []DocumentsAreCoherent
PROOF
  <1>1. RacesInv => DocumentsAreCoherent
    <2> SUFFICES ASSUME RacesInv, NEW s \in InFlight \cup {sub}
                 PROVE  Coherent(s)
      BY DEF DocumentsAreCoherent
    <2>1. CopyInv(s, orders)
      <3>1. CASE s = sub
        BY <3>1 DEF RacesInv
      <3>2. CASE s \in InFlight
        <4>1. PICK w \in Workers : s = worker[w].doc /\ ~ At(w, "idle")
          BY <3>2 DEF InFlight
        <4>2. worker[w] # Idle
          BY <4>1 DEF At, Idle
        <4> QED
          BY <4>1, <4>2 DEF RacesInv, HandlerInv
      <3> QED
        BY <3>1, <3>2
    <2> QED
      BY <2>1 DEF CopyInv, DocInv, Coherent
  <1> QED
    BY <1>1, RacesInvariance, PTL

\* No interleaving confirms a plan sold for a period without a paid order.
THEOREM ActivePeriodWasPaid == Spec => []PeriodIsPaidFor
PROOF
  <1>1. RacesInv => PeriodIsPaidFor
    BY DEF RacesInv, CopyInv, SomePaid, PeriodIsPaidFor
  <1> QED
    BY <1>1, RacesInvariance, PTL
=============================================================================
