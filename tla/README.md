# A TLA+ model of the Bárbara Farias API

The API (NestJS, Firestore) runs an English school: students contract a plan and
pay it through Mercado Pago, teachers hold lessons on a weekly grid, and around
them live study material, video lessons, recruitment and legal documents. Every
request and every webhook is a handler that reads whole Firestore documents,
awaits other services and writes whole documents back, mostly without a
transaction. There is no scheduled task: whatever must happen later happens
because a request or a webhook arrives.

Paths below are under `src/src/`.

## Inventory

| part | state it keeps | operations | what makes it correct |
|---|---|---|---|
| `subscriptions` | one document per student in `subscriptions`; acceptances in `planAcceptances`; a mirror in `users` | contract, pay by card, refresh, restart, change method, cancel, webhook of orders, cycles and preapprovals | money and access agree: no access without money, none taken back, no double debit |
| Mercado Pago (external) | orders, preapprovals and their cycles | decides orders, opens cycles, gives up, notifies until answered 2xx | the documents follow it |
| `users`, `manual-payments` | profile, access mirror, manual grants; payments received by hand | profile edits, grant and revoke, delete | grants add up, each has its payment, an edit undoes nothing |
| `agenda` | half-hour slots of the weekly grid | assign a block, free it | no slot has two occupants, no half block is left |
| `lessons`, `billing` | a document per lesson, priced when it closes | materialise, join, mark, close after 72 h, cancel, make up | a teacher is in one place at a time, a lesson is paid once, no mark is lost |
| `reschedules` | requests on lessons | request, approve, reject | decided once, one replacement per lesson |
| `video-lessons` | a document per lesson, assets in Mux, files in storage | create, upload, complete, webhook, edit, materials, delete | what Mux says is recorded, nothing orphaned |
| `curriculum` | modules and topics of a level | edit | no video without a topic, topics made for videos stay so |
| `legal` | header, versions, draft of each document; acceptances | save, publish, accept, list pending | versions are immutable, one accepts what one read |
| `recruitment` | jobs, candidates, applications | apply, withdraw, decide, upload résumé, delete | no application without job and candidate |
| `supply` | header and modules of a material | generate module, consolidate | complete means every module is there |
| `auth`, `teachers` | accounts in Firebase Auth and their users | create, invite, change e-mail, assign students | both stores agree on who exists and with what role |
| `finance` | goals, expenses | save a goal, month and year of the panel | month and year agree, goals are what was asked |
| `articles`, `brand-studio`, `turmas`, `feedbacks` | single documents | create, edit, delete | little can go wrong between two steps |
| `notifications`, `uploads`, `guards`, `admin` | none of their own | e-mail, signed URLs, access checks, one-off repairs | |

Interactions. The guards (`guards/active-plan.guard.ts`), the feedbacks, the
agenda and the lessons never read a subscription: they read the mirror on the
student's document through `hasPaidAccess`. The mirror is written by `syncUser`
after each save of a subscription, as a second write. Mercado Pago and Mux call
webhooks and repeat until they read a 2xx; the handlers fetch the resource and
act on what it says now. Lessons read the agenda, reschedules and makeups write
lessons, billing prices them, finance reads them all.

What is hard here: handlers interleaved at their awaits over whole-document
writes; writes that come in twos and threes with a failure in between;
notifications early, late and twice; answers of a gateway lost on the way; long
legal sequences over one document (contract, suspend, change, cancel, contract
again). `PROJECT.json` lists each hazard at its line.

## Modules

| module | what it is |
|---|---|
| `SubscriptionDomain` | the pure part of the subscription code: catalogue, coupon, schedule, and what confirming a payment makes of a document |
| `Subscription` | the handlers of `SubscriptionService` on one student's documents, whole, with the gateway they call and every failure they handle |
| `SubscriptionProperties` | type invariant, safety, action properties, the refinement, fairness and liveness |
| `PlanLifecycle` | the abstract specification: what a plan promises whatever the gateway |
| `SubscriptionRaces` | the handlers of one contract split at their awaits, with crashes |
| `Agenda` | the weekly grid of one teacher and the groups |
| `Classes` | extends `Agenda`: the lessons born from the grid, their attendance, makeups, reschedules, price and monthly closing |
| `Supply` | the study material of one student, written module by module by panels that overlap |
| `Library` | the video lessons of a level over the topics of its curriculum, with Mux and the storage |
| `Legal` | the publication of one legal document: versions, draft, seed |
| `Recruitment` | extends `Legal`: candidates, consent, résumés, jobs, applications |
| `Accounts` | accounts, claims, tokens and documents of people in their two stores |
| `People` | extends `Accounts`: access granted by hand against a payment, and the students of each teacher |
| `Finance` | extends `People`: goals, what the infrastructure costs, the month and the year added up |
| `ClassesProperties`, `SupplyProperties`, `LibraryProperties`, `RecruitmentProperties`, `PeopleProperties` | what must hold of each |
| `SubscriptionDomain_proofs` | lemmas about one document of a subscription, used by the two next |
| `Subscription_proofs`, `SubscriptionRaces_proofs`, `Classes_proofs`, `Library_proofs`, `Recruitment_proofs`, `People_proofs`, `Accounts_proofs` | theorems of the properties; those of `Supply` are in `Library_proofs`, and `Accounts_proofs` rests on `People_proofs` |
| `MCSubscription`, `MCSubscriptionRaces`, `MCClasses`, `MCSupply`, `MCLibrary`, `MCRecruitment`, `MCPeople` | instances for TLC |

Definitions marked *Mutant* are variants of the definition that follows them,
as a plausible bug would leave it. They are not part of the specification; they
show that the properties notice.

### `Subscription` and the code

`sub` is the document of collection `subscriptions`, `user` the two mirror fields
on the student's document, `acceptances` the acceptances in order: the last one
is the contract in force. Every public method of the service is an action of the
same name; `payWithCard` is three, by plan and by what `existingCardOutcome`
finds (`PayRecurring`, `ConfirmPaidCard`, `PayClosed`). The branches of
`handleMercadoPagoEvent` are `OrderUpdated`, `CycleCredited`, `CycleUnmatched`,
`CycleNotCredited` and `PreapprovalCancelled`. `Save` is the repository's
`toPlain`, which writes charges field by field and so forgets
`abandonedChargeIds`; `SyncUser` swallows its failure as the code does.

A notification carries only the id of a resource, which the handler reads when
it runs. So a notification late, repeated or out of order is the action enabled
whenever the resource is in that state, and no queue is needed. Only a credited
cycle carries a flag, `delivered`, because handling it twice is not idempotent:
a second delivery is the fault `redeliver`.

Failures are switched on one by one by `Faults`, so that a run says which
properties survive which failures. Dates are month numbers, amounts naturals.
Two totals of a plan go about, as in the code: what the charges add up to
(`total`, the base, which is what the gateway is asked for) and what the student
pays and accepts, interest included (`PayerAmount`, of `payerAmountsOf`).
`choosePlan` records the acceptance before it saves the plan. With the fault `save` it
stops between the two (`AcceptanceWithoutPlan`): `unsaved` then says that an
acceptance follows those in `acceptances`, which are only those whose plan was saved. `restarted` is
a history variable for one property. `PurchaseOf` is what the manager's list of
contracts says of each acceptance, read from the one document there is.

### `SubscriptionRaces` and the code

The same documents, but a handler holds its own copy from its read on (`doc`),
and each await ends a step: read, ask the gateway, save, mirror. `Crash` drops a
handler. Modelled at this grain: card payment of a closed plan, refresh, restart,
cancelling a recurring plan and the three notifications. `acked` is the set of
notifications answered 2xx. `existingCardOutcome` reads the order twice, to know
whether it is paid (`PayCheck`) and whether its challenge is open
(`PayCheckAgain`); either reading may fail and is then passed over.

### `Agenda`, `Classes` and the code

`grid` is the collection `agenda` of one teacher, a document per half hour; an
hour is two documents that say the same. `assign` is two commits, dropping stale
halves and writing the block: `torn` remembers a day where a handler stopped
between them. `turmas` is the set of groups that exist; groups are created
outside the model, which starts with all of them.

`lessons` maps the deterministic id (occupant, date, hour) to its document;
`Merge` is `set(..., { merge: true })`, so a document written over another keeps
the fields it does not set. `closing` is the local list of `autoCloseOverdue`:
lessons are closed one a step, as they were listed, and anything may happen in
between. `Missed` is what `createMakeup` saves after an absence, three documents
in turn; `Approve` also saves three. Both may stop half way, which `stopped`
remembers; at most one handler of a behaviour does. Other handlers are one step.
Time is counted in ticks: `OpensBefore` 10 minutes, `MissedAfter` 15,
`ClosesAfter` 20, `AdvanceNotice` 4 hours and `ManualWindow` 72 hours keep their
order and not their ratio. A makeup slot is a constant of the student. Whether
the student is in arrears is another component's decision: the handlers it
would refuse may just not happen.

`Detail` and `Summary` are the closing of a month by two ways of
`billing-summary.service.ts`: line by line, and added up.

What the code does and no property demands: a makeup is dated from the missed
lesson, so one created by the closing after 72 hours may already be over, and is
then closed as another paid absence; a makeup only avoids lessons that were
materialised, and a regular lesson may later be born on its hour
(`lessons/lesson.service.ts:91`); the rescheduled lesson of a group belongs to no
group, so no student can enter it; a teacher's absence can be marked as given and
is then paid along with its replacement; an assignment is refused by the hidden
block of a group that is gone; a student who entered and reloads in the missed
window is recorded absent (`lessons/lesson.service.ts:213`).

### The request machines

`Supply`, `Library`, `Recruitment` and `People` are all about requests that
overlap, and share a shape. `requests` maps each client to the request under way:
a record with the operation, the await it stands at (`pc`), whom it is about, and
the copy it read (`copy`). One action is what a handler does between two awaits: a
read and the checks on it, or one write. A document is saved whole from `copy`,
as the repositories do (`save` replaces the document, `update` merges the fields
given into it), so an overtaken copy undoes what was written since.

Where the code does nothing about that, a property cannot ask for it. Instead of
weakening the property for everybody, a history variable names who was hit, and
the property holds of all the others:

- `outdated` (in `Supply`, `disturbed`): documents written from a reading that was
  no longer true when it was used, and those a check of the same request had not
  seen. It records the overlap and not its effect: a write made of a true reading
  puts nobody there, whatever it leaves;
- `crossed` (in `People`): students whose grant wrote between the two writes of a
  revocation, or whose revocation wrote between the two of a grant;
- `cut`: documents whose request failed or stopped half way and left its writes
  incomplete. A failure that the code undoes, or from which asking again recovers,
  does not put anyone in `cut`;
- `torn` (in `Supply`): modules deleted between the check of a closing and its mark;
- `overtaken` (in `Finance`): years whose goals were saved from an older reading.

They are assigned by the action where the hazard bites and nowhere else, so the
properties still demand everything of every other interleaving. What they set apart
is not caught by the properties that name them: the notes of the hazards in
`PROJECT.json` say which part of a hazard is caught and which is not.

`Supply`: `header` and `modules` are the collections `student_supplies` and
`supply_modules`. A generation is one skeleton and what its panel wrote for it;
the content of a module is who wrote it. `finishConsolidation` is four awaits,
`saveAll` two. A repeated save arrives after its panel was answered.

`Library`: `docs` is `video_lessons`, `level` the topics of one level with their
kind (`common`, or `video` for `videoOnly`), `files` the bucket, `assets` the side
of Mux. Uploads arrive whenever they like. An event of Mux is an asset that is
settled: an event is read when it is handled, so late, repeated and lost events
need no queue. The poll is `sync`. A lesson is created, or moved, after its topic
was looked up, and a topic goes after its lessons were counted, with awaits
between the check and the save on both sides: requests carry the topics, or the
topics in use, that their check read, and `outdated` gets a lesson only where these
are no longer the ones that are stored.

`Legal`: a version is a pair, ordered lexicographically as `compareVersions`
does; its text is not modelled. `Recruitment` keeps the consent in its two places,
the acceptances and the candidate, and the version required when each application
was made (history). The deletion of a candidate is six steps.

`Accounts`: `accounts` is Firebase (state, role claim, address), `users` the
documents as functions on the fields they have: a merge adds fields, and a field
nobody wrote is absent. What an edit asks for is a patch, which fills fields or
empties them, as the DTOs let it (`''`): an empty field and one that is absent are
the same to whoever asks (`Says`), and different to a merge. `onboarded` is a date
(`onboardingCompletedAt`), so that one moved by a later edit is seen. `tokens` is
the role in the last token, which the guards believe until the next one. `People`
adds `payments` (`manualPayments`) and the day; `Until` is the date the access
guards read. Students here have no subscription, the two kinds of access meet in
`hasPaidAccess` only. A student may be given to a teacher who is inactive, and a
teacher deleted with her students left as they are, as in the code: nobody is set
apart for it.

`Finance`: months are numbered from the first year; the overview of the month and
of the year are two algorithms over the same payments and expenses.

## Runs

Plans have two shapes, the Mensal and a plan of two months, which stands for six
and twelve: what the code does depends on more than one charge, never on how
many. `ScheduleMonths` is 2 for 6 for the same reason. The price exceeds a
coupon by one coupon and is covered by another.

| run | question | bounds |
|---|---|---|
| `sub_monthly` | is every renewal paid with money of its own, the preapproval linked and at the right amount, the mirror right? | no failures, two contracts, two preapprovals, one PIX |
| `sub_monthly_faults` | what survives every failure? consistency of the document, access and payments kept | two contracts, a free first month, DEV_MODE, a schedule of four charges, so that a repeated cycle pays a second one; a plan that is not saved, which leaves the document alone, is in `sub_plans` |
| `sub_plans` | is a closed plan debited once, for what was accepted, only confirmed with money, and told apart from the contracts before it? does it implement the lifecycle? | both shapes one after the other, two orders, so that a second debit could happen, three months, so that a period ends; the save of a plan may fail. The closed plan's charges add up to 4 and the student accepts 5 |
| `sub_live` | does the gateway's news reach the document? | `FairSpec`, lost answers, unreadable and undecided orders, failed releases |
| `classes_grid` | does the grid stay whole, and does an hour become one lesson? | three half hours of one day, a student and a group, two lessons, two ticks; no reschedules |
| `classes` | is the teacher paid for what each lesson became, at a frozen price, and does every absence have one replacement? | one student, one half hour a day, three lessons, so that a makeup is pushed, five ticks, so that the first lesson is closed by the system, one request, one reader, two rates; the grid is set on the first tick |
| `races_concurrent` | what survives any interleaving and crash? | two handlers, two orders, two cycles |
| `supply` | is what is declared complete all there, does a panel alone show its own material, is one that persists answered? | two panels, two modules, one repeated save, one stop; over nothing, or a legacy document |
| `library` | does a lesson tell the outcome of its own asset, is it found, does it leave processing? | one lesson at any stage, two topics, two materials with a limit of one, two assets, two requests of the panel, one poll or webhook, one stop |
| `hiring` | do consent, applications, résumés and deletions keep agreeing while the terms change? | one candidate and one job at any stage, two résumés, two requests at once, one failure |
| `people` | do accounts, documents, roles, access, payments, rosters, goals and sums keep agreeing? | one student and one teacher at any stage, two requests at once, one failure, two years of two months; profile edits that fill all, fill or empty the data, or change nothing, edits by others that fill or empty the name or write another address |

A request that races needs one other: two requests at once, begun in any state a
document can be in, are every pair of handlers at every pair of awaits. `hiring`
was also run with three requests (5.4 million states, no error), which is too long to
keep.

`CHECK_DEADLOCK FALSE` in the runs of `subscriptions`: the bounds on clock,
contracts, orders and cycles end every behaviour, and a student may simply stop.
Lessons can always be listed again, so their runs check deadlock. The runs of the
request machines stop when their requests are spent.

The largest are `sub_plans` (733 974 distinct states), `sub_monthly_faults`
(603 111), `people` (597 056), `hiring` (432 361) and `library` (378 955).

`claim_redelivery` checks a statement of a comment and TLC finds the code breaking
it: pay a cycle, deliver its notification twice, and the second confirms the next
renewal. `findings` in `PROJECT.json` quotes the statement.

The passing runs leave out, through `Faults`, the failures that break a property:
`redeliver`, `stale_key` and DEV_MODE break `PaidIsCredited` (the idempotency key
of a PIX does not name the contract); `read`, `lost` and `pending` break
`ContractDebitedOnce`; `release`, `lost` and `update` break
`GatewayFollowsDocument`; `sync` breaks `MirrorFollowsDocument`.
A coupon that zeroes the first charge of a plan sold for a period would confirm
the whole period without an order, so `sub_plans` has a coupon below the price.
`GatewayFollowsDocument` speaks of the contract in force: choosing a plan over an
unpaid, suspended or cancelled one leaves the earlier preapproval alive.

Fairness. `FairSpec` assumes only what Mercado Pago documents and the webhook
controller relies on: it notifies again until it reads a 2xx, so a notification
that would have an effect is in the end handled (weak fairness of each handler of
a notification). Nothing is assumed of students, of issuers or of the
calendar: a student may never pay, a cycle may never be decided.

`FairSupplySpec`: a panel that started goes on, which is what its loop does: it
writes what is missing, sends again what a 409 listed, closes again after an error.
Weak fairness of those, strong fairness of sending one module, which another panel
may disable and enable for ever. `FairLibrarySpec`: handlers reach their end, the
panel polls, Mux settles what it started. No webhook has to arrive, since one may
be dropped; the poll alone must do. `Recruitment` and `Finance` state no
fairness: nothing there has to happen.

## What the models show of the code

Comments that the models contradict. Each was checked once as an invariant, and TLC
found the behaviour told here; the properties that are kept say what does hold.

- `curriculum/curriculum.service.ts:120`: to remove the topic of a video "deixaria o
  vídeo sem lugar na árvore do aluno — então a gravação é recusada". A lesson created,
  or moved, between the count of the lessons (line 85) and the save of the topics is
  left under none. `ReadyIsFound` holds of the saves whose check was still true.
- `users/user.service.ts:274`: the payment voided is the one "que corresponde à
  concessão que está sendo desfeita". The refund looks for it after the days were taken
  back (line 228); one granted and recorded in between is found instead, and the
  payment of the grant undone keeps counting. `RefundsTakeTheLast` sets these students
  apart (`crossed`).
- `users/user.entity.ts:85` and `teachers/teacher.service.ts:101`: `pendingTeacher` is
  of the students whose teacher was deactivated, and no student is left pointing at one
  who is gone. An assignment asks only that the teacher exists (`teacher.service.ts:277`,
  `:331`), and `DELETE /users/:id` does not ask for her students.
  `StudentsHaveTheirTeacher` shows that there is no third way.
- `users/onboarding.ts:60`: a pending invitation is of "quem nunca preencheu
  absolutamente nada". A teacher who filled her phone, CPF and PIX key and left the
  name out is pending, and her document can be deleted as an invitation.
- `subscriptions/plan-acceptance.entity.ts:62`: a contract listed as paid "chegou a pagar
  ao menos uma parcela". When the save of the plan fails after the acceptance was
  recorded (`subscription.service.ts:199`), the acceptance is listed with the document
  of the contract before it. `PaidContractsWereCredited` is of contracts whose plan
  was saved.

Behaviour met while modelling that no property asks for, because nothing in the
code prevents it:

- Subscriptions: `toPlain` does not write `abandonedChargeIds`, so an order set
  aside by `restartCardPayment` is forgotten by the very save
  (`subscriptions/subscription.repository.ts:90`); a closed plan stays `ACTIVE`
  after its period and bars another contract (`subscription.service.ts:174`); a
  payment confirmed while a cancellation awaits the gateway is overwritten
  (`subscription.service.ts:775`); an order notified before its id is saved is
  acknowledged and lost (`subscription.service.ts:862`); an order paid between the
  two readings of `existingCardOutcome` does not keep another from being created
  (`subscription.service.ts:510`).
- Registrations: an edit may erase the phone or the name of somebody registered, and
  the date stays on what is no longer complete (`users/onboarding.ts:72` says so).
- Rosters: releasing a student sets `teacherId` to `undefined`, which a merge does
  not write (`teachers/teacher.service.ts:279`): the student is still found by
  `findStudentsByTeacher`. Earnings are right, for `pendingTeacher` is written.
- Invitations: the mail is sent inside the `try` that undoes
  (`teachers/teacher.service.ts:70`), so one that fails deletes the account and
  leaves the document. `createAccount` sets the claim outside any `try`: a failure
  leaves an account nobody lists, and a sign-in to it resolves to a student.
- E-mails: `PUT /users/:id` accepts `email` and does not change the account; a
  profile edit read before a change of e-mail writes the old address back.
- Access: a refund voids the last payment though all the access goes; two grants at
  once add thirty days.
- Goals: an annual goal saved from a reading without monthly targets writes an
  empty map, which replaces the targets set meanwhile
  (`finance/revenue-goal.service.ts:20`).
- Candidates: the terms are read outside the `try` that undoes the account
  (`recruitment/candidate.service.ts:67`); an upload that ends after a deletion
  stays in the bucket.
- Video lessons: an edit saved from an older copy takes a ready lesson back to
  processing (the next poll repairs it) or a moved one back to its topic (nothing
  does); two completions of one upload leave an asset behind.
- Study material: a repeated save that arrives after the closing takes a complete
  material back to a draft of modules nobody will send.
- Reschedules: the suggested date is the UTC weekday of the lesson
  (`reschedules/reschedule.service.ts:116`), the next day for one late in the
  evening; not modelled, for ticks have no time zone.

## Proofs

Every theorem below is of the specification the runs check, for every value of the
constants that its named assumptions allow; TLC evaluates those assumptions on
every instance. Each rests on an inductive invariant, which TLC checked on the
instances before it was proved.

### `SubscriptionDomain_proofs`

Lemmas only: what `BuildSubscription`, `Confirm`, `ConfirmNext`, `KeepPaid`,
`ToPlain` and the link of an order make of a document that is well formed
(`DocInv`). `Subscription`, where a handler is one step, and `SubscriptionRaces`,
where it is split at its awaits, both reduce their steps to these.

`DocInv` is what none of the properties says alone: that a confirmation leaves the
window full needs the counter, the counter needs that the paid charges are a
prefix, and that a notification confirms the *next* charge needs to know where
gateway ids may be. So the charges of a document are numbered from 1, paid ones
first; only the next open charge of a recurring plan carries a gateway id, hence a
late notification finds either a paid charge or the next one; a document that links
a preapproval is recurring and not cancelled; and every charge costs what the plan
and the coupon say of its index.

### `Subscription_proofs`

Proved for every catalogue, every set of coupons, gateway ids and failures, and
every bound. Where a theorem needs a failure not to happen, the hypothesis is in
its statement.

| theorem | states | unless |
|---|---|---|
| `TypeCorrect` | `[]TypeOK` | |
| `ClosedPlans` | `[]ClosedPlanAllOrNothing` | |
| `AccessWasPaid` | `[]AccessIsWhatWasPaid` | |
| `Windows` | `[]ScheduleIsAWindow` | |
| `AccessIsKept` | `AccessNeverShrinks` | |
| `PaymentsStay` | `PaymentsAreKept` | |
| `Refinement` | `ImplementsLifecycle` | |
| `DebitsWereAccepted` | `[]DebitIsWhatWasAccepted` | |
| `MirrorIsCurrent` | `[]MirrorFollowsDocument` | a write of the mirror may fail |
| `GatewayFollows` | `[]GatewayFollowsDocument` | an answer may be lost, a preapproval not released or not updated, or `DEV_MODE` |
| `ContractsAreDebitedOnce` | `[]ContractDebitedOnce` | a read may fail, an answer be lost or a card order stay in processing, or a plan sold for a period be payable with one PIX (`CardIsRead`) |
| `PaidContractsHaveMoney` | `[]PaidContractsWereCredited` | an idempotency key may outlive its contract, or `DEV_MODE` (`MoneyOnly`) |
| `PaymentsHaveMoney` | `[]PaidIsCredited` | the same, a cycle may be redelivered, a coupon give a month of a period away (`NoFreePeriod`), or ids be infinite |

The assumptions are `CatalogueAssumption`, `GatewayIdAssumption`,
`EnvironmentAssumption` and `ScheduleAssumption`.

`IInv` is `DocInv` of the document and the types of the rest of the world;
`Refinement` maps each action to one step of `PlanLifecycle` or to a stutter under
it. `DebitsWereAccepted` relates the two totals: a card order debits an amount which,
with the interest of the catalogue, makes what the student accepted of its contract.
`DebitInv` adds that an order is of a contract that exists and that the document
repeats the plan of the last acceptance, and its total once the interest is added: an
order is opened for the document in force, so it repeats what was accepted, and stays
that of its contract when another is accepted after it. An acceptance whose plan was
not saved is of no contract, and nothing is debited for it. To charge the accepted
total instead of the base would break it (`PayClosedAtPayerTotal`). `GatewayInv` is the long one. After a payment
`syncRecurringAmount` compares the price of the next charge with the `installment`
the document tells, not with what the gateway has, and writes only when they differ:
so that the preapproval has the amount of the next charge needs to know what the
document tells. `GatewayInv` says that it is the price of a charge that is paid or
next, that a coupon ends once, so that prices change once, that a preapproval is of a
contract not later than the document's, and that no open charge is linked to an
order while a preapproval is.

`DebitedInv` is about the card orders of a plan sold for a period. `payWithCard` reads
only the order its open charge links, so what keeps it from debiting twice is that a
*live* order, one credited or at the issuer's challenge and not set aside, is the one
the open charge links (`LiveIsWatched`), and that a contract has one (`OneLive`). A
student could leave it by changing to PIX, were it offered: the two plans the catalogue
sells for a period have 6 and 12 instalments and PIX is for one, hence the hypothesis on
`Installments`. One lemma for each handler says what it does to the live orders (none,
or this one) and to the document (left alone, wholly paid, or it links that order).

`CreditInv` is where the money of a paid charge came from. An order a charge names was
created for this contract and, of a plan that renews, for this charge, so no two
charges share one; a preapproval is of this contract, and while one is linked no open
charge waits for an order. A renewal no order paid was paid by a cycle, and that is a
count: those charges (`ByCycle`) are no more than the cycles delivered
(`CyclesPay`), since a delivery and the confirmation that follows raise both by one.
`PaidContractsHaveMoney` does not need the count, only that there is a cycle if there
is such a charge, which is why it stands when a cycle is redelivered and
`PaymentsHaveMoney` does not. `NoFreePeriod` is a hypothesis on the coupons: no code
compares a discount with a price. TLC checked both invariants before they were proved.

### `SubscriptionRaces_proofs`

Proved for any number of handlers in flight, any orders and cycles, whether the
process may stop or not:

| theorem | states |
|---|---|
| `CopiesAreCoherent` | `[]DocumentsAreCoherent` |
| `ActivePeriodWasPaid` | `[]PeriodIsPaidFor` |

`RacesInv` says of the stored document and of every copy a handler holds the same
thing, `CopyInv`: `DocInv`, that the open charges of a plan sold for a period are
linked to orders only, and that one that is confirmed had an order paid. Since it
never mentions how a copy relates to what is stored, no interleaving, however the
saves overtake each other, can disturb it; a payment is never taken back, so what a
handler read of an order stays true while it waits (`HandlerInv`).

### `Classes_proofs`

Proved for every grid, set of students and groups, window, number of list
requests under way and bound:

| theorem | states |
|---|---|
| `LessonsAreTyped` | `[]ClassesTypeOK` |
| `GridStaysWhole` | `[]GridIsWhole` |
| `LessonsArePaidWhenDue` | `[]PaidWhenDue` |
| `PaidLessonsStayClosed` | `ClosedStaysClosed` |
| `ClosingsAddUp` | `[]ClosingAddsUp` |
| `MissesAreMadeUpOnce` | `[]OneMakeupPerMiss`, for one list request at a time |
| `RatesStayFrozen` | `RateIsFrozen`, for one list request at a time |
| `BlocksBecomeOneLesson` | `NoTwinLessons` |

The assumptions are `GridAssumption` and `ClassesAssumption`. `GridIsWhole` is
inductive with the type of the grid: `assertFree` lets a block through only where
the blocks it meets start where it starts, so the halves `dropStaleHalves` removes
are all that is left of them. The other properties are not inductive. `Inv` adds to
them that what is left in a list to close is past the time a person may record the
lesson, and that nobody had recorded it: hence the automatic closing, however old
its list, replaces nothing recorded by hand. `IsStep` says what a step may do to a
document; one lemma for `Save` and `Merge`, one for a lesson that ends (`Missed`
included, whose makeup lands where no document is) and one for each save of
`Approve` show it of every handler. `ClosingAddsUp` follows from `Inv`: what is payable
has its price, so the rate of the day is never fallen back on. `NoTwinLessons` needs no
invariant of the grid: what is born together starts where a block starts
(`CandidatesAreStarts`), two half hours with the same document start in the same place,
and every handler but the listings books one document at most (`OthersBookOne`).

`OneMakeupPerMiss` takes a second invariant, `TraceInv`. What a list holds is written
back when it is closed, links included, so the makeups of a lesson (`MadeFor`) are the
documents that make up for it as they are stored *or as a list has them*. Of every lesson
whose handler did not stop half way, `MakeupsOK` says there are no two, and none while
the lesson has no link: `createMakeup` looks at the link alone. `ListedOK` says the same
of the link and the price of the listed copy, since that copy is what the automatic
closing looks at; `LinksOK`, that links lead to documents there are. `Traced(ended)` says
what a step that ends the lessons `ended` does to the others, `TracedKeeps` that such a
step keeps `TraceInv` and every price, and one lemma for each handler that it is such a
step. Only the automatic closing needs `OneReader`: it saves a lesson that another list
might still hold as it was. The window does the same for the other handlers, which end a
lesson no later than a list may first hold it.

### `Library_proofs`

| theorem | states |
|---|---|
| `LibraryInvariance` | `[]LibraryInv` |
| `AssetsAgree` | `[]AssetsAndLessonsAgree` |
| `WhatIsShownIsThere` | `[]ShownIsThere` |
| `WhatIsShownIsWhole` | `[]MaterialIsWhole`, of `Supply` |

For any number of lessons, topics, materials, assets, panels and listeners, under
`LibraryAssumption`. `LibraryInv` has two halves. `ShapeInv` is about readings, in
the stores and in the hands of requests alike: a reading of a lesson, however old,
names an asset that was made for that lesson, and if it tells an outcome it is the
final outcome of that asset. It holds because assets are never renamed and settle
once (`Grows`), and it is why no interleaving of polls and events can put one
asset's outcome on another. `AgreementInv` is about the stores: an asset that is
paid for is named by its lesson or in the hands of a completion about to save
(`KnownInv`); a lesson is under a topic, unless `outdated` names it (`FoundInv`);
and a material *offered* has
its file or a removal that will take the offer back is one await away
(`FileInv`). Offered is more than ready: a completion that found the file and is
about to say so counts (`Checked`), for else a removal between its check and its
save would not be accounted for.

`FoundInv` is where the checks of the code do their work. Nothing is put in
`outdated` for being left without a topic; it takes a reading that changed before the
save, so of every save whose check is still true the proof shows that the check
was enough: that of a topic removed, that none of the lessons counted, of whatever
status, is under it (`Orphaned`); that of a lesson created or moved, that the topic it
found is there. Without either check the theorem fails, and so does the run
(`AnyTopic`). Of the overlaps themselves nothing is claimed.

The property of materials names `remove` and `unmaterial` at any await; the proof
shows that only the last one matters.

The theorem of `Supply` is for any number of panels, modules and repeated saves.
`SupplyInv` adds what a closing that passed its check knows: while it waits for its
mark the modules it counted are there, or one was deleted meanwhile and `torn` says
so; and what a panel has sent is in the collection unless another, which `disturbed`
then names, wrote over it or deleted it.

### `Recruitment_proofs`

Proved for any number of requests under way, candidates, jobs, résumés and
failures, under `RecruitmentAssumption`:

| theorem | states |
|---|---|
| `OneTextIsInForce` | `[]PublicationsAgree` |
| `TheVersionsAreKept` | `VersionsAreKept` |
| `TheConsentIsOnRecord` | `[]ConsentIsOnRecord` |
| `NothingIsLeftAlone` | `[]NothingIsOrphaned` |
| `BelongingInvariance` | `[]RecruitmentInv` |

A publication is a transaction that reads the header again; the seed is not: it
writes version 1.0 after a reading that may be old. `VersionsInv` adds to
`HeaderNamesItsVersions`, the first half of `PublicationsAgree`, that every published
document has version 1.0, so such a seed finds its id taken and writes nothing. The
handlers of candidates and jobs leave the document alone
(`CandidatesKeepTheDocument` and its like), and those of the document leave the
candidates alone, which is what lets each half be proved by itself.

`ConsentInv`: a consent is written in the acceptances before it is stated on the
candidate, and before an application is made under it, so each consent that a
candidate, an application or the copy of a request states is on record or is what
the request that holds it is about to record. `BelongInv` and `EndsInv`: an upload
picks a file no document and no other request names; a file is deleted only after
the document stopped naming it, or by a deletion that `cut` accounts for if it does
not reach its end; and the lists a deletion works through, once emptied, stay empty,
because nothing is created for a candidate or a job whose deletion is under way
without a reading that `outdated` then marks.

### `People_proofs`

For any number of students, teachers, requests under way and failures, under
`AccountsAssumption`, `PeopleAssumption` and `FinanceAssumption` (there is a
student and a teacher; the values that stand for an absent document, date or
person are none of the values they are told from):

| theorem | states |
|---|---|
| `PeopleTypes` | `[]PeopleTypeOK` |
| `GoalsInvariance` | `[]GoalsAreKept` |
| `RegistrationInvariance` | `RegistrationIsKept` |
| `TeachersInvariance` | `StudentsHaveTheirTeacher` |
| `AccessInvariance` | `[]AccessMatchesPayments` |
| `RefundsInvariance` | `RefundsTakeTheLast` |

A document is a function on some of the fields and a request may hold any old one,
so the types (`PeopleTypeOK`) say what every document is, in the store, in a copy
and in the body of a request: a student with a teacher is told whether they wait.
`GoalsAreKept` and `RegistrationIsKept` need no more. The second is about the date
and not about the fields, which edits may empty. A merge never removes the date, not
even one made of a copy from before it. It is set only by `Dated`, on a copy that is
whole and has none, so an edit of a true reading does not move it; an edit of an older
copy, which may, puts the person in `outdated`.

`StudentsHaveTheirTeacher` says who may leave a student with a teacher who is gone or
inactive without listing them as waiting: a panel that gives the student to her then,
or one that deletes her as a user. Every step of every handler is shown to be a `RosterStep`:
a student comes to earn only for a teacher at work or by `Given`, she stops working
only when nobody earns for her, or her deactivation is under way, or by `Dismissed`,
and a deactivation ends only when nobody earns for her. `ForsakenStep` reads the
property off.

`AccessInv` is what the payments need, where `setAccessGrant` writes the days first
and the payment later, or the old days back. `TimesInv`: each grant, recorded or
not, has a time no other has, and gives days from the end of those it read.
`DaysOK`, of each student: the payments that stand end a grant apart and none after
the last day; a grant that is not recorded yet begins after the payments it follows
and after every other such grant, or before them. This is what lets a grant that
is undone put its old date back without taking days another payment gave, and it
says of a student without days that no payment stands. `RecordOK`: the last day, and the day
each grant would put back, is of a payment or of a grant still to be recorded. Three
kinds of steps remain: five that write days or payments, each with a lemma
(`GrantWritesKeeps` to `RevokeVoidsKeeps`); a grant that reads; and all others, which
leave a student's days and payments alone (`Leaves`). A student whose creation is
still under way has neither document nor payment (`CreationsInv`), so the save that
writes over a document cannot take days away. `RefundsTakeTheLast` follows: a
refund that finds the student without days finds no payment standing, so all that
are counted were taken back, and it marks the last.

All of these are of students who are in neither history (`Apart`): a refund that finds
what a grant wrote after it took the days back voids a payment that still gives
access. So what `AccessInv` adds is where the two can
cross: while a refund is under way (`IsRefunding`) a student who is not `Apart` has no
days, for a grant that wrote any would have crossed it; and a revocation that
finds a grant half recorded crosses it the other way.

### `Accounts_proofs`

| theorem | states |
|---|---|
| `StoresInvariance` | `[]TheStoresAgree` |

For the same values and under the same assumptions, on the lemmas of
`People_proofs`. No transaction spans Firebase and the documents, so `StoresInv` is
what holds of each person who is not `outdated`, whatever is half done; a request
that stops half way is still accounted for by `cut`.

- `BornInv`: until the document of a person is saved nobody knows of them: no
  deletion, no migration that read the list, no token and no session. A creation
  that starts over an old one can therefore not be overtaken by what concerned it.
- `PairInv`: an account without a document is being created or deleted, and these
  only, at the places `claim`, `save` and `undo` or `account`; whatever else stops
  leaves both or none.
- `RoleInv` and `ClaimInv`: the role a document resolves to is the person's; the
  claim of the account is that role, or none of a person in `cut`. Before the
  document is saved a sign-in resolves nobody's role to `student` and gives that
  claim, so what is carried through a creation is weaker: the claim is none or
  `student` until the creation writes its own, and a token tells another role only
  while the claim does too: the creation then finds that claim, and `outdated` says
  so.
- `EmailInv`: the two addresses are equal but for a change between the account and
  the document. A creation saves the address it was asked for, and changes may
  start before the document is there; what holds then is a count (`TurnsInv`): of the
  changes that have written the account, those to the other address lead by one
  exactly when the account has it.

Each handler has a lemma that it keeps what holds of the person it is of
(`CreateClaimsKeeps` and its like), and what it does to anybody else is `Stays`,
which keeps all five (`BornStays` and its like). The three parts of the property are
then read off.

### What is only model-checked

- Liveness (`GatewayNewsIsRecorded`, `EveryPanelIsAnswered`, `ProcessingSettles`):
  out of the prover's reach.
- `YearAddsUpItsMonths` of `Finance` compares folds over a set, about which a proof
  would need induction over data.

## A bound that matters

`classes` has one list request at a time. With two (`Readers = {r1, r2}`) TLC
finds, in twelve steps, two automatic closings that each read an overdue lesson
before the other had saved it and each book a makeup for it: `OneMakeupPerMiss`
then fails, and the code does nothing about it. No document of the repository
promises otherwise, so it is a hazard in `PROJECT.json` and not a finding.
`RateIsFrozen` needs the same bound, for the same reason: each closing prices the
lesson as it was listed. The theorems on these two assume it (`OneReader`); the others
of `Classes_proofs` do not.

`people` has two requests. Run with three and four, and nothing else to do, TLC
showed that some properties and histories were too strong, and they were corrected:
a creation whose mail fails cuts a person who signed in meanwhile, a registration
can be written over by a creation that was under way, two payments may be recorded
in the reverse order of their days, a refund may overtake another, and one may go on
after its student was deleted. With the corrections neither finds an error.

## Not modelled

- The coupon catalogue and the views of `subscriptions` other than the list of
  contracts; signatures of webhooks; the day of the month, and with it how
  `addMonths` clamps to the last one (`subscriptions/subscription.entity.ts:320`);
  refunds by the gateway, on which the code takes no action.
- The grid takes an assignment as one step but for a stop between its commits: two
  at once are not interleaved.
- The panel of finance over subscriptions and lessons at once: its sums of them are
  `Subscription` and `ClosingAddsUp`.
- Articles, feedbacks and turmas: single documents created, edited and deleted,
  with nothing between two steps. The brand studio: prompts and HTML.
  Notifications, uploads and storage: outside effects without state, failures of
  which are failures of the request that calls them. Guards, decorators and glue
  keep no state; what the guards read is in `SubscriptionDomain` and `People`.

## Plan

1. (done) `subscriptions`: domain, handlers, races, lifecycle, proofs.
2. (done) `agenda`, `lessons`, `reschedules`, `billing`.
3. (done) `supply`; `video-lessons` with `curriculum`; `legal` with `recruitment`,
   first proofs; `auth`, `users`, `teachers`, `manual-payments`, `finance`.
4. Proofs. (done) Assets, topics and materials of `Library`;
   `MaterialIsWhole` of `Supply`; `Recruitment` and `Legal`; the documents and the
   linked preapproval of `Subscription`; `SubscriptionRaces`; the types, the goals,
   the registration, the rosters, the access and the refunds of `People`, and that
   its stores agree; all of `Classes`; the money of `Subscription` (`PaidIsCredited`,
   `PaidContractsWereCredited`, `ContractDebitedOnce`) with the failures of their run.
5. Two assignments of the grid at once, split at their commits; a lesson's life as
   an abstract specification, which `Classes` implements.
6. A calendar module: `addMonths` over days against a reference.
