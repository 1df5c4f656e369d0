# A verification project for PayKH

TLA+ modules about the server of PayKH (`src/apps/api`, NestJS over PostgreSQL
and Redis), the TLC configurations that check them on small instances, and
theorems about them that TLAPS checks for every value of the constants.

A module is run with `tlc -config <file>.cfg <module>.tla`, a proof with
`tlapm <module>.tla`. `PROJECT.json` lists every run with the module and the
configuration it takes, the source lines of each definition, and the mutants:
for each property that holds there is a plausible bug, written as an operator
beside the definition it would replace, that the run of that property finds.

## 1. The system

PayKH takes KHQR payments for merchants. A payment is created over the API, the
dashboard or a payment link, is paid by bank transfer, and is found to be paid
by polling the provider, by a bank alert read in Telegram, or by a cashier. The
capture then sets off the rest: quota, coupons, gift cards, loyalty points,
referrals, games, risk, receipts, the ledger, and webhooks to the merchant.

There are two kinds of process: the API and the worker, each in any number,
which share PostgreSQL (through Prisma, at its default isolation READ
COMMITTED) and Redis (BullMQ queues). A handler is an async function: it may
stop at any `await`, other handlers run, and the process may crash there.
Nothing resumes a handler after a crash. What saves the data is what is written
in one transaction, guarded updates (`updateMany where status = <what was
read>`), unique indexes, and repeated jobs. Every module models exactly that: a
handler is a record of what it has read and where it stands, each transaction
or single statement is one action, and any handler may act between two of
another's.

### Components, state, operations, and what makes each correct

| Component | State | Operations | Must hold | Modules |
|---|---|---|---|---|
| Payments | `Payment.status`, `PaymentStatusHistory` | create, cancel, simulate, confirm, bank alert, lazy expiry, poll, sweep, full refund; all through `transition()` | the history is a path of the table; consequences once; announced when done | PaymentStates, PaymentMachine, Payments |
| Refunds | `refundedAmount`, `Refund`, journals | `refund()`, backfill | never more than was paid; once for a key; a full refund closes | RefundAccount, Refunds |
| Idempotency | `IdempotencyRecord` | `execute()`, cleanup | one effect per key; each answer is the client's own | Idempotency |
| Webhook delivery | `WebhookDelivery`, jobs in Redis, endpoint status | emit, deliver, retry, reconcile, resend, replay, disable | no row lies; every row is decided; attempts bounded | WebhookDelivery |
| Loyalty, points ledger, promotions | balance, lifetime, `PointsTransaction`, journals, stock, vouchers, budget | award, bonus, redeem, adjust, expire, vouchers, rebuild | balance = sum of movements; no debt; stock and budget respected; FIFO expiry | PointsExpiry, PointsExpiryHistory, Points |
| Double-entry ledger | `JournalEntry`, unique (event, reference) | post, backfills, reconciliation | one journal for each movement | in Refunds, Points and Settlement |
| Maintenance worker | repeatable jobs | sweep, poll, cleanup, reconcile, settle, bill | overdue work is done in the end | in Payments, Idempotency, WebhookDelivery, Settlement, Billing |
| Telegram detection | detections, chats | ingest, confirm | an alert captures at most one payment | in Payments |
| Dashboard | none of its own | confirmPayment, refund | answers tell the truth | in Payments and Refunds |
| Quota, payment links, coupons, gift cards | usage counter, redemptions, card balance and journal | assertWithinQuota, pay, quote; `onPaid` of each | limits hold but for what is in flight; counters and balances follow their rows | Checkout |
| Settlement and payout | batches, payouts, merchant_payable | settle, payout | a payment is in one batch; statements agree with the books; no payout beyond what is owed | Settlement |
| Billing | invoices, subscriptions, grace, suspension | subscribe, sweep (confirm, renew, dun), setSuspended | who pays gets the plan; debts end in a suspension, and nothing else does | Billing |
| Referrals and commissions | referral, flag, commissions, journals | link, reward, accrue, review, payout | nothing under review is paid; decisions stand; payouts are booked | Referrals |
| Games | prize stock and count, plays | issue, play, reveal, claimPrize | no prize beyond its stock; each prize counted; the draw survives lost races | Games |
| Auth, MFA, rate limit, circuit breaker | tokens, counters | login, record; INCR | | not modelled |
| PayChain, Trustee | connections, inbound events | mirror, ingest | | not modelled |
| Everything else | rows, reports | CRUD, analytics, rendering, cryptography | | not modelled |

The components call each other synchronously: `transition()` awaits ten
consequences in order and then emits the webhook event; `refund()` runs inside
`execute()`; points movements are posted to the ledger in the transaction that
writes them. Webhook rows are handed to BullMQ after they have committed.

What is hard: two handlers on one row (each component), a crash between two
commits (refund and its transition, status and its event, row and its job),
retries of what was already done (idempotency, webhooks), values computed from
stale reads (points, stock, budget), duplicated jobs, and repair jobs that run
beside the live path. `PROJECT.json` lists these hazards at their lines, with
the properties that cover each or, where the code does not keep the property, the
configuration in which TLC refutes it.

## 2. The models

### Payments

`PaymentStates` holds the transition table of `shared-types`. `PaymentMachine`
is the promise: statuses move along the table, and each consequence of a
capture happens at most once, after the capture. `Payments` is the code: each
request or job has a program counter through `transition()` (read, guarded
write, the consequences one by one, emit). The read and the guarded write are
separate steps, since other transactions run between them; the write and its
history row are one, since they hold the row lock until they commit. Batches of
the sweep and of the poller read their list first and go through it with what
they read then. `Effects` is the set of consequences a store has set up,
numbered in the order of the code; four of them swallow their errors. A fault
is a crash of the handler or an error that escapes.

`status`, `history` and `emitted` are the database; `told` is what clients were
answered, kept only for final answers; the content of a consequence is left to
the module of its component. `simulate` checks the mode of the key only, and
demo payments have no created event, as in the code. A retrieve that meets a
payment just paid may throw an illegal transition, which the code does too.

### Refunds

`refund()` from the key's fast path to the last event, with amounts. The steps
are those of the code: read, check, ask the provider, transaction (find the
record, lock on `refundedAmount` and `status`, insert), ledger, transition or event.
`RefundAccount` is the promise, one atomic slice after another. The unique
index on a refund's key is never what stops a second refund: the lock on
`refundedAmount` fails first, which is part of `OneRefundPerKey`. The provider
is the mock (`routing-khqr.provider.ts:76-77`), which only agrees. `asked`
saturates at `Amount + 1`. Expiry of records is left to Idempotency.

### Idempotency

`execute()`: look for the record, run the effect and insert the record in one
transaction, answer a loser from the winner's record. Records age, are ignored
once aged, and are removed; each removal begins a new generation of the key.

### WebhookDelivery

A row and its BullMQ job live in two stores. A job goes through `process()`:
read the row, post, record success, retry or final failure; the final failure
counts failures, then disables the endpoint. `reconcilePending` adds jobs for
rows it takes for orphans. Time is not modelled: any PENDING row may be overdue,
which is what the code allows, as `nextAttemptAt` stays in the past while the
due job waits or runs and is null after a resend of an old row. There is one
endpoint. `Workers` is the number of jobs worked on at a time over all
processes: BullMQ's default of one for each, as nothing in the code reads
`WEBHOOK_WORKER_CONCURRENCY` (named in `docs/deployment.md:34`).

### Points

Each operation is what it reads and, later, what it writes; the three kinds of
write are kept apart: an increment of what the row then holds (award, bonus,
cancelled voucher), a value computed from the read (redeem, adjust, expire,
reward, stock, lifetime), and an unconditional status (voucher). `rows` is the
PointsTransaction table, `journals` what was posted for it; `Legacy` holds
movements from before journals were posted. `Wordings` says whether a merchant
may give an adjustment the very reason text of a cancelled voucher, which is
all that `backfillPoints` tells them apart by.

`PointsExpiry` is the expiry rule alone, and `PointsExpiryHistory` compares it
with a table of lots; its movements are any that never take more than there is,
as `mutateIn` refuses those. Left out: tiers (any amount in `Earns` may be earned),
several promotions and rewards, unlimited stock, adjustments by zero (which
leave a row without a journal), the notices themselves, and the increments of
referrals and games, which have the shape of a bonus.

### Settlement

A settlement run lists payments (`runForStore`), then opens a transaction for
each day: under an advisory lock it reads again which payments are unclaimed,
what they have refunded and the day's statement (`OpenGroup`), and writes what
it computed from that (`ClaimGroup`). The sweep lists days that are over, "settle
now" today as well; both may list at most `Take` payments (5000 in the code). A
payout reads what is owed under a lock of its own and books itself in the same
transaction. Captures, refunds and journals take neither lock, which is what
makes the interleavings interesting. `PassDay` is midnight; a capture may commit
with the day before, as it takes `paidAt` first.

A statement is kept by payment: how often it was added, and the refund and fee
added with it. The columns of the table are the sums. `late` is history: what
was refunded after the payment was claimed. `position` is what the journals of
one payment come to on `merchant_payable`. Money is counted in units so that
the fee is exact; left out are the rounding to four decimals, a change of the
fee between capture and settlement, the backfill of refunds (see Refunds) and
the automated payout, which always fails without booking anything.

### Checkout

What a payment is checked against when it is created and what its capture uses
up, for one organization in one period, one coupon and one card. Each check is
a plain read, the two counts of the quota are issued together and come in
either order, and nothing is reserved: captures, closes and other creations lie
between a check and the insertion. The consequences that use things up are
those of `transition()`, one after the other; a card is debited by a read and
an update guarded by the balance that was read, and who loses that race debits
nothing. `raced` is history: which payments a check missed because they moved
while it was under way, or were captured and not yet counted. Left out are
dates, currencies, minimum spends and the coupon's limit for each customer,
which only refuse more.

### Referrals

One referee, her payments, the merchants' payouts and the review. The reward
reads the referral, then the program, then the referral again in the
transaction, which takes no lock; the accrual reads the flag it will use two
awaits later. A payout marks by id what it listed, whatever the status is by
then. Whether a payment is within the window and large enough is a choice, as
is what the screening finds. Journals are sets, as `post` is idempotent.

### Games

The prizes of one active game. A draw reads the prizes, picks any that is
available (weights decide only which), claims a unit by a guarded decrement,
and after a lost race goes on without that prize, for `Attempts` rounds.
`reveal` tests a status it read, as the code does, so that one card may be
drawn twice. `supplied` and `kinds` are history. Creating and deleting prizes
is left out. Cards, requests and prizes are finite sets, as tables are.

In `Games`, `Billing` and `PointsExpiryHistory` a name that other components
have too (`Init`, `pc`, `vars`) begins with the component's, so that a module of
proofs may extend two components.

### Billing

One organization, whose subscriptions are a sequence; the sweep goes through
confirm, renew and dun, polling the invoices that it listed. The grace period
is kept as the invoice it was reckoned from, since `graceUntil` is that
invoice's due date plus a constant; `age` tells an invoice that is not due from
one that is overdue and one past the grace days. `activatePlan` is one
transaction of which the first statement decides what is cancelled. Errors
while confirming are swallowed invoice by invoice, all others end the sweep.

## 3. The runs

Bounds: two or three handlers show every interleaving of a read and a write of
one with a write of another, and a third writer repeats what the second did.
One fault is enough for each place where a handler can stop, as handlers do not
resume. Deadlock is not checked, because a system whose requests are all
served, and whose bounds are used up, does stop.

- `payments_race` (two requests, one job, one payment, a fault anywhere; of the
  ten consequences the first, the last, one that swallows its error and one
  that does not): `EffectsOncePerCapture`, `AnnouncedAfterEffects`,
  `CancelMeansCancelled`, `ImplementsMachine`.
- `payments_live` (one request, one job, a fault): `OverdueIsClosed`, and
  `CaptureIsServed` as long as nothing has failed.
- `idempotency_race` (three requests, one key or none, two bodies, a crash,
  expiry and cleanup): `OncePerKey`, `AnswersOwnRequest`, `EffectIsRemembered`.
- `refunds_race` (two requests, two units, a fault, the backfill):
  `RefundsAddUp`, `OneRefundPerKey`, `ImplementsAccount`, and, as long as
  nothing has failed, `FullRefundCloses` and `EachRefundIsAnnounced`.
- `webhooks_single` (one delivery, two jobs, one worked on at a time, one fault,
  one resend or replay): `SucceededWasAccepted`, `FailedAfterAllAttempts`;
  every row is decided in the end (`PendingIsDecided`), and
  a redundant job is harmless (`RedundantJobIsHarmless`).
- `points_rule` (every history of five movements of one to three points):
  `RuleIsFifo`, `WarnedIsWhatExpires`.
- `points_race` (two handlers, three operations after three old movements, one
  of them a reversal): `OneJournalPerRow`, `BalanceNeverNegative`.
- `settlement_race` (the sweep, two requests, two payments of which one can be
  refunded in parts, two days, a failure): `CountedOnce`,
  `RefundsNotOverstated`, `StatementMatchesBooks`, `PayoutsCovered`. Two
  payments make a statement that grows after it was written and a run with two
  groups; three handlers are two runs and a payout, or two payouts and a run.
  `Asked` is every amount up to all that can be credited, so that payouts which
  are refused are tried too.
- `checkout_race` (three payments that carry a link, a coupon with a card, or a
  card alone; a quota of two, a coupon for one redemption, a card worth one and
  a half orders, one fault): `QuotaHoldsUnlessRaced`, `RedemptionsAreCounted`,
  `BalanceFollowsJournal`. Three payments are one more than the quota, and two
  debits and a third that finds too little.
- `referrals_race` (two payments, two payouts, one failure, the review and the
  backfill at any time): `FlaggedIsNotPaid`, `DecidedIsFinal`, and, as long as
  nothing has failed, `PaidIsBooked`.
- `games_draw` (two requests, one card, a prize with at most one unit and one
  that is endless until the merchant changes it, one failure): `NoOverAward`,
  `AwardsAreCounted`, `AlwaysAPrize`. Two rounds for two prizes are the case in
  which every prize but one may be lost.
- `billing_sweep` (one owner, one sweep, two invoices, one subscription to the
  free plan, one order of the administrator, one failure): `PaidIsActivated`,
  `DebtSuspends`, `LapsedIsBilled`, `SuspendedForDebt`. Two invoices are a debt
  paid and the next one, which must get a grace period of its own.

### Further configurations

These are not among the runs of `PROJECT.json`; each answers a question that
came up while modelling. `WebhookDelivery_faults.cfg` (which takes some
minutes), `Points_alone.cfg` and `Settlement_live.cfg` pass; in the others TLC
finds the invariant or property violated, within seconds.

- `Payments_announced.cfg` (`CaptureIsAnnounced`): a crash or an escaping error
  between the commit and the emit (`payments.service.ts:597`) loses
  `payment.completed`; nothing repeats it, as `reconcilePending` only looks at
  rows that exist (`docs/webhooks.md:82` says at-least-once).
- `Payments_confirm.cfg` (`ConfirmMeansCaptured`): `confirmPayment`
  (`dashboard.service.ts:108`) answers `paid` for a payment that expired or was
  cancelled meanwhile.
- `Refunds_backfill.cfg` (`BackfillIsIdempotent`): the backfill posts the whole
  `refundedAmount` under a reference of its own (`reconciliation.service.ts:104`),
  so that a partial refund that was posted live is posted again, against the
  comment at lines 88-89.
- `Refunds_provider.cfg` (`ProviderGivesBackOnce`): two refunds reach the
  provider (`payments.service.ts:355`) before the lock stops one of them.
- `WebhookDelivery_attempts.cfg` (`AttemptsAreBounded`): a redundant job begins
  its own count, so that a delivery is posted more than six times
  (`docs/webhooks.md:83`).
- `WebhookDelivery_resend.cfg` (`ResendIsTried`): an automatic disable that was
  decided before a resend lands after it, and the resent delivery is dropped.
- `WebhookDelivery_single.cfg` with `Workers = 2` refutes
  `RedundantJobIsHarmless`: a job that read its row before another succeeded
  takes the row back to PENDING or FAILED (`webhook-delivery.processor.ts:153`,
  `171`), against the comment at `webhook-events.service.ts:100-102`.
- `WebhookDelivery_faults.cfg` (`SucceededWasAccepted`,
  `FailedAfterAllAttempts`, `DisabledForCause` with two deliveries and two
  workers): holds.
- `Points_alone.cfg` (one handler, five operations): `NoDrift`,
  `LifetimeIsEarned`, `VouchersWithinStock`, `VoucherEndsOnce`, `WithinBudget`
  hold, so that what the next four find is due to interleaving and to nothing
  else. `AloneNothingDrifts` proves the same for every instance.
- `Points_drift.cfg` (`NoDrift`): a redemption computed from a stale balance
  loses an award (`loyalty.service.ts:546`), against the comment at
  `reconciliation.service.ts:184`.
- `Points_stock.cfg`, `Points_cancel.cfg`, `Points_budget.cfg`
  (`VouchersWithinStock`, `VoucherEndsOnce`, `WithinBudget` with two handlers):
  two vouchers for the last unit (`loyalty.service.ts:688`), a voucher that
  gives back its points twice (`751`), two payments that overrun a promotion's
  budget (`campaigns.service.ts:235`).
- `Points_race.cfg` with `Wordings = {0, 1}` refutes `OneJournalPerRow`: an
  adjustment worded like a cancelled redemption is posted a second time by the
  rebuild (`reconciliation.service.ts:280`).
- `Settlement_live.cfg` (`EveryPaymentSettles`): a payment of a day that is over
  is settled in the end, though a run lists at most one payment and may fail.
- `Settlement_refunds.cfg` (`EarlierRefundsAreShown`): a refund that commits
  between the second read (`settlement.service.ts:85`) and the claim (`137`) is in no
  statement, and `docs/settlement.md:26` admits that only of refunds issued after
  settlement.
- `Checkout_card.cfg` (`CardIsDebited`): of two captures that read the card at
  once one is never debited (`giftcards.module.ts:184`). In the same
  configuration TLC refutes `QuotaHolds` (creations at the limit both pass),
  `CouponWithinLimit` (quotes in flight overrun the limit) and `LinkPaidOnce` (a
  single-use link is paid by two payments that were created before either was
  captured).
- `Referrals_reward.cfg` (`RewardedOnce`): two captures of one referee both
  reward (`referrals.service.ts:212`), against the comment at line 197. In the
  same configuration TLC refutes `ClearReleases` (an accrual that read the flag
  before the review writes HELD after it), `PayableCovers` (a payout is posted
  before its accrual) and `VoidIsReversed` (a void posts nothing against the
  accrual).
- `Games_reveal.cfg` (`OneCreditPerCard`): two reveals of one card draw and
  credit twice (`games.service.ts:279`), against the comment at lines 273-274.
- `Billing_debt.cfg` (`DebtIsPayable`): an invoice whose KHQR failed
  (`billing.service.ts:109`) can neither be paid nor polled, is dunned like any
  other and suspends its organization. In the same configuration TLC refutes
  `OneCurrent`: two activations that overlap leave two active subscriptions.
- `Billing_sweep.cfg` with two Sweepers refutes `SuspendedForDebt`: a sweep that
  is about to suspend does so although another has just marked the invoice paid
  (`billing.service.ts:183`). With one worker process the repeated job does not overlap
  itself.

A crash between a refund's transaction and its transition leaves a payment
given back whole and `paid` for good, since a retry with the key is a replay and
one without is refused; hence the proviso of `FullRefundCloses`.

### Fairness

- Payments and Refunds: weak fairness of each running handler, because the
  event loop resumes an await whose promise has settled. Requests themselves
  are not fair: nobody need send one. The expiry sweep is strongly fair for
  each worker: it is a repeatable job every 60 s, and a worker busy with
  another job, which disables it for a while, takes it up again.
- WebhookDelivery: weak fairness of writing rows and of working on a job that
  was taken; strong fairness of adding and taking jobs, because slots and
  workers are shared and become free again and again; strong fairness of the
  reconciliation, a repeatable job every 120 s, for each row.
- Settlement (`FairSpec`, in the extra configuration only): strong fairness of
  a run's next step, because PostgreSQL queues those who wait for a lock, and
  of the sweep, an hourly repeatable job for which a worker comes free.
- Referrals: weak fairness of the consequences of a capture and of a payout
  that has begun. Nobody has to pay, to review or to run the backfill.
- Billing: weak fairness of the sweep, which the worker repeats, and of requests
  that have begun; time passes. Nobody has to subscribe or to pay.
- Points, Idempotency, Checkout and Games: none; only safety is claimed.

## 4. The proofs

Every theorem is about the same `Spec` that TLC runs, from the module's named
assumption on its constants alone, unless it says otherwise.

- `PaymentsProof`: `TypeCorrect`; `CaptureOnce` (each consequence at most once
  for a capture) and `CompletedComesLast`, from an invariant that ties a
  handler's program counter to the status: a handler among the consequences won
  the guarded update, no other handler is there for the same payment, and what
  it has performed is what its counter has passed. The property itself is not
  inductive: it does not say that a second handler cannot be on its way.
  `CancelledForGood`: a cancel request that is about to answer has cancelled
  its payment, one that lost its race answers the open status it had read, and
  nothing leads out of cancelled.
  `Refinement`: every step of Payments is a step of PaymentMachine or leaves
  its variables alone.
- `RefundsProof`: `TypeCorrect`; `RefundsNeverExceed` (the rows form a chain
  that ends at `refundedAmount`, within the amount paid); `RetriesAreSafe`;
  `Refinement` to RefundAccount. The invariant says that what a handler saw is
  at most `refundedAmount`, and that a key with a record has its row. A refund
  that commits saw exactly `refundedAmount`, which the lock has compared.
- `IdempotencyProof`: `TypeCorrect`, `AtMostOnce`, `OwnAnswer`,
  `NothingIsForgotten`. The invariant
  relates each record to the one effect of its key and generation.
- `WebhookProof`: `TypeCorrect`, `SuccessIsHonest` (a SUCCEEDED row was
  accepted by the receiver), `DeadLetterIsEarned` and `DisablingIsEarned`, for
  any number of redundant jobs and workers. The invariant says that a job's
  count of attempts is covered by the posts made for its delivery, and that a
  job about to disable the endpoint has seen as many failures as it takes.
  `RedundantJobsWithOneWorker`: with `Workers = 1` (one worker process, at
  BullMQ's default concurrency of one job) nobody but the operator takes a
  SUCCEEDED row back, for any number of deliveries and jobs; for two workers
  TLC refutes it.
- `PointsProof`: `TypeCorrect`; `NoDebt` (no interleaving takes a balance below
  zero) from the invariant that a handler's read covers what it will write;
  `JournalsFollowRows` (one journal for each row, under its own event), on the
  assumption that no adjustment is worded like a cancelled redemption, without
  which TLC refutes it.
  `ExpiryIsFifo` and `WarningsAreExact`, for histories of any length and
  movements of any size. The sums are folds over sets of movements, which take
  the elements in an order of CHOOSE's: a fold is first shown to be the
  recursive function it stands for, then not to depend on the order
  (`TotalRemove`). Induction goes by sets, with the set of the numbers or
  subsets that have a property in the place of the property
  (`UpToInduction`, `SubsetInduction`). The heart is `LotsPrefix`: after k
  movements the first m lots hold what the first m movements earned up to k,
  less all that was lost up to k, or nothing. An earning
  keeps that only if the balance before it was not negative, hence the
  invariant that no movement takes more than there is.
  `AloneNothingDrifts`: if handlers do not overlap (`OneAtATime`), then
  `NoDrift`, `LifetimeIsEarned`, `VouchersWithinStock`, `VoucherEndsOnce` and
  `WithinBudget`, none of which holds of two handlers. The invariant adds that
  what the handler has read is still so, and that a voucher's worth was given
  exactly when it is closed.
- `SettlementProof`: `TypeCorrect`, `OnceInItsStatement`, `RefundsAreReal`,
  `BooksAgree`, `PayoutsAreCovered`. The invariant says that one run at most is
  in the transaction of a day, that the statement it read is still the one
  stored and its payments still unclaimed, and that each line's fee is the fee
  of what the line holds. `CountedOnce` alone is not inductive: it does not say
  that a run in its transaction will not claim again what is already claimed.
  `BooksAgree` is the identity of the fee on the rest and the fee given back in
  parts, for every rate, with what each payment's journals add up to.
- `CheckoutBillingProof`: of Checkout, `TypeCorrect`; `QuotaStands`: the invariant counts, for each
  payment under check, what its two reads covered, so that every payment
  captured or in flight is counted, seen or in `raced`; the property says
  nothing of half-finished checks. `CouponCounts` and `CardBalances`: each
  redemption and debit is of a captured payment that has passed that
  consequence, once, and the balance is the one of the last debit. Of Billing,
  `BillingTypeCorrect`, and `SuspensionIsEarned` on the assumption that sweeps
  do not overlap (`OneSweep`): the sweep is one repeatable job, every five
  minutes (`worker-scheduler.ts:46`), and a worker process takes one job at a
  time (`maintenance.processor.ts:60`). The property speaks of the last step of
  dunning only; the invariant follows it from the listing: the invoice being
  dunned is overdue (`DunsOverdue`), the grace period is that of an open invoice
  or a confirmation that will clear it is under way (`GraceOpen`), and
  who is about to suspend has seen it run out (`SuspendsLate`).
- `RewardsProof`: of Referrals, `TypeCorrect`; `ReviewHolds`, from the invariant that an
  accrual that read no flag runs only where the referral is not flagged, as a
  flag is set at the link and only ever cleared, and that no reward is under
  way for a flagged referral; `DecisionsStand`, from the invariant that what a
  payout has listed is ACCRUED or PAID. Of Games, `GamesTypeCorrect`;
  `StockIsNotOverdrawn`, from the invariant that the kinds a prize has had tell
  what its stock can be and that a claim knows the kind of its prize;
  `AwardsCover`, from the invariant that the plays which show a prize and those
  about to are together no more than were counted (the property alone
  does not see a draw that has claimed and not yet recorded); `NoEmptyHands`:
  a prize that was unlimited throughout is never excluded, so that with a round
  for each prize one round and one prize are always left.

The type invariants are proved, as `TypeCorrect`, `GamesTypeCorrect` and
`BillingTypeCorrect`, and are therefore in no run.

Every safety property of the runs is proved. Only model-checked: all liveness
(TLAPS has no rules for fairness), and what holds in the further configurations
without being named above. `ImplementsMachine` and `ImplementsAccount` are both
checked and proved.

## 5. Not modelled

Two thirds of the repository are front ends, SDKs, controllers, DTOs and
reports, which keep no state that interleaves; the modules cover the services
that do. Beyond those:

- Auth, MFA and sessions: what could go wrong there is cryptography and
  single-row updates. The circuit breaker is a counter and a clock in the memory
  of one process, with no await between read and write; the rate limit is one
  atomic increment.
- PayChain and Trustee: clients of external services behind flags that are off
  by default; nothing that is modelled reads their outcome.
- Telegram chats and the alert parser: single rows and strings.
- CRUD of stores, branches, customers and teams, analytics, segments, risk
  scores, receipts and notifications.
- The KHQR string format and cryptography, which are matters for unit tests.

Limits of what is modelled: the payments of module Payments are not composed
with the modules of their consequences; that each consequence runs at most once
for a capture (`CaptureOnce`) is what those modules take for granted when they
give a payment one pass through them. Webhooks have one endpoint, billing one
organization, referrals one referee, games one game; the rows of others are
touched by no statement of theirs, save for the indexes and the batches that
the sweeps take.
