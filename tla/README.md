# Orbi: models, checks and proofs

Orbi is a ride-hailing platform for Burkina Faso: a NestJS backend over PostgreSQL
(`src/apps/backend`), Expo applications for riders and drivers, and a Next.js
administration (`src/apps/*`). All the rules live in the backend. The clients call its HTTP
handlers, its server processes share one database, and timers and a job queue run
inside those processes. What is hard to get right is therefore nearly always of one kind: **a
handler reads rows, awaits, and writes later**, while other handlers, timers, workers,
payment providers and operators do the same. The applications have the same difficulty on a smaller
scale: their callbacks, timers and restores of the session share refs and a storage. These modules
model exactly that.

Paths below are relative to `src/apps/backend/src/modules` unless they start with `src/`,
`common/` or `core/` (which are in `src/apps/backend/src`).

## 1. Inventory

| Component | State | Operations | Interacts with | What is hard |
| --- | --- | --- | --- | --- |
| Ride requests (`ride-requests/ride-requests.service.ts`) | `ride_requests`: status, assigned driver, deadline | create, cancel | dispatch, trips | reads before the transaction, update by id |
| Dispatch (`drivers/dispatch-coordinator.service.ts`, `drivers/driver-reservation-expiry.service.ts`) | the same two reservation columns | proactive dispatch, offers, decline, expiry sweep, release | timer or job queue, trips | stale clocks and reads, sweeps cut off, two drivers at once |
| Trips (`trips/trips.service.ts`, `trips/trip-acceptance.policy.ts`, `src/packages/domain`) | `trips`: status, driver, startedAt, completedAt | accept, pickup code, status updates, forced close | requests, driver status, payments | two writes by id that read the same status |
| Driver availability (`drivers/drivers.service.ts`, `auth/auth.service.ts` logout, `admin/admin-driver-onboarding.service.ts`) | `driver_profiles.status` | online, offline, logout, suspend, reactivate, onboarding | trips, dispatch | every writer decides on its own read |
| Job queue (`common/job-queue`) | `job_queue_entries`: status, attempts, lock, date | enqueue, claim, complete, fail, recover, requeue | every background task | crashes, handlers slower than the stale limit, dedupe keys |
| Payments (`payments/payments.service.ts`, its sweep) | `payment_attempts.status`, `wallet_transactions` | checkout, webhook, sweep, replay, refund, finalisation | providers, wallets, trips | late and repeated events, credit written outside the status's transaction |
| Scheduled rides (`scheduled-rides/scheduled-rides.service.ts`) | `scheduled_rides.status` | create, dispatch job, cancel | job queue | insert and enqueue apart, cancel against dispatch |
| Rider wallet (`riders/wallet-topup.service.ts`, top-ups, wallet checkout and refunds in `payments/payments.service.ts`) | `wallet_top_ups.status`, `wallets.balance`, `wallet_transactions` | ask for a top-up, webhook, pay, refund | mobile money provider | webhook before the call returns, retries with one key, calls that time out |
| Driver wallet (`payments/payments.service.ts`, `admin/admin-driver-payouts.service.ts`, `admin/admin-support.service.ts`) | `driver_payouts`, `wallets.balance`, `wallet_transactions` | credit, reverse, prepare, pay, recover, compensate | payments, operators | balance read before the write; the share computed twice, on two days |
| Commission (`common/economics/driver-commission.ts`) | none | share of a fare, rounded | driver wallet | rounding; rate at credit and at refund |
| Realtime stream (`core/realtime`, `src/packages/ui/src/use-websocket-realtime-stream.ts`, `src/apps/rider-app/lib/use-live-refresh.ts`) | sockets, timers and refs of a hook; events seen; what a screen shows | subscribe, publish, receive, reconnect, poll, load | every handler that commits | closures of earlier runs that share refs, lost, late and repeated events |
| Sessions (`auth/auth.service.ts`, `auth/session-auth.guard.ts`, `src/packages/api/src/auth.ts`) | `user_sessions`; the tokens in a device's storage | sign in, refresh, sign out, restore, delete the account | every screen and background task | several restores at once, rotation against storage, kills |
| Promo codes, pickup codes, lockout and one-time codes | counters | check, increment | requests, trips, sessions | check and increment apart |
| Rate limiting, notifications, ranking and pricing, voice, health, exports, user interface, packages, deployment | see `PROJECT.json` | | | |

What makes each component correct:

* requests, trips and reservations: one open request and one live trip per rider; a request
  is reserved for one driver at a time; only the holder can take it, once; nothing takes an
  accepted request away; nothing is completed that was not started; an ignored offer does
  not keep a request.
* job queue: two workers never both decide how a running job ends; an old outcome never
  closes a new submission; due and orphaned jobs are picked up.
* payments: no status of success without money; one entry of each kind per payment; credit
  only for money received with a driver, reversal only of a credit; a refund is not undone by
  an event; open attempts get settled without webhooks.
* rider wallet: the balance is the sum of entries that each appear once; no franc enters that the provider
  was not paid, none that it was paid is forgotten, and a retry asks it once.
* driver wallet: the same account; one prepared payout at a time; paid exactly when debited; a driver
  owes at most what refunds took back, and a recovery takes no more than that.
* realtime: one link per run of the hook's effect and none after the screen is gone; what the hook ignores was
  loaded; the screen ends up showing the last commit; a closed stream comes back.
* sessions: a device does not settle on used tokens; of two sign-ins of a driver one ends the other; tokens that
  died elsewhere are forgotten.
* scheduled rides: dispatched in the window; a cancellation that no dispatch overtook is final; a
  queued ride is dispatched.

`PROJECT.json` lists every component with its status and reason, and every hazard with its
line and the properties about it.

## 2. How the modules model the code

A handler is **two or more steps**. A record in the set `calls` is a handler between its
reads and its last write, and holds what it read; `...Read` actions put it there with the
code's guards, `...Commit` (or `Claim`, `Write`) actions do the writes. A database transaction is one
step, at its writes, because PostgreSQL runs at READ COMMITTED: what it read earlier may be
stale, which is what the earlier step is for. A conditional `updateMany` tests its WHERE clause on the row at the
write; an update by id tests nothing. `CallLost`/`BatchLost` is a crash, a
timeout or an aborted transaction between two steps. `calls` is a set, so handlers that hold the
same reads are one record; where such twins matter (`Repeatable`: a cancellation, an acceptance, a
status update, a checkout, a reconciliation, a refund, a dispatch sent twice), the record may stay
when one of them goes on, as a twin still to come. Fairness only counts a step that ends the record,
so it never asks the twins to come for ever. `"NONE"` is a row that does not exist yet.

| Module | Models | Correspondence |
| --- | --- | --- |
| `RideLifecycle` | requests, dispatch, trips, driver status | `reqStatus`/`assigned`/`expiresAt`, `trip`/`tripDriver`/`started`/`completed` and `driverStatus` are columns; one read and one write action per handler. Rankings and filters are any choice among eligible drivers and requests; the two partial unique indexes of the first migration are guards (`RequestIndexAllows`, `TripIndexAllows`). |
| `OfferLease` | what dispatch promises | a lease per item: granted when free or overdue, given back, taken once by its holder. `Dated` is an invariant of it: what is held has a deadline, a term ahead at most. |
| `JobQueue` | the durable queue and its workers | `status`/`attempts`/`lockedAt`/`nextRunAt` are columns; a worker's `phase`, `batch` and `doing` are the control of `processDueJobs`; each SQL statement is one action. `ran` is a history variable. |
| `WorkQueue` | what the queue promises | items leased to one worker at a time: an item ends as its holder's own run did, or is taken back from a lease that is too old. No rows, tickets, batches or dates. |
| `Payments` | attempts and their wallet entries | `status`, `older` (the attempts inserted before each, for `createdAt`) and `ledger` (which entries of `wallet_transactions` exist); `ride` is what payments see of the ride; `sent` is what the provider sent, in any order and any number of times. |
| `PaymentLedger` | what payments promise to the wallets | entries appear at most once and in an order that creates no money (`Conserved`). |
| `ScheduledRides` | bookings and their job | `status`, `scheduledFor`; `job` is the queue row, reduced to what `JobQueue` shows of it. |
| `LedgerAccount` | what a wallet promises | entries appear once, and the balance moves by exactly the entry written with it, so it is the total of the entries (`BalanceIsTotal`). |
| `RiderWallet` | top-ups, wallet payments, their refunds | `topUp`/`attempt` are status columns, `balance` and `entry` the wallet with its transactions by reference, `deposit` the provider's side. A top-up is named by its deposit id, which the code derives from rider and idempotency key. |
| `DriverWallet` | credits, refunds, payouts, recoveries, compensations, commission | `payout`, `balance`, `entry` are rows; `rate` is what `resolveDriverCommissionRate` returns today; a call's `amount` is what it computed before its transaction. A refund has three steps: it reads the payment, computes the share, then, reading the credit, posts it. `takenBack` is history. |
| `RealtimeStream` | one screen of an application, its hook and its loads | `socket`, `timers`, `isCleaningUp`, `seenEventIds`, `latestEventAt` are the hook's refs, timers and sockets, by run of its effect; `inFlight` is `useLiveRefresh`'s ref; rows are the count of their commits (`row`, and `shown` on the screen). `attempted` is history. `listed` says whether the screen lists the type of an event. |
| `Sessions` | the sessions of one account and the applications that use them | `session` is the row's state by its dates and revocation; `stored` the device's storage; `load` where each restore, sign-in or sign-out stands; `orphans` refreshes that the server goes on with though the client gave up. `killed` and `effective` (sign-ins whose revocation did not fail) are history. |
| `MC...` | small instances for TLC | constants' values and symmetry sets. |
| `...Proofs` | theorems | each EXTENDS its module and TLAPS. |

`RideLifecycle`, `JobQueue` and `Payments` meet at narrow places, which is why they are
separate: payments look at the ride only through "has a trip", "payable"; the sweep that
`RideLifecycle` assumes to run again and again is either a timer or a job of `JobQueue`; the
job of `ScheduledRides` is a job of `JobQueue`. `RiderWallet` and `DriverWallet` have amounts and balances
where `Payments` has entries and statuses: they take from it that a payment succeeds and is refunded, and
both implement `LedgerAccount`. The rider's debits and refunds, and the driver's
credits and reversals, are also steps of the `PaymentLedger` that `Payments` implements, so the three modules cannot disagree on what a
payment does to a wallet. `RealtimeStream` takes from the backend only that handlers commit and then
publish; `Sessions` only that a call with a token is accepted or refused.

`(mutant)` operators next to some definitions are bugs the definition could have had. Nothing
uses them: replacing the definition by one of them makes the property named in
`PROJECT.json` fail, which shows that the property depends on that code.

## 3. Runs

| Run | Instance | Shows |
| --- | --- | --- |
| `ride_rows` | 1 rider, 2 requests, 2 drivers, 2 handlers in flight and a sweep, 2 ticks, reservations of 1 tick | the row invariants, `LeaseNotStolen`, `TripForHolderOnly`, and that the handlers implement `OfferLease` |
| `ride_liveness` | 2 riders, 1 driver | an overdue reservation ends, though sweeps are cut off |
| `jobs` | 2 workers, the job of a timer (2 attempts) and one that is submitted once (1 attempt), batches of 2, stale after 1 tick, 2 ticks | one lease per running row, no outcome of a lost lease, that rows, tickets and batches implement `WorkQueue`, due jobs claimed and stale ones recovered although batches are lost |
| `payments` | two attempts at providers and one by wallet of one ride, batches of 1, refunds by the provider, crashes, 2 handlers | the ledger refinement, the payment invariants, `RefundNotRevived`, and that the sweep settles the paid attempts of its batch |
| `scheduled_rides` | 2 rides of one rider, crashes, 2 handlers, 5 units of time | window, cancellation, dispatch of queued rides |
| `rider_wallet` | 3 top-ups of 2 and 3 francs, one of them in the sandbox, one told of too early, 2 payments of 2 and 3, 3 handlers that may die | the account refinement, money in and out, statuses, one deposit per key, and that paid deposits that no early webhook spoiled are credited |
| `driver_wallet` | fares of 500 and 900 at both rates, 2 payouts, recoveries of part of a debt and of more than it, a compensation, 2 handlers | the account refinement, payouts, debts and recoveries |
| `realtime` | 2 runs of the effect, 2 sockets, 2 commits, the first of which may be of a type the screen does not list, 1 remembered event id, one clock, a poll and a load by event | links, ignored events, quiet after unmount, catching up, reconnecting |
| `sessions` | a driver's telephone with two loads at once and a tablet, 2 sessions, revocations that fail | used tokens, overlapping sign-ins, dead tokens |
| `ride_live_trip_request`, `payments_refund_reverses`, `driver_wallet_refund_amount` | as small as the disagreement needs | section 6 |

A type invariant is in every module. It is proved (section 4) and not checked by a run, which
would add nothing to the proof.

Bounds. `MaxCalls` bounds handlers in flight: two overlap in every pair of handlers. `MaxNow` lets a reservation be
granted, expire and be granted again, a job be claimed, recovered and claimed again, and a booking reach its hour from
the earliest moment it can be made. `MaxClaims` bounds an operator's requeues only.
In `payments`, two attempts at providers are what a batch of 1 has to choose between: the older one may never be decided, and keep the
other out of it. One provider sends any event (CANCELLED is handled as FAILED is), the other a failure at most. The minimum age of a swept attempt is left out (any
moment may be past it), and reading the batch and asking the provider about one row of it is one step.
In the wallets, the amounts make no single top-up cover both payments, the shares differ between the two
rates, and a debt be recovered in part and in excess; any two of their handlers meet, and three in `rider_wallet`, where a request, a
retry and a webhook do. In `realtime`, two runs give every leftover of an earlier run a later one to
disturb, two sockets let the old one close after the new one opens, and one remembered id makes forgetting and
repeating events happen with two commits. In `sessions`, two sessions are a sign-in and a refresh or two
sign-ins, and two loads on one device are enough for one to spend the token that the other holds; a third
session repeats the same with the tokens renamed. None of these bounds is in the theorems, which quantify over them.

Symmetry is used by `ride_rows` only, whose properties are all safety and treat drivers and requests
alike; never with liveness.

`CHECK_DEADLOCK FALSE` is set where the system may really stop: every payment refunded (`payments`, `rider_wallet`);
time at its bound and every ride cancelled (`scheduled_rides`); every payout paid and every reference
used (`driver_wallet`); a screen that is gone (`realtime`); an account that is deleted (`sessions`).

Fairness, and why the code justifies it:

* `RideLifecycle.FairSpec`: the sweep starts again and again (its timer or job), and a sweep that is not cut
  off goes through its rows. Strong fairness of a row's write says that not every sweep dies at the
  same row. Nothing is assumed of riders, drivers and operators.
* `JobQueue.FairSpec`: `setInterval` starts `processDueJobs` again and again, a handler ends, and not
  every batch dies between its recovery and its claim.
* `Payments.FairSpec`: a handler that does not die goes on; the sweep asks again and again about each attempt that stays in its batch
  (the oldest `BatchSize` open ones), and not every good answer is lost. Nothing is assumed of attempts behind the batch.
* `RiderWallet.FairSpec`: a handler that does not die goes on; the provider repeats the webhook of a settled deposit
  until one is answered, and not every delivery is lost. Nothing is assumed of the provider's call, nor of top-ups a webhook may speak of too early
  (`Early`).
* `RealtimeStream.FairSpec`: timers fire; a socket asked to close does, a load ends because the client aborts it; the network is
  not down for ever, so sockets opened again and again open, and polls repeated again and again succeed. No
  event is assumed to arrive.
* `Sessions.FairSpec`, for the loads that a timer starts again and again only: their requests end by an answer or by
  their timeout, and not every one is lost or killed before it ends. Nothing is assumed of the other loads.
* `ScheduledRides.FairSpec`: time passes, workers take due jobs (which `JobQueue` shows), and not every run dies.

## 4. What is proved

All theorems hold for every value of the constants, from the named assumptions next to them
(types of the constants, `StaleAfter > 0`, `Window > 0`, `FreeCancelBuffer < Lead < MinAdvance`). The only ones
with a further hypothesis are `IgnoredIsLoadedAlways` (`Skew = 0`: one clock) and the two `BalanceIsTotalAlways` (finitely many
references, without which there is no sum).

Every proof module has `TypeCorrect`. The arguments are of four kinds: inductive invariants, for what the runs check;
refinements of the four abstract modules; invariants of an abstract module, proved there and carried over by the
refinement; and the **safety core** of a liveness property, the part of it that a handler could break (section 5).

**RideLifecycleProofs.** `IInv` is `TypeOK`, `CallsCoherent`, and the four row invariants together
(`RowInv`). They are not inductive apart: a write by id is safe only because of what its
handler knew when it began (`Coherent`: its clock is not ahead, its request exists, the trip it completes was started) and because these facts
are stable under every step (`Stability`). The key is `AcceptedKeepsDriver`: an accepted request
stays in a status every claim accepts, and only its NULL deadline, for which no SQL
comparison is true, keeps offers, sweeps and releases off. From `IInv`: type
correctness, the four invariants, `LeaseRefinement` (each step is a step of `OfferLease` or a stutter), `LeaseNotStolenAlways` and
`TripForHolderOnlyAlways` (the acceptance read its clock before the deadline and the request is still its driver's when it writes). `DatedStep` is about `OfferLease` alone; with the refinement it gives `ReservationsAreDated`: a reservation that is
not accepted has a deadline at most one term ahead, so an ignored offer always becomes overdue.

**JobQueueProofs.** `lockedAt` alone tells a claim from a later claim of the same row. That this
is enough (`SingleLease`) needs `LostOnlyIfStale`: a ticket the row no longer honours is at
least `StaleAfter` old, so a claim made now bears another time. The invariant adds what a
worker holds in each phase. From it also `SucceededWasHandled` and `OnlyHolderEnds`.
`WorkQueueRefinement` maps a row's holder to the worker whose ticket it honours, and its outcome to where that worker stands. For this the row's
lock must be tied to its status (`LockedWhileRunning`: a row has a lock time exactly while it runs, and it is past); otherwise a
recovery could skip a running row, and a step would take back a lease that the abstract queue calls young. `DueUntilClaimedAlways`: a due job stays due until a claim, which
counts an attempt and leaves a ticket that the row honours.

**PaymentsProofs.** The invariant adds what each handler in flight implies: a reconciliation holds an event that was sent, a
credit follows money received, a refund began on a paid attempt. With it,
`PaidWasReceived`, `WalletEntriesMatch`, `RefundNotRevived`, and the refinement of `PaymentLedger`. `LedgerConserves` is an invariant of
`PaymentLedger` alone; `MoneyConservedAlways` is what the refinement makes of it.

**ScheduledRidesProofs.** `NotDispatchedEarly` is carried from the job's date to the write by
`DispatchOnTime`, for which the ride in flight must keep its hour (`WorkHasRide`).
`SettledCancelIsFinal` follows step by step from types alone. `JobNotSpentAlways` needs that no handler is about to complete a job whose ride
still waits (`CompletesDispatched`): a ride never goes back to PENDING.

**RiderWalletProofs.** The invariant adds what is still true when a handler writes (`CallsJustified`): a deposit call in flight
is about a deposit that does not exist yet, an answer of FAILED about one that the provider rejected, a webhook
about one that it settled, or one in `Early`. From it `CreditIsPaidAlways`, `StatusIsTrueAlways`,
`OneDepositAlways`, `PaymentEntriesMatchAlways`, `PaidIsOpenAlways` (outside `Early` a paid top-up stays in a status that its webhook completes), and `WalletIsAnAccount` (each step is a step of
`LedgerAccount` or a stutter): for that, an entry must never be zero (amounts are positive) nor be written twice (`AlreadyPosted`,
`AlreadyRefunded`, and a debit belongs to an attempt that did not exist). `PaymentSideIsLedger` is the second refinement: the
payments' entries, read as the sets of `PaymentLedger`, take its steps only.

**The balance is the total of the entries** (`BalanceIsTotalAlways`, in both wallets' modules). `LedgerAccount` states it without recursion: a total is a function
from sets of references to amounts that is 0 of the empty set and grows by an entry with its reference. That a total exists and gives the balance is
kept by each step: the one of the step before, plus the new entry wherever its reference belongs to the set. That there is only one
is a minimal-counterexample argument on finite sets (`FS_StrictSubsetOrderingWellFounded`, `WFMin`), which, unlike induction, needs no operator as a parameter.

**DriverWalletProofs.** `FareIsSplit` and `ShareBounds` are the arithmetic of the commission: share and commission are
not negative and add up to the fare, the share at 12 % is at most that at 10 %, by at most 2 % of the fare and a rounding
step. A payout is paid on a balance read before. `balance + takenBack` is not changed by refunds and lowered by payouts only,
so the read still covers the payout while it is PREPARED (`PaysCovered`): no other payout is prepared beside it, because of
`preparedLockKey`. `CreditsShared` says at which rate a credit was computed. From the invariant also
`PayoutsMatchAlways`, `ReversalNearCreditAlways` (how far a reversal may be from the credit it takes back: the size of the disagreement that
`driver_wallet_refund_amount` shows) and `WalletIsAnAccount`. `RecoveryBoundedAlways` bounds what overlapping recoveries may do (section 6): each is at most what was asked and what
refunds had taken back, which needs `OwesOnlyRefunds` when the balance is read, and that `takenBack` only grows.
`RideSideIsLedger`: its credits and reversals are steps of `PaymentLedger`. It says so of steps only, not of the initial state, because in this module
every ride has its driver from the start. It needs that a handler in flight is about a payment that was made (`AboutPaid`).

**RealtimeStreamProofs.** `OneLinkPerRun` needs that a run that has not begun has no socket and no timer (`LinksInv`): a new run then starts
from nothing, whatever the earlier ones left. `QuietAfterUnmount` needs that an unmounted screen has `isCleaningUp` set and no run to reset it.
`IgnoredIsLoadedAlways` assumes `Skew = 0`: then the dates of events grow with their publication, an id is only remembered or a date
only recorded together with an update that is pending, loading or attempted, and a cleanup that drops the update
forgets both. The exception is an event that a later one of an unlisted type made late (`Masked`). `CurrentRunLinkedAlways` is the other half of `OneLinkPerRun`: the run that is current has at least one link, alive or to come.

**SessionsProofs.** Tokens come from one answer only, so those a load is about to store are held by nothing else and no
refresh can have used them (`Hands`). The invariant about used tokens must count the refreshes that go on without their client, which
use their token later (`EndangeredIsReplaced`). From it `SpentIsReplacedAlways`. `SignInTakesOverAlways`: the later of
two sign-ins to revoke finds the other's session, in whatever order they began, if both revoke (`effective`). `EndedIsFinalAlways`: no write by id of a refresh
reopens a session that was used up or revoked since it was read.

## 5. What is only model-checked

Every invariant and every action property that a passing run checks is a theorem, and so are the refinements. What is left is liveness: it needs
fairness and ENABLED, which the prover does not handle, so TLC checks it on the instances above. What the handlers could break in it is
proved, for every instance, where it says more than one guard:

| Liveness property | Proved part | What only TLC shows |
| --- | --- | --- |
| `ExpiredReservationEnds` | `ReservationsAreDated` | that a sweep that is not cut off comes |
| `DueJobClaimed` | `DueUntilClaimedAlways` | that a worker claims, and a batch has room for the job |
| `StaleRecovered` | `LockedWhileRunningAlways` | that a recovery comes |
| `QueuedIsDispatched` | `JobNotSpentAlways` | that a worker takes the job and does not die each time |
| `PaidIsCredited` | `PaidIsOpenAlways` | that a webhook comes and its handler ends |
| `ScreenCatchesUp` | `PollNotStuckAlways` | that polls fire and one succeeds |
| `StaysConnected` | `CurrentRunLinkedAlways` | that timers fire and a socket opens |
| `DeadTokensForgotten` | `EndedIsFinalAlways` | that loads end, one of them with an answer |
| `OpenIsSettled` | none: the sweep's guard is all there is to it | that the sweep polls and one answer is written |

The disagreements below are counterexamples, found by TLC.

## 6. Where the code and its documents disagree

Each of these is a run that ends in a counterexample.

* `LiveTripRequestOpen`: a cancellation that read the request before an acceptance writes by id after it; the trip lives on with
  a CANCELLED request (`ride-requests.service.ts:468`).
* `RefundReversesCredit`: the driver's credit may be written after the refund that should have taken it back (`payments.service.ts:2590`).
* `ReversalIsOriginal`: a reversal is the share computed again at the rate of the refund's day (`payments.service.ts:2780`), not "the original
  driver payout amount" of `src/docs/payment-strategy.md:138-141`: the driver keeps up to 2 % of a fare credited in the first days.

Other behaviours of the code that the models reach and that no run is spent on:

* two status updates of a trip that read the same status both write: a COMPLETED trip may become
  CANCELLED, or a CANCELLED one live again (`trips.service.ts:1936`);
* no write of a driver's status by a trip looks at a suspension (`trips.service.ts:2065`, against `drivers.service.ts:1199`): a suspended driver is
  AVAILABLE again once the trip ends;
* an acceptance compares the deadline with a clock read before the fatigue check (`trips.service.ts:733`, used at 829): a reservation that became
  overdue meanwhile is accepted, if nobody took the request (`TripForHolderOnly` asks for no more);
* a driver may hold two live trips, by accepting two reserved requests at once (`trips.service.ts:823`), or be
  OFFLINE during one (`drivers.service.ts:391`);
* an event that read an open attempt may write PENDING or FAILED over SUCCEEDED (`payments.service.ts:787`), and
  a second refund may put a REFUNDED attempt back to REFUND_PENDING (`payments.service.ts:465`);
* the sweep polls the oldest `batchSize` open attempts (`payment-attempt-reconciliation-sweep.service.ts:98-106`): as many attempts that no provider
  ever decides keep every later one from being polled, so `OpenIsSettled` is about the batch only;
* a driver is credited for a paid attempt when the trip exists, whether it ends or is cancelled (`payments.service.ts:2632`);
* a ride paid by wallet before it has a driver never credits one: the credit is tried once, at checkout
  (`payments.service.ts:1245`);
* a dead-lettered sweep is not revived by the timer's enqueue, only by an operator (`job-queue.service.ts:107`);
* a dispatch that read PENDING overwrites a cancellation (`scheduled-rides.service.ts:194`), nothing takes over a ride in
  DISPATCHING, and a ride whose job was never enqueued waits for ever (`scheduled-rides.service.ts:159`);
* a document attached again keeps a job key that has SUCCEEDED, and is not verified by a worker
  (`drivers.service.ts:1783`).

Top-ups (`RiderWallet`):

* the answer of the provider's call is written by id, so a top-up that its webhook completed can show PENDING
  again (`wallet-topup.service.ts:195`), although `src/docs/architecture/08-payment-state-machine-audit.md:27` calls
  COMPLETED final; `StatusIsTrue` holds all the same, and a further webhook finds the entry and credits nothing;
* when the call fails, the row stays INITIATED until a webhook comes, and for ever if none does;
* every status of a webhook other than success marks the top-up FAILED (`payments.service.ts:2585`), also the PENDING of a deposit still open, which the
  repository has a fixture for; the webhook of its payment is then taken for a replay (`payments.service.ts:2481`), and a deposit that was paid is never
  credited. `Early` are the top-ups this may happen to: `StatusIsTrue` and `PaidIsCredited` do not hold for them;
* `handlePawaPayTopUpWebhook` has no caller.

Driver's wallet (`DriverWallet`):

* a payout prepared before a refund may exceed the balance: it can then be neither paid nor cancelled (no code
  writes CANCELLED), and prevents any other until the wallet is credited again;
* two recoveries with different keys may record more than was owed (`admin-driver-payouts.service.ts:558`): `RecoveryBounded` says how much more;
* `admin.service.ts` has copies of these methods that no controller calls.

Realtime (`RealtimeStream`):

* with API instances whose clocks differ (`Skew >= 1`), `IgnoredIsLoaded` fails: a newer event with an older date
  is ignored, and the screen waits for its next poll;
* an event of a type the screen does not list (`trip.route-position`, `trip.pickup-code-verified`, `trip.sos-triggered`: `trips.service.ts:700`, 1234, 1597) is
  remembered and advances the entity's date, but asks for no load (`use-websocket-realtime-stream.ts:173`): a listed event that comes after it
  with an earlier date is ignored, and the screen waits for its next poll (`Masked` in `IgnoredIsLoaded`, which fails without it);
* a socket whose cleanup did not reach it lives until the server closes it;
* the timeout of a request is cleared when the headers are there (`src/packages/api/src/client.ts:246`): an answer whose body never ends keeps
  `inFlightRef` set, and the screen polls no more. `ScreenCatchesUp` assumes that loads end;
* loads that overlap answer in any order, so a screen may go back for a while; a reconnection loads nothing by
  itself, although the order that doc 17 requires (`src/docs/architecture/17-realtime-and-location-resilience.md:33`) has it reload.

Sessions (`Sessions`):

* two loads with an expired token: the second refresh is taken for a reuse, which revokes every session and removes the
  tokens the first one stored (the reason `SpentIsReplaced` says *settles*, and nothing stronger);
* any failure of a refresh, a lost network included, removes the tokens;
* an application killed between the rotation and the storage keeps a used token (`killed`), whose next use
  ends every session of the account; a lapsed refresh token is treated in the same way;
* a restore in flight can store its tokens after a sign-out removed them;
* `revokeOtherActiveSessions` is a statement after the transaction that opened the session (`auth.service.ts:200`, 402): if it fails, or the server ends
  before it, the old sessions stay and nothing ends them later. It does not see sessions whose access token has expired either, and a refresh does
  not call it. So a new sign-in of a driver and an older session, refreshed, may both be active, although
  `src/docs/security-test-program.md:143-145` has a new sign-in revoke the old active sessions, and its line 58 lists one device per driver. This is
  why `SignInTakesOver` is about sign-ins whose revocation did not fail (`effective`). Two overlapping sign-ins may end each other.

## 7. What is not modelled

Signatures and payloads of webhooks, texts, places, rankings and prices, audit entries, whatever only reads. Fares are whole
francs and the commission is integer arithmetic; for every whole fare up to 2,000,000 the floating-point code gives the same
francs. The heartbeats of a socket (nothing reads what they bring). Wallets that are locked (nothing locks or unlocks one). Provider refunds that the provider made while the
transaction aborted: the code keeps nothing of them. Counters that are read and written back plus one (promo
codes, pickup codes, failed sign-ins, one-time codes): their limits fail under any overlap, no document promises
more, and the one property to state would be false. The filters of subscriptions, the fallback of the configurable
transport, what a screen draws, and sign-up. Most of the repository's lines are screens, listings, exports, forms,
translations and types without control of their own. The components of section 1 without a module are in
`PROJECT.json` with the reason for each.

## 8. Plan

Done, in this order: `RideLifecycle` with `OfferLease`, `JobQueue`, `Payments` with `PaymentLedger`,
`ScheduledRides`, `RiderWallet` and `DriverWallet` with `LedgerAccount`, `RealtimeStream`, `Sessions`; their proofs;
`WorkQueue` and its refinement; the totals of the wallets and the safety cores of liveness.

What could follow:

1. Composition: the job of `ScheduledRides` as an item of `WorkQueue`, and the dispatch sweep as another.
2. Verification of documents: the job's handler, and its key that is not revived.
3. The fallback store of the rate limiter, and the fallback transport of the realtime gateway.
4. Support tickets and pickup codes as part of `RideLifecycle`.
