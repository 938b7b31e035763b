# BhaiWay backend: specifications, checks and proofs

The repository is a NestJS backend on PostgreSQL (TypeORM) and Redis for shared
rides: drivers publish rides, passengers find them and book seats, points move
between wallets.  This directory holds TLA+ modules for the parts in which
several people, a payment gateway, providers, pollers and retries act on the
same rows, TLC runs that check them on small instances, and TLAPS proofs, for
any number of actors, of every safety property the runs check but one.

    tlc -workers 2 -config WalletLedgerProofs_races.cfg WalletLedgerProofs
    tlapm WalletLedgerProofs.tla

(`DeskProofs` has 6400 lines and takes up to twenty minutes, `TripsProofs` and
`WalletLedgerProofs` some minutes, the other proofs seconds.)

PROJECT.json lists components, runs, mutants (small plausible bugs that every
checked property detects), the source lines of each definition, the
disagreements found, hazards and theorems.

## 1. The system

The server is stateless between requests; nearly all state is in PostgreSQL
(locations are in Redis; throttles and marks of mails in flight in a process's
memory).  Concurrency is that of its transactions: READ COMMITTED with
`SELECT ... FOR UPDATE` row locks, unique indexes, and advisory locks in a few
places.  Several processes may run; each has the pollers for invoices,
notifications, emails and no-show claims.  Two idioms recur: a transaction that
locks what it reads, and a handler that reads a row with no lock, decides, and
saves the whole copy later (`repository.save` writes every column that differs
from the row as it is then).

| Component | State it keeps | Operations | Correct when |
|---|---|---|---|
| wallet ledger | balances by source and by available/held, lots, holds, ledger rows with unique keys | credit, debit, hold, release, consume | balances are the totals of the lots, a hold ends once, a key has one effect |
| withdrawals | withdrawal rows, history, payout methods | request, cancel, admin status changes, remove a method | the hold follows the status, points are paid out at most once |
| top-ups | payment orders, webhook events | create, verify, webhook | a paid order is credited once, a credit was paid for |
| platform wallet | its wallet, balance, lots | seed at start-up, repair by credits | the float comes once |
| commute rides and series | ride, bookings, coupon redemptions; series of rides | publish, move, book, approve, cancel, no-show, complete | seats are not oversold, a fare goes one way, a driver's rides fit side by side |
| regular rides | ride, bookings | book (pay now or later), cancel, no-show, complete, pay later | the same; a retry returns the first booking |
| Assured queue | the rides of a geographic queue | publish, book, leave, resize, start, cancel | one ride of a queue on offer, promoted in order |
| Assured settlement and deposits | deposits on hold, fares, the platform's float, penalties and vouchers of a passenger | book, leave, no-show, forfeit, partial fill, complete | deposits and fares are paid out to the last point and once; a penalty or voucher counts for one booking |
| search, route geometry, lists | routes, rides, bookings | select a route, search, lists and histories | the rides that pass are found, pages and totals agree |
| no-show claims | claims with a deadline, effects to run | report, approve, reject, time out | every claim is settled, its effects run |
| coupons, commute rewards | counters, redemptions; campaigns, trips, claims | reserve, finalize, release, edit; record, claim, review | limits are kept, what was won stays |
| notifications, emails, invoices | outbox rows, jobs, tax rules, files | enqueue, poll, send, retry; issue, render, mail | what is due is sent, seldom twice; the tax is the rule's |
| sign-in, account deletion, email codes, identity, vehicles | user, requests, codes, sessions, certificates | register, log in, delete, verify | nothing counts that was not proven, decisions stay |
| SOS, chat, tracking, support, ratings | rows per ride or user, Redis keys | call, answer, send, publish, rate | one open row, each decision once, nothing after the end |

Components call each other inside one transaction: a booking locks the ride,
writes the booking and calls the wallet with the same `EntityManager`.  What
runs after the commit (notices, chat, sockets, clearing a location, side
effects of a no-show) may be lost in a crash.

Hard behaviours: retries with an idempotency key that race with their first
attempt; cancellations, no-shows, completion and admin decisions on one ride at
the same time; unlocked reads followed by writes of the copy; gateways and
providers that repeat, delay and lose answers; lists put together from several
reads; workers that fail halfway.

## 2. Modules

| Module | Models |
|---|---|
| `WalletLedger` | `wallet/wallet.service.ts`: five operations with their phases (lookup, locks, body, commit), racing keys, retries; implements `PointsAccount` |
| `Withdrawals` | `withdrawal.service.ts`, removal in `payment-method.service.ts`; implements `Payouts` |
| `TopUp` | `top-up.service.ts` and the Razorpay gateway (external) |
| `PlatformSeed` | `platform-wallet.service.ts`: start-up against the credits that repair missing rows |
| `CommuteRide` | one Daily Office Commute ride; implements `PrepaidTrip` |
| `RegularRide` | one Regular ride: keys, pay now/later, cancellation, no-show, completion |
| `AssuredQueue`, `AssuredSettlement` | which ride of a queue is on offer; the money of one Assured ride |
| `DepositTerms` | the rate of a passenger's deposits over several bookings: penalties, vouchers, coupons |
| `CommuteSeries` | a driver's series of commutes beside rides published alone |
| `RideSearch` | how pickup and dropoff fit a route; publishing along a route, and a search with road distances |
| `RideLists` | lists, histories and details of rides and bookings, and the pickup codes they issue |
| `RideNotices` | who is told what after a booking, a cancellation or a no-show |
| `NoShowClaims` | claims about one ride, the worker that settles due ones, the ticket of a rejection |
| `InvoiceJobs`, `InvoiceTax`, `InvoiceMail` | jobs and numbers; rules and amounts of tax; the file and its mail |
| `NotificationOutbox` | one notification with its push and its e-mail |
| `Coupons`, `CommuteRewards` | one coupon; one campaign and one driver |
| `Registration`, `AccountDeletion` | sign-in with referrals; the status of one account |
| `EmailCodes`, `IdentityVerification`, `Vehicles` | what has to be proven, and the reward for it |
| `SosIncidents`, `SosMonitor` | emergencies of one ride; what the safety desk and passengers see of several |
| `ChatConversation`, `ChatPages` | one conversation and its messages; what a participant reads of it, page by page |
| `Tracking` | the live location of one ride |
| `SupportTickets`, `Ratings` | tickets of one user; ratings of completed rides |
| `Sums` | sums over index ranges, chosen indices and sets of rows, lists in the order of a key, and the lemmas about them that the proofs use |
| `WalletLedgerProofs` | a small instance of the ledger, and the proofs about it; those about `AssuredQueue` are in its own last part |
| `MoneyProofs` | proofs about `Withdrawals`, `TopUp`, `PlatformSeed` and their composite `MCMoney` |
| `TripsProofs` | about `CommuteRide`, `RegularRide`, `AssuredSettlement`, `DepositTerms` and `MCTrips` |
| `BackgroundProofs` | about `NoShowClaims`, the invoices, `NotificationOutbox` and `MCBackground` |
| `ServicesProofs` | about `CommuteSeries`, `Vehicles`, `Coupons`, `CommuteRewards` and `MCServices` |
| `DeskProofs` | the composite of what people do around their rides, and the proofs about it |

The abstract modules `PointsAccount`, `Payouts` and `PrepaidTrip` say what a
component promises; the detailed one implements it through a refinement mapping.
`PointsAccount` and `Payouts` take the set of amounts that may be moved
(`Amounts`); the mapping gives them those of the requests.  In the mapping to
`PrepaidTrip` a booking whose coupon covers the whole fare has no fare: the code
debits only an amount above 0 and `coupon.math.ts` lets a discount reach it.

Composites.  Small modules without common state share a run: `MCTrips` (the
three kinds of rides, and deposits), `MCMoney` (withdrawals, top-ups, seed),
`MCServices` (series, vehicles, tracking, coupons, campaigns, search), `DeskProofs`
(people and what they are shown) and `MCBackground` (claims, invoices, taxes,
mails, notifications).  Their initial states choose the part that runs, the variables of
the others keep still, and an invariant is asked of the part that runs.  Their
properties put those of the parts together where they say one thing.  Parameters
are constants with a value in the .cfg, a definition of the composite where it is a
function or a record.

How a module reads: VARIABLES are the rows the code keeps; an action is one
transaction when the transaction locks what it reads first, and one action per
phase when the code reads before it locks (a variable such as `pc`, `work` or
`task` says where a request stands and which copy it has; a row lock follows
from it).  A failed statement, a crash and a client's retry are actions.
Points are integers, rows are records.  Text, wording and validation of formats
are left out.

### How state and actions correspond to the code

- `WalletLedger`: `available` and `held` are the balance row, `lots`, `holds` and
  `ledger` the other tables; `pc[c]` is how far the transaction of a request got.
  `Begin` looks the key up without a lock, `LockHold` and `LockBalance` wait for
  the rows, a `Commit...` action writes; it loses when the unique index on the
  key was won by another request.
- `Withdrawals`: `Insert` and `Reserve` are the halves of
  `createWithdrawalInTransaction`, `BeginUpdate` and `CommitUpdate` are
  `updateStatus` with the row lock in between, `CountUses` and `FinishRemoval`
  the steps of a removal.
- `TopUp`: the gateway lets the customer fail, authorize and pay, and delivers
  events any number of times; `Crash` stops a handler between its transactions.
- `PlatformSeed`: a transaction has a set of rows of its own until it commits;
  an insert waits for another transaction with the same key; `EndDeadlock` is
  PostgreSQL failing one of two that wait for each other.
- `CommuteRide`, `RegularRide`: one transaction per action, since each locks the
  ride first; `LookUp` of `RegularRide` reads the key before that lock.
- `AssuredQueue`: a passenger who leaves runs `Restore`
  (`restoreSeatsSafelyInTransaction`), a ride that leaves the offer `Advance`.
- `AssuredSettlement`: `driverHold` and `riderHold` are the deposits, `ledger` the
  rows that moved fares and shares, the platform starts with `Float`.
- `DepositTerms`: a request is checked, quoted and booked in steps; `penalty` and
  `vouchers` are the passenger's rows.
- `CommuteSeries`: `clock` counts departures; a series has a ride for each date
  and one back; publishing is one step under advisory locks, a ride published
  alone relies on the unique index.
- `RideSearch`: the earth is a grid on which routes run along
  the axes and distances are measured along them.  The tolerance of one metre
  of the code is 0 there, allowances and corridors are a few units.  A search goes
  through box, geometry, road distances (asked for while rides change) and the
  answer.  The box is padded as in the code, by as many degrees as the pad is
  midway between pickup and dropoff: at the more northern of the two that is less
  than the pad (`LongitudePad`, one unit less; the code's metres per degree, off by
  a thousandth, are below a unit).  Rides are read in one step, where the code
  reads them in batches of 200.
- `RideLists`: a list is read page by page by `walk`; `mine` is a request for
  the passenger's bookings between its read and the codes it writes.
- `RideNotices`: a request has the list of people it still has to tell.
- `InvoiceJobs`, `InvoiceTax`, `InvoiceMail`: `runs[h]`, `editing[a]`, `task[t]`
  have the copy of the row that was read.
- `NotificationOutbox`: `flight` is what the process knows to be in flight,
  `nudged` what is scheduled to be tried outside a poll; a crash empties both.
  The polls differ: that of the pushes leaves out what used up its tries, that of
  the e-mails selects it and passes over it, so `older` such mails take places of
  its batch.  A delivery finds a device or an address or none (`Found`).
- `Coupons`, `CommuteRewards`: `copy[a]` and `seen[a]` are what an administrator
  read; bookings and claims lock the coupon or the campaign.
- `Registration`, `AccountDeletion`: a request to sign in looks up, inserts and
  signs a token in steps of their own; `work` is what was let in while the
  account was active.
- `EmailCodes`, `IdentityVerification`, `Vehicles`, `SupportTickets`,
  `ChatConversation`: `work[p]` (or `request[r]`) is the request a process works
  on with the copy it read; the steps between two awaits are one action.
- `SosMonitor`, `Tracking`: ages count in steps up to the time to live of a key.
- `ChatPages`: `created` has moments finer than the program's clock, by `Fine`.

## 3. Runs

| Run | Shows |
|---|---|
| `wallet_races` | Two holds, a release and a consume race in one scenario; a retried debit races a hold and two credits in the other.  Balances are the totals of the lots (`NoDrift`), held points back the active holds, each ledger row continues from the one before, no hold ends twice, the calls have the effects `PointsAccount` promises (one effect per key), and every call begun is answered. |
| `money_flows` | Withdrawals: points are on hold exactly while the status says so (`HoldFollowsStatus`), the answer is to what was asked, the wallet moves as `Payouts` says.  Top-ups and seed: what is credited was captured, the platform's float is not invented twice (`CreditIsPaidFor`), what was acknowledged is credited, what is captured is credited in the end. |
| `trips_fares` | Every order of bookings, retries, seat changes, approvals, pickups, cancellations, no-shows and completion: `SeatsNeverOversold`, `FareGoesOneWay` and `ImplementsPrepaidTrip` of a commute; the driver of a Regular ride is credited for what it earned (`CreditsAreEarned`), a retry makes no second booking and free seats are exact (`OneBookingEach`), deposits end with their ride and raised ones are worked off (`HoldsEndWithTheRide`), forfeits are paid out to the last point and Assured fares go one way (`ForfeitsArePaidOut`), and what the driver is shown of an Assured ride is what it earned (`EarningsAgree`).  No open ride is stuck. |
| `queue_offer` | At most one ride of a queue is on offer, rides are promoted in the order of the queue, and a cancellation does not forget the next ride. |
| `services_rides` | A driver's rides fit side by side and a cancelled series has no ride (`SeriesRidesFit`); one attempt per vehicle, each user's uses of a coupon, trips of a milestone, and ways off a route only by roads that are known and allowed (`LimitsAreKept`); booked departures and milestones stay (`PromisesAreKept`); a search misses no ride that passes, and its box hides others only at its rim (`SearchIsRight`: the code's answer against a walk along the route); a location is forgotten (`LocationForgotten`). |
| `desk_people` | `RepeatsCountOnce`: one active emergency, one undecided deletion, one ticket per key, one delivery to each socket, one usable code, one reward per referral.  `NothingUnproven`: emails, identities, phones.  `UsersSeeTheTruth`: support and ratings, lists and histories, notices, the safety desk, pages of chat.  `DecisionsStay`, `NothingAfterClose`. |
| `background_work` | A verdict fits the trip, invoice numbers have no gaps, nothing is sent twice but after a crash (`NothingTwice`), an invoice adds up under the one rule in force and counts as mailed only if it was (`InvoicesAreRight`); overdue claims are decided and a rejection has its ticket (`ClaimsAreSettled`), invoices and pushes are settled, mails unless as many were given up before as a poll takes, and a mail queued after the commit is tried (`JobsAreSettled`). |
| `topup_terminal` | *violation*: SUCCESS of a payment order is overwritten with FAILED. |
| `commute_coupon` | *violation*: the snapshots of a couponed booking do not add up, which stops the completion of the ride. |
| `queue_flow` | *violation*: a passenger of a demoted ride that departed can neither cancel nor report the driver. |
| `invoices_blocked` | *violation*: jobs that were given up fill the batch of the poll. |
| `series_ended` | *violation*: a series whose rides are all completed stays ACTIVE and blocks the closing of the account. |

The five violations are disagreements of the code with its own documents,
comments or tests; PROJECT.json quotes both sides under "findings".

Each property of a passing run has a mutant in PROJECT.json: one mapped
definition in the form a plausible bug would give it (a dropped guard, a missing
lock, a swapped order).  TLC finds the property violated under it.  Where a
property is the conjunction of those of several parts, its mutant breaks one of
them.

## 4. Bounds

The hazards are races of two or three actors on one row, a retry or a crash
between two steps, and boundaries of one or two seats; the instances have the
fewest actors that meet them.

| Run | Instance |
|---|---|
| `wallet_races` | two wallets, eleven calls in two races (`OneRace` keeps the calls of one in a behaviour); `MaxAborts = 1` failed transaction per behaviour; amounts that span two lots and split one |
| `money_flows` | two drivers, five requests (first, the same again, the key with another amount, one of the other driver with that key, another key), two admins, one removal, `MaxIncome = 2`; `RetriesBeforeAdmins` orders independent parts.  One top-up key, two creates, one verify, two handlers, `MaxCalls = 2`, `MaxCrashes = 1`; `TwoOrdersOneHandler` drops two handlers, and a crash, together with two gateway orders.  One start-up, two credits, with and without rows and history at first |
| `trips_fares` | commute: three requests of two riders for one and two of `MaxSeats = 2` seats; `Price = 2`, `Markup = 1` tell every amount apart, and a coupon of 3 is the whole fare of one seat (the run about coupons has one of 1).  Regular: four requests of two passengers, one key used twice, `MaxSeats = 3`, a purse that pays for one of two fares.  Assured: four passengers, one REGULAR; deposits of 13 and 3 so that halves are rounded; `Float = 10`, less than one share needs.  Deposits: four requests for two rides, a key used twice, a coupon for the deposit and one for the fare |
| `queue_offer` | three rides (active, next, another) in two queues, two passengers alike (`SYMMETRY`), two seats; `TwoQueuesOneSeat` varies queues and seats one at a time |
| `services_rides` | a series over two days and a ride alone, `MaxChanges = 1`; one vehicle, two numbers, `MaxAttempts = 2`; two updates, one socket; two users, three bookings, two admins; two milestones with windows of one and two months; one ride on five routes (straight, a point, a corner each way, back beside itself) and eight places, one of them at the rim of a padded box |
| `desk_people` | two processes, interchangeable (`SYMMETRY Alike`: no module names one), one or two of each: `MaxRequests = MaxSessions = MaxTickets = 2`, `MaxVersion = 4`.  Lists: two rides, three bookings, pages of one item.  Monitor: two emergencies, a page of one; `OneToFind` lets positions matter for the first of them only.  Chat pages: three messages, two moments a millisecond; `PageOrList` reads one or the other |
| `background_work` | one passenger, two claims, `MaxAttempts = 2` (the code has 5), `MaxFaults = 1`, tickets opened one at a time while no poll is under way and for a Regular ride; two jobs, a poll and a rider; one notification, `MaxCrashes = 1`, `MailBatch = 2` (the code has 25: only whether older mails fill a batch counts); one administrator and two rules over three moments; two tasks about one mail |

Counters of attempts stop at `MaxAttempts`; rejected calls leave no trace where
the code leaves none.  With one administrator the tax rules in force do not
overlap; with two they can (section 6).

## 5. Fairness

Nobody is made to act: users, admins, drivers and the gateway's customers have
no fairness.  Weak fairness is on what the code does once it was started:

- wallet: the phases of a request that began (`Advance`: locks and commit).
  PostgreSQL grants a row lock when it is released, and each operation locks the
  hold before the balance.
- top-up: handlers run on (weak).  The delivery of a captured payment is
  strongly fair: the gateway repeats an event until it is acknowledged, and the
  handlers are not busy for ever.
- background: workers, effects, deliveries and the steps of a mail run on
  (weak).  `processDue` is strongly fair, since a poll goes through all jobs it
  selected, though a rider may have one of them between two polls.  A poll brings
  a notice its delivery only if it selects it: `WF(Work("mail"))` asks nothing of
  mails that older ones crowd out.  A scheduled try comes (`setImmediate`), once.
- tracking: time passes and an update that passed its checks goes on to write
  (weak), which is all `LocationForgotten` needs: a location written late is
  forgotten by the time to live of its key.

Every part that has fairness states it about its own actions, which are not
enabled while another part runs.

`MCTrips`, `MCMoney`, `WalletLedgerProofs` and `AssuredQueue` check for deadlock:
`Quiescent`, `Over` or `Rest` lets them stop in their final states only.  The
others do not: when all claims, mails, tickets or messages are done nothing is
left to do.

## 6. Other disagreements met

The models have these too; they carry no run: those that break a definition
named here would each need one, and the others say no more than the sentence.

Money and rides.

- `payment-method.service.ts:194` counts open withdrawals and then deletes the
  method without a lock; `docs/manual-withdrawals.md:32` says that a method is
  deleted only if no withdrawal ever used it.  Its `update` and `remove` save
  copies: a method can come back.
- `top-up.service.ts:227`: a repeated create stores a second gateway order over
  the first; a payment of the first can no longer be matched.
- `bookings.service.ts:1112`: a retry that races with its first attempt gets 409;
  `bookings.payment.spec.ts:454` tests that a retry returns the original.
- `assured-queue.service.ts:222`: the key of a FULL event is used again when a
  ride fills a second time, and nobody is promoted; `assured-queue.spec.ts:455`.
- `assured-lifecycle.service.ts:1101` refunds a REGULAR fare where line 1078
  says cancel and restore seats only.
- `rides.service.ts:2041` counts PENDING Commute requests as booked when seats
  change; `bookings.commute.spec.ts:345` says that a request takes no seat.
- `rides.service.ts:2952` compensates the driver for a seat that a no-show
  vacated and whose deposit share the driver got.
- Deposits (`NextIsAsPromised` of `DepositTerms`): a penalty whose booking ends
  by the driver, a no-show or an admin keeps `consumedOnBookingId` for good; a
  later cancellation then announces 10 percent
  (`passenger-assured-deposit-penalty.service.ts:59`) and the quote is the usual
  rate.  A booking whose deposit a voucher makes 0 consumes the penalty too.
- `platform-wallet.service.ts:341` (`ExistingBalanceStays` of `PlatformSeed`):
  "existing rows are never updated", but `save` selects by id and updates a
  balance that a credit inserted since the check.
- `admin-transactions.service.ts:207` gives back a reversed debit as PURCHASED,
  since no debit has a `pointSource`, whichever points it had taken.
- `rides.service.ts:428` and `commute-ride-series.service.ts:334` lock the rides of
  a series in opposite orders from an outbound and a return ride;
  `fare-settlement.service.ts:236` locks the booking before the ride;
  `admin-ride-cancellation.service.ts:535` releases holds in the order of a map;
  `assured-queue.service.ts:478` locks the queue after its own ride.
- The counter of failed pickup codes (`bookings.service.ts:423`) is rolled back
  by the failure it counts.  Codes expire 48 hours after the booking and are not
  renewed.
- `THIS_AND_FUTURE` on a ride that was cancelled alone closes the whole series.  A
  ride whose departure passed unstarted is in none of the
  driver's lists (`rides.service.ts:1214`).
- `bookings.service.ts:1675`: GET of a passenger's bookings saves a legacy row it
  read before, which can undo a cancellation.
- The box that sifts rides (`rides.service.ts:1635`) takes the degrees of longitude
  of a latitude midway between pickup and dropoff.  A pickup within the catchment
  of a source, almost due east or west of it and farther north than that, fits the
  route and is hidden (`BoxHidesNobody`); `SearchIsRight` allows this at the rim of
  the box only, and never for a ride that passes through both points.
- `route-geometry.ts:393` refuses a rider on a route that turns back behind its
  source, where line 551 speaks of loops.  The order of a search result compares
  detours with a tolerance (`rides.service.ts:1798`), which is not transitive.
- History (`rides.service.ts:3775`) and lifetime earnings differ by fares paid in
  cash or still owed.

Work after the commit.

- Side effects of a no-show (`no-show-claims.service.ts:755`), the notice that a
  claim was opened (`:118`), alerts of an SOS (`sos.service.ts:612`) and notices
  of an acceptance are lost with the process and not repeated.
- A no-show effect that used up its five attempts and is queued again
  (`no-show-claims.service.ts:1000`) keeps the count and is never tried.  Due
  claims whose settlement always fails stay first in the batch of 25.
- `createTicket`, `enqueue`, `issueForJob` and `ensureUserReferralCode` answer a
  unique violation with a query in the transaction that it aborted.
- Two processes may each send an e-mail; `NotificationOutbox` models one.  Its
  row is lost when the 300 ms timer fires before the commit of the notification
  (`EveryNoticeGetsAMail`).  E-mails that were given up stay due
  (`notification-email.service.ts:265`) and among the oldest 25 that the poll
  selects (`:128`) and passes over: after 25 of them no later one is polled, and a
  mail whose first try fails stays PENDING (`EveryMailIsSettled`).
- An invoice job left PROCESSING by a crash in its first attempt has no due
  date; `InvoicesAreIssued` excuses it.  Rules for the recipient's state always fail issuing.  Two
  administrators can activate overlapping rules, and no invoice is issued
  (`OneRuleInForce` is stated of one administrator).  A
  stale copy in `ensurePdf` or `retryEmail` can take SENT back to PENDING, and
  the mail goes out again.

People.

- `Registration` (`OneAccountEach`): two forms of one phone can make two accounts.
- `AccountDeletion` (`DeletedForGood`): a login under way saves the status it
  read (`auth.service.ts:393`), and unsuspend accepts DELETED; cancelling a
  request sets a SUSPENDED account ACTIVE.  `account-deletion.service.ts:928` says
  that completion releases the phone; it keeps everything.
- `EmailCodes` (`PreviousEmailKept`): `corporate-identity.service.ts:195` says
  the previous corporate email remains while a change is pending.  A second code
  asked for before the first is entered finds the status OTP_PENDING and clears the
  email (`:71`); so does a request that saves a record it read before a verification.
- `Vehicles` (`PublishesWhatIsVerified`): a verification saves the vehicle it
  read; two vehicles can be active at once.
- `Coupons` (`CouponLimit`), `CommuteRewards` (`RulesAreImmutable`): edits save
  stale counters, and check and save without a lock.
- `ChatPages` (`MarkedUpTo`): `chat.dto.ts:169` marks messages "at or before this
  message", the code leaves that message unread unless its time is a full
  millisecond; pages skip what shares a millisecond with the cursor.  A message
  becomes visible after later ones and can be marked read unseen.
- `SosIncidents`: an incident is saved from a stale copy, so its resolution or
  assignment can be lost; resolving the SOS leaves it open.  A driver's
  `publishLocation` goes to a key that the desk never reads.
- `IdentityVerification`: a webhook can save an older status over a newer one.
- `SupportTickets`: a comment is checked against RESOLVED before its transaction.

## 7. Proofs

TLAPS checks these for every value of the constants: any set of wallets, users,
requests, rides, queues and administrators, any amounts, prices and seats, any
interleaving.  Each invariant below was first checked by TLC on the instance of
a run.

| Theorem | Says |
|---|---|
| **wallet ledger** (`WalletLedgerProofs`) | |
| `TypeCorrect` | every state is well typed |
| `BalancesNeverDrift` | `NoDrift`: each bucket of a balance is the total of its lots |
| `HoldsEndOnce` | `HoldEndedOnce`: a hold is released or consumed once, by the call that ends it |
| `HeldIsAllocated` | `HeldBacksActiveHolds`: held points are what active holds allocate |
| `LedgerIsChained` | `LedgerChained`: each ledger row goes on from the one before |
| `PlanTakesAmount` | a plan over the lots takes exactly the amount if there is that much |
| `WalletImplementsAccount` | every step is one of `PointsAccount`, or a stutter |
| **withdrawals** (`MoneyProofs`) | |
| `PayoutsTyped`, `HoldsFollow`, `AnswersMatch` | types; `HoldFollowsStatus`; `AnswerIsWhatWasAsked` |
| `WithdrawalsImplementPayouts` | every step is one of `Payouts`, or a stutter |
| **top-ups, platform wallet** (`MoneyProofs`) | |
| `TopUpsTyped`, `CreditsArePaidFor`, `AcknowledgedAreCredited` | types; what is credited was captured for that order; an event is acknowledged for good only if its order was credited |
| `SeedTyped`, `FloatIsGivenOnce` | types; the float comes at most once |
| `MoneyIsPaidFor`, `MoneyIsAcknowledged` | `CreditIsPaidFor` and `AcknowledgedIsCredited` of the composite |
| **Assured queue** (`AssuredQueue`) | |
| `QueueTyped`, `OneRideOnOffer`, `SeatsAreKept` | types; `OneOffer`; free and booked seats add up |
| `OldestIsPromoted`, `OffersAreReplaced` | the action properties `PromotedInOrder` and `CancellationPromotes` |
| **commute** (`TripsProofs`) | |
| `CommuteTyped`, `SeatsAreNotOversold`, `SettledOrReturned` | types; `SeatsNeverOversold`; `FareGoesOneWay` |
| `CommuteImplementsTrip` | every step is one of `PrepaidTrip`, or a stutter |
| **Regular ride** (`TripsProofs`) | |
| `RegularTyped`, `SeatsStayExact` | types; `SeatsExact`: free seats are those no standing booking takes |
| `CreditsAreForRides`, `OneBookingForEach` | a credit is for a completed booking; one booking per key, one active per passenger |
| **Assured ride** (`TripsProofs`) | |
| `SettlementTyped`, `DepositsEndWithTheRide` | types; a deposit is on hold exactly while what it secures is open |
| `ForfeitsAddUp` | the rounded shares of a forfeited deposit are the deposit |
| `FaresGoOneWay`, `ReckoningsAgree` | a fare is earned, split or returned; bookings and ledger give the driver's earnings alike |
| `EndsAreFinal` | no step changes an Assured ride that is over |
| **deposits** (`TripsProofs`) | |
| `PenaltiesAreWorkedOff` | a penalty rests on one's own cancellation and raises one booking, a voucher frees one later booking, a key makes one |
| **all rides** (`TripsProofs`) | |
| `TripCreditsAreEarned`, `TripsBookOnce`, `TripHoldsEnd` | `CreditsAreEarned`, `OneBookingEach`, `HoldsEndWithTheRide` of the composite |
| `TripForfeitsArePaidOut`, `TripEarningsAgree`, `TripEndIsFinal` | `ForfeitsArePaidOut`, `EarningsAgree` and the action property `EndIsFinal` |
| **background** (`BackgroundProofs`) | |
| `BackgroundInvariant` | the invariants of claims, jobs, outbox, taxes and mails hold side by side |
| `VerdictsAlwaysFit` | `VerdictsFit`: a verdict fits the trip, and a no-show has one |
| `NothingIsDoneTwice` | `NothingTwice`: numbers without gaps, one message, or one more after a crash |
| `InvoicesAreAlwaysRight` | `InvoicesAreRight`: an invoice adds up, to the nearest paisa, under the one rule in force; it counts as mailed only if it was |
| **services** (`ServicesProofs`) | |
| `ServicesInvariant` | the invariants of series, vehicles, coupons, campaigns and searches |
| `SeriesAlwaysFit` | `SeriesRidesFit` |
| `LimitsAreAlwaysKept` | `LimitsAreKept`: attempts, uses, trips, and ways off a route |
| `PromisesAreAlwaysKept` | the action property `PromisesAreKept` |
| **people** (`DeskProofs`) | |
| `DeskInvariant` | the invariants of the twelve parts |
| `RepeatsAlwaysCountOnce`, `NothingIsEverUnproven` | `RepeatsCountOnce`, `NothingUnproven` |
| `UsersAlwaysSeeTheTruth` | `UsersSeeTheTruth`: histories, ratings, lists, codes, notices, the safety desk, pages |
| `DecisionsAlwaysStay`, `NothingIsWrittenAfterClose` | the action properties `DecisionsStay` and `NothingAfterClose` |

### The inductive invariants, and why each is needed

- `LockInv` of the wallet: what a request plans to take is a sequence of naturals
  only while no lot is overdrawn, and that depends on the lock taken before the
  plan was made.  So `TypeOK` needs `TargetsExist` (a request that ends a hold
  names one that exists), `AvailableNonNegative`, `BalanceOwned` (at most one
  request is past the lock of a balance) and `PlanCovered` (the plan of the owner
  is covered by the lots as they are now).  On it rest `DriftInv` (with
  `SeenCurrent`: what was read under the lock is still what is stored, so a
  commit adds to a bucket what it adds to its lots), `EndedInv` (one request past
  the lock of a hold; a ledger row that ends a hold names one that is over), `HeldInv` (allocations fit their
  lots, and the request that ends a hold takes its allocation), `AmountInv`
  (plans and allocations are exactly the amounts) and `ChainInv` (the last row of
  a wallet agrees with its balance row).  The refinement uses `ChainInv`.
- `PayoutInv` of the withdrawals adds `LocksHold`: a status change in progress has
  its withdrawal to itself, as it was read.  `KeyInv` adds that a key has one row
  and that who inserts is alone, which makes the answer the one asked for.
- `TopUpInv`: an order knows the gateway order made for it
  (`OrdersKnowTheirs`), a payment that was announced or verified was captured
  (`AnnouncedIsTrue`), and a SUCCESS was credited.  Calls stay within `MaxCalls`.
- `SeedInv`: a transaction writes a lot with its ledger row (`WrittenTogether`),
  and nobody who has read a wallet with a history is about to seed it, although
  lots and ledger are read one after the other (`NoSeedAfterHistory`).
- `QueueInv`: a published ride is in a queue, free seats and passengers make its
  seats (`BookingsFit`), and two offers are not in one queue.  The cap in
  `restoreSeatsSafelyInTransaction` hides a lost seat from tests; by
  `SeatsAreKept` it never applies.  That promotion takes the oldest rests on the
  minimum of a set of naturals, from the well-founded order of the library.
- `CommuteInv`: who is pending or accepted has paid (`ActiveIsPaid`), which makes
  each cancelled booking refundable; a booking in `settled` is completed and one
  with a refund is cancelled, so neither can become active again.
- `RegularInv`: a request that was not answered made no booking (`Unanswered`: the
  one that passes the lock books once), the fare of a standing booking is known
  (`FaresKnown`: debited, or unpaid and due later), each key made one booking over
  cancelled ones too (`KeysOnce`), and the free seats are exact.  The last is
  needed in full: with fewer free seats than that the cap of `RestoreSeats` would
  keep the difference.
- `SettlementInv`: no property about amounts is inductive, since amounts do not
  tell which rows may still come.  So each row fits the status of its booking and
  of the deposit it divides (`RowsFit`), a fare or a deposit with one fate has
  no row of another (`FatesExclude`), what was taken has its row
  (`BookingsFit`), and a forfeited deposit was divided in full (`DriverForfeits`).
  A step then only shows which rows it writes; their amounts follow from the
  lemmas about `AmountOf` in `Sums`.  That the shares of the riders add up, the
  last taking the remainder, is an induction over the riders in their order.
- `TermsInv` of the deposits: who has read a rate holds the lock of a ride on which
  nobody of the passenger is live (`QuotesAlone`), so two quotes of one penalty are
  about two rides, and the one booked first works it off.
- `ClaimsInv`: the trip still says what an approved verdict says (`Borne`: nobody
  judged a no-show is picked up later), and of two claims about one no-show at most
  one is open and one approved (`Apart`); a new claim is compared with both.
- `JobsInv`: only one transaction has the next invoice number (`SequenceHeld`, the
  lock of the sequence row), so one that fails gives it back without a gap.
- `OutboxInv` bounds messages by crashes: `sent[c] <= 1 + crashes`, and one less
  while the row is pending or failed with no message just sent.
- `TaxInv`: what one administrator is about to save was compared with rules as they
  still are (`Untangled`).  The theorem is conditional on one administrator, as the
  property is; with two, rules overlap.  That tax and taxable value add up and round
  to the nearest is arithmetic about division.
- `MailInv`: a copy of the row that says SENT was made after a mail, so saving a
  stale one does not invent a mail.
- `SeriesInv` is the property about pairs of commutes and cancelled series.  Publishing
  a series holds advisory locks; a move holds the rows it changes, and the unique
  index on a commute's departure stops one that a ride published meanwhile took.
- `GarageInv`: attempts are numbered in the order they begin and only the newest
  one without an answer may be recent (`OldOnesAreStale`); the run's property
  follows, it is not inductive alone.
- `CouponInv`: the counters of the row and of every administrator's copy are not
  ahead of the redemptions; the copies are why, since an edit saves one.
  `CampaignInv`: a claim keeps the number of trips it was granted for, and those
  trips still count.
- `SearchInv`: a search waits only with what it judged from routes as the crow flies
  (`Waits`), and the second look needs each road that this judgement names.  With
  these roads it finds the kind of match of the first look or none (`SecondLook`):
  who waits behind the source is never picked up on the route, so no road can turn
  a way off it into another kind whose distance nobody asked for.
- `SosInv`, `DeletionInv`: at most one open row, and one call that opened each
  (`OneOpener`).  `ChatInv`: a message that is stored and not yet published has
  reached no socket and no other process (`HeardOnce`), so no repetition delivers
  it again.  `SupportInv`: a history ends in the status of its ticket.
- `RatedInv`: who was rated travelled together, and nobody was taken along by a ride
  that goes on (`TravelledTogether`); averages then follow from sums of stars.
- `CodesInv`: the copy of the record that a request works with proves as much as the
  record (`ReadIsProven`), which makes saving a stale one harmless for the claim;
  an email that was read before is saved only while nobody else has it (the unique
  index on `users.email`).  The run has one process for codes; that two senders
  leave one code, by the lock or a unique index, is covered by the proof only.
  `KycInv`: whoever has read VERIFIED finds the reward given (`RewardFollows`).
  `SignupInv`: a request goes on with an account of the phone that was proven, and
  names one referrer (`RequestFits`); codes differ.
- `ReadersInv` of the lists: every booking but a legacy one has its code from the
  start, what was read of it is what is there but for the status (`RowsAreRead`),
  and an item that was there at first and not seen has at least as many before it as
  the pages turned so far hold (`Walks`): the order only grows at the end.
- `NoticesInv`: what waits to be told is true, and names everybody who has to know
  and does not yet, unless a notice failed (`WaitsRight`); an answer was given only
  when nobody was left (`AnswersHold`).
- `MonitorInv`: a view takes its steps in order (`InStep`), the list has still to
  come to the status of an emergency that is active all along, or shows it or a full
  page of newer ones (`ListComesBy`: statuses only go forward, and the list reads
  them in that order), the map knows cars known all along.
- `PagesInv`: what a reader was to see and has not is older than all that is shown,
  or shares the time of a cursor that lost its fraction (`GoesOn`; section 6 has
  that exception), and the time of an item is that of a stored message.
- `MoneySpec`, `TripsSpec` and the `Spec` of the other composites: a step is one of
  each part or leaves that part alone, so an invariant of a part is one of the whole.

### The refinements

An initial state maps to an initial state, and under the invariant a step maps
to one abstract step or none; one lemma per kind of step.  `PointsAccount`: a
commit is the abstract operation on spendable and held points of one wallet, all
phases before it are stutters.  `Payouts`: `Reserve` and `CommitUpdate` move a
payout, income is earned and spent, the rest are stutters.  `PrepaidTrip`: accepting takes nothing, each cancellation
returns the held fares of the bookings it ends, the admin's one of a ride on its way
keeps them, completion earns them.

The attempt to prove the last found a fault of the model: with a coupon over the
whole fare the former mapping called a cancelled booking without a fare "kept"
while its ride went on, which is no step of a trip.  TLC had not met it since no
instance had such a coupon; `trips_fares` now has one, and the mapping says that
there is no fare.  `LimitsAreKept` found another: when the ways to the source
and from the destination run between the same two places, the model's second look
gave the road of the one to the other, which the code does not.

### What the proofs rest on

Only on what the parameters are: `WalletLedgerAssumption`,
`WithdrawalsAssumption`, `AssuredQueueAssumption` and `CommuteRideAssumption` of
the modules that declare them, and for modules that are instantiated the
assumptions of the composite: `MoneyParameters`, `RegularParameters`,
`AssuredParameters`, `TermsParameters`, `TaxParameters`, `SeriesParameters`,
`GarageParameters`, `OfferParameters`, `CampaignParameters`, `SearchParameters`, and in `DeskProofs`
`ChatParameters`, `RatingParameters`, `CodesParameters`, `KycParameters`,
`SignupParameters`, `ListParameters`, `NoticeParameters`, `MonitorParameters` and
`PageParameters`.  Theorems about one part name its `Parameters` as a hypothesis.
They say that sets are finite where the code counts, amounts and seats are
naturals, and that some values differ.  TLC evaluates all of them.  Sums are
`SumTo(f, n)`, a recursive function on the naturals; `Sums` has what the commits
need (monotone, changed at one place, pointwise sum, over a subset), proved by
induction written out.  `AmountOf(rows)` is the total of a finite set of rows,
with lemmas for unions, single rows and rows that pair up.  A list that the code
sorts is any list of a set in the order of its key; `Sums` has that there is one
and that it is the only one where keys differ (`SortedExists`, `SortedApart`).

### Only model-checked

- Liveness (`BegunCallsAnswered`, `CapturedIsCredited`, `JobsAreSettled`,
  `ClaimsAreSettled`, `LocationForgotten`) and ENABLED: beyond the prover.
- `SearchIsRight`: that a search misses no ride that passes compares the
  geometry of the code, folds over the points of a route, with a walk along it.
  What a fold computes for every route needs induction over data, which the prover
  does not have, and on a route that passes a place more than `MaxCandidates` times it
  does not hold; the run has five routes and eight places.
- Behaviours under which a property of section 6 fails are not excluded by an
  assumption: those properties are not claimed.

## 8. Not modelled

- The order of locks inside a money transaction: each is one critical section
  here.  PostgreSQL ends a deadlock by failing one of the two transactions,
  which is a step that did not happen.
- Adding a payout method; reversals by an admin (one keyed call of the wallet
  ledger under the lock of the row); trusted contacts, settings (rows of one user
  without interplay); sessions and moderation flags of admins.
- Listings of admins, wallet queries, dashboards: read-only.  Reconciliation
  compares what `NoDrift` says.
- Lot expiry: no code sets `expiresAt`.
- Spherical distances, polylines, the geographic matching of Assured queues;
  formats, templates, transport of e-mail.
