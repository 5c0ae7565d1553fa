# Verification of the Da Nang Travel back end

TLA+ modules of the core of this repository, TLC configurations that check them on small instances, and
TLAPS proofs of what matters most. Every definition is translated from the code under `src/`; `PROJECT.json`
names, for each one, the file and lines it stands for.

Short names used below: *T* = `src/apps/manager/src/tour/tour.service.ts`, *A* = `.../admin/admin.service.ts`,
*S* = `.../seller/seller.service.ts`, *AU* = `src/apps/auth/src/auth.service.ts`,
*U* = `src/apps/auth/src/util/authUtil.service.ts`, *M* = `src/apps/manager/src/manager.controller.ts`, *G* = `src/apps/api/src/app.controller.ts`,
*B* = `src/libs/shared/src/repository/base/base.abstract.repository.ts`.

## 1. The system

A NestJS monorepo of four processes. They talk RPC over RabbitMQ (one durable queue for each service), and
share one Postgres database through TypeORM repositories and one Redis cache.

| Component | State it keeps | Operations | Hard behaviour | What makes it correct | Module |
|---|---|---|---|---|---|
| Tour booking and life cycle (T) | tables tour, schedule, cart, order, order_detail, passenger | createTour, updateTour, deleteTour, bookingTour, upvoteOfTour, three cart handlers, the nightly status job | every handler reads a row, awaits, and saves the row it read; nothing is in a transaction; several rows per request, an exception half way keeps the first ones | seats and counter agree, refusals are justified, statuses follow the dates and every tour closes, carts and votes | TourBooking, SeatCounter, SeatSale |
| Accounts and sessions (AU, U, mail service, AuthGuard) | tables user, token (one row of keys per user) | register, validate e-mail, login, token pair, refresh with rotation, log-out | register is a circular RPC auth → mail → auth; two logins create the one row of a user; rotation races log-out and reuse detection | a token handed out is accepted until its row is removed; a revoked key stays revoked; spent tokens are not in force | Accounts |
| Stores and bans (A, S, AU) | table store, and user and token | createStore, editProfile, banStore, unBanStore, banUser, unBanUser | whole-row saves of the same three tables | store owners are sellers; bans and roles are not undone by a stale save | Accounts |
| Payments and monthly statistics (A, S) | table payment, column store.paidMonth | confirmedPayment; four figures computed from orders and payments (chart, dashboard, income of the stores, profits) | `setMonth` on days a month lacks; two tables written in turn; check then insert without a unique key; a query and a clock for each cell of a figure | a bill is for its month, no order is billed twice, paidMonth and payment agree; figures show their month and count nothing twice | MonthWindow, Payments, Statistics |
| Gateway and RPC delivery (G, guards, UserInterceptor, SharedService) | queues, calls in progress | guards ask auth, the interceptor asks auth, the route asks its service, which may ask another | acknowledgement before work, services that wait for each other in a circle, crashes, redelivery, the interceptor's `catchError` that runs a route again, patterns nobody handles | no repetition of finished work, no answer before the work ended, every call answered or explainably lost | Rpc |
| Cached listings (M, with T, A, S) | Redis keys, 2000 ms | read-through of twelve listings | overlapping fills, an older fill stored last, errors stored as results, a key that omits an argument | what is served was true within the time to live and the slowest fill; it belongs to a listing of that key | Listings |
| Reminders and booking mails (T, mail service) | nothing but the mails started | the job at two in the afternoon, a mail for each order | reads what the status job writes; half an order ends its loop; at most one attempt | whoever is booked on a departing tour is mailed; nobody is mailed at the wrong time | Reminders |
| Experiences and comments (T, M) | tables share experience and comment | post, comment, vote; two listings | votes rewrite the row they read; the cache hides writings | votes toggle; writings show once an entry has expired | Experiences |
| Uploads, seeding, wiring | – | – | – | – | no |

How they interact. A client calls the gateway; its guards and `UserInterceptor` ask the auth service
(`verify-jwt`, `decode-jwt`) over RPC, then the route sends one message to the service that does the work, and
`firstValueFrom` waits for the reply, with no time limit anywhere. A service handler first acknowledges the
message (`SharedService.acknowledgeMessage`) and then works, so that a message is worked on at most once and
RabbitMQ never delays another delivery to it: handlers of one process overlap at every `await`. The services
share the tables: bans of the manager remove the rows of keys of the auth service, confirmations of payment
save the store rows that edits save.

`repository.save(entity)` (B) is the heart of most hazards. TypeORM issues a SELECT of the stored row by id,
then an UPDATE of the columns in which the entity differs from what the SELECT returned (an INSERT if there is
no row). It is not atomic, it does not lock, and the entity usually was read many awaits earlier. All modules
model it as two steps, `...Select` and `...Update`, with the set of columns to write decided by the first.

The hazards of the code, each at its line and with the properties that cover it, are listed in `PROJECT.json`.

## 2. Plan

1. **Done.** TourBooking with its abstract specifications SeatCounter (what overlapping handlers still promise)
   and SeatSale (what serial handlers promise), and TourBooking_proofs: type invariant, ledger invariant,
   honest counter, justified refusals, refinement.
2. **Done.** Accounts: users, keys, stores and bans in one module, because they share three tables.
3. **Done.** MonthWindow (the pure calendar computation) and Payments, with Payments_proofs.
4. **Done.** Rpc: delivery, crashes, redelivery.
5. **Done.** Listings, and Listings_proofs for any queries, keys and changes of the tables.
6. **Done.** Experiences, which composes Listings with the handlers that write its tables, and Experiences_proofs.
7. **Done.** Reminders, which puts TourBooking into the manager's day, and Statistics, which gathers figures while
   Payments goes on, with Statistics_proofs.
8. **Done.** Rpc with handlers that ask another service in turn.
9. **Done.** Proofs of every safety invariant and action property that a passing run checks, in the eight `*_proofs` modules
   (section 5).
10. **Left, composition.** Rpc's delivery as an environment of TourBooking, in place of each request being handled
   once or lost: an abstract at-most-once service that Rpc implements.

Runs are merged, never multiplied: related properties share one instance.

## 3. Modules and how they correspond to the code

In all of them a *request* is one message to a service, with a `job` chosen in the initial state; `pc` says at
which await its handler stands, `mem` what it remembers across awaits, `reply` what it answered. One action is
the code between two awaits that write, or between the first read and the tests on it. Reads before a handler's first
write are grouped when nothing is decided between them. Properties that speak of serial histories use either
`MaxInFlight = 1` or the history variable `alone` (no two handlers ever overlapped). `...Slip` definitions are
plausible mistakes in the definition after them, each caught by a property; no action uses them.

**TourBooking.** `tour`, `plan` (schedule rows per tour), `cart`, `order` (how far a request's order, detail and
passenger rows got) and `sold` (a history variable: persons on CONFIRMED orders, which the code never sums) are the
tables. bookingTour (T:286-428) is `BookRead`, `BookOrder`, `BookDetail`, `BookLink`, `BookPassengers`,
`BookCounterSelect` + `SaveUpdate`, `BookFullSelect` + `SaveUpdate`, `BookCartFind`, `BookCartRemove`, `BookMail`.
The status job is `CronRead` (all open tours at once), then one `CronSelect`/`CronUpdate` for each row due: the
rows as read are saved, so the job can write back a counter that a booking raised meanwhile.
Abstractions:
- names, prices, addresses, images left out; schedules are counted; a tour belongs to `owner` directly;
- dates and `now` are moments, counted from a common zero, in any unit: lastRegisterDate, startDate and endDate are timestamps
  and `new Date()` is not rounded, so a tour may close or start at any moment. The job's own clock and its query are one step;
- the numbers of persons and seats of a request are any integers, because nothing asks for more (`tour.dto.ts:92-96` only
  `@IsNotEmpty`, T:139-140, T:300-308): a party of -1 is booked, and lowers the counter at T:394. What is said of
  seats needs the hypothesis `PartiesAreCounts`, that no request carries a negative number of persons; NoOverbooking and SaleSpec also
  `SeatsAreCounts`. The instance of booking_closes offers negative numbers, those of the runs on seats do not;
- `reply` is what the handler will return, fixed together with its last write; a death of the manager after that write changes
  no table, and whether the answer still gets out is Rpc's matter;
- a request's `fault` says which of its rows the database refuses. A booking without a number of persons computes
  NaN, which the order row's insert refuses, so it is the fault "order";
- createTour's start-date guard compares ISO strings with a Date and never fires, so it is absent;
- an array column (`upVote`) may or may not be written when its elements are equal.

**SeatCounter / SeatSale.** Two abstract specifications over seats sold and, respectively, the counter shown and
the capacity. `CounterSpec` and `SaleSpec` are their specifications under the refinement mappings at the end of TourBooking.

**Accounts.** `registered`/`user`, `rows` (table token) and `store` are the tables; `held` the tokens clients have,
`mailed` the links sent. register is `RegisterFind`, `RegisterInsert`, `MailAsksToken` (the mail service back to auth),
then the signing path shared with login: `Sign`, `Create`, `PairFind`, `PairSelect`, `PairUpdate`, `Signed`, and
`Send`. `RefreshFind` makes handleRefreshToken's three-way decision; `Reuse` removes the row, `RotateSelect`/`RotateUpdate`
save the rotated one. `RowFind`/`RowRemove` are the removal in log-out, createStore and banStore.
`SaveUserSelect`/`SaveUserUpdate` and `SaveStoreSelect`/`SaveStoreUpdate` save what `Changed` or `shop` says.
Abstractions: a token is its key, the shape of the user object in its payload and the second of `iat`, which is what makes two
tokens the same string (access and refresh token of a pair are signed alike and equal); signatures and passwords are
right; tokens (365 days) outlive the model; administrators' sessions are left out, their requests just arrive.
`ManagerDies` is the death of the manager, at any moment and any number of times: the handlers of createStore, of edits and of bans
end where they stand and nobody is answered, so createStore may stop between the role, the row of keys and the store (S:92, 99, 100);
`CreateStoreOpen` may also have its row refused. A createStore that is still in the queue is handled after
the restart. The auth and the mail service do not die here; that is left to Rpc.

**MonthWindow.** `SetMonth`, `First`, `Last`, `InWindow`: the window of `currentDate.setMonth(month - 1)` and
`Between(first day, last day)` at midnight, with setMonth's overflow. The first instant of the last day is left out, and
a month has the same length every year (a leap year is the same calendar with another February).
Months are 1..LastMonth, as the DTOs and the client send them.

**Payments.** confirmedPayment (A:83-141) is `ConfirmOrders`, `ConfirmFindStore`, `ConfirmExisting`,
`SaveStoreSelect`, `SaveStoreUpdate`, `ConfirmInsert`; `EditFind` with the same two save steps is any handler that saves the whole
store row; `BookOrder` is the one step of a booking that matters. `of` and `on` in a payment are
history: the orders summed and the day. `Fractional` is the integer column refusing 17 % with cents, after
the store row was saved.

**Statistics.** Extends Payments with the handlers that only read: `ViewBegin`, then one `ViewCell` for each month or store
of the figure, each a query of its own. The chart (S:330-368) also asks the clock for each month. A figure is the
set of rows it sums, so that "counted twice" can be said; what differs between the four is `Cells`. `StatisticsSpec` is
what the runs of Payments check.

**Listings.** A listing with its arguments is a member of `Args`; `Runs` says which queries its handler makes, `Key` what
key it stores under, `Swallows` whether it returns an error as its result. `Get` looks the key up, `Query`
makes one query (`QueryFinds`, `QueryFails`), `Put` stores and answers. `truth`, what each query would find, is changed in any
way by `Change`; `Tick` lets entries expire; `Crash` is the manager's death. `facts` records what each
query would have found when.

**Experiences.** The tables of posts, comments and votes with their handlers, over an instance of Listings in which
`truth` is `Truth`, what the two queries find in the tables: every save is a `Change` of the listings.
`VoteFind`, `VoteSelect`, `VoteUpdate`, `VoteAnswer` are the vote (T:529-560): the manager may die before its UPDATE, and between the UPDATE
and the answer. `voted` records the votes saved, `crossed` marks posts two votes on which overlapped.
Abstractions: a page holds every row; authors, texts and images are left out.

**Reminders.** Extends TourBooking with the hours of a day, which began at `dawn`. At `midnight` the status job runs, as
often as it likes up to the moment `dawn + Sweep` (00:59), when another run would save rows as they are (`Morning`; the job's
pattern `* 0 * * *` fires every minute of that hour). By `day`, at `dawn + Afternoon` (14:00), `Remind` is
autoSendMailingToOrder (T:664-717). `Pass` is the time between, `Night` the next day. Handlers go on at any moment (`Serve`).
`Dies` may cost the hour of a job. `Soon` is the rounded difference of T:683-687, which has no lower bound.
`chances` collects whoever should be mailed by the dates alone.

**Rpc.** `route` of a call says what matters of it: guards that ask, interceptor or not, the path of services that ask
each other, and whether its pattern is handled and acknowledged. `Arrive`, `Guarded`, `Decoded`, `Routed` are the
gateway; `Deliver`, `Start`, `NoHandler`, `AskInner`, `Resume`, `Finish` a service; `Crash`, `Restart` its death. `missing` routes are those whose pattern no service handles
(G:383, G:526, G:625); `never` is `get-tour-to-store`, whose handler does not acknowledge
(`src/apps/manager/src/manager.controller.ts:326`). Abstractions: a queue is delivered in any order (more than
RabbitMQ does); guards answer either way; a lost connection without a death, a dying gateway and throttling are
left out.

## 4. Runs

Every run is exhaustive over its instance. `MC*` modules hold the instances.

| Run | Question | Properties |
|---|---|---|
| booking_core | two bookings, an edit, vote or removal, and a crash, interleaved at every await | QuantityNeverOverstates, RefusalsAreJustified, CounterSpec |
| booking_serial | any four of the requests and the job, one at a time | NoOverbooking, CounterIsExact, VotesToggle, OneCartRow, PlanIsLongest, SaleSpec |
| booking_closes | the status job, a booking, an edit or vote and a crash at three moments, negative numbers among them; liveness under a fair job | TypeOK, StatusFollowsDates, PastToursClose |
| reminders | the manager's days: job, reminder, two handlers at any moment, a death; tours that close or start at the job's moment or between the jobs | LedgerInv, ChancesAreTaken, RemindersAreTimely |
| overbooking, delete_booked | violations, see section 6 | NoOverbooking, OnlyUnsoldToursAreDeleted |
| accounts_mixed | register, validate and any three others, two overlapping, the manager dying at any await | TypeOK, HandedVerify, RowsCarryTheirKey, SpentNotCurrent, RevokedStaysRevoked, StoreOwnersSell, FlagsKept, RegisteredAreMailed |
| payments | two bookings or an edit, two confirmations or a confirmation and a figure, crashes, days passing | TypeOK, BillIsTheMonth, BilledOnce, PaidMonthsShown, ShownOncePerPayment, ViewsAreTheMonth, CountedOnce, ProfitWithinIncome |
| paid_twice | violation, see section 6 | PaidOnce |
| gateway | a call for any route and a registration, services dying twice | TypeOK, BegunOnce, AnswerIsLast, AnsweredOrLost |
| listings | two requests, two listings that share a key and one of its own, tables that change at any time, failing queries, expiry, a crash | ServedWasTrue, ServedUnderItsKey |
| experiences | a post, a comment or votes, two listings read, expiry, one failure or crash | VotesToggle, WritingsAppear, ListingsSpec |

What they show together: **overlapping** handlers keep the counter honest (never above what is sold), the refusals
justified, the statuses behind the dates, the issued keys valid, bills and figures those of their month, reminders no later than the day of the start, and what is served no
older than an entry lives and a fill takes; only **serial**
handlers also keep the capacity, an exact counter, toggling votes, unique cart rows, revocations, roles, bans and single
payments. The violation runs show what overlap breaks.

Bounds, and why they are enough:
- *One tour, one user per role, one account.* No handler relates two tours, and none relates the rows of two users except through
  unique keys that are per user. Tours enter the proofs as an arbitrary set.
- *Two to five requests.* A stale save needs a reader and a writer; a lost update of a lost update a third.
  booking_serial pairs every kind of request of T with every other; booking_core overlaps bookings with each other and with
  edits, votes and removals; booking_closes and reminders add the job. accounts_mixed
  overlaps two at a time, out of five, so each race leaves time for a serial prefix and suffix that shows it.
- `MaxInFlight`: two handlers at work in accounts_mixed, payments and reminders, one in booking_serial, no limit elsewhere.
- *Capacity 1 or 2, parties of 1 and 2.* The tests on seats see "fits", "fits exactly" and "does not fit".
- *Three moments* in booking_closes (`MaxTime = 2`): a tour with registration until 0 and held at 1 is over at 2; moments between
  two dates show nothing that a moment at one of them does not, since every comparison is with a date.
- *Two days of three moments* in reminders (`PerDay = 3`, `MaxTime = 5`): the status job (`Sweep = 0`), a moment between the
  jobs, the reminder (`Afternoon = 2`). Tours close at the job's moment (0 and 3) or between the jobs (4), and start at the job's
  moment of the second day (3), between its jobs (4), or on the third day (7). `Notice = 0` is three in the code: the distance shifts the days on which things happen
  and changes nothing in their order. Reminders_proofs holds for all lengths, hours and notices.
- *A year of two months of 2 and 3 days, one year.* One month lacks a day of the other, which is all setMonth's overflow
  depends on. The proofs cover every calendar and every number of years.
- *Prices 50 and 100.* 17 % of them with and without cents.
- `Telling` *(payments)*: out of all choices of jobs those that can say something new: two confirmations, or a
  confirmation and one figure; bookings with cents only beside an edit; a second store only beside the figure that shows stores.
  Figures change nothing, so two of them together show what each shows alone.
- `TTL = 1`, `MaxTime` 3 *(listings)* and 2 *(experiences)*: an entry can expire, be filled again and expire again; a fill can outlive
  the entry it will replace. `FewEvents` leaves, in listings, `MaxEvents = 1` change of a query's result or failed query beyond
  one for each query and instant, and in experiences one refused row, failed query or death. Listings_proofs and
  Experiences_proofs hold without these bounds.
- *Two calls, two crashes* (gateway): one for any route and one registration, whose handlers wait in a circle; the second
  crash hits the redelivery that the first caused.
- *MaxTime 1 in Accounts:* tokens signed in the same second and in different ones.
- *Symmetry* only permutes requests to which the instance offers the same jobs, and the two values of listings; runs that
  check liveness use neither symmetry nor a state constraint.
- `CHECK_DEADLOCK FALSE` everywhere: every instance has finitely many requests and rightly stops when they are done.

Fairness, and why the code justifies it. TourBooking: the steps of a handler that has begun (the database answers; no
handler waits for another), the job (`@Cron` fires every night), and days. Not assumed: arrivals, and `BookMail`,
whose RPC has no time limit. PastToursClose needs only the job and days; a stuck handler cannot prevent it.
Rpc: handlers return, the broker delivers, and a dead service is started again. The last is
an assumption about the operator, since docker-compose sets no restart policy; without it a call may wait for ever.
Accounts, Payments, Listings, Experiences and Reminders are checked without fairness: their properties are safety.

Each property of a passing run has a mutant in `PROJECT.json`: a definition replaced by a plausible mistake, under
which TLC finds the property violated.

## 5. Proofs

`TourBooking_proofs` (for all sets of tours, users, requests and job runs, all jobs, any number of days and crashes;
assumption: `ConstantsAssumption`, which says that jobs are well formed and requests are not job runs):
- `TypeCorrect`: `Spec => []TypeOK`, inductive as it stands, with no hypothesis on the numbers. Its content is that every object
  saved is a row and that a request is handled with a body it may carry; it does not say that a counter is not negative.
- `LedgerHolds`: `Spec => []LedgerInv`. QuantityNeverOverstates alone is not inductive, because an UPDATE writes a number
  read arbitrarily long ago. LedgerInv adds that every copy in flight is honest too: the row a handler read, the object it
  is saving, the batch of the job. For a booking past its order row it adds that the row it read plus its party is at most
  what is sold, which holds since `sold` grew by the party in `BookOrder` and never decreases.
  It also says that no copy of a counter is negative. All of it, and the three below, `ASSUME PartiesAreCounts`: a
  negative party lowers `sold`, and a copy read before shows more.
- `NeverOverstates`, `RefusalsJustified`: from LedgerInv. A refusal compares the party with seats computed from an
  honest counter, so with at least the seats left.
- `ImplementsCounter`: `Spec => CounterSpec`: each step sells for one tour, shows for one tour, or stutters.
- `DatesFollowed` (StatusFollowsDates), for all overlaps. An UPDATE may write DONE days after it was computed, so DatesInv says of every
  copy in flight, too, that its dates are those of the stored row and that its status is one they allow by now. Dates of an
  existing row never change (updateTour has no startDate or endDate), and time only adds to what they allow.

The other invariants of TourBooking speak of serial histories and are theorems under hypotheses on the constants, those of
booking_serial and no others: `MaxInFlight <= 1` for all, `NoRowRefused` (no request has a refused row) where a half
stored plan or order would refute the statement, `MaxCrashes = 0` where a death between an order and its counter would,
`PartiesAreCounts` and `SeatsAreCounts` where it is about seats (`SafeSale` is all of these).
AloneInv (`AloneHolds`) says what exclusion gives: only one process is busy, and for each program counter, what it holds
is what the tables hold. On it rest
- `OneRowInCart` (OneCartRow), `VotesAreToggled` (VotesToggle, by parity of the number of a user's votes), both with
  refused rows and deaths; `LongestPlanStored` (PlanIsLongest), with deaths;
- `SaleHolds`: for each tour, the counter and the orders agree up to the booking in progress, and fit the capacity. From it
  `NeverOverbooked` (NoOverbooking), `CounterExact` (CounterIsExact), and `ImplementsSale` (SaleSpec): a step sells seats
  that are left, sets a capacity of at least what is sold, or stutters.

`Reminders_proofs` (any length of a day, hours of the jobs in order and notice: `CalendarAssumption`):
- `CalendarRefines`: `RemindersSpec => Spec` of TourBooking: the calendar only says when the jobs run. So every theorem above
  holds beside it, `LedgerByCalendar` (LedgerInv, with PartiesAreCounts) among them.
- `CalendarHolds`: CalendarInv says that outside the hour of the status job no run of it is at work, and that every open tour that
  no request saved since midnight shows the status its dates called for at `dawn + Sweep`. `Morning` establishes it (no save of the job would
  change a row), and a request's step can break it only for a tour it puts into `touched`.
- `NobodyForgotten` (ChancesAreTaken) and `RemindedByDayOfStart` (RemindersAreTimely) follow from it and from DatesInv, which
  excludes a DONE tour that has not ended. Both speak of the dates as they were at the status job's last moment, because that is
  all the reminder knows: see below.

`Accounts_proofs` (any users, requests and overlap):
- `OneRowOfKeys` (TypeOK, at most one row of keys for a user), `GivenIsAccepted` (HandedVerify), `CarriesItsKey`
  (RowsCarryTheirKey), `InForceUnspent` (SpentNotCurrent), for all overlaps, from CoreInv. It says for each program counter
  whose user the row, key and tokens a handler holds are, that a key is stored or removed before a token signed with it is
  given, and that a spent token had been given and is in force no more, unless it was signed twice.
- `NobodyUnmailed` (RegisteredAreMailed), for all overlaps: how far a registration can be before its mail, and that until
  then no other handler makes or removes the user's row of keys.
- `RevokedForGood` (RevokedStaysRevoked), `SellersHaveStores` (StoreOwnersSell) and the action property `OnlyBansFlip`
  (FlagsKept) speak of histories without overlap. SerialInv adds, while `alone`, that at most one handler is
  busy and what it read is what is stored. All hold with deaths of the manager (`DeathCore`, `SerialDeath`). StoreOwnersSell says
  that a store's owner is a SELLER and that a SELLER without a store has a createStore which is past the role, was answered
  an error or was lost with the manager: the code may leave one, and in no other way.

`Payments_proofs` (any calendar satisfying `MonthAssumption`, which the Gregorian one does, any stores and requests):
- `RegularWindow`: asked on a day the month has, the window is that month of this year without its last day.
  `OverflowWindow`: on a day it lacks, the window is that of the following month. `RegularWindowsDisjoint`: windows of
  different months share no day.
- `PaymentsAreTheMonth`, `Spec => []BillIsTheMonth`. The inductive invariant BillInv adds what a
  confirmation holds between reading the orders and storing the payment: only orders of its store and window, and all of those made
  before the day of the confirmation. It survives bookings made meanwhile because an order carries the day on which it
  is stored, and days only pass.
- `TablesTyped` (TypeOK). A payment is a record of type Payment only if 17 % of the sum of its orders is a whole number,
  so Typed adds that it *is* 17 % of that sum, and that the sum is a number, which needs sums to be computed. `MapThenSumSet` is the
  choice of a recursive function over finite sets; the section *Sums* proves by the least finite set without such a
  function that there is one (FiniteSetTheorems' proper-subset order is well founded), then that a sum grows by what is
  added, does not depend on the order, and is monotone.
- `MonthsAreShown` (PaidMonthsShown), `ShownNoMoreThanPaid` (ShownOncePerPayment) and `NoOrderBilledTwice`
  (BilledOnce), for histories without overlap. Own says, while `alone`, that what a handler read of a store is what is stored
  (Fresh), that a confirmation past "Store Paid" is for a month still unpaid (StillUnpaid), and that paidMonth lies between the number of
  payments and that plus the confirmations that failed after saving the store (Listed, Noted). Deaths and refused payments are included.

`Statistics_proofs` (any calendar, stores and requests):
- `StatisticsOnlyLook`: `StatisticsSpec => Spec` of Payments: a figure disturbs nothing. Hence `StillTheMonth`: BillIsTheMonth
  holds while figures are shown.
- `ViewsHold`: the inductive invariant ViewInv says of a figure being gathered that each cell is asked for once; that a
  cell of orders holds orders of its store and of the window that setMonth gave on the day its query ran, and every order of
  them that was stored when the figure began; and that a cell of payments holds those of its month. With the theorems on
  windows it gives `MonthsShown` (ViewsAreTheMonth) and `NothingTwice` (CountedOnce): on days that all its months have,
  windows of different months are disjoint although midnight may pass between two cells.
- `ProfitIsCovered` (ProfitWithinIncome): Gathering says that a cell is still to be asked for or gathered and that the income is
  asked for on one day; Typed and PaidOnce turn the profits into 17 % of a union of disjoint bills, which
  lies within the orders shown.

`Listings_proofs` (any listings, queries, keys and values; `truth` may change to anything at any time):
- `Types`; `Staleness` (ServedWasTrue): AgeInv adds that what a handler has read was true since it began to query, and that
  what an entry holds was true no earlier than the slowest handler before the entry was stored.
- `KeysKept` (ServedUnderItsKey): KeyInv says the same of whose listing an entry or a result is.

`Experiences_proofs` (any users, titles, queries and requests):
- `ImplementsListings` (ListingsSpec): every save of a post, comment or vote is a Change of Listings, every other step is a step of
  it or a stutter.
- `WritingsShow` (WritingsAppear): ShowInv says which writings each answer, each entry and each result on its way must
  show. It does not follow from `Staleness`, which tlapm cannot use of an instance with variables, and which speaks of what was
  true and not of what was written; so the argument on ages is made again, for writings.

- `VotesAreToggled` (VotesToggle), for all overlaps: VoteInv says that votes in progress on one post are noted in `crossed`, that the
  row read by a vote that is not crossed is still the row, and that the votes of a post that is not crossed follow the parity of the votes saved.

`Rpc_proofs` (any calls, routes, paths of services and number of crashes):
- `RpcHolds`: RpcInv says that the gateway's count of messages fits the stage of the call (Counted); that whatever is on its way for a
  call belongs to the question the gateway awaits, unless its handler never acknowledges (Located); that a message that is
  acknowledged is in one place, and of two services at work for one question the first waits (Chain); and that a
  handler still to be begun for a try of the route has not been begun for it (Budget).
- From it `GatewayCounts` (TypeOK), `NothingAfterAnswer` (AnswerIsLast) and `NothingTwice` (BegunOnce).

Some statements say less than one might expect. Reminders go by the status column, which is as old as the status job's last run:
a tour that closes its registration between 00:59 and 14:00 is still AVAILABLE and nobody booked on it is mailed that day, so
ChancesAreTaken speaks of tours closed at `dawn + Sweep`; a tour that starts between the two is still LAST, and since
`Math.floor(differenceInDays) <= 3` (T:687) holds of negative differences too, its reminder goes out after its start, so
RemindersAreTimely says no more than "on the day of the start at the latest". TLC finds both if the properties are stated
for the moment of the reminder.

RemindersAreTimely does not say that registration is over *by its date* when a
reminder is sent. That is not true: a save of updateTour whose SELECT found the tour AVAILABLE
leaves the status alone, so that LAST, written by the job in between, stays beside the later lastRegisterDate it
writes, and the job has no case that takes LAST back. TLC finds it when an edit may set
lastRegisterDate to the day of the start. And `Departing` asks for a tour that is not over, since nothing in createTour keeps an end from
preceding the start.

Only model-checked: PastToursClose and AnsweredOrLost, since liveness under fairness, like ENABLED, is out of the prover's
reach; and the three violations of section 6, which are traces. Assumed by the proofs and checked by TLC on each instance:
`ConstantsAssumption`, `MonthAssumption` and the like, which say that constants are of their types.

## 6. Disagreements between the code and what it says

- **Overbooking.** T:305 refuses with "not Enough slot" from a row read before the awaits that end at T:394: two
  overlapping bookings of one seat are both CONFIRMED (run overbooking).
- **Removal.** T:102 refuses with "user bought can not delete" when `baseQuantity !== quantity`. Since `quantity` counts persons
  booked, starting at 0, exactly the sold-out tours can be removed (run delete_booked).
- **Payment.** A:114-136: two overlapping confirmations both store a payment of the month (run paid_twice).

Not listed as disagreements, because no text of the repository says otherwise, but visible in the models: the month window leaves out
the month's last day, and on the 29th to 31st may be the next month's; a failing confirmation (cents, crash) leaves
the month in paidMonth without a payment; a createStore that is refused its last row or dies with the manager leaves a SELLER
without a store; a negative number of passengers is booked and lowers the counter; reminders of tours that start in the
morning go out in the afternoon, after the start, and tours that close in the morning are announced a day late; a vote or an edit overlapping a booking loses the booking from the counter;
two overlapping `createCart` (T:264-276) both add the tour, which is why OneCartRow speaks of serial histories;
`UserInterceptor` runs a failed route a second time; a search that fails is cached as its error; the key of `getAllStore` (M:443) holds the
page and not the month, so ServedUnderItsKey promises a listing of the *key* and not of the arguments; a detail without
its order, which a refused row can leave, ends the loop of reminders, so ChancesAreTaken allows for it.

## 7. What is not modelled, and why

- *Uploads* go to an external service and keep no state here.
- *Seeding* (`src/apps/manager/src/basedata/`) is run by nothing: `onModuleInit` is commented out, and `userData()` and
  `store()` have no caller.
- *Modules, configuration, connection* only wire. They are used to justify what is assumed of queues and statements.
- *Figures that only count* (passengers, likes, users, stores) and the *split into pages*: no clock, no window, no sum of money, and one
  query each.
- *Contents of mails*, and the templates. The reminder's "Departure date remaining" shows the length of the tour.
- *Comments on tours*: single inserts, read without a cache.
- *Two uses of the cache without effect*: createTour's `tourView` entry (M:80-85) is read by nobody, and bookingTour's
  removal of `getAllTourOfStore` (T:422) removes a key nobody sets.
- *Throttling*, the cookie interceptor, and the PayPal route, which sends no message.
- *A ban of a store* is consulted by the tour search alone (T:578), so no property relates bans to bookings.
- Fields that no decision reads (names, texts, images, addresses).
