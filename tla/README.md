# Zenglow, verified

Zenglow is a booking platform for salons: a FastAPI backend (`backend/app`), Celery
workers, Postgres, Redis, and three Next.js sites (`apps/`). This directory holds TLA+
models of the parts of it in which something can go wrong that a unit test would hardly
reach, the TLC configurations that check them on small instances, and TLAPS proofs of
what they guarantee on every instance. One half of the models is about the backend, where
requests and jobs share rows without locks; the other half about the pages, where a user
clicks on while requests are under way.

1. [The system](#1-the-system): components, state, interactions
2. [Modules](#2-modules): what each models, and how it corresponds to the code
3. [Runs](#3-runs): what TLC checks, bounds, fairness
4. [Proofs](#4-proofs): what is proved, from what, and how
5. [What the code does not protect](#5-what-the-code-does-not-protect)
6. [Abstractions, and what is not modelled](#6-abstractions-and-what-is-not-modelled)
7. [Plan](#7-plan)

Paths below are relative to `src/`; services are in `backend/app/services`.

## 1. The system

### How requests run

Several uvicorn workers serve requests. A request gets a database session from `get_db`
(`backend/app/db/session.py:49-59`), which commits **after** the endpoint returned and
rolls back on an exception; tasks use `get_db_context` in the same way. Four facts about
these sessions shape every model here:

- Postgres runs at READ COMMITTED. What a request has flushed is invisible to the others
  until it commits, and a query sees what is committed when it runs.
- No query takes a row lock (`with_for_update` occurs nowhere).
- The session writes only the columns that were changed, with absolute values: a counter
  is `SET stock = 3`, not `SET stock = stock - 1`.
- Sessions are created with `autoflush=False, expire_on_commit=False`: an object that was
  loaded keeps the values it was loaded with.

Every `await` lets other requests run. So a read and the write that depends on it are two
steps of a model, and the commit that makes the write visible is usually a third.

### How pages run

A page is a React component: state, effects that load rows when something they depend on
changes, and handlers that send requests. Four facts about them shape the models of pages:

- A handler is a closure of the render it was made in. It reads its arguments there, awaits,
  and then sets the state of the page **as it is by then**.
- Nothing cancels a request, and no answer is matched with the question that is current: a
  load that was sent first and answered last is what the page shows.
- `request()` (`apps/*/src/lib/api.ts`) rejects when the server refuses and when the network
  fails. In the second case the server may have done what it was asked, and the page does
  not know.
- Only the state that a control looks at (`disabled`, a modal over it, a spinner instead of
  it) keeps the user from using it.

### Components

| component | state it keeps | operations | what makes it correct |
|---|---|---|---|
| booking (`booking_service.py`) | appointments and their items; `slot:*` keys in Redis | create, cancel, change status, confirm a deposit | no two live visits of one staff member overlap; keys do not stay behind; commission only for new customers; no mail about a booking that does not exist |
| availability (`availability_service.py`) | none (slot keys are its too) | slots of a day | what is offered can be booked |
| payments (`payment_service.py`) | payments, refunds, invoices | order, verify, refund, three webhooks | a payment is settled only with a charge that the gateway captured; a settled payment has an invoice and its appointment does not wait; nothing stays pending for ever |
| reconciliation (`workers/tasks.py`) | — | cancels stale pending payments | it does not undo a capture |
| point of sale, inventory, gift cards, packages (`pos_`, `inventory_`, `gift_card_`, `package_service.py`) | stock, balances, open sessions, and their movements and transactions | checkout, stock movement, redemption, edits | nothing is given that is not there; customers do not lose credit; counters agree with their ledgers |
| authentication (`auth_service.py`, `core/security.py`, `apps/*/src/lib/api.ts`) | revoked tokens in Redis; the pair in `localStorage` | login, refresh, logout | a spent refresh token is dead; a signed-in customer stays signed in |
| reminders and review requests (`workers/`) | flags of appointments; the Celery queue | beat, two tasks, retries | everybody is reminded, once |
| notifications (`notification_service.py`, `providers/notification`) | a log of notifications | e-mail, SMS | a mail is about something that happened |
| business verification (`verification_service.py`) | verification status, `is_verified`, business status | apply, start review, approve, reject, reapply | the documented state machine, also with two admins |
| businesses and branches (`business_service.py`) | businesses, branches, hours | create with owner role and hours, edit, search | slugs are unique; the owner role comes with the business |
| subscriptions, feature flags (`subscription_service.py`, `core/feature_flags.py`) | plans, subscriptions, tiers | seed, order, activate, limit checks | one active subscription; limits hold |
| memberships (`membership_service.py`) | plans, enrolments | enrol, look up | at most one active membership is assumed by the look-up |
| reviews (`api/v1/reviews.py`) | reviews | write, reply, list | one review per visit |
| staff, service catalogue, customers, users | rows | plain edits | tenant checks |
| access control (`core/deps.py`, `core/permissions.py`) | none | checks at the start of a request | — |
| reports, administration, uploads, schema | rows, audit rows, files | listings, edits, transfers | — |
| business app: schedule, till, inventory, packages, memberships, gift cards, services, staff, customers, calendar, payments, reviews, settings, plans, onboarding (`apps/business-web`) | loaded rows, forms, dialogs, what is being sent | load, filter, edit, save, sell, refund, redeem, upgrade, launch | what is shown as saved is stored; what is sent is about the row it was typed for; nothing is sold, refunded or founded twice by a second click or a retry |
| customer app: search, booking, visits, review, profile (`apps/customer-web`) | the same | search, book, cancel, review, edit | the slot that is booked is the one that is shown; one review per visit |
| admin app: verification queue (`apps/admin-web`) | the same | review, approve, reject | a business is marked as verified (`is_verified`) just when its application is approved |
| other pages, `packages/` | loaded rows | show and filter them | — |

### How they interact

- **Calls.** Checkout completes an appointment, takes stock and gift-card balance, in one
  session. Verification of a payment confirms an appointment. Availability reads what
  booking writes, both in Postgres and in Redis.
- **Shared state.** `appointments.status` is written by booking, payments, checkout and
  Celery jobs; nobody locks it.
- **Messages.** Booking queues a confirmation task in Celery, before its commit. The
  gateway sends webhooks, which may be lost, repeated or reordered. Beat queues the jobs.
- **Callbacks.** All tabs of a browser share `localStorage`, and each call refreshes the
  tokens by itself. An answer calls the rest of its handler back into a page that went on.
- **Copies.** A page edits a copy of rows that others change: the session's copy of the
  business or the user, a list loaded for a filter, the counts of a sold package.

### What is hard in it

Check-then-write without locks (booking, payments, retail, verification, reviews); work
that becomes visible before the transaction it belongs to commits (slot keys deleted, task
queued, refund paid out); state read by one await and used after another (reconciliation,
refresh tokens); failures between two such steps; and dates and windows that have to meet
exactly (reminders, tokens that live for whole seconds). On the pages: answers that arrive
out of order or never, edits made while a save is under way, a dialog that is open for
another row by the time its save is answered, forms filled from old copies, and several
requests that make up one operation. `PROJECT.json` lists these hazards at their lines,
with the properties that watch them.

## 2. Modules

| model | MC module | proofs | models |
|---|---|---|---|
| `Booking` | `MCBooking` | `BookingProofs` | create_booking, slot keys, status changes, the queued confirmation |
| `SlotLease` | (as a property of `Booking`) | `BookingProofs` | what a slot key promises: an abstract lease |
| `Availability` | `MCAvailability` | `BookingProofs` | the slots a customer is shown, over the state of `Booking` |
| `Payment` | `MCPayment` | `PaymentProofs` | orders, verification, webhooks, refunds, reconciliation, a gateway |
| `Retail` | `MCRetail` | `RetailProofs` | stock, gift cards and packages as shared counters |
| `SalonLedger` | (as a property of `Retail`) | `RetailProofs` | what a count promises: an abstract ledger |
| `Auth` | — | `AuthProofs` | token rotation, revocation, and the browser's `request()` |
| `Reminders` | `MCReminders` | `RemindersProofs` | beat, the queue, Celery workers, reminders and review requests |
| `Browser`, `Listing` | — | `RequestProofs` | requests of a page; lists that are loaded again |
| `Schedule` | `MCBusinessPages` | `BusinessPageProofs` | hours and leaves of the staff |
| `Till` | `MCBusinessPages` | `BusinessPageProofs` | the cart and its checkout |
| `Subscription` | `MCBusinessPages` | `BusinessPageProofs` | plans, the provider's window, activation |
| `BranchHours`, `BusinessForm` | `MCBusinessPages` | `BusinessPageProofs` | the settings page |
| `PackageSales` | `MCBusinessPages` | `BusinessPageProofs` | packages and the redemption of their sessions |
| `StockRoom`, `MembershipDesk`, `GiftCardDesk`, `EditorPage`, `CalendarPage`, `PaymentDesk`, `ReplyDesk`, `CustomerNotes` | `MCSitePages` | `SitePageProofs` | list pages of the business app, with their dialogs |
| `BookPage`, `ProfilePage` | `MCSitePages` | `SitePageProofs` | booking and profile of a customer |
| `VisitPages`, `Explore` | `MCSitePages` | `SitePageProofs` | bookings, cancellation and review; search |
| `Verification` | `MCSitePages` | `SitePageProofs` | the queue of the admins and the decisions of two of them |
| `Onboarding` | `MCSitePages` | `SitePageProofs` | the launch of a business |

`Availability` extends `Booking` and is checked with it in one run; `SlotLease` is
instantiated by `Booking` with a refinement mapping, and `SalonLedger` by `Retail`. The other models stand alone: what
they share is a status column, and each treats the other writers as an environment
(`CancelAppointment` and `ConfirmDeposit` in `Payment`, `CheckoutCompletes` in `Booking`,
`ChangeStatus` in `Reminders`). The page modules share the variables of `Browser`, of which
each gives `view`, `server` and `past` the shape of its page; `MCBusinessPages` and
`MCSitePages` are the disjunctions of their pages, and `MCPages` that of the two: one page is
mounted at the start.

Definitions under a `Mutant:` comment are not part of a specification. Each is a plausible
slip in the definition that follows it, and shows that a property notices.

### Booking

`pc[b]` says where the request `b` stands in `create_booking` (`booking_service.py:64-235`):
`lock` (SET NX EX for the next item), `check` (conflict query for that item), `build`
(totals, commission, flush), `release` (deletion of the keys), `commit` (get_db), and
`abort` (the except clause). `taken` and `freed` are the length of `lock_keys` and the
position of the running release loop. `status` is the committed column, `locks` the keys in
Redis, `edit` what each status-changing request has read and is about to write, `notice` the
confirmation task. `standing` and `kept` are history variables.

Faults are actions of their own: a lost reply of SET NX, a DEL that raises (in the success
path the except clause starts over with the whole list; in the except clause the rest is
left behind), any other exception, a worker that dies, a commit that fails. `EarlyExpiry`
lets Redis drop a key while its request still runs: the configured eviction policy is
`allkeys-lru`, and no request is promised to be done within the time-to-live.

### SlotLease

An abstract lease: an owner acquires a free key, gives it back, or abandons it; an
abandoned key only runs out. `Booking` maps `lease[b]` to the keys that the request `b` took
and has not deleted, and `orphans` to the other keys in Redis.

### Availability

`get_availability` (`availability_service.py`) changes nothing, so the module adds
operators, not actions: `Slots(s, v, d)` are the start times shown for a staff member, a
service and a date. Hours of staff and branch, breaks, leave, buffers, the 15-minute grid,
the windows of live visits and those of slot keys are all in it.

### Payment

`work[w]` is what a worker has read (`pays`, `confirm`, `signed`) and the step it is at.
Between its steps others commit and the gateway is called. `row`, `charge`
(`provider_payment_id`), `invoices`, `refunds` are committed rows; `paid`, `repaid`
and `hooks` are the gateway's. An order has one charge at the gateway, and a signature is
genuine only for a charge that was captured. `signed` is that charge, `NoCharge` for a
signature that is not genuine: `verify_and_capture` checks the order that the request names
(`payment_service.py:118-122`), not that of the row, so `StartVerify` takes any captured charge.
`refunds` and `repaid` are sets of refunds, each with the id
the provider gave it, its charge and its amount; the history variable `lost` has those whose request
died between the provider and the commit. A webhook stays in `hooks` once it was sent: the gateway may
deliver it late, again, or never.

### Retail

Stock, balance and open sessions are counters of one kind. `left` is the committed value and
`due` what the opening count and the committed movements leave. `tx[w]` is what a session has
loaded (`seen`) and changed (`change`). `shared` notes the counters that two requests had
open at once.

### SalonLedger

An abstract ledger: a count is a row and the sum of what is recorded for it. A request posts
all of its changes to both at once (`Post`), or leaves no trace; of a count that is not
`loose` it takes no more than there is, it never adds to a customer's credit, and it closes
packages only of which nothing is left. `Meet` and `TypeIn` make a count loose. `Retail`
maps `row` to `left`, `record` to `due` and `loose` to `shared`: sessions, with the values
they have loaded, are hidden.

### Auth

`call[c]` walks through `request()` in `api.ts`: sent, 401, `/auth/refresh` (look up the hash,
revoke, issue), new pair stored, sent again. Tokens are named by the second in which they
were issued: a JWT of this backend holds the user and whole seconds, so that two pairs of one
second are the same strings. `closed` and `revoked` are the Redis keys of access and refresh
tokens.

### Reminders

`Tick(sent)` moves the clock and lets beat enqueue the tasks that are due, or miss some.
`StartRun` reads the clock and the rows; `Send` mails one customer; `Commit` sets the flags of
all. `Fail` is the except clause with `self.retry`; `Crash` a worker that dies, whose task the
broker delivers again (`task_acks_late`) or not. `steady`, `late` and `overlapped` are history
variables: who qualified since a window opened, which tasks were not on time, and which ran
twice at once.

### Browser and Listing

`call[c]` is a request of the page: `sent`, then `served` (with `data`, a copy of what the
server read) or `failed`, then free again when its handler went on. `arg` is what the handler
had read when it sent it. The actions of the server are those of the page's module:
`Serve...` runs the endpoint in one step where the endpoint reads and commits one thing
(`VisitPages`, `Verification` and `Onboarding` split it). With `Faults`, `Lose` fails a
request before or after the server saw it. `view` is the React state, `server` the rows the
page is about, `past` a history variable of the page.

`Listing` adds what list pages have in common: `view.key` (filter, search, date, page of
results) and `view.rows`; `LoadList` is an effect on a changed key, `Reload` the load that a
handler sends after its request was answered, with the key of *its* render. `past.loads` has
the loads under way in their order, and `past.mixed` says that an answer overtook another
one, that a handler reloaded for an old key, or that something failed. `Current(rows)` is the
property of each list: with nothing under way and nothing mixed, it shows what is stored.

### Pages of the business app

- **Schedule** (`dashboard/schedule/page.tsx`): `view.schedules[s]` is the week that is shown
  of a person, with its `dirty` and `saving` marks. Edits, the presets and the copies between
  days, `SaveSchedule` of one and `SaveAll` of every unsaved person; a person whose hours
  could not be loaded gets the default week. `outdated` is the history: not loaded, or
  edited during a save.
  The leave tab is a second specification of the module (`LeaveSpec`), as the tabs share no
  state: leaves by person, and the form that adds one for whoever is selected when it is
  sent.
- **Till** (`pos/page.tsx` against `POSService.checkout`): `due` is the history variable: what
  is at the counter and not sold yet. Other terminals sell from the same stock.
- **Subscription** (`settings/subscription/page.tsx` and `subscription_service.py`): a
  checkout goes through order, script, window and verify, each with the arguments of the one
  before; the user may switch the period and start a second checkout meanwhile.
  Reading the current plan fails with two active rows.
- **BranchHours**, **BusinessForm** (`settings/page.tsx`): the hours of the selected branch in
  one form; the form over general and booking settings, filled from the session's copy
  (`AuthProvider.tsx`), which a refresh does not renew.
- **PackageSales** (`packages/page.tsx`): templates, sold packages, and `FirstAvailable`, which
  picks the line to redeem from loaded counts.
- **StockRoom**, **MembershipDesk**, **GiftCardDesk**, **PaymentDesk**, **ReplyDesk**,
  **CustomerNotes**, **CalendarPage**, **EditorPage** (services and staff): each a list with a
  key and with the dialogs, forms or buttons of the page, and the operation of the server
  behind each. `EditorPage` keeps for every row whose fields it holds (`of`), so that a dialog
  that writes to another row shows.
- **Onboarding** (`onboarding/page.tsx`): register, log in, create the business and refresh the
  session, one request after the other. `LoadAgain` loads the page again at any time, and
  leaves its requests without a handler.

### Pages of customers and admins

- **BookPage** (`book/page.tsx`): four steps that can be gone back, effects that load the staff
  of a service and the slots of a day, preselection from the link, and the booking. A slot
  carries its day, which is what is booked; the day of the page is what is shown.
- **VisitPages** (`bookings/page.tsx`, `bookings/[id]/page.tsx`, `review/page.tsx`): three pages
  that replace each other, while what was sent goes on. The server reads the visit in one step
  and writes in another.
- **ProfilePage** (`profile/page.tsx`, `AuthProvider.tsx`): every new copy of the user fills the
  form. **Explore** (`explore/page.tsx`): every change searches; the city of a search reaches
  the query and is not used there.
- **Verification** (`admin-web` `verification/page.tsx`, `verification_service.py`):
  `ReadDecision` checks the transition, `CommitDecision` writes the columns that differ from
  what was read. `verified` is `is_verified`; the status of the business is left out. `server.rival` is the decision of another admin; owners apply again at
  any time.

## 3. Runs

| run | module | checks |
|---|---|---|
| `booking_safety` | `MCAvailability` | CommittedBookingIsRespected, KnownCustomerCostsNoCommission, OnlyBookingsAreConfirmed, OfferedSlotIsAccepted |
| `booking_locks` | `MCBooking` | SlotLockIsHeldByOne, SlotLocksAreLeases, EveryRequestEnds, EverySlotLockIsFreed |
| `booking_double` | `MCBooking` | NoDoubleBooking is **violated** |
| `payment_safety` | `MCPayment` | SettledHasCharge, SettledHasInvoice, SettledIsNotPending; CapturedIsKeptUnlessRaced: a step undoes a capture only where a job had read the payment before |
| `payment_progress` | `MCPayment` | RefundsAreRecorded, PendingIsResolved |
| `payment_lost` | `MCPayment` | CapturedIsKept is **violated** |
| `retail_safety` | `MCRetail` | CreditIsKept, ExhaustedIsServed, SerialCountersMatch; LedgerIsKept: rows and records are the abstract ledger, in which nobody takes more than there is |
| `auth_safety` | `Auth` | SpentTokensAreDead, SerialCallsStaySignedIn |
| `reminders_safety` | `MCReminders` | FlaggedWasMailed, OneReminderPerSuccess, NobodyIsForgotten, OneRequestPerVisit, EveryVisitIsAskedAbout |
| `reminders_retry` | `MCReminders` | SafeToRetry is **violated** |
| `pages` | `MCPages` | types; of the business app SavedWeekIsStored, LeaveIsListedWithItsOwner, CartIsWhatIsDue, HoursStayWithTheirBranch, UntouchedFieldsAreStored, ActivatedAsOrdered, OfferedSessionIsServed; of the lists of all sites ListsAreCurrent, DialogsKeepToTheirRow; of customers and admins ShownDayIsBooked, ReviewedOnceAndCompleted, UntypedFormIsStored, VerifiedIsApproved, OwnerHasOneBusiness |
| `subscription_shown` | `Subscription` | OpenedPageShowsThePlan is **violated** |

The types of `Booking`, `Payment`, `Auth`, `Reminders`, `Retail` and of the pages of
`MCSitePages` are not run: they are proved (section 4). `ListsAreCurrent` and `DialogsKeepToTheirRow` put together what each of their
pages states for itself.

To run one: `tlc -workers 2 -config BookingSafety.cfg MCAvailability`.

### The violations

- **booking_double.** Request 1 takes the key, checks, builds, deletes the key. Request 2
  takes the key and checks: nothing is committed yet. Both commit. `docs/FRS.md:134` says
  "Double-booking prevented via Redis slot lock + transactional DB conflict check". Deleting
  the keys after the commit would close this trace, though not the others of section 5.
- **payment_lost.** Reconciliation reads a PENDING row; a verification commits CAPTURED;
  reconciliation commits CANCELLED. The customer paid.
- **reminders_retry.** A run of the reminders mails a customer and fails before its commit: the
  flag is rolled back, the mail is not, and the retry mails the customer again. Nothing is late,
  no two runs overlap. `tasks.py:2` says "all tasks must be idempotent" and `docs/FRS.md:135`
  "Celery tasks are idempotent (safe to retry)". OneReminderPerSuccess and OneRequestPerVisit
  say what is true instead: one mail more for each failed run.
- **subscription_shown.** A business upgrades, and upgrades again to another plan. The second
  activation adds an ACTIVE row and ends none, reading the current subscription asks for one
  or none and raises, and the plans page that is opened next falls back to STARTER.
  `subscription_service.py:215` says "Get the current active subscription for a business."

### Bounds, and why they are enough

- **Booking.** Two requests (three bodies: the same slot, one that overlaps it under another
  key, two items, one of them after a buffer) and one editor, one tick of the clock. Every
  conflict is between two appointments; an editor can free a slot and take it back (by way
  of RESCHEDULED) while either runs. `booking_locks` takes two keys in opposite orders, the
  case in which requests could wait for each other.
- **Availability.** Days of four units, two of them, so that visits of the first reach into
  the second; a staff member on leave, one with own hours, a break, a service with buffers.
- **Payment.** Two payments of one appointment, two workers: enough for two open orders and
  for any two handlers to race, and for one to be verified with the charge of the other; one
  refund is enough for what settles a payment. The refunds of `payment_progress` are of one
  payment worth two units, so that it may be refunded in parts. `RefundIds` are the ids of the
  provider: two of them let two refunds overlap, or one be made again after the first was lost
  in a crash. MaxInvoices only bounds how often a customer tries again.
- **Retail.** Two registers, one product, one card with a balance of two, one package of two
  services: two checkouts that share a counter, a cart that names it twice, and two
  redemptions that each see the other's item unused.
- **Auth.** Two calls; access tokens live for one second and refresh tokens for two, and the
  clock goes to three: expiry, rotation and the last second of each all occur.
- **Reminders.** One kind of reminder (the two kinds do not touch each other's flags), one visit
  whose window has beats on and inside its edges, one that ends at midnight
  (the exception of OneRequestPerVisit), two workers, one failure per task, one retry of the
  reminders and none of the review requests (which shows that a task keeps to its retries).
  Days of two units bring a run of the review requests before, on and after the day of
  each visit within the bound of the clock.
- **Pages.** Two requests of a page under way: every overlap that the history variables name
  (a load that overtakes a load, an edit or a second dialog during a save, two decisions) is
  one of two. Two rows where one must not be taken for another (staff, branches, entries,
  gift cards, receipts, reviews, customers, accounts), one where a row is only there or not.
  A day stands for the week in `Schedule`, whose presets treat days alike; two units of a good are enough
  for a cart that holds more than the stock. In `BookPage` one service has a stylist and the
  other has none. Requests, and the entries of `EditorPage`, are interchangeable, and
  TLC takes them as symmetric. The page is chosen in the initial state, as pages share
  nothing but rows.

Deadlock checking is off everywhere: with every request done and the clock at its bound
nothing has to happen. That requests do not wait for each other is checked as
EveryRequestEnds.

### Fairness

Only liveness runs use it; nothing is assumed of a user or of the network of a page, where
every property is one of safety. `Booking`: a request that can go on goes on until it ends or its
process dies (uvicorn schedules coroutines; every await has an answer, an error or a
timeout), Redis honours EX, the Celery worker empties its queue. No fairness is assumed of
customers, of crashes, or of a key being taken. `Payment`: started work goes on (weak);
the gateway repeats a webhook until it is answered, so that a webhook that can be
handled again and again is handled (strong); beat starts the reconciliation every so often
(strong: it may find nothing to do in between); rows age. Workers
may die at any step, and not every run of the reconciliation dies before its commit (strong).

## 4. Proofs

All theorems hold for every value of the constants that satisfies the ASSUMEs of the module,
for any number of requests, workers, rows and calls. TLC has checked each inductive
invariant first, on the instances of section 3.

| theorem | says | inductive invariant |
|---|---|---|
| `BookingProofs!TypeCorrect` | types and phases of requests | TypeOK |
| `BookingProofs!CommittedIsRespected` | no request commits over a visit that was live when it began and has been since | CalendarInv |
| `BookingProofs!NoCommissionForKnownCustomer` | the commission check misses no visit committed before the request began | CustomerInv |
| `BookingProofs!ConfirmationsAreOfBookings` | no mail about a booking that was not made | the property itself, with TypeOK |
| `BookingProofs!SlotLockMutex` | a slot key has one holder | LockInv |
| `BookingProofs!LocksAreLeases` | the slot keys implement `SlotLease` | LockInv, and a simulation |
| `BookingProofs!OfferedIsAccepted` | an offered slot would be accepted | follows from TypeOK |
| `PaymentProofs!TypeCorrect` | types; who works on which rows | TypeOK |
| `PaymentProofs!SettledPaymentsHaveCharges`, `SettledPaymentsHaveInvoices`, `SettledPaymentsConfirm` | what settled means | SettledInv |
| `PaymentProofs!RefundsHaveRows` | money paid back and refund rows agree, up to what a crash lost | RefundInv |
| `PaymentProofs!CapturedPaymentsAreKept` | a capture is undone only by a job that read the payment before it | TypeOK |
| `RetailProofs!TypeCorrect` | nobody takes more than their session sees | TypeOK |
| `RetailProofs!RetailInvariant`, `CustomersKeepCredit`, `ExhaustedPackagesAreServed`, `SerialLedgersMatch` | lost updates do not cost the customer; packages close when served; counters nobody shared match | RetailInv |
| `RetailProofs!LedgerIsKeptAlways` | rows and records implement `SalonLedger` | RetailInv, and a simulation |
| `AuthProofs!TypeCorrect` | types | TypeOK |
| `AuthProofs!SpentTokensStayDead` | a spent token is refused until its last second | SpentInv |
| `AuthProofs!SerialCallsSignedIn` | calls that do not overlap are never refused | SerialInv |
| `RemindersProofs!TypeCorrect` | what is queued and runs was due, within its retries | TypeOK |
| `RemindersProofs!FlaggedWereMailed` | a flag stands for a mail | MailInv |
| `RemindersProofs!RemindedOnce` | one reminder, and one more per failed run, unless runs overlap | SerialInv |
| `RemindersProofs!EverybodyIsReminded` | on time, no visit falls between two runs | PunctualInv |
| `RemindersProofs!EveryVisitIsAsked` | on time, a completed visit is asked about | AskInv |
| `RemindersProofs!RequestedOnce` | once, or twice after midnight, and once more per failure | OnceInv |
| `BusinessPageProofs!SavedWeekIsStoredAlways` | hours that are shown as saved are stored | ScheduleInv |
| `BusinessPageProofs!LeaveIsListedAlways` | a leave is listed with the person it is stored for | LeaveInv |
| `BusinessPageProofs!CartIsDueAlways` | goods in the cart were not sold yet | TillInv |
| `BusinessPageProofs!ActivatedAsOrderedAlways` | a subscription is what was ordered and paid | SubscriptionInv |
| `BusinessPageProofs!UntouchedFieldsAreStoredAlways` | a field nobody typed in is what is stored | SettingsInv |
| `BusinessPageProofs!HoursStayWithTheirBranchAlways` | a branch keeps its own hours | HoursInv |
| `BusinessPageProofs!OfferedSessionIsServedAlways` | a session that is offered is redeemed | PackInv |
| `BusinessPageProofs!PagesKeepTheirTypes` | types of seven pages, their requests and answers | PagesInv |
| `SitePageProofs!SitePagesKeepTheirTypes` | types of fifteen pages, their requests and answers | SiteTypesInv |
| `SitePageProofs!ListsAreCurrentAlways` | each of ten lists shows what is stored | ListsInv |
| `SitePageProofs!DialogsKeepToTheirRowAlways` | what is typed for a row is stored for it | ListsInv |
| `SitePageProofs!ShownDayIsBookedAlways` | the day that is shown is the day of the slot | BookInv |
| `SitePageProofs!UntypedFormIsStoredAlways` | a form nobody typed in is what is stored | ProfileInv |
| `SitePageProofs!ReviewsAreOfCompletedVisits` | one review, of a visit that stays completed | VisitInv |
| `SitePageProofs!OneBusinessOfAnOwner` | an account founds one business, the one described | OnboardingInv |
| `SitePageProofs!VerifiedIsApprovedAlways` | verified just when approved | VerificationInv |

Why the invariants have to be strengthened:

- **CalendarInv.** What is committed was compared with the calendar earlier, item by item. The
  invariant carries the comparison: the items a running request has checked avoid every row
  in `standing`, which only shrinks. It needs no lock at all: `CommittedIsRespected` holds with
  evicted keys. It also says where the protection ends: a row committed *after* the request
  began is not in `standing`.
- **LockInv.** DEL does not ask who set a key, so that mutual exclusion is an invariant of the
  whole release loop: the keys a request has still to delete are present, pairwise
  different, and claimed by no other. It is false with `EarlyExpiry` or `RedisFaults`, and
  the two theorems assume them away; `booking_safety` shows what holds with them. For
  `LocksAreLeases` each step maps to a step of `SlotLease`, or to none: release deletes
  a key of the releasing request, a crash turns its keys into orphans.
- **SettledInv.** A job that is about to write carries what it has read; the invariant says that
  this is still true, or no longer matters, at the commit. The webhook settles a payment
  without an invoice: it finds only rows that name a `charge`, and these have one.
- **RefundInv.** The money moves one step before the row, so the property alone does not survive
  the commit: two requests that were given the same refund, or one that the provider has already
  made, would both book it. The invariant says that ids are handed to one request each, and
  that a request which has not called yet holds an id nobody was paid for.
- **RetailInv.** A session that overwrites another's update takes from a value at least as large
  as what the records leave, so the row stays above the ledger: the
  customer gains. For `LedgerIsKeptAlways` a commit maps to one `Post`: a session that has a
  counter to itself has seen the row as it is (`IsAlone`), so that what it adds to the row is
  what it adds to the records; opening a counter maps to `Meet` or to no step.
- **SpentInv, SerialInv (Auth).** A revoked token is older than the stored pair, and a call only
  comes to refresh in a later second than that of the pair: the token it gets is new. This
  fails for logins within one second of each other.
- **MailInv, SerialInv, PunctualInv (Reminders).** A run holds who it mailed and who it will. A
  mail is accounted for by a flag, by the one run under way, or by a failed run. A visit
  whose task was enqueued within its window is flagged, or in the hands of a run, or its task
  still waits and will find it, because the clock may not move before it is done.
  `BeatAssumption` (some beat falls in every window) is what 30 and 15 minutes against a
  half-width of 15 provide.
- **AskInv, OnceInv (Reminders).** A review request has no flag, only the date. AskInv says who
  still has a visit in hand at the hour of its run. OnceInv counts: mails, and the one a run
  may be about to send, are covered by a budget of one for each run whose *yesterday*
  includes the end of the visit (two, when it ends at midnight) and one for each failure. It
  rests on one task waiting or running at a time, at the moment it was queued for, and on
  lemmas about `\div` and `%` (`DivMod`, `ModUnique`): a day has one such hour, and an end lies
  in one day, or on the edge of two.
- **Lists.** HoursInv, PackInv and ListsInv speak of the loads under way as a queue. When nothing is
  mixed up, either the list shows what is stored, or the *newest* load is for the key that
  is set and has not been overtaken by a change, or a change was answered and its handler is
  about to load again (`UpToDate` in `RequestProofs`; `ListPage` says that `past.loads` holds each
  load under way once). A key that changes, a load that is answered, refused or lost, and
  a row that changes preserve this for any list: these lemmas are proved once, and each of
  the ten pages only shows what its handlers do to `view`. ListsInv adds what the dialogs
  need: rows, answers, forms and requests hold what was typed for the entry (EditorInv), review
  (ReplyInv) or customer (NotesInv) they are filed under, and one refund is under way, of the
  payment whose button is disabled (PaymentsInv). A looked-up card has a queue of its own
  (DeskInv).
- **Pages.** A property of what is shown says nothing of requests under way, so each invariant
  adds what these carry. ScheduleInv: the week in a save is the week on the page unless it
  was edited since, one that was served is stored, and nothing is saved during the load.
  LeaveInv: nobody shares a leave, an answer holds a leave of the person it is
  for, and a stored leave that is not listed is on its way. TillInv: at most one sale is
  under way, and it is the sale of the cart. SubscriptionInv: every step of a checkout
  carries the plan and period of its order. BookInv: the question under way and the slots on
  the page are about the selected day. ProfileInv: one save at a time, up to the copy that
  fills the form. VerificationInv: a decision that has read holds the row as it is, which
  only a decision leaves. SettingsInv: one save is under way at a time, and an untouched field is
  what it was sent with. VisitInv: a status that was read and not yet written is one the
  visit can still take, and what is shown or asked for because the visit was completed is
  about a completed one. OnboardingInv: launches under way are of different accounts that have
  no business, and carry the name meant for theirs. The conditions that the properties name (`outdated`,
  `meddled`, `past.overlap`, `past.raced`, ...) appear in the invariants as they are: they are where the code's protection
  ends. The assumptions are that the constants are what
  they stand for (`ScheduleAssumption`, `TillAssumption`, ...) and that null is none of the values
  (`EntryAssumption`, `PurchaseAssumption`).

- **Types of the pages.** A handler goes on with what its request holds, so the types of `view` and
  `server` are not inductive without those of the requests: `Typed(args, results)` in
  `RequestProofs` says, for each kind of request, what it was sent with and what it is answered
  with, nothing included, which is more than the type invariant of a page tells apart.
  `PageTyped` adds the view, the rows and the queue of loads of a page with a list, and has one
  lemma for each step of `Browser` and `Listing`. Some pages need more. A booking request is sent from the
  last step only, where a service and a slot are chosen (`BookSeen`); a launch from the third form,
  with the two before it filled in (`Described`); a decision from its dialog, for the business
  that it is open for. The editors, the profile, the visits, the verification queue and the
  onboarding take what they need of their view and rows from the invariants above. PagesInv and SiteTypesInv say this of whichever page is mounted.

Proof structure: a type lemma per action, then one lemma per action and invariant, and
a PTL step that puts them together. Steps of one action are first described by an "effect"
lemma (`SendEffect`, `AbortEffect`, ...), which the invariants share.

`RequestProofs` holds what all pages share: records of requests and what each step leaves of
them (`AnswerEffect`, `LoseEffect`, ...), queues that grow at one end and shrink anywhere
(`QueueGrows`, `QueueShrinks`), and the lists. Fields of a record are read off by name
(`HasFields`) where a page has more of them than its proof needs.

Only model-checked:

- the liveness properties (EveryRequestEnds, EverySlotLockIsFreed, PendingIsResolved): TLAPS has
  neither ENABLED nor fairness.

Every safety invariant and action property of the passing runs is a theorem.

## 5. What the code does not protect

These traces are behaviours of the models. Only those that section 3 lists as
violations have a run that shows them, next to the document that promises the contrary. Of the
others some are against a document too, which is then named; the rest are listed because a team
would want to know.

**Booking.** Windows that overlap but start at different times, or whose start is spelled
with another UTC offset, have different keys. The items of one request are not checked
against each other. CONFIRMED → RESCHEDULED frees a slot and RESCHEDULED → CONFIRMED takes it
back unchecked. Two status changes that both read CONFIRMED can take a visit from CANCELLED to
IN_PROGRESS, and a checkout completes a cancelled one. The booking itself checks
neither hours nor leave nor buffers: only availability does. The confirmation task can run
before the commit; then no mail is sent, and there is no second attempt.

**Availability.** A staff member who is closed on a weekday gets the hours of the branch. A visit
that began before midnight is looked for on its first date only: the next day offers slots
that it covers, and booking refuses them. A slot whose keys were deleted but whose visit is not
committed yet is offered.

**Payments.** The captured webhook looks a row up by `provider_payment_id`, which only the
verification sets: for a customer who paid and closed the browser it never finds the row,
however often it is repeated, and the row is cancelled after its thirty minutes. Two open
orders of one appointment can both be paid and captured (and with two open rows a third
order raises). A verification checks the signature of the order that the request
names, and never compares that order with the row (`payment_service.py:118-122`): the genuine
signature of one paid order settles another payment that nobody paid, and its appointment is
confirmed. The file calls the check "the ONLY way to confirm a payment" (line 99), and
`docs/FRS.md:124` says that the frontend is never trusted; what holds is SettledHasCharge. A rejected signature writes FAILED and then rolls it back. The
deposit endpoint confirms without a payment. A partial refund sets REFUNDED, and a
refunded payment can be verified again. A worker that dies after the gateway paid a
refund back leaves no row, and the payment can be refunded once more: RefundsAreRecorded says
that this is the only way to lose one (`lost`).

**Retail.** Two redemptions of the last two items of a package each miss the other and leave it
ACTIVE though used up. An expired package is marked EXPIRED and rolled back with the
exception. A checkout takes gift cards without looking at `is_active` and expiry. An owner can
type in a negative stock, and no movement is written for it. A template with the same service
twice hides its second item from redemptions.

**Authentication.** Two calls of one page get a 401 and both refresh; the second finds the
token revoked, removes the pair that the first has stored, and sends the customer to login.
Two overlapping exchanges of one refresh token both succeed if both look it up
before either revokes it. A logout that meets an expired access token is refreshed and sent
again, with the old refresh token in its body: the new pair is removed from the browser and
never revoked. When Redis evicts keys (`allkeys-lru`), revocations are forgotten.

**Reminders.** A run that waits for a worker looks at the clock when it starts: the visits of its
own window may be lost, and two review runs can come to the same date. Two overlapping runs
both mail. A run that fails after its first mail rolls the flags back and not the mail, and
its retry mails again (`reminders_retry`). A provider that fails is logged, and the flag is set all the same. A visit that is
cancelled after the query is still reminded of. A visit that ends at midnight is asked about
twice, because both ends of *yesterday* are taken in.

**Schedule, leaves.** The answer of a save marks the week as saved as it is by then: an edit
made meanwhile looks saved and is not. A person whose hours could not be loaded is shown the
default week, and Save stores it over the real one. A leave added while the leaves load
disappears from the list when they arrive.

**Till.** A checkout whose answer is lost was carried out and leaves the cart, ready to be
sold again. A cart that is changed during a sale is emptied with it. The number of units can
be raised beyond the stock that is shown, which the server refuses.

**Settings.** The hours of the branch before stay in the form until those of the next arrive, or
for good if they cannot be loaded, and Save writes them to the branch that is selected.
The session of the business app keeps its old copy of the business through a refresh
(`AuthProvider.tsx:44`): a settings page opened again shows the values from before the last save, and
saving any of them writes all of them back. The form takes an empty link, the server
none: it can be saved only with all three links filled in.

**Plans.** Besides the run: a customer who paid and closed the page before the verification has no
subscription, as nothing else activates one.

**Packages, memberships.** Both pages ask for customers at `GET /customers`, which the server
does not have: nobody can be chosen in their dialogs. "Redeem 1" does not look at what is
under way: a second click asks for the same line, or, after a reload, for the next session.

**Lists.** A load that is answered last is shown, whatever filter, search or date it was for. In
the inventory, a handler reloads with the filters of the render it was made in. A search for businesses takes a city and
ignores it (`business_repo.py:41-73`): the businesses of every city are shown, where
`docs/FRS.md:37` says "I can filter businesses by city"; ResultsAreOfTheSearch is about the words
and the category. The customers of a business are paged first and searched then
(`api/v1/customers.py:141-192`): the search looks at one page of all customers, those it would
find on later pages are missing, and the total and the pager count everyone; the page lists
what this search answers, which is all that NotesStayWithTheirClient says of it. The staff
dialog sends an empty e-mail, which the server refuses.

**Dialogs and panels.** The answer of a save closes the dialog that is open by then, or (customers)
puts the customer it was about back beside the notes typed about another: saving these
writes them under the wrong name. The refund of a second payment lets the first be clicked
again; the server decides.

**Visits.** Two reviews of one visit sent at once are both checked before either commits, and every
later check of that visit raises. A visit that is read as CONFIRMED by a cancellation and
by the desk ends as whoever commits last says, and may be reviewed though cancelled.

**Booking page.** Slots of the day chosen before can arrive after those of the next; the slot that is
chosen then is of another day than the page says, and the slot is what is booked.

**Verification.** Two admins who both read UNDER_REVIEW may approve and reject: since only changed
columns are written, a rejected application may leave the business verified. The status of a
business says nothing of its application: it is ACTIVE from the creation on
(`business_service.py:65`), and a rejection does not touch it, where the docstring has "status
remains PENDING (not yet active)" (`verification_service.py:121`). So businesses are
searched and booked before anybody has reviewed them.

**Onboarding.** The page registers the account first. When a later request fails, the account has no
business, and a second try is refused because the account exists. Nothing is founded twice,
which is what OwnerHasOneBusiness says, but nothing more is founded either.

## 6. Abstractions, and what is not modelled

- **Data.** Amounts, names, addresses and templates do not appear unless a property tells them
  apart. Times are small numbers; a unit is whatever makes the windows of the code whole.
- **Booking.** Services, staff and prices are resolved when the request begins. An appointment
  keeps its times; `RESCHEDULED` is a status (the code has no endpoint that moves an
  appointment). Hours and leave are constants of `Availability`.
- **Payment.** The gateway is Razorpay; the mock provider, which takes any payment id, is left
  out. An order is paid once, so a charge is named by the row of its order. Refund rows are summed,
  and their status, which only `refund.processed` writes, is left out.
- **Verification.** The status of a business, which no decision but an approval writes, and which is
  ACTIVE by then unless an admin has edited the business.
- **Retail.** The status of a package and the items are read in one step. The reasons of a refusal
  are left out: any request may be refused at any time. Catalogue, discounts and taxes are not
  modelled; the appointment that a checkout completes is part of `Booking`.
- **Auth.** A login is one step, at most one in a second. A call may be sent without a token.
  Eviction by Redis is left out: with it nothing could be said.
- **Reminders.** Statuses are CONFIRMED, COMPLETED and others. Visits are not moved.
- **Pages.** Texts, prices, times within a day and layout are left out; a form field is empty, or
  holds one of few contents. A page is left only where its module says so. Everybody is signed in
  (`Auth` has the tokens), with one business selected. Endpoints answer in one step, except
  those whose reads and writes are told apart in section 2.
- **Not modelled:**
  - access control (`core/deps.py`, `core/permissions.py`): stateless checks of the caller;
  - reports and dashboards: read-only aggregates and their charts;
  - administration: listings, and edits of one row with its audit row in one transaction; the pages are
    lists of the kind that `Listing` models;
  - uploads: transfers to a storage provider; the schema and its migrations, whose unique
    indexes are guards of the models where the code relies on them;
  - login and registration forms, which send one request; public pages of a business, invoices
    and static pages, which load and show; `packages/`, which has components and types, and
    a client that no app uses.
- **In part:** `PROJECT.json` says of each component what is left out of it. The larger gaps are the
  `refund.processed` webhook, discounts and taxes of a checkout, expiry dates of packages and gift cards,
  trials and plan limits, and the mails and log of a decision on an application.

## 7. Plan

Done: the backend (`Booking`, `SlotLease`, `Payment`, `Retail`, `Auth`, `Availability`,
`Reminders`), and the pages with the parts of the server behind them, each as far as section
6 says. Every safety invariant and action property of the passing runs is proved, and so are
the types of all modules with a state.

What would add most from here:

1. **Proofs**: where the protection of `Booking` and `Subscription` ends, as theorems: two visits overlap only if
   their requests did, and a plan is shown wrongly only after a second activation.
2. **Composition**: `BookPage` over `Booking` and `Availability`, and `Till` over `Retail`, so that
   what the page shows is tied to what several customers do at once, not to any answer.
3. **Refinement**: an abstract deposit (asked, paid, kept or returned) that `Payment` implements as far
   as it does.
4. **Payment**: the `refund.processed` webhook and the status of a refund row.
5. **Disagreements**: runs for those of section 5 that are against a document and have none: a
   payment settled with the signature of another order, the city of a search, the status of
   businesses that were not approved.
