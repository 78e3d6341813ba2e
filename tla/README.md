# TLA+ models of the airline ticket system

TLA+ specifications of the ticket system (Django, PostgreSQL) that is kept in `src/`, the TLC
configurations that check them and the TLAPS proofs about them. The models are translated from the
code; where the code and its documentation disagree, the model follows the code and the
disagreement is listed under *Findings*.

- [Inventory of the system](#inventory-of-the-system)
- [Modules](#modules)
- [How the models correspond to the code](#how-the-models-correspond-to-the-code)
- [Runs](#runs)
- [Findings](#findings)
- [Proofs](#proofs)
- [What is not modelled](#what-is-not-modelled)
- [Plan](#plan)

To check a configuration: `tlc -config Booking_sale.cfg MCBooking`. To check the proofs of a
module: `tlapm BookingProofs.tla`.

## Inventory of the system

The system is a set of web-server processes and cron jobs that share one PostgreSQL database
(READ COMMITTED). Nothing else is shared; the cache that counts wrong codes is one more table of it. Components
call one another as Python functions inside one request; they *interact* through rows and row
locks. The hard part is therefore nearly always the same: a transaction reads a row, decides, waits
for a lock, and writes, while others do the same in another order; and a loop or a page that
consists of several transactions stops half way.

| Component | State | Operations | Talks to | Hard behaviour | What makes it correct |
|---|---|---|---|---|---|
| Booking core (`tickets/services.py`) | `Reservation`, `ReservationSeat`, `Passenger`, `Seat.is_available`, `SeatClass.available_seats` | hold seats, pay, cancel, expire, warn, cancel a flight with refunds | wallet, notifications, flights | every pair of operations races for a reservation, a class or a wallet; deadlines pass between a check and a commit; loops of transactions | a seat is in at most one sale; counters and flags follow the links; money moves exactly with the status; a hold ends; a cancelled flight is refunded |
| Booking pages (`tickets/views.py`) | what the user's tabs show; `Passenger` | number of seats, seat map, passengers, payment, reservation, cancel button, list, with lazy expiry and redirects between them | booking core | old tabs, double submits, forms rendered before something changed; a national id is checked against reservations no lock protects | all passengers or none; what is cancelled stays; a page is true when it is shown; every click ends on a page |
| Wallet and ledger (`accounts/models.py`) | `wallet_balance`, `WalletTransaction` | deposit, withdraw, refund | booking core, top-up page | lost updates | never negative; the ledger explains the balance |
| Top-up page (`accounts/views.py`) | - | deposit, then notification | wallet, notifications | two transactions, a crash in between | a top-up is told |
| Profile and verification (`accounts/views.py`, `forms.py`, `models.py`) | user row, link and code rows, cached attempts | edit profile, send and use links and codes | wallet (same row!) | no transaction and no lock: every statement commits by itself; a count is read and then written | a verified address was proven; only the latest link is valid; guessing is limited |
| Flight status sync (`flights/services.py`, middleware, command) | `Flight.status` | scheduled -> active -> completed | - | two UPDATEs against cancellations | statuses only go forward |
| Seat inventory (`flights/services.py`, recount command) | `Seat`, `SeatClass.capacity`, `available_seats` | generate seats, grow, shrink, recount | booking core | capacities change while seats are sold | as many seats as capacity; no shared rows; booked seats stay; the recount repairs |
| Staff dashboard (`dashboard/`) | - | create and edit flights, classes and capacities, generate seats, cancel flights, reports | inventory, booking core | locks and values that were read before them; a cancellation of several transactions that dies half way; sums over columns that outlive a payment | as for the inventory; everyone is refunded in the end; a cancelled flight stays so; revenue is the money that moved |
| Flight administration (`flights/admin.py`) | - | edit classes and flights, move classes to another flight, delete both, delete classes with their reservations, cancel flights | inventory, booking core | edits from a row that was read without a lock; a whole page in one transaction; deletions that lock children first; a class that is counted and then deleted | as for the inventory; paid reservations are never deleted |
| Row locks (all of the above) | PostgreSQL's lock table | - | - | lock order, which three pages of the Django admin do not keep | no deadlock among all others; everybody is served |
| Notifications (`notifications/`) | `Notification` with a dedupe key | notify, read, mark, clean up | called by all | reported twice or by two processes, rolled back, deleted and reported again | told once, and exactly what committed |
| Flight search (`flights/views.py`) | - | flights with enough seats for a group | booking pages | - | hides nothing that could be booked |
| Admin of tickets, accounts and notifications (`*/admin.py`) | - | staff edit a user's addresses, verified flags and rights, everything but the balance, and delete users without reservations; the rest is read-only | wallet (same row!) | edits from a copy; a deletion of several users | - |
| Templates, static files, logging, settings | - | queries | - | - | - |

`PROJECT.json` lists the same components with their sources, and under `hazards` every place in
this code where something can go wrong that a unit test would hardly reach.

## Modules

| Module | Lines of the system | Contents |
|---|---|---|
| `Booking` | booking core, passenger step, wallet, top-up, status sync | the state machine of the core; EXTENDS only standard modules and has no RECURSIVE operator, so that it can be proved about |
| `SeatSale` | - | the abstract specification: what a sale of seats promises, without locks, requests or time |
| `BookingSafety` | - | the properties of `Booking`, and `Sale == INSTANCE SeatSale WITH ...`, the refinement mapping |
| `Inventory`, `InventorySafety` | seats of one flight: generation, capacities, recount, both kinds of edits | state machine and properties |
| `LockOrder` | the reservations, flights, classes and users a transaction locks, in order: `Usual` for customers, dashboard, commands and the admin's saves, and the three admin pages that do not follow the order | state machine and properties |
| `Account`, `AccountSafety` | profile, links, codes, lockout, the balance in the user's row | state machine and properties |
| `BookingPages` | the pages of a booking and the redirects between them, `has_adjacent_block`, the search | state machine, in several tabs of one user, and its properties |
| `FlightDesk` | the flight forms, the cancel button, deleting a class, the status sync | state machine and properties |
| `Notifications` | `notify`, its callers, reading, clean-up | state machine and properties |
| `Reports` | the sums and tabs of the manager's pages | operators over `Booking`'s state and their property |
| `MCBooking`, `MCInventory`, `MCLockOrder`, `MCAccount`, `MCBookingPages`, `MCFlightDesk`, `MCNotifications` | - | constants of the instances TLC checks |
| `BookingProofs` | - | types, and that what a transaction read stays true; seats and counters; `Booking` implements `SeatSale` |
| `BookingRuleProofs` | - | ledger, limit of pending reservations, money, notifications and passengers of a reservation, refunds of swept flights; sums over finite sets and the managers' reports |
| `LockOrderProofs` | - | the lock order of `Usual`, and that nobody waits in a circle |
| `InventoryProofs` | - | the safety properties of `Inventory`, and what generation and synchronisation make of a cabin |
| `AccountProofs` | - | the safety properties of `Account` |
| `NotificationProofs`, `FlightDeskProofs`, `BookingPageProofs` | - | the safety properties of the three modules |

How the modules divide the work: `Booking` has every transaction lock by lock, with money, for
what happens *to a reservation*. The others take from it what they need in larger steps and go
into what it leaves out. `Inventory` uses what `Booking` establishes: there a customer's booking and release are one step
each, which needs the lock of the class. `Booking` has these transactions lock by lock, and
`ReadsStayTrue` (proved) says that nobody changes what they read under that lock before they
commit, so that they can be taken as one step. A payment does not lock the class and stays two
steps in `Inventory`. `LockOrder` forgets everything but the locks. `FlightDesk` keeps a hold and a payment in
two steps each, because a manager's form may commit between them, and drops seats and money.
`BookingPages` has one user's requests as single steps, except the passenger form, and adds what
no transaction knows: the page the user is looking at. `Notifications` has the events of
`Booking` and of the top-up page with only their transaction, and adds the rows' later life.

Operators whose comment begins with *Fault* are wrong versions of the operator that follows
(a forgotten lock, a missing check, ...). No action uses them; replacing the right one by the
wrong one shows that a property notices it.

## How the models correspond to the code

`map` in `PROJECT.json` gives the lines of every definition. The conventions:

**Transactions (`Booking`, `Inventory`).** `SELECT ... FOR UPDATE` that waits is where a
transaction can be overtaken, so a transaction is cut there: one action takes a lock and reads all
that the code reads until the next lock; the last action commits all its writes and gives all
locks back. `txn[w]` is what the Python function has in local variables, `pc` the lock it goes for
next. Under READ COMMITTED nobody sees writes before the commit, so moving all writes to it loses
nothing; reads of unlocked rows are where the model lets others come in between. The clock is read at the
commit, where the code reads it a moment before: `settledAt` is a history of the commit, while the column
`paid_at` may show a time before the deadline of a payment that committed after it, and is only ever tested
for being set (otherwise it is shown); a hold's `deadline` is that much later in the model. A refused request writes
nothing and is not a step; a `ROLLBACK` that gives locks back is. Seat rows are only locked under the lock of
their class and have no lock of their own in the model.

| `Booking` | Code |
|---|---|
| `LockClassForBooking`, `LockUserForBooking`, `CommitBooking` | `create_pending_reservation`: checks of flight, counter, seats and side-by-side under the class lock; the limit under the user lock; the writes. `ReservationSeat.seat` is unique: a linked seat aborts the commit |
| `LockReservationForPayment`, `LockUserForPayment`, `CommitPayment` | `pay_reservation` with `withdraw`; an overdue hold turns into a release with reason TIMEOUT |
| `LockReservationForCancel`, `ListOverdue`/`ExpireNext`, `CancelFlight`/`ListForSweep`/`SweepNext`/`SweepFails` | `cancel_reservation`; `expire_pending_reservations` and the lazy expiry of the pages; `cancel_flight_and_refund` with its three passes and the failed bookings it skips |
| `LockClassForRelease`, `LockUserForRefund`, `CommitRelease` | `_cancel_locked`, refund and notification: common to the four callers above |
| `LockReservationForPassengers`, `LockFlightForPassengers`, `CommitPassengers` | `AddPassengersView.post` |
| `LockUserForTopUp`, `CommitTopUp`, `TellTopUp` | `DepositView`: the notification is a second transaction |
| `ListExpiring`, `WarnNext` | `warn_expiring_reservations` |
| `ActivateFlights`, `CompleteFlights` | the two UPDATEs of `sync_flight_statuses`, with one clock value |
| `Crash`, `Tick` | a process dies, or the database ends its transaction; `timezone.now()` advances |

Prices are integers in hundredths; `RoundHalfEven` is what `Decimal.quantize` does to the refund
percentage. `job[w]` is the loop a worker is in; the order in which a loop goes through its
list is left open. `swept` and `notes` are what the manager and the users have been told.

| `Inventory` | Code |
|---|---|
| `Generated`, `ToAdd`, `ToRemove`, `Synced`, `Resynced` | `generate_seats_for_flight`, `sync_seats_with_capacity`, `resync_flight_seats`: where new seats go, which ones are removed |
| `GenerateRead`, `GenerateInsert` | the page that generates seats: locks the Flight, reads the classes without a lock, inserts (the foreign key waits for the class) |
| `EditLockFlight`, `EditLockClass`, `EditRead`, `SaveClasses` | `FlightEditView.post`: Flight, classes by primary key, forms, save |
| `AdminRead`, `AdminUpdate`, `SaveClasses` | `SeatClassAdmin`: the form is checked against a row that is not locked |
| `RecountBegin`, `RecountExpire`, `RecountSum`, `RecountFlags` | the recount command, whose query of holding reservations runs twice |
| `Book`, `BeginPay`, `FinishPay`, `Lapse`, `Release` | customers; `available_seats <= capacity` is a constraint of the table (`CanGiveBack`) |
| `HandEdit` | the direct edit of the database that the command's help text names as its reason |

Row and column of a seat are one number, `place`: seats are filled one after the other.

| `BookingPages` | Code |
|---|---|
| `Visit`, `tab` | an address the user opens, follows or has kept; a tab *shows* a page or *asks* for one. The answer to a GET is the page or a redirect, which is again a request |
| `GetCreate`, `PostCreate`, `GetSeats`, `PostSeats` | `ReservationCreateView`, `SeatSelectionView`: `check_can_book`, `has_adjacent_block` (`Runs`), `get_seats_count` (`Clamped`), the hold (`CanHold`) |
| `GetPassengers`, `PostPassengers`, `SavePassengers` | `AddPassengersView`: guard, stale form, `PassengerBaseFormSet.clean`, the rows saved one after another under `unique (reservation, national_id)` (`SaveFails`); the commit is a step of its own, and until then the tab waits |
| `GetPayment`, `PostPayment` | `PaymentView` with the redirect for each `PayResult`; whether the wallet suffices is open |
| `GetDetail`, `PressCancel`, `GetList` | `ReservationDetailView`, `ReservationCancelView`, `ReservationListView`, with lazy expiry (`ExpireInstead`) |
| `OthersTake`, `OthersGiveBack`, `CancelFlight`, `SweepOne`, `Tick` | everybody else |

A post whose answer is the same page with an error message is no step.

| `FlightDesk` | Code |
|---|---|
| `CreateFlight`, `EditFlight` | `FlightCreateView.post`, `FlightEditView.post`: whatever was typed (`Posted`) is judged by what is read under the locks of flight and classes; `on_delete=PROTECT` of a class with reservations refuses the form |
| `PressCancel`, `BeginCancel`, `ListActive`, `SweepNext`, `SweepFails` | the cancel button with the conditions under which it is shown, and `cancel_flight_and_refund`, which an edit to CANCELLED also starts, after its own commit |
| `PressDelete`, `ReleaseNext`, `CountForDelete`, `DeleteClass` | `force_delete_seat_class`: overdue holds are released in transactions of their own, then what is in the way is counted under the class lock, then the class goes with its other reservations |
| `BeginHold`/`CommitHold`, `BeginPay`/`CommitPay`, `Rollback`, `Release` | customers, see above |
| `SyncActive`, `SyncCompleted` | `sync_flight_statuses` |
| `Crash` | the process of a manager's request dies between two of its transactions, or in one |

| `Notifications` | Code |
|---|---|
| `Begin`, `Notify`, `Commit` | an event that reports itself in its transaction: the INSERT in a savepoint, which may find its key (`known`) or fail, and becomes visible with the commit |
| `TopUp`, `TellTopUp` | `DepositView`, after the commit |
| `ListExpiring`, `Warn` | `warn_expiring_reservations`, maybe in two processes at once |
| `MarkRead`, `MarkAllRead`, `DeleteReadOlderThan` | the pages and the clean-up of `notifications/services.py` |
| `GiveUp` | an exception, or the end of the process |

`told` is a history variable. `Reports` has no actions: every state of `Booking` is a moment at which
a manager may open a page; `Gross`, `Refunded`, `Net` are `reservation_financials`, and `LedgerSum`, the
other side of the equation, is counted in the wallets' ledgers.

`LockOrder`: a transaction is a sequence of rows (`plan`). `Usual` enumerates them for customers, the
dashboard, the commands and the saves of the Django admin. Classes of a flight may come in any order, because some
queries have none. `Sync`, the status sync's UPDATE of several flights, meets them in the order of a
scan, `ScanOrder`, of which only is assumed that it is the same for every such UPDATE; different query plans could in
principle differ. `Ops` adds what does not follow the order: `AdminCancel`, `AdminDelete` (Django deletes
children first, and rows of a table in any order) and `AdminMove` (a class is saved with another flight, which its
foreign key locks at the commit). Seats are only locked by who holds their class, except by
the admin's deletions, which come to the seats before the class: so even the deletion of one class can deadlock with
a booking. Rows of other tables and waits for a unique key are left out.

`Account`: these views open no transaction, so a request is the list of statements it has still to
execute (`todo`), each committed by itself, with the copy of the user's row it read at its start. A wrong
code is counted in two of them, `ReadAttempts` and `WriteAttempts`: the configured `DatabaseCache` inherits
`BaseCache.incr`, which is a `get` and then a `set`. `tried` (wrong codes answered since the count began) and `proven` are history
variables. The balance, kept by locked transactions elsewhere (`Booking`), is one column of the same row.

## Runs

Every run is one configuration. States are distinct states; times are on two cores.

| Run | Shows | States |
|---|---|---|
| `sale` | two users, two workers of which any may die, two classes (two neighbouring seats, and one seat), everything a customer and the expiry job do: types, seats, counters, charge and refund, limit of pending reservations, one person per flight except after a late payment, reads that stay true; every commit is a step of `SeatSale` | 142,214 |
| `flight` | the flight is cancelled, with failing reservations and again, while its seats are sold, paid and cancelled and the status sync runs: everybody paid has the whole price back once no failure is reported, the ledger is unbroken, nobody is told what did not happen, and the manager's reports are what the ledgers say at every moment | 264,765 |
| `progress` | liveness: every hold ends | 8,494 |
| `inventory_dashboard` | two managers, two classes, dashboard edits and generation: counter, flags and links agree; number of seats, rows, booked seats | 167,362 |
| `inventory_recount` | the recount repairs a class that was edited by hand or through the admin, while customers go on and deadlines pass | 390,978 |
| `lockorder_locks` | three processes, two flights, everything in `Usual`: nobody waits in a circle, and every transaction ends | 152,206 |
| `account_requests` | one profile page after another while codes are guessed, the wallet changes and a process dies: verified addresses are proven, one valid link, guesses stay bounded though counts are lost | 390,065 |
| `notifications_inbox` | a payment, a top-up and two reservations that expire, two processes, a user who reads and a clean-up: told once, exactly what committed, and what was read stays read | 191,286 |
| `flightdesk_desk` | two managers create, edit, cancel, delete and die while a customer books and pays and the flight departs: paid rows stay, a cancelled flight is not opened again, everybody is refunded in the end, arrived flights are completed | 66,449 |
| `bookingpages_tabs` | two tabs of one user, others who take seats, a flight that is cancelled or leaves: passengers all or none, the first look at the cabin is right, a cancelled reservation never changes, shown pages are true, every click ends on a page | 229,089 |
| `lockorder_admin_cancel`, `account_lost_payment` | violations, see *Findings* | - |

### Bounds, and why they are enough

- *Two workers* (three in `LockOrder`): every action touches the rows of at most one reservation,
  and each property is broken by one overtaking. A circle of waiting transactions may need more
  than two, hence three, and the proof for any number.
- *Two reservations*: needed for two bookings, two payments out of one wallet, one person on two
  reservations, a loop over more than one element. `progress` has one: a hold does not depend on
  others except through locks, and every lock is contended by the second worker.
- *Two neighbouring seats and one in another class*: groups of two, single seats, a full class,
  and two classes in which one user books at the same time.
- *`MaxTime` = 2* with a payment window of 1: a deadline passes before, between and after any two
  steps, and time goes on after it. With `EarlyDeparture` the flight becomes active and completed
  as well.
- *Penalty 50 %, price 5*: the refund has to be rounded (2.5, half to even).
- *Balance* 5 and 6 allow one payment, 10 allows two and then two refunds at once; `TopUps` and
  `MaxTopUps` bound the deposits.
- *`MaxCapacity` 3, two columns*: a class of one full and one started row; growth within the last
  row and into a new one; shrinking to zero. `MaxRow` stops new edits of a cabin that has
  grown to that row.
- *Tokens 2*: rows that are used or expired are taken again, so that requests never run out.
- *Two workers that guess, `MaxAttempts` 2* in `Account`: the smallest with which counts are lost. `MostGuesses` is
  reached there; it was also compared, and is exact, for 1, 3 and 5 attempts, and for three workers with
  up to 4. `VIEW WhatMatters` identifies states that differ in what a used or expired link says, or in
  counts that all lock out (a count written back after the lockout ended can climb without end).
- *Two tabs, one reservation, two passengers, three seats of which two are neighbours* in
  `BookingPages`: each property is about one reservation and one tab, which a second tab and the
  rest of the world disturb; the gap makes a group of two differ from two free seats;
  `MaxOthers` = 1 lets others take, and give back, any seat. `Departure` and `MaxTime` are 2, so that a
  hold ends before, and the flight leaves after it.
- *Two managers, one class, one reservation, departures 1 and 2* in `FlightDesk`: a form against a
  cancellation or a deletion by somebody else, a flight put off while it is under way.
  `MaxMishaps` 2: one failing reservation and one process that dies, or two of either. With two
  classes or reservations nothing new happens between one flight and one manager's loop; the loop
  over several reservations, with its failures, is in the run `flight`.
- *Times in `Notifications`*: `KeepRead` 3 = `WarnWindow` 2 + `Patience` 1 is the smallest that
  `TimesAssumption` allows (the real values are 90 days and minutes), and `MaxTime` 6 is when a
  notification that was read at once is deleted while the second one can still be reported.
  `Patience` bounds how long one run of the command lists before it tells.
- `Ops` says which operations an instance has, so that runs stay small; between them the passing
  runs use every action.
- Users, references, ids, workers and tokens are symmetric where they are model values. Runs
  with liveness have no symmetry.

No run switches the deadlock check off. `Quiet` is the step of a system in which nothing is going
on; in any other state somebody must be able to move.

### Fairness

`Booking!Fairness`: time passes; the scheduled `expire_reservations` command comes round again and
again (README, "Useful management commands"), so listing what is overdue is strongly fair for the
set of workers; what has begun goes on, because PostgreSQL serves the waiters of a row in turn (a
waiter keeps its place in the row's queue), which is strong fairness of `Continue(w)`.
No request of a user or a manager is fair: nobody has to pay. Crashes are excluded from the
liveness run: a process that dies again and again would never release anything. `LockOrder!FairSpec`
assumes the same of row locks for the transactions of `Usual`, and of nothing else; in particular new
transactions may begin for ever.

`FlightDesk!Fairness`: the status sync runs whenever a page is loaded (`WF` of `SyncCompleted`); what a
manager's request has begun goes on, and so do the customers' transactions. `RetryCancel` is the
one assumption about people: while a cancelled flight still has reservations, the details page shows
the manager the button and a warning (`needs_cancel_retry`), and *somebody* presses it again, which is
what the messages of the code ask for. Without it `EveryoneIsRefunded` is false: after a crash nothing
else looks at the flight. `BookingPages!Fairness`: the server answers what a tab has asked.
No click is fair.

## Findings

Each has a run in which TLC finds the violation.

1. **`account_lost_payment`** (`BalanceIsBooked`). `ProfileEditView` saves every column of the user
   from the copy read at the start of the request, `wallet_balance` included. A payment or deposit
   that commits in between is undone, while its ledger entry stays. `accounts/models.py:80`: "EVERY
   balance change must go through deposit()/withdraw()".
2. **`lockorder_admin_cancel`** (`NoWaitCycle`). A flight cancelled in the Django admin locks its
   reservations inside the transaction of the page, which already holds the flight and its classes. In TLC's trace
   `AddPassengersView` has locked a reservation and waits for the flight's row (`tickets/views.py:585`), while the
   page holds that row and waits, in `cancel_flight_and_refund`, for the reservation. README:115:
   "concurrent requests cannot deadlock".

### Other divergences seen while modelling

None of the listed properties states the absence of these; the models have the behaviour that
leads to them, except where it says so.

- *Lost counter update* (`flights/admin.py:62`): `SeatClassAdminForm.clean` derives
  `available_seats` from a row read without a lock (`AdminRead`, `AdminUpdate`); a booking in between is lost
  from the counter. `flights/admin.py:43`: "always derived from `capacity - (seats already booked)`".
- *One person, two seats* (`tickets/services.py:689`): a payment that checked the deadline just before
  it passes commits after it; in between the passenger step of another reservation, which does not
  count an overdue hold, accepts the same national id. `SharedPersonWasPaidLate` shows that this is the
  only way; late is judged by the commit, so the row itself may say that it was paid in time.
- *Straggler* (`tickets/services.py:862`): a booking that read the flight as SCHEDULED commits after the
  last, empty pass of `cancel_flight_and_refund`, although `:847` says it "is caught by the next
  pass". It cannot be paid (`SweptFlightIsRefunded`), and it ends (`EveryoneIsRefunded`).
- *A flight opened again under a sweep* (`dashboard/forms.py:54`): a cancelled flight without
  reservations may be set to SCHEDULED while another manager's `cancel_flight_and_refund` is still in
  its loop; a reservation made then is swept as one of a cancelled flight (`EditFlight`, `ListActive`).
- *A completed flight can be cancelled through the form* (`dashboard/views.py:366`): the button and
  `cancel_flight_and_refund` refuse COMPLETED, but the form has written CANCELLED before the
  refunds look (`EditFlight`, `BeginCancel`).
- *The flight's Django form* (`flights/admin.py:80`) looks at the status without a lock and writes all
  columns later, so it can write SCHEDULED over a CANCELLED that commits in between. Not modelled.
- *Exchanging two passengers' numbers* (`tickets/views.py:617`): the rows are saved one by one, and the
  first save still meets the other row's number; a correction that swaps two national ids is
  always refused (`SaveFails`).
- *Payment page of a flight that left or was cancelled* (`tickets/views.py:691`): the GET shows the form,
  only the POST refuses (`GetPayment`, `PostPayment`).
- *The search ignores neighbours* (`flights/views.py:33`: "can still seat the whole group"): it
  counts free seats of a class, and the seat count page may then refuse (`SearchFinds`).
- *The clean-up cannot be run*: `notifications/management/commands/cleanup_notifications` has no `.py`,
  so Django does not find it, although README:252 names it. With `--days 0`, which nothing refuses,
  `TimesAssumption` would be false and a warning could be told twice.
- *A notification whose INSERT fails* is only logged (`notifications/services.py`), while README:37 says
  that a committed event "never loses it"; `ToldIffCommitted` excepts it (`failed`).
- *Silent timeout* (`tickets/services.py:690`): a payment that finds the hold overdue cancels it
  and tells nobody, unlike the expiry job (`ReleaseNotes` has no case for it).
- *Lost top-up notice* (`accounts/views.py:385`): the process dies between `TopUp` and `TellTopUp`.
- *Free flights* (`tickets/services.py:721`): a price of 0.00 is allowed, `withdraw(0)` is not;
  the payment is refused as INSUFFICIENT_BALANCE (`CanWithdraw`).
- *Late warning* (`tickets/services.py:515`): `WarnNext` warns of a reservation that was paid or
  cancelled after `ListExpiring`.
- *Shared row* (`flights/services.py:113`): `AdminUpdate` of two classes at once continues the
  cabin in the same row. The run `inventory_dashboard` shows that the dashboard does not.
- *Stale generation* (`flights/services.py:34`): `AdminUpdate` changes a capacity between
  `GenerateRead` and `GenerateInsert`, and the number of seats is not the capacity.
- *A paid seat that is free again*
  (`recalculate_seat_availability.py:33`): the recount does not count a hold that ran out, although
  its payment, begun in time, is about to commit.
- *Two looks at one query* (`recalculate_seat_availability.py:75`): a deadline passes between the
  sum and the flags. `RecountRepairs` excludes exactly these two cases.
- *Old link* (`accounts/views.py:131`), *half an edit* (`:350`), *two links* (`:41`): with two
  profile pages at once, or one that dies half way, a new address is marked verified, or two links
  are valid (`OnlyLatestIsValid` says how many: one for each process that sends).
- *Lost counts* (`accounts/views.py:179`): `_register_failed_attempt` says that it counts atomically and that
  a separate get and set could lose an attempt, but `cache.incr` of the configured `DatabaseCache`
  (`airline_system/settings.py:121`) is a get and a set. Of two requests at once, one may hold the count it has read
  while the other uses up what is left, and then set it back: 20 wrong codes are answered with `MAX_ATTEMPTS`
  5 instead of 5, with three requests 55. That at most each other request passes once more, `tried <= MaxAttempts +
  Cardinality(Guessers) - 1`, is violated; the exact bound is `MostGuesses`. The set of `incr` also gives
  the count the cache's default timeout of 300 seconds instead of `LOCKOUT_SECONDS`, so the lockout may end
  early (`LockoutEnds`, which may come at any moment).
- *Deletions and moves in the Django admin* (`flights/admin.py:120`, `:252`): a flight is deleted classes first and
  flight last, several classes in any order without their flight, and a class that is moved to another flight locks
  that flight after itself, while `FlightEditView` locks the flight and then its classes. Transactions that do
  this wait in circles, against `tickets/services.py:4`, "Lock order used everywhere". With `"adminDelete"` in `Ops` TLC finds
  a flight edit against the deletion of the flight, two deletions of the same two classes, and a deletion of one
  class, which at its commit comes to a reservation made meanwhile, against the release of that
  reservation. With `"adminMove"` and three processes it finds a class that is moved from the second flight to the
  first, an edit of the second flight, and the status sync, which holds the first.

## Proofs

All theorems hold for every value of the constants that satisfies the assumptions: any number of
users, reservations, workers, seats and flights, any prices and penalties.
Every invariant and every action property that a passing run checks is stated by one of them, except
`VerifiedWasProven` and `GuessesAreBounded` (see *Only model-checked*).

**Assumptions.** `KeysAssumption`: primary keys of different tables are different values; seats,
references and national ids are finite sets (rows of a database). `ShapeAssumption`: the constant
functions have the types of the columns. `SettingsAssumption`: settings are natural numbers, a
top-up is positive. `LockOrderAssumption`: the same for `LockOrder`, and finitely many flights, which
`ScanOrder` numbers. Nothing is assumed about the
penalty's range, the limits or the deadlines. `EventsAssumption`: an event is of one of the three kinds
and has one owner. `TimesAssumption`: read notifications are kept longer than `WarnWindow` and a
run of the warning command together; this one matters, see `OnceOnly`. `FlightsAssumption`: a report has a
row for each of finitely many flights. `DeskAssumption`: times are
natural numbers and a flight takes some. `BookingPages!KeysAssumption`, `SettingsAssumption`: as for
`Booking`, and at least one seat may be booked at a time. `InventoryAssumption`: the classes are
finitely many and listed once each in the order of their keys and in that of the cabin; a row has at
least one column. `AccountAssumption`: some guesses are allowed, and there are finitely many workers.

Some theorems about `Inventory` and `LockOrder` say under which `Ops`, that is, for which
operations, they hold; the runs that check the same properties satisfy these hypotheses. Without
them the properties are false of the code, and the divergences above are how:

| Hypothesis | Needed because |
|---|---|
| `NotBoth`: not both `generate` and `admin` | the Django admin does not lock the Flight (*Stale generation*); TLC finds `SeatsFillCapacity` violated when both are there |
| `NoAdmin`: not `admin` | two admin edits at once continue the same row (*Shared row*); TLC finds `RowsAreOfOneClass` violated with `MaxCapacity` 4 |
| `NoDrift`: not `admin`, `recount` or `handEdit` | these write the counter without the locks of the booking path (*Lost counter update*), or do not count an overdue hold (*A paid seat that is free again*); TLC finds `CounterAndFlagsMatchLinks` violated by `admin` alone and by `recount` with `lapse` |
| `NoAdminPages`: not `adminCancel`, `adminDelete` or `adminMove` | the second finding, and *Deletions and moves in the Django admin* |

| Theorem | States |
|---|---|
| `TypeCorrect` | `[]TypeOK`; in particular no balance is negative |
| `LocksProtectReads` | `[]ReadsStayTrue` |
| `SeatsAreNeverLost`, `CounterNeverDrifts` | `[]SeatsMatchReservations`, `[]CounterMatchesSeats` |
| `BookingImplementsSale` | `Spec => ImplementsSale` |
| `LedgerIsUnbroken` | `[]LedgerExplainsWallet` |
| `LimitIsKept` | `[]PendingLimit` |
| `MoneyIsRight` | `[]MoneyMatchesReservations` |
| `NotesNeverLie` | `[]NotesAreTrue` |
| `PersonsAreChecked` | `[]SharedPersonWasPaidLate` |
| `SweepRefundsAll` | `[]SweptFlightIsRefunded` |
| `ReportsAddUp` | `[]ReportsAreTrue` |
| `LocksAreOrdered`, `CannotDeadlock` | `[]Ordered`, `[]NoWaitCycle`, given `NoAdminPages` |
| `NotificationProofs`: `Typed`, `OnceOnly`, `ToldWhatCommitted`, `ReadingStays` | `NotificationsTypeOK`, `ToldAtMostOnce`, `ToldIffCommitted`, `ReadingIsFinal` |
| `FlightDeskProofs`: `Typed`, `PaidStay`, `StaysCancelled` | `FlightDeskTypeOK` with its references, `PaidRowsStay`, `NotReopened` |
| `BookingPageProofs`: `Typed`, `AllOrNone`, `CancelledIsFinal`, `PagesAreTrue`, `PrecheckHolds` | `PagesTypeOK`, `PassengersAllOrNone`, `CancelledStays`, `FreshPagesAreTrue`, `[]PrecheckIsRight` |
| `InventoryProofs`: `InventoryTypeCorrect`, `BookedSeatsAreKept` | `[]InventoryTypeOK`, `[]BookedSeatsStay`, with every operation |
| `SeatsFollowCapacity`, `RecountIsRight` | `[]SeatsFillCapacity`, `RecountRepairs`, given `NotBoth` |
| `RowsStayApart` | `[]RowsAreOfOneClass`, given `NoAdmin` |
| `CounterIsExact` | `[]CounterAndFlagsMatchLinks`, given `NoDrift` |
| `AccountProofs`: `TypeCorrect`, `LatestOnly` | `[]AccountTypeOK`, `[]OnlyLatestIsValid`, with every operation, any number of senders, and crashes |

**The argument.** `TypeOK` alone is not inductive: that a payment leaves a balance in `Nat` needs
the balance it computes with to be the wallet's. `Inv == TypeOK /\ ReadsStayTrue` is. `ReadsStayTrue`
says of every open transaction which locks it holds and that what it remembers is what the tables
say: chosen seats are free, the reservation has the status it found, the balance is the wallet's.
The proof has two halves. For the worker that moves, its own read establishes the next stage. For the
others (`Undisturbing`) it is enough that a step leaves rows locked by somebody else alone:
reservation, wallet, and the free seats of a class. Nothing is said of rows that are
read without a lock (the flight's status and the clock), and nothing could be: that is where the
findings come from.

*Seats.* Given `Inv`, `SeatInv` (the two seat properties together: the counter needs that a
release gives back as many seats as were taken, the seats need nothing of the counter) is
inductive: a step either leaves seats and holds alone (`HoldsKept`) or is the commit of a booking
or of a release. *Sale.* Those commits, of payments and of deposits are the steps of
`SeatSale`; all others stutter. *Ledger.* `LedgerInv` adds that a ledger is never empty: a new entry starts
from the balance that was read, which by `Inv` is the wallet's, which is the last entry's.
*Limit.* `LimitInv` adds that a booking that has counted a user's pending reservations and not yet
committed has room left: it holds the user's lock, so nobody else can add one, and time only takes
some away. *Money.* `MoneyInv` states the property with sets instead of sizes, and adds how the columns
of one row go together (`ColumnsAgree`): the entries of a reservation are none before it is paid and
one after (`Charged`), and the same of its refund (`Repaid`). `EntriesGrow` says that a change of a
wallet adds one entry to those of its reservation and none to the others; what the transaction read,
which by `Inv` is still so, says that there was none before. *Notifications.* `NotesInv` forgets who
was told and adds that an expiry and a sweep carry their own reason (`ReasonFits`). It rests on
`FactsStay`: no later step undoes a payment, a refund or a reason.

*Passengers.* The property speaks of live reservations, and one that is overdue may become live
again when a late payment commits. `PersonInv` therefore says that of two active reservations of a
flight that share a person one is `Stale`, overdue or paid late; and the same of a reservation and a
form that has passed its check (`Claims`), which until then is protected by the flight's lock. A stale
reservation stays stale as long as it is active, and one that is both live and stale was paid late.
*Cancelled flights.* A reservation is `Due` if it is paid or a payment is under way for it; to count
such payments is needed because the sweep lists only what it can see. Nothing new becomes due
of a flight that is cancelled (`NothingNewIsDue`): a payment that read the status before has locked
its reservation. So once the first list is made, what is due is still on the list, has failed, or is being
released (`Covered`); the sweep reports success only when nothing of this is left.

*Locks.* `Ordered`: what a process holds is below all it still wants, by their level, or both are classes of a flight whose lock it holds. Tables have levels, and within the
flights each has its own, its place in `ScanOrder`, for `Sync` locks several. In a circle of waiting
processes take one that
wants a row of the highest level: the process it waits for holds that row, so it wants a row
still higher, or holds the flight of the class both want, which only one of them can.

*Notifications.* The unique key alone does not make `ToldAtMostOnce` inductive, because the clean-up
deletes the row that carries it. `WarnedEvents` says what replaces the row: a warning that was told
and has no row any more is past its deadline and past every run that still lists it.
`Alone` and `WorkersOK` say the same of events that report themselves: one worker at a time, and not
before. *Flight desk.* `DeletesAreClear`: between the count under the class lock and the
deletion nothing refers to the class but reservations that are cancelled and were never paid, no
booking is under way for it, and nobody else deletes it; `OpenFitsRows` keeps a payment that is
under way tied to a row that is pending and therefore in the way of the deletion. *Pages.* Every step
but the two of the passenger form is `Calm`: it leaves saved forms alone and changes only reservations
no form has locked. `FormOK` is what a form that is being saved may rely on, above all that what it
adds to is still empty; `OneSaver` is the lock. `CancelledStays` then needs only that
nobody saves a cancelled reservation's form. `FreshPagesAreTrue` is about a step and what it shows:
`Blank` says that a page that was asked for offers nothing yet, and every answer is computed
from what its own step reads (`Truthful`). `PrecheckIsRight` needs to know what sorting and `Runs` yield: the free
columns can be put in order and none is left out (`SortExists`, `SortedFacts`); the run that ends at a place
is n or longer exactly when the n columns up to there are neighbours (`RunIff`), by induction along the row; and
that is when seats can be chosen (`BlockIff`).

*Reports.* A report is a sum over reservations, the ledger a sum over entries, so both are
compared reservation by reservation. `SumFunctionOnSet` is a recursive function on sets that takes
elements in an order of its own; that there is such a function (`SumExists`), and that every order
gives the same sum (`SumRight`), follows by looking at a smallest set for which it fails, as do
`SumMinus`, `SumBoth` and `SumByParts`, which adds a set up by its parts. The ledger's parts are the
entries of each reservation: `MoneyInv` says that they are its price and its refund
(`MovesSum`), and `MovesNamed`, which is an invariant of its own, that no payment and no refund
is of anything else (`NetIsLedger`). Flights are parts of the reservations in the same way
(`NetByFlight`); paid ones are those who fly and those who cancelled (`NetIsRefundable`).

*Inventory.* What the managers' code computes for a whole cabin is a function over the classes, one
after the other (`Generated`, `Resynced`). What it yields for cabins of any size is proved first
(`GeneratedFacts`, `ResyncedFacts`), by induction over the classes: the library's induction
theorems take a formula as a parameter, which the provers cannot instantiate, so `SetInduction`
says the same of a *set* of numbers and follows from the well-foundedness of `<`. Then every
property has the same shape: what a transaction has decided and not written yet is protected by
the locks it holds. `CabinInv` says so of the rows (`SaveHas`: what will be removed is nobody's seat, and what
will be added is not there yet); `FillInv` of the number of seats (`WillFill`); `SumInv` of the recount,
between its sum and its flags; `RowInv` of the rows that generation has counted; `CounterInv` of a
counter that a form has derived (`EditHas`). `Foreign(m)` is a step of anybody else: it leaves m's
transaction, its locks, and what they protect alone (`Kept`), so only the worker that moves has to be looked at.

*Account.* There are no locks here, so an invariant has to speak of the statements a
request has still to execute. `LatestInv` says that the valid links can be
assigned to the processes that sent them, no two of a kind to the same process (`SentBy`), and that every plan voids the
links of its kind before it sends one (`Replaces`): after that the process has none, whatever the
others send. So there are at most as many valid links as processes that send. A process that dies sends less.

**Only model-checked.** Liveness (`HoldsEnd`, `EveryTransactionEnds`, `EveryoneIsRefunded`,
`ArrivedFlightsComplete`, `EveryClickEndsOnAPage`): fairness and ENABLED are beyond the prover.
`VerifiedWasProven`, which is true of one profile page at a time that does not die half way, as in its run: nothing in
the code enforces that, and with two pages or a crash it is false (*Old link*, *Half an edit*), so a theorem
would have to assume what matters. `GuessesAreBounded`, whose bound is a recursive function. And the
two findings' properties, which the code violates.

## What is not modelled

- Rendering, logging, access control, wording, settings, templates, the admin's read-only pages: no state, or
  only read. Of the search, only whether a flight is found for a group.
- The digits of a national id and their checksum: a pure function of one string, and
  ids are model values here.
- The throttle of the status middleware: it only decides when the sync runs.
- The flight's own form in the Django admin, which reads the flight without a lock (see *Other
  divergences*); the admin's edits of classes are in `Inventory`, its cancellation in `LockOrder`, its
  deletion of classes with their reservations in `FlightDesk`.
- `notes` in `Booking` is a set without keys; how often and whether an event is told is the subject of
  `Notifications`.
- An IntegrityError that ends the expiry loop is in `Inventory` (`RecountExpire`) and not in `Booking`,
  where capacities do not change.
- What staff change of an account in the Django admin (`CustomUserAdmin`: addresses, verified flags, rights); they
  may mark any address verified.
- Users' uniqueness, login, passwords; two profile pages of one user at once, or one that dies half way,
  which `Account` can express (`Ops`) and its run excludes, because of the divergences above.
- Locks on the rows of other tables (seats, notifications, links, sessions) and waits for a unique key; an
  UPDATE of several flights in an order other than `ScanOrder`.
- More than one user's browser in `BookingPages`: other users are there as those who take seats.
  A national id that another *user* has booked is in `Booking`.

## Plan

Done, in this order: `Booking` with `SeatSale` and its runs; the proofs of types, reads, seats,
counters, refinement, ledger, limit, money, notifications, passengers and swept flights; `Inventory`; `LockOrder` and its proof; `Account`;
`Notifications`, `FlightDesk` and `BookingPages`, each with its proofs; `Reports`; the proofs about
`Account`, `Inventory`, the remaining ones about `BookingPages`, and those about `Reports`.

Next, in order of importance:

1. *The expiry loop that one bad release ends*: liveness of `Inventory`'s recount.
2. *The flight's admin form*, as an edit of `FlightDesk` from a stale copy.
3. A refinement of `SeatSale` by `Inventory`'s customers, to join the two models.
