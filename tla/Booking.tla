------------------------------- MODULE Booking -------------------------------
(***************************************************************************)
(* The booking core of the ticket system (tickets/services.py, the         *)
(* passenger step of tickets/views.py, the wallet of accounts/models.py,   *)
(* the status sync of flights/services.py).                                *)
(*                                                                         *)
(* A worker is a process that serves requests or runs a management         *)
(* command.  It has at most one open database transaction, txn[w], and     *)
(* may be in the middle of a loop that opens one transaction after         *)
(* another, job[w].  A step of a transaction ends where it waits for the   *)
(* next row lock: a lock is taken and the rows are read in one step, all   *)
(* writes become visible in the commit step, which also gives the locks    *)
(* back (PostgreSQL, READ COMMITTED).  A request that is refused writes    *)
(* nothing and has no step.  Seat rows are only ever locked under the lock *)
(* of their SeatClass, so lock has no entry for them.                      *)
(***************************************************************************)
EXTENDS Integers, FiniteSets, Sequences

CONSTANTS
    Users, Refs, Flights, Classes, Seats, NationalIds, \* primary keys
    Workers,                     \* processes talking to the database
    FlightOf, Fare,              \* of a class: its flight, its final_price (in 0.01)
    ClassOf, Row, Col,           \* of a seat
    Departure, Arrival, Penalty, \* of a flight
    PayWindow, WarnWindow,       \* PAYMENT_WINDOW_MINUTES, EXPIRY_WARNING_MINUTES
    ActiveLead,                  \* a flight is ACTIVE from one hour before departure
    MaxSeats, MaxPending,        \* MAX_SEATS_..., MAX_PENDING_RESERVATIONS_PER_USER
    InitialBalance, TopUps,      \* the first charge; the amounts users deposit
    MaxTime, MaxTopUps,          \* bounds: the clock, the deposits of one user
    Ops,                         \* the operations an instance exercises
    None

Rows == Refs \cup Flights \cup Classes \cup Users

ASSUME KeysAssumption ==
    /\ IsFiniteSet(Seats) /\ IsFiniteSet(Refs) /\ IsFiniteSet(NationalIds)
    /\ Workers # {} /\ None \notin Workers \cup Rows \cup NationalIds
    /\ Refs \cap Classes = {} /\ Refs \cap Flights = {} /\ Refs \cap Users = {}
    /\ Classes \cap Flights = {} /\ Classes \cap Users = {} /\ Flights \cap Users = {}

ASSUME ShapeAssumption ==
    /\ FlightOf \in [Classes -> Flights] /\ Fare \in [Classes -> Nat]
    /\ ClassOf \in [Seats -> Classes] /\ Row \in [Seats -> Nat] /\ Col \in [Seats -> Nat]
    /\ Departure \in [Flights -> Nat] /\ Arrival \in [Flights -> Nat]
    /\ Penalty \in [Flights -> Int]

ASSUME SettingsAssumption ==
    /\ PayWindow \in Nat /\ WarnWindow \in Nat /\ ActiveLead \in Nat
    /\ MaxSeats \in Nat /\ MaxPending \in Nat /\ MaxTime \in Nat /\ MaxTopUps \in Nat
    /\ InitialBalance \in Nat /\ TopUps \subseteq Nat \ {0}

VARIABLES
    now,          \* timezone.now()
    flightStatus, \* Flight.status
    available,    \* SeatClass.available_seats
    freeSeats,    \* the seats with is_available = True
    holder,       \* ReservationSeat: the reservation a seat is linked to, or None
    res,          \* Reservation rows
    wallet,       \* CustomUser.wallet_balance
    ledger,       \* WalletTransaction rows of a user, oldest first
    notes,        \* Notification rows, by kind, user and what the dedupe key names
    swept,        \* flights whose cancellation was reported with no failed booking
    lock,         \* SELECT ... FOR UPDATE: the worker that holds a row's lock
    txn,          \* the open transaction of a worker
    job           \* the loop a worker is in

seatVars == <<available, freeSeats, holder>>
moneyVars == <<wallet, ledger>>
db == <<flightStatus, seatVars, res, moneyVars, notes>>
vars == <<now, db, swept, lock, txn, job>>

-----------------------------------------------------------------------------
(* Rows, and what a worker keeps in memory.                                *)

NotPaid == -1

Absent == [status |-> "none", user |-> None, class |-> None, count |-> 0, price |-> 0,
           deadline |-> 0, settledAt |-> NotPaid, reason |-> "none", refund |-> 0, ids |-> {}]

\* settledAt: when the payment committed, a history; the column paid_at, which is set a
\* moment before, is only ever tested for NULL, and NULL is NotPaid.
Reservation ==
    [status : {"pending", "reserved", "cancelled"}, user : Users, class : Classes,
     count : Nat \ {0}, price : Nat, deadline : Nat, settledAt : Nat \cup {NotPaid},
     reason : {"none", "user", "timeout", "flight_cancelled"}, refund : Nat,
     ids : SUBSET NationalIds]

Entry == [kind : {"charge", "payment", "refund"}, amount : Int,
          before : Nat, after : Nat, ref : Refs \cup {None}]

Txn == [op : {"none", "create", "pay", "cancel", "expire", "sweep", "passengers", "deposit"},
        pc : {"none", "class", "flight", "user", "refund", "charge", "release", "commit"},
        user : Users \cup {None}, class : Classes \cup {None}, ref : Refs \cup {None},
        seats : SUBSET Seats, ids : SUBSET NationalIds,
        amount : Nat, balance : Nat,
        reason : {"none", "user", "timeout", "flight_cancelled"}]

Job == {j \in [kind : {"none", "expire", "sweep", "warn", "tell", "sync"},
               flight : Flights \cup {None}, user : Users \cup {None},
               todo : SUBSET Refs, failed : SUBSET Refs, pass : Nat, at : Nat] :
          /\ j.kind = "sweep" => j.flight \in Flights
          /\ j.kind = "tell" => j.user \in Users}

NoTxn == [op |-> "none", pc |-> "none", user |-> None, class |-> None, ref |-> None,
          seats |-> {}, ids |-> {}, amount |-> 0, balance |-> 0, reason |-> "none"]

NoJob == [kind |-> "none", flight |-> None, user |-> None, todo |-> {}, failed |-> {},
          pass |-> 0, at |-> 0]

Note(kind, user, about) == [kind |-> kind, user |-> user, about |-> about]

-----------------------------------------------------------------------------
(* Row locks and transactions.                                             *)

\* Faults: the SELECT of one table's rows forgets FOR UPDATE.
CanLockNoReservation(row) == row \in Refs \/ lock[row] = None
CanLockNoFlight(row) == row \in Flights \/ lock[row] = None
CanLockNoUser(row) == row \in Users \/ lock[row] = None

CanLock(row) == lock[row] = None

Take(w, row) == lock' = [lock EXCEPT ![row] = w]

Unlocked(w) == [row \in Rows |-> IF lock[row] = w THEN None ELSE lock[row]]

\* The worker goes on to the next lock, or to the commit, with row locked.
Advance(w, row, next) == Take(w, row) /\ txn' = [txn EXCEPT ![w] = next]

\* COMMIT and ROLLBACK both end the transaction and give back its locks.
EndTxn(w) == lock' = Unlocked(w) /\ txn' = [txn EXCEPT ![w] = NoTxn]

Rollback(w) == EndTxn(w) /\ UNCHANGED <<now, db, swept, job>>

Ready(w) == txn[w] = NoTxn /\ job[w] = NoJob

Doing(w, op, pc) == txn[w].op = op /\ txn[w].pc = pc

Releasing == {"pay", "cancel", "expire", "sweep"}

-----------------------------------------------------------------------------
(* Conditions on the data.                                                 *)

IsActive(r) == res[r].status \in {"pending", "reserved"}

FlightFor(r) == FlightOf[res[r].class]

\* Reservation.is_payment_expired
Overdue(r) == res[r].status = "pending" /\ res[r].deadline <= now

IsLive(r) == res[r].status = "reserved" \/ (res[r].status = "pending" /\ res[r].deadline > now)

Bookable(f) == flightStatus[f] = "scheduled" /\ Departure[f] > now

SeatsIn(c) == {s \in Seats : ClassOf[s] = c}

SeatsHeld(r) == {s \in Seats : holder[s] = r}

\* validate_group_seats: one row, neighbouring columns.
SideBySide(S) ==
    \/ Cardinality(S) < 2
    \/ /\ \A s, t \in S : Row[s] = Row[t]
       /\ \E low \in {Col[s] : s \in S} :
            {Col[s] : s \in S} = low .. (low + Cardinality(S) - 1)

PendingOf(u) == {r \in Refs : res[r].user = u /\ res[r].status = "pending" /\ res[r].deadline > now}

\* get_penalty_percent for a paid reservation of a flight that was not cancelled.
PenaltyPercent(f) ==
    IF Penalty[f] < 0 THEN 0 ELSE IF Penalty[f] > 100 THEN 100 ELSE Penalty[f]

\* Decimal.quantize('0.01') in the default context rounds halves to even.
RoundHalfEven(n, d) ==
    LET q == n \div d
        up == 2 * (n % d) > d \/ (2 * (n % d) = d /\ q % 2 = 1)
    IN  IF up THEN q + 1 ELSE q

\* cancel_reservation's refund for a reservation it found in this state.
RefundOnCancel(r) ==
    IF res[r].status # "reserved" THEN 0
    ELSE IF flightStatus[FlightFor(r)] = "cancelled" THEN res[r].price
    ELSE RoundHalfEven(res[r].price * (100 - PenaltyPercent(FlightFor(r))), 100)

\* cancellation_blocked_reason(reservation) is None.
Cancellable(r) ==
    \/ res[r].status = "pending"
    \/ /\ res[r].status = "reserved"
       /\ flightStatus[FlightFor(r)] = "cancelled" \/ Bookable(FlightFor(r))

CanEditPassengers(r) ==
    \/ res[r].status = "pending" /\ ~Overdue(r)
    \/ res[r].status = "reserved" /\ Bookable(FlightFor(r))

\* find_conflicting_national_ids
ConflictingIds(r, ids) ==
    {id \in ids : \E q \in Refs \ {r} :
        IsLive(q) /\ FlightFor(q) = FlightFor(r) /\ id \in res[q].ids}

-----------------------------------------------------------------------------
(* create_pending_reservation: SeatClass, then User.                       *)

\* Bound: there is a reference left for every booking that was begun.
RefsLeft == Cardinality({r \in Refs : res[r].status = "none"})
            > Cardinality({w \in Workers : txn[w].op = "create"})

LockClassForBooking(w, u, c, S) ==
    /\ "create" \in Ops /\ Ready(w) /\ CanLock(c)
    /\ RefsLeft
    /\ Cardinality(S) \in 1 .. MaxSeats
    /\ Bookable(FlightOf[c])
    /\ available[c] >= Cardinality(S)
    /\ S \subseteq freeSeats \cap SeatsIn(c)
    /\ SideBySide(S)
    /\ Advance(w, c, [NoTxn EXCEPT !.op = "create", !.pc = "user",
                                   !.user = u, !.class = c, !.seats = S])
    /\ UNCHANGED <<now, db, swept, job>>

LockUserForBooking(w) ==
    LET t == txn[w] IN
    /\ Doing(w, "create", "user") /\ CanLock(t.user)
    /\ IF Cardinality(PendingOf(t.user)) >= MaxPending
       THEN Rollback(w)
       ELSE /\ Advance(w, t.user, [t EXCEPT !.pc = "commit"])
            /\ UNCHANGED <<now, db, swept, job>>

\* All writes of a booking: r becomes a pending reservation that holds t.seats.
HoldSeats(w, r) ==
    LET t == txn[w]
        n == Cardinality(t.seats) IN
    /\ freeSeats' = freeSeats \ t.seats
    /\ available' = [available EXCEPT ![t.class] = @ - n]
    /\ holder' = [s \in Seats |-> IF s \in t.seats THEN r ELSE holder[s]]
    /\ res' = [res EXCEPT ![r] =
         [Absent EXCEPT !.status = "pending", !.user = t.user, !.class = t.class, !.count = n,
                        !.price = Fare[t.class] * n, !.deadline = now + PayWindow]]
    /\ EndTxn(w)
    /\ UNCHANGED <<now, flightStatus, moneyVars, notes, swept, job>>

\* ReservationSeat.seat is unique: a seat that is already linked aborts the INSERT.
CommitBooking(w) ==
    /\ Doing(w, "create", "commit")
    /\ \/ /\ \E s \in txn[w].seats : holder[s] # None
          /\ Rollback(w)
       \/ /\ \A s \in txn[w].seats : holder[s] = None
          /\ \E r \in Refs : res[r].status = "none" /\ HoldSeats(w, r)

-----------------------------------------------------------------------------
(* pay_reservation: Reservation, then User.  A payment that finds the      *)
(* reservation overdue becomes a release (reason TIMEOUT, no notification).*)

\* Locks r and goes on to _cancel_locked with what the caller wants to give back.
BeginRelease(w, op, r, reason, amount) ==
    Advance(w, r, [NoTxn EXCEPT !.op = op, !.pc = "class", !.ref = r,
                                !.reason = reason, !.amount = amount])

LockReservationForPayment(w, r) ==
    /\ "pay" \in Ops /\ Ready(w) /\ CanLock(r)
    /\ res[r].status = "pending"
    /\ IF Overdue(r)
       THEN BeginRelease(w, "pay", r, "timeout", 0)
       ELSE /\ Cardinality(res[r].ids) = res[r].count
            /\ Bookable(FlightFor(r))
            /\ Advance(w, r, [NoTxn EXCEPT !.op = "pay", !.pc = "user", !.ref = r,
                                           !.user = res[r].user, !.amount = res[r].price])
    /\ UNCHANGED <<now, db, swept, job>>

\* Fault: the balance is not looked at.
CanWithdrawAnything(u, amount) == amount > 0

CanWithdraw(u, amount) == amount > 0 /\ wallet[u] >= amount

\* withdraw() refuses amounts that are not positive as well as a balance that
\* is too low; the caller reports both as INSUFFICIENT_BALANCE.
LockUserForPayment(w) ==
    LET t == txn[w] IN
    /\ Doing(w, "pay", "user") /\ CanLock(t.user)
    /\ IF CanWithdraw(t.user, t.amount)
       THEN /\ Advance(w, t.user, [t EXCEPT !.pc = "charge", !.balance = wallet[t.user]])
            /\ UNCHANGED <<now, db, swept, job>>
       ELSE Rollback(w)

\* _apply_wallet_change: the balance written is computed from the one read.
ApplyWalletChange(u, kind, before, delta, r) ==
    /\ wallet' = [wallet EXCEPT ![u] = before + delta]
    /\ ledger' = [ledger EXCEPT ![u] = Append(@,
         [kind |-> kind, amount |-> delta, before |-> before, after |-> before + delta, ref |-> r])]

\* status and paid_at are written, the user is told, and all of it commits.
CommitPayment(w) ==
    LET t == txn[w] IN
    /\ Doing(w, "pay", "charge")
    /\ ApplyWalletChange(t.user, "payment", t.balance, - t.amount, t.ref)
    /\ res' = [res EXCEPT ![t.ref].status = "reserved", ![t.ref].settledAt = now]
    /\ notes' = notes \cup {Note("paid", t.user, t.ref)}
    /\ EndTxn(w)
    /\ UNCHANGED <<now, flightStatus, seatVars, swept, job>>

-----------------------------------------------------------------------------
(* Giving seats back: Reservation, then SeatClass, then User for a refund. *)

\* cancel_reservation
LockReservationForCancel(w, r) ==
    /\ "cancel" \in Ops /\ Ready(w) /\ CanLock(r)
    /\ Cancellable(r)
    /\ BeginRelease(w, "cancel", r,
                    IF res[r].status = "reserved" /\ flightStatus[FlightFor(r)] = "cancelled"
                    THEN "flight_cancelled" ELSE "user",
                    RefundOnCancel(r))
    /\ UNCHANGED <<now, db, swept, job>>

\* Faults: no second look at the reservation once it is locked; only holds that
\* could still be paid are given back.
ExpireUnchecked(w, r) == BeginRelease(w, "expire", r, "timeout", 0)
ExpireIfBookable(w, r) ==
    IF Overdue(r) /\ Bookable(FlightFor(r)) THEN BeginRelease(w, "expire", r, "timeout", 0)
    ELSE UNCHANGED <<lock, txn>>

\* expire_reservation, the check after the lock.
ExpireIfOverdue(w, r) ==
    IF Overdue(r) THEN BeginRelease(w, "expire", r, "timeout", 0)
    ELSE UNCHANGED <<lock, txn>>

\* _cancel_reservation_for_cancelled_flight, the check after the lock.
SweepIfActive(w, r) ==
    IF IsActive(r)
    THEN BeginRelease(w, "sweep", r, "flight_cancelled",
                      IF res[r].status = "reserved" THEN res[r].price ELSE 0)
    ELSE UNCHANGED <<lock, txn>>

\* _cancel_locked, first half.
LockClassForRelease(w) ==
    LET t == txn[w] IN
    /\ t.op \in Releasing /\ t.pc = "class" /\ CanLock(res[t.ref].class)
    /\ Advance(w, res[t.ref].class, [t EXCEPT !.pc = IF t.amount > 0 THEN "refund" ELSE "release"])
    /\ UNCHANGED <<now, db, swept, job>>

LockUserForRefund(w) ==
    LET t == txn[w]
        u == res[t.ref].user IN
    /\ t.op \in Releasing /\ t.pc = "refund" /\ CanLock(u)
    /\ Advance(w, u, [t EXCEPT !.pc = "release", !.balance = wallet[u]])
    /\ UNCHANGED <<now, db, swept, job>>

\* Fault: a refund is announced whether money came back or not.
ReleaseNotesAlways(op, r, amount) ==
    LET u == res[r].user IN
    CASE op = "expire" -> {Note("expired", u, r)}
      [] op = "sweep" -> {Note("flight_cancelled", u, r)}
      [] op = "cancel" /\ amount >= 0 -> {Note("refund", u, r)}
      [] OTHER -> {}

\* Cancelling tells the user only when money came back; a payment that found
\* the reservation overdue tells nothing.
ReleaseNotes(op, r, amount) ==
    LET u == res[r].user IN
    CASE op = "expire" -> {Note("expired", u, r)}
      [] op = "sweep" -> {Note("flight_cancelled", u, r)}
      [] op = "cancel" /\ amount > 0 -> {Note("refund", u, r)}
      [] OTHER -> {}

\* Faults: the links stay; one seat is counted whatever the reservation held.
LinksKept(r) == holder
OneSeatBack(r) == [available EXCEPT ![res[r].class] = @ + 1]

LinksWithout(r) == [s \in Seats |-> IF s \in SeatsHeld(r) THEN None ELSE holder[s]]

SeatsBack(r) == [available EXCEPT ![res[r].class] = @ + Cardinality(SeatsHeld(r))]

\* _cancel_locked, second half, and what its callers do after it.
CommitRelease(w) ==
    LET t == txn[w]
        r == t.ref IN
    /\ t.op \in Releasing /\ t.pc = "release"
    /\ freeSeats' = freeSeats \cup SeatsHeld(r)
    /\ available' = SeatsBack(r)
    /\ holder' = LinksWithout(r)
    /\ res' = [res EXCEPT ![r].status = "cancelled", ![r].reason = t.reason,
                          ![r].refund = t.amount]
    /\ IF t.amount > 0
       THEN ApplyWalletChange(res[r].user, "refund", t.balance, t.amount, r)
       ELSE UNCHANGED moneyVars
    /\ notes' = notes \cup ReleaseNotes(t.op, r, t.amount)
    /\ EndTxn(w)
    /\ UNCHANGED <<now, flightStatus, swept, job>>

-----------------------------------------------------------------------------
(* Loops over reservations.                                                *)

SetJob(w, j) == job' = [job EXCEPT ![w] = j]

\* What is left of a loop after it has dealt with r.
Without(j, r) == IF j.todo = {r} THEN NoJob ELSE [j EXCEPT !.todo = @ \ {r}]

\* expire_pending_reservations, and expire_overdue of the list page, list what
\* is overdue; the detail page looks at one reservation.
ListOverdue(w) ==
    /\ "expire" \in Ops /\ Ready(w)
    /\ \E todo \in {{r \in Refs : Overdue(r)}}
                   \cup {{r \in Refs : Overdue(r) /\ res[r].user = u} : u \in Users}
                   \cup {{r} : r \in {q \in Refs : Overdue(q)}} :
         /\ todo # {}
         /\ SetJob(w, [NoJob EXCEPT !.kind = "expire", !.todo = todo])
    /\ UNCHANGED <<now, db, swept, lock, txn>>

ExpireNext(w) ==
    /\ job[w].kind = "expire" /\ txn[w] = NoTxn
    /\ \E r \in job[w].todo :
         /\ CanLock(r)
         /\ ExpireIfOverdue(w, r)
         /\ SetJob(w, Without(job[w], r))
    /\ UNCHANGED <<now, db, swept>>

\* cancel_flight_and_refund: the flight is locked only while its status is set.
CancelFlight(w, f) ==
    /\ "cancelFlight" \in Ops /\ Ready(w) /\ CanLock(f)
    /\ flightStatus[f] # "completed"
    /\ flightStatus' = [flightStatus EXCEPT ![f] = "cancelled"]
    /\ SetJob(w, [NoJob EXCEPT !.kind = "sweep", !.flight = f, !.pass = 1])
    /\ UNCHANGED <<now, seatVars, res, moneyVars, notes, swept, lock, txn>>

\* Fault: only the reservations that are already paid are listed.
PaidToSweep(j) == {r \in Refs : res[r].status = "reserved" /\ FlightFor(r) = j.flight} \ j.failed

LeftToSweep(j) == {r \in Refs : IsActive(r) /\ FlightFor(r) = j.flight} \ j.failed

\* At most three passes; an empty one ends the loop.
ListForSweep(w) ==
    LET j == job[w] IN
    /\ j.kind = "sweep" /\ j.todo = {} /\ txn[w] = NoTxn
    /\ IF j.pass > 3 \/ LeftToSweep(j) = {}
       THEN /\ swept' = IF j.failed = {} THEN swept \cup {j.flight} ELSE swept
            /\ SetJob(w, NoJob)
       ELSE /\ SetJob(w, [j EXCEPT !.todo = LeftToSweep(j), !.pass = @ + 1])
            /\ UNCHANGED swept
    /\ UNCHANGED <<now, db, lock, txn>>

SweepNext(w) ==
    /\ job[w].kind = "sweep" /\ txn[w] = NoTxn
    /\ \E r \in job[w].todo :
         /\ CanLock(r)
         /\ SweepIfActive(w, r)
         /\ SetJob(w, [job[w] EXCEPT !.todo = @ \ {r}])
    /\ UNCHANGED <<now, db, swept>>

\* An exception inside one reservation's transaction is logged and skipped.
SweepFails(w) ==
    /\ "fail" \in Ops /\ job[w].kind = "sweep" /\ txn[w].op = "sweep"
    /\ SetJob(w, [job[w] EXCEPT !.failed = @ \cup {txn[w].ref}])
    /\ EndTxn(w)
    /\ UNCHANGED <<now, db, swept>>

\* warn_expiring_reservations lists, then notifies without looking again.
ListExpiring(w) ==
    LET todo == {r \in Refs : /\ res[r].status = "pending"
                              /\ res[r].deadline \in now + 1 .. now + WarnWindow} IN
    /\ "warn" \in Ops /\ Ready(w) /\ todo # {}
    /\ SetJob(w, [NoJob EXCEPT !.kind = "warn", !.todo = todo])
    /\ UNCHANGED <<now, db, swept, lock, txn>>

WarnNext(w) ==
    /\ job[w].kind = "warn"
    /\ \E r \in job[w].todo :
         /\ notes' = notes \cup {Note("expiring", res[r].user, r)}
         /\ SetJob(w, Without(job[w], r))
    /\ UNCHANGED <<now, flightStatus, seatVars, res, moneyVars, swept, lock, txn>>

-----------------------------------------------------------------------------
(* AddPassengersView.post: Reservation, then Flight.  A form carries one   *)
(* passenger per seat with distinct ids; a stale form writes nothing.      *)

LockReservationForPassengers(w, r, ids) ==
    /\ "passengers" \in Ops /\ Ready(w) /\ CanLock(r)
    /\ CanEditPassengers(r)
    /\ Cardinality(ids) = res[r].count
    /\ Advance(w, r, [NoTxn EXCEPT !.op = "passengers", !.pc = "flight", !.ref = r, !.ids = ids])
    /\ UNCHANGED <<now, db, swept, job>>

LockFlightForPassengers(w) ==
    LET t == txn[w] IN
    /\ Doing(w, "passengers", "flight") /\ CanLock(FlightFor(t.ref))
    /\ IF ConflictingIds(t.ref, t.ids) # {}
       THEN Rollback(w)
       ELSE /\ Advance(w, FlightFor(t.ref), [t EXCEPT !.pc = "commit"])
            /\ UNCHANGED <<now, db, swept, job>>

CommitPassengers(w) ==
    LET t == txn[w] IN
    /\ Doing(w, "passengers", "commit")
    /\ res' = [res EXCEPT ![t.ref].ids = t.ids]
    /\ EndTxn(w)
    /\ UNCHANGED <<now, flightStatus, seatVars, moneyVars, notes, swept, job>>

-----------------------------------------------------------------------------
(* DepositView.form_valid: the deposit commits, then the notification is   *)
(* written in a transaction of its own.                                    *)

TopUpsOf(u) == {i \in 1 .. Len(ledger[u]) : ledger[u][i].kind = "charge"}

LockUserForTopUp(w, u, amount) ==
    /\ "deposit" \in Ops /\ Ready(w) /\ CanLock(u)
    /\ Cardinality(TopUpsOf(u)) <= MaxTopUps
    /\ Advance(w, u, [NoTxn EXCEPT !.op = "deposit", !.pc = "charge", !.user = u,
                                   !.amount = amount, !.balance = wallet[u]])
    /\ UNCHANGED <<now, db, swept, job>>

CommitTopUp(w) ==
    LET t == txn[w] IN
    /\ Doing(w, "deposit", "charge")
    /\ ApplyWalletChange(t.user, "charge", t.balance, t.amount, None)
    /\ EndTxn(w)
    /\ SetJob(w, [NoJob EXCEPT !.kind = "tell", !.user = t.user, !.at = Len(ledger[t.user]) + 1])
    /\ UNCHANGED <<now, flightStatus, seatVars, res, notes, swept>>

TellTopUp(w) ==
    /\ job[w].kind = "tell"
    /\ notes' = notes \cup {Note("charged", job[w].user, job[w].at)}
    /\ SetJob(w, NoJob)
    /\ UNCHANGED <<now, flightStatus, seatVars, res, moneyVars, swept, lock, txn>>

-----------------------------------------------------------------------------
(* sync_flight_statuses: two UPDATE statements that share one clock value. *)

ToActivate(at) ==
    {f \in Flights : /\ flightStatus[f] = "scheduled"
                     /\ Departure[f] <= at + ActiveLead /\ Arrival[f] > at}

ToComplete(at) ==
    {f \in Flights : flightStatus[f] \in {"scheduled", "active"} /\ Arrival[f] <= at}

SetStatus(F, s) == flightStatus' = [f \in Flights |-> IF f \in F THEN s ELSE flightStatus[f]]

ActivateFlights(w) ==
    /\ "sync" \in Ops /\ Ready(w)
    /\ ToActivate(now) \cup ToComplete(now) # {}
    /\ \A f \in ToActivate(now) : CanLock(f)
    /\ SetStatus(ToActivate(now), "active")
    /\ SetJob(w, [NoJob EXCEPT !.kind = "sync", !.at = now])
    /\ UNCHANGED <<now, seatVars, res, moneyVars, notes, swept, lock, txn>>

CompleteFlights(w) ==
    /\ job[w].kind = "sync"
    /\ \A f \in ToComplete(job[w].at) : CanLock(f)
    /\ SetStatus(ToComplete(job[w].at), "completed")
    /\ SetJob(w, NoJob)
    /\ UNCHANGED <<now, seatVars, res, moneyVars, notes, swept, lock, txn>>

-----------------------------------------------------------------------------

\* The process dies, or the database cancels its transaction.
Crash(w) ==
    /\ "crash" \in Ops /\ ~Ready(w)
    /\ EndTxn(w) /\ SetJob(w, NoJob)
    /\ UNCHANGED <<now, db, swept>>

Tick ==
    /\ now < MaxTime /\ now' = now + 1
    /\ UNCHANGED <<db, swept, lock, txn, job>>

\* Nothing is in progress: the system may stop here, and nowhere else.
Quiet == (\A w \in Workers : Ready(w)) /\ UNCHANGED vars

Init ==
    /\ now = 0
    /\ flightStatus = [f \in Flights |-> "scheduled"]
    /\ available = [c \in Classes |-> Cardinality(SeatsIn(c))]
    /\ freeSeats = Seats
    /\ holder = [s \in Seats |-> None]
    /\ res = [r \in Refs |-> Absent]
    /\ wallet = [u \in Users |-> InitialBalance]
    /\ ledger = [u \in Users |-> <<[kind |-> "charge", amount |-> InitialBalance, before |-> 0,
                                    after |-> InitialBalance, ref |-> None]>>]
    /\ notes = {}
    /\ swept = {}
    /\ lock = [row \in Rows |-> None]
    /\ txn = [w \in Workers |-> NoTxn]
    /\ job = [w \in Workers |-> NoJob]

\* What begins because somebody asks for it.
Request(w) ==
    \/ \E u \in Users, c \in Classes, S \in SUBSET Seats : LockClassForBooking(w, u, c, S)
    \/ \E r \in Refs : LockReservationForPayment(w, r)
    \/ \E r \in Refs : LockReservationForCancel(w, r)
    \/ \E r \in Refs, ids \in SUBSET NationalIds : LockReservationForPassengers(w, r, ids)
    \/ \E f \in Flights : CancelFlight(w, f)
    \/ \E u \in Users, amount \in TopUps : LockUserForTopUp(w, u, amount)

\* The next step of what has begun.
Continue(w) ==
    \/ LockUserForBooking(w) \/ CommitBooking(w)
    \/ LockUserForPayment(w) \/ CommitPayment(w)
    \/ LockClassForRelease(w) \/ LockUserForRefund(w) \/ CommitRelease(w)
    \/ LockFlightForPassengers(w) \/ CommitPassengers(w)
    \/ CommitTopUp(w) \/ TellTopUp(w)
    \/ ExpireNext(w) \/ ListForSweep(w) \/ SweepNext(w) \/ WarnNext(w)
    \/ CompleteFlights(w)

Next ==
    \/ \E w \in Workers :
         \/ Request(w) \/ Continue(w)
         \/ ListOverdue(w) \/ ListExpiring(w) \/ ActivateFlights(w)
         \/ SweepFails(w) \/ Crash(w)
    \/ Tick
    \/ Quiet

Spec == Init /\ [][Next]_vars

\* Time passes, the scheduled expire_reservations command comes round again and
\* again, and what has begun goes on: PostgreSQL serves the waiters of a row
\* in turn, so a step that can be taken again and again is taken.
Fairness ==
    /\ WF_vars(Tick)
    /\ SF_vars(\E w \in Workers : ListOverdue(w))
    /\ \A w \in Workers : SF_vars(Continue(w))

FairSpec == Spec /\ Fairness

=============================================================================
