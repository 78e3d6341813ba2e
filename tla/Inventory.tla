------------------------------ MODULE Inventory ------------------------------
(***************************************************************************)
(* The seats of one flight and those who change them: managers generate    *)
(* seats, edit capacities (in the dashboard, under locks, and in the       *)
(* Django admin, from values read without a lock) and run the recount      *)
(* command, while customers book, pay and give seats back.                 *)
(*                                                                         *)
(* A manager's transaction is a sequence of steps, as in Booking.  What a  *)
(* customer does is one step that needs the lock of the class: module      *)
(* Booking has it in detail and BookingProofs shows that what it read      *)
(* under that lock still holds when it commits.  Only a payment, which     *)
(* does not lock the class, is two steps here.                             *)
(***************************************************************************)
EXTENDS Integers, FiniteSets, Sequences, FiniteSetsExt

CONSTANTS
    Refs, Managers, Flight, None,
    PkOrder,                 \* the classes by primary key
    CabinOrder,              \* the classes by CLASS_ROW_ORDER
    Columns,                 \* the number of COLUMN_LETTERS
    InitialCapacity,
    MaxCapacity, MaxRow,     \* bounds: the capacities managers type, the rows in use
    Ops                      \* the operations an instance exercises

Classes == {PkOrder[i] : i \in DOMAIN PkOrder}

ASSUME InventoryAssumption ==
    /\ PkOrder \in Seq(Classes) /\ Len(PkOrder) = Cardinality(Classes) /\ Flight \notin Classes
    /\ CabinOrder \in [1 .. Len(PkOrder) -> Classes]
    /\ {CabinOrder[i] : i \in DOMAIN CabinOrder} = Classes
    /\ Columns \in Nat \ {0} /\ MaxCapacity \in Nat /\ MaxRow \in Nat
    /\ InitialCapacity \in [Classes -> 0 .. MaxCapacity]
    /\ None \notin Managers \cup Classes

VARIABLES
    capacity, available, \* SeatClass
    seats,               \* Seat rows; row and column are one number, counted through the cabin
    free,                \* the seats with is_available = True
    hold,                \* Reservation and ReservationSeat rows
    lock,                \* the manager that holds the Flight's or a class's lock
    txn                  \* the manager's transaction, or the command it runs

rows == <<capacity, available, seats, free, hold>>
vars == <<rows, lock, txn>>

NoHold == [status |-> "none", class |-> None, seats |-> {}, overdue |-> FALSE, paying |-> FALSE]

NoTxn == [op |-> "none", pc |-> "none", class |-> None, want |-> InitialCapacity,
          derived |-> [c \in Classes |-> 0], row |-> 0, added |-> {}, removed |-> {},
          refs |-> {}, classes |-> {}]

-----------------------------------------------------------------------------
(* The cabin.                                                              *)

SeatsOf(S, c) == {s \in S : s.class = c}

RowOf(s) == s.place \div Columns

LastRow(S) == Max({RowOf(s) : s \in S} \cup {0})

\* n seats of a class, one after the other, rows filled from A on.
Span(c, first, n) == {[class |-> c, place |-> p] : p \in first .. first + n - 1}

RowsFor(n) == (n + Columns - 1) \div Columns

IsActive(r) == hold[r].status \in {"pending", "reserved"}

Linked == UNION {hold[r].seats : r \in Refs}

\* Fault: growing always goes on from the class's own last seat.
FirstNewPlaceOwn(S, c) == Max({s.place : s \in SeatsOf(S, c)}) + 1

\* generate_seats_for_flight: the classes that have no seats in S, in cabin
\* order, each in rows of its own from next on; row[i] is where the i-th begins.
Generated(S, next, cap) ==
    LET fresh == {i \in DOMAIN CabinOrder : SeatsOf(S, CabinOrder[i]) = {}}
        row[i \in DOMAIN CabinOrder] ==
            IF i = 1 THEN next
            ELSE row[i - 1] + IF i - 1 \in fresh THEN RowsFor(cap[CabinOrder[i - 1]]) ELSE 0
    IN  UNION {Span(CabinOrder[i], row[i] * Columns, cap[CabinOrder[i]]) : i \in fresh}

\* sync_seats_with_capacity, capacity went up: the last row is continued if it is
\* the class's own.
FirstNewPlace(S, c) ==
    LET last == Max({s.place : s \in SeatsOf(S, c)}) IN
    IF last \div Columns = LastRow(S) THEN last + 1 ELSE (LastRow(S) + 1) * Columns

ToAdd(S, c, n) ==
    LET have == Cardinality(SeatsOf(S, c)) IN
    IF have = 0 \/ n <= have THEN {} ELSE Span(c, FirstNewPlace(S, c), n - have)

\* Fault: seats are added but never removed.
NoExcess(S, c, n) == 0 * Cardinality(SeatsOf(S, c)) * n

Excess(S, c, n) ==
    LET have == Cardinality(SeatsOf(S, c)) IN IF n < have THEN have - n ELSE 0

\* capacity went down: seats that are free, from the back of the class.
Candidates(S, F, c) == SeatsOf(F, c)

ToRemove(S, F, c, n) ==
    {s \in Candidates(S, F, c) :
        Cardinality({t \in Candidates(S, F, c) : t.place > s.place}) < Excess(S, c, n)}

\* Neither ValueError (not enough free seats) nor ProtectedError (a linked seat).
CanShrink(S, F, c, n) ==
    /\ Cardinality(ToRemove(S, F, c, n)) = Excess(S, c, n)
    /\ ToRemove(S, F, c, n) \cap Linked = {}

Synced(S, c, n) == (S \cup ToAdd(S, c, n)) \ ToRemove(S, free, c, n)

\* resync_flight_seats, a class at a time; each sees what was added before it.
Resynced(order, cap) ==
    LET after[i \in 0 .. Len(order)] ==
            IF i = 0 THEN seats ELSE Synced(after[i - 1], order[i], cap[order[i]])
    IN  after[Len(order)]

-----------------------------------------------------------------------------
(* Customers.                                                              *)

Unlocked(c) == lock[c] = None

SideBySide(S) ==
    /\ \A s, t \in S : RowOf(s) = RowOf(t)
    /\ \E first \in {s.place : s \in S} :
          {s.place : s \in S} = first .. first + Cardinality(S) - 1

\* create_pending_reservation
Book(r, c, S) ==
    /\ hold[r].status = "none" /\ Unlocked(c)
    /\ S # {} /\ SideBySide(S) /\ S \cap Linked = {}
    /\ Cardinality(S) <= available[c]
    /\ hold' = [hold EXCEPT ![r] = [NoHold EXCEPT !.status = "pending", !.class = c, !.seats = S]]
    /\ available' = [available EXCEPT ![c] = @ - Cardinality(S)]
    /\ free' = free \ S
    /\ UNCHANGED <<capacity, seats, lock, txn>>

\* pay_reservation: the deadline is looked at when the payment begins.
BeginPay(r) ==
    /\ hold[r].status = "pending" /\ ~hold[r].overdue /\ ~hold[r].paying
    /\ hold' = [hold EXCEPT ![r].paying = TRUE]
    /\ UNCHANGED <<capacity, available, seats, free, lock, txn>>

FinishPay(r) ==
    /\ hold[r].paying
    /\ \E status \in {"reserved", "pending"} :
         hold' = [hold EXCEPT ![r].status = status, ![r].paying = FALSE]
    /\ UNCHANGED <<capacity, available, seats, free, lock, txn>>

\* payment_expires_at passes.
Lapse(r) ==
    /\ "lapse" \in Ops /\ hold[r].status = "pending" /\ ~hold[r].overdue
    /\ hold' = [hold EXCEPT ![r].overdue = TRUE]
    /\ UNCHANGED <<capacity, available, seats, free, lock, txn>>

\* available_seats <= capacity is a constraint of the table: an UPDATE that would
\* break it raises IntegrityError and the transaction is rolled back.
CanGiveBack(r) ==
    LET c == hold[r].class IN available[c] + Cardinality(hold[r].seats) <= capacity[c]

\* _cancel_locked
GiveBack(r) ==
    LET c == hold[r].class IN
    /\ available' = [available EXCEPT ![c] = @ + Cardinality(hold[r].seats)]
    /\ free' = free \cup hold[r].seats
    /\ hold' = [hold EXCEPT ![r].status = "cancelled", ![r].seats = {}]

\* Cancelled by its user, with its flight, or because it is overdue.
Release(r) ==
    /\ IsActive(r) /\ ~hold[r].paying /\ Unlocked(hold[r].class)
    /\ CanGiveBack(r) /\ GiveBack(r)
    /\ UNCHANGED <<capacity, seats, lock, txn>>

\* The direct edit of the database that the recount's help text speaks of.
HandEdit(c) ==
    /\ "handEdit" \in Ops /\ Unlocked(c)
    /\ \/ /\ \E n \in 0 .. capacity[c] : available' = [available EXCEPT ![c] = n]
          /\ UNCHANGED free
       \/ /\ \E s \in SeatsOf(seats, c) :
                free' = IF s \in free THEN free \ {s} ELSE free \cup {s}
          /\ UNCHANGED available
    /\ UNCHANGED <<capacity, seats, hold, lock, txn>>

-----------------------------------------------------------------------------
(* Managers' transactions.                                                 *)

Idle(m) == txn[m] = NoTxn

\* Bound: new rows are only added to a cabin of at most MaxRow rows.
MayBegin(m) == Idle(m) /\ LastRow(seats) <= MaxRow

Doing(m, op, pc) == txn[m].op = op /\ txn[m].pc = pc

Locking(m, row, next) ==
    /\ lock[row] = None
    /\ lock' = [lock EXCEPT ![row] = m]
    /\ txn' = [txn EXCEPT ![m] = next]

EndTxn(m) ==
    /\ lock' = [row \in DOMAIN lock |-> IF lock[row] = m THEN None ELSE lock[row]]
    /\ txn' = [txn EXCEPT ![m] = NoTxn]

\* generate_seats_for_flight locks the Flight, not the classes it reads.
GenerateRead(m) ==
    /\ "generate" \in Ops /\ MayBegin(m)
    /\ Locking(m, Flight, [NoTxn EXCEPT !.op = "generate", !.pc = "insert",
                                        !.want = capacity, !.row = LastRow(seats) + 1])
    /\ UNCHANGED rows

\* The foreign key of a new seat waits for whoever locks its class.
GenerateInsert(m) ==
    LET new == Generated(seats, txn[m].row, txn[m].want) IN
    /\ Doing(m, "generate", "insert")
    /\ \A s \in new : Unlocked(s.class)
    /\ seats' = seats \cup new /\ free' = free \cup new
    /\ EndTxn(m)
    /\ UNCHANGED <<capacity, available, hold>>

\* SeatClassForm.clean and SeatClassAdminForm.clean: what a class that has been
\* read with capacity cap and av seats available gets for a new capacity n.
Booked(cap, av) == cap - av

Derived(n, cap, av) == n - Booked(cap, av)

\* FlightEditView.post: Flight, then every class, then the forms are read.
EditLockFlight(m, want) ==
    /\ "edit" \in Ops /\ MayBegin(m)
    /\ Locking(m, Flight, [NoTxn EXCEPT !.op = "edit", !.pc = "classes", !.want = want])
    /\ UNCHANGED rows

LockedBy(m) == {c \in Classes : lock[c] = m}

\* Fault: the forms are validated before the classes are locked.
NothingToLock(m) == {}

ToLock(m) == Classes \ LockedBy(m)

EditLockClass(m) ==
    /\ Doing(m, "edit", "classes") /\ ToLock(m) # {}
    /\ Locking(m, PkOrder[Cardinality(LockedBy(m)) + 1], txn[m])
    /\ UNCHANGED rows

\* Fault: whatever the manager typed is taken.
EditUnchecked(want) == want \in [Classes -> 0 .. MaxCapacity]

EditIsValid(want) ==
    \A c \in Classes : /\ want[c] >= Booked(capacity[c], available[c])
                       /\ CanShrink(seats, free, c, want[c])

\* An invalid form and a failed resync both leave everything as it was.
EditRead(m) ==
    LET t == txn[m] IN
    /\ Doing(m, "edit", "classes") /\ ToLock(m) = {}
    /\ IF EditIsValid(t.want)
       THEN /\ \E order \in {PkOrder, CabinOrder} :
                 LET after == Resynced(order, t.want) IN
                 txn' = [txn EXCEPT ![m] =
                   [t EXCEPT !.pc = "save", !.classes = Classes,
                             !.derived = [c \in Classes |->
                                            Derived(t.want[c], capacity[c], available[c])],
                             !.added = after \ seats, !.removed = seats \ after]]
            /\ UNCHANGED lock
       ELSE EndTxn(m)
    /\ UNCHANGED rows

\* SeatClassAdmin: the form is validated against a row that is not locked.
AdminRead(m, c, n) ==
    /\ "admin" \in Ops /\ MayBegin(m)
    /\ n >= Booked(capacity[c], available[c])
    /\ txn' = [txn EXCEPT ![m] =
         [NoTxn EXCEPT !.op = "admin", !.pc = "update", !.class = c, !.classes = {c},
                       !.want[c] = n, !.derived[c] = Derived(n, capacity[c], available[c])]]
    /\ UNCHANGED <<rows, lock>>

\* SeatClassAdmin.save_model: the row is written, then the seats are synchronised.
AdminUpdate(m) ==
    LET t == txn[m]
        n == t.want[t.class] IN
    /\ Doing(m, "admin", "update") /\ Unlocked(t.class)
    /\ IF CanShrink(seats, free, t.class, n)
       THEN Locking(m, t.class,
                    [t EXCEPT !.pc = "save", !.added = ToAdd(seats, t.class, n),
                              !.removed = ToRemove(seats, free, t.class, n)])
       ELSE EndTxn(m)
    /\ UNCHANGED rows

\* Both commit what they derived from the rows they read.
SaveClasses(m) ==
    LET t == txn[m] IN
    /\ t.pc = "save"
    /\ capacity' = [c \in Classes |-> IF c \in t.classes THEN t.want[c] ELSE capacity[c]]
    /\ available' = [c \in Classes |-> IF c \in t.classes THEN t.derived[c] ELSE available[c]]
    /\ seats' = (seats \ t.removed) \cup t.added
    /\ free' = (free \ t.removed) \cup t.added
    /\ EndTxn(m)
    /\ UNCHANGED hold

-----------------------------------------------------------------------------
(* recalculate_seat_availability: overdue holds first, then class by class.*)

RecountBegin(m) ==
    /\ "recount" \in Ops /\ Idle(m)
    /\ txn' = [txn EXCEPT ![m] =
         [NoTxn EXCEPT !.op = "recount", !.pc = "class", !.classes = Classes,
                       !.refs = {r \in Refs : hold[r].status = "pending" /\ hold[r].overdue}]]
    /\ UNCHANGED <<rows, lock>>

\* expire_pending_reservations waits for a payment of the reservation; an
\* IntegrityError ends the command.
RecountExpire(m) ==
    /\ Doing(m, "recount", "class")
    /\ \E r \in txn[m].refs :
         /\ ~hold[r].paying
         /\ IF hold[r].status # "pending"
            THEN UNCHANGED rows /\ txn' = [txn EXCEPT ![m].refs = @ \ {r}]
            ELSE /\ Unlocked(hold[r].class)
                 /\ IF CanGiveBack(r)
                    THEN /\ GiveBack(r) /\ UNCHANGED <<capacity, seats>>
                         /\ txn' = [txn EXCEPT ![m].refs = @ \ {r}]
                    ELSE UNCHANGED rows /\ txn' = [txn EXCEPT ![m] = NoTxn]
    /\ UNCHANGED lock

\* Fault: unpaid reservations do not count.
PaidOnly(c) == {r \in Refs : hold[r].class = c /\ hold[r].status = "reserved"}

\* holding_reservations
Holding(c) ==
    {r \in Refs : /\ hold[r].class = c
                  /\ \/ hold[r].status = "reserved"
                     \/ hold[r].status = "pending" /\ ~hold[r].overdue}

HeldSeats(c) == UNION {hold[r].seats : r \in Holding(c)}

RecountSum(m) ==
    /\ Doing(m, "recount", "class") /\ txn[m].refs = {}
    /\ \E c \in txn[m].classes :
         Locking(m, c, [txn[m] EXCEPT !.pc = "flags", !.class = c, !.classes = @ \ {c},
                                      !.derived[c] = Max({0, capacity[c] - Cardinality(HeldSeats(c))})])
    /\ UNCHANGED rows

\* The reservations are read again for the flags of the seats.
RecountFlags(m) ==
    LET t == txn[m] IN
    /\ Doing(m, "recount", "flags")
    /\ available' = [available EXCEPT ![t.class] = t.derived[t.class]]
    /\ free' = (free \ SeatsOf(seats, t.class)) \cup (SeatsOf(seats, t.class) \ HeldSeats(t.class))
    /\ lock' = [lock EXCEPT ![t.class] = None]
    /\ txn' = [txn EXCEPT ![m] =
         IF t.classes = {} THEN NoTxn ELSE [t EXCEPT !.pc = "class", !.class = None]]
    /\ UNCHANGED <<capacity, seats, hold>>

-----------------------------------------------------------------------------

\* Nobody waits for anybody: the system may stop here, and nowhere else.
Quiet == (\A m \in Managers : Idle(m)) /\ UNCHANGED vars

\* Seats are generated before the flight is on sale, or later.
Init ==
    /\ capacity = InitialCapacity
    /\ available = InitialCapacity
    /\ seats \in {{}, Generated({}, 1, InitialCapacity)}
    /\ free = seats
    /\ hold = [r \in Refs |-> NoHold]
    /\ lock = [row \in Classes \cup {Flight} |-> None]
    /\ txn = [m \in Managers |-> NoTxn]

Customer ==
    \/ \E r \in Refs, c \in Classes : \E S \in SUBSET SeatsOf(free, c) : Book(r, c, S)
    \/ \E r \in Refs : BeginPay(r) \/ FinishPay(r) \/ Lapse(r) \/ Release(r)

Manager(m) ==
    \/ GenerateRead(m) \/ GenerateInsert(m)
    \/ \E want \in [Classes -> 0 .. MaxCapacity] : EditLockFlight(m, want)
    \/ EditLockClass(m) \/ EditRead(m)
    \/ \E c \in Classes, n \in 0 .. MaxCapacity : AdminRead(m, c, n)
    \/ AdminUpdate(m) \/ SaveClasses(m)
    \/ RecountBegin(m) \/ RecountExpire(m) \/ RecountSum(m) \/ RecountFlags(m)

Next ==
    \/ Customer
    \/ \E m \in Managers : Manager(m)
    \/ \E c \in Classes : HandEdit(c)
    \/ Quiet

Spec == Init /\ [][Next]_vars

=============================================================================
