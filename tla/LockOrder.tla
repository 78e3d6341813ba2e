------------------------------ MODULE LockOrder ------------------------------
(***************************************************************************)
(* The row locks of the system's transactions, and nothing else: a         *)
(* transaction is the sequence of rows it locks (tickets/services.py,      *)
(* "Lock order used everywhere (to avoid deadlocks)").  The rows are those *)
(* of four tables: reservations, flights, classes and users.  Seats are    *)
(* only locked by who holds their class, except by the admin's deletions;  *)
(* the rows of other tables, and waits for a unique key, are left out.  A  *)
(* row that the foreign key of a new row refers to is locked like any      *)
(* other: that only adds waiting.                                          *)
(***************************************************************************)
EXTENDS Integers, FiniteSets, Sequences

CONSTANTS
    Processes, Reservations, Flights, Classes, Users,
    ClassFor, OwnerOf, \* of a reservation
    FlightOf,          \* of a class
    ScanOrder,         \* of a flight, among the flights an UPDATE of several meets
    Ops,               \* the pages of the Django admin an instance includes
    None

Rows == Reservations \cup Flights \cup Classes \cup Users

ASSUME LockOrderAssumption ==
    /\ ClassFor \in [Reservations -> Classes] /\ OwnerOf \in [Reservations -> Users]
    /\ FlightOf \in [Classes -> Flights]
    /\ ScanOrder \in [Flights -> 1 .. Cardinality(Flights)]
    /\ \A f, g \in Flights : ScanOrder[f] = ScanOrder[g] => f = g
    /\ IsFiniteSet(Classes) /\ IsFiniteSet(Flights) /\ None \notin Processes
    /\ Reservations \cap (Flights \cup Classes \cup Users) = {}
    /\ Flights \cap (Classes \cup Users) = {} /\ Classes \cap Users = {}

VARIABLES
    lock, \* the process that holds a row's lock
    plan  \* the rows a process has still to lock, in this order

vars == <<lock, plan>>

-----------------------------------------------------------------------------
(* What the operations lock.                                               *)

\* Fault: a booking counts the user's pending reservations before it takes seats.
BookingUserFirst == {<<u, c>> : c \in Classes, u \in Users}

\* create_pending_reservation
Booking == {<<c, u>> : c \in Classes, u \in Users}

\* pay_reservation of a reservation that is not overdue.
Payment == {<<r, OwnerOf[r]>> : r \in Reservations}

\* _cancel_locked, for a user, the expiry, an overdue payment or a cancelled
\* flight; the owner's row for the refund or the notification.
Release == {<<r, ClassFor[r], OwnerOf[r]>> : r \in Reservations}

\* AddPassengersView.post
Passengers == {<<r, FlightOf[ClassFor[r]]>> : r \in Reservations}

ClassesOf(f) == {c \in Classes : FlightOf[c] = f}

\* n different classes: FlightEditView goes by primary key, but the queries of
\* FlightAdmin and resync_flight_seats have no order.
Orders(C, n) == {order \in [1 .. n -> C] : \A i, j \in 1 .. n : i # j => order[i] # order[j]}

\* FlightEditView.post, generate_seats_for_flight (only the classes that get
\* seats), FlightAdmin with its inlines.
EditOf(f, n) == {<<f>> \o order : order \in Orders(ClassesOf(f), n)}

FlightEdit == UNION {EditOf(f, n) : f \in Flights, n \in 0 .. Cardinality(Classes)}

\* CancelFlight's own short transaction, a class (SeatClassAdmin, the recount,
\* force_delete_seat_class: the reservations it deletes are all cancelled, and
\* whoever holds one of those goes on to no other row), an account, a top-up.
OneRow == {<<row>> : row \in Flights \cup Classes \cup Users}

\* The status sync: one UPDATE of several flights, in the order it meets them.
Sync ==
    {t \in UNION {Orders(Flights, n) : n \in 1 .. Cardinality(Flights)} :
        \A i, j \in DOMAIN t : i < j => ScanOrder[t[i]] < ScanOrder[t[j]]}

\* FlightAdmin.save_related cancels the flight inside the transaction of the
\* admin's page, which has locked the flight and, in resync_flight_seats, its
\* classes; then it comes to the flight's reservations.
AdminCancelOf(r) ==
    LET f == FlightOf[ClassFor[r]] IN
    {edit \o <<r, OwnerOf[r]>> : edit \in EditOf(f, Cardinality(ClassesOf(f)))}

AdminCancel == UNION {AdminCancelOf(r) : r \in Reservations}

\* The admin's own deletion of classes C and flights F: Django deletes a table at
\* a time, children first, the rows of a table in any order; at the commit the
\* foreign key is checked against a reservation that was made meanwhile.
DeletionOf(C, F) ==
    LET deletion == {c \o f : c \in Orders(C, Cardinality(C)), f \in Orders(F, Cardinality(F))}
    IN  deletion \cup {d \o <<r>> : d \in deletion, r \in {r \in Reservations : ClassFor[r] \in C}}

\* Of classes, of flights with all their classes, of accounts without reservations.
AdminDelete ==
    UNION ({DeletionOf(C, {}) : C \in SUBSET Classes \ {{}}}
           \cup {DeletionOf(UNION {ClassesOf(f) : f \in F}, F) : F \in SUBSET Flights \ {{}}}
           \cup {Orders(U, Cardinality(U)) : U \in SUBSET Users \ {{}}})

\* SeatClassAdmin moves a class to another flight; the foreign key is checked, and
\* the flight locked, at the commit.
AdminMove == UNION {{<<c, f>> : f \in Flights \ {FlightOf[c]}} : c \in Classes}

\* What customers, the dashboard, the commands and the admin's saves lock.
Usual ==
    Booking \cup Payment \cup Release \cup Passengers \cup FlightEdit \cup OneRow \cup Sync

\* These three pages of the admin do not follow the order.
Transactions ==
    Usual
    \cup (IF "adminCancel" \in Ops THEN AdminCancel ELSE {})
    \cup (IF "adminDelete" \in Ops THEN AdminDelete ELSE {})
    \cup (IF "adminMove" \in Ops THEN AdminMove ELSE {})

-----------------------------------------------------------------------------

Held(p) == {row \in Rows : lock[row] = p}

Idle(p) == plan[p] = <<>> /\ Held(p) = {}

Begin(p) ==
    /\ Idle(p)
    /\ \E t \in Transactions : plan' = [plan EXCEPT ![p] = t]
    /\ UNCHANGED lock

LockNext(p) ==
    /\ plan[p] # <<>> /\ lock[Head(plan[p])] = None
    /\ lock' = [lock EXCEPT ![Head(plan[p])] = p]
    /\ plan' = [plan EXCEPT ![p] = Tail(@)]

\* COMMIT, or ROLLBACK before the last row is locked.
End(p) ==
    /\ Held(p) # {}
    /\ lock' = [row \in Rows |-> IF lock[row] = p THEN None ELSE lock[row]]
    /\ plan' = [plan EXCEPT ![p] = <<>>]

\* A transaction that is waiting for a lock cannot give up by itself.
Finish(p) == plan[p] = <<>> /\ End(p)

GiveUp(p) == plan[p] # <<>> /\ lock[Head(plan[p])] = None /\ End(p)

Init ==
    /\ lock = [row \in Rows |-> None]
    /\ plan = [p \in Processes |-> <<>>]

Continue(p) == LockNext(p) \/ Finish(p)

Next == \E p \in Processes : Begin(p) \/ Continue(p) \/ GiveUp(p)

Spec == Init /\ [][Next]_vars

\* PostgreSQL serves the waiters of a row in turn.
FairSpec == Spec /\ \A p \in Processes : SF_vars(Continue(p))

-----------------------------------------------------------------------------

\* Waiting for somebody who waits, and so on in a circle: PostgreSQL would end it
\* by aborting one of them.
WaitsFor(p, q) == q # p /\ plan[p] # <<>> /\ lock[Head(plan[p])] = q

\* "concurrent requests cannot deadlock": there are no processes each of which
\* waits for a row lock that another of them holds.  It is meant for the
\* transactions of Usual; with any of the admin's three pages it is violated.
NoWaitCycle ==
    ~ \E S \in SUBSET Processes : S # {} /\ \A p \in S : \E q \in S : WaitsFor(p, q)

\* Whoever has begun a transaction of Usual comes to an end, however many others
\* there are.
EveryTransactionEnds == \A p \in Processes : ~Idle(p) ~> Idle(p)

=============================================================================
