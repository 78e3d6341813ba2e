------------------------------ MODULE FlightDesk ------------------------------
(***************************************************************************)
(* What managers do to one flight and its seat classes while customers     *)
(* book, pay and cancel and the clock runs: the flight forms and the       *)
(* cancel button of dashboard/views.py, force_delete_seat_class of         *)
(* flights/admin.py, the status sync of flights/services.py.               *)
(*                                                                         *)
(* A form is one transaction that locks the flight and its classes; the    *)
(* cancellation that may follow it, or that the button starts, is a        *)
(* transaction for the status and one for every reservation.  Seats and    *)
(* money are the subject of other modules: a hold is here the lock of a    *)
(* class and a payment the lock of a reservation, and either may be under  *)
(* way while the managers act.                                             *)
(***************************************************************************)
EXTENDS Integers, FiniteSets

CONSTANTS
    Managers, Refs,
    Classes,      \* the class types a flight may have
    Departures,   \* what managers type for departure_datetime
    FlightTime,   \* arrival_datetime - departure_datetime
    ActiveLead,   \* ACTIVE from one hour before departure
    MaxTime,      \* bound: the clock
    MaxMishaps,   \* bound: managers' processes that die, reservations that fail
    None, Paying

ASSUME DeskAssumption ==
    /\ Departures \subseteq Nat /\ FlightTime \in Nat \ {0} /\ ActiveLead \in Nat
    /\ MaxTime \in Nat /\ MaxMishaps \in Nat
    /\ None \notin Classes /\ Paying \notin Classes \cup {None}

VARIABLES
    now,     \* timezone.now()
    flight,  \* the Flight row
    classes, \* its SeatClass rows
    rows,    \* Reservation rows
    open,    \* a customer's open transaction: the class it locks, Paying, or None
    desk,    \* what a manager's request is doing
    mishaps

vars == <<now, flight, classes, rows, open, desk, mishaps>>

-----------------------------------------------------------------------------

Statuses == {"scheduled", "active", "completed", "cancelled"}

NoFlight == [status |-> "none", departure |-> 0]

Posted == [status : Statuses, departure : Departures]

NoRow == [state |-> "none", class |-> None, paid |-> FALSE]

\* paid: paid_at is set.
Row == [state : {"pending", "reserved", "cancelled"}, class : Classes, paid : BOOLEAN]

Idle == [at |-> "idle", class |-> None, todo |-> {}, failed |-> {}, pass |-> 0]

Desk == [at : {"idle", "begin", "sweep", "expire", "delete"}, class : Classes \cup {None},
         todo : SUBSET Refs, failed : SUBSET Refs, pass : 0 .. 4]

Do(m, job) == desk' = [desk EXCEPT ![m] = job]

Active == {r \in Refs : rows[r].state \in {"pending", "reserved"}}

Written == {r \in Refs : rows[r] # NoRow}

RowsOf(c) == {r \in Written : rows[r].class = c}

Arrival == flight.departure + FlightTime

Bookable == flight.status = "scheduled" /\ flight.departure > now

\* Fault: a booking that is under way does not keep its class locked.
ClassIsFreeOfDeletes(c) == \A m \in Managers : desk[m].at = "delete" => desk[m].class # c

\* The row lock of a class, held by a booking or by a deletion.
ClassIsFree(c) ==
    /\ \A r \in Refs : open[r] # c
    /\ \A m \in Managers : desk[m].at = "delete" => desk[m].class # c

-----------------------------------------------------------------------------
(* The flight forms.                                                       *)

\* FlightCreateView.post
CreateFlight(m) ==
    /\ flight = NoFlight /\ desk[m] = Idle
    /\ flight' \in Posted
    /\ classes' \in SUBSET Classes
    /\ UNCHANGED <<now, rows, open, desk, mishaps>>

\* FlightForm.clean: a cancelled flight with a reservation stays cancelled.
Reopens(posted) ==
    /\ flight.status = "cancelled" /\ posted.status # "cancelled"
    /\ Written # {}

\* FlightEditView.post.  A form may be as old as it likes: whatever it posts is
\* judged by what is read under the locks of the flight and all its classes.  A
\* class that a reservation refers to is PROTECTed and refuses the whole form.
EditFlight(m) ==
    /\ flight # NoFlight /\ desk[m] = Idle
    /\ \A c \in classes : ClassIsFree(c)
    /\ \E posted \in Posted, dropped \in SUBSET classes, added \in SUBSET (Classes \ classes) :
         /\ ~Reopens(posted)
         /\ \A c \in dropped : RowsOf(c) = {}
         /\ flight' = posted
         /\ classes' = (classes \ dropped) \cup added
         /\ Do(m, IF posted.status = "cancelled" /\ flight.status # "cancelled"
                  THEN [Idle EXCEPT !.at = "begin"] ELSE Idle)
    /\ UNCHANGED <<now, rows, open, mishaps>>

-----------------------------------------------------------------------------
(* Cancelling the flight (FlightCancelView.post, cancel_flight_and_refund).*)

\* Fault: the button goes away with the status.
OfferedByStatus == flight.status \notin {"completed", "cancelled"}

\* can_cancel_flight and needs_cancel_retry of the details page.
CancelOffered ==
    /\ flight.status # "completed"
    /\ flight.status = "cancelled" => Active # {}

PressCancel(m) ==
    /\ flight # NoFlight /\ CancelOffered
    /\ desk[m] = Idle
    /\ Do(m, [Idle EXCEPT !.at = "begin"])
    /\ UNCHANGED <<now, flight, classes, rows, open, mishaps>>

BeginCancel(m) ==
    /\ desk[m].at = "begin"
    /\ IF flight.status = "completed"
       THEN UNCHANGED flight /\ Do(m, Idle)
       ELSE /\ flight' = [flight EXCEPT !.status = "cancelled"]
            /\ Do(m, [Idle EXCEPT !.at = "sweep", !.pass = 1])
    /\ UNCHANGED <<now, classes, rows, open, mishaps>>

\* At most three passes over what is still active.
ListActive(m) ==
    LET j == desk[m]
        left == Active \ j.failed IN
    /\ j.at = "sweep" /\ j.todo = {}
    /\ Do(m, IF j.pass > 3 \/ left = {} THEN Idle
             ELSE [j EXCEPT !.todo = left, !.pass = @ + 1])
    /\ UNCHANGED <<now, flight, classes, rows, open, mishaps>>

\* The reservation's row and the row of its class are locked.
CanRelease(r) == open[r] = None /\ ClassIsFree(rows[r].class)

\* A listed reservation that is deleted by now, or that needs nothing any more, is
\* passed over; the first has no row to wait for.
CanSkip(r) == rows[r] = NoRow \/ open[r] = None

Cancelled(r) == [rows EXCEPT ![r].state = "cancelled"]

SweepNext(m) ==
    /\ desk[m].at = "sweep"
    /\ \E r \in desk[m].todo :
         /\ \/ r \in Active /\ CanRelease(r) /\ rows' = Cancelled(r)
            \/ r \notin Active /\ CanSkip(r) /\ rows' = rows
         /\ Do(m, [desk[m] EXCEPT !.todo = @ \ {r}])
    /\ UNCHANGED <<now, flight, classes, open, mishaps>>

SweepFails(m) ==
    /\ desk[m].at = "sweep" /\ mishaps < MaxMishaps
    /\ \E r \in desk[m].todo :
         Do(m, [desk[m] EXCEPT !.todo = @ \ {r}, !.failed = @ \cup {r}])
    /\ mishaps' = mishaps + 1
    /\ UNCHANGED <<now, flight, classes, rows, open>>

-----------------------------------------------------------------------------
(* force_delete_seat_class                                                 *)

\* It first releases the holds that are overdue, whichever those are.
PressDelete(m, c) ==
    /\ desk[m] = Idle /\ c \in classes
    /\ \E overdue \in SUBSET {r \in Refs : rows[r].state = "pending"} :
         Do(m, [Idle EXCEPT !.at = "expire", !.class = c, !.todo = overdue])
    /\ UNCHANGED <<now, flight, classes, rows, open, mishaps>>

ReleaseNext(m) ==
    /\ desk[m].at = "expire"
    /\ \E r \in desk[m].todo :
         /\ \/ rows[r].state = "pending" /\ CanRelease(r) /\ rows' = Cancelled(r)
            \/ rows[r].state # "pending" /\ CanSkip(r) /\ rows' = rows
         /\ Do(m, [desk[m] EXCEPT !.todo = @ \ {r}])
    /\ UNCHANGED <<now, flight, classes, open, mishaps>>

\* Fault: only reservations that have been paid are in the way.
PaidInTheWay(c) == {r \in RowsOf(c) : rows[r].paid}

InTheWay(c) == {r \in RowsOf(c) : r \in Active \/ rows[r].paid}

CountForDelete(m) ==
    LET c == desk[m].class IN
    /\ desk[m].at = "expire" /\ desk[m].todo = {}
    /\ ClassIsFree(c)
    /\ Do(m, IF c \in classes /\ InTheWay(c) = {} THEN [Idle EXCEPT !.at = "delete", !.class = c]
             ELSE Idle)
    /\ UNCHANGED <<now, flight, classes, rows, open, mishaps>>

DeleteClass(m) ==
    LET c == desk[m].class IN
    /\ desk[m].at = "delete"
    /\ \A r \in RowsOf(c) : open[r] = None
    /\ rows' = [r \in Refs |-> IF r \in RowsOf(c) THEN NoRow ELSE rows[r]]
    /\ classes' = classes \ {c}
    /\ Do(m, Idle)
    /\ UNCHANGED <<now, flight, open, mishaps>>

\* The process of a manager's request dies between two transactions, or in one.
Crash(m) ==
    /\ desk[m] # Idle /\ mishaps < MaxMishaps
    /\ Do(m, Idle) /\ mishaps' = mishaps + 1
    /\ UNCHANGED <<now, flight, classes, rows, open>>

-----------------------------------------------------------------------------
(* Customers (tickets/services.py).                                        *)

BeginHold(r, c) ==
    /\ rows[r] = NoRow /\ open[r] = None
    /\ c \in classes /\ ClassIsFree(c) /\ Bookable
    /\ open' = [open EXCEPT ![r] = c]
    /\ UNCHANGED <<now, flight, classes, rows, desk, mishaps>>

CommitHold(r) ==
    /\ open[r] \in Classes
    /\ rows' = [rows EXCEPT ![r] = [state |-> "pending", class |-> open[r], paid |-> FALSE]]
    /\ open' = [open EXCEPT ![r] = None]
    /\ UNCHANGED <<now, flight, classes, desk, mishaps>>

BeginPay(r) ==
    /\ rows[r].state = "pending" /\ open[r] = None /\ Bookable
    /\ open' = [open EXCEPT ![r] = Paying]
    /\ UNCHANGED <<now, flight, classes, rows, desk, mishaps>>

CommitPay(r) ==
    /\ open[r] = Paying
    /\ rows' = [rows EXCEPT ![r].state = "reserved", ![r].paid = TRUE]
    /\ open' = [open EXCEPT ![r] = None]
    /\ UNCHANGED <<now, flight, classes, desk, mishaps>>

Rollback(r) ==
    /\ open[r] # None
    /\ open' = [open EXCEPT ![r] = None]
    /\ UNCHANGED <<now, flight, classes, rows, desk, mishaps>>

\* cancel_reservation, and expire_reservation of a hold that is overdue.
Release(r) ==
    /\ \/ rows[r].state = "pending"
       \/ rows[r].state = "reserved" /\ (flight.status = "cancelled" \/ Bookable)
    /\ CanRelease(r)
    /\ rows' = Cancelled(r)
    /\ UNCHANGED <<now, flight, classes, open, desk, mishaps>>

-----------------------------------------------------------------------------
(* sync_flight_statuses, one UPDATE after the other.                       *)

SetStatus(status) ==
    /\ flight' = [flight EXCEPT !.status = status]
    /\ UNCHANGED <<now, classes, rows, open, desk, mishaps>>

SyncActive ==
    /\ flight.status = "scheduled" /\ flight.departure <= now + ActiveLead /\ Arrival > now
    /\ SetStatus("active")

\* Fault: only flights that have been ACTIVE are completed.
HasArrivedActive == flight.status = "active" /\ Arrival <= now

HasArrived == flight.status \in {"scheduled", "active"} /\ Arrival <= now

SyncCompleted == HasArrived /\ SetStatus("completed")

Tick ==
    /\ now < MaxTime /\ now' = now + 1
    /\ UNCHANGED <<flight, classes, rows, open, desk, mishaps>>

-----------------------------------------------------------------------------

Init ==
    /\ now = 0
    /\ flight = NoFlight /\ classes = {}
    /\ rows = [r \in Refs |-> NoRow]
    /\ open = [r \in Refs |-> None]
    /\ desk = [m \in Managers |-> Idle]
    /\ mishaps = 0

\* The next step of what has begun.
Continue(m) ==
    \/ BeginCancel(m) \/ ListActive(m) \/ SweepNext(m)
    \/ ReleaseNext(m) \/ CountForDelete(m) \/ DeleteClass(m)

Next ==
    \/ \E m \in Managers :
         \/ CreateFlight(m) \/ EditFlight(m) \/ PressCancel(m)
         \/ \E c \in Classes : PressDelete(m, c)
         \/ Continue(m) \/ SweepFails(m) \/ Crash(m)
    \/ \E r \in Refs :
         \/ \E c \in Classes : BeginHold(r, c)
         \/ CommitHold(r) \/ BeginPay(r) \/ CommitPay(r) \/ Rollback(r) \/ Release(r)
    \/ SyncActive \/ SyncCompleted \/ Tick

Spec == Init /\ [][Next]_vars

\* The pages run the status sync whenever they are loaded, what has begun goes on
\* (the database serves waiters in turn), and a manager who is told that a
\* cancelled flight still has reservations presses the button again.
RetryCancel == flight.status = "cancelled" /\ \E m \in Managers : PressCancel(m)

Fairness ==
    /\ WF_vars(SyncCompleted)
    /\ SF_vars(RetryCancel)
    /\ \A m \in Managers : SF_vars(Continue(m))
    /\ \A r \in Refs : WF_vars(CommitHold(r) \/ CommitPay(r) \/ Rollback(r))

FairSpec == Spec /\ Fairness

-----------------------------------------------------------------------------

\* Type invariant, with the references the database promises to keep whole: a
\* reservation, and a booking under way, refer to a class of the flight.
FlightDeskTypeOK ==
    /\ now \in Nat /\ mishaps \in Nat
    /\ flight \in Posted \cup {NoFlight} /\ classes \subseteq Classes
    /\ rows \in [Refs -> Row \cup {NoRow}]
    /\ open \in [Refs -> classes \cup {Paying, None}]
    /\ desk \in [Managers -> Desk]
    /\ \A r \in Written : rows[r].class \in classes

\* flights/admin.py: "Paid reservations (even cancelled and refunded ones) are
\* financial records: deleting them would silently change the revenue and refund
\* totals": neither the edit form nor the deletion of a class removes one, also
\* when its payment commits while the manager's transaction is under way.
PaidRowsStay ==
    [][\A r \in Refs : rows[r].paid => rows'[r].paid /\ rows'[r].class = rows[r].class]_vars

\* dashboard/forms.py: a cancelled flight with reservations is not opened again, and
\* a booking that was under way when the flight was cancelled counts as one, although
\* the form cannot see it.
NotReopened ==
    [][flight.status = "cancelled" /\ (Written # {} \/ \E r \in Refs : open[r] \in Classes)
       => flight'.status = "cancelled"]_vars

\* Every reservation of a cancelled flight is released in the end, also when its
\* booking committed after the last pass, a reservation failed, or the manager's
\* process died between the status and the refunds.
EveryoneIsRefunded ==
    \A r \in Refs : (flight.status = "cancelled" /\ r \in Active) ~> (r \notin Active)

\* A flight that has arrived does not stay open for ever, whatever status an old form
\* has written back, unless it was given a later departure.
ArrivedFlightsComplete ==
    (flight.status \in {"scheduled", "active"} /\ Arrival <= now)
        ~> (flight.status \in {"completed", "cancelled"} \/ Arrival > now)
=============================================================================
