---------------------------- MODULE BookingPages ----------------------------
(***************************************************************************)
(* The pages of a booking (tickets/views.py) in the browser of one user,   *)
(* who keeps several tabs open: the number of seats, the seat map, the     *)
(* passengers, the payment, the reservation and the list.  A tab shows a   *)
(* page that may be long out of date, or waits for the answer to a GET,    *)
(* which is the page or a redirect to the next one.                        *)
(*                                                                         *)
(* A request is one step, except the passenger form, which another request *)
(* may overtake between its checks and its commit: the locks of the other  *)
(* transactions are the subject of Booking, and so is the money; here the  *)
(* wallet suffices or does not.  One flight, one class of seats.           *)
(***************************************************************************)
EXTENDS Integers, FiniteSets, SequencesExt

CONSTANTS
    Tabs, Refs, Seats, Row, Col, \* Row and Col of a seat
    Ids,                         \* national ids of passengers
    Departure, PayWindow,
    MaxSeats, MaxPending,        \* MAX_SEATS_..., MAX_PENDING_RESERVATIONS_PER_USER
    MaxTime, MaxOthers,          \* bounds: the clock, the seats of others
    Others, None

ASSUME KeysAssumption ==
    /\ IsFiniteSet(Seats) /\ None \notin Refs /\ Others \notin Refs
    /\ Row \in [Seats -> Nat] /\ Col \in [Seats -> Nat]

ASSUME SettingsAssumption ==
    /\ PayWindow \in Nat /\ Departure \in Nat /\ MaxTime \in Nat
    /\ MaxSeats \in Nat \ {0} /\ MaxPending \in Nat /\ MaxOthers \in Nat

VARIABLES
    now,       \* timezone.now()
    cancelled, \* the flight has been cancelled
    holder,    \* of a seat: a reservation of the user, Others, or None
    res,       \* the user's Reservation rows, with their passengers by form
    saving,    \* of a tab: the passenger form being saved, with its locks
    tab        \* what a tab shows, or asks for

world == <<now, cancelled, holder>>
vars == <<world, res, saving, tab>>

-----------------------------------------------------------------------------
Absent == [status |-> "none", count |-> 0, deadline |-> 0, rows |-> <<>>]

NotSaving == [ref |-> None, rows |-> <<>>]

\* count: what the address or the form says; entered: INITIAL_FORMS of a
\* passenger form; offered: the reservation page has a cancel button.
Page == [at : {"flight", "create", "seats", "passengers", "payment", "detail", "list"},
         ref : Refs \cup {None}, count : 0 .. MaxSeats, entered : 0 .. MaxSeats,
         offered : BOOLEAN, asked : BOOLEAN]

\* The page of the flight only reads; it is shown at once.
FlightPage == [at |-> "flight", ref |-> None, count |-> 0, entered |-> 0, offered |-> FALSE,
               asked |-> FALSE]

\* A redirect, or an address the user opens.
Request(at, r, n) == [at |-> at, ref |-> r, count |-> n, entered |-> 0, offered |-> FALSE,
                      asked |-> TRUE]
Ask(at) == Request(at, None, 0)
AskFor(at, r) == Request(at, r, 0)

Show(t, page) == tab' = [tab EXCEPT ![t] = page]

\* The page itself comes back, unchanged.
Shown(t) == Show(t, [tab[t] EXCEPT !.asked = FALSE])

Asks(t, at) == tab[t].asked /\ tab[t].at = at

\* A tab whose form is being saved waits for the answer.
Idle(t) == ~tab[t].asked /\ saving[t] = NotSaving
Shows(t, at) == Idle(t) /\ tab[t].at = at

-----------------------------------------------------------------------------
(* Conditions on the data (as in Booking, for one flight and one user).    *)

Bookable == ~cancelled /\ Departure > now

Overdue(r) == res[r].status = "pending" /\ res[r].deadline <= now

IsLive(r) == res[r].status = "reserved" \/ (res[r].status = "pending" /\ res[r].deadline > now)

Free == {s \in Seats : holder[s] = None}

LimitReached ==
    Cardinality({r \in Refs : res[r].status = "pending" /\ res[r].deadline > now}) >= MaxPending

SideBySide(S) ==
    \/ Cardinality(S) < 2
    \/ /\ \A s, t \in S : Row[s] = Row[t]
       /\ \E low \in {Col[s] : s \in S} :
            {Col[s] : s \in S} = low .. (low + Cardinality(S) - 1)

Cancellable(r) ==
    \/ res[r].status = "pending"
    \/ res[r].status = "reserved" /\ (cancelled \/ Bookable)

CanEditPassengers(r) ==
    \/ res[r].status = "pending" /\ ~Overdue(r)
    \/ res[r].status = "reserved" /\ Bookable

PassengersComplete(r) == Len(res[r].rows) = res[r].count

\* Fault: neither the reservation nor the flight is locked by the passenger form.
NeverLocked(r) == TRUE

\* Nobody is saving the passengers of r, which keeps r locked.
CanLock(r) == \A t \in Tabs : saving[t].ref # r

-----------------------------------------------------------------------------
(* has_adjacent_block: the free columns of a row in order, and the length  *)
(* of the run that ends at each of them.                                   *)

Sorted(X) ==
    CHOOSE columns \in [1 .. Cardinality(X) -> X] :
        \A i, j \in DOMAIN columns : i < j => columns[i] < columns[j]

FreeColumns(row) == Sorted({Col[s] : s \in {q \in Free : Row[q] = row}})

\* Fault: a gap does not end the run.
RunsAcross(columns) == [i \in DOMAIN columns |-> i]

Runs(columns) ==
    LET run[i \in DOMAIN columns] ==
          IF i > 1 /\ columns[i] = columns[i - 1] + 1 THEN run[i - 1] + 1 ELSE 1
    IN  run

HasAdjacentBlock(n) ==
    IF n <= 1 THEN Cardinality(Free) >= n
    ELSE \E row \in {Row[s] : s \in Free} :
            LET run == Runs(FreeColumns(row)) IN \E i \in DOMAIN run : run[i] >= n

\* FlightListView: upcoming flights with a class of n free seats.
SearchFinds(n) == Bookable /\ Cardinality(Free) >= n

\* ReservationCreateView.post sends the user on to the seat map.
MayChooseSeats(n) ==
    Bookable /\ ~LimitReached /\ Cardinality(Free) >= n /\ HasAdjacentBlock(n)

\* create_pending_reservation accepts the seats.
CanHold(n, S) ==
    /\ n \in 1 .. MaxSeats /\ Cardinality(S) = n
    /\ Bookable /\ S \subseteq Free /\ SideBySide(S) /\ ~LimitReached

-----------------------------------------------------------------------------
(* Steps 1 and 2: the number of seats and the seats.                       *)

\* Fault: a number that is too large is taken as it is.
ClampedBelow(n) == IF n < 1 THEN 1 ELSE n

\* get_seats_count, of the number in the address of the seat map.
Clamped(n) == IF n < 1 THEN 1 ELSE IF n > MaxSeats THEN MaxSeats ELSE n

SeatMap(n) == Request("seats", None, Clamped(n))

\* The user follows a link, a bookmark or an address of his own.
Visit(t) ==
    /\ Idle(t)
    /\ \/ \E at \in {"create", "list"} : Show(t, Ask(at))
       \/ \E n \in 0 .. MaxSeats + 1 : Show(t, SeatMap(n))
       \/ \E at \in {"detail", "passengers", "payment"}, r \in Refs :
            res[r].status # "none" /\ Show(t, AskFor(at, r))
    /\ UNCHANGED <<world, res, saving>>

\* check_can_book, for GET and POST: where the user is sent instead.
BlockedTo == IF ~Bookable THEN {FlightPage} ELSE IF LimitReached THEN {Ask("list")} ELSE {}

GetCreate(t) ==
    /\ Asks(t, "create")
    /\ IF BlockedTo = {} THEN Shown(t) ELSE \E page \in BlockedTo : Show(t, page)
    /\ UNCHANGED <<world, res, saving>>

PostCreate(t, n) ==
    /\ Shows(t, "create")
    /\ IF BlockedTo # {} THEN \E page \in BlockedTo : Show(t, page)
       ELSE MayChooseSeats(n) /\ Show(t, SeatMap(n))
    /\ UNCHANGED <<world, res, saving>>

GetSeats(t) ==
    /\ Asks(t, "seats")
    /\ IF Bookable THEN Shown(t) ELSE Show(t, FlightPage)
    /\ UNCHANGED <<world, res, saving>>

\* A selection that cannot be held comes back as the same page.
PostSeats(t, S) ==
    /\ Shows(t, "seats")
    /\ \/ /\ Cardinality(S) = tab[t].count /\ ~Bookable
          /\ Show(t, FlightPage)
          /\ UNCHANGED <<holder, res>>
       \/ /\ CanHold(tab[t].count, S)
          /\ \E r \in Refs :
               /\ res[r].status = "none"
               /\ holder' = [s \in Seats |-> IF s \in S THEN r ELSE holder[s]]
               /\ res' = [res EXCEPT ![r] =
                    [status |-> "pending", count |-> Cardinality(S),
                     deadline |-> now + PayWindow, rows |-> <<>>]]
               /\ Show(t, AskFor("passengers", r))
    /\ UNCHANGED <<now, cancelled, saving>>

-----------------------------------------------------------------------------
(* Giving reservations back.                                               *)

Release(R) ==
    /\ holder' = [s \in Seats |-> IF holder[s] \in R THEN None ELSE holder[s]]
    /\ res' = [r \in Refs |-> IF r \in R THEN [res[r] EXCEPT !.status = "cancelled"] ELSE res[r]]

\* Fault: a hold whose passengers are entered is not looked at.
LapsedUnnamed(r) == Overdue(r) /\ res[r].rows = <<>>

\* expire_reservation_if_needed: Reservation.is_payment_expired
Lapsed(r) == Overdue(r)

\* A page that finds the reservation overdue gives it back and does not show it.
ExpireInstead(t, r) ==
    /\ Lapsed(r) /\ CanLock(r)
    /\ Release({r})

-----------------------------------------------------------------------------
(* Step 3: passengers.                                                     *)

\* Fault: a hold that can be paid is sent on to the payment.
StraightToPayment(r) == IF res[r].status = "pending" THEN {"payment"} ELSE {}

\* AddPassengersView.guard, without the expiry: where the form is refused to.
GuardedTo(r) == IF CanEditPassengers(r) THEN {} ELSE {"detail"}

GetPassengers(t) ==
    LET r == tab[t].ref IN
    /\ Asks(t, "passengers")
    /\ \/ ExpireInstead(t, r) /\ Show(t, AskFor("detail", r))
       \/ /\ ~Lapsed(r)
          /\ IF GuardedTo(r) # {} THEN \E at \in GuardedTo(r) : Show(t, AskFor(at, r))
             ELSE Show(t, [tab[t] EXCEPT !.asked = FALSE, !.entered = Len(res[r].rows)])
          /\ UNCHANGED <<holder, res>>
    /\ UNCHANGED <<now, cancelled, saving>>

ConflictingIds(r, ids) ==
    {id \in ids : \E q \in Refs \ {r} : IsLive(q) /\ id \in ToSet(res[q].rows)}

\* A form that was rendered before the passengers were saved.
IsStale(r, entered) == Len(res[r].rows) >= res[r].count /\ entered < Len(res[r].rows)

\* formset.is_valid(): a passenger for every seat, nobody twice, nobody who is
\* on another reservation of the flight.
FormIsValid(r, rows) ==
    /\ Len(rows) = res[r].count
    /\ IsInjective(rows)
    /\ ConflictingIds(r, ToSet(rows)) = {}

\* The rows are saved one after another, and (reservation, national_id) is
\* unique: a number that a later row still has is an IntegrityError.
SaveFails(old, new) == \E i, j \in DOMAIN old : i < j /\ new[i] = old[j]

\* POST up to the commit.  A form that is not valid comes back.
PostPassengers(t, rows) ==
    LET r == tab[t].ref IN
    /\ Shows(t, "passengers") /\ CanLock(r)
    /\ IF ~CanEditPassengers(r) \/ IsStale(r, tab[t].entered)
       THEN Show(t, AskFor("detail", r)) /\ UNCHANGED saving
       ELSE /\ FormIsValid(r, rows)
            /\ IF SaveFails(res[r].rows, rows)
               THEN /\ Show(t, [tab[t] EXCEPT !.entered = Len(res[r].rows)])
                    /\ UNCHANGED saving
               ELSE /\ saving' = [saving EXCEPT ![t] = [ref |-> r, rows |-> rows]]
                    /\ UNCHANGED tab
    /\ UNCHANGED <<world, res>>

\* The commit: rows that were there are changed, the others are added.
SavePassengers(t) ==
    LET r == saving[t].ref IN
    /\ saving[t] # NotSaving
    /\ res' = [res EXCEPT ![r].rows = IF tab[t].entered = 0 THEN @ \o saving[t].rows
                                      ELSE saving[t].rows]
    /\ saving' = [saving EXCEPT ![t] = NotSaving]
    /\ Show(t, AskFor(IF res[r].status = "reserved" THEN "detail" ELSE "payment", r))
    /\ UNCHANGED world

-----------------------------------------------------------------------------
(* Step 4: payment.                                                        *)

GetPayment(t) ==
    LET r == tab[t].ref IN
    /\ Asks(t, "payment")
    /\ \/ ExpireInstead(t, r) /\ Show(t, AskFor("detail", r))
       \/ /\ ~Lapsed(r)
          /\ CASE res[r].status # "pending" -> Show(t, AskFor("detail", r))
               [] res[r].status = "pending" /\ ~PassengersComplete(r) ->
                    Show(t, AskFor("passengers", r))
               [] OTHER -> Shown(t)
          /\ UNCHANGED <<holder, res>>
    /\ UNCHANGED <<now, cancelled, saving>>

\* pay_reservation and the redirect for each PayResult.
PostPayment(t) ==
    LET r == tab[t].ref
        pending == res[r].status = "pending" /\ ~Overdue(r) IN
    /\ Shows(t, "payment") /\ CanLock(r)
    /\ \/ /\ ~pending
          /\ IF Overdue(r) THEN Release({r}) ELSE UNCHANGED <<holder, res>>
          /\ Show(t, AskFor("detail", r))
       \/ /\ pending /\ ~PassengersComplete(r)
          /\ Show(t, AskFor("passengers", r))
          /\ UNCHANGED <<holder, res>>
       \/ /\ pending /\ PassengersComplete(r) /\ ~Bookable
          /\ Show(t, AskFor("detail", r))
          /\ UNCHANGED <<holder, res>>
       \/ /\ pending /\ PassengersComplete(r) /\ Bookable
          /\ \/ /\ res' = [res EXCEPT ![r].status = "reserved"]
                /\ Show(t, AskFor("detail", r))
             \/ Show(t, AskFor("payment", r)) /\ UNCHANGED res
          /\ UNCHANGED holder
    /\ UNCHANGED <<now, cancelled, saving>>

-----------------------------------------------------------------------------
(* The reservation, its cancel button, and the list.                       *)

GetDetail(t) ==
    LET r == tab[t].ref IN
    /\ Asks(t, "detail")
    /\ IF Lapsed(r)
       THEN ExpireInstead(t, r) /\ Shown(t)
       ELSE /\ Show(t, [tab[t] EXCEPT !.asked = FALSE, !.offered = Cancellable(r)])
            /\ UNCHANGED <<holder, res>>
    /\ UNCHANGED <<now, cancelled, saving>>

PressCancel(t) ==
    LET r == tab[t].ref IN
    /\ Shows(t, "detail") /\ tab[t].offered /\ CanLock(r)
    /\ IF Cancellable(r)
       THEN Release({r}) /\ Show(t, Ask("list"))
       ELSE Show(t, AskFor("detail", r)) /\ UNCHANGED <<holder, res>>
    /\ UNCHANGED <<now, cancelled, saving>>

\* ReservationListView.get_queryset: the tabs of the list.
Upcoming == {r \in Refs : res[r].status \in {"pending", "reserved"} /\ Departure > now}
Past == {r \in Refs : res[r].status = "reserved" /\ Departure <= now}
CancelledOnes == {r \in Refs : res[r].status = "cancelled"}

GetList(t) ==
    /\ Asks(t, "list")
    /\ \A r \in Refs : Lapsed(r) => CanLock(r)
    /\ Release({r \in Refs : Lapsed(r)})
    /\ Shown(t)
    /\ UNCHANGED <<now, cancelled, saving>>

-----------------------------------------------------------------------------
(* Everybody else.                                                         *)

\* Bound: the seats others hold at a time.
OthersTake(s) ==
    /\ Bookable /\ holder[s] = None
    /\ Cardinality({q \in Seats : holder[q] = Others}) < MaxOthers
    /\ holder' = [holder EXCEPT ![s] = Others]
    /\ UNCHANGED <<now, cancelled, res, saving, tab>>

OthersGiveBack(s) ==
    /\ holder[s] = Others
    /\ holder' = [holder EXCEPT ![s] = None]
    /\ UNCHANGED <<now, cancelled, res, saving, tab>>

\* The status is set; the reservations follow one by one (SweepOne).
CancelFlight ==
    /\ ~cancelled /\ now < Departure
    /\ cancelled' = TRUE
    /\ UNCHANGED <<now, holder, res, saving, tab>>

SweepOne(r) ==
    /\ cancelled /\ res[r].status \in {"pending", "reserved"} /\ CanLock(r)
    /\ Release({r})
    /\ UNCHANGED <<now, cancelled, saving, tab>>

Tick ==
    /\ now < MaxTime /\ now' = now + 1
    /\ UNCHANGED <<cancelled, holder, res, saving, tab>>

Init ==
    /\ now = 0 /\ cancelled = FALSE
    /\ holder = [s \in Seats |-> None]
    /\ res = [r \in Refs |-> Absent]
    /\ saving = [t \in Tabs |-> NotSaving]
    /\ tab = [t \in Tabs |-> FlightPage]

Get(t) ==
    \/ GetCreate(t) \/ GetSeats(t) \/ GetPassengers(t)
    \/ GetPayment(t) \/ GetDetail(t) \/ GetList(t)

Answer(t) == Get(t) \/ SavePassengers(t)

Post(t) ==
    \/ \E n \in 1 .. MaxSeats : PostCreate(t, n)
    \/ \E S \in SUBSET Seats : PostSeats(t, S)
    \/ \E n \in 1 .. MaxSeats : \E rows \in [1 .. n -> Ids] : PostPassengers(t, rows)
    \/ PostPayment(t) \/ PressCancel(t)

Next ==
    \/ \E t \in Tabs : Visit(t) \/ Post(t) \/ Answer(t)
    \/ \E s \in Seats : OthersTake(s) \/ OthersGiveBack(s)
    \/ \E r \in Refs : SweepOne(r)
    \/ CancelFlight \/ Tick

Spec == Init /\ [][Next]_vars

\* The server answers what it is asked.
Fairness == \A t \in Tabs : WF_vars(Answer(t))

FairSpec == Spec /\ Fairness

-----------------------------------------------------------------------------
(* Properties.                                                             *)

\* Type invariant: pages, reservations and forms keep their shape, a seat map
\* is for a number of seats that can be booked, and a form that is being saved is
\* the one its tab shows.
PagesTypeOK ==
    /\ now \in 0 .. MaxTime /\ cancelled \in BOOLEAN
    /\ holder \in [Seats -> Refs \cup {Others, None}]
    /\ \A r \in Refs :
         /\ res[r].status \in {"none", "pending", "reserved", "cancelled"}
         /\ res[r].count \in 0 .. MaxSeats /\ res[r].deadline \in 0 .. MaxTime + PayWindow
         /\ ToSet(res[r].rows) \subseteq Ids
    /\ tab \in [Tabs -> Page]
    /\ \A t \in Tabs : tab[t].at = "seats" => tab[t].count > 0
    /\ \A t \in Tabs : saving[t] # NotSaving =>
         ~tab[t].asked /\ tab[t].at = "passengers" /\ saving[t].ref = tab[t].ref

\* A reservation has no passengers or one for each seat, all different, whatever
\* forms are submitted twice or from old tabs, and a paid one has them all
\* ("Lock the reservation so double submits can't create duplicates").
PassengersAllOrNone ==
    \A r \in Refs :
        /\ res[r].rows # <<>> => Len(res[r].rows) = res[r].count /\ IsInjective(res[r].rows)
        /\ res[r].status = "reserved" => res[r].rows # <<>>

\* The seat count is let through to the seat map exactly when there are seats
\* that the next step would hold, in any state of the cabin: a group is neither
\* sent on to a map it cannot choose from nor refused while seats are left; and
\* the search hides no flight that it could book.
PrecheckIsRight ==
    \A n \in 1 .. MaxSeats :
        LET possible == \E S \in SUBSET Seats : CanHold(n, S) IN
        /\ MayChooseSeats(n) <=> possible
        /\ possible => SearchFinds(n)

\* Once cancelled, by whom ever, a reservation never changes again: neither a
\* payment nor a passenger form that was opened before revives or alters it.
CancelledStays ==
    [][\A r \in Refs : res[r].status = "cancelled" => res'[r] = res[r]]_vars

\* At the moment a page is shown it is true: it does not show an overdue hold as
\* one to pay for ("so the page never offers to pay for something that has
\* expired"), a payment can be tried, a passenger form saved, the cancel button is
\* there exactly when cancelling would be accepted, and every reservation of the
\* list is under one of its tabs, but for a hold whose flight has just left.
Fresh(t) ==
    LET page == tab[t]
        r == tab[t].ref IN
    /\ page.at \in {"passengers", "payment", "detail"} => ~Overdue(r)
    /\ page.at = "list" =>
         \A q \in Refs : res[q].status # "none" =>
            \/ q \in Upcoming \cup Past \cup CancelledOnes
            \/ res[q].status = "pending" /\ IsLive(q)
    /\ page.at = "payment" => res[r].status = "pending" /\ PassengersComplete(r)
    /\ page.at = "passengers" => CanEditPassengers(r) /\ page.entered = Len(res[r].rows)
    /\ page.at = "detail" => (page.offered <=> Cancellable(r))

FreshPagesAreTrue ==
    [][\A t \in Tabs : tab[t].asked /\ ~tab'[t].asked => Fresh(t)']_vars

\* Every click ends on a page: the redirects of the steps, each of which sends
\* the user elsewhere when the reservation is not ready for it, never go round
\* in a circle, whatever other tabs and other people do meanwhile.
EveryClickEndsOnAPage == \A t \in Tabs : tab[t].asked ~> ~tab[t].asked

=============================================================================
