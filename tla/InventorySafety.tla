--------------------------- MODULE InventorySafety ---------------------------
(***************************************************************************)
(* What must be true of the seats of a flight while managers and customers *)
(* change them, and what the documentation says that the code does not do. *)
(***************************************************************************)
EXTENDS Inventory

\* Type invariant: rows and transactions keep the shape of Inventory's records,
\* and the constraints of the tables hold.
InventoryTypeOK ==
    /\ capacity \in [Classes -> 0 .. MaxCapacity]
    /\ \A c \in Classes : available[c] \in 0 .. capacity[c]
    /\ \A s \in seats : s.class \in Classes /\ s.place \in Nat /\ RowOf(s) > 0
    /\ free \subseteq seats
    /\ \A r \in Refs :
         /\ hold[r].status \in {"none", "pending", "reserved", "cancelled"}
         /\ hold[r].overdue \in BOOLEAN /\ hold[r].paying \in BOOLEAN
    /\ lock \in [Classes \cup {Flight} -> Managers \cup {None}]
    /\ \A m \in Managers : txn[m].op \in {"none", "generate", "edit", "admin", "recount"}

InAgreement(c) ==
    /\ available[c] = capacity[c] - Cardinality(SeatsOf(Linked, c))
    /\ SeatsOf(free, c) = SeatsOf(seats, c) \ Linked

\* The three records of what is sold agree, whatever managers do while customers
\* book, pay and leave: available_seats is the capacity less the seats that
\* reservations hold ("derived from capacity and bookings"), and a seat is shown
\* as free exactly when no reservation is linked to it (Seat.is_available).
CounterAndFlagsMatchLinks == \A c \in Classes : InAgreement(c)

\* "Keep the number of Seat rows equal to the class capacity, for a class that
\* ALREADY has seats" (sync_seats_with_capacity).
SeatsFillCapacity ==
    \A c \in Classes :
        SeatsOf(seats, c) # {} => Cardinality(SeatsOf(seats, c)) = capacity[c]

\* "rows of different classes never overlap" (sync_seats_with_capacity).
RowsAreOfOneClass == \A s, t \in seats : RowOf(s) = RowOf(t) => s.class = t.class

\* "booked seats are never touched": no change of a capacity removes a seat that
\* a reservation is linked to, and the reservation keeps its class.
BookedSeatsStay ==
    \A r \in Refs : IsActive(r) => hold[r].seats # {} /\ hold[r].seats \subseteq SeatsOf(seats, hold[r].class)

\* recalculate_seat_availability repairs a class, however its data had drifted and
\* whatever is booked, paid or given back meanwhile, unless a deadline of the
\* class passed since the command looked for overdue reservations.
RecountRepairs ==
    [][\A m \in Managers :
          /\ Doing(m, "recount", "flags") /\ txn'[m].pc # "flags"
          /\ \A r \in Refs : IsActive(r) /\ hold[r].class = txn[m].class => ~hold[r].overdue
          => \A c \in Classes : c = txn[m].class => InAgreement(c)']_vars

=============================================================================
