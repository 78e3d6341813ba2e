---------------------------- MODULE BookingSafety ----------------------------
(***************************************************************************)
(* What must be true of the booking core: its type invariant, the safety   *)
(* and liveness properties the runs check, and the abstract SeatSale it    *)
(* implements.                                                             *)
(***************************************************************************)
EXTENDS Booking

\* Type invariant: tables and workers' memory keep the shape of Booking's
\* records; no balance is ever negative.
TypeOK ==
    /\ now \in Nat
    /\ flightStatus \in [Flights -> {"scheduled", "active", "completed", "cancelled"}]
    /\ available \in [Classes -> Int]
    /\ freeSeats \in SUBSET Seats
    /\ holder \in [Seats -> Refs \cup {None}]
    /\ res \in [Refs -> Reservation \cup {Absent}]
    /\ wallet \in [Users -> Nat]
    /\ ledger \in [Users -> Seq(Entry)]
    /\ swept \in SUBSET Flights
    /\ lock \in [Rows -> Workers \cup {None}]
    /\ txn \in [Workers -> Txn]
    /\ job \in [Workers -> Job]

-----------------------------------------------------------------------------
(* Transactions.                                                           *)

BookingReads(w) ==
    LET t == txn[w] IN
    /\ t.pc \in {"user", "commit"}
    /\ t.user \in Users /\ t.class \in Classes
    /\ lock[t.class] = w
    /\ t.pc = "commit" => lock[t.user] = w
    /\ t.seats \subseteq freeSeats \cap SeatsIn(t.class)
    /\ Cardinality(t.seats) \in 1 .. MaxSeats /\ SideBySide(t.seats)

PaymentReads(w) ==
    LET t == txn[w] IN
    /\ t.ref \in Refs /\ lock[t.ref] = w
    /\ res[t.ref].status = "pending"
    /\ t.user = res[t.ref].user /\ t.amount = res[t.ref].price
    /\ t.pc = "charge" => /\ lock[t.user] = w /\ t.balance = wallet[t.user]
                          /\ t.amount \in 1 .. t.balance

ReleaseReads(w) ==
    LET t == txn[w] IN
    /\ t.ref \in Refs /\ lock[t.ref] = w
    /\ IF t.amount > 0 THEN res[t.ref].status = "reserved" ELSE IsActive(t.ref)
    /\ t.amount <= res[t.ref].price
    /\ t.reason = "timeout" => res[t.ref].status = "pending"
    /\ t.reason = "flight_cancelled" /\ res[t.ref].status = "reserved"
        => t.amount = res[t.ref].price
    /\ t.pc # "class" => lock[res[t.ref].class] = w
    /\ t.pc = "refund" => t.amount > 0
    /\ t.pc = "release" /\ t.amount > 0
        => lock[res[t.ref].user] = w /\ t.balance = wallet[res[t.ref].user]

PassengerReads(w) ==
    LET t == txn[w] IN
    /\ t.pc \in {"flight", "commit"}
    /\ t.ref \in Refs /\ lock[t.ref] = w
    /\ IsActive(t.ref) /\ Cardinality(t.ids) = res[t.ref].count
    /\ t.pc = "commit" => lock[FlightFor(t.ref)] = w

DepositReads(w) ==
    LET t == txn[w] IN
    /\ t.pc = "charge" /\ t.user \in Users /\ lock[t.user] = w
    /\ t.amount \in TopUps /\ t.balance = wallet[t.user]

TxnOK(w) ==
    \/ txn[w] = NoTxn
    \/ txn[w].op = "create" /\ BookingReads(w)
    \/ txn[w].op = "pay" /\ txn[w].pc \in {"user", "charge"} /\ PaymentReads(w)
    \/ txn[w].op \in Releasing /\ txn[w].pc \in {"class", "refund", "release"} /\ ReleaseReads(w)
    \/ txn[w].op = "passengers" /\ PassengerReads(w)
    \/ txn[w].op = "deposit" /\ DepositReads(w)

\* What a transaction has read under its locks is still true whatever other
\* workers commit before it does: the seats it chose are free, the reservation
\* still has the status it found, the balance is the one it computes with.
\* (Every write of services.py relies on one of these.)
ReadsStayTrue == \A w \in Workers : TxnOK(w)

-----------------------------------------------------------------------------
(* Seats.                                                                  *)

\* A seat is free exactly when no reservation is linked to it; an active
\* reservation holds exactly the neighbouring seats of its class it was sold,
\* any other reservation none (create_pending_reservation, _cancel_locked).
SeatsMatchReservations ==
    /\ \A s \in Seats : s \in freeSeats <=> holder[s] = None
    /\ \A r \in Refs :
         IF IsActive(r)
         THEN /\ SeatsHeld(r) \subseteq SeatsIn(res[r].class)
              /\ Cardinality(SeatsHeld(r)) = res[r].count
              /\ SideBySide(SeatsHeld(r))
         ELSE SeatsHeld(r) = {}

\* available_seats, which every transaction adds to or takes from, stays the
\* number of seats of the class that are free.
CounterMatchesSeats ==
    \A c \in Classes : available[c] = Cardinality(freeSeats \cap SeatsIn(c))

-----------------------------------------------------------------------------
(* Money.                                                                  *)

EntriesFor(r, kind) ==
    UNION {{[user |-> u, entry |-> ledger[u][i], at |-> i] :
               i \in {j \in 1 .. Len(ledger[u]) : /\ ledger[u][j].kind = kind
                                                 /\ ledger[u][j].ref = r}} : u \in Users}

\* A reservation is charged once, its whole price, to its owner, exactly when it
\* is paid; it is refunded at most once, at most its price, to its owner, only
\* once it is cancelled; a timeout never hits a paid reservation and a
\* cancelled flight gives everything back (pay_reservation, cancel_reservation,
\* expire_reservation, _cancel_reservation_for_cancelled_flight together).
MoneyMatchesReservations ==
    \A r \in Refs :
        LET row == res[r]
            charged == EntriesFor(r, "payment")
            repaid == EntriesFor(r, "refund") IN
        /\ Cardinality(charged) = IF row.settledAt = NotPaid THEN 0 ELSE 1
        /\ Cardinality(repaid) = IF row.refund = 0 THEN 0 ELSE 1
        /\ \A e \in charged : e.user = row.user /\ e.entry.amount = - row.price
        /\ \A e \in repaid : e.user = row.user /\ e.entry.amount = row.refund
        /\ row.refund <= row.price
        /\ row.status = "pending" => row.settledAt = NotPaid
        /\ row.status = "reserved" => row.settledAt # NotPaid
        /\ row.refund > 0 => row.status = "cancelled" /\ row.settledAt # NotPaid
        /\ row.reason = "timeout" => row.settledAt = NotPaid
        /\ row.reason = "flight_cancelled" /\ row.settledAt # NotPaid => row.refund = row.price

\* The ledger of a user is an unbroken account: every entry starts from the
\* balance the one before it left, and the last one left the wallet's balance
\* ("balance_after == balance_before + amount", and no update is lost).
LedgerExplainsWallet ==
    \A u \in Users :
        LET book == ledger[u] IN
        /\ book[1].before = 0
        /\ \A i \in DOMAIN book : book[i].after = book[i].before + book[i].amount
        /\ \A i \in 1 .. Len(book) - 1 : book[i + 1].before = book[i].after
        /\ wallet[u] = book[Len(book)].after

\* README: "a rolled-back payment never leaves a notification behind": whatever a
\* user was told of a reservation has happened to it, also when a cancellation of
\* the flight failed half way and was tried again.
NotesAreTrue ==
    \A r \in Refs :
        LET row == res[r]
            told(kind) == Note(kind, row.user, r) \in notes IN
        /\ told("paid") => row.settledAt # NotPaid
        /\ told("refund") => row.refund > 0
        /\ told("expired") => row.reason = "timeout"
        /\ told("flight_cancelled") => row.reason = "flight_cancelled"

-----------------------------------------------------------------------------
(* Rules that span several rows.                                           *)

\* A user never has more unpaid reservations in their payment window than
\* MAX_PENDING_RESERVATIONS_PER_USER, whatever classes they are booked in at once.
PendingLimit == \A u \in Users : Cardinality(PendingOf(u)) <= MaxPending

\* The payment was in time when it was checked, and committed after the deadline; the
\* column paid_at lies between the two and may show a time before the deadline.
PaidLate(r) == res[r].settledAt # NotPaid /\ res[r].settledAt >= res[r].deadline

\* Two live reservations of a flight name the same person only if one of them
\* was being paid while its payment window ran out (the passenger step does not
\* see a reservation that is overdue but about to be committed as paid).
SharedPersonWasPaidLate ==
    \A q, r \in Refs :
        /\ q # r /\ IsLive(q) /\ IsLive(r) /\ FlightFor(q) = FlightFor(r)
        /\ res[q].ids \cap res[r].ids # {}
        => PaidLate(q) \/ PaidLate(r)

\* Once cancelling a flight was reported without failures, nobody is left with a
\* paid seat on it, and everybody who had one then got the whole price back;
\* nothing later makes a reservation of that flight paid again.
SweptFlightIsRefunded ==
    \A r \in Refs :
        res[r].status # "none" /\ FlightFor(r) \in swept /\ res[r].settledAt # NotPaid
        => /\ res[r].status = "cancelled"
           /\ res[r].reason = "user" \/ res[r].refund = res[r].price

-----------------------------------------------------------------------------
(* Steps and progress.                                                     *)

PossiblePrices == {Fare[c] * n : c \in Classes, n \in 1 .. MaxSeats}

\* The commits of the core are those of the abstract sale of seats.
Sale == INSTANCE SeatSale WITH
    Sales <- Refs,
    Prices <- PossiblePrices,
    owner <- holder,
    sale <- [r \in Refs |-> [status |-> res[r].status, user |-> res[r].user,
                             price |-> res[r].price]],
    purse <- wallet

ImplementsSale == Sale!Spec

\* Every hold on seats ends: the reservation is paid or its seats come back, as
\* long as the expiry command keeps running.  (Bound: deadlines the clock reaches.)
HoldsEnd ==
    \A r \in Refs : (res[r].status = "pending" /\ res[r].deadline <= MaxTime)
                     ~> (res[r].status # "pending")

=============================================================================
