------------------------------- MODULE Reports -------------------------------
(***************************************************************************)
(* The manager's reports (dashboard/views.py): money and counts, computed  *)
(* from the reservations as they are when a page is built, first of every  *)
(* flight and then of all.                                                 *)
(***************************************************************************)
EXTENDS BookingSafety, Functions

\* A report has a row for each flight of the database.
ASSUME FlightsAssumption == IsFiniteSet(Flights)

\* reservation_financials of a set of reservations: total_paid_price is filled
\* when a reservation is made, and counts once it is paid.
Paid(R) == {r \in R : res[r].settledAt # NotPaid}

\* total_paid_price and refund_amount of every reservation.
Prices == [r \in Refs |-> res[r].price]
Refunds == [r \in Refs |-> res[r].refund]

\* Fault: only reservations that are still paid for count.
GrossReserved(R) == SumFunctionOnSet(Prices, {r \in R : res[r].status = "reserved"})

Gross(R) == SumFunctionOnSet(Prices, Paid(R))

Refunded(R) == SumFunctionOnSet(Refunds, Paid(R))

Net(R) == Gross(R) - Refunded(R)

Booked == {r \in Refs : res[r].status # "none"}

\* DashboardHomeView sums by flight, FlightManageDetailView shows one.
OfFlight(f) == {r \in Booked : FlightFor(r) = f}

\* live_pending_q, and the tabs of ReservationManageListView.
LivePending(R) == {r \in R : res[r].status = "pending" /\ res[r].deadline > now}

ReservationTabs == <<
    {r \in Booked : res[r].status = "reserved"},                            \* paid
    LivePending(Booked),                                                    \* pending
    {r \in Booked : res[r].status = "cancelled" /\ res[r].settledAt = NotPaid}, \* unpaid_cancelled
    {r \in Booked : res[r].status = "cancelled" /\ res[r].settledAt # NotPaid}  \* refunded
    >>

\* cancel_info of FlightManageDetailView: what cancelling the flight will repay.
Refundable(f) ==
    SumFunctionOnSet(Prices, {r \in OfFlight(f) : res[r].status = "reserved"})

-----------------------------------------------------------------------------
\* What users paid and were given back, by the ledger of their wallets.
Moves ==
    UNION {{[user |-> u, entry |-> ledger[u][i], at |-> i] :
               i \in {j \in 1 .. Len(ledger[u]) :
                       ledger[u][j].kind \in {"payment", "refund"}}} : u \in Users}

LedgerSum == SumFunctionOnSet([e \in Moves |-> e.entry.amount], Moves)

\* The revenue on the manager's pages is the money that left the users' wallets,
\* whenever a page is built: by flight and in total, with half refunds, refunds of
\* a flight that was cancelled, payments and failed passes going on meanwhile
\* ("it must only be summed for reservations that were really paid").  What the
\* cancel box promises to repay is what the airline still has of those who fly, and
\* every reservation is under exactly one tab, but for overdue holds.
ReportsAreTrue ==
    /\ Net(Booked) = - LedgerSum
    /\ \A f \in Flights : Net(OfFlight(f)) =
         Refundable(f) + Net({r \in OfFlight(f) : res[r].status = "cancelled"})
    /\ Net(Booked) = SumFunctionOnSet([f \in Flights |-> Net(OfFlight(f))], Flights)
    /\ \A r \in Booked :
         Cardinality({i \in DOMAIN ReservationTabs : r \in ReservationTabs[i]})
           = IF Overdue(r) THEN 0 ELSE 1

=============================================================================
