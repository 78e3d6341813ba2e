------------------------------ MODULE SeatSale ------------------------------
(***************************************************************************)
(* What the booking core promises, without locks, requests or time: seats  *)
(* are held by at most one sale, a sale is paid out of its owner's purse,  *)
(* and ends by giving back all its seats and at most its price, all at     *)
(* once.  Booking implements this specification.                           *)
(***************************************************************************)
EXTENDS Integers

CONSTANTS
    Seats, Sales, Users, InitialBalance, None,
    Prices,  \* what a sale may cost
    TopUps   \* what a user may add to the purse at once

VARIABLES
    owner,  \* the sale a seat belongs to, or None
    sale,   \* status, buyer and price of every sale
    purse   \* what every user owns

vars == <<owner, sale, purse>>

Unsold == [status |-> "none", user |-> None, price |-> 0]

Init ==
    /\ owner = [s \in Seats |-> None]
    /\ sale = [r \in Sales |-> Unsold]
    /\ purse = [u \in Users |-> InitialBalance]

\* Somebody gets seats nobody has, for a price fixed now.
Hold(r, u, S, price) ==
    /\ sale[r] = Unsold
    /\ S # {} /\ \A s \in S : owner[s] = None
    /\ owner' = [s \in Seats |-> IF s \in S THEN r ELSE owner[s]]
    /\ sale' = [sale EXCEPT ![r] = [status |-> "pending", user |-> u, price |-> price]]
    /\ UNCHANGED purse

\* The buyer pays the whole price, once, and never more than there is.
Pay(r) ==
    LET u == sale[r].user IN
    /\ sale[r].status = "pending" /\ purse[u] >= sale[r].price
    /\ sale' = [sale EXCEPT ![r].status = "reserved"]
    /\ purse' = [purse EXCEPT ![u] = @ - sale[r].price]
    /\ UNCHANGED owner

\* The sale is off for good; its seats are free, and what was paid may come back.
Settle(r, refund) ==
    /\ \/ sale[r].status = "pending" /\ refund = 0
       \/ sale[r].status = "reserved" /\ refund \in 0 .. sale[r].price
    /\ owner' = [s \in Seats |-> IF owner[s] = r THEN None ELSE owner[s]]
    /\ sale' = [sale EXCEPT ![r].status = "cancelled"]
    /\ purse' = [purse EXCEPT ![sale[r].user] = @ + refund]

TopUp(u, amount) ==
    /\ purse' = [purse EXCEPT ![u] = @ + amount]
    /\ UNCHANGED <<owner, sale>>

Next ==
    \/ \E r \in Sales, u \in Users, S \in SUBSET Seats, price \in Prices : Hold(r, u, S, price)
    \/ \E r \in Sales : Pay(r)
    \/ \E r \in Sales : \E refund \in 0 .. sale[r].price : Settle(r, refund)
    \/ \E u \in Users, amount \in TopUps : TopUp(u, amount)

Spec == Init /\ [][Next]_vars
=============================================================================
