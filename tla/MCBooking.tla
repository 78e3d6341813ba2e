------------------------------ MODULE MCBooking ------------------------------
(***************************************************************************)
(* A small airline for TLC.  Users, references, ids and workers are        *)
(* interchangeable model values; flights, classes and seats are not.       *)
(***************************************************************************)
EXTENDS Reports, TLC

\* One flight, one class of two neighbouring seats.
OneFlightOf == "c1" :> "f1"
OneFare == "c1" :> 5
OneClassOf == "s1" :> "c1" @@ "s2" :> "c1"
OneRow == "s1" :> 1 @@ "s2" :> 1
OneCol == "s1" :> 1 @@ "s2" :> 2

\* One flight, a class of two neighbouring seats and one of a single seat.
TwoFlightOf == "c1" :> "f1" @@ "c2" :> "f1"
TwoFare == "c1" :> 5 @@ "c2" :> 6
TwoClassOf == "s1" :> "c1" @@ "s2" :> "c1" @@ "s3" :> "c2"
TwoRow == "s1" :> 1 @@ "s2" :> 1 @@ "s3" :> 2
TwoCol == "s1" :> 1 @@ "s2" :> 2 @@ "s3" :> 1

\* Half the price comes back: 5 * 50 / 100 has to be rounded.
LateDeparture == "f1" :> 3
LateArrival == "f1" :> 4
HalfPenalty == "f1" :> 50

\* The flight is over within the clock's bound.
EarlyDeparture == "f1" :> 1
EarlyArrival == "f1" :> 2

Interchangeable ==
    Permutations(Users) \cup Permutations(Refs) \cup Permutations(Workers)
    \cup Permutations(NationalIds)
=============================================================================
