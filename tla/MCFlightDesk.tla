----------------------------- MODULE MCFlightDesk -----------------------------
(***************************************************************************)
(* One flight that may be put off once, two managers, two customers.       *)
(***************************************************************************)
EXTENDS FlightDesk, TLC

Interchangeable == Permutations(Refs) \cup Permutations(Managers)
=============================================================================
