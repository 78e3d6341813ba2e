----------------------------- MODULE MCLockOrder -----------------------------
(***************************************************************************)
(* A flight with two classes, a reservation in each, two users, and a      *)
(* second flight without classes.                                          *)
(***************************************************************************)
EXTENDS LockOrder, TLC

ClassForValue == "r1" :> "c1" @@ "r2" :> "c2"
OwnerOfValue == "r1" :> "u1" @@ "r2" :> "u2"
FlightOfValue == "c1" :> "f1" @@ "c2" :> "f1"
ScanOrderValue == "f1" :> 1 @@ "f2" :> 2

Interchangeable == Permutations(Processes)
=============================================================================
