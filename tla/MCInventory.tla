----------------------------- MODULE MCInventory -----------------------------
(***************************************************************************)
(* A small cabin for TLC: rows of two seats, one or two classes.           *)
(***************************************************************************)
EXTENDS InventorySafety, TLC

\* The business class was created first.
TwoByPk == <<"b", "e">>
TwoInCabin == <<"e", "b">>
TwoCapacities == "e" :> 1 @@ "b" :> 2

One == <<"e">>
OneCapacity == "e" :> 2

Interchangeable == Permutations(Refs) \cup Permutations(Managers)
=============================================================================
