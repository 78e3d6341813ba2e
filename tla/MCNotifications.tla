--------------------------- MODULE MCNotifications ---------------------------
(***************************************************************************)
(* One user, a payment, a top-up and two reservations that expire one      *)
(* after the other, two processes that may run the same command.           *)
(***************************************************************************)
EXTENDS Notifications, TLC

OneOwner == [e \in Events |-> "u1"]
TwoDeadlines == "soon" :> 1 @@ "later" :> 3
Interchangeable == Permutations(Workers)
=============================================================================
