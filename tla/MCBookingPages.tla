--------------------------- MODULE MCBookingPages ---------------------------
(***************************************************************************)
(* A row of two neighbouring seats and a third beyond a gap.               *)
(***************************************************************************)
EXTENDS BookingPages, TLC

CabinRow == "s1" :> 1 @@ "s2" :> 1 @@ "s3" :> 1
CabinCol == "s1" :> 1 @@ "s2" :> 2 @@ "s3" :> 4

=============================================================================
