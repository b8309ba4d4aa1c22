------------------------------ MODULE MCReceipts ------------------------------
(***************************************************************************)
(* Small instances of Receipts.  Three sales, two of them of one           *)
(* organization, and two instants suffice for numbers that collide within  *)
(* and across organizations, before and after the clock is set back.       *)
(***************************************************************************)
EXTENDS Receipts, TLC

CONSTANTS i1, i2, i3, o1, o2

TwoOrgs == (i1 :> o1 @@ i2 :> o1 @@ i3 :> o2)
Pair == (i1 :> o1 @@ i2 :> o2)

===============================================================================
