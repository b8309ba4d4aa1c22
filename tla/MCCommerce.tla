------------------------------ MODULE MCCommerce ------------------------------
(***************************************************************************)
(* Small instances of Commerce.  Two rows suffice for transactions that    *)
(* lock rows in opposite orders, two sellers for an oversell, a conflict   *)
(* and a deadlock, and the opening stock lets one sale empty a row that    *)
(* another one, a correction or a purchase is about to use.                *)
(***************************************************************************)
EXTENDS Commerce, SequencesExt, FiniteSetsExt

CONSTANTS r1, r2

OneEach == << [row |-> r1, n |-> 1], [row |-> r2, n |-> 1] >>
Swapped == << [row |-> r2, n |-> 1], [row |-> r1, n |-> 1] >>
Twice == << [row |-> r1, n |-> 1], [row |-> r1, n |-> 1] >>
BothCarts == {OneEach, Swapped, Twice}
CrossCarts == {OneEach, Swapped}

Opening == (r1 :> 2 @@ r2 :> 1)

Purchases == {[kind |-> "purchase", lines |-> Swapped]}
Corrections ==
  {[kind |-> "adjust", lines |-> << [row |-> r1, n |-> -2] >>],
   [kind |-> "adjust", lines |-> << [row |-> r2, n |-> 1], [row |-> r1, n |-> -1] >>]}
Overwrites == {[kind |-> "set", lines |-> << [row |-> r1, n |-> 3] >>],
               [kind |-> "set", lines |-> Swapped]}

LedgerJobs == Purchases \cup Corrections
AllJobs == LedgerJobs \cup Overwrites

(* Requests of one kind are interchangeable; used by safety runs only. *)
Symmetry == Permutations(Seller) \cup Permutations(Refunder) \cup Permutations(Stocker)

===============================================================================
