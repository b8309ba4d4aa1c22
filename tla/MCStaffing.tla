------------------------------ MODULE MCStaffing ------------------------------
(***************************************************************************)
(* Small instances of Staffing.  Rows, accounts, shops and handlers are    *)
(* interchangeable, and so are people.                                     *)
(***************************************************************************)
EXTENDS Staffing, TLC

Symmetry ==
  Permutations(Email) \cup Permutations(Uid) \cup Permutations(User)
    \cup Permutations(Shop) \cup Permutations(Handler) \cup Permutations(Org)

===============================================================================
