--------------------------------- MODULE Sums ---------------------------------
(***************************************************************************)
(* Adding up: the values of a function over a finite set of its arguments, *)
(* and what a list of lines [row, n] does to a row.                        *)
(***************************************************************************)
EXTENDS Integers, Sequences, Functions

(* What each line moves of row x. *)
Moves(lines, x) == [i \in DOMAIN lines |-> IF lines[i].row = x THEN lines[i].n ELSE 0]

(* Units of row x that a list of lines names. *)
Units(lines, x) == SumFunctionOnSet(Moves(lines, x), DOMAIN lines)

(* The last of the first k lines that names row x. *)
Names(lines, x, k, i) ==
  i \in 1..k /\ lines[i].row = x /\ \A j \in i+1..k : lines[j].row # x

(* The quantity of row x after a list of absolute updates. *)
LastSet(lines, x, old) ==
  IF \E i \in DOMAIN lines : lines[i].row = x
  THEN lines[CHOOSE i \in DOMAIN lines : Names(lines, x, Len(lines), i)].n
  ELSE old

===============================================================================
