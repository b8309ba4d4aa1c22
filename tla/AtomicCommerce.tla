---------------------------- MODULE AtomicCommerce ----------------------------
(***************************************************************************)
(* What the commerce services promise their callers: every operation       *)
(* happens at one instant.  A sale takes all of its items from stock that  *)
(* is there, logs them, is paid and gets its receipt; a refund undoes      *)
(* exactly that, once; a purchase or a correction moves its rows; a clerk  *)
(* may void a receipt.  There are no transactions, locks, snapshots or     *)
(* retries here.                                                           *)
(***************************************************************************)
EXTENDS Integers, Sequences, Sums

CONSTANTS Row, Seller, Stocker, Carts, StockJobs, Amounts, OpeningStock, MaxQty

VARIABLES
  stock, ledger, cash, receipt,  \* as in Commerce
  bill                           \* [lines, amount, status] of each sale

vars == << stock, ledger, cash, receipt, bill >>

NoBill == [lines |-> << >>, amount |-> 0, status |-> "none"]
NoEntries == [SALE |-> 0, REFUND |-> 0, PURCHASE |-> 0]

Init ==
  /\ stock = OpeningStock
  /\ ledger = [x \in Row |-> 0]
  /\ cash = [r \in Seller \cup Stocker |-> NoEntries]
  /\ receipt = [s \in Seller |-> "none"]
  /\ bill = [s \in Seller |-> NoBill]

(* The stock moves by d, which the ledger records. *)
Move(d) ==
  /\ \A x \in Row : stock[x] + d[x] \in 0..MaxQty
  /\ stock' = [x \in Row |-> stock[x] + d[x]]
  /\ ledger' = [x \in Row |-> ledger[x] + d[x]]

Sell(s, lines, a) ==
  /\ bill[s] = NoBill
  /\ Move([x \in Row |-> -Units(lines, x)])
  /\ bill' = [bill EXCEPT ![s] = [lines |-> lines, amount |-> a, status |-> "COMPLETED"]]
  /\ cash' = [cash EXCEPT ![s].SALE = a]
  /\ receipt' = [receipt EXCEPT ![s] = "ISSUED"]

Refund(s) ==
  /\ bill[s].status = "COMPLETED"
  /\ Move([x \in Row |-> Units(bill[s].lines, x)])
  /\ bill' = [bill EXCEPT ![s].status = "REFUNDED"]
  /\ cash' = [cash EXCEPT ![s].REFUND = bill[s].amount]
  /\ receipt' = [receipt EXCEPT ![s] = "VOIDED"]

Receive(r, lines, a) ==
  /\ Move([x \in Row |-> Units(lines, x)])
  /\ cash' = [cash EXCEPT ![r].PURCHASE = a]
  /\ UNCHANGED << receipt, bill >>

Adjust(lines) ==
  /\ Move([x \in Row |-> Units(lines, x)])
  /\ UNCHANGED << cash, receipt, bill >>

SetStock(lines) ==
  /\ stock' = [x \in Row |-> LastSet(lines, x, stock[x])]
  /\ UNCHANGED << ledger, cash, receipt, bill >>

VoidReceipt(s) ==
  /\ receipt[s] = "ISSUED"
  /\ receipt' = [receipt EXCEPT ![s] = "VOIDED"]
  /\ UNCHANGED << stock, ledger, cash, bill >>

Next ==
  \/ \E s \in Seller, lines \in Carts, a \in Amounts : Sell(s, lines, a)
  \/ \E s \in Seller : Refund(s) \/ VoidReceipt(s)
  \/ \E j \in StockJobs :
       \/ j.kind = "purchase" /\ \E r \in Stocker, a \in Amounts : Receive(r, j.lines, a)
       \/ j.kind = "adjust" /\ Adjust(j.lines)
       \/ j.kind = "set" /\ SetStock(j.lines)

Spec == Init /\ [][Next]_vars

===============================================================================
