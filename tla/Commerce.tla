------------------------------- MODULE Commerce -------------------------------
(***************************************************************************)
(* The path of stock and money: sales, refunds, purchases and stock        *)
(* corrections as the database transactions that the services open.        *)
(*                                                                         *)
(* A request is one HTTP call in flight.  Its transaction executes one     *)
(* item per step, holds the row locks it has taken until it ends, and      *)
(* publishes its writes when it commits.  Sales run SERIALIZABLE: they     *)
(* read a snapshot and fail on a row that another transaction committed    *)
(* since.  Every other transaction runs READ COMMITTED: each statement     *)
(* sees the rows as committed when it starts.                              *)
(*                                                                         *)
(* An inventory row (shop, variant, batch) that does not exist yet is a    *)
(* row of quantity 0: no row is ever deleted, and the services give the    *)
(* two the same answers.  Amounts are drawn from a set, since prices may   *)
(* be typed by the caller.                                                 *)
(***************************************************************************)
EXTENDS Integers, Sequences, FiniteSets, Sums

CONSTANTS
  Row,           \* inventory rows
  Seller,        \* requests POST /api/sales; each commits at most one sale, named after it
  Refunder,      \* requests POST /api/sales/:id/refund
  Stocker,       \* requests that create purchases, adjust or set stock
  Carts,         \* item lists of sales
  StockJobs,     \* [kind, lines] of the stockers
  Amounts,       \* totals of sales and purchases
  OpeningStock,  \* quantity of each row at the start
  MaxQty,        \* largest value of the integer column Inventory.quantity
  MaxAttempts,   \* MAX_SALE_CREATE_RETRIES
  Nobody         \* holder of a free lock

Req == Seller \cup Refunder \cup Stocker
Line == [row : Row, n : Int]
Item == [row : Row, n : Nat \ {0}]   \* a validated sale item
StockKinds == {"purchase", "adjust", "set"}
Kinds == StockKinds \cup {"sale", "refund", "none"}
Job == [kind : Kinds, lines : Seq(Line), amount : Nat, sale : Seller \cup {Nobody}]

ASSUME DisjointNames ==
  /\ Seller \cap Refunder = {} /\ Seller \cap Stocker = {} /\ Refunder \cap Stocker = {}
  /\ Row \cap Seller = {}
  /\ Nobody \notin Req
ASSUME FiniteRequests == IsFiniteSet(Req)
ASSUME Inputs ==
  /\ Carts \subseteq Seq(Item)
  /\ StockJobs \subseteq [kind : StockKinds, lines : Seq(Line)]
  \* the validators of purchases and of absolute updates: at least 1, at least 0
  /\ \A j \in StockJobs : \A i \in 1..Len(j.lines) :
       /\ j.kind = "purchase" => j.lines[i].n >= 1
       /\ j.kind = "set" => j.lines[i].n \in 0..MaxQty
  /\ Amounts \subseteq Nat
ASSUME Limits ==
  /\ MaxQty \in Nat /\ MaxAttempts \in Nat \ {0}
  /\ OpeningStock \in [Row -> 0..MaxQty]

VARIABLES
  stock,    \* Inventory.quantity, committed
  ledger,   \* sum of the committed InventoryTransaction.quantity of each row
  sale,     \* Sale.status, "none" while no such sale is committed
  cash,     \* CashFlowEntry amounts by referenceId and category
  receipt,  \* Receipt.status of each sale
  lock,     \* the request whose open transaction has written the row
  pc,       \* where the handler of each request stands
  job,      \* what the request asks for
  attempt,  \* the loop variable of createSale
  tx        \* the open transaction: position, own writes, snapshot

committed == << stock, ledger, sale, cash, receipt >>
vars == << committed, lock, pc, job, attempt, tx >>

Entries == [SALE : Nat, REFUND : Nat, PURCHASE : Nat]
NoEntries == [SALE |-> 0, REFUND |-> 0, PURCHASE |-> 0]
NoJob == [kind |-> "none", lines |-> << >>, amount |-> 0, sale |-> Nobody]
NoTx == [next |-> 1, work |-> OpeningStock, moved |-> [x \in Row |-> 0],
         snap |-> OpeningStock, stale |-> {}]

Init ==
  /\ stock = OpeningStock
  /\ ledger = [x \in Row |-> 0]
  /\ sale = [s \in Seller |-> "none"]
  /\ cash = [r \in Seller \cup Stocker |-> NoEntries]
  /\ receipt = [s \in Seller |-> "none"]
  /\ lock = [x \in Row \cup Seller |-> Nobody]
  /\ pc = [r \in Req |-> "idle"]
  /\ job = [r \in Req |-> NoJob]
  /\ attempt = [r \in Seller |-> 0]
  /\ tx = [r \in Req |-> NoTx]

-------------------------------------------------------------------------------
(* Transactions *)

Free(r, x) == lock[x] \in {Nobody, r}

ItemsLeft(r) == tx[r].next <= Len(job[r].lines)

CurrentLine(r) == job[r].lines[tx[r].next]

(* What a statement of r reads of a row: its own write, else the snapshot  *)
(* of a sale, else the last committed quantity.                            *)
Sees(r, x) ==
  IF lock[x] = r THEN tx[r].work[x]
  ELSE IF r \in Seller THEN tx[r].snap[x] ELSE stock[x]

(* r ends its transaction without effect and goes to state s. *)
Abort(r, s) ==
  /\ pc' = [pc EXCEPT ![r] = s]
  /\ lock' = [x \in DOMAIN lock |-> IF lock[x] = r THEN Nobody ELSE lock[x]]
  /\ tx' = [tx EXCEPT ![r] = NoTx]
  /\ UNCHANGED << committed, job >>

(* An error that the handler answers with: the transaction rolls back. *)
Fail(r) == Abort(r, "failed") /\ UNCHANGED attempt

(* Mutant: the attempts are not counted. *)
RetryUncounted(r) == Abort(r, "ready") /\ UNCHANGED attempt

(* Mutant: one attempt too many. *)
RetryOnceMore(r) ==
  \/ /\ attempt[r] <= MaxAttempts
     /\ attempt' = [attempt EXCEPT ![r] = @ + 1]
     /\ Abort(r, "ready")
  \/ /\ attempt[r] > MaxAttempts
     /\ Abort(r, "failed")
     /\ UNCHANGED attempt

(* The catch block of createSale: P2034 is retried, the third time it is   *)
(* answered with SaleCreationConflictError.                                *)
Retry(r) ==
  \/ /\ attempt[r] < MaxAttempts
     /\ attempt' = [attempt EXCEPT ![r] = @ + 1]
     /\ Abort(r, "ready")
  \/ /\ attempt[r] >= MaxAttempts
     /\ Abort(r, "failed")
     /\ UNCHANGED attempt

(* Write q to a row and log a movement of d. *)
Write(r, x, q, d) ==
  /\ lock' = [lock EXCEPT ![x] = r]
  /\ tx' = [tx EXCEPT ![r].work[x] = q, ![r].moved[x] = @ + d, ![r].next = @ + 1]
  /\ UNCHANGED << committed, pc, job, attempt >>

-------------------------------------------------------------------------------
(* createSale *)

AskSale(r) ==
  /\ pc[r] = "idle"
  /\ \E lines \in Carts, a \in Amounts :
       job' = [job EXCEPT ![r] = [kind |-> "sale", lines |-> lines, amount |-> a, sale |-> r]]
  /\ attempt' = [attempt EXCEPT ![r] = 1]
  /\ pc' = [pc EXCEPT ![r] = "ready"]
  /\ UNCHANGED << committed, lock, tx >>

(* tx.sale.create, the first statement: the snapshot is taken here, after  *)
(* the prices were read outside the transaction.                           *)
BeginSale(r) ==
  /\ pc[r] = "ready"
  /\ pc' = [pc EXCEPT ![r] = "open"]
  /\ tx' = [tx EXCEPT ![r] = [NoTx EXCEPT !.work = stock, !.snap = stock]]
  /\ UNCHANGED << committed, lock, job, attempt >>

(* Mutant: decrement without the condition on the quantity. *)
SellItemUnguarded(r) ==
  /\ pc[r] = "open" /\ ItemsLeft(r)
  /\ LET x == CurrentLine(r).row  n == CurrentLine(r).n IN
       /\ Free(r, x) /\ x \notin tx[r].stale
       /\ Write(r, x, Sees(r, x) - n, -n)

(* Mutant: read the quantity, then store the difference, without the       *)
(* conflict detection of SERIALIZABLE.                                     *)
SellItemLostUpdate(r) ==
  /\ pc[r] = "open" /\ ItemsLeft(r)
  /\ LET x == CurrentLine(r).row  n == CurrentLine(r).n IN
       /\ Sees(r, x) >= n /\ Free(r, x)
       /\ Write(r, x, Sees(r, x) - n, -n)

(* deductSaleStock: updateMany where quantity >= n decrements the row. *)
SellItem(r) ==
  /\ pc[r] = "open" /\ ItemsLeft(r)
  /\ LET x == CurrentLine(r).row  n == CurrentLine(r).n IN
       /\ Sees(r, x) >= n
       /\ Free(r, x) /\ x \notin tx[r].stale
       /\ Write(r, x, Sees(r, x) - n, -n)

(* updateMany matches no row: the error 'insufficient stock'.  A row that  *)
(* does not match is not waited for.                                       *)
SellShort(r) ==
  /\ pc[r] = "open" /\ ItemsLeft(r)
  /\ Sees(r, CurrentLine(r).row) < CurrentLine(r).n
  /\ Fail(r)

(* The row was committed by another transaction since the snapshot: P2034. *)
SellConflict(r) ==
  /\ pc[r] = "open" /\ ItemsLeft(r)
  /\ LET x == CurrentLine(r).row IN
       Sees(r, x) >= CurrentLine(r).n /\ lock[x] = Nobody /\ x \in tx[r].stale
  /\ Retry(r)

(* PostgreSQL may also refuse a sale whose reads and writes overlap those  *)
(* of another sale, and reports it the same way.                           *)
SerializationFailure(r) ==
  /\ pc[r] = "open" /\ ~ItemsLeft(r)
  /\ \E q \in Seller \ {r} : pc[q] \in {"open", "done"}
  /\ Retry(r)

-------------------------------------------------------------------------------
(* refundSale *)

(* tx.sale.findUnique and the check 'Already refunded'. *)
AskRefund(r) ==
  /\ pc[r] = "idle"
  /\ \E s \in Seller :
       /\ sale[s] # "none"
       /\ job' = [job EXCEPT ![r] = [job[s] EXCEPT !.kind = "refund"]]
       /\ pc' = [pc EXCEPT ![r] = IF sale[s] = "REFUNDED" THEN "failed" ELSE "checked"]
  /\ UNCHANGED << committed, lock, attempt, tx >>

(* tx.sale.update where id: it locks the sale and does not check again. *)
MarkRefunded(r) ==
  /\ pc[r] = "checked" /\ Free(r, job[r].sale)
  /\ lock' = [lock EXCEPT ![job[r].sale] = r]
  /\ pc' = [pc EXCEPT ![r] = "open"]
  /\ UNCHANGED << committed, job, attempt, tx >>

-------------------------------------------------------------------------------
(* createPurchase, adjustInventory, updateInventory, and their bulk forms *)

Ask(r, kind) ==
  /\ pc[r] = "idle"
  /\ \E j \in StockJobs, a \in Amounts :
       /\ j.kind = kind
       /\ job' = [job EXCEPT ![r] = [kind |-> kind, lines |-> j.lines, amount |-> a,
                                     sale |-> Nobody]]
  /\ pc' = [pc EXCEPT ![r] = "open"]
  /\ UNCHANGED << committed, lock, attempt, tx >>

(* POST /api/purchases. *)
AskPurchase(r) == Ask(r, "purchase")

(* An adjustment, or the rows of an imported sheet of them: the sheet is   *)
(* one transaction, opened only if every row is valid.                     *)
AskAdjust(r) == Ask(r, "adjust")

(* The same for absolute quantities. *)
AskOverwrite(r) == Ask(r, "set")

(* The quantity that the statement for the current line would store. *)
NewQty(r) ==
  LET l == CurrentLine(r) IN
  IF job[r].kind = "set" THEN l.n ELSE Sees(r, l.row) + l.n

(* The current line, of a job of this kind, is written and a movement of d *)
(* is logged; a negative result or an overflow has its own action.         *)
Move(r, kind, d) ==
  /\ pc[r] = "open" /\ ItemsLeft(r) /\ job[r].kind = kind
  /\ NewQty(r) \in 0..MaxQty
  /\ Free(r, CurrentLine(r).row)
  /\ Write(r, CurrentLine(r).row, NewQty(r), d)

(* receivePurchaseBatch: upsert with an increment, logged as PURCHASE. *)
ReceiveBatch(r) == Move(r, "purchase", CurrentLine(r).n)

(* performAdjustInventory: an increment, logged unless it is 0. *)
AdjustStock(r) == Move(r, "adjust", CurrentLine(r).n)

(* Mutant: a refund restores the stock but logs no RETURN. *)
RestoreUnlogged(r) == Move(r, "refund", 0)

(* restoreRefundStock: an increment of the row sold from, logged as RETURN. *)
RestoreStock(r) == Move(r, "refund", CurrentLine(r).n)

(* updateInventory: upsert of the quantity, not logged. *)
OverwriteStock(r) == Move(r, "set", 0)

(* 'Insufficient inventory': the conditional update of a negative          *)
(* adjustment matches no row.                                              *)
MoveShort(r) ==
  /\ pc[r] = "open" /\ ItemsLeft(r)
  /\ NewQty(r) < 0
  /\ Fail(r)

(* The addition overflows the integer column: the statement fails. *)
MoveOverflow(r) ==
  /\ pc[r] = "open" /\ ItemsLeft(r)
  /\ NewQty(r) > MaxQty /\ Free(r, CurrentLine(r).row)
  /\ Fail(r)

-------------------------------------------------------------------------------
(* The end of a transaction *)

(* Payment, cash flow entry and receipt of a sale.  They touch no row that *)
(* another transaction waits for, so they are part of the commit; Receipts *)
(* has the allocation of the receipt's number.                             *)
BookSale(r) ==
  /\ sale' = [sale EXCEPT ![r] = "COMPLETED"]
  /\ cash' = [cash EXCEPT ![r].SALE = @ + job[r].amount]
  /\ receipt' = [receipt EXCEPT ![r] = "ISSUED"]

(* Mutants: a refund that leaves the receipt valid, or the sale completed. *)
RefundKeepsReceipt(r) ==
  /\ sale' = [sale EXCEPT ![job[r].sale] = "REFUNDED"]
  /\ cash' = [cash EXCEPT ![job[r].sale].REFUND = @ + job[r].amount]
  /\ UNCHANGED receipt

RefundKeepsSale(r) ==
  /\ cash' = [cash EXCEPT ![job[r].sale].REFUND = @ + job[r].amount]
  /\ UNCHANGED << sale, receipt >>

(* The status set by MarkRefunded, the reversing entry, voidForSale. *)
BookRefund(r) ==
  /\ sale' = [sale EXCEPT ![job[r].sale] = "REFUNDED"]
  /\ cash' = [cash EXCEPT ![job[r].sale].REFUND = @ + job[r].amount]
  /\ receipt' = [receipt EXCEPT ![job[r].sale] = "VOIDED"]

(* The expense of a purchase. *)
BookPurchase(r) ==
  /\ cash' = [cash EXCEPT ![r].PURCHASE = @ + job[r].amount]
  /\ UNCHANGED << sale, receipt >>

Book(r) ==
  \/ job[r].kind = "sale" /\ BookSale(r)
  \/ job[r].kind = "refund" /\ BookRefund(r)
  \/ job[r].kind = "purchase" /\ BookPurchase(r)
  \/ job[r].kind \in {"adjust", "set"} /\ UNCHANGED << sale, cash, receipt >>

Commit(r) ==
  /\ pc[r] = "open" /\ ~ItemsLeft(r)
  /\ stock' = [x \in Row |-> IF lock[x] = r THEN tx[r].work[x] ELSE stock[x]]
  /\ ledger' = [x \in Row |-> ledger[x] + tx[r].moved[x]]
  /\ Book(r)
  /\ pc' = [pc EXCEPT ![r] = "done"]
  /\ lock' = [x \in DOMAIN lock |-> IF lock[x] = r THEN Nobody ELSE lock[x]]
  /\ tx' = [q \in Req |->
             IF q = r THEN NoTx
             ELSE IF q \in Seller /\ pc[q] = "open"
             THEN [tx[q] EXCEPT !.stale = @ \cup {x \in Row : lock[x] = r}]
             ELSE tx[q]]
  /\ UNCHANGED << job, attempt >>

(* The interactive transaction times out, the connection drops, the        *)
(* process dies, or a statement fails for a reason this module leaves out  *)
(* (a missing price, shop or variant): the database rolls back.            *)
Expire(r) ==
  /\ pc[r] \in {"ready", "checked", "open"}
  /\ Fail(r)

(* A conditional update whose condition already fails does not wait. *)
Waits(r) ==
  IF r \in Seller THEN Sees(r, CurrentLine(r).row) >= CurrentLine(r).n ELSE NewQty(r) >= 0

(* The requests that hold what the current statement of r waits for. *)
BlockedBy(r) ==
  LET wanted == IF pc[r] = "checked" THEN {job[r].sale}
                ELSE IF pc[r] = "open" /\ ItemsLeft(r) /\ Waits(r) THEN {CurrentLine(r).row}
                ELSE {}
  IN  {lock[x] : x \in wanted} \ {Nobody, r}

(* PostgreSQL aborts one member of a cycle of waiting transactions.  S is  *)
(* a union of cycles when each member is what some member waits for.       *)
Deadlocked(S) == \A u \in S : \E v \in S : BlockedBy(v) = {u}

DeadlockVictim(r) ==
  /\ BlockedBy(r) # {}
  /\ \E S \in SUBSET Req : r \in S /\ Deadlocked(S)
  /\ IF r \in Seller THEN Retry(r) ELSE Fail(r)

-------------------------------------------------------------------------------

Arrive(r) ==
  \/ r \in Seller /\ AskSale(r)
  \/ r \in Refunder /\ AskRefund(r)
  \/ r \in Stocker /\ (AskPurchase(r) \/ AskAdjust(r) \/ AskOverwrite(r))

SaleStep(r) ==
  \/ BeginSale(r) \/ SellItem(r) \/ SellShort(r)
  \/ SellConflict(r) \/ SerializationFailure(r)

OtherStep(r) ==
  \/ r \in Refunder /\ MarkRefunded(r)
  \/ ReceiveBatch(r) \/ AdjustStock(r) \/ RestoreStock(r) \/ OverwriteStock(r)
  \/ MoveShort(r) \/ MoveOverflow(r)

Handle(r) ==
  \/ r \in Seller /\ SaleStep(r)
  \/ r \notin Seller /\ OtherStep(r)
  \/ Commit(r)

(* POST /api/receipts/:id/void, with the sale left as it is: it stores     *)
(* VOIDED whatever was committed since it read the receipt, so only the    *)
(* write counts here.  Receipts has its two statements.                    *)
VoidReceipt(s) ==
  /\ receipt[s] = "ISSUED"
  /\ receipt' = [receipt EXCEPT ![s] = "VOIDED"]
  /\ UNCHANGED << stock, ledger, sale, cash, lock, pc, job, attempt, tx >>

(* No request is in flight; no client has to send another. *)
Quiet ==
  /\ \A r \in Req : pc[r] \in {"idle", "done", "failed"}
  /\ UNCHANGED vars

Next ==
  \/ \E r \in Req : Arrive(r) \/ Handle(r) \/ Expire(r) \/ DeadlockVictim(r)
  \/ \E s \in Seller : VoidReceipt(s)
  \/ Quiet

Spec == Init /\ [][Next]_vars

(* The event loop runs every handler, and the database detects deadlocks.  *)
(* No client has to send a request, no transaction has to expire.          *)
Fairness ==
  /\ \A r \in Req : WF_vars(Handle(r))
  /\ WF_vars(\E r \in Req : DeadlockVictim(r))

FairSpec == Spec /\ Fairness

-------------------------------------------------------------------------------
(* Properties *)

Phase == {"idle", "ready", "checked", "open", "done", "failed"}

(* Every variable keeps its type. *)
TypeOK ==
  /\ stock \in [Row -> Int]
  /\ ledger \in [Row -> Int]
  /\ sale \in [Seller -> {"none", "COMPLETED", "REFUNDED"}]
  /\ cash \in [Seller \cup Stocker -> Entries]
  /\ receipt \in [Seller -> {"none", "ISSUED", "VOIDED"}]
  /\ lock \in [Row \cup Seller -> Req \cup {Nobody}]
  /\ pc \in [Req -> Phase]
  /\ job \in [Req -> Job]
  /\ attempt \in [Seller -> 0..MaxAttempts]
  /\ tx \in [Req -> [next : Nat \ {0}, work : [Row -> Int], moved : [Row -> Int],
                     snap : [Row -> Int], stale : SUBSET Row]]

(* However sales, refunds, purchases and corrections interleave, conflict, *)
(* retry and expire, no row goes below zero (no oversell: the conditional  *)
(* updates of deductSaleStock and performAdjustInventory) or above the     *)
(* integer column.                                                         *)
StockInRange == \A x \in Row : stock[x] \in 0..MaxQty

(* The dual inventory model: the quantity of a row is what the audit trail *)
(* of InventoryTransaction adds up to.  True of every operation that goes  *)
(* through the ledger, for any interleaving and any rollback.              *)
LedgerExplainsStock == \A x \in Row : stock[x] = OpeningStock[x] + ledger[x]

(* Sale, cash flow and receipt, written by createSale and later by         *)
(* refundSale, tell one story: no money or receipt without the sale, a     *)
(* completed sale is paid in full and has a receipt (valid unless a clerk  *)
(* voids it), a refunded sale is paid back at least in full and its        *)
(* receipt is void.                                                        *)
BooksOf(s) ==
  CASE sale[s] = "none" -> cash[s] = NoEntries /\ receipt[s] = "none"
    [] sale[s] = "COMPLETED" -> /\ cash[s] = [NoEntries EXCEPT !.SALE = job[s].amount]
                                /\ receipt[s] \in {"ISSUED", "VOIDED"}
    [] sale[s] = "REFUNDED" -> /\ cash[s].SALE = job[s].amount
                               /\ cash[s].REFUND >= job[s].amount
                               /\ receipt[s] = "VOIDED"
BooksAgree == \A s \in Seller : BooksOf(s)

(* 'Already refunded': a sale is paid back at most once, whoever asks. *)
RefundedOnce == \A s \in Seller : cash[s].REFUND <= job[s].amount

(* Nothing is lost or counted twice: what left the shelf is what is in     *)
(* completed sales, what came in is what committed purchases and           *)
(* corrections moved.  A lost update of two sales, a refund that restores  *)
(* twice or a rollback that keeps a write would break it.                  *)
StockAccountsForSales ==
  \A x \in Row :
    stock[x] = OpeningStock[x]
      + SumFunctionOnSet([r \in Stocker |-> Units(job[r].lines, x)],
                         {r \in Stocker : pc[r] = "done"})
      - SumFunctionOnSet([s \in Seller |-> Units(job[s].lines, x)],
                         {s \in Seller : sale[s] = "COMPLETED"})

(* Commerce implements AtomicCommerce: a commit is the atomic operation,   *)
(* every other step stutters.                                              *)
Bill == [s \in Seller |->
          IF sale[s] = "none" THEN [lines |-> << >>, amount |-> 0, status |-> "none"]
          ELSE [lines |-> job[s].lines, amount |-> job[s].amount, status |-> sale[s]]]
Atomic == INSTANCE AtomicCommerce WITH bill <- Bill
AtomicSpec == Atomic!Spec

(* Every request that was sent is answered: no wait for a lock, deadlock   *)
(* or conflict keeps a handler for ever.                                   *)
EveryRequestAnswered == \A r \in Req : pc[r] # "idle" ~> pc[r] \in {"done", "failed"}

-------------------------------------------------------------------------------
(* The inductive invariant behind StockInRange, LedgerExplainsStock and    *)
(* BooksAgree; each part is what one of the steps relies on.               *)

(* A request in flight asks for what the validators let through, and a     *)
(* committed sale is the work of a finished request.                       *)
JobOK ==
  /\ \A r \in Seller : pc[r] # "idle" =>
       /\ job[r].kind = "sale" /\ job[r].sale = r
       /\ job[r].lines \in Carts /\ job[r].amount \in Amounts
  /\ \A r \in Refunder : pc[r] # "idle" =>
       /\ job[r].kind = "refund" /\ job[r].sale \in Seller
       /\ sale[job[r].sale] # "none" /\ job[r].amount = job[job[r].sale].amount
       /\ job[r].lines = job[job[r].sale].lines
  /\ \A r \in Stocker : pc[r] # "idle" =>
       /\ \E j \in StockJobs : job[r].kind = j.kind /\ job[r].lines = j.lines
       /\ job[r].amount \in Amounts
  /\ \A s \in Seller : sale[s] # "none" <=> pc[s] = "done"

(* Only an open transaction holds a row, and what it wrote there is legal. *)
LockOK ==
  \A r \in Req, x \in Row :
    lock[x] = r => pc[r] = "open" /\ tx[r].work[x] \in 0..MaxQty

(* A snapshot is legal, and current on the rows no other transaction has   *)
(* committed since.                                                        *)
SnapshotOK ==
  \A r \in Seller, x \in Row :
    /\ tx[r].snap[x] \in 0..MaxQty
    /\ pc[r] = "open" /\ x \notin tx[r].stale => tx[r].snap[x] = stock[x]

StockInv == TypeOK /\ JobOK /\ LockOK /\ SnapshotOK /\ StockInRange

(* A transaction has logged exactly what it did to the rows it holds,      *)
(* unless it stores absolute quantities.                                   *)
LogOK ==
  \A r \in Req, x \in Row :
    /\ lock[x] = r /\ job[r].kind # "set" => tx[r].work[x] = stock[x] + tx[r].moved[x]
    /\ lock[x] # r => tx[r].moved[x] = 0

(* What a list of lines does to the ledger, given the units it names. *)
Effect(kind, u) == IF kind = "set" THEN 0 ELSE IF kind = "sale" THEN 0 - u ELSE u

(* A transaction has done the lines before the next one and nothing else.  *)
Progressed(r) ==
  /\ pc[r] # "open" => tx[r] = NoTx
  /\ pc[r] = "open" =>
       /\ tx[r].next - 1 <= Len(job[r].lines)
       /\ \A x \in Row : LET lines == job[r].lines  k == tx[r].next - 1 IN
            /\ tx[r].moved[x] = Effect(job[r].kind, SumFunctionOnSet(Moves(lines, x), 1..k))
            /\ job[r].kind = "set" =>
                 /\ lock[x] = r => \E i \in 1..k : lines[i].row = x
                 /\ \A i \in 1..k :
                      Names(lines, x, k, i) => lock[x] = r /\ tx[r].work[x] = lines[i].n

ProgressOK == \A r \in Req : Progressed(r)

WorkInv == LogOK /\ ProgressOK

(* No two refunds of one sale are in flight at once. *)
RefundsApart ==
  \A p, q \in Refunder :
    p # q /\ {pc[p], pc[q]} \subseteq {"checked", "open"} => job[p].sale # job[q].sale

(* While they are not, a refund in flight will be the first of its sale,   *)
(* and a refunded sale has been paid back exactly; a purchase is paid when *)
(* it commits.                                                             *)
PaidOnce ==
  /\ \A r \in Refunder : pc[r] \in {"checked", "open"} => sale[job[r].sale] = "COMPLETED"
  /\ \A s \in Seller : sale[s] = "REFUNDED" => cash[s].REFUND = job[s].amount
  /\ \A r \in Stocker : pc[r] # "done" => cash[r].PURCHASE = 0

===============================================================================
