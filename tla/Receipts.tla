------------------------------- MODULE Receipts -------------------------------
(***************************************************************************)
(* The life of a receipt: its number is allocated inside the SERIALIZABLE  *)
(* transaction of the sale, the refund of the sale voids it, and clerks    *)
(* print and void it by hand.                                              *)
(*                                                                         *)
(* A number is a timestamp, in local time with milliseconds, and the value *)
(* of a counter kept per organization and timestamp.  The text of a number *)
(* has a timestamp of fixed length, so two numbers are equal exactly when  *)
(* both parts are.  Numbers are unique over all organizations.             *)
(*                                                                         *)
(* Only the statements of the sale that concern receipts are steps here;   *)
(* Commerce has the rest of the transaction.                               *)
(***************************************************************************)
EXTENDS Integers, FiniteSets

CONSTANTS
  Org,                  \* organizations
  Issuer,               \* sale requests; each issues at most one receipt, named after it
  OrgOf,                \* the organization of each sale's shop
  Clerk,                \* requests that print or void a receipt
  LastKey,              \* timestamps are 0..LastKey
  MaxSaleAttempts,      \* MAX_SALE_CREATE_RETRIES
  Nobody

Key == 0..LastKey
Number == Key \X (Nat \ {0})
NoNumber == << 0, 0 >>

ASSUME Naming ==
  /\ OrgOf \in [Issuer -> Org]
  /\ Nobody \notin Issuer
ASSUME Attempts ==
  /\ LastKey \in Nat
  /\ MaxSaleAttempts \in Nat \ {0}

VARIABLES
  now,        \* the local clock of the server
  counter,    \* ReceiptCounter.lastValue, committed; 0 when there is no row
  holder,     \* the open transaction that wrote the counter row
  pc,         \* where each sale request stands
  key,        \* the instant it read from the clock
  number,     \* the number it has allocated, committed when pc is "done"
  stale,      \* counter rows committed by others since its snapshot
  attempt,    \* attempts of createSale
  answer,     \* what the client of the sale was told
  status,     \* Receipt.status
  printed,    \* Receipt.printedAt is set
  refunded,   \* the sale is REFUNDED
  clerk       \* [at, of]: where each clerk's request stands

saleVars == << now, counter, holder, pc, key, number, stale, attempt, answer >>
receiptVars == << status, printed, refunded, clerk >>
vars == << saleVars, receiptVars >>

Idle == [at |-> "idle", of |-> Nobody]

Init ==
  /\ now \in Key
  /\ counter = [c \in Org \X Key |-> 0]
  /\ holder = [c \in Org \X Key |-> Nobody]
  /\ pc = [i \in Issuer |-> "idle"]
  /\ key = [i \in Issuer |-> 0]
  /\ number = [i \in Issuer |-> NoNumber]
  /\ stale = [i \in Issuer |-> {}]
  /\ attempt = [i \in Issuer |-> 0]
  /\ answer = [i \in Issuer |-> "none"]
  /\ status = [i \in Issuer |-> "none"]
  /\ printed = [i \in Issuer |-> FALSE]
  /\ refunded = [i \in Issuer |-> FALSE]
  /\ clerk = [c \in Clerk |-> Idle]

-------------------------------------------------------------------------------
(* Time passes; summer time and clock corrections also set it back. *)
SetClock ==
  /\ now' \in Key \ {now}
  /\ UNCHANGED << counter, holder, pc, key, number, stale, attempt, answer, receiptVars >>

(* The transaction of i ends without effect. *)
Rollback(i, s, told) ==
  /\ pc' = [pc EXCEPT ![i] = s]
  /\ answer' = [answer EXCEPT ![i] = told]
  /\ number' = [number EXCEPT ![i] = NoNumber]
  /\ holder' = [c \in DOMAIN holder |-> IF holder[c] = i THEN Nobody ELSE holder[c]]
  /\ UNCHANGED << now, counter, key, stale, receiptVars >>

(* An error that createSale does not retry. *)
Fail(i, told) == Rollback(i, "failed", told) /\ UNCHANGED attempt

(* Mutant: the attempts are not counted. *)
RetryUncounted(i) == Rollback(i, "ready", "none") /\ UNCHANGED attempt

(* Mutant: one attempt too many. *)
RetryOnceMore(i) ==
  IF attempt[i] <= MaxSaleAttempts
  THEN Rollback(i, "ready", "none") /\ attempt' = [attempt EXCEPT ![i] = @ + 1]
  ELSE Fail(i, "conflict")

(* P2034: the next attempt of createSale. *)
Retry(i) ==
  IF attempt[i] < MaxSaleAttempts
  THEN Rollback(i, "ready", "none") /\ attempt' = [attempt EXCEPT ![i] = @ + 1]
  ELSE Fail(i, "conflict")

Sell(i) ==
  /\ pc[i] = "idle"
  /\ pc' = [pc EXCEPT ![i] = "ready"]
  /\ attempt' = [attempt EXCEPT ![i] = 1]
  /\ UNCHANGED << now, counter, holder, key, number, stale, answer, receiptVars >>

(* The snapshot of the sale. *)
Begin(i) ==
  /\ pc[i] = "ready"
  /\ pc' = [pc EXCEPT ![i] = "open"]
  /\ stale' = [stale EXCEPT ![i] = {}]
  /\ UNCHANGED << now, counter, holder, key, number, attempt, answer, receiptVars >>

(* generateReceiptNumber reads the clock of the server ... *)
ReadClock(i) ==
  /\ pc[i] = "open"
  /\ key' = [key EXCEPT ![i] = now]
  /\ pc' = [pc EXCEPT ![i] = "timed"]
  /\ UNCHANGED << now, counter, holder, number, stale, attempt, answer, receiptVars >>

CounterRow(i) == << OrgOf[i], key[i] >>

(* Mutant: the counter is read without locking its row. *)
AllocateUnlocked(i) ==
  /\ pc[i] = "timed"
  /\ number' = [number EXCEPT ![i] = << key[i], counter[CounterRow(i)] + 1 >>]
  /\ pc' = [pc EXCEPT ![i] = "numbered"]
  /\ UNCHANGED << now, counter, holder, key, stale, attempt, answer, receiptVars >>

(* ... and increments the counter of that instant: INSERT ... ON CONFLICT  *)
(* DO UPDATE locks the row until the transaction ends.                     *)
Allocate(i) ==
  /\ pc[i] = "timed"
  /\ holder[CounterRow(i)] = Nobody /\ key[i] \notin stale[i]
  /\ holder' = [holder EXCEPT ![CounterRow(i)] = i]
  /\ number' = [number EXCEPT ![i] = << key[i], counter[CounterRow(i)] + 1 >>]
  /\ pc' = [pc EXCEPT ![i] = "numbered"]
  /\ UNCHANGED << now, counter, key, stale, attempt, answer, receiptVars >>

(* The row was committed since the snapshot: a serialization failure of a  *)
(* raw query, which Prisma may report as P2034 or as an unmapped error.    *)
AllocateConflict(i) ==
  /\ pc[i] = "timed"
  /\ holder[CounterRow(i)] = Nobody /\ key[i] \in stale[i]
  /\ Retry(i) \/ Fail(i, "raw")

Committed(i) == pc[i] = "done"

(* receipt.create: an uncommitted insert of the same number is waited for. *)
Insert(i) ==
  /\ pc[i] = "numbered"
  /\ \A j \in Issuer \ {i} : number[j] = number[i] => pc[j] = "numbered"
  /\ pc' = [pc EXCEPT ![i] = "inserted"]
  /\ UNCHANGED << now, counter, holder, key, number, stale, attempt, answer, receiptVars >>

(* The number is taken: P2002, and PostgreSQL aborts the transaction and   *)
(* drops its locks.  createForSale catches the error and goes round.       *)
NumberTaken(i) ==
  /\ pc[i] = "numbered"
  /\ \E j \in Issuer : Committed(j) /\ number[j] = number[i]
  /\ Rollback(i, "aborted", "none")
  /\ UNCHANGED attempt

(* Its next statement, generateReceiptNumber again, is refused because the *)
(* transaction is aborted; that error is neither P2002 nor P2034.          *)
AllocateRefused(i) == pc[i] = "aborted" /\ Fail(i, "transaction aborted")

(* PostgreSQL may refuse a sale whose reads and writes overlap those of    *)
(* another sale that is open or was committed meanwhile.                   *)
SerializationFailure(i) ==
  /\ pc[i] \in {"numbered", "inserted"}
  /\ \E j \in Issuer \ {i} : pc[j] \in {"open", "timed", "numbered", "inserted", "done"}
  /\ Retry(i)

(* Mutant: the counter row is not updated by the commit. *)
CommitCounterLost(i) ==
  /\ pc[i] = "inserted"
  /\ holder' = [c \in DOMAIN holder |-> IF holder[c] = i THEN Nobody ELSE holder[c]]
  /\ pc' = [pc EXCEPT ![i] = "done"]
  /\ answer' = [answer EXCEPT ![i] = "created"]
  /\ status' = [status EXCEPT ![i] = "ISSUED"]
  /\ UNCHANGED << now, counter, key, number, stale, attempt, printed, refunded, clerk >>

Commit(i) ==
  /\ pc[i] = "inserted"
  /\ counter' = [counter EXCEPT ![CounterRow(i)] = number[i][2]]
  /\ holder' = [holder EXCEPT ![CounterRow(i)] = Nobody]
  /\ stale' = [j \in Issuer |->
                IF pc[j] \in {"open", "timed"} /\ OrgOf[j] = OrgOf[i]
                THEN stale[j] \cup {key[i]} ELSE stale[j]]
  /\ pc' = [pc EXCEPT ![i] = "done"]
  /\ answer' = [answer EXCEPT ![i] = "created"]
  /\ status' = [status EXCEPT ![i] = "ISSUED"]
  /\ UNCHANGED << now, key, number, attempt, printed, refunded, clerk >>

(* Timeout, lost connection or crash. *)
Expire(i) ==
  /\ pc[i] \in {"ready", "open", "timed", "numbered", "inserted", "aborted"}
  /\ Fail(i, "timeout")

-------------------------------------------------------------------------------
(* The commit of refundSale, with voidForSale: a void receipt stays void. *)
Refund(i) ==
  /\ Committed(i) /\ ~refunded[i]
  /\ refunded' = [refunded EXCEPT ![i] = TRUE]
  /\ status' = [status EXCEPT ![i] = "VOIDED"]
  /\ UNCHANGED << saleVars, printed, clerk >>

(* markPrinted and voidReceipt read the receipt first, ... *)
ClerkReads(c) ==
  /\ clerk[c] = Idle
  /\ \E i \in Issuer, what \in {"print", "void"} :
       /\ Committed(i)
       /\ clerk' = [clerk EXCEPT ![c] =
                     [at |-> IF status[i] = "VOIDED" THEN "refused" ELSE what, of |-> i]]
  /\ UNCHANGED << saleVars, status, printed, refunded >>

(* Mutant: printing stores the whole receipt that was read. *)
ClerkPrintsAll(c) ==
  /\ clerk[c].at = "print"
  /\ printed' = [printed EXCEPT ![clerk[c].of] = TRUE]
  /\ status' = [status EXCEPT ![clerk[c].of] = "ISSUED"]
  /\ clerk' = [clerk EXCEPT ![c].at = "done"]
  /\ UNCHANGED << saleVars, refunded >>

(* ... then update it by its id, with no condition. *)
ClerkPrints(c) ==
  /\ clerk[c].at = "print"
  /\ printed' = [printed EXCEPT ![clerk[c].of] = TRUE]
  /\ clerk' = [clerk EXCEPT ![c].at = "done"]
  /\ UNCHANGED << saleVars, status, refunded >>

ClerkVoids(c) ==
  /\ clerk[c].at = "void"
  /\ status' = [status EXCEPT ![clerk[c].of] = "VOIDED"]
  /\ clerk' = [clerk EXCEPT ![c].at = "done"]
  /\ UNCHANGED << saleVars, printed, refunded >>

-------------------------------------------------------------------------------

Handle(i) ==
  \/ Begin(i) \/ ReadClock(i) \/ Allocate(i) \/ AllocateConflict(i) \/ Insert(i)
  \/ NumberTaken(i) \/ AllocateRefused(i) \/ SerializationFailure(i) \/ Commit(i)

ClerkStep(c) == ClerkPrints(c) \/ ClerkVoids(c)

(* No request is in flight; no client has to send another. *)
Quiet ==
  /\ \A i \in Issuer : pc[i] \in {"idle", "done", "failed"}
  /\ \A c \in Clerk : clerk[c].at \notin {"print", "void"}
  /\ UNCHANGED vars

Next ==
  \/ SetClock
  \/ Quiet
  \/ \E i \in Issuer : Sell(i) \/ Handle(i) \/ Expire(i) \/ Refund(i)
  \/ \E c \in Clerk : ClerkReads(c) \/ ClerkStep(c)

Spec == Init /\ [][Next]_vars

(* Handlers run; the clock and the clients owe nothing. *)
FairSpec ==
  /\ Spec
  /\ \A i \in Issuer : WF_vars(Handle(i))
  /\ \A c \in Clerk : WF_vars(ClerkStep(c))

-------------------------------------------------------------------------------
(* Properties *)

InTx == {"numbered", "inserted"}

(* Every variable keeps its type. *)
TypeOK ==
  /\ now \in Key
  /\ counter \in [Org \X Key -> Nat]
  /\ holder \in [Org \X Key -> Issuer \cup {Nobody}]
  /\ pc \in [Issuer -> {"idle", "ready", "open", "timed", "aborted",
                    "done", "failed"} \cup InTx]
  /\ key \in [Issuer -> Key]
  /\ number \in [Issuer -> Number \cup {NoNumber}]
  /\ stale \in [Issuer -> SUBSET Key]
  /\ attempt \in [Issuer -> 0..MaxSaleAttempts]
  /\ answer \in [Issuer -> {"none", "created", "conflict", "raw", "timeout",
                            "transaction aborted"}]
  /\ status \in [Issuer -> {"none", "ISSUED", "VOIDED"}]
  /\ printed \in [Issuer -> BOOLEAN]
  /\ refunded \in [Issuer -> BOOLEAN]
  /\ clerk \in [Clerk -> [at : {"idle", "print", "void", "refused", "done"},
                          of : Issuer \cup {Nobody}]]

(* Two sales of one organization never hold the same number, not even      *)
(* before they commit, and however the clock is set back: the counter row  *)
(* is locked until the commit that makes its value count.                  *)
OrgNumbersDistinct ==
  \A i, j \in Issuer :
    i # j /\ OrgOf[i] = OrgOf[j] /\ number[i] # NoNumber => number[i] # number[j]

(* No number is lost: the committed counter of an instant is the number of *)
(* receipts its organization has issued for it.                            *)
CounterCountsReceipts ==
  \A o \in Org, k \in Key :
    counter[<< o, k >>] = Cardinality({i \in Issuer : Committed(i) /\ OrgOf[i] = o /\ number[i][1] = k})

(* The receipt of a refunded sale is void, whatever clerks do meanwhile.   *)
RefundVoids == \A i \in Issuer : refunded[i] => status[i] = "VOIDED"

(* Every sale that was sent is answered: there is a moment, and later ones *)
(* again, at which nobody waits.  (A sale is sent once, so waiting for ever *)
(* is to be unanswered from some moment on.)                               *)
SaleAnswered == []<>(\A i \in Issuer : pc[i] \in {"idle", "done", "failed"})

(* A number that collides is retried: no sale is refused because of the    *)
(* state its own transaction was left in.                                  *)
CollisionIsRetried == \A i \in Issuer : answer[i] # "transaction aborted"

(* 'Cannot print a voided receipt'. *)
NoPrintAfterVoid ==
  [][\A i \in Issuer : printed'[i] # printed[i] => status[i] # "VOIDED"]_vars

-------------------------------------------------------------------------------
(* The inductive invariant behind OrgNumbersDistinct *)

(* A number allocated but not committed is the next value of a row that    *)
(* only its own transaction has written.                                   *)
PendingOK ==
  \A i \in Issuer :
    /\ pc[i] \in InTx => /\ holder[CounterRow(i)] = i
                         /\ number[i] = << key[i], counter[CounterRow(i)] + 1 >>
    /\ pc[i] \notin InTx \cup {"done"} => number[i] = NoNumber

(* Only such a transaction holds a counter row, and only that row. *)
HolderOK ==
  \A c \in Org \X Key, i \in Issuer :
    holder[c] = i => pc[i] \in InTx /\ c = CounterRow(i)

(* The counter has reached every committed number. *)
CountedOK ==
  \A i \in Issuer : pc[i] = "done" =>
    number[i] \in Number /\ number[i][2] <= counter[<< OrgOf[i], number[i][1] >>]

NumberInv == TypeOK /\ PendingOK /\ HolderOK /\ CountedOK /\ OrgNumbersDistinct

===============================================================================
