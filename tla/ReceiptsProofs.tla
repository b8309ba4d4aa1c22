---------------------------- MODULE ReceiptsProofs ----------------------------
(***************************************************************************)
(* Receipts, for any number of organizations, sales, instants and clerks:  *)
(* no organization issues a number twice, however the clock is set, none   *)
(* is lost, and a refund voids the receipt for good.                       *)
(***************************************************************************)
EXTENDS Receipts, FiniteSetTheorems, TLAPS

(* A number records the instant and the value of its counter. *)
LEMMA NumberParts ==
  ASSUME NEW k \in Key, NEW n \in Nat
  PROVE  /\ << k, n + 1 >> \in Number /\ << k, n + 1 >> # NoNumber
         /\ << k, n + 1 >>[1] = k /\ << k, n + 1 >>[2] = n + 1
BY DEF Number, NoNumber

(* Counter rows are those of the counter's domain. *)
LEMMA RowType ==
  ASSUME TypeOK, NEW i \in Issuer
  PROVE  CounterRow(i) \in Org \X Key /\ counter[CounterRow(i)] \in Nat
BY Naming DEF TypeOK, CounterRow

(* At the start no number is allocated and no counter row is held. *)
LEMMA InitNumbers == Init => NumberInv
<1> SUFFICES ASSUME Init PROVE NumberInv
  OBVIOUS
<1>1. TypeOK
  BY Attempts DEF Init, TypeOK, Key, InTx, Idle
<1>2. PendingOK /\ HolderOK /\ CountedOK /\ OrgNumbersDistinct
  BY Naming DEF Init, PendingOK, HolderOK, CountedOK, OrgNumbersDistinct, InTx
<1> QED BY <1>1, <1>2 DEF NumberInv

(* A step that writes no counter, lock, key or number, and moves a sale    *)
(* between places outside its numbered part only, or from one numbered     *)
(* place to the other, keeps the parts of the invariant beside the types.  *)
LEMMA QuietNumbers ==
  ASSUME NumberInv, TypeOK',
         UNCHANGED << counter, holder, number >>,
         \A i \in Issuer : /\ pc'[i] \in InTx <=> pc[i] \in InTx
                           /\ pc'[i] = "done" <=> pc[i] = "done"
                           /\ pc[i] \in InTx \cup {"done"} => key'[i] = key[i]
  PROVE  NumberInv'
<1> USE DEF NumberInv, TypeOK
<1>1. PendingOK'
  BY ZenonT(30) DEF PendingOK, CounterRow, InTx
<1>2. HolderOK'
  <2> SUFFICES ASSUME NEW c \in Org \X Key, NEW i \in Issuer, holder[c] = i
               PROVE  pc'[i] \in InTx /\ c = CounterRow(i)'
    BY DEF HolderOK
  <2>1. pc[i] \in InTx /\ c = CounterRow(i)
    BY DEF HolderOK
  <2> QED BY <2>1 DEF CounterRow
<1>3. CountedOK' /\ OrgNumbersDistinct'
  BY DEF CountedOK, OrgNumbersDistinct
<1> QED BY <1>1, <1>2, <1>3

(* A rollback gives the number and the lock on the counter row back. *)
LEMMA RollbackNumbers ==
  ASSUME NumberInv, NEW i \in Issuer, NEW s \in {"ready", "aborted", "failed"}, NEW told,
         told \in {"none", "conflict", "raw", "timeout", "transaction aborted"},
         Rollback(i, s, told), attempt' \in [Issuer -> 0..MaxSaleAttempts], pc[i] # "done"
  PROVE  NumberInv'
<1> USE DEF NumberInv
<1>1. /\ pc' = [pc EXCEPT ![i] = s] /\ number' = [number EXCEPT ![i] = NoNumber]
      /\ holder' = [c \in DOMAIN holder |-> IF holder[c] = i THEN Nobody ELSE holder[c]]
      /\ UNCHANGED << counter, key >>
  BY DEF Rollback
<1>2. TypeOK'
  BY Naming DEF TypeOK, Rollback, receiptVars, InTx
<1>3. \A j \in Issuer \ {i} : pc'[j] = pc[j] /\ number'[j] = number[j] /\ CounterRow(j)' = CounterRow(j)
  BY <1>1 DEF TypeOK, CounterRow
<1>4. s \notin InTx \cup {"done"} /\ pc'[i] = s /\ number'[i] = NoNumber
  BY <1>1 DEF TypeOK, InTx
<1>5. PendingOK'
  <2>1. ASSUME NEW j \in Issuer \ {i}, pc[j] \in InTx PROVE holder'[CounterRow(j)] = j
    <3>1. holder[CounterRow(j)] = j /\ CounterRow(j) \in DOMAIN holder
      BY <2>1, RowType DEF PendingOK, TypeOK
    <3> QED BY <1>1, <3>1
  <2>2. ASSUME NEW j \in Issuer \ {i}, pc[j] \in InTx
        PROVE  number'[j] = << key'[j], counter'[CounterRow(j)'] + 1 >>
    BY ZenonT(30), <1>1, <1>3, <2>2 DEF PendingOK
  <2> QED BY <1>3, <1>4, <2>1, <2>2 DEF PendingOK
<1>6. HolderOK'
  <2> SUFFICES ASSUME NEW c \in Org \X Key, NEW j \in Issuer, holder'[c] = j
               PROVE  pc'[j] \in InTx /\ c = CounterRow(j)'
    BY DEF HolderOK
  <2>1. holder[c] = j /\ j # i
    BY <1>1, Naming DEF TypeOK
  <2> QED BY <1>3, <2>1 DEF HolderOK
<1>7. CountedOK' /\ OrgNumbersDistinct'
  BY ZenonT(30), <1>1, <1>3, <1>4 DEF CountedOK, OrgNumbersDistinct
<1> QED BY <1>2, <1>5, <1>6, <1>7

(* A conflict starts the next attempt or gives up. *)
LEMMA RetryNumbers ==
  ASSUME NumberInv, NEW i \in Issuer, pc[i] # "done", Retry(i)
  PROVE  NumberInv'
<1>1. CASE attempt[i] < MaxSaleAttempts
  <2>1. attempt' \in [Issuer -> 0..MaxSaleAttempts]
    <3>1. attempt' = [attempt EXCEPT ![i] = @ + 1]
      BY <1>1 DEF Retry
    <3>2. attempt \in [Issuer -> 0..MaxSaleAttempts] /\ MaxSaleAttempts \in Nat
      BY Attempts DEF NumberInv, TypeOK
    <3>3. attempt[i] + 1 \in 0..MaxSaleAttempts
      BY <1>1, <3>2
    <3> QED BY <3>1, <3>2, <3>3
  <2> QED BY <1>1, <2>1, RollbackNumbers DEF Retry
<1>2. CASE ~(attempt[i] < MaxSaleAttempts)
  BY <1>2, RollbackNumbers DEF Retry, Fail, NumberInv, TypeOK
<1> QED BY <1>1, <1>2

(* An error that is not retried. *)
LEMMA FailNumbers ==
  ASSUME NumberInv, NEW i \in Issuer, NEW told \in {"raw", "timeout", "transaction aborted"},
         pc[i] # "done", Fail(i, told)
  PROVE  NumberInv'
<1>1. attempt' \in [Issuer -> 0..MaxSaleAttempts]
  BY DEF Fail, NumberInv, TypeOK
<1> QED BY <1>1, RollbackNumbers DEF Fail

(* The new number is beyond every number of its organization and instant:  *)
(* the committed ones are counted, and no open one shares the free row.    *)
LEMMA AllocateNumbers ==
  ASSUME NumberInv, NEW i \in Issuer, Allocate(i)
  PROVE  NumberInv'
<1> USE DEF NumberInv
<1> DEFINE new == << key[i], counter[CounterRow(i)] + 1 >>
<1>1. /\ pc[i] = "timed" /\ pc' = [pc EXCEPT ![i] = "numbered"]
      /\ holder[CounterRow(i)] = Nobody /\ holder' = [holder EXCEPT ![CounterRow(i)] = i]
      /\ number' = [number EXCEPT ![i] = new]
      /\ UNCHANGED << now, counter, key, stale, attempt, answer, status, printed, refunded, clerk >>
  BY DEF Allocate, receiptVars
<1>2. CounterRow(i) \in Org \X Key /\ counter[CounterRow(i)] \in Nat /\ key[i] \in Key
  BY Naming DEF TypeOK, CounterRow
<1>3. new \in Number /\ new # NoNumber /\ new[1] = key[i] /\ new[2] = counter[CounterRow(i)] + 1
  BY <1>2, NumberParts
<1> HIDE DEF new
<1>4. TypeOK'
  BY <1>1, <1>2, <1>3 DEF TypeOK, InTx
<1>5. /\ pc'[i] = "numbered" /\ number'[i] = new /\ holder'[CounterRow(i)] = i
      /\ \A j \in Issuer : CounterRow(j)' = CounterRow(j)
      /\ \A j \in Issuer \ {i} : pc'[j] = pc[j] /\ number'[j] = number[j]
  BY <1>1, <1>2 DEF TypeOK, CounterRow
<1>6. \A j \in Issuer : CounterRow(j) \in Org \X Key
  BY Naming DEF TypeOK, CounterRow
<1>7. PendingOK'
  <2>1. ASSUME NEW j \in Issuer \ {i}, pc[j] \in InTx
        PROVE  holder'[CounterRow(j)] = j /\ number'[j] = << key[j], counter[CounterRow(j)] + 1 >>
    <3>1. holder[CounterRow(j)] = j /\ CounterRow(j) # CounterRow(i)
      BY <1>1, <2>1, Naming DEF PendingOK
    <3> QED BY <1>1, <1>5, <1>6, <2>1, <3>1 DEF PendingOK, TypeOK
  <2>2. number'[i] = << key[i], counter[CounterRow(i)] + 1 >>
    BY <1>5 DEF new
  <2> QED BY <1>1, <1>5, <2>1, <2>2 DEF PendingOK, InTx
<1>8. HolderOK'
  <2> SUFFICES ASSUME NEW c \in Org \X Key, NEW j \in Issuer, holder'[c] = j
               PROVE  pc'[j] \in InTx /\ c = CounterRow(j)
    BY <1>5 DEF HolderOK
  <2>1. CASE c = CounterRow(i)
    BY <1>5, <2>1 DEF InTx
  <2>2. CASE c # CounterRow(i)
    <3>1. holder[c] = j
      BY <1>1, <2>2 DEF TypeOK
    <3> QED BY <1>1, <1>5, <3>1 DEF HolderOK, InTx
  <2> QED BY <2>1, <2>2
<1>9. CountedOK'
  BY <1>1, <1>5 DEF CountedOK
<1>10. OrgNumbersDistinct'
  <2>1. ASSUME NEW j \in Issuer \ {i}, OrgOf[j] = OrgOf[i] PROVE number[j] # new
    <3>1. CASE pc[j] \in InTx
      <4>1. holder[CounterRow(j)] = j
        BY <3>1 DEF PendingOK
      <4>2. key[j] # key[i]
        BY <1>1, <2>1, <4>1, Naming DEF CounterRow
      <4>3. number[j][1] = key[j]
        BY <3>1 DEF PendingOK
      <4> QED BY <1>3, <4>2, <4>3
    <3>2. CASE pc[j] = "done"
      <4>1. number[j] \in Number /\ number[j][2] <= counter[<< OrgOf[i], number[j][1] >>]
        BY <2>1, <3>2 DEF CountedOK
      <4>2. number[j] = new => number[j][2] <= counter[CounterRow(i)]
        BY <1>3, <4>1 DEF CounterRow
      <4> QED BY <1>2, <1>3, <4>2
    <3>3. CASE pc[j] \notin InTx \cup {"done"}
      BY <1>3, <3>3 DEF PendingOK
    <3> QED BY <3>1, <3>2, <3>3
  <2> QED BY <1>5, <2>1 DEF OrgNumbersDistinct
<1> QED BY <1>4, <1>7, <1>8, <1>9, <1>10

(* A commit counts its number: the counter row was its own.                *)
LEMMA CommitNumbers ==
  ASSUME NumberInv, NEW i \in Issuer, Commit(i)
  PROVE  NumberInv'
<1> USE DEF NumberInv
<1> DEFINE row == CounterRow(i)
<1>1. /\ pc[i] = "inserted" /\ pc' = [pc EXCEPT ![i] = "done"]
      /\ counter' = [counter EXCEPT ![row] = number[i][2]]
      /\ holder' = [holder EXCEPT ![row] = Nobody]
      /\ UNCHANGED << key, number >>
  BY DEF Commit
<1>2. /\ row \in Org \X Key /\ counter[row] \in Nat /\ key[i] \in Key
      /\ row = << OrgOf[i], key[i] >>
  BY Naming DEF TypeOK, CounterRow
<1>3. holder[row] = i /\ number[i] = << key[i], counter[row] + 1 >>
  BY <1>1 DEF PendingOK, InTx
<1>4. /\ number[i] \in Number /\ number[i][1] = key[i] /\ number[i][2] = counter[row] + 1
  BY <1>2, <1>3, NumberParts
<1>5. TypeOK'
  <2>1. stale' \in [Issuer -> SUBSET Key]
    BY <1>2 DEF Commit, TypeOK
  <2>2. /\ answer' = [answer EXCEPT ![i] = "created"]
        /\ status' = [status EXCEPT ![i] = "ISSUED"]
        /\ UNCHANGED << now, attempt, printed, refunded, clerk >>
    BY DEF Commit
  <2>3. number[i][2] \in Nat
    BY <1>2, <1>4
  <2> QED BY <1>1, <1>2, <2>1, <2>2, <2>3 DEF TypeOK
<1> HIDE DEF row
<1>6. /\ pc'[i] = "done" /\ counter'[row] = counter[row] + 1 /\ holder'[row] = Nobody
      /\ \A c \in Org \X Key : c # row => counter'[c] = counter[c] /\ holder'[c] = holder[c]
      /\ \A j \in Issuer \ {i} : pc'[j] = pc[j]
      /\ \A j \in Issuer : CounterRow(j)' = CounterRow(j) /\ CounterRow(j) \in Org \X Key
  BY <1>1, <1>2, <1>4, Naming DEF TypeOK, CounterRow
<1>7. PendingOK'
  <2>1. ASSUME NEW j \in Issuer \ {i}, pc[j] \in InTx PROVE CounterRow(j) # row
    BY <1>3, <2>1 DEF PendingOK
  <2> QED BY <1>1, <1>6, <2>1 DEF PendingOK, InTx
<1>8. HolderOK'
  <2> SUFFICES ASSUME NEW c \in Org \X Key, NEW j \in Issuer, holder'[c] = j
               PROVE  pc'[j] \in InTx /\ c = CounterRow(j)
    BY <1>6 DEF HolderOK
  <2>1. c # row /\ holder[c] = j
    BY <1>6, Naming
  <2>2. j # i
    BY <2>1, row = CounterRow(i) DEF HolderOK, row
  <2> QED BY <1>6, <2>1, <2>2 DEF HolderOK
<1>9. CountedOK'
  <2> SUFFICES ASSUME NEW j \in Issuer, pc'[j] = "done"
               PROVE  number[j] \in Number /\ number[j][2] <= counter'[<< OrgOf[j], number[j][1] >>]
    BY <1>1 DEF CountedOK
  <2>1. CASE j = i
    BY <1>2, <1>4, <1>6, <2>1 DEF Number
  <2>2. CASE j # i
    <3>1. number[j] \in Number /\ number[j][2] <= counter[<< OrgOf[j], number[j][1] >>]
      BY <1>6, <2>2 DEF CountedOK
    <3>2. << OrgOf[j], number[j][1] >> \in Org \X Key /\ number[j][2] \in Nat
      BY <3>1, Naming DEF Number
    <3> DEFINE c == << OrgOf[j], number[j][1] >>
    <3>3. c \in Org \X Key /\ number[j][2] <= counter[c] /\ counter[c] \in Nat
      BY <3>1, <3>2 DEF TypeOK
    <3>4. counter[c] <= counter'[c]
      BY <1>2, <1>6, <3>3
    <3>5. counter'[c] \in Nat
      BY <1>5, <3>3 DEF TypeOK
    <3> HIDE DEF c
    <3>6. number[j][2] <= counter'[c]
      BY <3>2, <3>3, <3>4, <3>5
    <3> QED BY <3>1, <3>6 DEF c
  <2> QED BY <2>1, <2>2
<1>10. OrgNumbersDistinct'
  BY <1>1 DEF OrgNumbersDistinct
<1> QED BY <1>5, <1>7, <1>8, <1>9, <1>10

(* Every step keeps the invariant. *)
LEMMA NextNumbers == NumberInv /\ [Next]_vars => NumberInv'
<1> SUFFICES ASSUME NumberInv, [Next]_vars PROVE NumberInv'
  OBVIOUS
<1>1. CASE SetClock
  BY <1>1, QuietNumbers DEF SetClock, receiptVars, NumberInv, TypeOK
<1>2. ASSUME NEW i \in Issuer, Sell(i) PROVE NumberInv'
  <2>1. /\ pc[i] = "idle" /\ pc' = [pc EXCEPT ![i] = "ready"]
        /\ attempt' = [attempt EXCEPT ![i] = 1]
        /\ UNCHANGED << now, counter, holder, key, number, stale, answer >>
        /\ UNCHANGED << status, printed, refunded, clerk >>
    BY <1>2 DEF Sell, receiptVars
  <2>2. TypeOK'
    <3>1. 1 \in 0..MaxSaleAttempts
      BY Attempts
    <3> QED BY <2>1, <3>1 DEF NumberInv, TypeOK
  <2> QED BY <2>1, <2>2, QuietNumbers DEF NumberInv, TypeOK, InTx
<1>3. ASSUME NEW i \in Issuer, Handle(i) PROVE NumberInv'
  <2>1. CASE Begin(i)
    BY <2>1, QuietNumbers DEF Begin, receiptVars, NumberInv, TypeOK, InTx
  <2>2. CASE ReadClock(i)
    BY <2>2, QuietNumbers DEF ReadClock, receiptVars, NumberInv, TypeOK, InTx
  <2>3. CASE Allocate(i)
    BY <2>3, AllocateNumbers
  <2>4. CASE AllocateConflict(i)
    BY <2>4, RetryNumbers, FailNumbers DEF AllocateConflict
  <2>5. CASE Insert(i)
    BY <2>5, QuietNumbers DEF Insert, receiptVars, NumberInv, TypeOK, InTx
  <2>6. CASE NumberTaken(i)
    BY <2>6, RollbackNumbers DEF NumberTaken, NumberInv, TypeOK
  <2>7. CASE AllocateRefused(i)
    BY <2>7, FailNumbers DEF AllocateRefused
  <2>8. CASE SerializationFailure(i)
    BY <2>8, RetryNumbers DEF SerializationFailure
  <2>9. CASE Commit(i)
    BY <2>9, CommitNumbers
  <2> QED BY <1>3, <2>1, <2>2, <2>3, <2>4, <2>5, <2>6, <2>7, <2>8, <2>9 DEF Handle
<1>4. ASSUME NEW i \in Issuer, Expire(i) PROVE NumberInv'
  BY <1>4, FailNumbers DEF Expire
<1>5. ASSUME NEW i \in Issuer, Refund(i) PROVE NumberInv'
  BY <1>5, QuietNumbers DEF Refund, saleVars, NumberInv, TypeOK
<1>6. ASSUME NEW c \in Clerk, ClerkReads(c) PROVE NumberInv'
  <2>1. PICK i \in Issuer, at \in {"print", "void", "refused"} :
          clerk' = [clerk EXCEPT ![c] = [at |-> at, of |-> i]]
    BY <1>6 DEF ClerkReads
  <2>2. TypeOK'
    BY <1>6, <2>1 DEF ClerkReads, saleVars, NumberInv, TypeOK
  <2> QED BY <1>6, <2>2, QuietNumbers DEF ClerkReads, saleVars
<1>7. ASSUME NEW c \in Clerk, ClerkStep(c) PROVE NumberInv'
  <2>1. clerk[c] \in [at : {"idle", "print", "void", "refused", "done"},
                      of : Issuer \cup {Nobody}]
    BY DEF NumberInv, TypeOK
  <2>2. [clerk[c] EXCEPT !.at = "done"] \in [at : {"idle", "print", "void", "refused", "done"},
                                             of : Issuer \cup {Nobody}]
    BY <2>1
  <2>3. clerk' = [clerk EXCEPT ![c] = [clerk[c] EXCEPT !.at = "done"]]
    BY <1>7 DEF ClerkStep, ClerkPrints, ClerkVoids
  <2>4. TypeOK'
    BY <1>7, <2>2, <2>3 DEF ClerkStep, ClerkPrints, ClerkVoids, saleVars, NumberInv, TypeOK
  <2> QED BY <1>7, <2>4, QuietNumbers DEF ClerkStep, ClerkPrints, ClerkVoids, saleVars
<1>8. CASE UNCHANGED vars
  BY <1>8, QuietNumbers DEF vars, saleVars, receiptVars, NumberInv, TypeOK
<1> QED BY <1>1, <1>2, <1>3, <1>4, <1>5, <1>6, <1>7, <1>8 DEF Next, Quiet

-------------------------------------------------------------------------------
(* Counters, refunds and the sales that are committed *)

(* A step commits one sale, or leaves counters and committed sales alone.  *)
LEMMA Settled ==
  ASSUME NumberInv, [Next]_vars
  PROVE  \/ \E i \in Issuer : Commit(i)
         \/ /\ counter' = counter
            /\ \A j \in Issuer : /\ Committed(j)' <=> Committed(j)
                                 /\ Committed(j) => number'[j] = number[j]
<1> DEFINE Same == /\ counter' = counter
                   /\ \A j \in Issuer : /\ Committed(j)' <=> Committed(j)
                                        /\ Committed(j) => number'[j] = number[j]
<1> USE DEF NumberInv, TypeOK, Committed
<1>1. ASSUME NEW i \in Issuer, NEW s \in {"ready", "aborted", "failed"}, NEW told,
             pc[i] # "done", Rollback(i, s, told)
      PROVE  Same
  BY <1>1 DEF Rollback
<1>2. ASSUME NEW i \in Issuer, pc[i] # "done", Retry(i) \/ \E told : Fail(i, told)
      PROVE  Same
  BY <1>1, <1>2 DEF Retry, Fail
<1>3. ASSUME NEW i \in Issuer, Sell(i) \/ Begin(i) \/ ReadClock(i) \/ Allocate(i) \/ Insert(i)
      PROVE  Same
  BY <1>3 DEF Sell, Begin, ReadClock, Allocate, Insert
<1>4. ASSUME NEW i \in Issuer, Handle(i) PROVE Commit(i) \/ Same
  BY <1>1, <1>2, <1>3, <1>4
  DEF Handle, AllocateConflict, NumberTaken, AllocateRefused, SerializationFailure
<1>5. ASSUME NEW i \in Issuer, Expire(i) PROVE Same
  BY <1>2, <1>5 DEF Expire
<1>6. ASSUME SetClock \/ (\E i \in Issuer : Refund(i)) \/ UNCHANGED vars
             \/ \E c \in Clerk : ClerkReads(c) \/ ClerkStep(c)
      PROVE  Same
  BY <1>6 DEF SetClock, Refund, ClerkReads, ClerkStep, ClerkPrints, ClerkVoids, saleVars, vars
<1> QED BY <1>3, <1>4, <1>5, <1>6 DEF Next, Quiet

(* The receipts that an organization has issued for an instant. *)
IssuedFor(o, k) == {i \in Issuer : Committed(i) /\ OrgOf[i] = o /\ number[i][1] = k}

(* Counting needs finitely many receipts, which is what was issued so far. *)
CountInv == CounterCountsReceipts /\ \A o \in Org, k \in Key : IsFiniteSet(IssuedFor(o, k))

(* A commit adds one to the counter and one receipt to those it counts.    *)
LEMMA CommitCounts ==
  ASSUME NumberInv, CountInv, NEW i \in Issuer, Commit(i)
  PROVE  CountInv'
<1> DEFINE row == CounterRow(i)
<1>1. /\ pc[i] = "inserted" /\ pc' = [pc EXCEPT ![i] = "done"]
      /\ counter' = [counter EXCEPT ![row] = number[i][2]]
      /\ UNCHANGED number
  BY DEF Commit
<1>2. /\ row \in Org \X Key /\ counter[row] \in Nat /\ key[i] \in Key
      /\ row = << OrgOf[i], key[i] >>
  BY Naming DEF NumberInv, TypeOK, CounterRow
<1>3. number[i] = << key[i], counter[row] + 1 >>
  BY <1>1 DEF NumberInv, PendingOK, InTx
<1>4. number[i][1] = key[i] /\ number[i][2] = counter[row] + 1
  BY <1>2, <1>3, NumberParts
<1> HIDE DEF row
<1>5. /\ ~Committed(i) /\ Committed(i)'
      /\ \A j \in Issuer \ {i} : Committed(j)' <=> Committed(j)
  BY <1>1 DEF NumberInv, TypeOK, Committed
<1>6. ASSUME NEW o \in Org, NEW k \in Key
      PROVE  /\ counter'[<< o, k >>] = Cardinality(IssuedFor(o, k)')
             /\ IsFiniteSet(IssuedFor(o, k)')
  <2> DEFINE S == IssuedFor(o, k)
  <2>1. counter[<< o, k >>] = Cardinality(S) /\ IsFiniteSet(S) /\ << o, k >> \in Org \X Key
    BY DEF CountInv, CounterCountsReceipts, IssuedFor
  <2>2. CASE << o, k >> = row
    <3>1. IssuedFor(o, k)' = S \cup {i} /\ i \notin S
      BY <1>1, <1>2, <1>4, <1>5, <2>2 DEF IssuedFor
    <3>2. counter'[<< o, k >>] = counter[<< o, k >>] + 1
      BY <1>1, <1>2, <1>4, <2>2 DEF NumberInv, TypeOK
    <3> HIDE DEF S
    <3> QED BY <2>1, <3>1, <3>2, FS_AddElement
  <2>3. CASE << o, k >> # row
    <3>1. IssuedFor(o, k)' = S
      BY <1>1, <1>2, <1>4, <1>5, <2>3 DEF IssuedFor
    <3>2. counter'[<< o, k >>] = counter[<< o, k >>]
      BY <1>1, <2>1, <2>3 DEF NumberInv, TypeOK
    <3> HIDE DEF S
    <3> QED BY <2>1, <3>1, <3>2
  <2> QED BY <2>2, <2>3
<1> QED BY <1>6 DEF CountInv, CounterCountsReceipts, IssuedFor

(* The receipt of a refunded sale is void, and the sale stays committed.   *)
VoidInv == RefundVoids /\ \A i \in Issuer : refunded[i] => Committed(i)

(* No step issues the receipt of a committed sale again.                   *)
LEMMA NextVoid == NumberInv /\ VoidInv /\ [Next]_vars => VoidInv'
<1> SUFFICES ASSUME NumberInv, VoidInv, [Next]_vars PROVE VoidInv'
  OBVIOUS
<1> USE DEF NumberInv, TypeOK, VoidInv, RefundVoids
<1>1. \A j \in Issuer : Committed(j) => Committed(j)'
  BY Settled DEF Committed, Commit
<1>2. ASSUME NEW i \in Issuer, Commit(i) PROVE VoidInv'
  <2>1. ~refunded[i]
    BY <1>2 DEF Commit, Committed
  <2> QED BY <1>1, <1>2, <2>1 DEF Commit
<1>3. ASSUME NEW i \in Issuer, Refund(i) PROVE VoidInv'
  BY <1>1, <1>3 DEF Refund
<1>4. ASSUME NEW c \in Clerk, ClerkVoids(c) PROVE VoidInv'
  BY <1>1, <1>4 DEF ClerkVoids
<1>5. ASSUME UNCHANGED << status, refunded >> PROVE VoidInv'
  BY <1>1, <1>5
<1>6. ASSUME NEW i \in Issuer, Sell(i) \/ Handle(i) \/ Expire(i)
      PROVE  Commit(i) \/ UNCHANGED << status, refunded >>
  BY <1>6 DEF Sell, Handle, Begin, ReadClock, Allocate, AllocateConflict, Insert, NumberTaken,
              AllocateRefused, SerializationFailure, Expire, Retry, Fail, Rollback, receiptVars
<1>7. ASSUME SetClock \/ UNCHANGED vars \/ \E c \in Clerk : ClerkReads(c) \/ ClerkPrints(c)
      PROVE  UNCHANGED << status, refunded >>
  BY <1>7 DEF SetClock, ClerkReads, ClerkPrints, vars, receiptVars
<1> QED BY <1>2, <1>3, <1>4, <1>5, <1>6, <1>7 DEF Next, Quiet, ClerkStep

-------------------------------------------------------------------------------
(* Theorems *)

(* What is known of keys, counters, locks and numbers between two steps.   *)
THEOREM NumberInvariant == Spec => []NumberInv
<1>1. NumberInv /\ [Next]_vars => NumberInv'
  BY NextNumbers
<1> QED BY <1>1, InitNumbers, PTL DEF Spec

(* Two sales of one organization never hold the same receipt number, for   *)
(* any number of sales and instants and however the clock is set back.     *)
THEOREM NumbersDistinct == Spec => []OrgNumbersDistinct
<1>1. NumberInv => OrgNumbersDistinct
  BY DEF NumberInv
<1> QED BY <1>1, NumberInvariant, PTL

(* Every variable keeps its type. *)
THEOREM ReceiptTypes == Spec => []TypeOK
<1>1. NumberInv => TypeOK
  BY DEF NumberInv
<1> QED BY <1>1, NumberInvariant, PTL

(* No number is lost: the committed counter of an instant is the number of *)
(* receipts issued for it, whichever attempts fail, expire or collide.     *)
THEOREM NumbersWithoutGaps == Spec => []CounterCountsReceipts
<1>1. Init => CountInv
  <2> SUFFICES ASSUME Init PROVE CountInv
    OBVIOUS
  <2>1. \A o \in Org, k \in Key : IssuedFor(o, k) = {} /\ counter[<< o, k >>] = 0
    BY DEF Init, IssuedFor, Committed
  <2> QED BY <2>1, FS_EmptySet DEF CountInv, CounterCountsReceipts, IssuedFor
<1>2. NumberInv /\ CountInv /\ [Next]_vars => CountInv'
  <2> SUFFICES ASSUME NumberInv, CountInv, [Next]_vars PROVE CountInv'
    OBVIOUS
  <2>1. ASSUME counter' = counter,
               \A j \in Issuer : /\ Committed(j)' <=> Committed(j)
                                 /\ Committed(j) => number'[j] = number[j]
        PROVE  CountInv'
    <3>1. \A o \in Org, k \in Key : IssuedFor(o, k)' = IssuedFor(o, k)
      BY <2>1 DEF IssuedFor
    <3> QED BY <2>1, <3>1 DEF CountInv, CounterCountsReceipts, IssuedFor
  <2> QED BY <2>1, CommitCounts, Settled
<1>3. CountInv => CounterCountsReceipts
  BY DEF CountInv
<1> QED BY <1>1, <1>2, <1>3, NumberInvariant, PTL DEF Spec

(* The receipt of a refunded sale is void, whatever clerks who have read   *)
(* it before do to it afterwards.                                          *)
THEOREM RefundedIsVoid == Spec => []RefundVoids
<1>1. Init => VoidInv
  BY DEF Init, VoidInv, RefundVoids
<1>2. NumberInv /\ VoidInv /\ [Next]_vars => VoidInv'
  BY NextVoid
<1>3. VoidInv => RefundVoids
  BY DEF VoidInv
<1> QED BY <1>1, <1>2, <1>3, NumberInvariant, PTL DEF Spec

===============================================================================
