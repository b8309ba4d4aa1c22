---------------------------- MODULE CommerceProofs ----------------------------
(***************************************************************************)
(* Commerce, for any number of rows, requests and retries: the stock never *)
(* leaves its range, the ledger explains it, and the books agree.          *)
(***************************************************************************)
EXTENDS Commerce, SequenceTheorems, FiniteSetTheorems, TLAPS

-------------------------------------------------------------------------------
(* Sums over finite sets.  They are recursive, and what they add up to is  *)
(* shown by well-founded induction over the subsets of the set.            *)

(* Induction over the subsets of a finite set: what holds of T whenever it *)
(* holds of the smaller subsets of T holds of all of them.                 *)
LEMMA SubsetInduction ==
  ASSUME NEW S, IsFiniteSet(S), NEW G,
         \A T \in SUBSET S : (\A U \in SUBSET T : U # T => U \in G) => T \in G
  PROVE  \A T \in SUBSET S : T \in G
<1> SUFFICES ASSUME ~ \A T \in SUBSET S : T \in G PROVE FALSE
  OBVIOUS
<1> DEFINE Bad == {T \in SUBSET S : T \notin G}
<1>1. IsWellFoundedOn(StrictSubsetOrdering(S), FiniteSubsetsOf(S))
  BY FS_StrictSubsetOrderingWellFounded
<1>2. FiniteSubsetsOf(S) = SUBSET S
  BY FS_FiniteSubsetsOfFinite
<1>3. Bad # {} /\ Bad \subseteq FiniteSubsetsOf(S)
  BY <1>2
<1> HIDE DEF Bad
<1>4. PICK T \in Bad : \A U \in Bad : ~(<<U, T>> \in StrictSubsetOrdering(S))
  BY <1>1, <1>3, WFMin
<1>5. \A U \in SUBSET T : U # T => U \in G
  BY <1>4 DEF Bad, StrictSubsetOrdering
<1> QED BY <1>4, <1>5 DEF Bad

(* The element that a fold over S takes first. *)
First(S) == CHOOSE x \in S : TRUE
(* h holds the sum of f over every subset of S. *)
SumTable(f, S, h) ==
  h = [T \in SUBSET S |-> IF T = {} THEN 0 ELSE f[First(T)] + h[T \ {First(T)}]]

(* The fold that SumFunctionOnSet stands for reads its result from such a  *)
(* table.                                                                  *)
LEMMA SumIsFold == \A f, S : SumFunctionOnSet(f, S) = (CHOOSE h : SumTable(f, S, h))[S]
BY DEF SumFunctionOnSet, FoldFunctionOnSet, MapThenFoldSet, SumTable, First

(* The element that the fold takes first is one of the set. *)
LEMMA FirstIn == \A T : T # {} => First(T) \in T
BY DEF First

(* Two tables agree wherever both are defined. *)
LEMMA TablesAgree ==
  ASSUME NEW f, NEW A, NEW B, NEW S, IsFiniteSet(S), S \subseteq A, S \subseteq B,
         NEW g, NEW h, SumTable(f, A, g), SumTable(f, B, h)
  PROVE  g[S] = h[S]
<1> DEFINE G == {T \in SUBSET S : g[T] = h[T]}
<1>1. ASSUME NEW T \in SUBSET S, \A U \in SUBSET T : U # T => U \in G
      PROVE  T \in G
  <2>1. T \in SUBSET A /\ T \in SUBSET B
    OBVIOUS
  <2>2. /\ g[T] = IF T = {} THEN 0 ELSE f[First(T)] + g[T \ {First(T)}]
        /\ h[T] = IF T = {} THEN 0 ELSE f[First(T)] + h[T \ {First(T)}]
    BY <2>1 DEF SumTable
  <2>3. CASE T # {}
    <3>1. T \ {First(T)} \in SUBSET T /\ T \ {First(T)} # T
      BY <2>3, FirstIn
    <3>2. g[T \ {First(T)}] = h[T \ {First(T)}]
      BY <1>1, <3>1
    <3> QED BY <2>2, <3>2
  <2> QED BY <2>2, <2>3
<1> HIDE DEF G
<1>2. \A T \in SUBSET S : T \in G
  BY <1>1, SubsetInduction
<1> QED BY <1>2 DEF G

(* An entry of a table. *)
LEMMA TableEntry ==
  ASSUME NEW f, NEW S, NEW h, SumTable(f, S, h), NEW T \in SUBSET S
  PROVE  h[T] = IF T = {} THEN 0 ELSE f[First(T)] + h[T \ {First(T)}]
BY DEF SumTable

(* Every finite set has a table: the entries of its strict subsets make up *)
(* the next one.                                                           *)
LEMMA TableExists ==
  ASSUME NEW f, NEW S, IsFiniteSet(S)
  PROVE  \E h : SumTable(f, S, h)
<1> DEFINE G == {T \in SUBSET S : \E h : SumTable(f, T, h)}
<1>1. ASSUME NEW T \in SUBSET S, \A U \in SUBSET T : U # T => U \in G
      PROVE  T \in G
  <2> DEFINE H(U) == CHOOSE h : SumTable(f, U, h)
             below(U) == IF U = {} THEN 0 ELSE f[First(U)] + H(U \ {First(U)})[U \ {First(U)}]
             h == [U \in SUBSET T |-> below(U)]
  <2>1. \A U \in SUBSET T : U # T => SumTable(f, U, H(U))
    BY <1>1
  <2>2. ASSUME NEW U \in SUBSET T, U # T PROVE h[U] = H(U)[U]
    <3>1. H(U)[U] = IF U = {} THEN 0 ELSE f[First(U)] + H(U)[U \ {First(U)}]
      <4>1. SumTable(f, U, H(U)) /\ U \in SUBSET U
        BY <2>1, <2>2
      <4> HIDE DEF H
      <4> QED BY <4>1, TableEntry
    <3>2. ASSUME U # {} PROVE H(U)[U \ {First(U)}] = H(U \ {First(U)})[U \ {First(U)}]
      <4> DEFINE V == U \ {First(U)}
      <4>1. V \in SUBSET T /\ V # T /\ V \in SUBSET U /\ V \in SUBSET S
        BY <2>2, <3>2, FirstIn
      <4>2. SumTable(f, V, H(V)) /\ SumTable(f, U, H(U)) /\ IsFiniteSet(V)
        BY <2>1, <2>2, <4>1, FS_Subset
      <4> HIDE DEF V, H
      <4>3. H(U)[V] = H(V)[V]
        BY <4>1, <4>2, TablesAgree
      <4> QED BY <4>3 DEF V
    <3> QED BY <3>1, <3>2
  <2>3. ASSUME NEW U \in SUBSET T, U # {}
        PROVE  h[U \ {First(U)}] = H(U \ {First(U)})[U \ {First(U)}]
    <3>1. U \ {First(U)} \in SUBSET T /\ U \ {First(U)} # T
      BY <2>3, FirstIn
    <3> HIDE DEF h, H
    <3> QED BY <2>2, <3>1
  <2>4. SumTable(f, T, h)
    <3> HIDE DEF H
    <3>1. h = [U \in SUBSET T |-> below(U)]
      OBVIOUS
    <3>2. \A U \in SUBSET T : below(U) = IF U = {} THEN 0 ELSE f[First(U)] + h[U \ {First(U)}]
      <4> HIDE DEF h
      <4> QED BY <2>3
    <3> HIDE DEF h, below
    <3> QED BY <3>1, <3>2 DEF SumTable
  <2> HIDE DEF h
  <2> QED BY <2>4
<1> HIDE DEF G
<1>2. \A T \in SUBSET S : T \in G
  BY <1>1, SubsetInduction
<1> QED BY <1>2 DEF G

(* A sum is its first element and the sum of the rest. *)
LEMMA SumUnfolds ==
  ASSUME NEW f, NEW S, IsFiniteSet(S)
  PROVE  SumFunctionOnSet(f, S) =
           IF S = {} THEN 0 ELSE f[First(S)] + SumFunctionOnSet(f, S \ {First(S)})
<1> DEFINE R == S \ {First(S)}
           g == CHOOSE h : SumTable(f, S, h)
           k == CHOOSE h : SumTable(f, R, h)
<1>1. IsFiniteSet(R) /\ R \in SUBSET S
  BY FS_Subset
<1>2. SumTable(f, S, g) /\ SumTable(f, R, k)
  BY <1>1, TableExists
<1>3. SumFunctionOnSet(f, S) = g[S] /\ SumFunctionOnSet(f, R) = k[R]
  BY SumIsFold
<1> HIDE DEF g, k
<1>4. g[R] = k[R]
  <2> HIDE DEF R
  <2> QED BY <1>1, <1>2, TablesAgree
<1>5. g[S] = IF S = {} THEN 0 ELSE f[First(S)] + g[R]
  BY <1>2 DEF SumTable
<1> QED BY <1>3, <1>4, <1>5

(* Nothing adds up to 0. *)
LEMMA SumEmpty == \A f : SumFunctionOnSet(f, {}) = 0
BY SumUnfolds, FS_EmptySet

(* Integers add up to an integer. *)
LEMMA SumType ==
  ASSUME NEW S, IsFiniteSet(S), NEW f, \A x \in S : f[x] \in Int
  PROVE  SumFunctionOnSet(f, S) \in Int
<1> DEFINE G == {T \in SUBSET S : SumFunctionOnSet(f, T) \in Int}
<1>1. ASSUME NEW T \in SUBSET S, \A U \in SUBSET T : U # T => U \in G
      PROVE  T \in G
  <2>1. IsFiniteSet(T)
    BY FS_Subset
  <2>2. CASE T # {}
    <3>1. First(T) \in S /\ T \ {First(T)} \in SUBSET T /\ T \ {First(T)} # T
      BY <2>2, FirstIn
    <3>2. SumFunctionOnSet(f, T \ {First(T)}) \in Int
      BY <1>1, <3>1
    <3>3. SumFunctionOnSet(f, T) = f[First(T)] + SumFunctionOnSet(f, T \ {First(T)})
      BY <2>1, <2>2, SumUnfolds
    <3> QED BY <3>1, <3>2, <3>3
  <2> QED BY <2>2, SumEmpty
<1> HIDE DEF G
<1>2. \A T \in SUBSET S : T \in G
  BY <1>1, SubsetInduction
<1> QED BY <1>2 DEF G

(* Any element may be taken out first: the order of the fold is of no      *)
(* account.                                                                *)
LEMMA SumRemove ==
  ASSUME NEW S, IsFiniteSet(S), NEW f, \A x \in S : f[x] \in Int, NEW y \in S
  PROVE  SumFunctionOnSet(f, S) = SumFunctionOnSet(f, S \ {y}) + f[y]
<1> DEFINE G == {T \in SUBSET S :
                   \A x \in T : SumFunctionOnSet(f, T) = SumFunctionOnSet(f, T \ {x}) + f[x]}
<1>1. ASSUME NEW T \in SUBSET S, \A U \in SUBSET T : U # T => U \in G
      PROVE  T \in G
  <2> SUFFICES ASSUME NEW x \in T PROVE SumFunctionOnSet(f, T) = SumFunctionOnSet(f, T \ {x}) + f[x]
    OBVIOUS
  <2> DEFINE z == First(T)
  <2>1. z \in T /\ f[z] \in Int /\ f[x] \in Int
    BY FirstIn
  <2>2. SumFunctionOnSet(f, T) = f[z] + SumFunctionOnSet(f, T \ {z})
    BY FS_Subset, SumUnfolds
  <2> HIDE DEF z
  <2>3. /\ SumFunctionOnSet(f, T \ {z}) \in Int /\ SumFunctionOnSet(f, T \ {x}) \in Int
        /\ SumFunctionOnSet(f, (T \ {z}) \ {x}) \in Int
    <3>1. \A U \in SUBSET T : IsFiniteSet(U) /\ \A w \in U : f[w] \in Int
      BY FS_Subset
    <3>2. T \ {z} \in SUBSET T /\ T \ {x} \in SUBSET T /\ (T \ {z}) \ {x} \in SUBSET T
      OBVIOUS
    <3> QED BY <3>1, <3>2, SumType
  <2>4. CASE x # z
    <3>1. T \ {z} \in G /\ T \ {x} \in G
      BY <1>1, <2>1
    <3>2. /\ SumFunctionOnSet(f, T \ {z}) = SumFunctionOnSet(f, (T \ {z}) \ {x}) + f[x]
          /\ SumFunctionOnSet(f, T \ {x}) = SumFunctionOnSet(f, (T \ {x}) \ {z}) + f[z]
      BY <2>1, <2>4, <3>1
    <3>3. (T \ {x}) \ {z} = (T \ {z}) \ {x}
      OBVIOUS
    <3>4. SumFunctionOnSet(f, (T \ {x}) \ {z}) = SumFunctionOnSet(f, (T \ {z}) \ {x})
      BY <3>3
    <3> DEFINE a == SumFunctionOnSet(f, T \ {z})
               b == SumFunctionOnSet(f, T \ {x})
               c == SumFunctionOnSet(f, (T \ {z}) \ {x})
    <3>5. /\ a = c + f[x] /\ b = c + f[z] /\ SumFunctionOnSet(f, T) = f[z] + a
          /\ {a, b, c, f[x], f[z]} \subseteq Int
      BY <2>1, <2>2, <2>3, <3>2, <3>4
    <3> HIDE DEF a, b, c
    <3>6. SumFunctionOnSet(f, T) = b + f[x]
      BY <3>5
    <3> QED BY <3>6 DEF b
  <2>5. CASE x = z
    BY <2>1, <2>2, <2>3, <2>5
  <2> QED BY <2>4, <2>5
<1> HIDE DEF G
<1>2. \A T \in SUBSET S : T \in G
  BY <1>1, SubsetInduction
<1> QED BY <1>2 DEF G

(* A sum depends on the values over its set only. *)
LEMMA SumSame ==
  ASSUME NEW S, IsFiniteSet(S), NEW f, NEW g, \A x \in S : f[x] = g[x]
  PROVE  SumFunctionOnSet(f, S) = SumFunctionOnSet(g, S)
<1> DEFINE G == {T \in SUBSET S : SumFunctionOnSet(f, T) = SumFunctionOnSet(g, T)}
<1>1. ASSUME NEW T \in SUBSET S, \A U \in SUBSET T : U # T => U \in G
      PROVE  T \in G
  <2>1. IsFiniteSet(T)
    BY FS_Subset
  <2>2. CASE T # {}
    <3>1. First(T) \in S /\ T \ {First(T)} \in SUBSET T /\ T \ {First(T)} # T
      BY <2>2, FirstIn
    <3>2. SumFunctionOnSet(f, T \ {First(T)}) = SumFunctionOnSet(g, T \ {First(T)})
      BY <1>1, <3>1
    <3>3. /\ SumFunctionOnSet(f, T) = f[First(T)] + SumFunctionOnSet(f, T \ {First(T)})
          /\ SumFunctionOnSet(g, T) = g[First(T)] + SumFunctionOnSet(g, T \ {First(T)})
      BY <2>1, <2>2, SumUnfolds
    <3> QED BY <3>1, <3>2, <3>3
  <2> QED BY <2>2, SumEmpty
<1> HIDE DEF G
<1>2. \A T \in SUBSET S : T \in G
  BY <1>1, SubsetInduction
<1> QED BY <1>2 DEF G

(* A sum grows by what joins its set. *)
LEMMA SumGrows ==
  ASSUME NEW S, IsFiniteSet(S), NEW y, y \notin S, NEW f, NEW g,
         \A x \in S : g[x] = f[x], \A x \in S \cup {y} : g[x] \in Int
  PROVE  SumFunctionOnSet(g, S \cup {y}) = SumFunctionOnSet(f, S) + g[y]
<1> DEFINE T == S \cup {y}
<1>1. IsFiniteSet(T) /\ y \in T /\ T \ {y} = S
  BY FS_AddElement
<1> HIDE DEF T
<1>2. SumFunctionOnSet(g, T) = SumFunctionOnSet(g, T \ {y}) + g[y]
  BY <1>1, SumRemove DEF T
<1>3. SumFunctionOnSet(g, S) = SumFunctionOnSet(f, S)
  BY SumSame
<1> QED BY <1>1, <1>2, <1>3 DEF T

(* A sum shrinks by what leaves its set. *)
LEMMA SumShrinks ==
  ASSUME NEW S, IsFiniteSet(S), NEW y \in S, NEW f, \A x \in S : f[x] \in Int
  PROVE  SumFunctionOnSet(f, S \ {y}) = SumFunctionOnSet(f, S) - f[y]
<1> DEFINE a == SumFunctionOnSet(f, S)
           b == SumFunctionOnSet(f, S \ {y})
<1>1. IsFiniteSet(S \ {y}) /\ \A x \in S \ {y} : f[x] \in Int
  BY FS_Subset
<1>2. a = b + f[y] /\ b \in Int /\ f[y] \in Int
  BY <1>1, SumRemove, SumType
<1> HIDE DEF a, b
<1>3. b = a - f[y]
  BY <1>2
<1> QED BY <1>3 DEF a, b

-------------------------------------------------------------------------------
(* The steps that many actions share *)

(* A request never holds a lock in another's name: the transaction record  *)
(* of an idle request has its type.                                        *)
LEMMA NoTxType ==
  NoTx \in [next : Nat \ {0}, work : [Row -> Int], moved : [Row -> Int],
            snap : [Row -> Int], stale : SUBSET Row]
BY Limits, SMT DEF NoTx

(* At the start every quantity is the opening one and nothing is locked. *)
LEMMA InitStock == Init => StockInv
<1> SUFFICES ASSUME Init PROVE StockInv
  OBVIOUS
<1>1. TypeOK
  BY NoTxType, Limits DEF Init, TypeOK, Entries, NoEntries, Job, NoJob, Kinds, StockKinds, Phase
<1>2. JobOK
  BY DEF Init, JobOK, Req
<1>3. LockOK
  BY DisjointNames DEF Init, LockOK
<1>4. SnapshotOK
  BY Limits DEF Init, SnapshotOK, NoTx, Req
<1>5. StockInRange
  BY Limits DEF Init, StockInRange
<1> QED BY <1>1, <1>2, <1>3, <1>4, <1>5 DEF StockInv

(* A rollback keeps the invariant: it publishes nothing and drops every    *)
(* lock of the request.                                                    *)
LEMMA AbortStock ==
  ASSUME StockInv, NEW r \in Req, NEW s \in {"ready", "failed"}, Abort(r, s),
         attempt' \in [Seller -> 0..MaxAttempts], pc[r] \in {"ready", "checked", "open"}
  PROVE  StockInv'
<1> USE DEF StockInv
<1>1. TypeOK'
  BY NoTxType, DisjointNames DEF TypeOK, Abort, Phase, committed
<1>2. JobOK'
  BY DEF TypeOK, JobOK, Abort, committed, Req
<1>3. LockOK'
  BY DisjointNames DEF TypeOK, LockOK, Abort, Req
<1>4. SnapshotOK'
  BY Limits DEF TypeOK, SnapshotOK, Abort, NoTx, committed, Req
<1>5. StockInRange'
  BY DEF StockInRange, Abort, committed
<1> QED BY <1>1, <1>2, <1>3, <1>4, <1>5

(* A statement that writes a legal quantity to a row that is free or       *)
(* already held keeps the invariant.                                       *)
LEMMA WriteStock ==
  ASSUME StockInv, NEW r \in Req, NEW x \in Row, NEW q \in 0..MaxQty, NEW d \in Int,
         pc[r] = "open", Free(r, x), Write(r, x, q, d)
  PROVE  StockInv'
<1> USE DEF StockInv
<1>1. TypeOK'
  BY SMTT(20), Limits DEF TypeOK, Write, committed
<1>2. JobOK'
  BY DEF JobOK, Write, committed
<1>3. LockOK'
  BY DisjointNames DEF TypeOK, LockOK, Write, Free
<1>4. SnapshotOK'
  BY DEF TypeOK, SnapshotOK, Write, committed, Req
<1>5. StockInRange'
  BY DEF StockInRange, Write, committed
<1> QED BY <1>1, <1>2, <1>3, <1>4, <1>5

(* The items of every request are lines of its job, with the signs the     *)
(* validators enforce.                                                     *)
LEMMA LineType ==
  ASSUME StockInv, NEW r \in Req, pc[r] = "open", ItemsLeft(r)
  PROVE  /\ CurrentLine(r) \in Line
         /\ r \in Seller => CurrentLine(r).n \in Nat \ {0}
<1>1. job[r].lines \in Seq(Line) /\ tx[r].next \in 1..Len(job[r].lines)
  BY DEF StockInv, TypeOK, Job, ItemsLeft
<1>2. CurrentLine(r) \in Line
  BY <1>1 DEF CurrentLine
<1>3. ASSUME r \in Seller PROVE CurrentLine(r).n \in Nat \ {0}
  <2>1. job[r].lines \in Seq(Item)
    BY <1>3, Inputs DEF StockInv, JobOK
  <2>2. CurrentLine(r) \in Item
    BY <1>1, <2>1, ElementOfSeq DEF CurrentLine
  <2> QED BY <2>2 DEF Item
<1> QED BY <1>2, <1>3

(* A conflict either starts the next attempt or gives up. *)
LEMMA RetryStock ==
  ASSUME StockInv, NEW r \in Seller, pc[r] \in {"checked", "open"}, Retry(r)
  PROVE  StockInv'
<1>1. r \in Req
  BY DEF Req
<1>2. attempt' \in [Seller -> 0..MaxAttempts]
  <2>1. attempt \in [Seller -> 0..MaxAttempts] /\ MaxAttempts \in Nat
    BY Limits DEF StockInv, TypeOK
  <2>2. CASE attempt[r] < MaxAttempts /\ attempt' = [attempt EXCEPT ![r] = @ + 1]
    BY <2>1, <2>2
  <2>3. CASE attempt' = attempt
    BY <2>1, <2>3
  <2> QED BY <2>2, <2>3 DEF Retry
<1>3. \E s \in {"ready", "failed"} : Abort(r, s)
  BY DEF Retry
<1> QED BY <1>1, <1>2, <1>3, AbortStock

(* An error rolls the transaction back. *)
LEMMA FailStock ==
  ASSUME StockInv, NEW r \in Req, pc[r] \in {"ready", "checked", "open"}, Fail(r)
  PROVE  StockInv'
<1>1. attempt' \in [Seller -> 0..MaxAttempts]
  BY DEF Fail, StockInv, TypeOK
<1> QED BY <1>1, AbortStock DEF Fail

(* A request that arrives holds nothing, so what it asks for only has to   *)
(* be well formed.                                                         *)
LEMMA ArriveStock ==
  ASSUME StockInv, NEW r \in Req, Arrive(r)
  PROVE  StockInv'
<1> USE DEF StockInv
<1>1. CASE r \in Seller /\ AskSale(r)
  <2>1. PICK lines \in Carts, a \in Amounts :
          job' = [job EXCEPT ![r] = [kind |-> "sale", lines |-> lines, amount |-> a, sale |-> r]]
    BY <1>1 DEF AskSale
  <2>2. lines \in Seq(Line) /\ a \in Nat
    <3>1. Item \subseteq Line
      BY DEF Item, Line
    <3>2. lines \in Seq(Item)
      BY Inputs
    <3>3. \A i \in 1..Len(lines) : lines[i] \in Line
      BY <3>1, <3>2, ElementOfSeq
    <3>4. lines \in Seq(Line)
      BY <3>2, <3>3
    <3> QED BY <3>4, Inputs
  <2>3. TypeOK'
    BY <1>1, <2>1, <2>2, Limits DEF AskSale, TypeOK, Job, Kinds, Phase, committed
  <2>4. JobOK'
    BY <1>1, <2>1, DisjointNames DEF AskSale, TypeOK, JobOK, committed, Req
  <2>5. LockOK' /\ SnapshotOK' /\ StockInRange'
    BY <1>1 DEF AskSale, TypeOK, LockOK, SnapshotOK, StockInRange, committed, Req
  <2> QED BY <2>3, <2>4, <2>5
<1>2. CASE r \in Refunder /\ AskRefund(r)
  <2>1. PICK s \in Seller :
          /\ sale[s] # "none"
          /\ job' = [job EXCEPT ![r] = [job[s] EXCEPT !.kind = "refund"]]
          /\ pc' = [pc EXCEPT ![r] = IF sale[s] = "REFUNDED" THEN "failed" ELSE "checked"]
    BY <1>2 DEF AskRefund
  <2>2. pc[s] = "done" /\ job[s].sale = s /\ s \in Req /\ s # r
    BY <1>2, <2>1, DisjointNames DEF JobOK, Req
  <2> DEFINE j == [job[s] EXCEPT !.kind = "refund"]
  <2>a. /\ j \in Job /\ j.kind = "refund" /\ j.sale = s /\ j.amount = job[s].amount
        /\ job' = [job EXCEPT ![r] = j]
    <3>1. job[s] \in Job
      BY <2>2 DEF TypeOK
    <3>2. "refund" \in Kinds
      BY DEF Kinds
    <3>3. j \in Job
      BY <3>1, <3>2 DEF Job
    <3>4. j.kind = "refund" /\ j.sale = s /\ j.amount = job[s].amount
      BY <3>1, <2>2 DEF Job
    <3> QED BY <2>1, <3>3, <3>4
  <2> HIDE DEF j
  <2>b. /\ UNCHANGED << stock, ledger, sale, cash, receipt, lock, attempt, tx >>
        /\ \E p \in {"failed", "checked"} : pc' = [pc EXCEPT ![r] = p]
        /\ pc[r] = "idle"
    BY <1>2, <2>1 DEF AskRefund, committed
  <2>3. TypeOK'
    BY <1>2, <2>a, <2>b DEF TypeOK, Phase
  <2>4. JobOK'
    BY <1>2, <2>1, <2>2, <2>a, <2>b, DisjointNames DEF TypeOK, JobOK, Req
  <2>5. LockOK' /\ SnapshotOK' /\ StockInRange'
    BY <1>2, <2>1, DisjointNames
    DEF AskRefund, TypeOK, LockOK, SnapshotOK, StockInRange, committed, Req
  <2> QED BY <2>3, <2>4, <2>5
<1>3. CASE r \in Stocker /\ (AskPurchase(r) \/ AskAdjust(r) \/ AskOverwrite(r))
  <2>0. PICK kind \in StockKinds : Ask(r, kind)
    BY <1>3 DEF AskPurchase, AskAdjust, AskOverwrite, StockKinds
  <2>1. PICK j \in StockJobs, a \in Amounts :
          job' = [job EXCEPT ![r] = [kind |-> j.kind, lines |-> j.lines, amount |-> a,
                                     sale |-> Nobody]]
    BY <2>0 DEF Ask
  <2>2. j.kind \in StockKinds /\ j.lines \in Seq(Line) /\ a \in Nat
    BY Inputs
  <2>3. TypeOK'
    BY <1>3, <2>0, <2>1, <2>2 DEF Ask, TypeOK, Job, Kinds, Phase, committed
  <2>4. JobOK'
    <3>1. /\ job'[r].kind = j.kind /\ job'[r].lines = j.lines /\ job'[r].amount = a
          /\ \A q \in Req \ {r} : job'[q] = job[q]
      BY <1>3, <2>1 DEF TypeOK, Req
    <3>2. sale' = sale /\ pc[r] = "idle" /\ pc' = [pc EXCEPT ![r] = "open"]
      BY <2>0 DEF Ask, committed
    <3>3. \A q \in Refunder : pc[q] # "idle" => job[q].sale \in Req \ {r}
      BY <1>3, DisjointNames DEF JobOK, Req
    <3>4. \A q \in Req \ {r} : pc'[q] = pc[q]
      BY <3>2 DEF TypeOK
    <3>5. \A q \in Seller \cup Refunder : q # r /\ q \in Req
      BY <1>3, DisjointNames DEF Req
    <3>6. \A q \in Refunder : pc[q] # "idle" => job'[job'[q].sale] = job[job[q].sale]
      BY <3>1, <3>3, <3>5
    <3> QED BY <1>3, <3>1, <3>2, <3>4, <3>5, <3>6 DEF JobOK, Req
  <2>5. LockOK' /\ SnapshotOK' /\ StockInRange'
    BY <1>3, <2>0, <2>1, DisjointNames
    DEF Ask, TypeOK, LockOK, SnapshotOK, StockInRange, committed, Req
  <2> QED BY <2>3, <2>4, <2>5
<1> QED BY <1>1, <1>2, <1>3 DEF Arrive

(* The snapshot of a sale is the committed stock. *)
LEMMA BeginStock ==
  ASSUME StockInv, NEW r \in Seller, BeginSale(r)
  PROVE  StockInv'
<1> USE DEF StockInv
<1> DEFINE new == [NoTx EXCEPT !.work = stock, !.snap = stock]
<1>1. /\ new \in [next : Nat \ {0}, work : [Row -> Int], moved : [Row -> Int],
                  snap : [Row -> Int], stale : SUBSET Row]
      /\ new.snap = stock /\ tx' = [tx EXCEPT ![r] = new]
  BY NoTxType DEF NoTx, BeginSale, TypeOK
<1> HIDE DEF new
<1>2. /\ UNCHANGED << stock, ledger, sale, cash, receipt, lock, job, attempt >>
      /\ pc[r] = "ready" /\ pc' = [pc EXCEPT ![r] = "open"]
      /\ r \in Req
  BY DEF BeginSale, committed, Req
<1>3. TypeOK'
  BY <1>1, <1>2 DEF TypeOK, Phase
<1>4. JobOK'
  BY <1>2 DEF TypeOK, JobOK, Req
<1>5. LockOK'
  BY <1>1, <1>2 DEF TypeOK, LockOK
<1>6. SnapshotOK' /\ StockInRange'
  BY <1>1, <1>2 DEF TypeOK, SnapshotOK, StockInRange, Req
<1> QED BY <1>3, <1>4, <1>5, <1>6

(* A sale item is taken only if the row holds enough, and what the sale    *)
(* reads of a row it may write is at most the column's limit.              *)
LEMMA SellStock ==
  ASSUME StockInv, NEW r \in Seller, SellItem(r)
  PROVE  StockInv'
<1> DEFINE x == CurrentLine(r).row
           n == CurrentLine(r).n
<1>1. /\ pc[r] = "open" /\ ItemsLeft(r) /\ r \in Req
      /\ Sees(r, x) >= n /\ Free(r, x) /\ Write(r, x, Sees(r, x) - n, -n)
  BY DEF SellItem, Req
<1>2. x \in Row /\ n \in Nat
  BY <1>1, LineType DEF Line
<1>3. Sees(r, x) \in 0..MaxQty
  BY <1>1, <1>2, DisjointNames DEF StockInv, LockOK, SnapshotOK, Sees, Free
<1>4. Sees(r, x) - n \in 0..MaxQty /\ -n \in Int
  BY <1>1, <1>2, <1>3, Limits
<1> HIDE DEF x, n
<1> QED BY <1>1, <1>2, <1>4, WriteStock

(* The other statements check the new quantity themselves. *)
LEMMA MoveStock ==
  ASSUME StockInv, NEW r \in Req, NEW kind, NEW d \in Int, Move(r, kind, d)
  PROVE  StockInv'
<1> DEFINE x == CurrentLine(r).row
<1>1. /\ pc[r] = "open" /\ ItemsLeft(r)
      /\ NewQty(r) \in 0..MaxQty /\ Free(r, x) /\ Write(r, x, NewQty(r), d)
  BY DEF Move
<1>2. x \in Row
  BY <1>1, LineType DEF Line
<1> HIDE DEF x
<1> QED BY <1>1, <1>2, WriteStock

(* Locking the sale to be refunded touches no inventory row. *)
LEMMA MarkStock ==
  ASSUME StockInv, NEW r \in Refunder, MarkRefunded(r)
  PROVE  StockInv'
<1> USE DEF StockInv
<1>1. /\ pc[r] = "checked" /\ pc' = [pc EXCEPT ![r] = "open"] /\ r \in Req
      /\ lock' = [lock EXCEPT ![job[r].sale] = r]
      /\ UNCHANGED << stock, ledger, sale, cash, receipt, job, attempt, tx >>
  BY DEF MarkRefunded, committed, Req
<1>2. job[r].sale \in Seller /\ job[r].sale \notin Row /\ r \notin Seller
  BY <1>1, DisjointNames DEF JobOK
<1>3. TypeOK'
  BY <1>1, <1>2 DEF TypeOK, Phase
<1>4. JobOK'
  BY <1>1, <1>2 DEF TypeOK, JobOK, Req
<1>5. LockOK' /\ SnapshotOK' /\ StockInRange'
  BY <1>1, <1>2 DEF TypeOK, LockOK, SnapshotOK, StockInRange, Req
<1> QED BY <1>3, <1>4, <1>5

(* Adding an entry keeps the books typed. *)
LEMMA EntryType ==
  ASSUME TypeOK, NEW r \in Seller \cup Stocker, NEW q \in Req
  PROVE  /\ [cash EXCEPT ![r].SALE = @ + job[q].amount] \in [Seller \cup Stocker -> Entries]
         /\ [cash EXCEPT ![r].REFUND = @ + job[q].amount] \in [Seller \cup Stocker -> Entries]
         /\ [cash EXCEPT ![r].PURCHASE = @ + job[q].amount] \in [Seller \cup Stocker -> Entries]
<1>1. job[q].amount \in Nat
  BY DEF TypeOK, Job
<1>2. cash[r] \in Entries
  BY DEF TypeOK
<1>3. /\ [cash[r] EXCEPT !.SALE = @ + job[q].amount] \in Entries
      /\ [cash[r] EXCEPT !.REFUND = @ + job[q].amount] \in Entries
      /\ [cash[r] EXCEPT !.PURCHASE = @ + job[q].amount] \in Entries
  BY <1>1, <1>2 DEF Entries
<1> QED BY <1>3 DEF TypeOK

(* A commit publishes only quantities that its transaction may hold, and   *)
(* marks the rows as stale for every other open sale.                      *)
LEMMA CommitStock ==
  ASSUME StockInv, NEW r \in Req, Commit(r)
  PROVE  StockInv'
<1> USE DEF StockInv
<1> DEFINE T == [next : Nat \ {0}, work : [Row -> Int], moved : [Row -> Int],
                 snap : [Row -> Int], stale : SUBSET Row]
           held == {x \in Row : lock[x] = r}
<1>1. /\ pc[r] = "open" /\ pc' = [pc EXCEPT ![r] = "done"]
      /\ UNCHANGED << job, attempt >>
      /\ stock' = [x \in Row |-> IF x \in held THEN tx[r].work[x] ELSE stock[x]]
      /\ ledger' = [x \in Row |-> ledger[x] + tx[r].moved[x]]
      /\ lock' = [x \in DOMAIN lock |-> IF lock[x] = r THEN Nobody ELSE lock[x]]
      /\ tx' = [q \in Req |->
                 IF q = r THEN NoTx
                 ELSE IF q \in Seller /\ pc[q] = "open"
                 THEN [tx[q] EXCEPT !.stale = @ \cup held]
                 ELSE tx[q]]
  BY DEF Commit
<1>2. /\ sale' \in [Seller -> {"none", "COMPLETED", "REFUNDED"}]
      /\ cash' \in [Seller \cup Stocker -> Entries]
      /\ receipt' \in [Seller -> {"none", "ISSUED", "VOIDED"}]
      /\ \A s \in Seller : sale'[s] # "none" <=> (sale[s] # "none" \/ s = r)
  <2>1. CASE r \in Seller
    <3>1. /\ sale' = [sale EXCEPT ![r] = "COMPLETED"]
          /\ cash' = [cash EXCEPT ![r].SALE = @ + job[r].amount]
          /\ receipt' = [receipt EXCEPT ![r] = "ISSUED"]
      BY <1>1, <2>1 DEF Commit, Book, BookSale, JobOK
    <3>2. cash' \in [Seller \cup Stocker -> Entries]
      BY <2>1, <3>1, EntryType
    <3> QED BY <2>1, <3>1, <3>2 DEF TypeOK
  <2>2. CASE r \in Refunder
    <3>1. job[r].kind = "refund" /\ job[r].sale \in Seller /\ sale[job[r].sale] # "none"
          /\ r \notin Seller
      BY <1>1, <2>2, DisjointNames DEF JobOK
    <3>2. /\ sale' = [sale EXCEPT ![job[r].sale] = "REFUNDED"]
          /\ cash' = [cash EXCEPT ![job[r].sale].REFUND = @ + job[r].amount]
          /\ receipt' = [receipt EXCEPT ![job[r].sale] = "VOIDED"]
      BY <3>1 DEF Commit, Book, BookRefund
    <3>3. cash' \in [Seller \cup Stocker -> Entries]
      BY <3>1, <3>2, EntryType
    <3> QED BY <3>1, <3>2, <3>3 DEF TypeOK
  <2>3. CASE r \in Stocker
    <3>1. job[r].kind \in StockKinds /\ r \notin Seller
      BY <1>1, <2>3, DisjointNames, Inputs DEF JobOK
    <3>2. /\ UNCHANGED << sale, receipt >>
          /\ \/ cash' = [cash EXCEPT ![r].PURCHASE = @ + job[r].amount]
             \/ cash' = cash
      BY <3>1 DEF Commit, Book, BookPurchase, StockKinds
    <3>3. cash' \in [Seller \cup Stocker -> Entries]
      <4>1. CASE cash' = cash
        BY <4>1 DEF TypeOK
      <4>2. CASE cash' = [cash EXCEPT ![r].PURCHASE = @ + job[r].amount]
        BY <2>3, <4>2, EntryType
      <4> QED BY <3>2, <4>1, <4>2
    <3> QED BY <2>3, <3>1, <3>2, <3>3 DEF TypeOK
  <2> QED BY <2>1, <2>2, <2>3 DEF Req
<1>3. tx' \in [Req -> T]
  BY ZenonT(30), <1>1, NoTxType DEF TypeOK
<1>4. stock' \in [Row -> Int] /\ ledger' \in [Row -> Int]
  BY <1>1 DEF TypeOK
<1>5. TypeOK'
  BY <1>1, <1>2, <1>3, <1>4 DEF TypeOK, Phase
<1>6. JobOK'
  BY <1>1, <1>2, DisjointNames DEF TypeOK, JobOK, Req
<1>7. StockInRange'
  BY <1>1 DEF TypeOK, StockInRange, LockOK
<1>8. LockOK'
  BY <1>1, DisjointNames DEF TypeOK, LockOK, Req
<1>9. SnapshotOK'
  <2> SUFFICES ASSUME NEW q \in Seller, NEW x \in Row
               PROVE  /\ tx'[q].snap[x] \in 0..MaxQty
                      /\ pc'[q] = "open" /\ x \notin tx'[q].stale => tx'[q].snap[x] = stock'[x]
    BY DEF SnapshotOK
  <2>1. CASE q = r
    BY <1>1, <2>1, Limits DEF NoTx, TypeOK, Req
  <2>2. CASE q # r /\ pc[q] = "open"
    BY <1>1, <2>2 DEF TypeOK, SnapshotOK, Req
  <2>3. CASE q # r /\ pc[q] # "open"
    BY <1>1, <2>3 DEF TypeOK, SnapshotOK, Req
  <2> QED BY <2>1, <2>2, <2>3
<1> QED BY <1>5, <1>6, <1>7, <1>8, <1>9

(* Every step keeps the invariant. *)
LEMMA NextStock == StockInv /\ [Next]_vars => StockInv'
<1> SUFFICES ASSUME StockInv, [Next]_vars PROVE StockInv'
  OBVIOUS
<1>1. ASSUME NEW r \in Req, Arrive(r) PROVE StockInv'
  BY <1>1, ArriveStock
<1>2. ASSUME NEW r \in Seller, SaleStep(r) PROVE StockInv'
  <2>1. r \in Req
    BY DEF Req
  <2>2. CASE BeginSale(r)
    BY <2>2, BeginStock
  <2>3. CASE SellItem(r)
    BY <2>3, SellStock
  <2>4. CASE SellShort(r)
    BY <2>1, <2>4, FailStock DEF SellShort
  <2>5. CASE SellConflict(r)
    BY <2>5, RetryStock DEF SellConflict
  <2>6. CASE SerializationFailure(r)
    BY <2>6, RetryStock DEF SerializationFailure
  <2> QED BY <1>2, <2>2, <2>3, <2>4, <2>5, <2>6 DEF SaleStep
<1>3. ASSUME NEW r \in Req, OtherStep(r) PROVE StockInv'
  <2>1. CASE r \in Refunder /\ MarkRefunded(r)
    BY <2>1, MarkStock
  <2>2. CASE ReceiveBatch(r) \/ AdjustStock(r) \/ RestoreStock(r) \/ OverwriteStock(r)
    <3>1. PICK kind, d : Move(r, kind, d) /\ (d = 0 \/ d = CurrentLine(r).n)
      BY <2>2 DEF ReceiveBatch, AdjustStock, RestoreStock, OverwriteStock
    <3>2. d \in Int
      BY <3>1, LineType DEF Move, Line
    <3> QED BY <3>1, <3>2, MoveStock
  <2>3. CASE MoveShort(r)
    BY <2>3, FailStock DEF MoveShort
  <2>4. CASE MoveOverflow(r)
    BY <2>4, FailStock DEF MoveOverflow
  <2> QED BY <1>3, <2>1, <2>2, <2>3, <2>4 DEF OtherStep
<1>4. ASSUME NEW r \in Req, Handle(r) PROVE StockInv'
  BY <1>2, <1>3, <1>4, CommitStock DEF Handle
<1>5. ASSUME NEW r \in Req, Expire(r) PROVE StockInv'
  BY <1>5, FailStock DEF Expire
<1>6. ASSUME NEW r \in Req, DeadlockVictim(r) PROVE StockInv'
  <2>1. pc[r] \in {"checked", "open"}
    BY <1>6 DEF DeadlockVictim, BlockedBy
  <2> QED BY <1>6, <2>1, RetryStock, FailStock DEF DeadlockVictim
<1>7. CASE UNCHANGED vars
  BY <1>7 DEF vars, committed, StockInv, TypeOK, JobOK, LockOK, SnapshotOK, StockInRange
<1>8. ASSUME NEW s \in Seller, VoidReceipt(s) PROVE StockInv'
  BY <1>8 DEF VoidReceipt, StockInv, TypeOK, JobOK, LockOK, SnapshotOK, StockInRange
<1> QED BY <1>1, <1>4, <1>5, <1>6, <1>7, <1>8 DEF Next, Quiet

-------------------------------------------------------------------------------
(* What a transaction has done.  The movements that it logs are those of   *)
(* the lines before the next one, and explain what it has written.         *)

(* The sums over the first lines of a list: nothing, one line more, all.   *)
LEMMA NoLines == \A f : SumFunctionOnSet(f, 1..0) = 0
<1>1. 1..0 = {}
  OBVIOUS
<1> QED BY <1>1, SumEmpty

LEMMA LineSum ==
  ASSUME NEW lines \in Seq(Line), NEW x, NEW k \in Nat, k <= Len(lines)
  PROVE  SumFunctionOnSet(Moves(lines, x), 1..k) \in Int
<1>1. \A i \in 1..k : lines[i] \in Line
  BY ElementOfSeq
<1>2. \A i \in 1..k : Moves(lines, x)[i] \in Int
  BY <1>1 DEF Moves, Line
<1>3. IsFiniteSet(1..k)
  BY FS_Interval
<1> QED BY <1>2, <1>3, SumType

LEMMA NextLine ==
  ASSUME NEW lines \in Seq(Line), NEW x, NEW k \in Nat, k + 1 <= Len(lines)
  PROVE  SumFunctionOnSet(Moves(lines, x), 1..k + 1)
           = SumFunctionOnSet(Moves(lines, x), 1..k) + (IF lines[k + 1].row = x THEN lines[k + 1].n ELSE 0)
<1>1. \A i \in 1..k + 1 : lines[i] \in Line
  BY ElementOfSeq
<1>2. \A i \in 1..k + 1 : Moves(lines, x)[i] \in Int
  BY <1>1 DEF Moves, Line
<1>3. IsFiniteSet(1..k + 1) /\ (1..k + 1) \ {k + 1} = 1..k /\ k + 1 \in 1..k + 1
  <2>1. (1..k + 1) \ {k + 1} = 1..k /\ k + 1 \in 1..k + 1 /\ k + 1 \in Int
    OBVIOUS
  <2> QED BY <2>1, FS_Interval
<1>4. SumFunctionOnSet(Moves(lines, x), 1..k + 1)
        = SumFunctionOnSet(Moves(lines, x), (1..k + 1) \ {k + 1}) + Moves(lines, x)[k + 1]
  BY <1>2, <1>3, SumRemove
<1>5. Moves(lines, x)[k + 1] = IF lines[k + 1].row = x THEN lines[k + 1].n ELSE 0
  BY DEF Moves
<1> QED BY <1>3, <1>4, <1>5

(* Nothing that a request has done changes when another one steps. *)
LEMMA KeepsProgress ==
  ASSUME NEW p \in Req, Progressed(p), pc'[p] = pc[p], job'[p] = job[p],
         \A x \in Row : lock'[x] = p <=> lock[x] = p,
         \/ tx'[p] = tx[p]
         \/ pc[p] = "open" /\ tx'[p].next = tx[p].next /\ tx'[p].moved = tx[p].moved
              /\ tx'[p].work = tx[p].work
  PROVE  Progressed(p)'
BY DEF Progressed

(* A rollback drops the movements together with the locks. *)
LEMMA AbortWork ==
  ASSUME StockInv, WorkInv, NEW r \in Req, NEW s \in {"ready", "failed"}, Abort(r, s)
  PROVE  WorkInv'
<1>1. LogOK'
  BY DisjointNames DEF StockInv, TypeOK, WorkInv, LogOK, Abort, NoTx, committed
<1>2. ASSUME NEW q \in Req \ {r}
      PROVE  /\ pc'[q] = pc[q] /\ tx'[q] = tx[q] /\ job'[q] = job[q]
             /\ \A x \in Row : lock'[x] = q <=> lock[x] = q
  BY DisjointNames DEF StockInv, TypeOK, Abort
<1>3. pc'[r] # "open" /\ tx'[r] = NoTx
  BY DEF StockInv, TypeOK, Abort
<1>4. ProgressOK'
  <2>1. ASSUME NEW q \in Req \ {r} PROVE Progressed(q)'
    BY <1>2, <2>1, KeepsProgress DEF WorkInv, ProgressOK
  <2>2. Progressed(r)'
    BY <1>3 DEF Progressed
  <2> QED BY <2>1, <2>2 DEF ProgressOK
<1> QED BY <1>1, <1>4 DEF WorkInv

(* A write logs the difference to what it replaces, unless it overwrites. *)
LEMMA WriteLog ==
  ASSUME StockInv, LogOK, NEW r \in Req, NEW x \in Row, NEW d \in Int, NEW q,
         Free(r, x), Write(r, x, q, d), q \in Int,
         job[r].kind # "set" =>
           q = (IF lock[x] = r THEN tx[r].work[x] ELSE stock[x]) + d
  PROVE  LogOK'
<1>2. /\ UNCHANGED << stock, job >>
      /\ lock' = [lock EXCEPT ![x] = r]
      /\ tx' = [tx EXCEPT ![r].work[x] = q, ![r].moved[x] = @ + d, ![r].next = @ + 1]
  BY DEF Write, committed
<1>3. \A p \in Req, y \in Row : p # r \/ y # x =>
        /\ tx'[p].work[y] = tx[p].work[y] /\ tx'[p].moved[y] = tx[p].moved[y]
        /\ lock'[y] = p <=> lock[y] = p
  BY <1>2, DisjointNames DEF StockInv, TypeOK, Free
<1>4. tx'[r].work[x] = q /\ tx'[r].moved[x] = tx[r].moved[x] + d /\ lock'[x] = r
  BY <1>2 DEF StockInv, TypeOK
<1>5. ASSUME job[r].kind # "set"
      PROVE  IF lock[x] = r THEN tx[r].work[x] = stock[x] + tx[r].moved[x] ELSE tx[r].moved[x] = 0
  BY <1>5 DEF LogOK
<1>6. /\ stock[x] \in Int
      /\ tx[r].work[x] \in Int
      /\ tx[r].moved[x] \in Int
  BY DEF StockInv, TypeOK
<1>7. job[r].kind # "set" => tx'[r].work[x] = stock'[x] + tx'[r].moved[x]
  BY <1>2, <1>4, <1>5, <1>6
<1> SUFFICES ASSUME NEW p \in Req, NEW y \in Row
             PROVE  /\ lock'[y] = p /\ job'[p].kind # "set" =>
                         tx'[p].work[y] = stock'[y] + tx'[p].moved[y]
                    /\ lock'[y] # p => tx'[p].moved[y] = 0
  BY DEF LogOK
<1>8. CASE p = r /\ y = x
  BY <1>2, <1>4, <1>7, <1>8
<1>9. CASE p # r \/ y # x
  <2>1. /\ lock[y] = p /\ job[p].kind # "set" => tx[p].work[y] = stock[y] + tx[p].moved[y]
        /\ lock[y] # p => tx[p].moved[y] = 0
    BY DEF LogOK
  <2> QED BY <1>2, <1>3, <1>9, <2>1
<1> QED BY <1>8, <1>9

(* A write is that of the current line, and the next one becomes current. *)
LEMMA WriteProgress ==
  ASSUME StockInv, ProgressOK, NEW r \in Req, pc[r] = "open", ItemsLeft(r), NEW q, NEW d \in Int,
         Free(r, CurrentLine(r).row), Write(r, CurrentLine(r).row, q, d),
         d = Effect(job[r].kind, CurrentLine(r).n),
         job[r].kind = "set" => q = CurrentLine(r).n
  PROVE  ProgressOK'
<1> DEFINE lines == job[r].lines
           k == tx[r].next - 1
           x == CurrentLine(r).row
           n == CurrentLine(r).n
<1>1. /\ lines \in Seq(Line) /\ k \in Nat /\ k + 1 = tx[r].next /\ k + 1 <= Len(lines)
      /\ lines[k + 1].row = x /\ lines[k + 1].n = n /\ x \in Row /\ n \in Int
  <2>1. job[r] \in Job /\ tx[r].next \in Nat \ {0}
    BY DEF StockInv, TypeOK
  <2>2. k + 1 = tx[r].next /\ k \in Nat
    BY <2>1
  <2>3. CurrentLine(r) \in Line /\ CurrentLine(r) = lines[k + 1]
    BY <2>2, LineType DEF CurrentLine
  <2> QED BY <2>1, <2>2, <2>3 DEF Job, ItemsLeft, Line
<1>2. /\ UNCHANGED << pc, job >>
      /\ lock' = [lock EXCEPT ![x] = r]
      /\ tx' = [tx EXCEPT ![r].work[x] = q, ![r].moved[x] = @ + d, ![r].next = @ + 1]
  BY DEF Write
<1> HIDE DEF x, n, k, lines
<1>3. ASSUME NEW p \in Req \ {r}
      PROVE  tx'[p] = tx[p] /\ \A y \in Row : lock'[y] = p <=> lock[y] = p
  BY <1>1, <1>2, DisjointNames DEF StockInv, TypeOK, Free, x
<1>4. /\ tx'[r].next - 1 = k + 1
      /\ tx'[r].moved[x] = tx[r].moved[x] + d /\ tx'[r].work[x] = q /\ lock'[x] = r
      /\ \A y \in Row \ {x} : /\ tx'[r].moved[y] = tx[r].moved[y]
                              /\ tx'[r].work[y] = tx[r].work[y]
                              /\ lock'[y] = lock[y]
  <2>1. tx'[r] = [tx[r] EXCEPT !.work[x] = q, !.moved[x] = @ + d, !.next = @ + 1]
    BY <1>2 DEF StockInv, TypeOK
  <2>2. tx[r] \in [next : Nat \ {0}, work : [Row -> Int], moved : [Row -> Int],
                   snap : [Row -> Int], stale : SUBSET Row]
    BY DEF StockInv, TypeOK
  <2>3. lock'[x] = r /\ \A y \in Row \ {x} : lock'[y] = lock[y]
    BY <1>1, <1>2 DEF StockInv, TypeOK
  <2>4. tx'[r].next - 1 = k + 1
    BY <1>1, <2>1, <2>2
  <2> QED BY <1>1, <2>1, <2>2, <2>3, <2>4
<1>5. ASSUME NEW y \in Row
      PROVE  tx'[r].moved[y] = Effect(job[r].kind, SumFunctionOnSet(Moves(lines, y), 1..k + 1))
  <2> DEFINE u == SumFunctionOnSet(Moves(lines, y), 1..k)
             v == SumFunctionOnSet(Moves(lines, y), 1..k + 1)
  <2>1. u \in Int /\ v = u + (IF y = x THEN n ELSE 0)
    BY <1>1, LineSum, NextLine
  <2>2. tx[r].moved[y] = Effect(job[r].kind, u)
    BY DEF ProgressOK, Progressed, k, lines
  <2>3. d = Effect(job[r].kind, n)
    BY DEF n
  <2> HIDE DEF u, v
  <2>4. ASSUME y = x PROVE tx'[r].moved[y] = Effect(job[r].kind, v)
    BY <1>1, <1>4, <2>1, <2>2, <2>3, <2>4 DEF Effect
  <2>5. ASSUME y # x PROVE tx'[r].moved[y] = Effect(job[r].kind, v)
    BY <1>1, <1>4, <2>1, <2>2, <2>5 DEF Effect
  <2>6. tx'[r].moved[y] = Effect(job[r].kind, v)
    BY <2>4, <2>5
  <2> QED BY <2>6 DEF v
<1>6. ASSUME NEW y \in Row, job[r].kind = "set"
      PROVE  /\ lock'[y] = r => \E i \in 1..k + 1 : lines[i].row = y
             /\ \A i \in 1..k + 1 : Names(lines, y, k + 1, i) =>
                  lock'[y] = r /\ tx'[r].work[y] = lines[i].n
  <2>1. q = n
    BY <1>6 DEF n
  <2>2. /\ lock[y] = r => \E i \in 1..k : lines[i].row = y
        /\ \A i \in 1..k : Names(lines, y, k, i) => lock[y] = r /\ tx[r].work[y] = lines[i].n
    BY <1>6 DEF ProgressOK, Progressed, k, lines
  <2>3. CASE y = x
    <3>1. \A i \in 1..k + 1 : Names(lines, y, k + 1, i) => i = k + 1
      BY <1>1, <2>3 DEF Names
    <3>2. k + 1 \in 1..k + 1
      BY <1>1
    <3> QED BY <1>1, <1>4, <2>1, <2>3, <3>1, <3>2
  <2>4. CASE y # x
    <3>1. \A i \in 1..k + 1 : Names(lines, y, k + 1, i) => i \in 1..k /\ Names(lines, y, k, i)
      BY <1>1, <2>4 DEF Names
    <3>2. 1..k \subseteq 1..k + 1
      BY <1>1
    <3> QED BY <1>4, <2>2, <2>4, <3>1, <3>2
  <2> QED BY <2>3, <2>4
<1>7. Progressed(r)'
  <2>1. tx'[r].next - 1 = k + 1 /\ k + 1 <= Len(lines) /\ job'[r] = job[r] /\ pc'[r] = "open"
    BY <1>1, <1>2, <1>4 DEF StockInv, TypeOK
  <2> QED BY <2>1, <1>5, <1>6 DEF Progressed, lines
<1>8. ASSUME NEW p \in Req \ {r} PROVE Progressed(p)'
  BY <1>2, <1>3, KeepsProgress DEF ProgressOK
<1> QED BY <1>7, <1>8 DEF ProgressOK

(* A transaction that starts has done nothing. *)
LEMMA StartWork ==
  ASSUME StockInv, WorkInv, NEW r \in Req, pc[r] # "open", UNCHANGED stock,
         \A x \in Row : lock'[x] = lock[x],
         \A q \in Req \ {r} : pc'[q] = pc[q] /\ tx'[q] = tx[q] /\ job'[q] = job[q],
         job'[r].lines \in Seq(Line), job'[r].kind \in Kinds,
         tx'[r].next = 1, \A x \in Row : tx'[r].moved[x] = 0,
         pc'[r] # "open" => tx'[r] = NoTx
  PROVE  WorkInv'
<1>1. \A x \in Row : lock[x] # r
  BY DEF StockInv, LockOK
<1>2. LogOK'
  BY <1>1 DEF WorkInv, LogOK
<1>3. ASSUME NEW q \in Req \ {r} PROVE Progressed(q)'
  BY KeepsProgress DEF WorkInv, ProgressOK
<1>4. Progressed(r)'
  <2>1. Len(job'[r].lines) \in Nat /\ tx'[r].next - 1 = 0
    BY LenProperties
  <2>2. \A x \in Row : SumFunctionOnSet(Moves(job'[r].lines, x), 1..0) = 0
    BY NoLines
  <2>3. 1..0 = {}
    OBVIOUS
  <2>4. Effect(job'[r].kind, 0) = 0
    BY DEF Effect
  <2> QED BY <1>1, <2>1, <2>2, <2>3, <2>4 DEF Progressed
<1> QED BY <1>2, <1>3, <1>4 DEF WorkInv, ProgressOK

(* A commit ends what its transaction has done and touches no other row    *)
(* that a transaction holds.                                               *)
LEMMA CommitWork ==
  ASSUME StockInv, WorkInv, NEW r \in Req, Commit(r)
  PROVE  WorkInv'
<1>1. /\ stock' = [x \in Row |-> IF lock[x] = r THEN tx[r].work[x] ELSE stock[x]]
      /\ lock' = [x \in DOMAIN lock |-> IF lock[x] = r THEN Nobody ELSE lock[x]]
      /\ pc' = [pc EXCEPT ![r] = "done"]
      /\ job' = job
  BY DEF Commit
<1>2. ASSUME NEW q \in Req \ {r}
      PROVE  \/ tx'[q] = tx[q]
             \/ /\ pc[q] = "open" /\ tx'[q].next = tx[q].next
                /\ tx'[q].moved = tx[q].moved /\ tx'[q].work = tx[q].work
  BY DEF Commit, StockInv, TypeOK
<1>3. tx'[r] = NoTx
  BY DEF Commit
<1>4. \A q \in Req \ {r}, x \in Row : lock'[x] = q <=> lock[x] = q
  BY <1>1, DisjointNames DEF StockInv, TypeOK
<1>5. \A x \in Row : lock'[x] # r /\ tx'[r].moved[x] = 0
  BY <1>1, <1>3, DisjointNames DEF StockInv, TypeOK, NoTx
<1>6. LogOK'
  <2>1. ASSUME NEW q \in Req \ {r}, NEW x \in Row
        PROVE  /\ lock'[x] = q /\ job'[q].kind # "set" =>
                     tx'[q].work[x] = stock'[x] + tx'[q].moved[x]
               /\ lock'[x] # q => tx'[q].moved[x] = 0
    BY <1>1, <1>2, <1>4 DEF WorkInv, LogOK
  <2> QED BY <1>5, <2>1 DEF LogOK
<1>7. Progressed(r)'
  BY <1>1, <1>3 DEF Progressed, StockInv, TypeOK
<1>8. ASSUME NEW q \in Req \ {r} PROVE Progressed(q)'
  BY <1>1, <1>2, <1>4, KeepsProgress DEF WorkInv, ProgressOK, StockInv, TypeOK
<1> QED BY <1>6, <1>7, <1>8 DEF WorkInv, ProgressOK

(* Every step keeps what is known of open transactions. *)
LEMMA NextWork == StockInv /\ WorkInv /\ [Next]_vars => WorkInv'
<1> SUFFICES ASSUME StockInv, WorkInv, [Next]_vars PROVE WorkInv'
  OBVIOUS
<1>0. StockInv'
  BY NextStock
<1>1. ASSUME NEW r \in Req, Arrive(r) PROVE WorkInv'
  <2>1. /\ pc[r] = "idle" /\ pc' = [pc EXCEPT ![r] = pc'[r]] /\ UNCHANGED << stock, lock, tx >>
        /\ \A q \in Req \ {r} : job'[q] = job[q]
    BY <1>1 DEF Arrive, AskSale, AskRefund, AskPurchase, AskAdjust, AskOverwrite, Ask, committed,
                StockInv, TypeOK
  <2>2. tx[r] = NoTx
    BY <2>1 DEF WorkInv, ProgressOK, Progressed
  <2>3. tx'[r] = NoTx /\ tx'[r].next = 1 /\ \A x \in Row : tx'[r].moved[x] = 0
    BY <2>1, <2>2 DEF NoTx
  <2>4. job'[r].lines \in Seq(Line) /\ job'[r].kind \in Kinds
    BY <1>0 DEF StockInv, TypeOK, Job
  <2>5. \A q \in Req \ {r} : pc'[q] = pc[q] /\ tx'[q] = tx[q]
    BY <2>1 DEF StockInv, TypeOK
  <2> QED BY <2>1, <2>3, <2>4, <2>5, StartWork
<1>2. ASSUME NEW r \in Req, Fail(r) \/ (r \in Seller /\ Retry(r)) PROVE WorkInv'
  BY <1>2, AbortWork DEF Fail, Retry
<1>3. ASSUME NEW r \in Seller, BeginSale(r) PROVE WorkInv'
  <2> DEFINE new == [NoTx EXCEPT !.work = stock, !.snap = stock]
  <2>1. /\ UNCHANGED << stock, lock, job >> /\ tx' = [tx EXCEPT ![r] = new]
        /\ pc[r] = "ready" /\ pc' = [pc EXCEPT ![r] = "open"] /\ r \in Req
        /\ new.next = 1 /\ \A x \in Row : new.moved[x] = 0
    BY <1>3 DEF BeginSale, NoTx, committed, Req
  <2> HIDE DEF new
  <2>2. tx'[r].next = 1 /\ \A x \in Row : tx'[r].moved[x] = 0
    BY <2>1 DEF StockInv, TypeOK
  <2>3. job'[r].lines \in Seq(Line) /\ job'[r].kind \in Kinds /\ pc'[r] = "open"
    BY <2>1, <1>0 DEF StockInv, TypeOK, Job
  <2>4. \A q \in Req \ {r} : pc'[q] = pc[q] /\ tx'[q] = tx[q] /\ job'[q] = job[q]
    BY <2>1 DEF StockInv, TypeOK
  <2> QED BY <2>1, <2>2, <2>3, <2>4, StartWork
<1>4. ASSUME NEW r \in Seller, SellItem(r) PROVE WorkInv'
  <2> DEFINE x == CurrentLine(r).row
             n == CurrentLine(r).n
  <2>1. /\ pc[r] = "open" /\ ItemsLeft(r) /\ r \in Req
        /\ Free(r, x) /\ x \notin tx[r].stale /\ Write(r, x, Sees(r, x) - n, -n)
    BY <1>4 DEF SellItem, Req
  <2>2. x \in Row /\ n \in Int
    BY <2>1, LineType DEF Line
  <2>3. Sees(r, x) = IF lock[x] = r THEN tx[r].work[x] ELSE stock[x]
    BY <1>4, <2>1, <2>2 DEF Sees, StockInv, SnapshotOK
  <2>4. Sees(r, x) \in Int
    BY <2>1, <2>2, <2>3 DEF StockInv, TypeOK
  <2>5. /\ Sees(r, x) - n = (IF lock[x] = r THEN tx[r].work[x] ELSE stock[x]) + -n
        /\ -n \in Int /\ Sees(r, x) - n \in Int
    BY <2>2, <2>3, <2>4
  <2>6. job[r].kind = "sale" /\ -n = Effect("sale", n)
    BY <1>4, <2>1, <2>2 DEF StockInv, JobOK, Effect
  <2>7. ProgressOK'
    BY <2>1, <2>5, <2>6, WriteProgress DEF WorkInv
  <2> HIDE DEF x, n
  <2>8. LogOK'
    BY <2>1, <2>2, <2>5, WriteLog DEF WorkInv
  <2> QED BY <2>7, <2>8 DEF WorkInv
<1>5. ASSUME NEW r \in Req \ Seller,
             ReceiveBatch(r) \/ AdjustStock(r) \/ RestoreStock(r) \/ OverwriteStock(r)
      PROVE WorkInv'
  <2> DEFINE x == CurrentLine(r).row
             n == CurrentLine(r).n
             d == IF job[r].kind = "set" THEN 0 ELSE n
  <2>1. /\ pc[r] = "open" /\ ItemsLeft(r) /\ Free(r, x) /\ Write(r, x, NewQty(r), d)
        /\ job[r].kind \in StockKinds \cup {"refund"}
    BY <1>5 DEF ReceiveBatch, AdjustStock, RestoreStock, OverwriteStock, Move, StockKinds
  <2>2. x \in Row /\ n \in Int /\ d \in Int
    BY <1>5, <2>1, LineType DEF Line
  <2>3. Sees(r, x) = IF lock[x] = r THEN tx[r].work[x] ELSE stock[x]
    BY <1>5 DEF Sees
  <2>4. Sees(r, x) \in Int
    BY <1>5, <2>2, <2>3 DEF StockInv, TypeOK
  <2>5. /\ NewQty(r) = IF job[r].kind = "set" THEN n ELSE Sees(r, x) + n
        /\ NewQty(r) \in Int
    BY <2>2, <2>4 DEF NewQty
  <2>6. d = Effect(job[r].kind, n)
    BY <2>1 DEF Effect, StockKinds
  <2>7. ProgressOK'
    <3> HIDE DEF d
    <3> QED BY <1>5, <2>1, <2>2, <2>5, <2>6, WriteProgress DEF WorkInv
  <2>8. job[r].kind # "set" =>
          NewQty(r) = (IF lock[x] = r THEN tx[r].work[x] ELSE stock[x]) + d
    BY <2>3, <2>5
  <2> HIDE DEF x, n, d
  <2>9. LogOK'
    BY <1>5, <2>1, <2>2, <2>5, <2>8, WriteLog DEF WorkInv
  <2> QED BY <2>7, <2>9 DEF WorkInv
<1>6. ASSUME NEW r \in Refunder, MarkRefunded(r) PROVE WorkInv'
  <2>1. job[r].sale \in Seller /\ r \in Req /\ pc[r] = "checked"
    BY <1>6 DEF MarkRefunded, StockInv, JobOK, Req
  <2>2. /\ UNCHANGED << stock, tx, job >> /\ pc' = [pc EXCEPT ![r] = "open"]
        /\ \A x \in Row : lock'[x] = lock[x]
    BY <1>6, <2>1, DisjointNames DEF MarkRefunded, committed, StockInv, TypeOK
  <2>3. tx[r] = NoTx
    BY <2>1 DEF WorkInv, ProgressOK, Progressed
  <2>4. tx'[r].next = 1 /\ \A x \in Row : tx'[r].moved[x] = 0
    BY <2>2, <2>3 DEF NoTx
  <2>5. job'[r].lines \in Seq(Line) /\ job'[r].kind \in Kinds /\ pc'[r] = "open"
    BY <2>1, <2>2, <1>0 DEF StockInv, TypeOK, Job
  <2>6. \A q \in Req \ {r} : pc'[q] = pc[q] /\ tx'[q] = tx[q] /\ job'[q] = job[q]
    BY <2>1, <2>2 DEF StockInv, TypeOK
  <2> QED BY <2>1, <2>2, <2>4, <2>5, <2>6, StartWork
<1>7. ASSUME NEW r \in Req, Handle(r) PROVE WorkInv'
  BY <1>2, <1>3, <1>4, <1>5, <1>6, <1>7, CommitWork
  DEF Handle, SaleStep, OtherStep, SellShort, SellConflict, SerializationFailure,
      MoveShort, MoveOverflow
<1>8. ASSUME NEW r \in Req, Expire(r) \/ DeadlockVictim(r) PROVE WorkInv'
  BY <1>2, <1>8 DEF Expire, DeadlockVictim
<1>9. CASE UNCHANGED vars
  BY <1>9 DEF vars, committed, WorkInv, LogOK, ProgressOK, Progressed
<1>10. ASSUME NEW s \in Seller, VoidReceipt(s) PROVE WorkInv'
  BY <1>10 DEF VoidReceipt, WorkInv, LogOK, ProgressOK, Progressed
<1> QED BY <1>1, <1>7, <1>8, <1>9, <1>10 DEF Next, Quiet

(* The ledger explains the stock as long as nobody overwrites a quantity:  *)
(* a commit adds the logged movements to the ledger and the same           *)
(* differences to the stock.                                               *)

(* No request sets an absolute quantity. *)
NoOverwrites == \A j \in StockJobs : j.kind # "set"

(* A step is a commit, the arrival of a request, a receipt voided by a     *)
(* clerk, or one that changes no committed row and no job.                 *)
Elsewhere ==
  /\ UNCHANGED << committed, job >>
  /\ \A r \in Req : \/ pc'[r] = pc[r]
                    \/ pc[r] \in {"ready", "checked", "open"} /\ pc'[r] \in {"ready", "failed"}
                    \/ r \in Seller \cup Refunder /\ pc[r] # "idle" /\ pc'[r] = "open"
                         /\ (r \in Refunder => pc[r] = "checked")

LEMMA StepKinds ==
  ASSUME TypeOK, [Next]_vars
  PROVE  (\E r \in Req : Commit(r) \/ Arrive(r)) \/ Elsewhere \/ (\E s \in Seller : VoidReceipt(s))
<1>1. ASSUME NEW r \in Req, NEW s \in {"ready", "failed"}, Abort(r, s),
             pc[r] \in {"ready", "checked", "open"}
      PROVE  Elsewhere
  BY <1>1 DEF Abort, Elsewhere, TypeOK
<1>2. ASSUME NEW r \in Req, NEW x, NEW q, NEW d, Write(r, x, q, d) PROVE Elsewhere
  BY <1>2 DEF Write, Elsewhere
<1>3. ASSUME NEW r \in Seller, BeginSale(r) PROVE Elsewhere
  BY <1>3, DisjointNames DEF BeginSale, Elsewhere, TypeOK, Req
<1>4. ASSUME NEW r \in Refunder, MarkRefunded(r) PROVE Elsewhere
  BY <1>4 DEF MarkRefunded, Elsewhere, TypeOK, Req
<1>5. ASSUME NEW r \in Req, Fail(r) \/ Retry(r), pc[r] \in {"ready", "checked", "open"}
      PROVE  Elsewhere
  BY <1>1, <1>5 DEF Fail, Retry
<1>6. ASSUME NEW r \in Req, Handle(r) PROVE Commit(r) \/ Elsewhere
  BY <1>2, <1>3, <1>4, <1>5, <1>6
  DEF Handle, SaleStep, OtherStep, SellItem, SellShort, SellConflict, SerializationFailure,
      MoveShort, MoveOverflow, ReceiveBatch, AdjustStock, RestoreStock, OverwriteStock, Move
<1>7. ASSUME NEW r \in Req, Expire(r) \/ DeadlockVictim(r) PROVE Elsewhere
  BY <1>5, <1>7 DEF Expire, DeadlockVictim, BlockedBy
<1>8. CASE UNCHANGED vars
  BY <1>8 DEF vars, Elsewhere
<1> QED BY <1>6, <1>7, <1>8 DEF Next, Quiet

(* The arrival of a request, which had none before. *)
LEMMA Arrival ==
  ASSUME TypeOK, NEW r \in Req, Arrive(r)
  PROVE  /\ UNCHANGED committed /\ pc[r] = "idle"
         /\ pc'[r] \in {"ready", "checked", "open", "failed"}
         /\ \A q \in Req \ {r} : pc'[q] = pc[q] /\ job'[q] = job[q]
BY DEF Arrive, AskSale, AskRefund, AskPurchase, AskAdjust, AskOverwrite, Ask, TypeOK

(* Without absolute updates every open transaction has a kind that logs.   *)
LEMMA NextLedger ==
  ASSUME NoOverwrites
  PROVE  StockInv /\ WorkInv /\ LedgerExplainsStock /\ [Next]_vars => LedgerExplainsStock'
<1> SUFFICES ASSUME StockInv, WorkInv, LedgerExplainsStock, [Next]_vars
             PROVE  LedgerExplainsStock'
  OBVIOUS
<1>1. ASSUME NEW r \in Req, Commit(r) PROVE LedgerExplainsStock'
  <2>1. /\ stock' = [x \in Row |-> IF lock[x] = r THEN tx[r].work[x] ELSE stock[x]]
        /\ ledger' = [x \in Row |-> ledger[x] + tx[r].moved[x]]
        /\ pc[r] = "open"
    BY <1>1 DEF Commit
  <2>2. job[r].kind # "set"
    BY <2>1, NoOverwrites DEF NoOverwrites, StockInv, JobOK, Req
  <2> QED BY <2>1, <2>2, Limits DEF StockInv, TypeOK, WorkInv, LogOK, LedgerExplainsStock
<1>2. CASE UNCHANGED committed
  BY <1>2 DEF committed, LedgerExplainsStock
<1> QED BY <1>1, <1>2, StepKinds, Arrival DEF StockInv, Elsewhere, VoidReceipt, LedgerExplainsStock

-------------------------------------------------------------------------------
(* The books *)

(* Nothing but a commit writes the books, and no job of a committed sale   *)
(* changes.                                                                *)
LEMMA QuietBooks ==
  ASSUME BooksAgree, UNCHANGED << sale, cash, receipt >>,
         \A s \in Seller : sale[s] # "none" => job'[s] = job[s]
  PROVE  BooksAgree'
BY DEF BooksAgree, BooksOf

LEMMA BooksKept ==
  ASSUME NEW s, BooksOf(s), sale'[s] = sale[s], cash'[s] = cash[s], receipt'[s] = receipt[s], job' = job
  PROVE  BooksOf(s)'
BY DEF BooksOf

(* A commit writes sale, cash flow and receipt together. *)
LEMMA CommitBooks ==
  ASSUME StockInv, BooksAgree, NEW r \in Req, Commit(r)
  PROVE  BooksAgree'
<1>1. pc[r] = "open" /\ job' = job
  BY DEF Commit
<1>2. CASE r \in Seller
  <2>1. /\ sale' = [sale EXCEPT ![r] = "COMPLETED"]
        /\ cash' = [cash EXCEPT ![r].SALE = @ + job[r].amount]
        /\ receipt' = [receipt EXCEPT ![r] = "ISSUED"]
        /\ sale[r] = "none"
    BY <1>1, <1>2 DEF Commit, Book, BookSale, StockInv, JobOK
  <2>2. cash[r] = NoEntries /\ job[r].amount \in Nat
    BY <1>2, <2>1 DEF BooksAgree, BooksOf, StockInv, TypeOK, Job
  <2>3. cash'[r] = [NoEntries EXCEPT !.SALE = job[r].amount]
    BY <1>2, <2>1, <2>2 DEF NoEntries, StockInv, TypeOK
  <2>4. \A s \in Seller \ {r} : sale'[s] = sale[s] /\ cash'[s] = cash[s] /\ receipt'[s] = receipt[s]
    BY <2>1 DEF StockInv, TypeOK
  <2>5. sale'[r] = "COMPLETED" /\ receipt'[r] = "ISSUED"
    BY <1>2, <2>1 DEF StockInv, TypeOK
  <2>6. \A s \in Seller \ {r} : BooksOf(s)'
    BY <1>1, <2>4, BooksKept DEF BooksAgree
  <2>7. BooksOf(r)'
    BY <1>1, <2>3, <2>5 DEF BooksOf
  <2> QED BY <2>6, <2>7 DEF BooksAgree
<1>3. CASE r \in Refunder
  <2>1. PICK s \in Seller : /\ s = job[r].sale /\ job[r].kind = "refund" /\ sale[s] # "none"
                            /\ job[r].amount = job[s].amount /\ r \notin Seller
    BY <1>1, <1>3, DisjointNames DEF StockInv, JobOK
  <2>2. /\ sale' = [sale EXCEPT ![s] = "REFUNDED"]
        /\ cash' = [cash EXCEPT ![s].REFUND = @ + job[s].amount]
        /\ receipt' = [receipt EXCEPT ![s] = "VOIDED"]
    BY <2>1 DEF Commit, Book, BookRefund
  <2>3. cash[s] \in Entries /\ job[s].amount \in Nat /\ sale[s] \in {"COMPLETED", "REFUNDED"}
    BY <2>1 DEF StockInv, TypeOK, Job, Req
  <2>4. cash[s].SALE = job[s].amount
    BY <2>1, <2>3 DEF BooksAgree, BooksOf, NoEntries
  <2>5. cash'[s] = [cash[s] EXCEPT !.REFUND = @ + job[s].amount]
    BY <2>1, <2>2 DEF StockInv, TypeOK
  <2>6. cash'[s].SALE = job[s].amount /\ cash'[s].REFUND >= job[s].amount
    BY <2>3, <2>4, <2>5 DEF Entries
  <2>7. \A p \in Seller \ {s} : sale'[p] = sale[p] /\ cash'[p] = cash[p] /\ receipt'[p] = receipt[p]
    BY <2>2 DEF StockInv, TypeOK
  <2>8. sale'[s] = "REFUNDED" /\ receipt'[s] = "VOIDED"
    BY <2>1, <2>2 DEF StockInv, TypeOK
  <2>9. \A p \in Seller \ {s} : BooksOf(p)'
    BY <1>1, <2>7, BooksKept DEF BooksAgree
  <2>10. BooksOf(s)'
    BY <1>1, <2>6, <2>8 DEF BooksOf
  <2> QED BY <2>9, <2>10 DEF BooksAgree
<1>4. CASE r \in Stocker
  <2>1. job[r].kind \in StockKinds /\ r \notin Seller
    BY <1>1, <1>4, DisjointNames, Inputs DEF StockInv, JobOK
  <2>2. /\ UNCHANGED << sale, receipt >>
        /\ \/ cash' = [cash EXCEPT ![r].PURCHASE = @ + job[r].amount]
           \/ cash' = cash
    BY <2>1 DEF Commit, Book, BookPurchase, StockKinds
  <2>3. \A s \in Seller : cash'[s] = cash[s]
    BY <2>1, <2>2 DEF StockInv, TypeOK
  <2> QED BY <1>1, <2>2, <2>3 DEF BooksAgree, BooksOf
<1> QED BY <1>2, <1>3, <1>4 DEF Req

(* Every step keeps the books in agreement. *)
LEMMA NextBooks == StockInv /\ BooksAgree /\ [Next]_vars => BooksAgree'
<1> SUFFICES ASSUME StockInv, BooksAgree, [Next]_vars PROVE BooksAgree'
  OBVIOUS
<1>1. ASSUME NEW r \in Req, Arrive(r) PROVE BooksAgree'
  <2>1. \A s \in Seller : sale[s] # "none" => s \in Req \ {r}
    BY <1>1, Arrival DEF StockInv, JobOK, Req
  <2>2. UNCHANGED committed /\ \A s \in Seller : sale[s] # "none" => job'[s] = job[s]
    BY <1>1, <2>1, Arrival DEF StockInv
  <2> QED BY <2>2, QuietBooks DEF committed
<1>2. CASE Elsewhere
  BY <1>2, QuietBooks DEF Elsewhere, committed
<1>3. ASSUME NEW s \in Seller, VoidReceipt(s) PROVE BooksAgree'
  <2>1. /\ sale' = sale /\ cash' = cash /\ job' = job
        /\ receipt[s] = "ISSUED" /\ receipt'[s] = "VOIDED"
        /\ \A p \in Seller \ {s} : receipt'[p] = receipt[p]
    BY <1>3 DEF VoidReceipt, StockInv, TypeOK
  <2>2. \A p \in Seller \ {s} : BooksOf(p)'
    BY <2>1, BooksKept DEF BooksAgree
  <2>3. sale[s] = "COMPLETED" /\ BooksOf(s)
    BY <2>1 DEF BooksAgree, BooksOf, StockInv, TypeOK
  <2>4. BooksOf(s)'
    BY <2>1, <2>3 DEF BooksOf
  <2> QED BY <2>2, <2>4 DEF BooksAgree
<1> QED BY <1>1, <1>2, <1>3, CommitBooks, StepKinds DEF StockInv

-------------------------------------------------------------------------------
(* What a commit does to stock and ledger *)

(* The units of a list of lines are those of its first Len(lines) lines. *)
LEMMA UnitsSum ==
  ASSUME NEW lines \in Seq(Line), NEW x
  PROVE  /\ Units(lines, x) = SumFunctionOnSet(Moves(lines, x), 1..Len(lines))
         /\ Units(lines, x) \in Int
<1>1. DOMAIN lines = 1..Len(lines) /\ Len(lines) \in Nat
  BY LenProperties
<1> QED BY <1>1, LineSum DEF Units

(* A line that names a row is followed by none or by a last one. *)
LEMMA LastLine ==
  ASSUME NEW lines, NEW n \in Nat, NEW x, \E i \in 1..n : lines[i].row = x
  PROVE  \E i \in 1..n : Names(lines, x, n, i)
<1> DEFINE I == {i \in 1..n : lines[i].row = x}
           G == {T \in SUBSET I : T = {} \/ \E i \in T : \A j \in T : j <= i}
<1>1. ASSUME NEW T \in SUBSET I, \A U \in SUBSET T : U # T => U \in G
      PROVE  T \in G
  <2>1. CASE T # {}
    <3> DEFINE i == First(T)
    <3>1. i \in T /\ T \ {i} \in SUBSET T /\ T \ {i} # T
      BY <2>1, FirstIn
    <3> HIDE DEF i
    <3>2. T \ {i} = {} \/ \E j \in T \ {i} : \A k \in T \ {i} : k <= j
      BY <1>1, <3>1
    <3>3. CASE T \ {i} = {}
      <4>1. \A j \in T : j = i
        BY <3>3
      <4> QED BY <3>1, <4>1
    <3>4. CASE \E j \in T \ {i} : \A k \in T \ {i} : k <= j
      <4>1. PICK j \in T \ {i} : \A k \in T \ {i} : k <= j
        BY <3>4
      <4>2. i \in Int /\ j \in Int
        BY <3>1
      <4>3. CASE i <= j
        BY <4>1, <4>3
      <4>4. CASE j <= i
        <5>1. \A k \in T : k <= i
          BY <4>1, <4>2, <4>4
        <5> QED BY <3>1, <5>1
      <4> QED BY <4>2, <4>3, <4>4
    <3> QED BY <3>2, <3>3, <3>4
  <2> QED BY <2>1
<1>2. IsFiniteSet(I)
  <2>1. 1 \in Int /\ n \in Int /\ I \in SUBSET (1..n)
    OBVIOUS
  <2>2. IsFiniteSet(1..n)
    BY <2>1, FS_Interval
  <2> QED BY <2>1, <2>2, FS_Subset
<1> HIDE DEF G
<1>3. I \in G
  <2> HIDE DEF I
  <2>1. \A T \in SUBSET I : T \in G
    BY <1>1, <1>2, SubsetInduction
  <2> QED BY <2>1
<1>4. PICK i \in I : \A j \in I : j <= i
  BY <1>3 DEF G
<1>5. \A j \in i + 1..n : lines[j].row # x
  BY <1>4
<1> QED BY <1>4, <1>5 DEF Names

(* A commit publishes what its lines move, or store. *)
LEMMA CommitEffect ==
  ASSUME StockInv, WorkInv, NEW r \in Req, Commit(r)
  PROVE  LET lines == job[r].lines  d(x) == Effect(job[r].kind, Units(lines, x)) IN
         /\ ledger' = [x \in Row |-> ledger[x] + d(x)]
         /\ job[r].kind # "set" => stock' = [x \in Row |-> stock[x] + d(x)]
         /\ job[r].kind = "set" => stock' = [x \in Row |-> LastSet(lines, x, stock[x])]
<1> DEFINE lines == job[r].lines
           n == Len(lines)
           d(x) == Effect(job[r].kind, Units(lines, x))
<1>1. /\ stock' = [x \in Row |-> IF lock[x] = r THEN tx[r].work[x] ELSE stock[x]]
      /\ ledger' = [x \in Row |-> ledger[x] + tx[r].moved[x]]
      /\ pc[r] = "open" /\ ~ItemsLeft(r)
  BY DEF Commit
<1>2. job[r] \in Job /\ lines \in Seq(Line) /\ n \in Nat /\ DOMAIN lines = 1..n
  BY LenProperties DEF StockInv, TypeOK, Job
<1>3. tx[r].next - 1 = n
  <2>1. tx[r].next \in Nat /\ tx[r].next - 1 <= n
    BY <1>1 DEF StockInv, TypeOK, WorkInv, ProgressOK, Progressed
  <2>2. ~(tx[r].next <= n)
    BY <1>1 DEF ItemsLeft
  <2> HIDE DEF n
  <2> QED BY <1>2, <2>1, <2>2
<1> HIDE DEF n
<1>4. ASSUME NEW x \in Row PROVE tx[r].moved[x] = d(x)
  BY <1>1, <1>2, <1>3, UnitsSum DEF WorkInv, ProgressOK, Progressed, n
<1>5. ASSUME NEW x \in Row, job[r].kind # "set" PROVE stock'[x] = stock[x] + d(x)
  <2>1. /\ lock[x] = r => tx[r].work[x] = stock[x] + tx[r].moved[x]
        /\ lock[x] # r => tx[r].moved[x] = 0
        /\ stock[x] \in Int
    BY <1>5 DEF WorkInv, LogOK, StockInv, TypeOK
  <2> HIDE DEF d
  <2> QED BY <1>1, <1>4, <2>1
<1>6. ASSUME NEW x \in Row, job[r].kind = "set" PROVE stock'[x] = LastSet(lines, x, stock[x])
  <2>1. /\ lock[x] = r => \E i \in 1..n : lines[i].row = x
        /\ \A i \in 1..n : Names(lines, x, n, i) => lock[x] = r /\ tx[r].work[x] = lines[i].n
    BY <1>1, <1>3, <1>6 DEF WorkInv, ProgressOK, Progressed
  <2>2. CASE \E i \in 1..n : lines[i].row = x
    <3> DEFINE i == CHOOSE i \in DOMAIN lines : Names(lines, x, Len(lines), i)
    <3>1. \E k \in 1..n : Names(lines, x, n, k)
      <4> HIDE DEF lines
      <4> QED BY <1>2, <2>2, LastLine
    <3>2. i \in 1..n /\ Names(lines, x, n, i)
      BY <1>2, <3>1 DEF n
    <3>3. LastSet(lines, x, stock[x]) = lines[i].n
      BY <1>2, <2>2 DEF LastSet
    <3> HIDE DEF i
    <3> QED BY <1>1, <2>1, <3>2, <3>3
  <2>3. CASE ~ \E i \in 1..n : lines[i].row = x
    BY <1>1, <1>2, <2>1, <2>3 DEF LastSet
  <2> QED BY <2>2, <2>3
<1>7. ledger' = [x \in Row |-> ledger[x] + d(x)]
  <2> HIDE DEF d
  <2> QED BY <1>1, <1>4
<1>8. ASSUME job[r].kind # "set" PROVE stock' = [x \in Row |-> stock[x] + d(x)]
  <2> HIDE DEF d
  <2> QED BY <1>1, <1>5, <1>8
<1>9. ASSUME job[r].kind = "set" PROVE stock' = [x \in Row |-> LastSet(lines, x, stock[x])]
  BY <1>1, <1>6, <1>9
<1> QED BY <1>7, <1>8, <1>9

-------------------------------------------------------------------------------
(* Commerce as atomic operations *)

(* What a commit writes to the books, by who commits. *)
LEMMA Booked ==
  ASSUME StockInv, NEW r \in Req, Commit(r)
  PROVE  /\ pc[r] = "open" /\ pc' = [pc EXCEPT ![r] = "done"] /\ UNCHANGED job
         /\ r \in Seller => /\ job[r].kind = "sale" /\ sale[r] = "none"
                            /\ job[r].lines \in Carts /\ job[r].amount \in Amounts
                            /\ BookSale(r)
         /\ r \in Refunder => LET s == job[r].sale IN
              /\ job[r].kind = "refund" /\ s \in Seller /\ r \notin Seller
              /\ sale[s] \in {"COMPLETED", "REFUNDED"}
              /\ job[r].amount = job[s].amount /\ job[r].lines = job[s].lines
              /\ BookRefund(r)
         /\ r \in Stocker =>
              /\ r \notin Seller /\ job[r].kind \in StockKinds /\ job[r].amount \in Amounts
              /\ \E j \in StockJobs : job[r].kind = j.kind /\ job[r].lines = j.lines
              /\ UNCHANGED << sale, receipt >>
              /\ job[r].kind = "purchase" => BookPurchase(r)
              /\ job[r].kind # "purchase" => UNCHANGED cash
<1>1. pc[r] = "open" /\ pc' = [pc EXCEPT ![r] = "done"] /\ UNCHANGED job /\ Book(r)
  BY DEF Commit
<1>2. ASSUME r \in Seller
      PROVE  /\ job[r].kind = "sale" /\ sale[r] = "none"
             /\ job[r].lines \in Carts /\ job[r].amount \in Amounts /\ BookSale(r)
  BY <1>1, <1>2 DEF StockInv, JobOK, Book
<1>3. ASSUME r \in Refunder
      PROVE  /\ job[r].kind = "refund" /\ job[r].sale \in Seller /\ r \notin Seller
             /\ sale[job[r].sale] \in {"COMPLETED", "REFUNDED"}
             /\ job[r].amount = job[job[r].sale].amount /\ job[r].lines = job[job[r].sale].lines
             /\ BookRefund(r)
  BY <1>1, <1>3, DisjointNames DEF StockInv, TypeOK, JobOK, Book
<1>4. ASSUME r \in Stocker
      PROVE  /\ r \notin Seller /\ job[r].kind \in StockKinds /\ job[r].amount \in Amounts
             /\ \E j \in StockJobs : job[r].kind = j.kind /\ job[r].lines = j.lines
             /\ UNCHANGED << sale, receipt >>
             /\ job[r].kind = "purchase" => BookPurchase(r)
             /\ job[r].kind # "purchase" => UNCHANGED cash
  <2>1. /\ job[r].amount \in Amounts
        /\ \E j \in StockJobs : job[r].kind = j.kind /\ job[r].lines = j.lines
    BY <1>1, <1>4 DEF StockInv, JobOK
  <2>2. r \notin Seller /\ job[r].kind \in StockKinds
    BY <1>4, <2>1, DisjointNames, Inputs
  <2> QED BY <1>1, <2>1, <2>2 DEF Book, BookPurchase, StockKinds
<1> QED BY <1>1, <1>2, <1>3, <1>4

(* While the refunds of a sale stay apart, it is paid back exactly once:   *)
(* the check of AskRefund then still holds when the refund commits.        *)
LEMMA PaidStep ==
  ASSUME StockInv, BooksAgree, PaidOnce, RefundsApart, [Next]_vars
  PROVE  PaidOnce'
<1>1. ASSUME NEW r \in Req, Arrive(r) PROVE PaidOnce'
  <2>1. /\ UNCHANGED committed /\ pc[r] = "idle" /\ pc'[r] \notin {"idle", "done"}
        /\ \A q \in Req \ {r} : pc'[q] = pc[q] /\ job'[q] = job[q]
    BY <1>1, Arrival DEF StockInv
  <2>2. \A s \in Seller : sale[s] # "none" => s \in Req \ {r} /\ job'[s] = job[s]
    BY <2>1 DEF StockInv, JobOK, Req
  <2>3. ASSUME r \in Refunder, pc'[r] \in {"checked", "open"}
        PROVE  sale[job'[r].sale] = "COMPLETED"
    <3>1. AskRefund(r) /\ r \in Req
      BY <1>1, <2>3, DisjointNames DEF Arrive, Req
    <3>2. PICK s \in Seller :
            /\ sale[s] # "none"
            /\ job' = [job EXCEPT ![r] = [job[s] EXCEPT !.kind = "refund"]]
            /\ pc' = [pc EXCEPT ![r] = IF sale[s] = "REFUNDED" THEN "failed" ELSE "checked"]
      BY <3>1 DEF AskRefund
    <3>3. job[s] \in Job /\ job[s].sale = s
      BY <3>2 DEF StockInv, TypeOK, JobOK, Req
    <3>4. job'[r].sale = s
      BY <3>1, <3>2, <3>3 DEF Job, StockInv, TypeOK
    <3>5. sale[s] # "REFUNDED"
      BY <2>3, <3>1, <3>2 DEF StockInv, TypeOK
    <3> QED BY <3>2, <3>4, <3>5 DEF StockInv, TypeOK
  <2>4. \A p \in Refunder : pc'[p] \in {"checked", "open"} => sale'[job'[p].sale] = "COMPLETED"
    BY <2>1, <2>3 DEF PaidOnce, committed, Req
  <2>5. \A s \in Seller : sale'[s] = "REFUNDED" => cash'[s].REFUND = job'[s].amount
    BY <2>1, <2>2 DEF PaidOnce, committed
  <2>6. \A p \in Stocker : pc'[p] # "done" => cash'[p].PURCHASE = 0
    BY <2>1 DEF PaidOnce, committed, Req
  <2> QED BY <2>4, <2>5, <2>6 DEF PaidOnce
<1>2. CASE Elsewhere
  <2>1. \A p \in Refunder : pc'[p] \in {"checked", "open"} => pc[p] \in {"checked", "open"}
    BY <1>2 DEF Elsewhere, Req
  <2>2. \A p \in Stocker : pc'[p] # "done" => pc[p] # "done"
    BY <1>2, DisjointNames DEF Elsewhere, Req
  <2> QED BY <1>2, <2>1, <2>2 DEF Elsewhere, committed, PaidOnce
<1>3. ASSUME NEW r \in Req, Commit(r) PROVE PaidOnce'
  <2>1. /\ pc'[r] = "done" /\ UNCHANGED job
        /\ \A q \in Req \ {r} : pc'[q] = pc[q]
    BY <1>3, Booked DEF StockInv, TypeOK
  <2>2. CASE r \in Seller
    <3>1. BookSale(r)
      BY <1>3, <2>2, Booked
    <3>2. /\ sale'[r] = "COMPLETED" /\ \A s \in Seller \ {r} : sale'[s] = sale[s]
          /\ \A q \in (Seller \cup Stocker) \ {r} : cash'[q] = cash[q]
      BY <2>2, <3>1 DEF BookSale, StockInv, TypeOK
    <3>3. \A p \in Refunder : /\ p \in Req \ {r}
                              /\ pc[p] \in {"checked", "open"} => job[p].sale \in Seller
      BY <2>2, DisjointNames DEF Req, StockInv, JobOK
    <3>4. \A p \in Stocker : p \in Req \ {r}
      BY <2>2, DisjointNames DEF Req
    <3>5. \A p \in Refunder : pc'[p] \in {"checked", "open"} => sale'[job'[p].sale] = "COMPLETED"
      BY <2>1, <3>2, <3>3 DEF PaidOnce
    <3>6. \A s \in Seller : sale'[s] = "REFUNDED" => cash'[s].REFUND = job'[s].amount
      BY <2>1, <3>2 DEF PaidOnce
    <3>7. \A p \in Stocker : pc'[p] # "done" => cash'[p].PURCHASE = 0
      BY <2>1, <3>2, <3>4 DEF PaidOnce
    <3> QED BY <3>5, <3>6, <3>7 DEF PaidOnce
  <2>3. CASE r \in Refunder
    <3> DEFINE s == job[r].sale
    <3>1. /\ s \in Seller /\ job[r].amount = job[s].amount /\ BookRefund(r) /\ pc[r] = "open"
      BY <1>3, <2>3, Booked
    <3>2. sale[s] = "COMPLETED"
      BY <2>3, <3>1 DEF PaidOnce
    <3> HIDE DEF s
    <3>3. cash[s].REFUND = 0 /\ job[s].amount \in Nat
      BY <3>1, <3>2 DEF BooksAgree, BooksOf, NoEntries, StockInv, TypeOK, Job, Req
    <3>4. /\ sale' = [sale EXCEPT ![s] = "REFUNDED"]
          /\ cash' = [cash EXCEPT ![s].REFUND = @ + job[s].amount]
      BY <3>1 DEF BookRefund, s
    <3>5. cash'[s] = [cash[s] EXCEPT !.REFUND = @ + job[s].amount]
      BY <3>1, <3>4 DEF StockInv, TypeOK
    <3>6. cash'[s].REFUND = job[s].amount
      BY <3>1, <3>3, <3>5 DEF StockInv, TypeOK, Entries
    <3>7. /\ \A p \in Seller \ {s} : sale'[p] = sale[p]
          /\ \A q \in (Seller \cup Stocker) \ {s} : cash'[q] = cash[q]
      BY <3>4 DEF StockInv, TypeOK
    <3>8. ASSUME NEW p \in Refunder, pc'[p] \in {"checked", "open"}
          PROVE  sale'[job[p].sale] = "COMPLETED"
      <4>1. p # r /\ p \in Req
        BY <2>1, <3>8 DEF Req
      <4>2. pc[p] \in {"checked", "open"} /\ job[p].sale # s
        BY <2>1, <2>3, <3>1, <3>8, <4>1 DEF RefundsApart, s
      <4>3. job[p].sale \in Seller /\ sale[job[p].sale] = "COMPLETED"
        BY <4>2 DEF PaidOnce, StockInv, JobOK
      <4> QED BY <3>7, <4>2, <4>3
    <3>9. \A p \in Stocker : p \in Req \ {r} /\ p # s
      BY <2>3, <3>1, DisjointNames DEF Req
    <3> QED BY <2>1, <3>6, <3>7, <3>8, <3>9 DEF PaidOnce
  <2>4. CASE r \in Stocker
    <3>1. /\ UNCHANGED sale
          /\ cash' = cash \/ cash' = [cash EXCEPT ![r].PURCHASE = @ + job[r].amount]
      BY <1>3, <2>4, Booked DEF BookPurchase
    <3>2. \A q \in (Seller \cup Stocker) \ {r} : cash'[q] = cash[q]
      BY <3>1 DEF StockInv, TypeOK
    <3>3. \A p \in Seller \cup Refunder : p # r
      BY <2>4, DisjointNames
    <3> QED BY <2>1, <3>1, <3>2, <3>3 DEF PaidOnce, Req
  <2> QED BY <2>2, <2>3, <2>4 DEF Req
<1>4. ASSUME NEW s \in Seller, VoidReceipt(s) PROVE PaidOnce'
  BY <1>4 DEF VoidReceipt, PaidOnce
<1> QED BY <1>1, <1>2, <1>3, <1>4, StepKinds DEF StockInv

(* AtomicCommerce adds up as Commerce does. *)
LEMMA SameSums ==
  \A lines, x, old : /\ Atomic!Units(lines, x) = Units(lines, x)
                     /\ Atomic!LastSet(lines, x, old) = LastSet(lines, x, old)
BY DEF Atomic!Units, Units, Atomic!Moves, Moves, Atomic!SumFunctionOnSet, SumFunctionOnSet,
       Atomic!LastSet, LastSet, Atomic!Names, Names, Atomic!FoldFunctionOnSet, FoldFunctionOnSet,
       Atomic!MapThenFoldSet, MapThenFoldSet

(* A step that commits nothing and keeps the jobs of committed sales is    *)
(* none of AtomicCommerce.                                                 *)
LEMMA AtomicStutter ==
  ASSUME UNCHANGED committed, \A s \in Seller : sale[s] # "none" => job'[s] = job[s]
  PROVE  UNCHANGED Atomic!vars
<1>1. Bill' = Bill
  BY DEF committed, Bill
<1> QED BY <1>1 DEF Atomic!vars, committed

(* A commit is one atomic operation. *)
LEMMA AtomicCommit ==
  ASSUME StockInv, StockInv', WorkInv, BooksAgree, PaidOnce, NEW r \in Req, Commit(r)
  PROVE  Atomic!Next
<1> DEFINE lines == job[r].lines
           a == job[r].amount
           kind == job[r].kind
           d == [x \in Row |-> Effect(kind, Units(lines, x))]
<1>1. /\ pc[r] = "open" /\ UNCHANGED job /\ job[r] \in Job /\ lines \in Seq(Line)
      /\ a \in Nat
  BY Booked DEF StockInv, TypeOK, Job
<1>2. /\ ledger' = [x \in Row |-> ledger[x] + d[x]]
      /\ kind # "set" => stock' = [x \in Row |-> stock[x] + d[x]]
      /\ kind = "set" => stock' = [x \in Row |-> LastSet(lines, x, stock[x])]
  BY CommitEffect
<1>3. \A x \in Row : Units(lines, x) \in Int
  BY <1>1, UnitsSum
<1>4. kind # "set" => Atomic!Move(d)
  <2> HIDE DEF d, kind
  <2>1. ASSUME kind # "set", NEW x \in Row PROVE stock[x] + d[x] \in 0..MaxQty
    <3>1. stock'[x] = stock[x] + d[x] /\ stock'[x] \in 0..MaxQty
      BY <1>2, <2>1 DEF StockInv, StockInRange
    <3> QED BY <3>1
  <2> QED BY <1>2, <2>1 DEF Atomic!Move
<1>5. CASE r \in Seller
  <2>1. /\ kind = "sale" /\ sale[r] = "none" /\ lines \in Carts /\ a \in Amounts /\ BookSale(r)
    BY <1>5, Booked
  <2>2. d = [x \in Row |-> -Units(lines, x)]
    BY <1>3, <2>1 DEF Effect
  <2>3. Bill[r] = Atomic!NoBill
    BY <1>5, <2>1 DEF Bill, Atomic!NoBill
  <2>4. Bill' = [Bill EXCEPT ![r] = [lines |-> lines, amount |-> a, status |-> "COMPLETED"]]
    BY <1>1, <1>5, <2>1 DEF Bill, BookSale, StockInv, TypeOK
  <2>5. cash[r].SALE = 0
    <3>1. cash[r] = NoEntries
      BY <1>5, <2>1 DEF BooksAgree, BooksOf
    <3> QED BY <3>1 DEF NoEntries
  <2>6. cash' = [cash EXCEPT ![r].SALE = a]
    <3>1. cash[r].SALE + a = a
      BY <1>1, <2>5
    <3> QED BY <2>1, <3>1 DEF BookSale
  <2>7. receipt' = [receipt EXCEPT ![r] = "ISSUED"]
    BY <2>1 DEF BookSale
  <2>8. Atomic!Sell(r, lines, a)
    <3>1. Atomic!Move([x \in Row |-> -Units(lines, x)])
      BY <1>4, <2>1, <2>2
    <3> HIDE DEF lines, a, kind, d
    <3> QED BY <2>3, <2>4, <2>6, <2>7, <3>1, SameSums DEF Atomic!Sell
  <2> HIDE DEF lines, a
  <2> QED BY <1>5, <2>1, <2>8 DEF Atomic!Next
<1>6. CASE r \in Refunder
  <2> DEFINE s == job[r].sale
  <2>1. /\ kind = "refund" /\ s \in Seller /\ a = job[s].amount /\ lines = job[s].lines
        /\ BookRefund(r)
    BY <1>6, Booked
  <2>2. sale[s] = "COMPLETED"
    BY <1>1, <1>6 DEF PaidOnce
  <2>3. d = [x \in Row |-> Units(lines, x)]
    BY <1>3, <2>1 DEF Effect
  <2>4. Bill[s] = [lines |-> lines, amount |-> a, status |-> "COMPLETED"]
    BY <2>1, <2>2 DEF Bill
  <2>5. Bill' = [Bill EXCEPT ![s].status = "REFUNDED"]
    BY <1>1, <2>1, <2>2 DEF Bill, BookRefund, StockInv, TypeOK
  <2>6. cash[s].REFUND = 0
    BY <2>1, <2>2 DEF BooksAgree, BooksOf, NoEntries
  <2>7. cash' = [cash EXCEPT ![s].REFUND = a] /\ receipt' = [receipt EXCEPT ![s] = "VOIDED"]
    <3>1. cash[s].REFUND + a = a
      BY <1>1, <2>6
    <3> QED BY <2>1, <3>1 DEF BookRefund
  <2>8. Atomic!Refund(s)
    <3>1. Atomic!Move([x \in Row |-> Units(lines, x)])
      BY <1>4, <2>1, <2>3
    <3> HIDE DEF lines, a, kind, d, s
    <3>2. /\ Bill[s].status = "COMPLETED" /\ Bill[s].amount = a /\ Bill[s].lines = lines
      BY <2>4
    <3> QED BY <2>5, <2>7, <3>1, <3>2, SameSums DEF Atomic!Refund
  <2> HIDE DEF s
  <2> QED BY <2>1, <2>8 DEF Atomic!Next
<1>7. CASE r \in Stocker
  <2>1. /\ kind \in StockKinds /\ a \in Amounts /\ r \notin Seller
        /\ UNCHANGED << sale, receipt >>
        /\ kind = "purchase" => BookPurchase(r)
        /\ kind # "purchase" => UNCHANGED cash
    BY <1>7, Booked
  <2>2. PICK j \in StockJobs : kind = j.kind /\ lines = j.lines
    BY <1>7, Booked
  <2>3. Bill' = Bill
    BY <1>1, <2>1 DEF Bill
  <2>4. kind # "set" => Atomic!Move([x \in Row |-> Units(lines, x)])
    <3>1. kind # "set" => d = [x \in Row |-> Units(lines, x)]
      BY <1>3, <2>1 DEF Effect, StockKinds
    <3> HIDE DEF d, lines, kind
    <3> QED BY <1>4, <3>1
  <2>5. CASE kind = "purchase"
    <3>1. cash[r].PURCHASE = 0
      BY <1>1, <1>7 DEF PaidOnce
    <3>2. cash' = [cash EXCEPT ![r].PURCHASE = a]
      <4>1. cash[r].PURCHASE + a = a
        BY <1>1, <3>1
      <4> QED BY <2>1, <2>5, <4>1 DEF BookPurchase
    <3>3. Atomic!Receive(r, lines, a)
      <4> HIDE DEF lines, a, kind
      <4> QED BY <2>1, <2>3, <2>4, <2>5, <3>2, SameSums DEF Atomic!Receive
    <3> HIDE DEF lines, a, kind
    <3> QED BY <1>7, <2>1, <2>2, <2>5, <3>3 DEF Atomic!Next
  <2>6. CASE kind = "adjust"
    <3>1. Atomic!Adjust(lines)
      <4> HIDE DEF lines, kind
      <4> QED BY <2>1, <2>3, <2>4, <2>6, SameSums DEF Atomic!Adjust
    <3> HIDE DEF lines, kind
    <3> QED BY <2>2, <2>6, <3>1 DEF Atomic!Next
  <2>7. CASE kind = "set"
    <3>1. UNCHANGED ledger
      <4>1. \A x \in Row : d[x] = 0 /\ ledger[x] \in Int
        BY <2>7 DEF Effect, StockInv, TypeOK
      <4>2. \A x \in Row : ledger[x] + d[x] = ledger[x]
        <5> HIDE DEF d
        <5> QED BY <4>1
      <4> HIDE DEF d
      <4> QED BY <1>2, <4>2 DEF StockInv, TypeOK
    <3>2. Atomic!SetStock(lines)
      <4> HIDE DEF lines, kind, d
      <4> QED BY <1>2, <2>1, <2>3, <2>7, <3>1, SameSums DEF Atomic!SetStock
    <3> HIDE DEF lines, kind
    <3> QED BY <2>2, <2>7, <3>2 DEF Atomic!Next
  <2> QED BY <2>1, <2>5, <2>6, <2>7 DEF StockKinds
<1> QED BY <1>5, <1>6, <1>7 DEF Req

(* Every step is an atomic operation or none. *)
LEMMA AtomicStep ==
  ASSUME StockInv, StockInv', WorkInv, BooksAgree, PaidOnce, [Next]_vars
  PROVE  Atomic!Next \/ UNCHANGED Atomic!vars
<1>1. ASSUME NEW r \in Req, Arrive(r) PROVE UNCHANGED Atomic!vars
  <2>1. /\ UNCHANGED committed /\ pc[r] = "idle"
        /\ \A q \in Req \ {r} : job'[q] = job[q]
    BY <1>1, Arrival DEF StockInv
  <2>2. \A s \in Seller : sale[s] # "none" => job'[s] = job[s]
    BY <2>1 DEF StockInv, JobOK, Req
  <2> QED BY <2>1, <2>2, AtomicStutter
<1>2. CASE Elsewhere
  BY <1>2, AtomicStutter DEF Elsewhere
<1>3. ASSUME NEW s \in Seller, VoidReceipt(s) PROVE Atomic!Next
  <2>1. Bill' = Bill
    BY <1>3 DEF VoidReceipt, Bill
  <2> QED BY <1>3, <2>1 DEF VoidReceipt, Atomic!Next, Atomic!VoidReceipt
<1> QED BY <1>1, <1>2, <1>3, AtomicCommit, StepKinds DEF StockInv

-------------------------------------------------------------------------------
(* Stock, completed sales and finished corrections *)

(* What the requests of R that are in S move of x, and is an integer. *)
Total(R, S, x) == SumFunctionOnSet([r \in R |-> Units(job[r].lines, x)], S)
Stocked == {r \in Stocker : pc[r] = "done"}
Sold == {s \in Seller : sale[s] = "COMPLETED"}

(* Requests are finitely many, and the totals of any of them are integers. *)
LEMMA TotalType ==
  ASSUME TypeOK, NEW R \in SUBSET Req, NEW S \in SUBSET R, NEW x
  PROVE  /\ IsFiniteSet(S) /\ Total(R, S, x) \in Int
         /\ \A r \in R : Units(job[r].lines, x) \in Int
<1>1. IsFiniteSet(S)
  BY FiniteRequests, FS_Subset
<1>2. \A r \in R : Units(job[r].lines, x) \in Int
  BY UnitsSum DEF TypeOK, Job
<1> DEFINE f == [r \in R |-> Units(job[r].lines, x)]
<1>3. \A r \in S : f[r] \in Int
  BY <1>2
<1>4. SumFunctionOnSet(f, S) \in Int
  <2> HIDE DEF f
  <2> QED BY <1>1, <1>3, SumType
<1> QED BY <1>1, <1>2, <1>4 DEF Total

(* A total keeps its value while its requests keep their jobs. *)
LEMMA TotalSame ==
  ASSUME TypeOK, NEW R \in SUBSET Req, NEW S \in SUBSET R, NEW x,
         \A r \in S : job'[r] = job[r]
  PROVE  Total(R, S, x)' = Total(R, S, x)
<1> DEFINE f == [r \in R |-> Units(job[r].lines, x)]
           g == [r \in R |-> Units(job'[r].lines, x)]
<1>1. \A r \in S : f[r] = g[r]
  OBVIOUS
<1>2. SumFunctionOnSet(f, S) = SumFunctionOnSet(g, S)
  <2> HIDE DEF f, g
  <2> QED BY <1>1, TotalType, SumSame
<1> QED BY <1>2 DEF Total

(* It grows and shrinks by the units of the request that joins or leaves.  *)
LEMMA TotalMoves ==
  ASSUME TypeOK, NEW R \in SUBSET Req, NEW S \in SUBSET R, NEW x, NEW r \in R
  PROVE  /\ r \notin S => Total(R, S \cup {r}, x) = Total(R, S, x) + Units(job[r].lines, x)
         /\ r \in S => Total(R, S \ {r}, x) = Total(R, S, x) - Units(job[r].lines, x)
<1> DEFINE f == [q \in R |-> Units(job[q].lines, x)]
<1>1. IsFiniteSet(S) /\ \A q \in R : f[q] \in Int
  BY TotalType
<1>2. f[r] = Units(job[r].lines, x)
  OBVIOUS
<1> HIDE DEF f
<1>3. r \notin S => SumFunctionOnSet(f, S \cup {r}) = SumFunctionOnSet(f, S) + f[r]
  BY <1>1, SumGrows
<1>4. r \in S => SumFunctionOnSet(f, S \ {r}) = SumFunctionOnSet(f, S) - f[r]
  BY <1>1, SumShrinks
<1> QED BY <1>2, <1>3, <1>4 DEF Total, f

(* Every commit moves the stock and the account together. *)
LEMMA AccountStep ==
  ASSUME NoOverwrites, StockInv, WorkInv, PaidOnce, StockAccountsForSales, [Next]_vars
  PROVE  StockAccountsForSales'
<1> DEFINE Account(x) == OpeningStock[x] + Total(Stocker, Stocked, x) - Total(Seller, Sold, x)
<1>1. \A x \in Row : /\ OpeningStock[x] \in Int /\ stock[x] = Account(x)
                     /\ Total(Stocker, Stocked, x) \in Int /\ Total(Seller, Sold, x) \in Int
  <2>1. /\ Stocker \in SUBSET Req /\ Seller \in SUBSET Req /\ TypeOK
        /\ Stocked \in SUBSET Stocker /\ Sold \in SUBSET Seller
    BY DEF Req, StockInv, Stocked, Sold
  <2>2. \A x \in Row : stock[x] = Account(x)
    BY DEF StockAccountsForSales, Total, Stocked, Sold
  <2>3. \A x \in Row : Total(Stocker, Stocked, x) \in Int /\ Total(Seller, Sold, x) \in Int
    BY <2>1, TotalType
  <2>4. \A x \in Row : OpeningStock[x] \in Int
    BY Limits
  <2> QED BY <2>2, <2>3, <2>4
<1>2. SUFFICES ASSUME NEW x \in Row PROVE stock'[x] = Account(x)'
  BY DEF StockAccountsForSales, Total, Stocked, Sold
<1> DEFINE in == Total(Stocker, Stocked, x)
           out == Total(Seller, Sold, x)
<1>3. /\ Stocker \in SUBSET Req /\ Stocked \in SUBSET Stocker
      /\ Seller \in SUBSET Req /\ Sold \in SUBSET Seller
  BY DEF Req, Stocked, Sold
<1>4. ASSUME UNCHANGED stock, Stocked' = Stocked, Sold' = Sold,
             \A r \in Stocked \cup Sold : job'[r] = job[r]
      PROVE  stock'[x] = Account(x)'
  <2>1. Total(Stocker, Stocked, x)' = in /\ Total(Seller, Sold, x)' = out
    <3>1. TypeOK
      BY DEF StockInv
    <3>2. \A R \in SUBSET Req : \A S \in SUBSET R :
            (\A r \in S : job'[r] = job[r]) =>
              SumFunctionOnSet([r \in R |-> Units(job'[r].lines, x)], S) = Total(R, S, x)
      BY <3>1, TotalSame DEF Total
    <3> QED BY <1>3, <1>4, <3>2 DEF Total
  <2> QED BY <1>1, <1>4, <2>1
<1>5. ASSUME NEW r \in Req, Arrive(r) PROVE stock'[x] = Account(x)'
  <2>1. /\ UNCHANGED committed /\ pc[r] = "idle" /\ pc'[r] # "done"
        /\ \A q \in Req \ {r} : pc'[q] = pc[q] /\ job'[q] = job[q]
    BY <1>5, Arrival DEF StockInv
  <2>2. r \notin Stocked \cup Sold
    BY <2>1 DEF Stocked, Sold, StockInv, JobOK
  <2>3. Stocked' = Stocked /\ Sold' = Sold
    BY <2>1 DEF Stocked, Sold, committed, Req
  <2> QED BY <1>3, <1>4, <2>1, <2>2, <2>3 DEF committed
<1>6. CASE Elsewhere
  <2>1. Stocked' = Stocked /\ Sold' = Sold
    BY <1>6, DisjointNames DEF Elsewhere, Stocked, Sold, committed, Req
  <2> QED BY <1>4, <1>6, <2>1 DEF Elsewhere, committed
<1>7. ASSUME NEW r \in Req, Commit(r) PROVE stock'[x] = Account(x)'
  <2> DEFINE u == Units(job[r].lines, x)
  <2>1. /\ pc[r] = "open" /\ UNCHANGED job /\ pc'[r] = "done"
        /\ \A q \in Req \ {r} : pc'[q] = pc[q]
    BY <1>7, Booked DEF StockInv, TypeOK
  <2>2. u \in Int /\ TypeOK
    BY UnitsSum DEF StockInv, TypeOK, Job
  <2>3. job[r].kind # "set" => stock'[x] = stock[x] + Effect(job[r].kind, u)
    BY <1>7, CommitEffect
  <2>4. /\ Total(Stocker, Stocked, x)' = Total(Stocker, Stocked', x)
        /\ Total(Seller, Sold, x)' = Total(Seller, Sold', x)
    BY <2>1 DEF Total
  <2> HIDE DEF u
  <2>5. CASE r \in Seller
    <3>1. job[r].kind = "sale" /\ sale[r] = "none" /\ BookSale(r)
      BY <1>7, <2>5, Booked
    <3>2. Sold' = Sold \cup {r} /\ r \notin Sold
      BY <2>5, <3>1 DEF Sold, BookSale, StockInv, TypeOK
    <3>3. Stocked' = Stocked
      BY <2>1, <2>5, DisjointNames DEF Stocked, Req
    <3>4. Total(Seller, Sold', x) = out + u
      BY <1>3, <2>2, <2>5, <3>2, TotalMoves DEF u
    <3>5. stock'[x] = stock[x] + (0 - u)
      BY <2>3, <3>1 DEF Effect
    <3> HIDE DEF in, out
    <3> QED BY <1>1, <2>2, <2>4, <3>3, <3>4, <3>5 DEF in, out
  <2>6. CASE r \in Refunder
    <3> DEFINE s == job[r].sale
    <3>1. /\ job[r].kind = "refund" /\ s \in Seller /\ u = Units(job[s].lines, x)
          /\ BookRefund(r) /\ sale[s] = "COMPLETED"
      BY <1>7, <2>1, <2>6, Booked DEF PaidOnce, u
    <3>2. Sold' = Sold \ {s} /\ s \in Sold
      BY <3>1 DEF Sold, BookRefund, StockInv, TypeOK
    <3> HIDE DEF s
    <3>3. Stocked' = Stocked
      BY <2>1, <2>6, DisjointNames DEF Stocked, Req
    <3>4. Total(Seller, Sold', x) = out - u
      BY <1>3, <2>2, <3>1, <3>2, TotalMoves
    <3>5. stock'[x] = stock[x] + u
      BY <2>3, <3>1 DEF Effect
    <3> QED BY <1>1, <2>2, <2>4, <3>3, <3>4, <3>5
  <2>7. CASE r \in Stocker
    <3>1. job[r].kind \in StockKinds \ {"set"} /\ UNCHANGED sale
      BY <1>7, <2>7, Booked, NoOverwrites DEF NoOverwrites
    <3>2. Stocked' = Stocked \cup {r} /\ r \notin Stocked
      BY <2>1, <2>7 DEF Stocked, Req
    <3>3. Sold' = Sold
      BY <3>1 DEF Sold
    <3>4. Total(Stocker, Stocked', x) = in + u
      BY <1>3, <2>2, <2>7, <3>2, TotalMoves DEF u
    <3>5. stock'[x] = stock[x] + u
      BY <2>3, <3>1 DEF Effect, StockKinds
    <3> QED BY <1>1, <2>2, <2>4, <3>3, <3>4, <3>5
  <2> QED BY <2>5, <2>6, <2>7 DEF Req
<1>8. ASSUME NEW s \in Seller, VoidReceipt(s) PROVE stock'[x] = Account(x)'
  <2>1. Stocked' = Stocked /\ Sold' = Sold
    BY <1>8 DEF VoidReceipt, Stocked, Sold
  <2> QED BY <1>4, <1>8, <2>1 DEF VoidReceipt
<1> QED BY <1>5, <1>6, <1>7, <1>8, StepKinds DEF StockInv

-------------------------------------------------------------------------------
(* Theorems *)

(* The inductive invariant of the stock holds in every reachable state.    *)
THEOREM StockInvariant == Spec => []StockInv
<1>1. Init => StockInv
  BY InitStock
<1>2. StockInv /\ [Next]_vars => StockInv'
  BY NextStock
<1> QED BY <1>1, <1>2, PTL DEF Spec

(* An open transaction has done, logged and locked what the lines before   *)
(* its next one say, whatever the others commit meanwhile.                 *)
THEOREM WorkInvariant == Spec => []WorkInv
<1>1. Init => WorkInv
  BY DisjointNames DEF Init, WorkInv, LogOK, ProgressOK, Progressed, NoTx, Req
<1>2. StockInv /\ WorkInv /\ [Next]_vars => WorkInv'
  BY NextWork
<1> QED BY <1>1, <1>2, StockInvariant, PTL DEF Spec

(* Every variable keeps its type. *)
THEOREM TypeCorrect == Spec => []TypeOK
<1>1. StockInv => TypeOK
  BY DEF StockInv
<1> QED BY <1>1, StockInvariant, PTL

(* No interleaving of sales, refunds, purchases and corrections, for any   *)
(* number of them, sells what is not there or overflows a quantity.        *)
THEOREM NoOversell == Spec => []StockInRange
<1>1. StockInv => StockInRange
  BY DEF StockInv
<1> QED BY <1>1, StockInvariant, PTL

(* Without absolute updates the audit trail adds up to the stock, whatever *)
(* commits, conflicts, expires or is refunded twice.                       *)
THEOREM AuditTrail == ASSUME NoOverwrites PROVE Spec => []LedgerExplainsStock
<1>1. Init => LedgerExplainsStock
  BY Limits DEF Init, LedgerExplainsStock
<1>2. StockInv /\ WorkInv /\ LedgerExplainsStock /\ [Next]_vars => LedgerExplainsStock'
  BY NextLedger
<1> QED BY <1>1, <1>2, StockInvariant, WorkInvariant, PTL DEF Spec

(* Sale, cash flow and receipt agree in every reachable state. *)
THEOREM BooksCorrect == Spec => []BooksAgree
<1>1. Init => BooksAgree
  BY DEF Init, BooksAgree, BooksOf
<1>2. StockInv /\ BooksAgree /\ [Next]_vars => BooksAgree'
  BY NextBooks
<1> QED BY <1>1, <1>2, StockInvariant, PTL DEF Spec

(* 'Already refunded' holds as long as no two refunds of one sale are in   *)
(* flight at once: each then pays the sale back exactly once.              *)
THEOREM PaidBackOnce == Spec /\ []RefundsApart => []PaidOnce
<1>1. Init => PaidOnce
  BY DisjointNames DEF Init, PaidOnce, Req, NoEntries
<1>2. StockInv /\ BooksAgree /\ PaidOnce /\ RefundsApart /\ [Next]_vars => PaidOnce'
  BY PaidStep
<1> QED BY <1>1, <1>2, StockInvariant, BooksCorrect, PTL DEF Spec

(* So no sale is refunded more than its amount: the run refund_race finds  *)
(* the excess where two refunds of one sale overlap.                       *)
THEOREM NoDoubleRefund == Spec /\ []RefundsApart => []RefundedOnce
<1>1. TypeOK /\ BooksAgree /\ PaidOnce => RefundedOnce
  <2> SUFFICES ASSUME TypeOK, BooksAgree, PaidOnce, NEW s \in Seller
               PROVE  cash[s].REFUND <= job[s].amount
    BY DEF RefundedOnce
  <2>1. job[s].amount \in Nat /\ sale[s] \in {"none", "COMPLETED", "REFUNDED"}
    BY DEF TypeOK, Job, Req
  <2>2. CASE sale[s] = "none"
    <3>1. cash[s] = NoEntries
      BY <2>2 DEF BooksAgree, BooksOf
    <3> QED BY <2>1, <3>1 DEF NoEntries
  <2>3. CASE sale[s] = "COMPLETED"
    <3>1. cash[s] = [NoEntries EXCEPT !.SALE = job[s].amount]
      BY <2>3 DEF BooksAgree, BooksOf
    <3> QED BY <2>1, <3>1 DEF NoEntries
  <2>4. CASE sale[s] = "REFUNDED"
    BY <2>1, <2>4 DEF PaidOnce
  <2> QED BY <2>1, <2>2, <2>3, <2>4
<1> QED BY <1>1, TypeCorrect, BooksCorrect, PaidBackOnce, PTL

(* The transactions of createSale, refundSale, createPurchase and of the   *)
(* stock corrections are atomic: to the callers they are the operations of *)
(* AtomicCommerce, whatever the isolation levels, conflicts and retries.   *)
THEOREM Refinement == Spec /\ []RefundsApart => AtomicSpec
<1>1. Init => Atomic!Init
  BY DEF Init, Atomic!Init, Bill, Atomic!NoBill, NoEntries, Atomic!NoEntries
<1>2. StockInv /\ StockInv' /\ WorkInv /\ BooksAgree /\ PaidOnce /\ [Next]_vars
        => [Atomic!Next]_(Atomic!vars)
  BY AtomicStep
<1> QED BY <1>1, <1>2, StockInvariant, WorkInvariant, BooksCorrect, PaidBackOnce, PTL
        DEF Spec, AtomicSpec, Atomic!Spec

(* Without absolute updates, what left the shelf is exactly what completed *)
(* sales hold, and what came in is what committed purchases and            *)
(* corrections moved: no update is lost, none is kept by a rollback.       *)
THEOREM NothingLost ==
  ASSUME NoOverwrites
  PROVE  Spec /\ []RefundsApart => []StockAccountsForSales
<1>1. Init => StockAccountsForSales
  <2> SUFFICES ASSUME Init PROVE StockAccountsForSales
    OBVIOUS
  <2>1. {r \in Stocker : pc[r] = "done"} = {} /\ {s \in Seller : sale[s] = "COMPLETED"} = {}
    BY DEF Init, Req
  <2>2. \A x \in Row : stock[x] = OpeningStock[x] /\ OpeningStock[x] + 0 - 0 = OpeningStock[x]
    BY Limits DEF Init
  <2> QED BY <2>1, <2>2, SumEmpty DEF StockAccountsForSales
<1>2. StockInv /\ WorkInv /\ PaidOnce /\ StockAccountsForSales /\ [Next]_vars
        => StockAccountsForSales'
  BY AccountStep
<1> QED BY <1>1, <1>2, StockInvariant, WorkInvariant, PaidBackOnce, PTL DEF Spec

===============================================================================
