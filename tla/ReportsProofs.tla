----------------------------- MODULE ReportsProofs -----------------------------
(***************************************************************************)
(* The money tables and reports, for any writes, requests, shops and       *)
(* bounds: types; that a closed period does not change any more; that the  *)
(* summaries of the ledger agree; and that the figures of a report agree   *)
(* with each other and with the ledger, but for what is written while the  *)
(* report is built.                                                        *)
(***************************************************************************)
EXTENDS Reports, FiniteSetTheorems, WellFoundedInduction, TLAPS

---------------------------------------------------------------------------
\* Sums over finite sets.  They are recursive, and what they add up to is
\* shown by well-founded induction over the subsets of the set.

\* Induction over the subsets of a finite set: what holds of T whenever it
\* holds of the smaller subsets of T holds of all of them.
LEMMA SubsetInduction ==
  ASSUME NEW S, IsFiniteSet(S), NEW G,
         \A T \in SUBSET S : (\A U \in SUBSET T : U # T => U \in G) => T \in G
  PROVE  \A T \in SUBSET S : T \in G
<1> SUFFICES ASSUME ~ \A T \in SUBSET S : T \in G PROVE FALSE
  OBVIOUS
<1> DEFINE Bad == {T \in SUBSET S : T \notin G}
<1>1. IsWellFoundedOn(StrictSubsetOrdering(S), FiniteSubsetsOf(S))
  BY FS_StrictSubsetOrderingWellFounded
<1>2. FiniteSubsetsOf(S) = SUBSET S
  BY FS_FiniteSubsetsOfFinite
<1>3. Bad # {} /\ Bad \subseteq FiniteSubsetsOf(S)
  BY <1>2
<1> HIDE DEF Bad
<1>4. PICK T \in Bad : \A U \in Bad : ~(<<U, T>> \in StrictSubsetOrdering(S))
  BY <1>1, <1>3, WFMin
<1>5. \A U \in SUBSET T : U # T => U \in G
  BY <1>4 DEF Bad, StrictSubsetOrdering
<1> QED BY <1>4, <1>5 DEF Bad

\* The element that a fold over S takes first.
First(S) == CHOOSE x \in S : TRUE
\* h holds the sum of f over every subset of S.
SumTable(f, S, h) ==
  h = [T \in SUBSET S |-> IF T = {} THEN 0 ELSE f[First(T)] + h[T \ {First(T)}]]

\* The fold that SumFunctionOnSet stands for reads its result from such a
\* table.
LEMMA SumIsFold == \A f, S : SumFunctionOnSet(f, S) = (CHOOSE h : SumTable(f, S, h))[S]
BY DEF SumFunctionOnSet, FoldFunctionOnSet, MapThenFoldSet, SumTable, First

\* The element that the fold takes first is one of the set.
LEMMA FirstIn == \A T : T # {} => First(T) \in T
BY DEF First

\* Two tables agree wherever both are defined.
LEMMA TablesAgree ==
  ASSUME NEW f, NEW A, NEW B, NEW S, IsFiniteSet(S), S \subseteq A, S \subseteq B,
         NEW g, NEW h, SumTable(f, A, g), SumTable(f, B, h)
  PROVE  g[S] = h[S]
<1> DEFINE G == {T \in SUBSET S : g[T] = h[T]}
<1>1. ASSUME NEW T \in SUBSET S, \A U \in SUBSET T : U # T => U \in G
      PROVE  T \in G
  <2>1. T \in SUBSET A /\ T \in SUBSET B
    OBVIOUS
  <2>2. /\ g[T] = IF T = {} THEN 0 ELSE f[First(T)] + g[T \ {First(T)}]
        /\ h[T] = IF T = {} THEN 0 ELSE f[First(T)] + h[T \ {First(T)}]
    BY <2>1 DEF SumTable
  <2>3. CASE T # {}
    <3>1. T \ {First(T)} \in SUBSET T /\ T \ {First(T)} # T
      BY <2>3, FirstIn
    <3>2. g[T \ {First(T)}] = h[T \ {First(T)}]
      BY <1>1, <3>1
    <3> QED BY <2>2, <3>2
  <2> QED BY <2>2, <2>3
<1> HIDE DEF G
<1>2. \A T \in SUBSET S : T \in G
  BY <1>1, SubsetInduction
<1> QED BY <1>2 DEF G

\* An entry of a table.
LEMMA TableEntry ==
  ASSUME NEW f, NEW S, NEW h, SumTable(f, S, h), NEW T \in SUBSET S
  PROVE  h[T] = IF T = {} THEN 0 ELSE f[First(T)] + h[T \ {First(T)}]
BY DEF SumTable

\* Every finite set has a table: the entries of its strict subsets make up
\* the next one.
LEMMA TableExists ==
  ASSUME NEW f, NEW S, IsFiniteSet(S)
  PROVE  \E h : SumTable(f, S, h)
<1> DEFINE G == {T \in SUBSET S : \E h : SumTable(f, T, h)}
<1>1. ASSUME NEW T \in SUBSET S, \A U \in SUBSET T : U # T => U \in G
      PROVE  T \in G
  <2> DEFINE H(U) == CHOOSE h : SumTable(f, U, h)
             below(U) == IF U = {} THEN 0 ELSE f[First(U)] + H(U \ {First(U)})[U \ {First(U)}]
             h == [U \in SUBSET T |-> below(U)]
  <2>1. \A U \in SUBSET T : U # T => SumTable(f, U, H(U))
    BY <1>1
  <2>2. ASSUME NEW U \in SUBSET T, U # T PROVE h[U] = H(U)[U]
    <3>1. H(U)[U] = IF U = {} THEN 0 ELSE f[First(U)] + H(U)[U \ {First(U)}]
      <4>1. SumTable(f, U, H(U)) /\ U \in SUBSET U
        BY <2>1, <2>2
      <4> HIDE DEF H
      <4> QED BY <4>1, TableEntry
    <3>2. ASSUME U # {} PROVE H(U)[U \ {First(U)}] = H(U \ {First(U)})[U \ {First(U)}]
      <4> DEFINE V == U \ {First(U)}
      <4>1. V \in SUBSET T /\ V # T /\ V \in SUBSET U /\ V \in SUBSET S
        BY <2>2, <3>2, FirstIn
      <4>2. SumTable(f, V, H(V)) /\ SumTable(f, U, H(U)) /\ IsFiniteSet(V)
        BY <2>1, <2>2, <4>1, FS_Subset
      <4> HIDE DEF V, H
      <4>3. H(U)[V] = H(V)[V]
        BY <4>1, <4>2, TablesAgree
      <4> QED BY <4>3 DEF V
    <3> QED BY <3>1, <3>2
  <2>3. ASSUME NEW U \in SUBSET T, U # {}
        PROVE  h[U \ {First(U)}] = H(U \ {First(U)})[U \ {First(U)}]
    <3>1. U \ {First(U)} \in SUBSET T /\ U \ {First(U)} # T
      BY <2>3, FirstIn
    <3> HIDE DEF h, H
    <3> QED BY <2>2, <3>1
  <2>4. SumTable(f, T, h)
    <3> HIDE DEF H
    <3>1. h = [U \in SUBSET T |-> below(U)]
      OBVIOUS
    <3>2. \A U \in SUBSET T : below(U) = IF U = {} THEN 0 ELSE f[First(U)] + h[U \ {First(U)}]
      <4> HIDE DEF h
      <4> QED BY <2>3
    <3> HIDE DEF h, below
    <3> QED BY <3>1, <3>2 DEF SumTable
  <2> HIDE DEF h
  <2> QED BY <2>4
<1> HIDE DEF G
<1>2. \A T \in SUBSET S : T \in G
  BY <1>1, SubsetInduction
<1> QED BY <1>2 DEF G

\* A sum is its first element and the sum of the rest.
LEMMA SumUnfolds ==
  ASSUME NEW f, NEW S, IsFiniteSet(S)
  PROVE  SumFunctionOnSet(f, S) =
           IF S = {} THEN 0 ELSE f[First(S)] + SumFunctionOnSet(f, S \ {First(S)})
<1> DEFINE R == S \ {First(S)}
           g == CHOOSE h : SumTable(f, S, h)
           k == CHOOSE h : SumTable(f, R, h)
<1>1. IsFiniteSet(R) /\ R \in SUBSET S
  BY FS_Subset
<1>2. SumTable(f, S, g) /\ SumTable(f, R, k)
  BY <1>1, TableExists
<1>3. SumFunctionOnSet(f, S) = g[S] /\ SumFunctionOnSet(f, R) = k[R]
  BY SumIsFold
<1> HIDE DEF g, k
<1>4. g[R] = k[R]
  <2> HIDE DEF R
  <2> QED BY <1>1, <1>2, TablesAgree
<1>5. g[S] = IF S = {} THEN 0 ELSE f[First(S)] + g[R]
  BY <1>2 DEF SumTable
<1> QED BY <1>3, <1>4, <1>5

\* Nothing adds up to 0.
LEMMA SumEmpty == \A f : SumFunctionOnSet(f, {}) = 0
BY SumUnfolds, FS_EmptySet

\* Integers add up to an integer.
LEMMA SumType ==
  ASSUME NEW S, IsFiniteSet(S), NEW f, \A x \in S : f[x] \in Int
  PROVE  SumFunctionOnSet(f, S) \in Int
<1> DEFINE G == {T \in SUBSET S : SumFunctionOnSet(f, T) \in Int}
<1>1. ASSUME NEW T \in SUBSET S, \A U \in SUBSET T : U # T => U \in G
      PROVE  T \in G
  <2>1. IsFiniteSet(T)
    BY FS_Subset
  <2>2. CASE T # {}
    <3>1. First(T) \in S /\ T \ {First(T)} \in SUBSET T /\ T \ {First(T)} # T
      BY <2>2, FirstIn
    <3>2. SumFunctionOnSet(f, T \ {First(T)}) \in Int
      BY <1>1, <3>1
    <3>3. SumFunctionOnSet(f, T) = f[First(T)] + SumFunctionOnSet(f, T \ {First(T)})
      BY <2>1, <2>2, SumUnfolds
    <3> QED BY <3>1, <3>2, <3>3
  <2> QED BY <2>2, SumEmpty
<1> HIDE DEF G
<1>2. \A T \in SUBSET S : T \in G
  BY <1>1, SubsetInduction
<1> QED BY <1>2 DEF G

\* Any element may be taken out first: the order of the fold is of no
\* account.
LEMMA SumRemove ==
  ASSUME NEW S, IsFiniteSet(S), NEW f, \A x \in S : f[x] \in Int, NEW y \in S
  PROVE  SumFunctionOnSet(f, S) = SumFunctionOnSet(f, S \ {y}) + f[y]
<1> DEFINE G == {T \in SUBSET S :
                   \A x \in T : SumFunctionOnSet(f, T) = SumFunctionOnSet(f, T \ {x}) + f[x]}
<1>1. ASSUME NEW T \in SUBSET S, \A U \in SUBSET T : U # T => U \in G
      PROVE  T \in G
  <2> SUFFICES ASSUME NEW x \in T PROVE SumFunctionOnSet(f, T) = SumFunctionOnSet(f, T \ {x}) + f[x]
    OBVIOUS
  <2> DEFINE z == First(T)
  <2>1. z \in T /\ f[z] \in Int /\ f[x] \in Int
    BY FirstIn
  <2>2. SumFunctionOnSet(f, T) = f[z] + SumFunctionOnSet(f, T \ {z})
    BY FS_Subset, SumUnfolds
  <2> HIDE DEF z
  <2>3. /\ SumFunctionOnSet(f, T \ {z}) \in Int /\ SumFunctionOnSet(f, T \ {x}) \in Int
        /\ SumFunctionOnSet(f, (T \ {z}) \ {x}) \in Int
    <3>1. \A U \in SUBSET T : IsFiniteSet(U) /\ \A w \in U : f[w] \in Int
      BY FS_Subset
    <3>2. T \ {z} \in SUBSET T /\ T \ {x} \in SUBSET T /\ (T \ {z}) \ {x} \in SUBSET T
      OBVIOUS
    <3> QED BY <3>1, <3>2, SumType
  <2>4. CASE x # z
    <3>1. T \ {z} \in G /\ T \ {x} \in G
      BY <1>1, <2>1
    <3>2. /\ SumFunctionOnSet(f, T \ {z}) = SumFunctionOnSet(f, (T \ {z}) \ {x}) + f[x]
          /\ SumFunctionOnSet(f, T \ {x}) = SumFunctionOnSet(f, (T \ {x}) \ {z}) + f[z]
      BY <2>1, <2>4, <3>1
    <3>3. (T \ {x}) \ {z} = (T \ {z}) \ {x}
      OBVIOUS
    <3>4. SumFunctionOnSet(f, (T \ {x}) \ {z}) = SumFunctionOnSet(f, (T \ {z}) \ {x})
      BY <3>3
    <3> DEFINE a == SumFunctionOnSet(f, T \ {z})
               b == SumFunctionOnSet(f, T \ {x})
               c == SumFunctionOnSet(f, (T \ {z}) \ {x})
    <3>5. /\ a = c + f[x] /\ b = c + f[z] /\ SumFunctionOnSet(f, T) = f[z] + a
          /\ {a, b, c, f[x], f[z]} \subseteq Int
      BY <2>1, <2>2, <2>3, <3>2, <3>4
    <3> HIDE DEF a, b, c
    <3>6. SumFunctionOnSet(f, T) = b + f[x]
      BY <3>5
    <3> QED BY <3>6 DEF b
  <2>5. CASE x = z
    BY <2>1, <2>2, <2>3, <2>5
  <2> QED BY <2>4, <2>5
<1> HIDE DEF G
<1>2. \A T \in SUBSET S : T \in G
  BY <1>1, SubsetInduction
<1> QED BY <1>2 DEF G

\* A sum depends on the values over its set only.
LEMMA SumSame ==
  ASSUME NEW S, IsFiniteSet(S), NEW f, NEW g, \A x \in S : f[x] = g[x]
  PROVE  SumFunctionOnSet(f, S) = SumFunctionOnSet(g, S)
<1> DEFINE G == {T \in SUBSET S : SumFunctionOnSet(f, T) = SumFunctionOnSet(g, T)}
<1>1. ASSUME NEW T \in SUBSET S, \A U \in SUBSET T : U # T => U \in G
      PROVE  T \in G
  <2>1. IsFiniteSet(T)
    BY FS_Subset
  <2>2. CASE T # {}
    <3>1. First(T) \in S /\ T \ {First(T)} \in SUBSET T /\ T \ {First(T)} # T
      BY <2>2, FirstIn
    <3>2. SumFunctionOnSet(f, T \ {First(T)}) = SumFunctionOnSet(g, T \ {First(T)})
      BY <1>1, <3>1
    <3>3. /\ SumFunctionOnSet(f, T) = f[First(T)] + SumFunctionOnSet(f, T \ {First(T)})
          /\ SumFunctionOnSet(g, T) = g[First(T)] + SumFunctionOnSet(g, T \ {First(T)})
      BY <2>1, <2>2, SumUnfolds
    <3> QED BY <3>1, <3>2, <3>3
  <2> QED BY <2>2, SumEmpty
<1> HIDE DEF G
<1>2. \A T \in SUBSET S : T \in G
  BY <1>1, SubsetInduction
<1> QED BY <1>2 DEF G

\* Two parts add up to the whole.
LEMMA SumUnion ==
  ASSUME NEW A, IsFiniteSet(A), NEW B, IsFiniteSet(B), A \cap B = {},
         NEW f, \A x \in A \cup B : f[x] \in Int
  PROVE  SumFunctionOnSet(f, A \cup B) = SumFunctionOnSet(f, A) + SumFunctionOnSet(f, B)
<1> DEFINE G == {T \in SUBSET B :
                   SumFunctionOnSet(f, A \cup T) = SumFunctionOnSet(f, A) + SumFunctionOnSet(f, T)}
<1>1. ASSUME NEW T \in SUBSET B, \A U \in SUBSET T : U # T => U \in G
      PROVE  T \in G
  <2>1. IsFiniteSet(T) /\ IsFiniteSet(A \cup T) /\ SumFunctionOnSet(f, A) \in Int
    BY FS_Subset, FS_Union, SumType
  <2>2. CASE T = {}
    <3>1. A \cup T = A
      BY <2>2
    <3> QED BY <2>1, <2>2, <3>1, SumEmpty
  <2>3. CASE T # {}
    <3> DEFINE y == First(T)
               R == T \ {y}
    <3>1. y \in T /\ R \in SUBSET T /\ R # T /\ f[y] \in Int
      BY <2>3, FirstIn
    <3> HIDE DEF y
    <3>2. R \in G
      BY <1>1, <3>1
    <3>3. SumFunctionOnSet(f, T) = SumFunctionOnSet(f, R) + f[y]
      BY <2>1, <3>1, SumRemove
    <3>4. SumFunctionOnSet(f, A \cup T) = SumFunctionOnSet(f, A \cup R) + f[y]
      <4>1. (A \cup T) \ {y} = A \cup R /\ y \in A \cup T
        BY <3>1
      <4> HIDE DEF R
      <4> QED BY <2>1, <4>1, SumRemove
    <3>5. SumFunctionOnSet(f, R) \in Int
      BY <2>1, <3>1, FS_Subset, SumType
    <3> HIDE DEF R
    <3> DEFINE a == SumFunctionOnSet(f, A)
               b == SumFunctionOnSet(f, R)
    <3>6. a \in Int /\ b \in Int /\ SumFunctionOnSet(f, A \cup R) = a + b
      BY <2>1, <3>2, <3>5
    <3> HIDE DEF a, b
    <3>7. SumFunctionOnSet(f, A \cup T) = a + (b + f[y])
      BY <3>1, <3>4, <3>6
    <3> QED BY <3>3, <3>7 DEF a, b
  <2> QED BY <2>2, <2>3
<1> HIDE DEF G
<1>2. \A T \in SUBSET B : T \in G
  BY <1>1, SubsetInduction
<1> QED BY <1>2 DEF G

\* What is not negative adds up to no less than nothing.
LEMMA SumNotNegative ==
  ASSUME NEW S, IsFiniteSet(S), NEW f, \A x \in S : f[x] \in Nat
  PROVE  SumFunctionOnSet(f, S) \in Nat
<1> DEFINE G == {T \in SUBSET S : SumFunctionOnSet(f, T) \in Nat}
<1>1. ASSUME NEW T \in SUBSET S, \A U \in SUBSET T : U # T => U \in G
      PROVE  T \in G
  <2>1. IsFiniteSet(T)
    BY FS_Subset
  <2>2. CASE T # {}
    <3>1. First(T) \in S /\ T \ {First(T)} \in SUBSET T /\ T \ {First(T)} # T
      BY <2>2, FirstIn
    <3>2. SumFunctionOnSet(f, T \ {First(T)}) \in Nat
      BY <1>1, <3>1
    <3>3. SumFunctionOnSet(f, T) = f[First(T)] + SumFunctionOnSet(f, T \ {First(T)})
      BY <2>1, <2>2, SumUnfolds
    <3> QED BY <3>1, <3>2, <3>3
  <2> QED BY <2>2, SumEmpty
<1> HIDE DEF G
<1>2. \A T \in SUBSET S : T \in G
  BY <1>1, SubsetInduction
<1> QED BY <1>2 DEF G

\* A part of the keys holds what is under them; all of them hold everything.
LEMMA SumByKey ==
  ASSUME NEW S, IsFiniteSet(S), NEW f, \A x \in S : f[x] \in Int,
         NEW K, IsFiniteSet(K), NEW key
  PROVE  SumFunctionOnSet([k \in K |-> SumFunctionOnSet(f, {x \in S : key[x] = k})], K)
           = SumFunctionOnSet(f, {x \in S : key[x] \in K})
<1> DEFINE Under(J) == {x \in S : key[x] \in J}
           At1(k) == {x \in S : key[x] = k}
           g == [k \in K |-> SumFunctionOnSet(f, At1(k))]
           G == {J \in SUBSET K : SumFunctionOnSet(g, J) = SumFunctionOnSet(f, Under(J))}
<1>1. ASSUME NEW T \in SUBSET S
      PROVE  IsFiniteSet(T) /\ (\A x \in T : f[x] \in Int) /\ SumFunctionOnSet(f, T) \in Int
  BY <1>1, FS_Subset, SumType
<1>2. \A J : Under(J) \in SUBSET S
  OBVIOUS
<1>3. \A k \in K : g[k] = SumFunctionOnSet(f, At1(k)) /\ At1(k) \in SUBSET S
  OBVIOUS
<1>4. \A J \in SUBSET K : \A k \in J : Under(J) = Under(J \ {k}) \cup At1(k) /\ Under(J \ {k}) \cap At1(k) = {}
  OBVIOUS
<1>5. Under({}) = {}
  OBVIOUS
<1> HIDE DEF Under, At1, g
<1>6. ASSUME NEW J \in SUBSET K, \A U \in SUBSET J : U # J => U \in G
      PROVE  J \in G
  <2>1. CASE J = {}
    BY <1>5, <2>1, SumEmpty
  <2>2. CASE J # {}
    <3> DEFINE k == First(J)
               R == J \ {k}
    <3>1. k \in J /\ k \in K /\ R \in SUBSET J /\ R # J /\ IsFiniteSet(J)
      BY <2>2, FirstIn, FS_Subset
    <3> HIDE DEF k
    <3>2. SumFunctionOnSet(g, R) = SumFunctionOnSet(f, Under(R))
      BY <1>6, <3>1
    <3>3. Under(J) = Under(R) \cup At1(k) /\ Under(R) \cap At1(k) = {}
      BY <1>4, <3>1
    <3>4. SumFunctionOnSet(f, Under(J)) = SumFunctionOnSet(f, Under(R)) + SumFunctionOnSet(f, At1(k))
      <4>1. /\ IsFiniteSet(Under(R)) /\ \A x \in Under(R) : f[x] \in Int
            /\ IsFiniteSet(At1(k)) /\ \A x \in At1(k) : f[x] \in Int
        BY <1>1, <1>2, <1>3, <3>1
      <4> HIDE DEF R
      <4> QED BY <3>3, <4>1, SumUnion
    <3>5. SumFunctionOnSet(g, J) = SumFunctionOnSet(g, R) + g[k]
      <4>1. \A j \in J : g[j] \in Int
        BY <1>1, <1>3
      <4> QED BY <3>1, <4>1, SumRemove
    <3> HIDE DEF R
    <3> QED BY <1>3, <3>1, <3>2, <3>4, <3>5
  <2> QED BY <2>1, <2>2
<1> HIDE DEF G
<1>7. \A J \in SUBSET K : J \in G
  BY <1>6, SubsetInduction
<1>8. SumFunctionOnSet(g, K) = SumFunctionOnSet(f, Under(K))
  BY <1>7 DEF G
<1> QED BY <1>8 DEF g, Under, At1

\* Sums of sums.
LEMMA SumPlus ==
  ASSUME NEW S, IsFiniteSet(S), NEW f, \A x \in S : f[x] \in Int,
         NEW g, \A x \in S : g[x] \in Int, NEW h, \A x \in S : h[x] = f[x] + g[x]
  PROVE  SumFunctionOnSet(h, S) = SumFunctionOnSet(f, S) + SumFunctionOnSet(g, S)
<1> DEFINE G == {T \in SUBSET S :
                   SumFunctionOnSet(h, T) = SumFunctionOnSet(f, T) + SumFunctionOnSet(g, T)}
<1>1. ASSUME NEW T \in SUBSET S, \A U \in SUBSET T : U # T => U \in G
      PROVE  T \in G
  <2>1. IsFiniteSet(T)
    BY FS_Subset
  <2>2. CASE T # {}
    <3> DEFINE y == First(T)
               R == T \ {y}
    <3>1. y \in S /\ R \in SUBSET T /\ R # T
      BY <2>2, FirstIn
    <3>2. /\ SumFunctionOnSet(f, T) = f[y] + SumFunctionOnSet(f, R)
          /\ SumFunctionOnSet(g, T) = g[y] + SumFunctionOnSet(g, R)
          /\ SumFunctionOnSet(h, T) = h[y] + SumFunctionOnSet(h, R)
      BY <2>1, <2>2, SumUnfolds
    <3>3. SumFunctionOnSet(f, R) \in Int /\ SumFunctionOnSet(g, R) \in Int
      BY <2>1, <3>1, FS_Subset, SumType
    <3>4. SumFunctionOnSet(h, R) = SumFunctionOnSet(f, R) + SumFunctionOnSet(g, R)
      BY <1>1, <3>1
    <3>5. f[y] \in Int /\ g[y] \in Int /\ h[y] = f[y] + g[y]
      BY <3>1
    <3> HIDE DEF y, R
    <3> QED BY <3>2, <3>3, <3>4, <3>5
  <2>3. CASE T = {}
    <3>1. /\ SumFunctionOnSet(f, T) = 0 /\ SumFunctionOnSet(g, T) = 0
          /\ SumFunctionOnSet(h, T) = 0 /\ T \in SUBSET S
      BY <2>3, SumEmpty
    <3> QED BY <3>1
  <2> QED BY <2>2, <2>3
<1> HIDE DEF G
<1>2. \A T \in SUBSET S : T \in G
  BY <1>1, SubsetInduction
<1> QED BY <1>2 DEF G

\* The sums of the rows and of the columns of a matrix.
RowSums(m, S, V) == [s \in S |-> SumFunctionOnSet([v \in V |-> m[s][v]], V)]
ColumnSums(m, S, V) == [v \in V |-> SumFunctionOnSet([s \in S |-> m[s][v]], S)]

\* A table may be added up by rows or by columns.
LEMMA SumSwap ==
  ASSUME NEW S, IsFiniteSet(S), NEW V, IsFiniteSet(V), NEW m, \A s \in S, v \in V : m[s][v] \in Int
  PROVE  SumFunctionOnSet(RowSums(m, S, V), S) = SumFunctionOnSet(ColumnSums(m, S, V), V)
<1> DEFINE row(s) == [v \in V |-> m[s][v]]
           rows == [s \in S |-> SumFunctionOnSet(row(s), V)]
           col(v) == [s \in S |-> m[s][v]]
           cols(T) == [v \in V |-> SumFunctionOnSet(col(v), T)]
           G == {T \in SUBSET S : SumFunctionOnSet(rows, T) = SumFunctionOnSet(cols(T), V)}
<1>1. \A s \in S : rows[s] = SumFunctionOnSet(row(s), V) /\ rows[s] \in Int /\ \A v \in V : row(s)[v] \in Int
  <2> SUFFICES ASSUME NEW s \in S
               PROVE  rows[s] = SumFunctionOnSet(row(s), V) /\ rows[s] \in Int /\ \A v \in V : row(s)[v] \in Int
    OBVIOUS
  <2>1. \A v \in V : row(s)[v] \in Int
    OBVIOUS
  <2>2. rows[s] = SumFunctionOnSet(row(s), V)
    OBVIOUS
  <2> HIDE DEF row, rows
  <2>3. SumFunctionOnSet(row(s), V) \in Int
    BY <2>1, SumType
  <2> QED BY <2>1, <2>2, <2>3
<1>2. \A v \in V, s \in S : col(v)[s] = row(s)[v] /\ col(v)[s] \in Int
  OBVIOUS
<1>3. \A T : \A v \in V : cols(T)[v] = SumFunctionOnSet(col(v), T)
  OBVIOUS
<1> HIDE DEF row, rows, col, cols
<1>4. \A T \in SUBSET S : \A v \in V : cols(T)[v] \in Int
  <2> SUFFICES ASSUME NEW T \in SUBSET S, NEW v \in V PROVE SumFunctionOnSet(col(v), T) \in Int
    BY <1>3
  <2>1. IsFiniteSet(T)
    BY FS_Subset
  <2> QED BY <1>2, <2>1, SumType
<1>5. ASSUME NEW T \in SUBSET S, \A U \in SUBSET T : U # T => U \in G
      PROVE  T \in G
  <2>1. IsFiniteSet(T)
    BY FS_Subset
  <2>2. CASE T = {}
    <3> DEFINE none == [v \in V |-> 0]
    <3>1. \A v \in V : cols(T)[v] = none[v] /\ none[v] \in Int /\ none[v] = none[v] + none[v]
      BY <1>3, <2>2, SumEmpty
    <3> HIDE DEF none
    <3>2. /\ SumFunctionOnSet(none, V) \in Int
          /\ SumFunctionOnSet(none, V) = SumFunctionOnSet(none, V) + SumFunctionOnSet(none, V)
      BY <3>1, SumType, SumPlus
    <3>3. SumFunctionOnSet(cols(T), V) = SumFunctionOnSet(none, V)
      BY <3>1, SumSame
    <3>4. SumFunctionOnSet(none, V) = 0
      <4> DEFINE a == SumFunctionOnSet(none, V)
      <4>1. a \in Int /\ a = a + a
        BY <3>2
      <4> HIDE DEF a
      <4>2. a = 0
        BY <4>1
      <4> QED BY <4>2 DEF a
    <3>5. SumFunctionOnSet(rows, T) = 0 /\ T \in SUBSET S
      BY <2>2, SumEmpty
    <3> QED BY <3>3, <3>4, <3>5
  <2>3. CASE T # {}
    <3> DEFINE y == First(T)
               R == T \ {y}
    <3>1. y \in S /\ R \in SUBSET T /\ R \in SUBSET S /\ R # T
      BY <2>3, FirstIn
    <3>2. SumFunctionOnSet(rows, T) = rows[y] + SumFunctionOnSet(rows, R)
      BY <2>1, <2>3, SumUnfolds
    <3>3. \A v \in V : cols(T)[v] = row(y)[v] + cols(R)[v]
      <4> SUFFICES ASSUME NEW v \in V PROVE cols(T)[v] = row(y)[v] + cols(R)[v]
        OBVIOUS
      <4>1. SumFunctionOnSet(col(v), T) = col(v)[y] + SumFunctionOnSet(col(v), R)
        BY <2>1, <2>3, SumUnfolds
      <4> QED BY <1>2, <1>3, <3>1, <4>1
    <3>4. SumFunctionOnSet(rows, R) = SumFunctionOnSet(cols(R), V)
      BY <1>5, <3>1
    <3> HIDE DEF y, R
    <3>5. SumFunctionOnSet(cols(T), V) = SumFunctionOnSet(row(y), V) + SumFunctionOnSet(cols(R), V)
      BY <1>1, <1>4, <3>1, <3>3, SumPlus
    <3> QED BY <1>1, <3>1, <3>2, <3>4, <3>5
  <2> QED BY <2>2, <2>3
<1> HIDE DEF G
<1>6. \A T \in SUBSET S : T \in G
  BY <1>5, SubsetInduction
<1>7. SumFunctionOnSet(rows, S) = SumFunctionOnSet(cols(S), V)
  BY <1>6 DEF G
<1> QED BY <1>7 DEF rows, cols, row, col, RowSums, ColumnSums

---------------------------------------------------------------------------
\* A transaction and a report as records, and the inductive invariant.

Tx == [pc : {"idle", "open", "done"}, seen : SUBSET Time, at : Time, entryAt : Time]

ReportOK ==
  /\ DOMAIN report = {"pc", "request", "got", "during", "commits"}
  /\ report = [f \in DOMAIN report |-> report[f]]
  /\ report.pc \in {"idle", "reading", "answered"}
  /\ report.pc # "idle" =>
       /\ report.request \in Body /\ report.request.shops # {}
       /\ report.during \in [Kind -> Int] /\ report.commits \in 0..MaxDuring
       /\ DOMAIN report.got \subseteq Needed(report.request)
TablesOK == now \in Time /\ tx \in [Writes -> Tx] /\ stock \in [Shops -> [Variants -> Nat]]
ReportsInv == TablesOK /\ ReportOK

LEMMA Bounds ==
  /\ MaxTime \in Nat /\ MaxDuring \in Nat /\ 0 \in Time /\ Time \subseteq Nat /\ 0 \in 0..MaxDuring
  /\ \A w \in Writes : What[w] \in Write /\ What[w].of \in Writes
BY ReportsBounds DEF Time, Write

\* What the items and the total of a sale come to.
LEMMA TotalType ==
  ASSUME NEW x \in Writes
  PROVE  Subtotal(x) \in Int /\ Total(x) \in Int
<1>1. /\ What[x].units \in Int /\ What[x].price \in Int /\ What[x].discount \in Int
      /\ What[x].tax \in Int /\ What[x].total \in Int
  BY Bounds DEF Write
<1>2. What[x].units * What[x].price \in Int
  BY <1>1
<1> QED BY <1>1, <1>2 DEF Subtotal, Total

\* What a write moves and amounts to.
LEMMA Amounts ==
  ASSUME NEW w \in Writes
  PROVE  /\ Amount(w) \in Int /\ Size(w) \in Nat /\ Moves(w) \in Int
         /\ Moved(w) \in Variants /\ What[w].shop \in Shops /\ What[w].kind \in Kind
<1>1. /\ What[w] \in Write /\ What[w].of \in Writes /\ What[What[w].of] \in Write
  BY Bounds
<1>2. \A x \in Writes : /\ What[x].units \in Nat /\ What[x].price \in Nat /\ What[x].discount \in Nat
                        /\ What[x].variant \in Variants /\ What[x].shop \in Shops /\ What[x].kind \in Kind
  BY Bounds DEF Write
<1>3. \A x \in Writes : Subtotal(x) \in Int /\ Total(x) \in Int
  BY TotalType
<1>4. Amount(w) \in Int
  BY <1>1, <1>2, <1>3 DEF Amount
<1>6. Size(w) \in Nat
  BY <1>4 DEF Size
<1>5. Moves(w) \in Int
  BY <1>1, <1>2 DEF Moves
<1> QED BY <1>1, <1>2, <1>4, <1>5, <1>6 DEF Moved

LEMMA NoReportIs ==
  /\ DOMAIN NoReport = {"pc", "request", "got", "during", "commits"}
  /\ NoReport = [f \in DOMAIN NoReport |-> NoReport[f]] /\ NoReport.pc = "idle"
BY DEF NoReport

\* Nothing has been written, and no report is being built.
LEMMA InitReports == Init => ReportsInv
<1> SUFFICES ASSUME Init PROVE ReportsInv
  OBVIOUS
<1>1. Idle \in Tx
  BY Bounds DEF Idle, Tx
<1>2. TablesOK
  BY <1>1, Bounds, ReportsBounds DEF Init, TablesOK
<1>3. ReportOK
  BY NoReportIs DEF Init, ReportOK
<1> QED BY <1>2, <1>3 DEF ReportsInv

---------------------------------------------------------------------------
\* Types.

\* A write that begins or is rolled back.
LEMMA BeginStep ==
  ASSUME ReportsInv, NEW w \in Writes, Begin(w) \/ Rollback(w)
  PROVE  ReportsInv'
<1>1. [Idle EXCEPT !.pc = "open", !.seen = {now}] \in Tx /\ Idle \in Tx
  BY Bounds DEF ReportsInv, TablesOK, Idle, Tx
<1>2. TablesOK'
  BY <1>1 DEF ReportsInv, TablesOK, Begin, Rollback
<1>3. ReportOK'
  BY DEF ReportsInv, ReportOK, Begin, Rollback
<1> QED BY <1>2, <1>3 DEF ReportsInv

\* A commit: its timestamps are instants it has seen, and the stock stays natural.
LEMMA CommitStep ==
  ASSUME ReportsInv, NEW w \in Writes, Commit(w)
  PROVE  ReportsInv'
<1>1. TablesOK /\ ReportOK
  BY DEF ReportsInv
<1>3. PICK at \in tx[w].seen, entryAt \in tx[w].seen :
        tx' = [tx EXCEPT ![w].pc = "done", ![w].seen = {}, ![w].at = at, ![w].entryAt = entryAt]
  BY DEF Commit
<1> DEFINE shop == What[w].shop
           v == Moved(w)
           n == stock[shop][v] + Moves(w)
<1>4. /\ shop \in Shops /\ v \in Variants /\ Moves(w) \in Int /\ Size(w) \in Nat /\ What[w].kind \in Kind
  BY Amounts
<1>5. /\ n >= 0 /\ stock' = [stock EXCEPT ![shop][v] = n] /\ now' = now
  BY DEF Commit
<1>6. at \in Time /\ entryAt \in Time
  BY <1>1 DEF TablesOK, Tx
<1>7. tx' \in [Writes -> Tx]
  <2> DEFINE c == [tx[w] EXCEPT !.pc = "done", !.seen = {}, !.at = at, !.entryAt = entryAt]
  <2>1. tx \in [Writes -> Tx] /\ tx[w] \in Tx
    BY <1>1 DEF TablesOK
  <2>2. c \in Tx
    BY <2>1, <1>6, Bounds DEF Tx
  <2>3. tx' = [tx EXCEPT ![w] = c]
    BY <1>3, <2>1
  <2> HIDE DEF c
  <2> QED BY <2>1, <2>2, <2>3
<1>8. stock' \in [Shops -> [Variants -> Nat]]
  <2>1. stock \in [Shops -> [Variants -> Nat]]
    BY <1>1 DEF TablesOK
  <2>2. stock[shop][v] \in Nat
    BY <2>1, <1>4
  <2>3. n \in Nat
    BY <2>2, <1>4, <1>5
  <2> HIDE DEF n, shop, v
  <2>4. [stock[shop] EXCEPT ![v] = n] \in [Variants -> Nat]
    BY <2>1, <2>3, <1>4
  <2>5. stock' = [stock EXCEPT ![shop] = [stock[shop] EXCEPT ![v] = n]]
    BY <2>1, <1>4, <1>5
  <2> QED BY <2>1, <2>4, <2>5
<1>9. ReportOK'
  <2>1. CASE report.pc = "idle"
    <3>1. report' = report
      BY <2>1 DEF Commit
    <3> QED BY <3>1, <1>1 DEF ReportOK
  <2>2. CASE report.pc # "idle"
    <3> DEFINE during == [report.during EXCEPT ![What[w].kind] = @ + Size(w)]
    <3>1. report.during \in [Kind -> Int] /\ report.commits \in 0..MaxDuring /\ report.commits < MaxDuring
      BY <2>2, <1>1 DEF ReportOK, Commit
    <3>2. during \in [Kind -> Int] /\ report.commits + 1 \in 0..MaxDuring
      <4>1. report.during[What[w].kind] + Size(w) \in Int
        BY <3>1, <1>4
      <4> QED BY <3>1, <4>1, <1>4, Bounds
    <3>3. report' = [report EXCEPT !.during = during, !.commits = report.commits + 1]
      BY <2>2, <1>1 DEF ReportOK, Commit
    <3> HIDE DEF during
    <3>4. /\ DOMAIN report' = DOMAIN report /\ report' = [f \in DOMAIN report' |-> report'[f]]
          /\ report'.pc = report.pc /\ report'.request = report.request /\ report'.got = report.got
          /\ report'.during = during /\ report'.commits = report.commits + 1
      BY <3>3, <1>1 DEF ReportOK
    <3> QED BY <3>2, <3>4, <1>1 DEF ReportOK
  <2> QED BY <2>1, <2>2
<1> QED BY <1>1, <1>5, <1>7, <1>8, <1>9 DEF ReportsInv, TablesOK

\* The steps of a report, each of whose queries is one it needs.
LEMMA ReportSteps ==
  ASSUME ReportsInv, \/ Tick \/ (\E body \in Bodies : Generate(body))
                     \/ (report.pc = "reading" /\ \E q \in Pending : Read(q)) \/ Save \/ EndReport
  PROVE  ReportsInv'
<1>1. TablesOK /\ ReportOK
  BY DEF ReportsInv
<1>2. CASE Tick
  <2>1. PICK t \in Time :
          /\ now' = t
          /\ tx' = [w \in Writes |-> IF tx[w].pc = "open" THEN [tx[w] EXCEPT !.seen = @ \cup {t}] ELSE tx[w]]
    BY <1>2 DEF Tick
  <2>2. \A w \in Writes : tx[w] \in Tx /\ [tx[w] EXCEPT !.seen = @ \cup {t}] \in Tx
    BY <1>1 DEF TablesOK, Tx
  <2>3. now' \in Time /\ tx' \in [Writes -> Tx]
    BY <2>1, <2>2
  <2> QED BY <1>1, <1>2, <2>3 DEF Tick, ReportsInv, TablesOK, ReportOK
<1>3. TablesOK' \/ Tick
  BY <1>1 DEF TablesOK, Generate, Read, Save, EndReport
<1>4. ASSUME NEW body \in Bodies, Generate(body) PROVE ReportOK'
  <2> DEFINE r == [body EXCEPT !.shops = ReportShops(body.shops)]
  <2>1. report' = [NoReport EXCEPT !.pc = "reading", !.request = r]
    BY <1>4, ReportsBounds DEF Generate, Body
  <2>2. r \in Body /\ r.shops # {}
    BY <1>4, ReportsBounds DEF Generate, ReportShops, Body
  <2> HIDE DEF r
  <2>3. /\ DOMAIN report' = {"pc", "request", "got", "during", "commits"}
        /\ report' = [f \in DOMAIN report' |-> report'[f]] /\ report'.pc = "reading"
        /\ report'.request = r /\ report'.got = << >> /\ report'.during = Nothing /\ report'.commits = 0
    BY <2>1 DEF NoReport
  <2>4. Nothing \in [Kind -> Int] /\ DOMAIN << >> = {}
    BY DEF Nothing
  <2> QED BY <2>2, <2>3, <2>4, Bounds DEF ReportOK
<1>5. ASSUME report.pc = "reading", NEW q \in Pending, Read(q) PROVE ReportOK'
  <2>1. q \in Needed(report.request)
    BY DEF Pending, Unread
  <2> DEFINE got == [p \in DOMAIN report.got \cup {q} |-> IF p = q THEN Rows(q) ELSE report.got[p]]
  <2>2. report' = [report EXCEPT !.got = got]
    BY <1>1, <1>5 DEF Read, ReportOK
  <2>3. DOMAIN got = DOMAIN report.got \cup {q}
    OBVIOUS
  <2> HIDE DEF got
  <2>4. /\ DOMAIN report' = DOMAIN report /\ report' = [f \in DOMAIN report' |-> report'[f]]
        /\ report'.pc = report.pc /\ report'.request = report.request /\ report'.got = got
        /\ report'.during = report.during /\ report'.commits = report.commits
    BY <2>2, <1>1 DEF ReportOK
  <2> QED BY <2>1, <2>3, <2>4, <1>1, <1>5 DEF ReportOK
<1>6. ASSUME Save PROVE ReportOK'
  <2>1. /\ DOMAIN report' = DOMAIN report /\ report' = [f \in DOMAIN report' |-> report'[f]]
        /\ report'.pc = "answered" /\ report'.request = report.request /\ report'.got = report.got
        /\ report'.during = report.during /\ report'.commits = report.commits /\ report.pc = "reading"
    BY <1>6, <1>1 DEF Save, ReportOK
  <2> QED BY <2>1, <1>1 DEF ReportOK
<1>7. ASSUME EndReport PROVE ReportOK'
  <2>1. report' = NoReport
    BY <1>7 DEF EndReport
  <2> QED BY <2>1, NoReportIs DEF ReportOK
<1>8. CASE \E body \in Bodies : Generate(body)
  <2>1. TablesOK'
    BY <1>1, <1>8 DEF TablesOK, Generate
  <2> QED BY <2>1, <1>4, <1>8 DEF ReportsInv
<1>9. CASE report.pc = "reading" /\ \E q \in Pending : Read(q)
  BY <1>2, <1>3, <1>5, <1>9 DEF ReportsInv
<1>10. CASE Save \/ EndReport
  BY <1>2, <1>3, <1>6, <1>7, <1>10 DEF ReportsInv
<1> QED BY <1>2, <1>8, <1>9, <1>10

LEMMA ReportsStep == ReportsInv /\ [Next]_vars => ReportsInv'
<1> SUFFICES ASSUME ReportsInv, [Next]_vars PROVE ReportsInv'
  OBVIOUS
<1>1. CASE UNCHANGED vars
  BY <1>1 DEF vars, ReportsInv, TablesOK, ReportOK
<1>2. ASSUME NEW w \in Writes, Begin(w) \/ Commit(w) \/ Rollback(w) PROVE ReportsInv'
  BY <1>2, BeginStep, CommitStep
<1> QED BY <1>1, <1>2, ReportSteps DEF Next

\* The invariant is inductive: nothing is dated after now, and what a report has read is
\* what it needs.
THEOREM ReportsInductive == Spec => []ReportsInv
BY InitReports, ReportsStep, PTL DEF Spec

\* Every state is of its type: stock is never sold below zero, and a report has read
\* nothing it does not need.
THEOREM ReportTypes == Spec => []TypeOK
<1>1. ReportsInv => TypeOK
  BY DEF ReportsInv, TablesOK, ReportOK, TypeOK, Tx
<1> QED BY <1>1, ReportsInductive, PTL

---------------------------------------------------------------------------
\* Closed periods.

\* The period of a request.
LEMMA RequestTypes ==
  ASSUME NEW r \in Selections
  PROVE  r.from \in Nat /\ r.to \in Nat
BY Bounds, ReportsBounds DEF Selections, Body, Time

\* Rows that were there stay as they are, and one of no closed period may join them.
Settled(r) ==
  /\ \A x \in Writes : tx[x].pc = "done" => tx'[x] = tx[x]
  /\ \A x \in Writes : tx'[x].pc = "done" /\ tx[x].pc # "done" =>
       ~Dated(tx'[x].at, r) /\ ~Dated(tx'[x].entryAt, r) /\ tx'[x].entryAt > r.to

\* The clock has been past a closed period for each open transaction, whose rows are
\* therefore of later.
LEMMA WriteSettles ==
  ASSUME ReportsInv, Tick \/ \E w \in Writes : Begin(w) \/ Commit(w) \/ Rollback(w),
         NEW r \in Selections, Closed(r)
  PROVE  Settled(r)
<1>1. tx \in [Writes -> Tx] /\ r.to \in Nat
  BY RequestTypes DEF ReportsInv, TablesOK
<1>4. CASE Tick
  <2>1. \A x \in Writes : /\ tx[x].pc # "open" => tx'[x] = tx[x]
                          /\ tx[x].pc = "open" => tx'[x].pc = "open"
    BY <1>1, <1>4 DEF Tick, Tx
  <2> QED BY <2>1 DEF Settled
<1>2. ASSUME NEW w \in Writes, Begin(w) \/ Rollback(w) PROVE Settled(r)
  <2>1. PICK c \in {Idle, [Idle EXCEPT !.pc = "open", !.seen = {now}]} : tx' = [tx EXCEPT ![w] = c]
    BY <1>2 DEF Begin, Rollback
  <2>2. c.pc # "done"
    <3>1. Idle.pc = "idle" /\ [Idle EXCEPT !.pc = "open", !.seen = {now}].pc = "open"
      BY DEF Idle
    <3> QED BY <3>1
  <2>3. tx[w].pc # "done"
    BY <1>2 DEF Begin, Rollback
  <2>4. tx'[w].pc # "done" /\ \A x \in Writes : x # w => tx'[x] = tx[x]
    BY <2>1, <2>2, <1>1
  <2> QED BY <2>3, <2>4 DEF Settled
<1>3. ASSUME NEW w \in Writes, Commit(w) PROVE Settled(r)
  <2>2. PICK at \in tx[w].seen, entryAt \in tx[w].seen :
          tx' = [tx EXCEPT ![w].pc = "done", ![w].seen = {}, ![w].at = at, ![w].entryAt = entryAt]
    BY <1>3 DEF Commit
  <2>3. tx[w].pc = "open" /\ at > r.to /\ entryAt > r.to
    BY <1>3, <2>2 DEF Commit, Closed
  <2>4. at \in Nat /\ entryAt \in Nat
    BY <1>1, <2>2, Bounds DEF Tx
  <2>5. ~Dated(at, r) /\ ~Dated(entryAt, r)
    BY <2>3, <2>4, <1>1 DEF Dated
  <2>6. /\ tx'[w].at = at /\ tx'[w].entryAt = entryAt
        /\ \A x \in Writes : x # w => tx'[x] = tx[x]
    BY <1>1, <2>2 DEF Tx
  <2> QED BY <2>3, <2>5, <2>6 DEF Settled
<1> QED BY <1>2, <1>3, <1>4

\* Then the period loses sales only, and gains expenses only, entered later.
LEMMA SettledPeriod ==
  ASSUME NEW r \in Selections, Settled(r)
  PROVE  /\ FinanceSummary(r)' = FinanceSummary(r)
         /\ Sold(r)' \subseteq Sold(r) /\ Bought(r)' = Bought(r)
         /\ Entries("REFUND", r)' = Entries("REFUND", r)
         /\ Spent(r) \subseteq Spent(r)'
         /\ \A e \in Writes : e \in Spent(r)' \ Spent(r) => tx'[e].entryAt > r.to
<1>1. \A kind : Entries(kind, r)' = Entries(kind, r)
  BY DEF Settled, Entries, In, Done
<1>2. Bought(r)' = Bought(r)
  BY DEF Settled, Bought, In, Done
<1>3. Sold(r)' \subseteq Sold(r)
  BY DEF Settled, Sold, In, Done, IsRefunded
<1>4. \A kind : LedgerSum(kind, r)' = LedgerSum(kind, r)
  BY <1>1 DEF LedgerSum
<1>5. FinanceSummary(r)' = FinanceSummary(r)
  BY <1>4 DEF FinanceSummary
<1>7. Spent(r) \subseteq Spent(r)' /\ \A e \in Writes : e \in Spent(r)' \ Spent(r) => tx'[e].entryAt > r.to
  BY DEF Settled, Spent, In, Done
<1> QED BY <1>1, <1>2, <1>3, <1>5, <1>7

\* While a period is closed its ledger does not change, nor do its tables but for sales
\* that are refunded later and expenses that are dated back into it.
THEOREM ClosedPeriods == Spec => ClosedPeriodSettles
<1> DEFINE Settles == report.pc = "idle" /\ tx' # tx =>
             \A r \in Selections :
               Closed(r) => /\ FinanceSummary(r)' = FinanceSummary(r)
                            /\ Sold(r)' \subseteq Sold(r) /\ Bought(r)' = Bought(r)
                            /\ Entries("REFUND", r)' = Entries("REFUND", r)
                            /\ Spent(r) \subseteq Spent(r)'
                            /\ \A e \in Writes : e \in Spent(r)' \ Spent(r) => tx'[e].entryAt > r.to
<1>1. ReportsInv /\ [Next]_vars => [Settles]_vars
  <2> SUFFICES ASSUME ReportsInv, Next, tx' # tx, NEW r \in Selections, Closed(r)
               PROVE  /\ FinanceSummary(r)' = FinanceSummary(r)
                      /\ Sold(r)' \subseteq Sold(r) /\ Bought(r)' = Bought(r)
                      /\ Entries("REFUND", r)' = Entries("REFUND", r)
                      /\ Spent(r) \subseteq Spent(r)'
                      /\ \A e \in Writes : e \in Spent(r)' \ Spent(r) => tx'[e].entryAt > r.to
    OBVIOUS
  <2>1. Tick \/ \E w \in Writes : Begin(w) \/ Commit(w) \/ Rollback(w)
    BY DEF Next, Generate, Read, Save, EndReport
  <2> QED BY <2>1, WriteSettles, SettledPeriod
<1> QED BY <1>1, ReportsInductive, PTL DEF Spec, ClosedPeriodSettles

---------------------------------------------------------------------------
\* Sums of amounts.

Worth == [w \in Writes |-> Amount(w)]

LEMMA SumOfIs ==
  ASSUME NEW S \in SUBSET Writes
  PROVE  SumOf(S) = SumFunctionOnSet(Worth, S) /\ IsFiniteSet(S) /\ SumOf(S) \in Int
<1> DEFINE f == [w \in S |-> Amount(w)]
<1>1. IsFiniteSet(S)
  BY ReportsBounds, FS_Subset
<1>2. \A w \in S : f[w] = Worth[w] /\ f[w] \in Int
  BY Amounts DEF Worth
<1>3. SumOf(S) = SumFunctionOnSet(f, S)
  BY DEF SumOf, SumFunction
<1> HIDE DEF f
<1>4. SumFunctionOnSet(f, S) = SumFunctionOnSet(Worth, S)
  BY <1>1, <1>2, SumSame
<1>5. SumFunctionOnSet(f, S) \in Int
  BY <1>1, <1>2, SumType
<1> QED BY <1>1, <1>3, <1>4, <1>5

LEMMA WorthIs == \A w \in Writes : Worth[w] = Amount(w) /\ Worth[w] \in Int
BY Amounts DEF Worth

LEMMA SumOfUnion ==
  ASSUME NEW A \in SUBSET Writes, NEW B \in SUBSET Writes, A \cap B = {}
  PROVE  SumOf(A \cup B) = SumOf(A) + SumOf(B)
<1>1. A \cup B \in SUBSET Writes /\ \A x \in A \cup B : Worth[x] \in Int
  BY WorthIs
<1>2. IsFiniteSet(A) /\ IsFiniteSet(B)
  BY SumOfIs
<1>3. SumFunctionOnSet(Worth, A \cup B) = SumFunctionOnSet(Worth, A) + SumFunctionOnSet(Worth, B)
  BY <1>1, <1>2, SumUnion
<1> QED BY <1>1, <1>3, SumOfIs

\* Rows in groups: the groups of K add up to the rows whose key is in K.
LEMMA SumOfByKey ==
  ASSUME NEW S \in SUBSET Writes, NEW K, IsFiniteSet(K), NEW key
  PROVE  SumFunction([k \in K |-> SumOf({w \in S : key[w] = k})]) = SumOf({w \in S : key[w] \in K})
<1> DEFINE f == [k \in K |-> SumOf({w \in S : key[w] = k})]
           g == [k \in K |-> SumFunctionOnSet(Worth, {w \in S : key[w] = k})]
<1>1. f = g
  <2>1. \A k \in K : SumOf({w \in S : key[w] = k}) = SumFunctionOnSet(Worth, {w \in S : key[w] = k})
    <3> SUFFICES ASSUME NEW k \in K
                 PROVE  SumOf({w \in S : key[w] = k}) = SumFunctionOnSet(Worth, {w \in S : key[w] = k})
      OBVIOUS
    <3>1. {w \in S : key[w] = k} \in SUBSET Writes
      OBVIOUS
    <3> QED BY <3>1, SumOfIs
  <2> QED BY <2>1
<1>2. SumFunction(f) = SumFunctionOnSet(g, K)
  BY <1>1 DEF SumFunction
<1>3. SumFunctionOnSet(g, K) = SumFunctionOnSet(Worth, {w \in S : key[w] \in K})
  <2>1. IsFiniteSet(S) /\ \A w \in S : Worth[w] \in Int
    BY SumOfIs, WorthIs
  <2> QED BY <2>1, SumByKey
<1>4. {w \in S : key[w] \in K} \in SUBSET Writes
  OBVIOUS
<1> HIDE DEF f, g
<1>5. SumFunction(f) = SumOf({w \in S : key[w] \in K})
  BY <1>2, <1>3, <1>4, SumOfIs
<1> QED BY <1>5 DEF f

---------------------------------------------------------------------------
\* The two summaries of the ledger.

LEMMA EntriesAre ==
  ASSUME NEW kind, NEW r
  PROVE  Entries(kind, r) \in SUBSET Writes /\ \A w \in Entries(kind, r) : What[w].kind = kind
BY DEF Entries, In, Done

LEMMA DirectionsAre ==
  ASSUME NEW r
  PROVE  /\ OfDirection("IN", r) = Entries("SALE", r) \cup Entries("FUNDING", r)
         /\ OfDirection("OUT", r) = Entries("REFUND", r) \cup Entries("EXPENSE", r) \cup Entries("PURCHASE", r)
<1>1. /\ {k \in Kind : Direction(k) = "IN"} = {"SALE", "FUNDING"}
      /\ {k \in Kind : Direction(k) = "OUT"} = {"REFUND", "EXPENSE", "PURCHASE"}
  BY DEF Kind, Direction
<1> QED BY <1>1 DEF OfDirection

\* The entries of one direction are those of the categories that have it.
LEMMA DirectionSums ==
  ASSUME NEW r
  PROVE  /\ SumOf(OfDirection("IN", r)) = LedgerSum("SALE", r) + LedgerSum("FUNDING", r)
         /\ SumOf(OfDirection("OUT", r)) =
              LedgerSum("REFUND", r) + LedgerSum("EXPENSE", r) + LedgerSum("PURCHASE", r)
         /\ \A kind \in Kind : LedgerSum(kind, r) \in Int
<1>1. \A k \in Kind : /\ Entries(k, r) \in SUBSET Writes
                      /\ LedgerSum(k, r) = SumOf(Entries(k, r)) /\ LedgerSum(k, r) \in Int
  BY EntriesAre, SumOfIs DEF LedgerSum
<1>2. \A k, l \in Kind : k # l => Entries(k, r) \cap Entries(l, r) = {}
  BY EntriesAre
<1>3. SumOf(Entries("SALE", r) \cup Entries("FUNDING", r))
        = SumOf(Entries("SALE", r)) + SumOf(Entries("FUNDING", r))
  BY <1>1, <1>2, SumOfUnion DEF Kind
<1> DEFINE out == Entries("REFUND", r) \cup Entries("EXPENSE", r)
<1>4. SumOf(out) = SumOf(Entries("REFUND", r)) + SumOf(Entries("EXPENSE", r))
  BY <1>1, <1>2, SumOfUnion DEF Kind
<1>5. SumOf(out \cup Entries("PURCHASE", r)) = SumOf(out) + SumOf(Entries("PURCHASE", r))
  <2>1. out \in SUBSET Writes /\ Entries("PURCHASE", r) \in SUBSET Writes /\ out \cap Entries("PURCHASE", r) = {}
    BY <1>1, <1>2 DEF Kind
  <2> HIDE DEF out
  <2> QED BY <2>1, SumOfUnion
<1> QED BY <1>1, <1>3, <1>4, <1>5, DirectionsAre DEF Kind

\* Shop by shop, the ledger adds up to what it does in all of them.
LEMMA LedgerNetIs ==
  ASSUME NEW r \in Body
  PROVE  LedgerNet(r) = LedgerSum("SALE", r) + LedgerSum("FUNDING", r)
                          - (LedgerSum("REFUND", r) + LedgerSum("EXPENSE", r) + LedgerSum("PURCHASE", r))
<1> DEFINE here(s) == [r EXCEPT !.shops = {s}]
           in == [s \in r.shops |-> SumOf(OfDirection("IN", here(s)))]
           out == [s \in r.shops |-> SumOf(OfDirection("OUT", here(s)))]
           net == [s \in r.shops |-> ShopSummary(s, r).net]
           shop == [w \in Writes |-> What[w].shop]
<1>1. IsFiniteSet(r.shops)
  BY ReportsBounds, FS_Subset DEF Body
<1>2. ASSUME NEW dir
      PROVE  /\ \A s \in r.shops : OfDirection(dir, here(s)) = {w \in OfDirection(dir, r) : shop[w] = s}
             /\ OfDirection(dir, r) = {w \in OfDirection(dir, r) : shop[w] \in r.shops}
             /\ OfDirection(dir, r) \in SUBSET Writes
  <2>1. \A s : here(s).shops = {s} /\ here(s).from = r.from /\ here(s).to = r.to
    BY DEF Body
  <2>2. \A kind : \A s \in r.shops : Entries(kind, here(s)) = {w \in Entries(kind, r) : shop[w] = s}
    BY <2>1 DEF Entries, In, Done, Dated
  <2>3. \A kind : \A w \in Entries(kind, r) : w \in Writes /\ shop[w] \in r.shops
    BY DEF Entries, In, Done
  <2> HIDE DEF here, shop
  <2> QED BY <2>2, <2>3 DEF OfDirection
<1>3. SumFunction(in) = SumOf(OfDirection("IN", r))
  <2> DEFINE S == OfDirection("IN", r)
  <2>1. S \in SUBSET Writes /\ S = {w \in S : shop[w] \in r.shops}
    BY <1>2
  <2>2. in = [s \in r.shops |-> SumOf({w \in S : shop[w] = s})]
    BY <1>2
  <2> HIDE DEF S, in, shop
  <2>3. SumFunction([s \in r.shops |-> SumOf({w \in S : shop[w] = s})]) = SumOf({w \in S : shop[w] \in r.shops})
    BY <1>1, <2>1, SumOfByKey
  <2>4. SumOf({w \in S : shop[w] \in r.shops}) = SumOf(S)
    BY <2>1
  <2> QED BY <2>2, <2>3, <2>4 DEF S
<1>4. SumFunction(out) = SumOf(OfDirection("OUT", r))
  <2> DEFINE S == OfDirection("OUT", r)
  <2>1. S \in SUBSET Writes /\ S = {w \in S : shop[w] \in r.shops}
    BY <1>2
  <2>2. out = [s \in r.shops |-> SumOf({w \in S : shop[w] = s})]
    BY <1>2
  <2> HIDE DEF S, out, shop
  <2>3. SumFunction([s \in r.shops |-> SumOf({w \in S : shop[w] = s})]) = SumOf({w \in S : shop[w] \in r.shops})
    BY <1>1, <2>1, SumOfByKey
  <2>4. SumOf({w \in S : shop[w] \in r.shops}) = SumOf(S)
    BY <2>1
  <2> QED BY <2>2, <2>3, <2>4 DEF S
<1>5. \A s \in r.shops : in[s] \in Int /\ out[s] \in Int /\ net[s] = in[s] - out[s]
  <2> SUFFICES ASSUME NEW s \in r.shops
               PROVE  in[s] \in Int /\ out[s] \in Int /\ net[s] = in[s] - out[s]
    OBVIOUS
  <2>1. SumOf(OfDirection("IN", here(s))) \in Int /\ SumOf(OfDirection("OUT", here(s))) \in Int
    <3>1. \A dir : OfDirection(dir, here(s)) \in SUBSET Writes
      BY EntriesAre DEF OfDirection
    <3> QED BY <3>1, SumOfIs
  <2>2. net[s] = SumOf(OfDirection("IN", here(s))) - SumOf(OfDirection("OUT", here(s)))
    BY DEF ShopSummary
  <2> QED BY <2>1, <2>2
<1>6. /\ SumFunction(in) = SumFunctionOnSet(in, r.shops) /\ SumFunction(out) = SumFunctionOnSet(out, r.shops)
      /\ LedgerNet(r) = SumFunctionOnSet(net, r.shops)
  BY DEF SumFunction, LedgerNet
<1> HIDE DEF in, out, net
<1>ints. \A s \in r.shops : in[s] \in Int /\ out[s] \in Int /\ net[s] \in Int /\ in[s] = net[s] + out[s]
  BY <1>5
<1>7. SumFunctionOnSet(in, r.shops) = SumFunctionOnSet(net, r.shops) + SumFunctionOnSet(out, r.shops)
  BY <1>1, <1>ints, SumPlus
<1>8. SumFunctionOnSet(net, r.shops) \in Int
  BY <1>1, <1>ints, SumType
<1>9. /\ SumOf(OfDirection("IN", r)) = LedgerNet(r) + SumOf(OfDirection("OUT", r))
      /\ LedgerNet(r) \in Int
  BY <1>3, <1>4, <1>6, <1>7, <1>8
<1> QED BY <1>9, DirectionSums DEF Kind

LEMMA SelectionIs ==
  ASSUME NEW r \in Selections
  PROVE  r \in Body
BY ReportsBounds DEF Selections, ReportShops, Body

\* The summary by category and the summaries of the shops by direction agree for every
\* selection of shops and every period, funding apart (cashflow.service.ts: getSummary,
\* getFinanceSummaryByOrganization).
THEOREM SummariesMatch == Spec => []SummariesAgree
<1>1. SummariesAgree
  <2> SUFFICES ASSUME NEW r \in Selections
               PROVE  FinanceSummary(r).netEstimate + LedgerSum("FUNDING", r) = LedgerNet(r)
    BY DEF SummariesAgree
  <2>1. \A kind \in Kind : LedgerSum(kind, r) \in Int
    BY DirectionSums
  <2>2. FinanceSummary(r).netEstimate = LedgerSum("SALE", r) - LedgerSum("EXPENSE", r)
                                          - LedgerSum("PURCHASE", r) - LedgerSum("REFUND", r)
    BY DEF FinanceSummary
  <2> QED BY <2>1, <2>2, SelectionIs, LedgerNetIs DEF Kind
<1> QED BY <1>1, PTL
---------------------------------------------------------------------------
\* The figures of a report.  Between a query and the answer rows are written, but only
\* as many as "during" counts: each figure stays near the tables as they are now, so the
\* figures read later stay near the earlier ones.

\* The queries whose rows are added up, by the rows they read.
Queries ==
  [SALE |-> {"completed", "byPaymentMethod", "byShop", "timelineSales", "topItems", "sales"},
   REFUND |-> {"refund", "timelineRefunds", "refunds"},
   EXPENSE |-> {"expense", "byCategory", "timelineExpenses", "expenses"},
   PURCHASE |-> {"purchase", "timelinePurchases", "purchases"},
   FUNDING |-> {"funding", "fundings"}]
Plain == {"completed", "refund", "expense", "purchase", "funding"}
Grouped == {"byPaymentMethod", "byShop", "byCategory"}
Limited == {"sales", "refunds", "expenses", "purchases", "fundings"}
Listed == {"timelineSales", "timelineExpenses", "timelinePurchases", "timelineRefunds", "topItems"} \cup Limited

Table(k, r) ==
  IF k = "SALE" THEN Sold(r) ELSE IF k = "EXPENSE" THEN Spent(r)
  ELSE IF k = "PURCHASE" THEN Bought(r) ELSE Entries(k, r)
Wanted(q, r, w) ==
  /\ q = "expense" /\ r.categories # {} => What[w].category \in r.categories
  /\ q = "byPaymentMethod" /\ r.methods # {} => What[w].method \in r.methods
  /\ q = "topItems" /\ r.variants # {} => What[w].variant \in r.variants
Chosen(k, q, r) == {w \in Table(k, r) : Wanted(q, r, w)}

\* What the rows of a query add up to, and whether they are all there.
Figure(q, rows) ==
  IF q \in Plain THEN rows.amount
  ELSE IF q \in Grouped THEN SumFunction([k \in DOMAIN rows |-> rows[k].amount])
  ELSE SumOf(rows)
Whole(q, rows) == q \in Limited => Cardinality(rows) < ListLimit

\* The amounts that have come or gone: a refund takes a sale away.
Slack(k, during) == IF k = "SALE" THEN during["SALE"] + during["REFUND"] ELSE during[k]

\* Query p reads all that q reads, and what only p reads does not lower its figure.
Covers(k, p, q, r) ==
  /\ \A w \in Writes : Wanted(q, r, w) => Wanted(p, r, w)
  /\ \/ \A w \in Writes : Wanted(p, r, w) => Wanted(q, r, w)
     \/ \A w \in Writes : What[w].kind = k => Amount(w) >= 0

\* A figure is near what S adds up to; of two figures, that of p is not the lower one.
FigureNear(k, q, rows, S, slack) ==
  /\ q \in Listed => rows \in SUBSET {w \in Writes : What[w].kind = k}
  /\ Whole(q, rows) => Figure(q, rows) \in Int /\ OffBy(Figure(q, rows), SumOf(S), slack)
PairNear(k, p, q, r, ps, qs, slack) ==
  Covers(k, p, q, r) /\ Whole(p, ps) /\ Whole(q, qs) => Figure(q, qs) <= Figure(p, ps) + slack

FiguresOK ==
  \A k \in Kind : \A q \in Queries[k] \cap DOMAIN report.got :
    /\ FigureNear(k, q, report.got[q], Chosen(k, q, report.request), Slack(k, report.during))
    /\ \A p \in Queries[k] \cap DOMAIN report.got :
         PairNear(k, p, q, report.request, report.got[p], report.got[q], Slack(k, report.during))
DuringOK ==
  /\ report.during \in [Kind -> Nat]
  /\ report.commits = 0 => report.during = Nothing
StockReadOK ==
  report.commits = 0 /\ "inventory" \in DOMAIN report.got =>
    report.got["inventory"] = [s \in report.request.shops |-> stock[s]]
AllRead == report.pc = "answered" => Needed(report.request) \subseteq DOMAIN report.got
FiguresInv ==
  report.pc # "idle" => FiguresOK /\ DuringOK /\ StockReadOK /\ AllRead

\* Tables that differ by one row add up to amounts that differ by no more than its size.
LEMMA OneApart ==
  ASSUME NEW A \in SUBSET Writes, NEW B \in SUBSET Writes, NEW x \in Writes,
         \A y \in Writes \ {x} : y \in A <=> y \in B
  PROVE  OffBy(SumOf(A), SumOf(B), Size(x))
<1> DEFINE C == A \ {x}
           c == SumOf(C)
           a == Amount(x)
<1>1. C \in SUBSET Writes /\ C = B \ {x} /\ c \in Int /\ a \in Int
  <2>1. C \in SUBSET Writes /\ C = B \ {x}
    OBVIOUS
  <2> QED BY <2>1, SumOfIs, Amounts
<1>2. SumOf({x}) = a
  <2>1. {x} \in SUBSET Writes /\ IsFiniteSet({x}) /\ {x} \ {x} = {}
    BY FS_Singleton
  <2>2. Worth[x] = a /\ Worth[x] \in Int
    BY WorthIs
  <2>3. SumFunctionOnSet(Worth, {x}) = SumFunctionOnSet(Worth, {}) + Worth[x]
    BY <2>1, <2>2, SumRemove
  <2> HIDE DEF a
  <2> QED BY <1>1, <2>1, <2>2, <2>3, SumEmpty, SumOfIs
<1>3. ASSUME NEW D \in SUBSET Writes, D \ {x} = C
      PROVE  SumOf(D) = IF x \in D THEN c + a ELSE c
  <2>1. CASE x \in D
    <3>1. D = C \cup {x} /\ C \cap {x} = {} /\ {x} \in SUBSET Writes
      BY <1>3, <2>1
    <3>2. SumOf(D) = SumOf(C) + SumOf({x})
      BY <1>1, <3>1, SumOfUnion
    <3> QED BY <1>2, <2>1, <3>2
  <2>2. CASE x \notin D
    BY <1>3, <2>2
  <2> QED BY <2>1, <2>2
<1>4. (SumOf(A) = c \/ SumOf(A) = c + a) /\ (SumOf(B) = c \/ SumOf(B) = c + a)
  BY <1>1, <1>3
<1>5. Size(x) \in Nat /\ Size(x) >= a /\ Size(x) >= 0 - a
  BY <1>1, Amounts DEF Size
<1> HIDE DEF c, a
<1> QED BY <1>1, <1>4, <1>5 DEF OffBy

\* A table and a part of it, when what is left out is not negative.
LEMMA PartOf ==
  ASSUME NEW A \in SUBSET Writes, NEW B \in SUBSET A, \A w \in A \ B : Amount(w) >= 0
  PROVE  SumOf(B) <= SumOf(A)
<1> DEFINE C == A \ B
<1>1. C \in SUBSET Writes /\ B \in SUBSET Writes /\ A = B \cup C /\ B \cap C = {}
  OBVIOUS
<1>2. SumOf(A) = SumOf(B) + SumOf(C)
  BY <1>1, SumOfUnion
<1>3. IsFiniteSet(C) /\ \A w \in C : Worth[w] \in Nat
  BY <1>1, SumOfIs, WorthIs
<1>4. SumOf(C) \in Nat /\ SumOf(B) \in Int
  BY <1>1, <1>3, SumNotNegative, SumOfIs
<1> HIDE DEF C
<1> QED BY <1>2, <1>4

\* One of finitely many writes is at least as late as the others.
LEMMA Highest ==
  ASSUME NEW R \in SUBSET Writes, R # {}, NEW f \in [Writes -> Int]
  PROVE  \E m \in R : \A x \in R : f[m] >= f[x]
<1> DEFINE G == {T \in SUBSET R : T # {} => \E m \in T : \A x \in T : f[m] >= f[x]}
<1>1. IsFiniteSet(R)
  BY SumOfIs
<1>2. ASSUME NEW T \in SUBSET R, \A U \in SUBSET T : U # T => U \in G
      PROVE  T \in G
  <2> SUFFICES ASSUME T # {} PROVE \E m \in T : \A x \in T : f[m] >= f[x]
    OBVIOUS
  <2>1. PICK y \in T : TRUE
    OBVIOUS
  <2>2. T \ {y} \in G
    BY <1>2
  <2>3. \A x \in T : f[x] \in Int
    OBVIOUS
  <2>4. CASE T \ {y} = {}
    <3>1. \A x \in T : x = y
      BY <2>4
    <3> QED BY <2>1, <2>3, <3>1
  <2>5. CASE T \ {y} # {}
    <3>1. PICK m \in T \ {y} : \A x \in T \ {y} : f[m] >= f[x]
      BY <2>2, <2>5
    <3>2. CASE f[m] >= f[y]
      BY <3>1, <3>2
    <3>3. CASE ~(f[m] >= f[y])
      <4>1. f[y] > f[m]
        BY <2>3, <3>3
      <4>2. \A x \in T : f[y] >= f[x]
        BY <2>3, <3>1, <4>1
      <4> QED BY <4>2
    <3> QED BY <3>2, <3>3
  <2> QED BY <2>4, <2>5
<1> HIDE DEF G
<1>3. \A T \in SUBSET R : T \in G
  BY <1>1, <1>2, SubsetInduction
<1> QED BY <1>3 DEF G

---------------------------------------------------------------------------
\* What a query reads.

\* A table has its newest rows, up to the limit.
LEMMA NewestExists ==
  ASSUME NEW S \in SUBSET Writes, NEW f \in [Writes -> Int]
  PROVE  \E U \in SUBSET S : /\ Cardinality(U) = Min({ListLimit, Cardinality(S)})
                             /\ \A w \in U, x \in S \ U : f[w] >= f[x]
<1> DEFINE Top(U) == \A w \in U, x \in S \ U : f[w] >= f[x]
           n == Min({ListLimit, Cardinality(S)})
<1>1. IsFiniteSet(S) /\ Cardinality(S) \in Nat /\ ListLimit \in Nat
  BY SumOfIs, FS_CardinalityType, ReportsBounds
<1>2. n \in Nat /\ n <= Cardinality(S) /\ (n < ListLimit => n = Cardinality(S))
  <2>1. \E m \in {ListLimit, Cardinality(S)} : \A y \in {ListLimit, Cardinality(S)} : m <= y
    BY <1>1
  <2>2. n \in {ListLimit, Cardinality(S)} /\ \A y \in {ListLimit, Cardinality(S)} : n <= y
    BY <2>1 DEF Min
  <2> HIDE DEF n
  <2> QED BY <1>1, <2>2
<1> HIDE DEF n
<1>3. \E U \in SUBSET S : Cardinality(U) = n /\ Top(U)
  <2> DEFINE Few == {R \in SUBSET S : Top(S \ R) /\ Cardinality(S \ R) <= n}
  <2>1. IsWellFoundedOn(StrictSubsetOrdering(S), FiniteSubsetsOf(S)) /\ FiniteSubsetsOf(S) = SUBSET S
    BY <1>1, FS_StrictSubsetOrderingWellFounded, FS_FiniteSubsetsOfFinite
  <2>2. S \in Few
    <3>1. S \ S = {} /\ Cardinality({}) = 0
      BY FS_EmptySet
    <3> QED BY <3>1, <1>2
  <2>3. PICK R \in Few : \A Q \in Few : ~(<<Q, R>> \in StrictSubsetOrdering(S))
    <3>1. Few # {} /\ Few \subseteq FiniteSubsetsOf(S)
      BY <2>1, <2>2
    <3> HIDE DEF Few
    <3> QED BY <2>1, <3>1, WFMin
  <2> DEFINE U == S \ R
  <2>4. U \in SUBSET S /\ Top(U) /\ Cardinality(U) <= n /\ IsFiniteSet(U) /\ Cardinality(U) \in Nat /\ S \ U = R
    <3>1. U \in SUBSET S /\ Top(U) /\ Cardinality(U) <= n /\ S \ U = R
      BY <2>3
    <3>2. IsFiniteSet(U)
      BY <1>1, FS_Subset
    <3> HIDE DEF U
    <3> QED BY <3>1, <3>2, FS_CardinalityType
  <2>5. ASSUME Cardinality(U) # n PROVE FALSE
    <3>1. R # {} /\ R \in SUBSET S /\ IsFiniteSet(R)
      <4>1. R = {} => U = S
        OBVIOUS
      <4>2. Cardinality(S) # Cardinality(U)
        BY <2>4, <2>5, <1>2, <1>1
      <4>3. IsFiniteSet(R)
        BY <1>1, <2>3, FS_Subset
      <4> HIDE DEF U
      <4> QED BY <2>3, <4>1, <4>2, <4>3
    <3>2. PICK m \in R : \A x \in R : f[m] >= f[x]
      BY <3>1, Highest
    <3> DEFINE V == U \cup {m}
               Q == R \ {m}
    <3>3. V = S \ Q /\ Q \in SUBSET S /\ m \notin U
      BY <3>1
    <3>4. Cardinality(V) = Cardinality(U) + 1
      BY <2>4, <3>3, FS_AddElement
    <3>5. Top(V)
      <4> SUFFICES ASSUME NEW w \in V, NEW x \in S \ V PROVE f[w] >= f[x]
        OBVIOUS
      <4>1. x \in R
        OBVIOUS
      <4> QED BY <3>2, <2>4, <4>1
    <3>6. Q \in Few
      <4>1. Cardinality(V) <= n
        BY <3>4, <2>4, <2>5, <1>2
      <4> HIDE DEF V, Q, Top
      <4> QED BY <3>3, <3>5, <4>1
    <3>7. <<Q, R>> \in StrictSubsetOrdering(S)
      BY <3>1, <3>2 DEF StrictSubsetOrdering
    <3> QED BY <2>3, <3>6, <3>7
  <2> HIDE DEF U
  <2> QED BY <2>4, <2>5
<1> QED BY <1>3 DEF n

\* They are all its rows, when they are fewer than the limit.
LEMMA AllOfThem ==
  ASSUME NEW S \in SUBSET Writes, NEW T \in SUBSET S,
         Cardinality(T) = Min({ListLimit, Cardinality(S)}), Cardinality(T) < ListLimit
  PROVE  T = S
<1>1. IsFiniteSet(S) /\ Cardinality(S) \in Nat /\ ListLimit \in Nat
  BY SumOfIs, FS_CardinalityType, ReportsBounds
<1>2. \E m \in {ListLimit, Cardinality(S)} : \A y \in {ListLimit, Cardinality(S)} : m <= y
  BY <1>1
<1>3. Min({ListLimit, Cardinality(S)}) \in {ListLimit, Cardinality(S)}
  BY <1>2 DEF Min
<1>4. Cardinality(T) = Cardinality(S)
  BY <1>1, <1>3
<1> QED BY <1>1, <1>4, FS_Subset

LEMMA NewestIs ==
  ASSUME TablesOK, NEW S \in SUBSET Writes,
         NEW T \in {Newest(S, At, ListLimit), Newest(S, EntryAt, ListLimit), Newest(S, DateOf, ListLimit)}
  PROVE  T \in SUBSET S /\ (Cardinality(T) < ListLimit => T = S)
<1> DEFINE Size1(U) == Cardinality(U) = Min({ListLimit, Cardinality(S)})
<1>1. T \in SUBSET S /\ Size1(T)
  <2>1. ASSUME NEW f \in [Writes -> Int]
        PROVE  \E U \in SUBSET S : Size1(U) /\ \A w \in U, x \in S \ U : f[w] >= f[x]
    BY NewestExists
  <2> DEFINE at == [w \in Writes |-> tx[w].at]
             entryAt == [w \in Writes |-> tx[w].entryAt]
             date == [w \in Writes |-> What[w].date]
  <2>2. at \in [Writes -> Int] /\ entryAt \in [Writes -> Int] /\ date \in [Writes -> Int]
    <3>1. \A w \in Writes : tx[w].at \in Nat /\ tx[w].entryAt \in Nat
      BY Bounds DEF TablesOK, Tx
    <3>2. \A w \in Writes : What[w].date \in Nat
      BY Bounds DEF Write
    <3> QED BY <3>1, <3>2
  <2> HIDE DEF Size1
  <2>3. CASE T = Newest(S, At, ListLimit)
    <3>1. \E U \in SUBSET S : Size1(U) /\ \A w \in U, x \in S \ U : At(w) >= At(x)
      <4>1. PICK U \in SUBSET S : Size1(U) /\ \A w \in U, x \in S \ U : at[w] >= at[x]
        BY <2>1, <2>2
      <4> QED BY <4>1 DEF At
    <3> QED BY <2>3, <3>1 DEF Newest, Size1
  <2>4. CASE T = Newest(S, EntryAt, ListLimit)
    <3>1. \E U \in SUBSET S : Size1(U) /\ \A w \in U, x \in S \ U : EntryAt(w) >= EntryAt(x)
      <4>1. PICK U \in SUBSET S : Size1(U) /\ \A w \in U, x \in S \ U : entryAt[w] >= entryAt[x]
        BY <2>1, <2>2
      <4> QED BY <4>1 DEF EntryAt
    <3> QED BY <2>4, <3>1 DEF Newest, Size1
  <2>5. CASE T = Newest(S, DateOf, ListLimit)
    <3>1. \E U \in SUBSET S : Size1(U) /\ \A w \in U, x \in S \ U : DateOf(w) >= DateOf(x)
      <4>1. PICK U \in SUBSET S : Size1(U) /\ \A w \in U, x \in S \ U : date[w] >= date[x]
        BY <2>1, <2>2
      <4> QED BY <4>1 DEF DateOf
    <3> QED BY <2>5, <3>1 DEF Newest, Size1
  <2> QED BY <2>3, <2>4, <2>5
<1> QED BY <1>1, AllOfThem

LEMMA TableIs ==
  ASSUME NEW k \in Kind, NEW r
  PROVE  Table(k, r) \in SUBSET {w \in Writes : What[w].kind = k}
BY DEF Kind, Table, Sold, Spent, Bought, Entries, In, Done

\* The keys of some rows, and the rows of one key.
Keys(S, key) == {key[w] : w \in S}
WithKey(S, key, k) == {w \in S : key[w] = k}

LEMMA KeysFinite ==
  ASSUME NEW S, IsFiniteSet(S), NEW key
  PROVE  IsFiniteSet(Keys(S, key))
<1> DEFINE f == [w \in S |-> key[w]]
<1>1. f \in Surjection(S, Keys(S, key))
  BY DEF Surjection, Keys
<1> HIDE DEF f
<1> QED BY <1>1, FS_Surjection

\* The groups of a breakdown add up to the table it breaks down.
LEMMA GroupsAre ==
  ASSUME NEW S \in SUBSET Writes, NEW key, NEW rows, DOMAIN rows = Keys(S, key),
         \A k \in Keys(S, key) : rows[k] = Totals(WithKey(S, key, k))
  PROVE  SumFunction([k \in DOMAIN rows |-> rows[k].amount]) = SumOf(S)
<1>1. IsFiniteSet(Keys(S, key))
  BY SumOfIs, KeysFinite
<1>2. \A k \in Keys(S, key) : rows[k].amount = SumOf(WithKey(S, key, k))
  BY DEF Totals
<1>3. [k \in DOMAIN rows |-> rows[k].amount] = [k \in Keys(S, key) |-> SumOf({w \in S : key[w] = k})]
  BY <1>2 DEF WithKey
<1>4. {w \in S : key[w] \in Keys(S, key)} = S
  BY DEF Keys
<1>5. SumFunction([k \in Keys(S, key) |-> SumOf({w \in S : key[w] = k})])
        = SumOf({w \in S : key[w] \in Keys(S, key)})
  BY <1>1, SumOfByKey
<1> QED BY <1>3, <1>4, <1>5

\* What a query reads adds up to the rows it wants, unless a limit cuts them off.
LEMMA FreshFigure ==
  ASSUME TablesOK, NEW k \in Kind, NEW q \in Queries[k], NEW r, NEW rows,
         rows = IF q \in Aggregated THEN Aggregates(q, r) ELSE Lists(q, r)
  PROVE  /\ q \in Listed => rows \in SUBSET {w \in Writes : What[w].kind = k}
         /\ Whole(q, rows) => Figure(q, rows) = SumOf(Chosen(k, q, r))
<1> DEFINE S == Chosen(k, q, r)
<1>1. S \in SUBSET {w \in Writes : What[w].kind = k}
  BY TableIs DEF Chosen
<1>2. CASE q \in Plain
  <2>1. rows = Totals(S)
    <3>1. q = "completed" => rows = Totals(Sold(r)) /\ S = Sold(r)
      BY DEF Aggregated, Aggregates, Chosen, Wanted, Table, Queries, Kind, Stages
    <3>2. q = "refund" => rows = Totals(Entries("REFUND", r)) /\ S = Entries("REFUND", r)
      BY DEF Aggregated, Aggregates, Chosen, Wanted, Table, Queries, Kind, Stages
    <3>3. q = "expense" =>
            /\ rows = Totals({e \in Spent(r) : r.categories # {} => What[e].category \in r.categories})
            /\ S = {e \in Spent(r) : r.categories # {} => What[e].category \in r.categories}
      BY DEF Aggregated, Aggregates, Chosen, Wanted, Table, Queries, Kind, Stages
    <3>4. q = "purchase" => rows = Totals(Bought(r)) /\ S = Bought(r)
      BY DEF Aggregated, Aggregates, Chosen, Wanted, Table, Queries, Kind, Stages
    <3>5. q = "funding" => rows = Totals(Entries("FUNDING", r)) /\ S = Entries("FUNDING", r)
      BY DEF Aggregated, Aggregates, Chosen, Wanted, Table, Queries, Kind, Stages
    <3> HIDE DEF S
    <3> QED BY <1>2, <3>1, <3>2, <3>3, <3>4, <3>5 DEF Plain
  <2>2. rows.amount = SumOf(S)
    BY <2>1 DEF Totals
  <2> QED BY <1>2, <2>2 DEF Figure, Plain, Listed, Limited
<1>3. CASE q \in Grouped
  <2> DEFINE method == [w \in Writes |-> What[w].method]
             shop == [w \in Writes |-> What[w].shop]
             category == [w \in Writes |-> What[w].category]
  <2>byMethod. ASSUME q = "byPaymentMethod"
        PROVE  /\ DOMAIN rows = Keys(S, method)
               /\ \A x \in Keys(S, method) : rows[x] = Totals(WithKey(S, method, x))
    <3>1. /\ rows = GroupedBy({s \in Sold(r) : r.methods # {} => What[s].method \in r.methods},
                              LAMBDA s : What[s].method)
          /\ S = {s \in Sold(r) : r.methods # {} => What[s].method \in r.methods}
      BY <2>byMethod DEF Aggregated, Aggregates, Chosen, Wanted, Table, Queries, Kind, Stages
    <3>2. \A w \in S : What[w].method = method[w]
      BY <1>1
    <3> HIDE DEF S, method
    <3>3. /\ DOMAIN rows = {What[w].method : w \in S}
          /\ \A x \in DOMAIN rows : rows[x] = Totals({w \in S : What[w].method = x})
      BY <3>1 DEF GroupedBy
    <3>4. DOMAIN rows = Keys(S, method)
      BY <3>2, <3>3 DEF Keys
    <3>5. ASSUME NEW x \in Keys(S, method) PROVE rows[x] = Totals(WithKey(S, method, x))
      <4>1. {w \in S : What[w].method = x} = WithKey(S, method, x)
        BY <3>2 DEF WithKey
      <4> QED BY <3>3, <3>4, <4>1
    <3> QED BY <3>4, <3>5
  <2>byShop. ASSUME q = "byShop"
        PROVE  /\ DOMAIN rows = Keys(S, shop)
               /\ \A x \in Keys(S, shop) : rows[x] = Totals(WithKey(S, shop, x))
    <3>1. rows = GroupedBy(Sold(r), LAMBDA s : What[s].shop) /\ S = Sold(r)
      BY <2>byShop DEF Aggregated, Aggregates, Chosen, Wanted, Table, Queries, Kind, Stages
    <3>2. \A w \in S : What[w].shop = shop[w]
      BY <1>1
    <3> HIDE DEF S, shop
    <3>3. /\ DOMAIN rows = {What[w].shop : w \in S}
          /\ \A x \in DOMAIN rows : rows[x] = Totals({w \in S : What[w].shop = x})
      BY <3>1 DEF GroupedBy
    <3>4. DOMAIN rows = Keys(S, shop)
      BY <3>2, <3>3 DEF Keys
    <3>5. ASSUME NEW x \in Keys(S, shop) PROVE rows[x] = Totals(WithKey(S, shop, x))
      <4>1. {w \in S : What[w].shop = x} = WithKey(S, shop, x)
        BY <3>2 DEF WithKey
      <4> QED BY <3>3, <3>4, <4>1
    <3> QED BY <3>4, <3>5
  <2>byCategory. ASSUME q = "byCategory"
        PROVE  /\ DOMAIN rows = Keys(S, category)
               /\ \A x \in Keys(S, category) : rows[x] = Totals(WithKey(S, category, x))
    <3>1. rows = GroupedBy(Spent(r), LAMBDA s : What[s].category) /\ S = Spent(r)
      BY <2>byCategory DEF Aggregated, Aggregates, Chosen, Wanted, Table, Queries, Kind, Stages
    <3>2. \A w \in S : What[w].category = category[w]
      BY <1>1
    <3> HIDE DEF S, category
    <3>3. /\ DOMAIN rows = {What[w].category : w \in S}
          /\ \A x \in DOMAIN rows : rows[x] = Totals({w \in S : What[w].category = x})
      BY <3>1 DEF GroupedBy
    <3>4. DOMAIN rows = Keys(S, category)
      BY <3>2, <3>3 DEF Keys
    <3>5. ASSUME NEW x \in Keys(S, category) PROVE rows[x] = Totals(WithKey(S, category, x))
      <4>1. {w \in S : What[w].category = x} = WithKey(S, category, x)
        BY <3>2 DEF WithKey
      <4> QED BY <3>3, <3>4, <4>1
    <3> QED BY <3>4, <3>5
  <2>2. S \in SUBSET Writes
    BY <1>1
  <2> HIDE DEF S, method, shop, category
  <2>3. SumFunction([x \in DOMAIN rows |-> rows[x].amount]) = SumOf(S)
    <3>1. CASE q = "byPaymentMethod"
      BY <2>byMethod, <2>2, <3>1, GroupsAre
    <3>2. CASE q = "byShop"
      BY <2>byShop, <2>2, <3>2, GroupsAre
    <3>3. CASE q = "byCategory"
      BY <2>byCategory, <2>2, <3>3, GroupsAre
    <3> QED BY <1>3, <3>1, <3>2, <3>3 DEF Grouped
  <2>4. q \notin Plain /\ q \notin Listed
    BY <1>3 DEF Grouped, Plain, Listed, Limited
  <2> QED BY <1>3, <2>3, <2>4 DEF Figure, S
<1>4. CASE q \in Listed \ Limited
  <2>1. rows = S
    <3>1. q = "timelineSales" => rows = Sold(r) /\ S = Sold(r)
      BY DEF Aggregated, Lists, TimelineRows, Chosen, Wanted, Table, Queries, Kind, Stages
    <3>2. q = "timelineExpenses" => rows = Spent(r) /\ S = Spent(r)
      BY DEF Aggregated, Lists, TimelineRows, Chosen, Wanted, Table, Queries, Kind, Stages
    <3>3. q = "timelinePurchases" => rows = Bought(r) /\ S = Bought(r)
      BY DEF Aggregated, Lists, TimelineRows, Chosen, Wanted, Table, Queries, Kind, Stages
    <3>4. q = "timelineRefunds" => rows = Entries("REFUND", r) /\ S = Entries("REFUND", r)
      BY DEF Aggregated, Lists, TimelineRows, Chosen, Wanted, Table, Queries, Kind, Stages
    <3>5. q = "topItems" => rows = S
      BY DEF Aggregated, Lists, Chosen, Wanted, Table, Queries, Kind, Stages
    <3> HIDE DEF S
    <3> QED BY <1>4, <3>1, <3>2, <3>3, <3>4, <3>5 DEF Listed
  <2>2. q \notin Plain /\ q \notin Grouped
    BY <1>4 DEF Grouped, Plain, Listed, Limited
  <2> QED BY <1>1, <2>1, <2>2 DEF Figure
<1>5. CASE q \in Limited
  <2>1. rows \in {Newest(S, At, ListLimit), Newest(S, EntryAt, ListLimit), Newest(S, DateOf, ListLimit)}
    <3>1. q = "sales" => rows = Newest(Sold(r), At, ListLimit) /\ S = Sold(r)
      BY DEF Aggregated, Lists, Chosen, Wanted, Table, Queries, Kind, Stages
    <3>2. q = "refunds" => rows = Newest(Entries("REFUND", r), EntryAt, ListLimit) /\ S = Entries("REFUND", r)
      BY DEF Aggregated, Lists, Chosen, Wanted, Table, Queries, Kind, Stages
    <3>3. q = "expenses" => rows = Newest(Spent(r), DateOf, ListLimit) /\ S = Spent(r)
      BY DEF Aggregated, Lists, Chosen, Wanted, Table, Queries, Kind, Stages
    <3>4. q = "purchases" => rows = Newest(Bought(r), At, ListLimit) /\ S = Bought(r)
      BY DEF Aggregated, Lists, Chosen, Wanted, Table, Queries, Kind, Stages
    <3>5. q = "fundings" => rows = Newest(Entries("FUNDING", r), EntryAt, ListLimit) /\ S = Entries("FUNDING", r)
      BY DEF Aggregated, Lists, Chosen, Wanted, Table, Queries, Kind, Stages
    <3> HIDE DEF S
    <3> QED BY <1>5, <3>1, <3>2, <3>3, <3>4, <3>5 DEF Limited
  <2>2. q \notin Plain /\ q \notin Grouped
    BY <1>5 DEF Grouped, Plain, Limited
  <2>3. S \in SUBSET Writes
    BY <1>1
  <2> HIDE DEF S
  <2>4. rows \in SUBSET S /\ (Cardinality(rows) < ListLimit => rows = S)
    BY <2>1, <2>3, NewestIs
  <2> QED BY <1>1, <1>5, <2>2, <2>4 DEF Figure, Whole, S
<1>6. q \in Plain \cup Grouped \cup Listed
  BY DEF Queries, Kind, Plain, Grouped, Listed, Limited
<1> QED BY <1>2, <1>3, <1>4, <1>5, <1>6

---------------------------------------------------------------------------
\* Figures near the tables.

LEMMA SlackGrows ==
  ASSUME NEW d \in [Kind -> Nat], NEW e \in [Kind -> Nat], NEW j \in Kind, NEW n \in Nat, NEW k \in Kind,
         e[j] = d[j] + n, \A i \in Kind : i # j => e[i] = d[i]
  PROVE  /\ Slack(k, d) \in Nat /\ Slack(k, e) \in Nat /\ Slack(k, d) <= Slack(k, e)
         /\ k = j \/ (k = "SALE" /\ j = "REFUND") => Slack(k, e) = Slack(k, d) + n
<1>1. "SALE" \in Kind /\ "REFUND" \in Kind /\ \A i \in Kind : d[i] \in Nat /\ e[i] \in Nat
  BY DEF Kind
<1>2. CASE k = "SALE"
  <2>1. CASE j = "SALE"
    BY <1>1, <1>2, <2>1 DEF Slack
  <2>2. CASE j = "REFUND"
    BY <1>1, <1>2, <2>2 DEF Slack
  <2>3. CASE j # "SALE" /\ j # "REFUND"
    BY <1>1, <1>2, <2>3 DEF Slack
  <2> QED BY <2>1, <2>2, <2>3
<1>3. CASE k # "SALE"
  BY <1>1, <1>3 DEF Slack
<1> QED BY <1>2, <1>3

\* A figure stays near a table that changes by a row, if the slack allows for the row.
LEMMA NearAfter ==
  ASSUME NEW k, NEW q, NEW rows, NEW A \in SUBSET Writes, NEW B \in SUBSET Writes,
         NEW s \in Nat, NEW t \in Nat, s <= t, FigureNear(k, q, rows, A, s),
         \/ A = B
         \/ \E x \in Writes : (\A y \in Writes \ {x} : y \in A <=> y \in B) /\ Size(x) <= t - s
  PROVE  FigureNear(k, q, rows, B, t)
<1> SUFFICES ASSUME Whole(q, rows)
             PROVE  Figure(q, rows) \in Int /\ OffBy(Figure(q, rows), SumOf(B), t)
  BY DEF FigureNear
<1> DEFINE a == SumOf(A)
           b == SumOf(B)
           f == Figure(q, rows)
<1>1. a \in Int /\ b \in Int /\ f \in Int /\ OffBy(f, a, s)
  BY SumOfIs DEF FigureNear
<1>2. a = b \/ \E n \in Nat : OffBy(a, b, n) /\ n <= t - s
  BY OneApart, Amounts
<1> HIDE DEF a, b, f
<1>3. OffBy(f, b, t)
  BY <1>1, <1>2 DEF OffBy
<1> QED BY <1>1, <1>3 DEF b, f

LEMMA PairAfter ==
  ASSUME NEW k, NEW p, NEW q, NEW r, NEW ps, NEW qs, NEW A, NEW B, NEW s \in Nat, NEW t \in Nat, s <= t,
         FigureNear(k, p, ps, A, s), FigureNear(k, q, qs, B, s), PairNear(k, p, q, r, ps, qs, s)
  PROVE  PairNear(k, p, q, r, ps, qs, t)
BY DEF FigureNear, PairNear

\* A figure just read agrees with one read before, which is near the same table.
LEMMA PairAtOnce ==
  ASSUME NEW k \in Kind, NEW T \in SUBSET {w \in Writes : What[w].kind = k}, NEW p, NEW q, NEW r,
         NEW A, NEW B, A = {w \in T : Wanted(p, r, w)}, B = {w \in T : Wanted(q, r, w)},
         NEW ps, NEW qs, NEW slack \in Nat,
         FigureNear(k, p, ps, A, slack), FigureNear(k, q, qs, B, slack),
         \/ Whole(p, ps) => Figure(p, ps) = SumOf(A)
         \/ Whole(q, qs) => Figure(q, qs) = SumOf(B)
  PROVE  PairNear(k, p, q, r, ps, qs, slack)
<1> SUFFICES ASSUME Covers(k, p, q, r), Whole(p, ps), Whole(q, qs)
             PROVE  Figure(q, qs) <= Figure(p, ps) + slack
  BY DEF PairNear
<1>1. A \in SUBSET Writes /\ B \in SUBSET A /\ \A w \in A \ B : Amount(w) >= 0
  BY DEF Covers
<1>2. SumOf(B) <= SumOf(A) /\ SumOf(A) \in Int /\ SumOf(B) \in Int
  BY <1>1, PartOf, SumOfIs
<1>3. /\ Figure(p, ps) \in Int /\ OffBy(Figure(p, ps), SumOf(A), slack)
      /\ Figure(q, qs) \in Int /\ OffBy(Figure(q, qs), SumOf(B), slack)
  BY DEF FigureNear
<1> QED BY <1>2, <1>3 DEF OffBy

---------------------------------------------------------------------------
\* The tables while a report is built.

\* The clock, and a write that begins or ends without a commit, change no table.
LEMMA QuietTables ==
  ASSUME TablesOK, Tick \/ \E w \in Writes : Begin(w) \/ Rollback(w)
  PROVE  \A k \in Kind : \A r : Table(k, r)' = Table(k, r)
<1>1. \A x \in Writes : /\ tx[x].pc = "done" => tx'[x] = tx[x]
                        /\ tx[x].pc # "done" => tx'[x].pc # "done"
  <2>1. ASSUME NEW w \in Writes, Begin(w) \/ Rollback(w), NEW x \in Writes
        PROVE  /\ tx[x].pc = "done" => tx'[x] = tx[x]
               /\ tx[x].pc # "done" => tx'[x].pc # "done"
    <3>1. PICK c \in {Idle, [Idle EXCEPT !.pc = "open", !.seen = {now}]} : tx' = [tx EXCEPT ![w] = c]
      BY <2>1 DEF Begin, Rollback
    <3>2. Idle.pc = "idle" /\ [Idle EXCEPT !.pc = "open", !.seen = {now}].pc = "open"
      BY DEF Idle
    <3>3. c.pc # "done" /\ tx[w].pc # "done"
      BY <2>1, <3>2 DEF Begin, Rollback
    <3>4. tx'[w] = c /\ (x # w => tx'[x] = tx[x])
      BY <3>1 DEF TablesOK
    <3> QED BY <3>3, <3>4
  <2>2. ASSUME Tick, NEW x \in Writes
        PROVE  /\ tx[x].pc = "done" => tx'[x] = tx[x]
               /\ tx[x].pc # "done" => tx'[x].pc # "done"
    BY <2>2 DEF Tick, TablesOK, Tx
  <2> QED BY <2>1, <2>2
<1>4. \A kind : Done(kind)' = Done(kind)
  BY <1>1 DEF Done
<1>5. \A r : Sold(r)' = Sold(r)
  BY <1>1, <1>4 DEF Sold, In, IsRefunded, Done
<1>6. \A r : Spent(r)' = Spent(r) /\ Bought(r)' = Bought(r)
  BY <1>1, <1>4 DEF Spent, Bought, In, Done
<1>7. \A r, kind : Entries(kind, r)' = Entries(kind, r)
  BY <1>1, <1>4 DEF Entries, In, Done
<1> QED BY <1>5, <1>6, <1>7 DEF Table

\* A commit changes one row: its own, or the sale that it refunds, of the same amount.
LEMMA CommitTables ==
  ASSUME TablesOK, NEW w \in Writes, Commit(w), NEW k \in Kind, NEW r
  PROVE  \/ Table(k, r)' = Table(k, r)
         \/ /\ k = What[w].kind \/ (k = "SALE" /\ What[w].kind = "REFUND")
            /\ \E x \in Writes : /\ \A y \in Writes \ {x} : y \in Table(k, r)' <=> y \in Table(k, r)
                                 /\ Size(x) = Size(w)
<1>1. tx[w].pc = "open" /\ tx'[w].pc = "done" /\ \A x \in Writes : x # w => tx'[x] = tx[x]
  <2>1. PICK at \in tx[w].seen, entryAt \in tx[w].seen :
          tx' = [tx EXCEPT ![w].pc = "done", ![w].seen = {}, ![w].at = at, ![w].entryAt = entryAt]
    BY DEF Commit
  <2> QED BY <2>1 DEF Commit, TablesOK, Tx
<1>2. \A y \in Writes \ {w} : \A kind : y \in Done(kind)' <=> y \in Done(kind)
  BY <1>1 DEF Done
<1>3. \A kind : What[w].kind # kind => w \notin Done(kind) /\ w \notin Done(kind)'
  BY DEF Done
<1>4. CASE k # "SALE"
  <2>1. \A y \in Writes \ {w} : y \in Table(k, r)' <=> y \in Table(k, r)
    BY <1>1, <1>2, <1>4 DEF Table, Spent, Bought, Entries, In
  <2>2. What[w].kind # k => w \notin Table(k, r) /\ w \notin Table(k, r)'
    BY <1>3, <1>4 DEF Kind, Table, Spent, Bought, Entries, In
  <2>3. Table(k, r) \in SUBSET Writes /\ Table(k, r)' \in SUBSET Writes
    BY <1>4 DEF Table, Spent, Bought, Entries, In, Done
  <2>4. CASE What[w].kind = k
    BY <2>1, <2>4
  <2>5. CASE What[w].kind # k
    BY <2>1, <2>2, <2>3, <2>5
  <2> QED BY <2>4, <2>5
<1>5. CASE k = "SALE"
  <2>1. Table(k, r) = Sold(r) /\ Table(k, r)' = Sold(r)'
    BY <1>5 DEF Table
  <2>2. Sold(r) \in SUBSET Writes /\ Sold(r)' \in SUBSET Writes
    BY DEF Sold, In, Done
  <2>3. CASE What[w].kind = "SALE"
    <3>1. \A y \in Writes : IsRefunded(y)' <=> IsRefunded(y)
      BY <1>2, <1>3, <2>3 DEF IsRefunded, Done
    <3>2. \A y \in Writes \ {w} : y \in Sold(r)' <=> y \in Sold(r)
      BY <1>1, <1>2, <3>1 DEF Sold, In
    <3> QED BY <1>5, <2>1, <2>3, <3>2
  <2>4. CASE What[w].kind = "REFUND"
    <3> DEFINE x == What[w].of
    <3>1. x \in Writes /\ What[x].kind = "SALE" /\ Amount(w) = Total(x) /\ Amount(x) = Total(x)
      BY <2>4, Bounds, ReportsBounds DEF Amount
    <3>2. Size(x) = Size(w)
      BY <3>1 DEF Size
    <3>3. \A y \in Writes \ {x} : IsRefunded(y)' <=> IsRefunded(y)
      BY <1>2 DEF IsRefunded, Done
    <3>4. \A y \in Writes \ {x} : y \in Sold(r)' <=> y \in Sold(r)
      <4> SUFFICES ASSUME NEW y \in Writes \ {x} PROVE y \in Sold(r)' <=> y \in Sold(r)
        OBVIOUS
      <4>1. CASE y = w
        BY <1>3, <2>4, <4>1 DEF Sold, In
      <4>2. CASE y # w
        BY <1>1, <1>2, <3>3, <4>2 DEF Sold, In
      <4> QED BY <4>1, <4>2
    <3> HIDE DEF x
    <3> QED BY <1>5, <2>1, <2>4, <3>1, <3>2, <3>4
  <2>5. CASE What[w].kind # "SALE" /\ What[w].kind # "REFUND"
    <3>1. Done("SALE")' = Done("SALE") /\ Done("REFUND")' = Done("REFUND")
      BY <1>2, <1>3, <2>5 DEF Done
    <3>2. \A y \in Done("SALE") : tx'[y].at = tx[y].at
      BY <1>1 DEF Done
    <3>3. Sold(r)' = Sold(r)
      BY <3>1, <3>2 DEF Sold, In, IsRefunded
    <3> QED BY <2>1, <3>3
  <2> QED BY <2>3, <2>4, <2>5
<1> QED BY <1>4, <1>5

---------------------------------------------------------------------------
\* The steps of the writes and of a report keep the figures near the tables.

\* What a state says of the figures, and the queries of a kind.
LEMMA FiguresAre ==
  ASSUME ReportsInv, FiguresInv, report.pc # "idle", NEW k \in Kind,
         NEW q \in Queries[k] \cap DOMAIN report.got
  PROVE  /\ FigureNear(k, q, report.got[q], Chosen(k, q, report.request), Slack(k, report.during))
         /\ \A p \in Queries[k] \cap DOMAIN report.got :
              PairNear(k, p, q, report.request, report.got[p], report.got[q], Slack(k, report.during))
BY DEF FiguresInv, FiguresOK

\* Steps that change neither the tables nor the report.
LEMMA FiguresKept ==
  ASSUME FiguresInv, UNCHANGED << report, stock >>, \A k \in Kind : \A r : Table(k, r)' = Table(k, r)
  PROVE  FiguresInv'
<1> SUFFICES ASSUME report.pc # "idle" PROVE FiguresOK' /\ DuringOK' /\ StockReadOK' /\ AllRead'
  BY DEF FiguresInv
<1>1. FiguresOK /\ DuringOK /\ StockReadOK /\ AllRead
  BY DEF FiguresInv
<1>2. \A k \in Kind : \A q : Chosen(k, q, report.request)' = Chosen(k, q, report.request)
  BY DEF Chosen
<1>3. FiguresOK'
  BY <1>1, <1>2 DEF FiguresOK
<1> QED BY <1>1, <1>3 DEF DuringOK, StockReadOK, AllRead

\* A commit changes a row and counts it.
LEMMA FiguresCommit ==
  ASSUME ReportsInv, ReportsInv', FiguresInv, NEW w \in Writes, Commit(w)
  PROVE  FiguresInv'
<1> SUFFICES ASSUME report'.pc # "idle" PROVE FiguresOK' /\ DuringOK' /\ StockReadOK' /\ AllRead'
  BY DEF FiguresInv
<1>1. report.pc # "idle" /\ TablesOK /\ ReportOK
  <2>1. report.pc = "idle" => report' = report
    BY DEF Commit
  <2> QED BY <2>1 DEF ReportsInv
<1>2. FiguresOK /\ DuringOK /\ StockReadOK /\ AllRead
  BY <1>1 DEF FiguresInv
<1>3. PICK r, g, d : r = report.request /\ g = report.got /\ d = report.during
  OBVIOUS
<1> DEFINE j == What[w].kind
           n == Size(w)
           e == [d EXCEPT ![j] = d[j] + n]
<1>4. j \in Kind /\ n \in Nat /\ d \in [Kind -> Nat]
  BY <1>2, <1>3, Amounts DEF DuringOK
<1>5. /\ report'.pc = report.pc /\ report'.request = r /\ report'.got = g
      /\ report'.during = e /\ report'.commits = report.commits + 1
  <2>1. report' = [report EXCEPT !.during = e, !.commits = report.commits + 1]
    BY <1>1, <1>3 DEF Commit, ReportOK
  <2> HIDE DEF e
  <2> QED BY <1>1, <1>3, <2>1 DEF ReportOK
<1>6. e \in [Kind -> Nat] /\ e[j] = d[j] + n /\ \A i \in Kind : i # j => e[i] = d[i]
  <2> HIDE DEF j, n
  <2>1. d[j] + n \in Nat
    BY <1>4
  <2> QED BY <1>4, <2>1
<1> HIDE DEF e
<1>slack. \A k \in Kind :
            /\ Slack(k, d) \in Nat /\ Slack(k, e) \in Nat /\ Slack(k, d) <= Slack(k, e)
            /\ k = j \/ (k = "SALE" /\ j = "REFUND") => Slack(k, e) = Slack(k, d) + n
  <2> HIDE DEF j, n
  <2> QED BY <1>4, <1>6, SlackGrows
<1>7. ASSUME NEW k \in Kind, NEW q \in Queries[k] \cap DOMAIN g
      PROVE  FigureNear(k, q, g[q], Chosen(k, q, r)', Slack(k, e))
  <2>1. FigureNear(k, q, g[q], Chosen(k, q, r), Slack(k, d))
    BY <1>1, <1>3, <1>7, FiguresAre
  <2>2. PICK A, B : A = Chosen(k, q, r) /\ B = Chosen(k, q, r)'
    OBVIOUS
  <2>3. A \in SUBSET Writes /\ B \in SUBSET Writes
    <3>1. Table(k, r) \in SUBSET Writes /\ Table(k, r)' \in SUBSET Writes
      BY DEF Kind, Table, Sold, Spent, Bought, Entries, In, Done
    <3> QED BY <2>2, <3>1 DEF Chosen
  <2>4. \/ A = B
        \/ \E x \in Writes : (\A y \in Writes \ {x} : y \in A <=> y \in B) /\ Size(x) <= Slack(k, e) - Slack(k, d)
    <3>1. CASE Table(k, r)' = Table(k, r)
      BY <2>2, <3>1 DEF Chosen
    <3>2. CASE Table(k, r)' # Table(k, r)
      <4>1. /\ k = j \/ (k = "SALE" /\ j = "REFUND")
            /\ \E x \in Writes : /\ \A y \in Writes \ {x} : y \in Table(k, r)' <=> y \in Table(k, r)
                                 /\ Size(x) = n
        BY <1>1, <3>2, CommitTables
      <4>2. PICK x \in Writes : /\ \A y \in Writes \ {x} : y \in Table(k, r)' <=> y \in Table(k, r)
                                /\ Size(x) = n
        BY <4>1
      <4>3. \A y \in Writes \ {x} : y \in A <=> y \in B
        BY <2>2, <4>2 DEF Chosen
      <4>4. Size(x) <= Slack(k, e) - Slack(k, d)
        BY <1>4, <1>slack, <4>1, <4>2
      <4> QED BY <4>3, <4>4
    <3> QED BY <3>1, <3>2
  <2>5. FigureNear(k, q, g[q], B, Slack(k, e))
    BY <1>slack, <2>1, <2>2, <2>3, <2>4, NearAfter
  <2> QED BY <2>2, <2>5
<1>8. ASSUME NEW k \in Kind, NEW q \in Queries[k] \cap DOMAIN g, NEW p \in Queries[k] \cap DOMAIN g
      PROVE  PairNear(k, p, q, r, g[p], g[q], Slack(k, e))
  <2>1. /\ FigureNear(k, q, g[q], Chosen(k, q, r), Slack(k, d))
        /\ FigureNear(k, p, g[p], Chosen(k, p, r), Slack(k, d))
        /\ PairNear(k, p, q, r, g[p], g[q], Slack(k, d))
    BY <1>1, <1>3, <1>8, FiguresAre
  <2> QED BY <1>slack, <2>1, PairAfter
<1>9. FiguresOK'
  BY <1>5, <1>7, <1>8 DEF FiguresOK
<1>10. DuringOK' /\ StockReadOK' /\ AllRead'
  <2>1. report.commits \in Nat /\ report'.commits # 0
    BY <1>1, <1>5, Bounds DEF ReportOK
  <2>2. e \in [Kind -> Nat]
    BY <1>6
  <2>3. AllRead'
    BY <1>2, <1>3, <1>5 DEF AllRead, Needed
  <2> QED BY <1>5, <2>1, <2>2, <2>3 DEF DuringOK, StockReadOK
<1> QED BY <1>9, <1>10

\* A query reads what is in the tables now.
LEMMA FiguresRead ==
  ASSUME ReportsInv, FiguresInv, report.pc = "reading", NEW q \in Pending, Read(q)
  PROVE  FiguresInv'
<1>1. TablesOK /\ ReportOK /\ FiguresOK /\ DuringOK /\ StockReadOK
  BY DEF ReportsInv, FiguresInv
<1>2. q \notin DOMAIN report.got
  BY DEF Pending, Unread
<1>3. PICK r, g, d, rows : r = report.request /\ g = report.got /\ d = report.during /\ rows = Rows(q)
  OBVIOUS
<1> DEFINE h == [p \in DOMAIN g \cup {q} |-> IF p = q THEN rows ELSE g[p]]
<1>4. /\ report'.pc = "reading" /\ report'.request = r /\ report'.got = h
      /\ report'.during = d /\ report'.commits = report.commits
  <2>1. report' = [report EXCEPT !.got = h]
    BY <1>1, <1>3 DEF Read, ReportOK
  <2> HIDE DEF h
  <2> QED BY <1>1, <1>3, <2>1 DEF ReportOK
<1>5. DOMAIN h = DOMAIN g \cup {q} /\ h[q] = rows /\ \A p \in DOMAIN g : h[p] = g[p]
  BY <1>2, <1>3
<1> HIDE DEF h
<1>6. UNCHANGED << now, tx, stock >>
  BY DEF Read
<1>7. ASSUME NEW k \in Kind
      PROVE  Slack(k, d) \in Nat
  BY <1>1, <1>3 DEF DuringOK, Kind, Slack
<1>8. ASSUME NEW k \in Kind, NEW p \in Queries[k] \cap DOMAIN h
      PROVE  /\ FigureNear(k, p, h[p], Chosen(k, p, r), Slack(k, d))
             /\ p = q => (Whole(p, h[p]) => Figure(p, h[p]) = SumOf(Chosen(k, p, r)))
  <2>1. CASE p = q
    <3>1. rows = IF p \in Aggregated THEN Aggregates(p, r) ELSE Lists(p, r)
      BY <1>3, <2>1 DEF Rows
    <3>2. /\ p \in Listed => rows \in SUBSET {w \in Writes : What[w].kind = k}
          /\ Whole(p, rows) => Figure(p, rows) = SumOf(Chosen(k, p, r))
      BY <1>1, <1>8, <3>1, FreshFigure
    <3>3. SumOf(Chosen(k, p, r)) \in Int
      <4>1. Chosen(k, p, r) \in SUBSET Writes
        BY TableIs DEF Chosen
      <4> QED BY <4>1, SumOfIs
    <3>4. OffBy(SumOf(Chosen(k, p, r)), SumOf(Chosen(k, p, r)), Slack(k, d))
      BY <1>7, <3>3 DEF OffBy
    <3> QED BY <1>5, <2>1, <3>2, <3>3, <3>4 DEF FigureNear
  <2>2. CASE p # q
    BY <1>3, <1>5, <1>8, <2>2, FiguresAre
  <2> QED BY <2>1, <2>2
<1>9. ASSUME NEW k \in Kind, NEW i \in Queries[k] \cap DOMAIN h, NEW p \in Queries[k] \cap DOMAIN h
      PROVE  PairNear(k, p, i, r, h[p], h[i], Slack(k, d))
  <2>1. CASE p = q \/ i = q
    <3>1. /\ Table(k, r) \in SUBSET {w \in Writes : What[w].kind = k}
          /\ Chosen(k, p, r) = {w \in Table(k, r) : Wanted(p, r, w)}
          /\ Chosen(k, i, r) = {w \in Table(k, r) : Wanted(i, r, w)}
      BY TableIs DEF Chosen
    <3>2. /\ FigureNear(k, p, h[p], Chosen(k, p, r), Slack(k, d))
          /\ FigureNear(k, i, h[i], Chosen(k, i, r), Slack(k, d))
          /\ \/ Whole(p, h[p]) => Figure(p, h[p]) = SumOf(Chosen(k, p, r))
             \/ Whole(i, h[i]) => Figure(i, h[i]) = SumOf(Chosen(k, i, r))
      BY <1>8, <1>9, <2>1
    <3> QED BY <1>7, <3>1, <3>2, PairAtOnce
  <2>2. CASE p # q /\ i # q
    BY <1>3, <1>5, <1>9, <2>2, FiguresAre
  <2> QED BY <2>1, <2>2
<1>10. FiguresOK'
  <2>1. \A k \in Kind : \A p : Chosen(k, p, r)' = Chosen(k, p, r)
    BY <1>6 DEF Chosen, Table, Sold, Spent, Bought, Entries, In, Done, IsRefunded
  <2> QED BY <1>4, <1>8, <1>9, <2>1 DEF FiguresOK
<1>11. StockReadOK'
  <2>1. SUFFICES ASSUME report.commits = 0, "inventory" \in DOMAIN h
                 PROVE  h["inventory"] = [s \in r.shops |-> stock[s]]
    BY <1>4, <1>6 DEF StockReadOK
  <2>2. CASE q = "inventory"
    <3>1. Rows(q) = [s \in r.shops |-> stock[s]]
      BY <1>3, <2>2 DEF Rows, Aggregated, Aggregates, Stages
    <3> QED BY <1>3, <1>5, <2>2, <3>1
  <2>3. CASE q # "inventory"
    BY <1>1, <1>3, <1>5, <2>1, <2>3 DEF StockReadOK
  <2> QED BY <2>2, <2>3
<1>12. DuringOK' /\ AllRead'
  BY <1>1, <1>3, <1>4 DEF DuringOK, AllRead
<1> QED BY <1>10, <1>11, <1>12 DEF FiguresInv

\* When no query is pending, all that are needed have been made.
LEMMA NothingPending ==
  ASSUME Pending = {}
  PROVE  Needed(report.request) \subseteq DOMAIN report.got
<1> DEFINE Bad == {i \in DOMAIN Stages : Unread(i) # {}}
<1>1. DOMAIN Stages = 1..12
  BY DEF Stages
<1>2. Bad = {}
  <2> SUFFICES ASSUME Bad # {} PROVE FALSE
    OBVIOUS
  <2>1. Bad \subseteq Nat
    BY <1>1
  <2>2. PICK i \in Bad : \A k \in Bad : ~(<<k, i>> \in OpToRel(<, Nat))
    BY <2>1, NatLessThanWellFounded, WFMin
  <2>3. \A k \in 1..(i - 1) : Unread(k) = {}
    <3> SUFFICES ASSUME NEW k \in 1..(i - 1), Unread(k) # {} PROVE FALSE
      OBVIOUS
    <3>1. i \in 1..12 /\ k \in 1..12 /\ k < i
      BY <1>1
    <3>2. k \in Bad
      BY <1>1, <3>1
    <3>3. <<k, i>> \in OpToRel(<, Nat)
      BY <3>1 DEF OpToRel
    <3> QED BY <2>2, <3>2, <3>3
  <2>4. Unread(i) \subseteq Pending
    BY <2>3 DEF Pending
  <2> QED BY <2>4
<1>3. Needed(report.request) \subseteq UNION {Stages[i] : i \in 1..12}
  BY DEF Needed, Stages
<1>4. ASSUME NEW q \in Needed(report.request), q \notin DOMAIN report.got PROVE FALSE
  <2>1. PICK i \in 1..12 : q \in Stages[i]
    BY <1>3, <1>4
  <2>2. q \in Unread(i)
    BY <1>4, <2>1 DEF Unread
  <2> QED BY <1>1, <1>2, <2>2
<1> QED BY <1>4

\* Every step keeps the figures near the tables.
LEMMA FiguresStep == ReportsInv /\ ReportsInv' /\ FiguresInv /\ [Next]_vars => FiguresInv'
<1> SUFFICES ASSUME ReportsInv, ReportsInv', FiguresInv, [Next]_vars PROVE FiguresInv'
  OBVIOUS
<1>1. TablesOK /\ ReportOK
  BY DEF ReportsInv
<1>2. UNCHANGED tx => \A k \in Kind : \A r : Table(k, r)' = Table(k, r)
  BY DEF Table, Sold, Spent, Bought, Entries, In, Done, IsRefunded
<1>3. CASE UNCHANGED vars
  BY <1>2, <1>3, FiguresKept DEF vars
<1>4. ASSUME NEW w \in Writes, Begin(w) \/ Rollback(w) PROVE FiguresInv'
  <2>1. UNCHANGED << report, stock >>
    BY <1>4 DEF Begin, Rollback
  <2> QED BY <1>1, <1>4, <2>1, QuietTables, FiguresKept
<1>5. CASE Tick
  BY <1>1, <1>5, QuietTables, FiguresKept DEF Tick
<1>6. ASSUME NEW body \in Bodies, Generate(body) PROVE FiguresInv'
  <2>1. /\ report'.pc = "reading" /\ report'.got = << >> /\ report'.during = Nothing
        /\ report'.commits = 0
    BY <1>6 DEF Generate, NoReport
  <2>2. DOMAIN report'.got = {} /\ Nothing \in [Kind -> Nat]
    BY <2>1 DEF Nothing
  <2>3. FiguresOK'
    BY <2>2 DEF FiguresOK
  <2> QED BY <2>1, <2>2, <2>3 DEF FiguresInv, DuringOK, StockReadOK, AllRead
<1>7. CASE Save
  <2>1. /\ report.pc = "reading" /\ report'.pc = "answered" /\ report'.request = report.request
        /\ report'.got = report.got /\ report'.during = report.during /\ report'.commits = report.commits
    BY <1>1, <1>7 DEF Save, ReportOK
  <2>2. FiguresOK /\ DuringOK /\ StockReadOK /\ Needed(report.request) \subseteq DOMAIN report.got
    BY <1>7, <2>1, NothingPending DEF Save, FiguresInv
  <2>3. \A k \in Kind : \A q : Chosen(k, q, report.request)' = Chosen(k, q, report.request)
    BY <1>2, <1>7, <2>1 DEF Save, Chosen
  <2>4. FiguresOK'
    BY <2>1, <2>2, <2>3 DEF FiguresOK
  <2>5. DuringOK' /\ StockReadOK' /\ AllRead'
    BY <1>7, <2>1, <2>2 DEF Save, DuringOK, StockReadOK, AllRead, Needed
  <2> QED BY <2>4, <2>5 DEF FiguresInv
<1>8. CASE EndReport
  BY <1>8, NoReportIs DEF EndReport, FiguresInv
<1> QED BY <1>3, <1>4, <1>5, <1>6, <1>7, <1>8, FiguresCommit, FiguresRead DEF Next

\* Whatever has been written while a report is built is counted, and each figure the
\* report has read differs from the tables by no more.
THEOREM FiguresNearTables == Spec => []FiguresInv
<1>1. Init => FiguresInv
  BY NoReportIs DEF Init, FiguresInv
<1> QED BY <1>1, FiguresStep, ReportsInductive, PTL DEF Spec

---------------------------------------------------------------------------
\* An answered report.

\* Two figures of the same rows: one that covers the other is not lower, by more than
\* what has been written meanwhile.
LEMMA TwoFigures ==
  ASSUME ReportsInv, FiguresInv, Answered, NEW k \in Kind,
         NEW p \in Queries[k] \cap Needed(report.request), NEW q \in Queries[k] \cap Needed(report.request),
         Whole(p, Got(p)), Whole(q, Got(q)), Covers(k, p, q, report.request)
  PROVE  /\ Figure(p, Got(p)) \in Int /\ Figure(q, Got(q)) \in Int /\ Slack(k, report.during) \in Nat
         /\ Figure(q, Got(q)) <= Figure(p, Got(p)) + Slack(k, report.during)
         /\ Covers(k, q, p, report.request) =>
              OffBy(Figure(p, Got(p)), Figure(q, Got(q)), Slack(k, report.during))
<1>1. report.pc # "idle" /\ Needed(report.request) \subseteq DOMAIN report.got /\ DuringOK
  BY DEF Answered, FiguresInv, AllRead
<1>2. p \in Queries[k] \cap DOMAIN report.got /\ q \in Queries[k] \cap DOMAIN report.got
  BY <1>1
<1>3. Slack(k, report.during) \in Nat
  BY <1>1 DEF DuringOK, Kind, Slack
<1>4. /\ Figure(p, Got(p)) \in Int /\ Figure(q, Got(q)) \in Int
      /\ PairNear(k, p, q, report.request, Got(p), Got(q), Slack(k, report.during))
      /\ PairNear(k, q, p, report.request, Got(q), Got(p), Slack(k, report.during))
  BY <1>1, <1>2, FiguresAre DEF FigureNear, Got
<1> QED BY <1>3, <1>4 DEF PairNear, OffBy

\* The lists of an answered report.
LEMMA ListIs ==
  ASSUME ReportsInv, FiguresInv, Answered, NEW k \in Kind, NEW q \in Queries[k] \cap Needed(report.request),
         q \in Listed
  PROVE  Got(q) \in SUBSET {w \in Writes : What[w].kind = k}
<1>1. report.pc # "idle" /\ q \in Queries[k] \cap DOMAIN report.got
  BY DEF Answered, FiguresInv, AllRead
<1> QED BY <1>1, FiguresAre DEF FigureNear, Got

\* The kind of rows each query of a timeline reads.
LEMMA TimelineKinds ==
  ASSUME NEW q \in Stages[5]
  PROVE  q \in Listed \ Limited /\ \E k \in Kind : q \in Queries[k]
<1>1. q \in {"timelineSales", "timelineExpenses", "timelinePurchases", "timelineRefunds"}
  BY DEF Stages
<1>2. q \in Listed \ Limited
  BY <1>1 DEF Listed, Limited
<1>3. \/ q \in Queries["SALE"] \/ q \in Queries["EXPENSE"]
      \/ q \in Queries["PURCHASE"] \/ q \in Queries["REFUND"]
  BY <1>1 DEF Queries
<1> QED BY <1>2, <1>3 DEF Kind

\* The points of a timeline add up to the rows of the periods it shows, and to all rows
\* when it shows every period.
LEMMA TimelineIs ==
  ASSUME ReportsInv, FiguresInv, Timed, NEW q \in Stages[5]
  PROVE  /\ q \in Needed(report.request) /\ Got(q) \in SUBSET Writes
         /\ \E part \in SUBSET Got(q) : TimelineSum(q) = SumOf(part) /\ (Complete => part = Got(q))
<1> DEFINE r == report.request
           LP == LastPoints(r.points)
<1>1. Answered /\ r \in Body /\ r.groupBy \in DOMAIN PeriodLength /\ Stages[5] \subseteq Needed(r)
  BY DEF Timed, Has, Answered, ReportsInv, ReportOK, Needed
<1>2. ASSUME NEW p \in Stages[5]
      PROVE  Got(p) \in SUBSET Writes
  <2>1. PICK k \in Kind : p \in Queries[k]
    BY TimelineKinds
  <2> QED BY <1>1, <2>1, TimelineKinds, ListIs
<1>3. \A p, w : w \in Writes => PeriodOf(p, w) \in Int
  <2> SUFFICES ASSUME NEW p, NEW w \in Writes PROVE PeriodOf(p, w) \in Int
    OBVIOUS
  <2>1. tx[w].at \in Nat /\ tx[w].entryAt \in Nat /\ What[w].date \in Nat
    <3>1. tx[w].at \in Nat /\ tx[w].entryAt \in Nat
      BY Bounds DEF ReportsInv, TablesOK, Tx
    <3>2. What[w].date \in Nat
      BY Bounds DEF Write
    <3> QED BY <3>1, <3>2
  <2>2. PeriodLength[r.groupBy] \in Nat \ {0}
    BY <1>1, ReportsBounds
  <2>3. \A t \in Nat : PeriodKey(t, r) \in Int
    <3> DEFINE n == PeriodLength[r.groupBy]
    <3>1. \A t \in Nat : t \div n \in Int
      <4> HIDE DEF n, r
      <4>1. n \in Nat /\ n > 0
        BY <2>2 DEF n
      <4> QED BY <4>1
    <3> QED BY <3>1 DEF PeriodKey
  <2> QED BY <2>1, <2>3 DEF PeriodOf, DateOf, EntryAt, At
<1>4. IsFiniteSet(Periods) /\ Periods \subseteq Int
  <2> DEFINE of(p) == {PeriodOf(p, w) : w \in Got(p)}
  <2>1. ASSUME NEW p \in Stages[5] PROVE IsFiniteSet(of(p)) /\ of(p) \subseteq Int
    <3> DEFINE key == [w \in Writes |-> PeriodOf(p, w)]
    <3>1. of(p) = Keys(Got(p), key)
      BY <1>2 DEF Keys
    <3>2. IsFiniteSet(Got(p))
      BY <1>2, SumOfIs
    <3> HIDE DEF key
    <3> QED BY <1>2, <1>3, <3>1, <3>2, KeysFinite
  <2>2. Periods = (of("timelineSales") \cup of("timelineExpenses"))
                    \cup (of("timelinePurchases") \cup of("timelineRefunds"))
    BY DEF Periods, Stages
  <2>3. \A p \in {"timelineSales", "timelineExpenses", "timelinePurchases", "timelineRefunds"} :
          IsFiniteSet(of(p)) /\ of(p) \subseteq Int
    BY <2>1 DEF Stages
  <2> HIDE DEF of
  <2>4. /\ IsFiniteSet(of("timelineSales") \cup of("timelineExpenses"))
        /\ IsFiniteSet(of("timelinePurchases") \cup of("timelineRefunds"))
    BY <2>3, FS_Union
  <2> QED BY <2>2, <2>3, <2>4, FS_Union
<1>5. LP \in SUBSET Periods /\ IsFiniteSet(LP)
  <2>1. LP \in SUBSET Periods
    BY DEF LastPoints
  <2> QED BY <1>4, <2>1, FS_Subset
<1>6. ASSUME Complete PROVE LP = Periods
  <2> SUFFICES ASSUME NEW k \in Periods PROVE Cardinality({l \in Periods : l > k}) < r.points
    BY DEF LastPoints
  <2> DEFINE later == {l \in Periods : l > k}
  <2>1. later \in SUBSET Periods /\ later # Periods /\ k \in Int
    BY <1>4
  <2>2. Cardinality(later) < Cardinality(Periods)
    <3> HIDE DEF later
    <3>1. Cardinality(later) <= Cardinality(Periods) /\ Cardinality(later) # Cardinality(Periods)
      BY <1>4, <2>1, FS_Subset
    <3>2. Cardinality(later) \in Nat /\ Cardinality(Periods) \in Nat
      BY <1>4, <2>1, FS_Subset, FS_CardinalityType
    <3> QED BY <3>1, <3>2
  <2>3. Cardinality(Periods) <= r.points /\ r.points \in Nat
    BY <1>1, <1>6 DEF Complete, Body
  <2>4. Cardinality(later) \in Nat /\ Cardinality(Periods) \in Nat
    BY <1>4, <2>1, FS_Subset, FS_CardinalityType
  <2> HIDE DEF later, r
  <2>5. Cardinality(later) < r.points
    BY <2>2, <2>3, <2>4
  <2> QED BY <2>5 DEF later, r
<1> DEFINE key == [w \in Writes |-> PeriodOf(q, w)]
           part == {w \in Got(q) : key[w] \in LP}
<1>7. TimelineSum(q) = SumOf(part)
  <2>1. q # "net" /\ q \in Stages[5] \cup {"net"}
    BY DEF Stages
  <2>2. \A k : Point(k)[q] = SumOf({w \in Got(q) : PeriodOf(q, w) = k})
    BY DEF Point
  <2>3. \A k : {w \in Got(q) : PeriodOf(q, w) = k} = {w \in Got(q) : key[w] = k}
    BY <1>2
  <2>4. DOMAIN Timeline = LP /\ \A k \in LP : Timeline[k][q] = Point(k)[q]
    BY <2>1 DEF Timeline
  <2>5. [k \in DOMAIN Timeline |-> Timeline[k][q]] = [k \in LP |-> SumOf({w \in Got(q) : key[w] = k})]
    <3> HIDE DEF LP, key
    <3>1. ASSUME NEW k \in LP PROVE Timeline[k][q] = SumOf({w \in Got(q) : key[w] = k})
      <4>1. {w \in Got(q) : PeriodOf(q, w) = k} = {w \in Got(q) : key[w] = k}
        BY <2>3
      <4>2. Timeline[k][q] = SumOf({w \in Got(q) : PeriodOf(q, w) = k})
        BY <2>2, <2>4
      <4> QED BY <4>1, <4>2
    <3> QED BY <2>4, <3>1
  <2> HIDE DEF LP, key
  <2>6. SumFunction([k \in LP |-> SumOf({w \in Got(q) : key[w] = k})]) = SumOf(part)
    BY <1>2, <1>5, SumOfByKey
  <2> QED BY <2>5, <2>6 DEF TimelineSum
<1>8. part \in SUBSET Got(q)
  OBVIOUS
<1>9. Complete => part = Got(q)
  <2> SUFFICES ASSUME Complete, NEW w \in Got(q) PROVE key[w] \in LP
    OBVIOUS
  <2>1. key[w] = PeriodOf(q, w)
    BY <1>2
  <2>2. PeriodOf(q, w) \in Periods
    BY DEF Periods
  <2> HIDE DEF key, LP
  <2> QED BY <1>6, <2>1, <2>2
<1> HIDE DEF part, key, LP
<1> QED BY <1>1, <1>2, <1>7, <1>8, <1>9

\* What is sold of each product and what the totals are beyond their items add up to what
\* is sold.
LEMMA ProductsAre ==
  ASSUME NEW S \in SUBSET {w \in Writes : What[w].kind = "SALE"}, S = Got("topItems"),
         TopProducts = DOMAIN ByVariant
  PROVE  SumFunction([v \in TopProducts |-> ByVariant[v].revenue])
           + SumFunction([s \in S |-> Beyond(s)]) = SumOf(S)
<1> DEFINE variant == [w \in Writes |-> What[w].variant]
           V == Keys(S, variant)
           sub == [w \in Writes |-> Subtotal(w)]
           off == [s \in S |-> Beyond(s)]
<1>1. IsFiniteSet(S) /\ S \in SUBSET Writes
  BY SumOfIs
<1>2. \A s \in S : sub[s] \in Int /\ off[s] \in Int /\ Worth[s] \in Int /\ Worth[s] = sub[s] + off[s]
  <2> SUFFICES ASSUME NEW s \in S
               PROVE  sub[s] \in Int /\ off[s] \in Int /\ Worth[s] \in Int /\ Worth[s] = sub[s] + off[s]
    OBVIOUS
  <2>1. sub[s] = Subtotal(s) /\ off[s] = Total(s) - Subtotal(s) /\ Worth[s] = Total(s)
    <3>1. s \in Writes /\ What[s].kind = "SALE"
      OBVIOUS
    <3>2. Worth[s] = Total(s)
      BY <3>1, WorthIs DEF Amount
    <3> QED BY <3>2 DEF Beyond
  <2>2. Subtotal(s) \in Int /\ Total(s) \in Int
    BY TotalType
  <2> HIDE DEF sub, off
  <2> QED BY <2>1, <2>2
<1>3. DOMAIN ByVariant = V
  <2>1. {What[s].variant : s \in S} = V
    BY DEF Keys
  <2> QED BY <2>1 DEF ByVariant
<1>4. \A v \in V : ByVariant[v].revenue = SumFunctionOnSet(sub, {x \in S : variant[x] = v})
  <2> SUFFICES ASSUME NEW v \in V
               PROVE  ByVariant[v].revenue = SumFunctionOnSet(sub, {x \in S : variant[x] = v})
    OBVIOUS
  <2> DEFINE of == {s \in S : What[s].variant = v}
  <2>1. ByVariant[v].revenue = SumFunction([s \in of |-> Subtotal(s)])
    BY <1>3 DEF ByVariant
  <2>2. of = {x \in S : variant[x] = v} /\ IsFiniteSet(of)
    <3>1. of \in SUBSET Writes /\ of = {x \in S : variant[x] = v}
      OBVIOUS
    <3> HIDE DEF of
    <3> QED BY <3>1, SumOfIs
  <2> DEFINE f == [s \in of |-> Subtotal(s)]
  <2>3. SumFunction(f) = SumFunctionOnSet(f, of) /\ \A s \in of : f[s] = sub[s]
    BY DEF SumFunction
  <2> HIDE DEF f
  <2>4. SumFunctionOnSet(f, of) = SumFunctionOnSet(sub, of)
    BY <2>2, <2>3, SumSame
  <2> QED BY <2>1, <2>2, <2>3, <2>4 DEF f
<1>5. SumFunction([v \in TopProducts |-> ByVariant[v].revenue]) = SumFunctionOnSet(sub, S)
  <2> DEFINE g == [v \in V |-> SumFunctionOnSet(sub, {x \in S : variant[x] = v})]
  <2>1. [v \in TopProducts |-> ByVariant[v].revenue] = g
    <3> HIDE DEF V, sub, variant
    <3> QED BY <1>3, <1>4
  <2>2. SumFunction(g) = SumFunctionOnSet(g, V)
    BY DEF SumFunction
  <2>3. IsFiniteSet(V)
    BY <1>1, KeysFinite
  <2>4. {x \in S : variant[x] \in V} = S
    BY DEF Keys
  <2> HIDE DEF V, sub, variant, off
  <2>5. SumFunctionOnSet([v \in V |-> SumFunctionOnSet(sub, {x \in S : variant[x] = v})], V)
          = SumFunctionOnSet(sub, {x \in S : variant[x] \in V})
    BY <1>1, <1>2, <2>3, SumByKey
  <2> QED BY <2>1, <2>2, <2>4, <2>5
<1>6. SumFunction(off) = SumFunctionOnSet(off, S)
  BY DEF SumFunction
<1> HIDE DEF sub, off
<1>7. SumFunctionOnSet(Worth, S) = SumFunctionOnSet(sub, S) + SumFunctionOnSet(off, S)
  BY <1>1, <1>2, SumPlus
<1>9. SumOf(S) = SumFunctionOnSet(Worth, S)
  BY <1>1, SumOfIs
<1> QED BY <1>5, <1>6, <1>7, <1>9 DEF off

---------------------------------------------------------------------------
\* The figures of an answered report agree.

\* Which figures are needed for what the report shows.
LEMMA NeededFor ==
  ASSUME NEW r
  PROVE  /\ {"completed", "refund", "expense", "purchase", "funding"} \subseteq Needed(r)
         /\ r.include \cap {"byPaymentMethod", "byShop", "byCategory", "sales", "refunds",
                            "expenses", "purchases"} \subseteq Needed(r)
         /\ "topProducts" \in r.include => "topItems" \in Needed(r)
         /\ "funding" \in r.include => "fundings" \in Needed(r)
         /\ "inventorySnapshot" \in r.include => "inventory" \in Needed(r)
BY DEF Needed

\* Queries that filter nothing read the same rows.
LEMMA Alike ==
  ASSUME NEW k, NEW p, NEW q, NEW r,
         p = "expense" \/ q = "expense" => r.categories = {},
         p = "byPaymentMethod" \/ q = "byPaymentMethod" => r.methods = {},
         p = "topItems" \/ q = "topItems" => r.variants = {}
  PROVE  Covers(k, p, q, r) /\ Covers(k, q, p, r)
BY DEF Covers, Wanted

LEMMA OffByTurned == ASSUME NEW a, NEW b, NEW s, OffBy(a, b, s) PROVE OffBy(b, a, s)
BY DEF OffBy

\* Two unfiltered figures are off by no more than what has been written meanwhile.
LEMMA SameFigures ==
  ASSUME ReportsInv, FiguresInv, Answered, NEW k \in Kind,
         NEW p \in Queries[k] \cap Needed(report.request), NEW q \in Queries[k] \cap Needed(report.request),
         Whole(p, Got(p)), Whole(q, Got(q)),
         p = "expense" \/ q = "expense" => report.request.categories = {},
         p = "byPaymentMethod" \/ q = "byPaymentMethod" => report.request.methods = {},
         p = "topItems" \/ q = "topItems" => report.request.variants = {}
  PROVE  OffBy(Figure(p, Got(p)), Figure(q, Got(q)), Slack(k, report.during))
<1>1. Covers(k, p, q, report.request) /\ Covers(k, q, p, report.request)
  BY Alike
<1> QED BY <1>1, TwoFigures

\* What the figures are called in the payload.
LEMMA FigureNames ==
  /\ \A q \in Plain : Figure(q, Got(q)) = Got(q).amount
  /\ \A q \in Grouped : Figure(q, Got(q)) = GroupSum(q)
  /\ \A q \in Listed : Figure(q, Got(q)) = SumOf(Got(q))
  /\ \A q : q \notin Limited => Whole(q, Got(q))
  /\ \A q : AllListed(q) => Whole(q, Got(q))
<1>1. Plain \cap Grouped = {} /\ Plain \cap Listed = {} /\ Grouped \cap Listed = {}
  BY DEF Plain, Grouped, Listed, Limited
<1>2. \A q \in Plain : Figure(q, Got(q)) = Got(q).amount
  BY DEF Figure
<1>3. \A q \in Grouped : Figure(q, Got(q)) = GroupSum(q)
  BY <1>1 DEF Figure, GroupSum
<1>4. \A q \in Listed : Figure(q, Got(q)) = SumOf(Got(q))
  BY <1>1 DEF Figure
<1> QED BY <1>2, <1>3, <1>4 DEF Whole, AllListed

LEMMA QueriesAre ==
  /\ \A q \in {"completed", "byPaymentMethod", "byShop", "timelineSales", "topItems", "sales"} :
       q \in Queries["SALE"]
  /\ \A q \in {"refund", "timelineRefunds", "refunds"} : q \in Queries["REFUND"]
  /\ \A q \in {"expense", "byCategory", "timelineExpenses", "expenses"} : q \in Queries["EXPENSE"]
  /\ \A q \in {"purchase", "timelinePurchases", "purchases"} : q \in Queries["PURCHASE"]
  /\ \A q \in {"funding", "fundings"} : q \in Queries["FUNDING"]
  /\ {"SALE", "REFUND", "EXPENSE", "PURCHASE", "FUNDING"} \subseteq Kind
BY DEF Queries, Kind

\* A timeline that shows every period adds up to the plain figure.
LEMMA TimelineAgrees ==
  ASSUME ReportsInv, FiguresInv, Timed, Complete, NEW k \in Kind,
         NEW p \in Queries[k] \cap Plain, NEW q \in Queries[k] \cap Stages[5],
         p = "expense" => report.request.categories = {}
  PROVE  OffBy(Got(p).amount, TimelineSum(q), Slack(k, report.during))
<1>1. q \in Needed(report.request) /\ TimelineSum(q) = SumOf(Got(q))
  BY TimelineIs
<1>2. p \in Needed(report.request) /\ p \notin Limited /\ p # "byPaymentMethod" /\ p # "topItems"
  BY NeededFor DEF Plain, Limited
<1>3. q \in Listed /\ q \notin Limited /\ q # "expense" /\ q # "byPaymentMethod" /\ q # "topItems"
  BY DEF Stages, Listed, Limited
<1>4. Answered
  BY DEF Timed, Has
<1>5. OffBy(Figure(p, Got(p)), Figure(q, Got(q)), Slack(k, report.during))
  BY <1>1, <1>2, <1>3, <1>4, SameFigures, FigureNames
<1> QED BY <1>1, <1>3, <1>5, FigureNames

LEMMA SalesDo ==
  ASSUME ReportsInv, FiguresInv, Answered
  PROVE  SalesAgree
<1> DEFINE r == report.request
           sold == Slack("SALE", report.during)
<1>1. /\ sold = report.during["SALE"] + report.during["REFUND"]
      /\ Revenue = Figure("completed", Got("completed")) /\ "completed" \in Queries["SALE"] \cap Needed(r)
      /\ Whole("completed", Got("completed")) /\ "completed" \in Queries["SALE"] \cap Plain /\ "SALE" \in Kind
  <2>1. "completed" \in Plain /\ "completed" \notin Limited
    BY DEF Plain, Limited
  <2> QED BY <2>1, FigureNames, QueriesAre, NeededFor DEF Slack, Revenue
<1>2. ASSUME Has("byShop") PROVE OffBy(Revenue, GroupSum("byShop"), sold)
  <2>1. "byShop" \in Needed(r) /\ "byShop" \in Queries["SALE"] /\ "byShop" \in Grouped /\ "byShop" \notin Limited
    BY <1>2, NeededFor, QueriesAre DEF Has, Grouped, Limited
  <2>2. OffBy(Figure("completed", Got("completed")), Figure("byShop", Got("byShop")), sold)
    BY <1>1, <2>1, SameFigures, FigureNames
  <2> QED BY <1>1, <2>1, <2>2, FigureNames
<1>3. ASSUME Has("byPaymentMethod")
      PROVE  IF r.methods = {} THEN OffBy(Revenue, GroupSum("byPaymentMethod"), sold)
             ELSE NoneNegative => GroupSum("byPaymentMethod") <= Revenue + sold
  <2> DEFINE q == "byPaymentMethod"
  <2>1. q \in Needed(r) /\ q \in Queries["SALE"] /\ q \in Grouped /\ q \notin Limited
    BY <1>3, NeededFor, QueriesAre DEF Has, Grouped, Limited
  <2>2. CASE r.methods = {}
    <3>1. OffBy(Figure("completed", Got("completed")), Figure(q, Got(q)), sold)
      BY <1>1, <2>1, <2>2, SameFigures, FigureNames
    <3> QED BY <1>1, <2>1, <2>2, <3>1, FigureNames
  <2>3. ASSUME NoneNegative PROVE GroupSum(q) <= Revenue + sold
    <3>1. Covers("SALE", "completed", q, r)
      BY <2>3 DEF Covers, Wanted, NoneNegative
    <3>2. Figure(q, Got(q)) <= Figure("completed", Got("completed")) + sold
      BY <1>1, <2>1, <3>1, TwoFigures, FigureNames
    <3> QED BY <1>1, <2>1, <3>2, FigureNames
  <2> QED BY <2>2, <2>3
<1>4. ASSUME Timed
      PROVE  /\ NoneNegative => TimelineSum("timelineSales") <= Revenue + sold
             /\ Complete => OffBy(Revenue, TimelineSum("timelineSales"), sold)
  <2> DEFINE q == "timelineSales"
  <2>1. q \in Stages[5] /\ q \in Queries["SALE"] /\ q \in Listed /\ q \notin Limited
    BY QueriesAre DEF Stages, Listed, Limited
  <2>2. Complete => OffBy(Revenue, TimelineSum(q), sold)
    BY <1>1, <1>4, <2>1, TimelineAgrees DEF Revenue
  <2>3. ASSUME NoneNegative PROVE TimelineSum(q) <= Revenue + sold
    <3>1. PICK part \in SUBSET Got(q) : TimelineSum(q) = SumOf(part)
      BY <1>4, <2>1, TimelineIs
    <3>2. Got(q) \in SUBSET Writes /\ q \in Needed(r)
      BY <1>4, <2>1, TimelineIs
    <3>3. SumOf(part) <= SumOf(Got(q)) /\ SumOf(part) \in Int
      <4>1. PICK S \in SUBSET Writes : S = Got(q)
        BY <3>2
      <4>2. part \in SUBSET S /\ \A w \in S \ part : Amount(w) >= 0
        BY <2>3, <4>1 DEF NoneNegative
      <4>3. part \in SUBSET Writes
        BY <4>1, <4>2
      <4> QED BY <4>1, <4>2, <4>3, PartOf, SumOfIs
    <3>4. Covers("SALE", "completed", q, r)
      BY Alike
    <3>5. /\ Figure(q, Got(q)) \in Int /\ Figure("completed", Got("completed")) \in Int /\ sold \in Nat
          /\ Figure(q, Got(q)) <= Figure("completed", Got("completed")) + sold
      BY <1>1, <2>1, <3>2, <3>4, TwoFigures, FigureNames
    <3>6. Figure(q, Got(q)) = SumOf(Got(q))
      BY <2>1, FigureNames
    <3> HIDE DEF sold
    <3> QED BY <1>1, <3>1, <3>3, <3>5, <3>6
  <2> QED BY <2>2, <2>3
<1>5. ASSUME Has("sales"), AllListed("sales") PROVE OffBy(Revenue, SumOf(Got("sales")), sold)
  <2>1. "sales" \in Needed(r) /\ "sales" \in Queries["SALE"] /\ "sales" \in Listed
    BY <1>5, NeededFor, QueriesAre DEF Has, Listed, Limited
  <2>2. OffBy(Figure("completed", Got("completed")), Figure("sales", Got("sales")), sold)
    BY <1>1, <1>5, <2>1, SameFigures, FigureNames
  <2> QED BY <1>1, <2>1, <2>2, FigureNames
<1>6. ASSUME Has("topProducts"), r.variants = {}, TopProducts = DOMAIN ByVariant
      PROVE  OffBy(Revenue, SumFunction([v \in TopProducts |-> ByVariant[v].revenue])
                              + SumFunction([s \in Got("topItems") |-> Beyond(s)]), sold)
  <2> DEFINE q == "topItems"
  <2>1. q \in Needed(r) /\ q \in Queries["SALE"] /\ q \in Listed /\ q \notin Limited
    BY <1>6, NeededFor, QueriesAre DEF Has, Listed, Limited
  <2>2. OffBy(Figure("completed", Got("completed")), Figure(q, Got(q)), sold)
    BY <1>1, <1>6, <2>1, SameFigures, FigureNames
  <2>3. PICK S \in SUBSET {w \in Writes : What[w].kind = "SALE"} : S = Got(q)
    BY <1>1, <2>1, ListIs
  <2>4. SumFunction([v \in TopProducts |-> ByVariant[v].revenue])
          + SumFunction([s \in S |-> Beyond(s)]) = SumOf(S)
    BY <1>6, <2>3, ProductsAre
  <2> QED BY <1>1, <2>1, <2>2, <2>3, <2>4, FigureNames
<1> HIDE DEF sold
<1> QED BY <1>1, <1>2, <1>3, <1>4, <1>5, <1>6 DEF SalesAgree

LEMMA CostsDo ==
  ASSUME ReportsInv, FiguresInv, Answered
  PROVE  CostsAgree
<1> DEFINE r == report.request
           d == report.during
           whole == r.categories = {}
<1>1. /\ \A k \in Kind \ {"SALE"} : Slack(k, d) = d[k]
      /\ \A q \in Plain : q \in Needed(r) /\ q \notin Limited /\ Figure(q, Got(q)) = Got(q).amount
      /\ "expense" \in Queries["EXPENSE"] \cap Plain /\ "purchase" \in Queries["PURCHASE"] \cap Plain
      /\ "refund" \in Queries["REFUND"] \cap Plain /\ "funding" \in Queries["FUNDING"] \cap Plain
      /\ {"EXPENSE", "PURCHASE", "REFUND", "FUNDING"} \subseteq Kind \ {"SALE"}
  <2>1. \A q \in Plain : q \in Needed(r) /\ q \notin Limited
    BY NeededFor DEF Plain, Limited
  <2>2. {"expense", "purchase", "refund", "funding"} \subseteq Plain
    BY DEF Plain
  <2> QED BY <2>1, <2>2, FigureNames, QueriesAre DEF Slack
<1>2. ASSUME Has("byCategory")
      PROVE  /\ Got("expense").amount <= GroupSum("byCategory") + d["EXPENSE"]
             /\ whole => OffBy(Got("expense").amount, GroupSum("byCategory"), d["EXPENSE"])
  <2> DEFINE q == "byCategory"
  <2>1. q \in Needed(r) /\ q \in Queries["EXPENSE"] /\ q \in Grouped /\ q \notin Limited
    BY <1>2, NeededFor, QueriesAre DEF Has, Grouped, Limited
  <2>2. Covers("EXPENSE", q, "expense", r)
    <3>1. \A w \in Writes : What[w].kind = "EXPENSE" => Amount(w) >= 0
      <4> SUFFICES ASSUME NEW w \in Writes, What[w].kind = "EXPENSE" PROVE Amount(w) >= 0
        OBVIOUS
      <4>1. Amount(w) = What[w].price
        BY DEF Amount
      <4>2. What[w].price \in Nat
        BY Bounds DEF Write
      <4> QED BY <4>1, <4>2
    <3>2. \A w \in Writes : Wanted(q, r, w)
      BY DEF Wanted
    <3> QED BY <3>1, <3>2 DEF Covers
  <2>3. Figure("expense", Got("expense")) <= Figure(q, Got(q)) + Slack("EXPENSE", d)
    BY <1>1, <2>1, <2>2, TwoFigures, FigureNames
  <2>4. whole => OffBy(Figure("expense", Got("expense")), Figure(q, Got(q)), Slack("EXPENSE", d))
    BY <1>1, <2>1, SameFigures, FigureNames
  <2> QED BY <1>1, <2>1, <2>3, <2>4, FigureNames
<1>3. ASSUME Timed, Complete
      PROVE  /\ whole => OffBy(Got("expense").amount, TimelineSum("timelineExpenses"), d["EXPENSE"])
             /\ OffBy(Got("purchase").amount, TimelineSum("timelinePurchases"), d["PURCHASE"])
             /\ OffBy(Got("refund").amount, TimelineSum("timelineRefunds"), d["REFUND"])
  <2>1. /\ "timelineExpenses" \in Queries["EXPENSE"] \cap Stages[5]
        /\ "timelinePurchases" \in Queries["PURCHASE"] \cap Stages[5]
        /\ "timelineRefunds" \in Queries["REFUND"] \cap Stages[5]
    BY QueriesAre DEF Stages
  <2>2. whole => OffBy(Got("expense").amount, TimelineSum("timelineExpenses"), Slack("EXPENSE", d))
    BY <1>1, <1>3, <2>1, TimelineAgrees
  <2>3. OffBy(Got("purchase").amount, TimelineSum("timelinePurchases"), Slack("PURCHASE", d))
    BY <1>1, <1>3, <2>1, TimelineAgrees
  <2>4. OffBy(Got("refund").amount, TimelineSum("timelineRefunds"), Slack("REFUND", d))
    BY <1>1, <1>3, <2>1, TimelineAgrees
  <2> QED BY <1>1, <2>2, <2>3, <2>4
<1>4. ASSUME Has("refunds"), AllListed("refunds")
      PROVE  OffBy(Got("refund").amount, SumOf(Got("refunds")), d["REFUND"])
  <2>1. "refunds" \in Needed(r) /\ "refunds" \in Queries["REFUND"] /\ "refunds" \in Listed
    BY <1>4, NeededFor, QueriesAre DEF Has, Listed, Limited
  <2>2. OffBy(Figure("refund", Got("refund")), Figure("refunds", Got("refunds")), Slack("REFUND", d))
    BY <1>1, <1>4, <2>1, SameFigures, FigureNames
  <2> QED BY <1>1, <2>1, <2>2, FigureNames
<1>5. ASSUME Has("purchases"), AllListed("purchases")
      PROVE  OffBy(Got("purchase").amount, SumOf(Got("purchases")), d["PURCHASE"])
  <2>1. "purchases" \in Needed(r) /\ "purchases" \in Queries["PURCHASE"] /\ "purchases" \in Listed
    BY <1>5, NeededFor, QueriesAre DEF Has, Listed, Limited
  <2>2. OffBy(Figure("purchase", Got("purchase")), Figure("purchases", Got("purchases")), Slack("PURCHASE", d))
    BY <1>1, <1>5, <2>1, SameFigures, FigureNames
  <2> QED BY <1>1, <2>1, <2>2, FigureNames
<1>6. ASSUME Has("funding"), AllListed("fundings")
      PROVE  OffBy(Got("funding").amount, SumOf(Got("fundings")), d["FUNDING"])
  <2>1. "fundings" \in Needed(r) /\ "fundings" \in Queries["FUNDING"] /\ "fundings" \in Listed
    BY <1>6, NeededFor, QueriesAre DEF Has, Listed, Limited
  <2>2. OffBy(Figure("funding", Got("funding")), Figure("fundings", Got("fundings")), Slack("FUNDING", d))
    BY <1>1, <1>6, <2>1, SameFigures, FigureNames
  <2> QED BY <1>1, <2>1, <2>2, FigureNames
<1> QED BY <1>2, <1>3, <1>4, <1>5, <1>6 DEF CostsAgree

LEMMA StockDoes ==
  ASSUME ReportsInv, FiguresInv, Answered
  PROVE  StockAgrees
<1> SUFFICES ASSUME Has("inventorySnapshot"), report.commits = 0
             PROVE  StockUnits = StockSummary(report.request.shops, 0).totalUnits
  BY DEF StockAgrees
<1>1. PICK shops : shops = report.request.shops
  OBVIOUS
<1>2. PICK m : m = Got("inventory")
  OBVIOUS
<1>3. m = [s \in shops |-> stock[s]]
  <2>1. "inventory" \in DOMAIN report.got /\ StockReadOK
    BY NeededFor DEF FiguresInv, Answered, AllRead, Has
  <2> QED BY <1>1, <1>2, <2>1 DEF StockReadOK, Got
<1>4. /\ IsFiniteSet(shops) /\ shops \subseteq Shops /\ IsFiniteSet(Variants)
      /\ stock \in [Shops -> [Variants -> Nat]]
  <2>1. shops \subseteq Shops /\ stock \in [Shops -> [Variants -> Nat]]
    BY <1>1 DEF Answered, ReportsInv, ReportOK, TablesOK, Body
  <2> QED BY <2>1, ReportsBounds, FS_Subset
<1>5. \A s \in shops, v \in Variants : m[s][v] \in Int /\ m[s][v] = stock[s][v]
  BY <1>3, <1>4
<1> DEFINE rows == [s \in shops |-> SumFunctionOnSet([v \in Variants |-> m[s][v]], Variants)]
           cols == [v \in Variants |-> SumFunctionOnSet([s \in shops |-> m[s][v]], shops)]
<1>6. SumFunctionOnSet(rows, shops) = SumFunctionOnSet(cols, Variants)
  <2>1. SumFunctionOnSet(RowSums(m, shops, Variants), shops)
          = SumFunctionOnSet(ColumnSums(m, shops, Variants), Variants)
    BY <1>4, <1>5, SumSwap
  <2> QED BY <2>1 DEF RowSums, ColumnSums
<1>7. StockUnits = SumFunctionOnSet(rows, shops)
  <2>1. \A s \in shops : SumFunction([v \in Variants |-> m[s][v]])
                           = SumFunctionOnSet([v \in Variants |-> m[s][v]], Variants)
    BY DEF SumFunction
  <2>2. [s \in shops |-> SumFunction([v \in Variants |-> m[s][v]])] = rows
    BY <2>1
  <2> HIDE DEF rows
  <2>3. SumFunction(rows) = SumFunctionOnSet(rows, DOMAIN rows)
    BY DEF SumFunction
  <2>4. DOMAIN rows = shops
    BY DEF rows
  <2> QED BY <1>1, <1>2, <2>2, <2>3, <2>4 DEF StockUnits
<1>8. StockSummary(shops, 0).totalUnits = SumFunctionOnSet(cols, Variants)
  <2>1. \A v \in Variants : Units(shops, v) = SumFunctionOnSet([s \in shops |-> m[s][v]], shops)
    <3> SUFFICES ASSUME NEW v \in Variants
                 PROVE  Units(shops, v) = SumFunctionOnSet([s \in shops |-> m[s][v]], shops)
      OBVIOUS
    <3>1. [s \in shops |-> stock[s][v]] = [s \in shops |-> m[s][v]]
      BY <1>5
    <3> QED BY <3>1 DEF Units, SumFunction
  <2>2. [v \in Variants |-> Units(shops, v)] = cols
    BY <2>1
  <2> HIDE DEF cols
  <2>3. SumFunction(cols) = SumFunctionOnSet(cols, DOMAIN cols) /\ DOMAIN cols = Variants
    BY DEF SumFunction, cols
  <2> QED BY <2>2, <2>3 DEF StockSummary
<1> QED BY <1>1, <1>6, <1>7, <1>8

\* The figures that a report repeats agree, but for what was written while it was built
\* (report.service.ts: buildPayload), for any writes, requests and bounds.
THEOREM FiguresAgree == Spec => []ReportAgrees
<1>1. ReportsInv /\ FiguresInv => ReportAgrees
  BY SalesDo, CostsDo, StockDoes DEF ReportAgrees
<1> QED BY <1>1, ReportsInductive, FiguresNearTables, PTL

---------------------------------------------------------------------------
\* The net cash of a report and the net of the ledger.

\* Without refunds, and with rows and entries in step, the tables of a report are those
\* of the ledger.
LEMMA TablesAreEntries ==
  ASSUME NEW r, InStep(r), In(Done("REFUND"), r) = {}
  PROVE  /\ Sold(r) = Entries("SALE", r) /\ Spent(r) = Entries("EXPENSE", r)
         /\ Bought(r) = Entries("PURCHASE", r) /\ Entries("REFUND", r) = {}
<1>1. \A s \in In(Done("SALE"), r) : ~IsRefunded(s)
  <2> SUFFICES ASSUME NEW s \in In(Done("SALE"), r), NEW w \in Done("REFUND"), What[w].of = s PROVE FALSE
    BY DEF IsRefunded
  <2>1. w \in Writes /\ What[w].kind = "REFUND" /\ What[s].shop \in r.shops
    BY DEF In, Done
  <2>2. What[w].shop = What[s].shop
    BY <2>1, ReportsBounds
  <2>3. w \in In(Done("REFUND"), r)
    BY <2>1, <2>2 DEF In
  <2> QED BY <2>3
<1>2. Sold(r) = Entries("SALE", r)
  BY <1>1 DEF InStep, Sold, Entries, In
<1>3. Spent(r) = Entries("EXPENSE", r)
  BY DEF InStep, Spent, Entries, In
<1>4. Bought(r) = Entries("PURCHASE", r)
  BY DEF InStep, Bought, Entries, In
<1>5. Entries("REFUND", r) = {}
  BY DEF Entries
<1> QED BY <1>2, <1>3, <1>4, <1>5

\* Nothing has been written since the first query: a plain figure is the sum of its table.
LEMMA PlainIs ==
  ASSUME ReportsInv, FiguresInv, Undisturbed, NEW k \in Kind, NEW q \in Queries[k] \cap Plain
  PROVE  Got(q).amount = SumOf(Table(k, report.request))
<1>1. report.pc # "idle" /\ report.commits = 0 /\ Answered /\ report.request.categories = {}
  BY DEF Undisturbed, Answered
<1>2. q \in Queries[k] \cap DOMAIN report.got /\ q \notin Limited
  BY <1>1, NeededFor DEF FiguresInv, AllRead, Answered, Plain, Limited
<1>3. Slack(k, report.during) = 0
  <2>1. report.during = Nothing
    BY <1>1 DEF FiguresInv, DuringOK
  <2> QED BY <2>1 DEF Slack, Nothing, Kind
<1>4. Chosen(k, q, report.request) = Table(k, report.request)
  <2>1. q # "byPaymentMethod" /\ q # "topItems"
    BY DEF Plain
  <2>2. Table(k, report.request) \in SUBSET Writes
    BY TableIs
  <2> QED BY <1>1, <2>1, <2>2 DEF Chosen, Wanted
<1>5. FigureNear(k, q, Got(q), Table(k, report.request), 0)
  BY <1>1, <1>2, <1>3, <1>4, FiguresAre DEF Got
<1>6. Figure(q, Got(q)) = Got(q).amount /\ Whole(q, Got(q))
  BY <1>2, FigureNames
<1>7. Got(q).amount \in Int /\ OffBy(Got(q).amount, SumOf(Table(k, report.request)), 0)
  BY <1>5, <1>6 DEF FigureNear
<1>8. SumOf(Table(k, report.request)) \in Int
  <2>1. Table(k, report.request) \in SUBSET Writes
    BY TableIs
  <2> QED BY <2>1, SumOfIs
<1> QED BY <1>7, <1>8 DEF OffBy

\* Without refunds, the net cash of a report is the net of the ledger over its shops and
\* period (report.service.ts: netCash; cashflow.service.ts: getSummary).
THEOREM NetCashIsNet == Spec => []NetCashWithoutRefunds
<1>1. ReportsInv /\ FiguresInv => NetCashWithoutRefunds
  <2> SUFFICES ASSUME ReportsInv, FiguresInv, Undisturbed, InStep(report.request),
                      In(Done("REFUND"), report.request) = {}
               PROVE  NetCash = LedgerNet(report.request)
    BY DEF NetCashWithoutRefunds
  <2> DEFINE r == report.request
  <2>1. r \in Body
    BY DEF Undisturbed, Answered, ReportsInv, ReportOK
  <2>2. /\ Sold(r) = Entries("SALE", r) /\ Spent(r) = Entries("EXPENSE", r)
        /\ Bought(r) = Entries("PURCHASE", r) /\ Entries("REFUND", r) = {}
    BY TablesAreEntries
  <2>3. /\ "completed" \in Queries["SALE"] \cap Plain /\ "expense" \in Queries["EXPENSE"] \cap Plain
        /\ "purchase" \in Queries["PURCHASE"] \cap Plain /\ "refund" \in Queries["REFUND"] \cap Plain
        /\ "funding" \in Queries["FUNDING"] \cap Plain
    BY QueriesAre DEF Plain
  <2>4. \A k \in Kind : Table(k, r) = Entries(k, r)
    BY <2>2 DEF Kind, Table
  <2>5. ASSUME NEW k \in Kind, NEW q \in Queries[k] \cap Plain
        PROVE  Got(q).amount = LedgerSum(k, r)
    BY <2>4, PlainIs DEF LedgerSum
  <2>6. /\ Revenue = LedgerSum("SALE", r) /\ Got("expense").amount = LedgerSum("EXPENSE", r)
        /\ Got("purchase").amount = LedgerSum("PURCHASE", r) /\ Got("refund").amount = LedgerSum("REFUND", r)
        /\ Got("funding").amount = LedgerSum("FUNDING", r)
    BY <2>3, <2>5, QueriesAre DEF Revenue
  <2>7. \A k \in {"SALE", "EXPENSE", "PURCHASE", "REFUND", "FUNDING"} : LedgerSum(k, r) \in Int
    BY DirectionSums, QueriesAre
  <2>8. LedgerNet(r) = LedgerSum("SALE", r) + LedgerSum("FUNDING", r)
                         - (LedgerSum("REFUND", r) + LedgerSum("EXPENSE", r) + LedgerSum("PURCHASE", r))
    BY <2>1, LedgerNetIs
  <2> HIDE DEF r
  <2>9. NetCash = LedgerSum("SALE", r) + LedgerSum("FUNDING", r)
                    - (LedgerSum("EXPENSE", r) + LedgerSum("PURCHASE", r) + LedgerSum("REFUND", r))
    BY <2>6, <2>7 DEF NetCash, CashIn, CashOut
  <2>10. NetCash = LedgerNet(r)
    BY <2>7, <2>8, <2>9
  <2> QED BY <2>10 DEF r
<1> QED BY <1>1, ReportsInductive, FiguresNearTables, PTL

================================================================================
