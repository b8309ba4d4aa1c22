------------------------------- MODULE AccessProofs -------------------------------
(***************************************************************************)
(* The permission matrix, for any organizations, shops, requests and       *)
(* changes of the person's row.                                            *)
(***************************************************************************)
EXTENDS Access, SequenceTheorems, TLAPS

---------------------------------------------------------------------------
\* Constants, and rows of a person.

LEMMA Setting ==
  /\ Shops \subseteq Nat /\ NoShop \notin Shops /\ NoOrg \notin Orgs /\ ShopsOf(NoOrg) = {}
  /\ \A s \in Shops : OrgOf[s] \in Orgs
  /\ \A org : ShopsOf(org) \subseteq Shops
BY AccessSetting DEF ShopsOf, NoShop

\* A person has at most one assignment, so the first one is all of them.
LEMMA FirstIsAll ==
  ASSUME NEW v \in Row, Fits(v)
  PROVE  {s \in v.staff : s = Min(v.staff)} = v.staff
<1>1. v.staff \subseteq Nat
  BY Setting DEF Row
<1>2. ASSUME NEW s \in v.staff PROVE Min(v.staff) = s
  <2>1. v.staff = {s}
    BY DEF Fits
  <2>2. s \in Nat
    BY <1>1
  <2> QED BY <2>1, <2>2 DEF Min
<1> QED BY <1>2

\* Whoever is no platform administrator has all shops, or those assigned.
LEMMA ScopeIs ==
  ASSUME NEW b \in Row, Fits(b), ~ Platform(b), NEW w \in Row, Fits(w)
  PROVE  /\ AllShops(b) => ScopeOf(ActorRow(b), w.staff) = [all |-> TRUE, shops |-> ShopsOf(b.org)]
         /\ ~ AllShops(b) => ScopeOf(ActorRow(b), w.staff) = [all |-> FALSE, shops |-> w.staff]
<1>1. /\ AllShopsAccess(ActorRow(b)) <=> AllShops(b)
      /\ ActorRow(b).org = b.org
  BY DEF ActorRow, AllShopsAccess, AllShops
<1>2. ~ AllShops(b) => SingleShopRole(ActorRow(b))
  BY DEF ActorRow, SingleShopRole, AllShops, Fits, Row, Role, Platform
<1>3. {s \in w.staff : s = Min(w.staff)} = w.staff
  BY FirstIsAll
<1> QED BY <1>1, <1>2, <1>3 DEF ScopeOf

LEMMA AssignedHasShop ==
  ASSUME NEW w \in Row, Fits(w), NEW s \in w.staff
  PROVE  HasShop(w, s)
BY DEF HasShop, Fits, Row

\* Organizations with the same shops are the same, if there are any.
LEMMA OneOrg ==
  ASSUME NEW u, NEW v, ShopsOf(u.org) = ShopsOf(v.org)
  PROVE  v.org = u.org \/ ShopsOf(u.org) = {}
BY DEF ShopsOf

---------------------------------------------------------------------------
\* Checks in their order.

LEMMA OrderedShapes ==
  /\ Guarded \in Seq(Check) /\ Ordered(Guarded)
  /\ Managed \in Seq(Check) /\ Ordered(Managed)
  /\ ByRole \in Seq(Check) /\ Ordered(ByRole)
  /\ ByShop \in Seq(Check) /\ Ordered(ByShop)
  /\ ByScope \in Seq(Check) /\ Ordered(ByScope)
  /\ FinanceChecks \in Seq(Check) /\ Ordered(FinanceChecks)
  /\ ShopListChecks \in Seq(Check) /\ Ordered(ShopListChecks)
  /\ SettingsChecks \in Seq(Check) /\ Ordered(SettingsChecks)
<1>1. Guarded \in Seq(Check) /\ Ordered(Guarded)
  BY DEF Guarded, Check, Ordered
<1>2. Managed \in Seq(Check) /\ Ordered(Managed)
  BY DEF Managed, Check, Ordered
<1>3. ByRole \in Seq(Check) /\ Ordered(ByRole)
  BY DEF ByRole, Check, Ordered
<1>4. ByShop \in Seq(Check) /\ Ordered(ByShop)
  BY DEF ByShop, Check, Ordered
<1>5. ByScope \in Seq(Check) /\ Ordered(ByScope)
  BY DEF ByScope, Check, Ordered
<1>6. FinanceChecks \in Seq(Check) /\ Ordered(FinanceChecks)
  BY DEF FinanceChecks, Check, Ordered
<1>7. ShopListChecks \in Seq(Check) /\ Ordered(ShopListChecks)
  BY DEF ShopListChecks, Check, Ordered
<1>8. SettingsChecks \in Seq(Check) /\ Ordered(SettingsChecks)
  BY DEF SettingsChecks, Check, Ordered
<1> QED BY <1>1, <1>2, <1>3, <1>4, <1>5, <1>6, <1>7, <1>8

\* After its first check, the others are still in order.
LEMMA OrderedTail ==
  ASSUME NEW t \in Seq(Check), t # << >>, Ordered(t)
  PROVE  /\ Tail(t) \in Seq(Check) /\ Ordered(Tail(t))
         /\ Len(Tail(t)) = Len(t) - 1 /\ Head(t) = t[1] /\ Len(t) \in Nat /\ Len(t) >= 1
         /\ \A i \in 1..Len(Tail(t)) : Tail(t)[i] = t[i + 1]
<1>1. /\ Tail(t) \in Seq(Check) /\ Len(Tail(t)) = Len(t) - 1 /\ Head(t) = t[1]
      /\ Len(t) \in Nat /\ Len(t) >= 1 /\ \A i \in 1..Len(Tail(t)) : Tail(t)[i] = t[i + 1]
  OBVIOUS
<1> DEFINE u == Tail(t)
<1>2. ASSUME NEW j \in 1..Len(u)
      PROVE  /\ u[j] = "actor" => \A i \in 1..(j - 1) : u[i] = "member"
             /\ u[j] = "scope" => /\ j + 2 <= Len(u) /\ u[j + 1] = "staff" /\ u[j + 2] \in {"shop", "whole"}
                                  /\ \A i \in 1..(j - 1) : u[i] \notin {"staff", "shop", "whole"}
             /\ u[j] = "staff" => j = 1 \/ u[j - 1] = "scope"
             /\ u[j] \in {"shop", "whole"} => j = 1 \/ u[j - 1] = "staff"
  <2>1. j + 1 \in 1..Len(t) /\ u[j] = t[j + 1]
    BY <1>1
  <2>2. \A i \in 1..(j - 1) : i + 1 \in 1..((j + 1) - 1) /\ u[i] = t[i + 1]
    BY <1>1
  <2>3. CASE t[j + 1] = "actor"
    BY <2>1, <2>2, <2>3 DEF Ordered
  <2>4. CASE t[j + 1] = "scope"
    <3>1. /\ (j + 1) + 2 <= Len(t) /\ t[(j + 1) + 1] = "staff" /\ t[(j + 1) + 2] \in {"shop", "whole"}
          /\ \A i \in 1..((j + 1) - 1) : t[i] \notin {"staff", "shop", "whole"}
      BY <2>1, <2>4 DEF Ordered
    <3>2. j + 1 \in 1..Len(u) /\ j + 2 \in 1..Len(u)
      BY <3>1, <1>1
    <3>3. u[j + 1] = t[(j + 1) + 1] /\ u[j + 2] = t[(j + 1) + 2]
      BY <3>2, <1>1
    <3> QED BY <2>1, <2>2, <2>4, <3>1, <3>2, <3>3
  <2>5. CASE t[j + 1] = "staff"
    BY <2>1, <2>2, <2>5 DEF Ordered
  <2>6. CASE t[j + 1] \in {"shop", "whole"}
    BY <2>1, <2>2, <2>6 DEF Ordered
  <2> QED BY <2>1, <2>3, <2>4, <2>5, <2>6
<1>3. Ordered(u)
  BY <1>2 DEF Ordered
<1> QED BY <1>1, <1>3

\* Without the three checks of a shop, too.
LEMMA OrderedRest ==
  ASSUME NEW t \in Seq(Check), t # << >>, Ordered(t), Head(t) = "scope",
         NEW u, u = SubSeq(t, 4, Len(t))
  PROVE  /\ u \in Seq(Check) /\ Ordered(u) /\ Len(u) = Len(t) - 3 /\ Len(t) >= 3
         /\ t[1] = "scope" /\ t[2] = "staff" /\ t[3] \in {"shop", "whole"}
         /\ \A i \in 1..Len(u) : u[i] = t[i + 3] /\ u[i] \notin {"scope", "staff", "shop", "whole"}
<1>1. Len(t) \in Nat /\ Len(t) >= 1 /\ t[1] = "scope"
  OBVIOUS
<1>2. 3 <= Len(t) /\ t[2] = "staff" /\ t[3] \in {"shop", "whole"}
  BY <1>1 DEF Ordered
<1>3. /\ u \in Seq(Check) /\ Len(u) = Len(t) - 3
      /\ \A i \in 1..Len(u) : u[i] = t[i + 3]
  <2> DEFINE m == 4
             n == Len(t)
  <2> HIDE DEF Check
  <2>1. m \in Int /\ n \in Int /\ \A i \in m..n : t[i] \in Check
    BY <1>1
  <2> HIDE DEF m, n
  <2>2. /\ SubSeq(t, m, n) \in Seq(Check) /\ Len(SubSeq(t, m, n)) = IF m <= n THEN n - m + 1 ELSE 0
        /\ \A i \in 1..(n - m + 1) : SubSeq(t, m, n)[i] = t[m + i - 1]
    BY <2>1, SubSeqProperties
  <2> USE DEF m, n
  <2>3. u \in Seq(Check)
    BY <2>2
  <2>4. Len(u) = Len(t) - 3
    <3>1. Len(u) = IF 4 <= Len(t) THEN Len(t) - 4 + 1 ELSE 0
      BY <2>2
    <3>2. ASSUME NEW k \in Nat, NEW l, 3 <= k, l = IF 4 <= k THEN k - 4 + 1 ELSE 0
          PROVE  l = k - 3
      BY <3>2
    <3> QED BY <3>1, <3>2, <1>1, <1>2
  <2>5. \A i \in 1..Len(u) : u[i] = t[i + 3]
    <3>1. ASSUME NEW i \in 1..Len(u) PROVE u[i] = t[i + 3]
      <4>1. i \in 1..(Len(t) - 4 + 1) /\ 4 + i - 1 = i + 3
        BY <1>1, <2>4
      <4>2. SubSeq(t, 4, Len(t))[i] = t[4 + i - 1]
        BY <4>1, <2>2
      <4> QED BY <4>1, <4>2
    <3> QED BY <3>1
  <2> QED BY <2>3, <2>4, <2>5
<1>4. ASSUME NEW j \in 1..Len(t), j > 3, t[j] = "scope" PROVE FALSE
  <2>1. 2 \in 1..(j - 1)
    BY <1>1, <1>4
  <2>2. \A i \in 1..(j - 1) : t[i] \notin {"staff", "shop", "whole"}
    BY <1>4 DEF Ordered
  <2> QED BY <2>1, <2>2, <1>2
<1>5. ASSUME NEW j \in 1..Len(t), j > 3, t[j] = "staff" PROVE FALSE
  <2>1. t[j - 1] = "scope"
    BY <1>5, <1>1 DEF Ordered
  <2>2. CASE j = 4
    BY <2>1, <2>2, <1>2
  <2>3. CASE j > 4
    BY <2>1, <2>3, <1>4, <1>1
  <2> QED BY <2>2, <2>3, <1>5, <1>1
<1>6. ASSUME NEW j \in 1..Len(t), j > 3, t[j] \in {"shop", "whole"} PROVE FALSE
  <2>1. t[j - 1] = "staff"
    BY <1>6, <1>1 DEF Ordered
  <2>2. CASE j = 4
    BY <2>1, <2>2, <1>2
  <2>3. CASE j > 4
    BY <2>1, <2>3, <1>5, <1>1
  <2> QED BY <2>2, <2>3, <1>6, <1>1
<1>7. \A i \in 1..Len(u) : u[i] \notin {"scope", "staff", "shop", "whole"}
  <2> SUFFICES ASSUME NEW i \in 1..Len(u) PROVE u[i] \notin {"scope", "staff", "shop", "whole"}
    OBVIOUS
  <2>1. u[i] = t[i + 3] /\ i + 3 \in 1..Len(t) /\ i + 3 > 3
    BY <1>1, <1>2, <1>3
  <2> QED BY <2>1, <1>4, <1>5, <1>6
<1>8. ASSUME NEW j \in 1..Len(u), u[j] = "actor", NEW i \in 1..(j - 1) PROVE u[i] = "member"
  <2>1. j + 3 \in 1..Len(t) /\ t[j + 3] = "actor" /\ 1 \in 1..((j + 3) - 1)
    BY <1>1, <1>2, <1>3, <1>8
  <2> QED BY <2>1, <1>1 DEF Ordered
<1>9. Ordered(u)
  BY <1>7, <1>8 DEF Ordered
<1> QED BY <1>1, <1>2, <1>3, <1>7, <1>9

\* What is pending after the first check: what was, but for the check itself.
LEMMA PendingTail ==
  ASSUME NEW q, NEW p, q.todo \in Seq(Check), q.todo # << >>, Ordered(q.todo),
         p.todo = Tail(q.todo)
  PROVE  /\ p.todo \in Seq(Check) /\ Ordered(p.todo)
         /\ \A check : Pending(p, check) => Pending(q, check)
         /\ \A check : check # Head(q.todo) => (Pending(p, check) <=> Pending(q, check))
         /\ Pending(q, Head(q.todo))
<1> DEFINE t == q.todo
<1>1. /\ Tail(t) \in Seq(Check) /\ Ordered(Tail(t))
      /\ Len(Tail(t)) = Len(t) - 1 /\ Head(t) = t[1] /\ Len(t) \in Nat /\ Len(t) >= 1
      /\ \A i \in 1..Len(Tail(t)) : Tail(t)[i] = t[i + 1]
  BY OrderedTail
<1>2. ASSUME NEW check, Pending(p, check) PROVE Pending(q, check)
  <2>1. PICK i \in 1..Len(p.todo) : p.todo[i] = check
    BY <1>2 DEF Pending
  <2>2. i + 1 \in 1..Len(t) /\ t[i + 1] = check
    BY <2>1, <1>1
  <2> QED BY <2>2 DEF Pending
<1>3. ASSUME NEW check, check # Head(t), Pending(q, check) PROVE Pending(p, check)
  <2>1. PICK i \in 1..Len(t) : t[i] = check
    BY <1>3 DEF Pending
  <2>2. i - 1 \in 1..Len(p.todo) /\ p.todo[i - 1] = t[(i - 1) + 1]
    BY <2>1, <1>1, <1>3
  <2>3. p.todo[i - 1] = check
    BY <2>1, <2>2
  <2> QED BY <2>2, <2>3 DEF Pending
<1>4. Pending(q, Head(t))
  BY <1>1 DEF Pending
<1> QED BY <1>1, <1>2, <1>3, <1>4

LEMMA PendingRest ==
  ASSUME NEW q, NEW p, q.todo \in Seq(Check), q.todo # << >>, Ordered(q.todo),
         Head(q.todo) = "scope", p.todo = SubSeq(q.todo, 4, Len(q.todo))
  PROVE  /\ p.todo \in Seq(Check) /\ Ordered(p.todo)
         /\ \A check \in {"scope", "staff", "shop", "whole"} : ~ Pending(p, check)
         /\ \A check \in {"member", "actor", "permit", "own"} : Pending(p, check) <=> Pending(q, check)
<1> DEFINE t == q.todo
           u == p.todo
<1>1. /\ u \in Seq(Check) /\ Ordered(u) /\ Len(u) = Len(t) - 3 /\ Len(t) >= 3
      /\ t[1] = "scope" /\ t[2] = "staff" /\ t[3] \in {"shop", "whole"}
      /\ \A i \in 1..Len(u) : u[i] = t[i + 3] /\ u[i] \notin {"scope", "staff", "shop", "whole"}
  BY OrderedRest
<1>2. Len(t) \in Nat
  OBVIOUS
<1>3. \A check \in {"scope", "staff", "shop", "whole"} : ~ Pending(p, check)
  BY <1>1 DEF Pending
<1>4. ASSUME NEW check, Pending(p, check) PROVE Pending(q, check)
  <2>1. PICK i \in 1..Len(u) : u[i] = check
    BY <1>4 DEF Pending
  <2>2. i + 3 \in 1..Len(t) /\ t[i + 3] = check
    BY <2>1, <1>1, <1>2
  <2> QED BY <2>2 DEF Pending
<1>5. ASSUME NEW check \in {"member", "actor", "permit", "own"}, Pending(q, check) PROVE Pending(p, check)
  <2>1. PICK i \in 1..Len(t) : t[i] = check
    BY <1>5 DEF Pending
  <2>2. i > 3
    BY <2>1, <1>1
  <2>3. i - 3 \in 1..Len(u) /\ u[i - 3] = t[(i - 3) + 3]
    BY <2>2, <1>1, <1>2
  <2>4. u[i - 3] = check
    BY <2>1, <2>3
  <2> QED BY <2>3, <2>4 DEF Pending
<1> QED BY <1>1, <1>3, <1>4, <1>5

\* What is not pending when a check is due.
LEMMA Due ==
  ASSUME NEW q, q.todo \in Seq(Check), q.todo # << >>, Ordered(q.todo)
  PROVE  /\ Head(q.todo) \in {"permit", "own", "scope", "staff", "shop", "whole"} => ~ Pending(q, "actor")
         /\ Head(q.todo) \in {"staff", "shop", "whole"} => ~ Pending(q, "scope")
         /\ Head(q.todo) \in {"shop", "whole"} => ~ Pending(q, "staff")
         /\ Head(q.todo) = "scope" => Pending(q, "staff")
         /\ Pending(q, Head(q.todo))
<1> DEFINE t == q.todo
<1>1. Len(t) \in Nat /\ Len(t) >= 1 /\ Head(t) = t[1]
  OBVIOUS
<1>2. ASSUME NEW j \in 1..Len(t), t[j] = "actor", t[1] \notin {"member", "actor"} PROVE FALSE
  BY <1>1, <1>2 DEF Ordered
<1>3. ASSUME NEW j \in 1..Len(t), t[j] = "scope", t[1] \in {"staff", "shop", "whole"} PROVE FALSE
  BY <1>1, <1>3 DEF Ordered
<1>4. ASSUME NEW j \in 1..Len(t), t[j] = "staff", t[1] \in {"shop", "whole"} PROVE FALSE
  <2>1. j # 1 /\ t[j - 1] = "scope" /\ j - 1 \in 1..Len(t)
    BY <1>1, <1>4 DEF Ordered
  <2> QED BY <2>1, <1>3, <1>4
<1>5. t[1] = "scope" => Pending(q, "staff")
  <2>1. t[1] = "scope" => 1 + 1 \in 1..Len(t) /\ t[1 + 1] = "staff"
    BY <1>1 DEF Ordered
  <2> QED BY <2>1 DEF Pending
<1> QED BY <1>1, <1>2, <1>3, <1>4, <1>5 DEF Pending

---------------------------------------------------------------------------
\* What is known.

LEMMA ShapesPending ==
  ASSUME NEW q
  PROVE  /\ q.todo \in {Guarded, Managed} =>
              /\ Pending(q, "actor") /\ Pending(q, "permit")
              /\ \A check \in {"member", "own", "whole"} : ~ Pending(q, check)
              /\ Pending(q, "scope") /\ Pending(q, "staff") /\ Pending(q, "shop")
         /\ q.todo \in {ByRole, ByShop, ByScope} =>
              Pending(q, "member") /\ Pending(q, "actor") /\ Pending(q, "permit")
         /\ q.todo = ByRole =>
              \A check \in Check \ {"member", "actor", "permit"} : ~ Pending(q, check)
         /\ q.todo = ByShop =>
              /\ Pending(q, "scope") /\ Pending(q, "staff") /\ Pending(q, "shop")
              /\ \A check \in {"own", "whole"} : ~ Pending(q, check)
         /\ q.todo = ByScope =>
              /\ Pending(q, "scope") /\ Pending(q, "staff") /\ Pending(q, "whole")
              /\ \A check \in {"own", "shop"} : ~ Pending(q, check)
         /\ q.todo = FinanceChecks =>
              Pending(q, "member") /\ \A check \in Check \ {"member"} : ~ Pending(q, check)
         /\ q.todo = ShopListChecks =>
              /\ Pending(q, "member") /\ Pending(q, "scope") /\ Pending(q, "staff")
              /\ \A check \in {"actor", "permit", "own", "shop"} : ~ Pending(q, check)
         /\ q.todo = SettingsChecks =>
              /\ Pending(q, "actor") /\ Pending(q, "permit") /\ Pending(q, "own")
              /\ \A check \in Check \ {"actor", "permit", "own"} : ~ Pending(q, check)
<1>1. CASE q.todo = Guarded
  <2>1. q.todo[1] = "actor" /\ q.todo[2] = "scope" /\ q.todo[3] = "staff" /\ q.todo[4] = "shop"
        /\ q.todo[5] = "permit" /\ Len(q.todo) = 5 /\ q.todo # FinanceChecks /\ q.todo # ShopListChecks
        /\ q.todo # SettingsChecks /\ q.todo # ByRole /\ q.todo # ByShop /\ q.todo # ByScope
    BY <1>1 DEF Guarded, FinanceChecks, ShopListChecks, SettingsChecks, ByRole, ByShop, ByScope
  <2> QED BY <2>1 DEF Pending
<1>2. CASE q.todo = Managed
  <2>1. q.todo[1] = "actor" /\ q.todo[2] = "permit" /\ q.todo[3] = "scope" /\ q.todo[4] = "staff"
        /\ q.todo[5] = "shop" /\ Len(q.todo) = 5 /\ q.todo # FinanceChecks /\ q.todo # ShopListChecks
        /\ q.todo # SettingsChecks /\ q.todo # ByRole /\ q.todo # ByShop /\ q.todo # ByScope
    BY <1>2 DEF Managed, FinanceChecks, ShopListChecks, SettingsChecks, ByRole, ByShop, ByScope
  <2> QED BY <2>1 DEF Pending
<1>3. CASE q.todo = ByRole
  <2>1. /\ q.todo[1] = "member" /\ q.todo[2] = "actor" /\ q.todo[3] = "permit" /\ Len(q.todo) = 3
        /\ q.todo \notin {Guarded, Managed, FinanceChecks, ShopListChecks, SettingsChecks, ByShop, ByScope}
    BY <1>3 DEF Managed, Guarded, FinanceChecks, ShopListChecks, SettingsChecks, ByRole, ByShop, ByScope
  <2> QED BY <2>1 DEF Pending, Check
<1>9. CASE q.todo = ByShop
  <2>1. /\ q.todo[1] = "member" /\ q.todo[2] = "actor" /\ q.todo[3] = "permit" /\ Len(q.todo) = 6
        /\ q.todo[4] = "scope" /\ q.todo[5] = "staff" /\ q.todo[6] = "shop"
        /\ q.todo \notin {Guarded, Managed, FinanceChecks, ShopListChecks, SettingsChecks, ByRole, ByScope}
    BY <1>9 DEF Managed, Guarded, FinanceChecks, ShopListChecks, SettingsChecks, ByRole, ByShop, ByScope
  <2> QED BY <2>1 DEF Pending, Check
<1>10. CASE q.todo = ByScope
  <2>1. /\ q.todo[1] = "member" /\ q.todo[2] = "actor" /\ q.todo[3] = "permit" /\ Len(q.todo) = 6
        /\ q.todo[4] = "scope" /\ q.todo[5] = "staff" /\ q.todo[6] = "whole"
        /\ q.todo \notin {Guarded, Managed, FinanceChecks, ShopListChecks, SettingsChecks, ByRole, ByShop}
    BY <1>10 DEF Managed, Guarded, FinanceChecks, ShopListChecks, SettingsChecks, ByRole, ByShop, ByScope
  <2> QED BY <2>1 DEF Pending, Check
<1>4. CASE q.todo = FinanceChecks
  <2>1. /\ q.todo[1] = "member" /\ Len(q.todo) = 1
        /\ q.todo \notin {Guarded, Managed, ByRole, ByShop, ByScope}
        /\ q.todo # ShopListChecks /\ q.todo # SettingsChecks
    BY <1>4 DEF Managed, Guarded, FinanceChecks, ShopListChecks, SettingsChecks, ByRole, ByShop, ByScope
  <2> QED BY <2>1 DEF Pending
<1>5. CASE q.todo = ShopListChecks
  <2>1. /\ q.todo[1] = "member" /\ q.todo[2] = "scope" /\ q.todo[3] = "staff" /\ q.todo[4] = "whole" /\ Len(q.todo) = 4
        /\ q.todo \notin {Guarded, Managed, ByRole, ByShop, ByScope}
        /\ q.todo # FinanceChecks /\ q.todo # SettingsChecks
    BY <1>5 DEF Managed, Guarded, FinanceChecks, ShopListChecks, SettingsChecks, ByRole, ByShop, ByScope
  <2> QED BY <2>1 DEF Pending
<1>6. CASE q.todo = SettingsChecks
  <2>1. /\ q.todo[1] = "actor" /\ q.todo[2] = "permit" /\ q.todo[3] = "own" /\ Len(q.todo) = 3
        /\ q.todo \notin {Guarded, Managed, ByRole, ByShop, ByScope}
        /\ q.todo # FinanceChecks /\ q.todo # ShopListChecks
    BY <1>6 DEF Managed, Guarded, FinanceChecks, ShopListChecks, SettingsChecks, ByRole, ByShop, ByScope
  <2> QED BY <2>1 DEF Pending
<1> QED BY <1>1, <1>2, <1>3, <1>4, <1>5, <1>6, <1>9, <1>10

\* At the start everything that matters is pending.
LEMMA StartKnown ==
  ASSUME NEW q, q.op \in Op, q.shop \in AskedShops(q.op), q.todo = Checks(q.op, q.shop),
         q.scope = WithoutLimit
  PROVE  q.todo \in Seq(Check) /\ Ordered(q.todo) /\ Needed(q) /\ Known(q)
<1> USE DEF Needed, Check, RoleKnown, ScopeKnown, Known, ByActor, Scoped, OneShop, EveryShop
<1>0. /\ q.shop \in Shops => q.shop # NoShop
      /\ q.op \in ShopOps => q.shop # NoShop /\ q.op \notin OrgOps
  BY Setting DEF AskedShops, ShopOps, OrgOps
<1>1. CASE q.op \in {"sale", "expense", "inventory", "receipt", "cash", "purchase", "purchases"}
  <2>1. q.todo = Guarded
    BY <1>1 DEF Checks, SaleChecks, ExpenseChecks, PurchaseChecks, InventoryReadChecks, ReceiptChecks, CashChecks
  <2> QED BY <1>0, <1>1, <2>1, ShapesPending, OrderedShapes DEF ShopOps
<1>2. CASE q.op \in {"stock", "funding"}
  <2>1. q.todo = Managed
    BY <1>2 DEF Checks, StockChecks, FundingChecks
  <2> QED BY <1>0, <1>2, <2>1, ShapesPending, OrderedShapes DEF ShopOps
<1>3. CASE q.op \in {"ledgers", "stockReport", "orgReceipts"} /\ q.shop # NoShop
  <2>1. q.todo = ByShop
    BY <1>3 DEF Checks, LedgerChecks, StockReportChecks, OrgReceiptChecks
  <2> QED BY <1>0, <1>3, <2>1, ShapesPending, OrderedShapes DEF OrgOps
<1>4. CASE (q.op \in {"ledgers", "stockReport"} /\ q.shop = NoShop) \/ q.op = "pastReports"
  <2>1. q.todo = ByRole
    BY <1>4 DEF Checks, LedgerChecks, StockReportChecks, PastReportChecks
  <2>2. q.shop = NoShop
    BY <1>4 DEF AskedShops, ShopOps
  <2> QED BY <1>4, <2>1, <2>2, ShapesPending, OrderedShapes DEF OrgOps
<1>5. CASE q.op = "business" \/ (q.op = "orgReceipts" /\ q.shop = NoShop)
  <2>1. q.todo = ByScope
    BY <1>5 DEF Checks, OrgReceiptChecks, BusinessChecks
  <2> QED BY <1>0, <1>5, <2>1, ShapesPending, OrderedShapes DEF OrgOps
<1>6. CASE q.op = "finance"
  <2>1. q.todo = FinanceChecks
    BY <1>6 DEF Checks
  <2>2. q.shop = NoShop
    BY <1>6 DEF AskedShops, ShopOps
  <2> QED BY <1>6, <2>1, <2>2, ShapesPending, OrderedShapes DEF OrgOps
<1>7. CASE q.op = "shops"
  <2>1. q.todo = ShopListChecks
    BY <1>7 DEF Checks
  <2>2. q.shop = NoShop
    BY <1>7 DEF AskedShops, ShopOps
  <2> QED BY <1>7, <2>1, <2>2, ShapesPending, OrderedShapes DEF OrgOps
<1>8. CASE q.op = "settings"
  <2>1. q.todo = SettingsChecks
    BY <1>8 DEF Checks
  <2>2. q.shop = NoShop
    BY <1>8 DEF AskedShops, ShopOps
  <2> QED BY <1>8, <2>1, <2>2, ShapesPending, OrderedShapes DEF OrgOps
<1> QED BY <1>1, <1>2, <1>3, <1>4, <1>5, <1>6, <1>7, <1>8 DEF Op, OrgOps, ShopOps

\* Two states of one handler, between which it has passed a check.
Request0(q) == << q.op, q.shop, q.org, q.role, q.seen >>
Due0(q) == q.todo \in Seq(Check) /\ q.todo # << >> /\ Ordered(q.todo) /\ Known(q)
Next0(q, p) == p.todo = Tail(q.todo) /\ Request0(p) = Request0(q)
Read0(q) == << q.actor, q.base, q.scope >>

LEMMA SameRequest ==
  ASSUME NEW q, NEW p, Request0(p) = Request0(q)
  PROVE  /\ p.op = q.op /\ p.shop = q.shop /\ p.org = q.org /\ p.role = q.role /\ p.seen = q.seen
         /\ ByActor(p) = ByActor(q) /\ Scoped(p) = Scoped(q)
         /\ OneShop(p) = OneShop(q) /\ EveryShop(p) = EveryShop(q)
         /\ p.actor = q.actor => Unasked(p) = Unasked(q)
BY DEF Request0, ByActor, Scoped, OneShop, EveryShop, Unasked

\* The checks of the role leave what is known of the scope, and reading the scope
\* leaves what is known of the role.
LEMMA ScopeStays ==
  ASSUME NEW q, NEW p, Due0(q), Next0(q, p), Read0(p) = Read0(q),
         Head(q.todo) \in {"member", "permit", "own"}
  PROVE  /\ Scoped(p) => ScopeKnown(p)
         /\ Pending(p, "staff") => (OneShop(p) => Pending(p, "shop")) /\ (EveryShop(p) => Pending(p, "whole"))
<1>1. \A check \in {"scope", "staff", "shop", "whole"} : Pending(p, check) <=> Pending(q, check)
  BY PendingTail DEF Due0, Next0
<1>2. p.actor = q.actor /\ p.base = q.base /\ p.scope = q.scope
  BY DEF Read0
<1>3. /\ p.shop = q.shop /\ p.seen = q.seen
      /\ Scoped(p) = Scoped(q) /\ OneShop(p) = OneShop(q) /\ EveryShop(p) = EveryShop(q)
      /\ Unasked(p) = Unasked(q)
  BY <1>2, SameRequest DEF Next0
<1> QED BY <1>1, <1>2, <1>3 DEF Due0, Known, ScopeKnown

LEMMA RoleStays ==
  ASSUME NEW q, NEW p, Due0(q), Request0(p) = Request0(q), p.actor = q.actor,
         \A check \in {"member", "actor", "permit", "own"} : Pending(p, check) <=> Pending(q, check),
         ~ Pending(q, "actor")
  PROVE  RoleKnown(p)
BY SameRequest DEF Due0, Known, RoleKnown

---------------------------------------------------------------------------
\* One lemma per check: what the handler knows once it has passed it.

LEMMA MemberKnown ==
  ASSUME NEW q, NEW p, Due0(q), Next0(q, p), Read0(p) = Read0(q), Head(q.todo) = "member",
         q.role = "SUPER_ADMIN" \/ \E v \in q.seen : v.active /\ v.org = q.org
  PROVE  Known(p)
<1>1. \A check \in {"actor", "permit", "own", "scope"} : Pending(p, check) <=> Pending(q, check)
  BY PendingTail DEF Due0, Next0
<1>2. p.actor = q.actor
  BY DEF Read0
<1>3. RoleKnown(p)
  BY <1>1, <1>2, SameRequest DEF Due0, Next0, Known, RoleKnown
<1> QED BY <1>3, ScopeStays DEF Known

LEMMA ActorKnown ==
  ASSUME NEW q, NEW p, Due0(q), Next0(q, p), Head(q.todo) = "actor",
         p.scope = q.scope, \E v \in q.seen : v.active /\ p.actor = ActorRow(v)
  PROVE  ByActor(q) => Known(p)
<1> SUFFICES ASSUME ByActor(q) PROVE Known(p)
  OBVIOUS
<1>1. /\ \A check \in {"member", "permit", "own", "scope", "staff", "shop", "whole"} :
           Pending(p, check) <=> Pending(q, check)
      /\ Pending(q, "actor")
  BY PendingTail DEF Due0, Next0
<1>2. RoleKnown(p)
  BY <1>1, SameRequest DEF Due0, Next0, Known, RoleKnown
<1>3. Scoped(q) => Pending(q, "scope")
  BY <1>1 DEF Due0, Known, RoleKnown
<1>4. Scoped(p) => ScopeKnown(p)
  BY <1>1, <1>3, SameRequest DEF Due0, Next0, Known, ScopeKnown
<1> QED BY <1>1, <1>2, <1>4, SameRequest DEF Due0, Next0, Known

LEMMA PermitKnown ==
  ASSUME NEW q, NEW p, Due0(q), Next0(q, p), Read0(p) = Read0(q), Head(q.todo) = "permit",
         Permit(q.op, q.actor, q.shop)
  PROVE  Known(p)
<1>1. \A check \in {"member", "actor", "own", "scope"} : Pending(p, check) <=> Pending(q, check)
  BY PendingTail DEF Due0, Next0
<1>2. p.actor = q.actor
  BY DEF Read0
<1>3. ~ Pending(q, "actor")
  BY Due DEF Due0
<1>4. RoleKnown(p)
  BY <1>1, <1>2, <1>3, SameRequest DEF Due0, Next0, Known, RoleKnown
<1> QED BY <1>4, ScopeStays DEF Known

LEMMA OwnKnown ==
  ASSUME NEW q, NEW p, Due0(q), Next0(q, p), Read0(p) = Read0(q), Head(q.todo) = "own",
         q.actor.role # "OWNER" \/ q.actor.org = q.org
  PROVE  Known(p)
<1>1. \A check \in {"member", "actor", "permit", "scope"} : Pending(p, check) <=> Pending(q, check)
  BY PendingTail DEF Due0, Next0
<1>2. p.actor = q.actor
  BY DEF Read0
<1>3. ~ Pending(q, "actor")
  BY Due DEF Due0
<1>4. RoleKnown(p)
  BY <1>1, <1>2, <1>3, SameRequest DEF Due0, Next0, Known, RoleKnown
<1> QED BY <1>4, ScopeStays DEF Known

LEMMA ScopeSkipped ==
  ASSUME NEW q, NEW p, Due0(q), Request0(p) = Request0(q), Read0(p) = Read0(q),
         Head(q.todo) = "scope", p.todo = SubSeq(q.todo, 4, Len(q.todo)), Unasked(q)
  PROVE  Known(p)
<1>1. /\ \A check \in {"scope", "staff", "shop", "whole"} : ~ Pending(p, check)
      /\ \A check \in {"member", "actor", "permit", "own"} : Pending(p, check) <=> Pending(q, check)
  BY PendingRest DEF Due0
<1>2. p.actor = q.actor /\ p.scope = q.scope
  BY DEF Read0
<1>3. ~ Pending(q, "actor") /\ Pending(q, "scope")
  BY Due DEF Due0
<1>4. RoleKnown(p)
  BY <1>1, <1>2, <1>3, RoleStays
<1>5. Unasked(p) /\ Scoped(p) = Scoped(q)
  BY <1>2, SameRequest
<1>6. Scoped(p) => ScopeKnown(p)
  BY <1>1, <1>2, <1>3, <1>5 DEF Due0, Known, ScopeKnown
<1> QED BY <1>1, <1>4, <1>6 DEF Known

LEMMA BaseKnown ==
  ASSUME NEW q, NEW p, Due0(q), Next0(q, p), p.actor = q.actor, p.scope = q.scope,
         Head(q.todo) = "scope", ~ Unasked(q), \E v \in q.seen : p.base = ActorRow(v)
  PROVE  Known(p)
<1>1. \A check \in {"member", "actor", "permit", "own", "staff", "shop", "whole"} :
        Pending(p, check) <=> Pending(q, check)
  BY PendingTail DEF Due0, Next0
<1>2. ~ Pending(q, "actor") /\ Pending(q, "staff") /\ Pending(q, "scope")
  BY Due DEF Due0
<1>3. RoleKnown(p)
  BY <1>1, <1>2, RoleStays DEF Next0
<1>4. ~ Unasked(p) /\ p.seen = q.seen /\ Scoped(p) = Scoped(q)
      /\ OneShop(p) = OneShop(q) /\ EveryShop(p) = EveryShop(q)
  BY SameRequest DEF Next0
<1>5. Scoped(p) => ScopeKnown(p)
  BY <1>1, <1>2, <1>4 DEF Due0, Known, ScopeKnown
<1> QED BY <1>1, <1>3, <1>4, <1>5 DEF Known, Due0

LEMMA ScopeRead ==
  ASSUME NEW q, NEW p, Due0(q), Next0(q, p), p.actor = q.actor, p.base = q.base,
         Head(q.todo) = "staff", \E v \in q.seen : p.scope = ScopeOf(q.base, v.staff)
  PROVE  Known(p)
<1>1. /\ \A check \in {"member", "actor", "permit", "own", "scope", "shop", "whole"} :
           Pending(p, check) <=> Pending(q, check)
      /\ Pending(q, "staff")
  BY PendingTail DEF Due0, Next0
<1>2. ~ Pending(q, "actor") /\ ~ Pending(q, "scope")
  BY Due DEF Due0
<1>3. RoleKnown(p)
  BY <1>1, <1>2, RoleStays DEF Next0
<1>4. Unasked(p) = Unasked(q) /\ p.seen = q.seen /\ Scoped(p) = Scoped(q)
      /\ OneShop(p) = OneShop(q) /\ EveryShop(p) = EveryShop(q)
  BY SameRequest DEF Next0
<1>5. (OneShop(q) => Pending(q, "shop")) /\ (EveryShop(q) => Pending(q, "whole"))
  BY <1>1 DEF Due0, Known
<1>6. Scoped(q) => ~ Unasked(q) /\ \E v \in q.seen : q.base = ActorRow(v)
  BY <1>1, <1>2 DEF Due0, Known, ScopeKnown
<1>7. Scoped(p) => ScopeKnown(p)
  BY <1>1, <1>2, <1>4, <1>5, <1>6 DEF ScopeKnown
<1> QED BY <1>1, <1>3, <1>4, <1>5, <1>7 DEF Known

LEMMA ShopKnown ==
  ASSUME NEW q, NEW p, Due0(q), Next0(q, p), Read0(p) = Read0(q), Head(q.todo) \in {"shop", "whole"},
         Head(q.todo) = "shop" => IF q.scope.all THEN \E v \in q.seen : v.org = OrgOf[q.shop]
                                  ELSE q.shop \in q.scope.shops,
         Head(q.todo) = "whole" => (EveryShop(q) => q.scope.all)
  PROVE  Known(p)
<1>1. /\ \A check \in {"member", "actor", "permit", "own", "scope", "staff"} :
           Pending(p, check) <=> Pending(q, check)
      /\ \A check \in {"shop", "whole"} : Pending(p, check) => Pending(q, check)
      /\ \A check \in {"shop", "whole"} : check # Head(q.todo) => (Pending(p, check) <=> Pending(q, check))
      /\ Pending(q, Head(q.todo))
  BY PendingTail DEF Due0, Next0
<1>2. ~ Pending(q, "actor") /\ ~ Pending(q, "scope") /\ ~ Pending(q, "staff")
  BY Due DEF Due0
<1>3. p.actor = q.actor /\ p.base = q.base /\ p.scope = q.scope
  BY DEF Read0
<1>4. RoleKnown(p)
  BY <1>1, <1>2, <1>3, RoleStays DEF Next0
<1>5. Unasked(p) = Unasked(q) /\ p.seen = q.seen /\ p.shop = q.shop /\ Scoped(p) = Scoped(q)
      /\ OneShop(p) = OneShop(q) /\ EveryShop(p) = EveryShop(q)
  BY <1>3, SameRequest DEF Next0
<1>6. Scoped(q) => ~ Unasked(q)
  BY <1>1, <1>2 DEF Due0, Known, ScopeKnown
<1>7. Scoped(p) => ScopeKnown(p)
  <2> SUFFICES ASSUME Scoped(q) PROVE ScopeKnown(p)
    BY <1>5
  <2>1. /\ \E v \in q.seen : q.base = ActorRow(v)
        /\ \E v \in q.seen : q.scope = ScopeOf(q.base, v.staff)
        /\ OneShop(q) /\ ~ Pending(q, "shop") =>
             IF q.scope.all THEN \E v \in q.seen : v.org = OrgOf[q.shop]
             ELSE q.shop \in q.scope.shops
        /\ EveryShop(q) /\ ~ Pending(q, "whole") => q.scope.all
    BY <1>2, <1>6 DEF Due0, Known, ScopeKnown
  <2> QED BY <2>1, <1>1, <1>2, <1>3, <1>5, <1>6 DEF ScopeKnown
<1> QED BY <1>1, <1>2, <1>4, <1>7 DEF Known

\* Rows that are seen later leave what is known.
LEMMA SeenKnown ==
  ASSUME NEW q, NEW p, Known(q), q.seen \subseteq p.seen,
         << p.op, p.shop, p.org, p.role, p.todo, p.actor, p.base, p.scope >>
           = << q.op, q.shop, q.org, q.role, q.todo, q.actor, q.base, q.scope >>
  PROVE  Known(p)
<1>1. /\ p.op = q.op /\ p.shop = q.shop /\ p.org = q.org /\ p.role = q.role /\ p.todo = q.todo
      /\ p.actor = q.actor /\ p.base = q.base /\ p.scope = q.scope
  OBVIOUS
<1>2. /\ \A check : Pending(p, check) <=> Pending(q, check)
      /\ ByActor(p) = ByActor(q) /\ Scoped(p) = Scoped(q)
      /\ OneShop(p) = OneShop(q) /\ EveryShop(p) = EveryShop(q) /\ Unasked(p) = Unasked(q)
  BY <1>1 DEF Pending, ByActor, Scoped, OneShop, EveryShop, Unasked
<1>3. RoleKnown(p)
  BY <1>1, <1>2 DEF Known, RoleKnown
<1>4. Scoped(p) => ScopeKnown(p)
  BY <1>1, <1>2 DEF Known, ScopeKnown
<1> QED BY <1>1, <1>2, <1>3, <1>4 DEF Known

---------------------------------------------------------------------------
\* What follows from what is known, of a request that the matrix speaks of.

Person0(q) ==
  /\ q \in Request /\ q.pc = "checking" /\ RequestOK(q)
  /\ Regular(q)

LEMMA RequestFacts ==
  ASSUME NEW q, Person0(q)
  PROVE  /\ row \in q.seen /\ Known(q) /\ Needed(q) /\ Ordered(q.todo) /\ q.todo \in Seq(Check)
         /\ \A v \in q.seen : v \in Row /\ Fits(v) /\ ~ Platform(v) /\ TokenHolds(q, v)
         /\ \A u, v \in q.seen : v.org = u.org \/ ShopsOf(u.org) = {}
         /\ q.op \in Op /\ q.shop \in AskedShops(q.op) /\ q.org \in AskedOrgs(q.op)
         /\ q.op \in OrgOps => q.org \in Orgs /\ q.org # NoOrg
BY Setting, OneOrg DEF Person0, Regular, RequestOK, Request, AskedOrgs, OrgOps, ShopOps

LEMMA MemberOrg ==
  ASSUME NEW q, Person0(q), q.op \in OrgOps \ {"settings"}, ~ Pending(q, "member")
  PROVE  /\ \E u \in q.seen : u.active /\ u.org = q.org
         /\ \A v \in q.seen : v.org = q.org \/ ShopsOf(q.org) = {}
<1>1. PICK u \in q.seen : u.active /\ u.org = q.org
  BY RequestFacts DEF Known, RoleKnown, TokenHolds, Platform
<1> QED BY <1>1, RequestFacts

LEMMA ActorOfRow ==
  ASSUME NEW q, Person0(q), ByActor(q), ~ Pending(q, "actor")
  PROVE  /\ \E u \in q.seen : u.active /\ q.actor = ActorRow(u)
         /\ q.op # "shops" /\ ~ Unasked(q)
<1>1. PICK u \in q.seen : u.active /\ q.actor = ActorRow(u)
  BY RequestFacts DEF Known, RoleKnown
<1>2. ~ IsPlatformAdmin(q.actor)
  BY <1>1, RequestFacts DEF IsPlatformAdmin, ActorRow, Platform
<1> QED BY <1>1, <1>2 DEF ByActor, Unasked

\* What the permissions mean in terms of the matrix.
LEMMA PermitMeans ==
  ASSUME NEW v \in Row, ~ Platform(v), NEW op \in Op \ {"finance", "shops"}, NEW shop
  PROVE  Permit(op, ActorRow(v), shop) <=>
           MayAct(op, v) /\ (op \in {"ledgers", "stockReport"} /\ shop = NoShop => AllShops(v))
<1>1. v.role \in {"OWNER", "MANAGER", "STAFF"}
  BY DEF Row, Role, Platform
<1>2. ActorRow(v).role = v.role /\ ActorRow(v).access = v.access
  BY DEF ActorRow
<1> USE DEF CanManageUsers, IsPlatformAdmin
<1>3. CASE op \in {"purchase", "stock"}
  BY <1>1, <1>2, <1>3 DEF Permit, MayAct, CanAddStock
<1>4. CASE op = "funding"
  BY <1>1, <1>2, <1>4 DEF Permit, MayAct, CanAddOrgFunding
<1>5. CASE op \in {"ledgers", "stockReport"}
  BY <1>1, <1>2, <1>5 DEF Permit, MayAct, CanGenerateReports, AllShops
<1>6. CASE op \in {"business", "pastReports"}
  BY <1>1, <1>2, <1>6 DEF Permit, MayAct, CanGenerateBusinessReport
<1>7. CASE op = "settings"
  BY <1>1, <1>2, <1>7 DEF Permit, MayAct
<1>8. CASE op \in {"sale", "expense", "inventory", "receipt", "cash", "purchases", "orgReceipts"}
  BY <1>1, <1>2, <1>8 DEF Permit, MayAct, ShopOpsAllowed
<1> QED BY <1>3, <1>4, <1>5, <1>6, <1>7, <1>8 DEF Op, ShopOps, OrgOps

LEMMA ScopeOfRow ==
  ASSUME NEW q, Person0(q), Scoped(q), ~ Unasked(q), ~ Pending(q, "scope"), ~ Pending(q, "staff")
  PROVE  \E b \in q.seen, w \in q.seen :
           \/ AllShops(b) /\ q.scope.all
           \/ ~ AllShops(b) /\ ~ q.scope.all /\ q.scope.shops = w.staff
<1>1. PICK b \in q.seen, w \in q.seen : q.base = ActorRow(b) /\ q.scope = ScopeOf(q.base, w.staff)
  BY RequestFacts DEF Known, ScopeKnown
<1>2. b \in Row /\ Fits(b) /\ ~ Platform(b) /\ w \in Row /\ Fits(w)
  BY <1>1, RequestFacts
<1>3. /\ AllShops(b) => q.scope = [all |-> TRUE, shops |-> ShopsOf(b.org)]
      /\ ~ AllShops(b) => q.scope = [all |-> FALSE, shops |-> w.staff]
  BY <1>1, <1>2, ScopeIs
<1> QED BY <1>1, <1>3

LEMMA ShopHeld ==
  ASSUME NEW q, Person0(q), q.shop \in Shops, q.op # "business", ~ Unasked(q),
         \A check \in {"scope", "staff", "shop"} : ~ Pending(q, check)
  PROVE  \E v \in q.seen : HasShop(v, q.shop)
<1>1. Scoped(q) /\ OneShop(q)
  BY Setting DEF Scoped, OneShop
<1>2. PICK b \in q.seen, w \in q.seen :
           \/ AllShops(b) /\ q.scope.all
           \/ ~ AllShops(b) /\ ~ q.scope.all /\ q.scope.shops = w.staff
  BY <1>1, ScopeOfRow
<1>3. IF q.scope.all THEN \E v \in q.seen : v.org = OrgOf[q.shop] ELSE q.shop \in q.scope.shops
  BY <1>1, RequestFacts DEF Known, ScopeKnown
<1>4. CASE AllShops(b) /\ q.scope.all
  <2>1. PICK u \in q.seen : u.org = OrgOf[q.shop]
    BY <1>3, <1>4
  <2>2. u.org # NoOrg /\ ShopsOf(u.org) # {}
    BY <2>1, Setting DEF ShopsOf
  <2>3. b.org = OrgOf[q.shop]
    BY <2>1, <2>2, RequestFacts
  <2> QED BY <1>4, <2>3 DEF HasShop, AllShops
<1>5. CASE ~ q.scope.all /\ q.scope.shops = w.staff
  BY <1>3, <1>5, RequestFacts, AssignedHasShop
<1> QED BY <1>2, <1>4, <1>5

\* The shops of a scope within the organization that was asked for.
LEMMA InOrgHeld ==
  ASSUME NEW q, Person0(q), q.op \in {"orgReceipts", "business", "shops"},
         \A check \in Check : ~ Pending(q, check), NEW s \in InOrg(q)
  PROVE  \E v \in q.seen : HasShop(v, s)
<1>1. /\ s \in ShopsOf(q.org) /\ OrgOf[s] = q.org /\ (q.scope.all \/ s \in q.scope.shops)
      /\ Scoped(q) /\ q.op \in OrgOps \ {"settings"} /\ ~ Pending(q, "member") /\ ~ Pending(q, "actor")
      /\ ~ Pending(q, "scope") /\ ~ Pending(q, "staff")
  BY DEF InOrg, ShopsOf, Scoped, OrgOps, Check
<1>2. /\ \E u \in q.seen : u.active /\ u.org = q.org
      /\ \A v \in q.seen : v.org = q.org
  BY <1>1, MemberOrg
<1>3. CASE Unasked(q)
  <2>1. q.op = "shops" /\ q.role \notin {"STAFF", "MANAGER"}
    BY <1>1, <1>3, ActorOfRow DEF Unasked, ByActor
  <2>2. PICK u \in q.seen : u.org = q.org
    BY <1>2
  <2>3. u.role = "OWNER"
    BY <2>1, RequestFacts DEF TokenHolds, Platform, Row, Role
  <2> QED BY <1>1, <2>2, <2>3 DEF HasShop
<1>4. CASE ~ Unasked(q)
  <2>1. PICK b \in q.seen, w \in q.seen :
           \/ AllShops(b) /\ q.scope.all
           \/ ~ AllShops(b) /\ ~ q.scope.all /\ q.scope.shops = w.staff
    BY <1>1, <1>4, ScopeOfRow
  <2>2. CASE AllShops(b)
    BY <1>1, <1>2, <2>2 DEF HasShop, AllShops
  <2>3. CASE s \in w.staff
    BY <2>3, RequestFacts, AssignedHasShop
  <2> QED BY <1>1, <2>1, <2>2, <2>3
<1> QED BY <1>3, <1>4

---------------------------------------------------------------------------
\* A handler that has passed all its checks.

Through(q) == Person0(q) /\ (\A check \in Check : ~ Pending(q, check)) /\ ~ Outside(q)

LEMMA RoleHeld ==
  ASSUME NEW q, Through(q)
  PROVE  \E v \in q.seen :
           /\ v.active /\ MayAct(q.op, v)
           /\ q.op \in {"ledgers", "stockReport"} /\ q.shop = NoShop => AllShops(v)
           /\ q.op = "settings" => v.org = q.org
<1>0. \A check \in {"member", "actor", "permit", "own"} : ~ Pending(q, check)
  BY DEF Through, Check
<1>1. CASE ByActor(q)
  <2>1. PICK u \in q.seen : u.active /\ q.actor = ActorRow(u)
    BY <1>0, <1>1, ActorOfRow DEF Through
  <2>2. Permit(q.op, ActorRow(u), q.shop)
    BY <1>0, <1>1, <2>1, RequestFacts DEF Through, Known, RoleKnown
  <2>3. MayAct(q.op, u) /\ (q.op \in {"ledgers", "stockReport"} /\ q.shop = NoShop => AllShops(u))
    BY <1>1, <2>2, PermitMeans, RequestFacts DEF Through, ByActor
  <2>4. q.op = "settings" => q.actor.role # "OWNER" \/ q.actor.org = q.org
    BY <1>0, RequestFacts DEF Through, Known, RoleKnown
  <2>5. q.op = "settings" => u.org = q.org
    BY <2>1, <2>3, <2>4 DEF MayAct, ActorRow
  <2> QED BY <2>1, <2>3, <2>5
<1>2. CASE q.op \in {"finance", "shops"}
  <2>1. \E u \in q.seen : u.active /\ u.org = q.org
    BY <1>0, <1>2, MemberOrg DEF Through, OrgOps
  <2> QED BY <1>2, <2>1 DEF MayAct
<1> QED BY <1>1, <1>2 DEF ByActor

LEMMA AskedShopHeld ==
  ASSUME NEW q, Through(q), q.shop # NoShop
  PROVE  \E v \in q.seen : HasShop(v, q.shop)
<1>1. q.shop \in Shops /\ q.op \in ShopOps \cup {"ledgers", "stockReport", "orgReceipts", "business"}
  BY RequestFacts DEF Through, AskedShops, NoShop
<1>2. ByActor(q)
  BY <1>1 DEF ByActor, ShopOps
<1>3. ~ Unasked(q)
  BY <1>2, ActorOfRow DEF Through, Check
<1>4. CASE q.op # "business"
  BY <1>1, <1>3, <1>4, ShopHeld DEF Through, Check
<1>5. CASE q.op = "business"
  <2>1. q.shop \in InOrg(q)
    BY <1>5 DEF Through, Outside, Served, ShopOps
  <2> QED BY <1>5, <2>1, InOrgHeld DEF Through
<1> QED BY <1>4, <1>5

LEMMA ServedHeld ==
  ASSUME NEW q, Through(q), q.op \notin Unrestricted, NEW s \in Served(q)
  PROVE  \E v \in q.seen : HasShop(v, s)
<1>1. CASE q.shop # NoShop
  <2>1. q.op \in ShopOps \cup {"ledgers", "stockReport", "orgReceipts", "business"}
    BY <1>1, RequestFacts DEF Through, AskedShops
  <2>2. s = q.shop
    BY <1>1, <2>1, Setting DEF Served, ShopsOf, ShopOps
  <2> QED BY <1>1, <2>2, AskedShopHeld
<1>2. CASE q.shop = NoShop /\ q.op \in {"ledgers", "stockReport"}
  <2>1. s \in ShopsOf(q.org)
    BY <1>2 DEF Served, ShopOps
  <2>2. PICK u \in q.seen : AllShops(u)
    BY <1>2, RoleHeld
  <2>3. u.org = q.org
    BY <1>2, <2>1, MemberOrg DEF Through, Check, OrgOps
  <2> QED BY <2>1, <2>2, <2>3 DEF HasShop, AllShops, ShopsOf
<1>3. CASE q.shop = NoShop /\ q.op = "orgReceipts"
  <2>1. s \in ShopsOf(q.org)
    BY <1>3 DEF Served, ShopOps
  <2>2. ~ Unasked(q)
    BY <1>3, ActorOfRow DEF Through, ByActor, Check
  <2>3. Scoped(q) /\ EveryShop(q)
    BY <1>3 DEF Scoped, EveryShop
  <2>4. q.scope.all
    BY <2>2, <2>3, RequestFacts DEF Through, Check, Known, ScopeKnown
  <2>5. s \in InOrg(q)
    BY <2>1, <2>4 DEF InOrg
  <2> QED BY <1>3, <2>5, InOrgHeld DEF Through
<1>4. CASE q.shop = NoShop /\ q.op \in {"business", "shops"}
  <2>1. s \in InOrg(q)
    BY <1>4 DEF Served, ShopOps
  <2> QED BY <1>4, <2>1, InOrgHeld DEF Through
<1>5. CASE q.op = "settings"
  BY <1>5 DEF Served, ShopOps
<1>6. CASE q.shop = NoShop /\ q.op \in ShopOps
  BY <1>6, Setting, RequestFacts DEF Through, AskedShops, ShopOps
<1>7. q.op \in Op
  BY RequestFacts DEF Through
<1> QED BY <1>1, <1>2, <1>3, <1>4, <1>5, <1>6, <1>7 DEF Op, OrgOps, Unrestricted

\* If the row did not change, that row is entitled.
LEMMA RowEntitled ==
  ASSUME NEW q, Through(q), NEW v, q.seen = {v}
  PROVE  Entitled(q, v)
<1>1. /\ v.active /\ MayAct(q.op, v)
      /\ q.op \in {"ledgers", "stockReport"} /\ q.shop = NoShop => AllShops(v)
      /\ q.op = "settings" => v.org = q.org
  BY RoleHeld
<1>2. q.op \in OrgOps => v.org = q.org
  BY <1>1, MemberOrg DEF Through, Check
<1>3. q.shop # NoShop => HasShop(v, q.shop)
  BY AskedShopHeld
<1>4. q.shop = NoShop /\ q.op = "orgReceipts" => AllShops(v)
  <2> SUFFICES ASSUME q.shop = NoShop, q.op = "orgReceipts" PROVE AllShops(v)
    OBVIOUS
  <2>1. ~ Unasked(q)
    BY ActorOfRow DEF Through, ByActor, Check
  <2>2. Scoped(q) /\ EveryShop(q) /\ ~ Pending(q, "scope") /\ ~ Pending(q, "staff") /\ ~ Pending(q, "whole")
    BY DEF Scoped, EveryShop, Through, Check
  <2>3. q.scope.all
    BY <2>1, <2>2, RequestFacts DEF Through, Known, ScopeKnown
  <2> QED BY <2>1, <2>2, <2>3, ScopeOfRow DEF Through
<1>5. q.shop = NoShop /\ q.op = "business" => \E s \in ShopsOf(q.org) : HasShop(v, s)
  <2> SUFFICES ASSUME q.shop = NoShop, q.op = "business" PROVE \E s \in ShopsOf(q.org) : HasShop(v, s)
    OBVIOUS
  <2>1. PICK s \in InOrg(q) : TRUE
    BY DEF Through, Outside
  <2>2. HasShop(v, s)
    BY InOrgHeld DEF Through
  <2> QED BY <2>2 DEF InOrg
<1> QED BY <1>1, <1>2, <1>3, <1>4, <1>5 DEF Entitled

---------------------------------------------------------------------------
\* What a refusal says of a person whose row did not change.

Alone(q) == Person0(q) /\ q.seen = {row}

LEMMA PermitRefused ==
  ASSUME NEW q, Alone(q), ByActor(q), ~ Pending(q, "actor"), ~ Permit(q.op, q.actor, q.shop)
  PROVE  ~ Entitled(q, row)
<1>1. q.actor = ActorRow(row)
  BY ActorOfRow DEF Alone
<1>2. row \in Row /\ ~ Platform(row) /\ q.op \in Op \ {"finance", "shops"}
  BY RequestFacts DEF Alone, ByActor
<1> QED BY <1>1, <1>2, PermitMeans DEF Entitled

LEMMA ShopRefused ==
  ASSUME NEW q, Alone(q), OneShop(q), ~ Unasked(q), ~ Pending(q, "scope"), ~ Pending(q, "staff"),
         ~ IF q.scope.all THEN row.org # NoOrg /\ OrgOf[q.shop] = row.org ELSE q.shop \in q.scope.shops
  PROVE  ~ Entitled(q, row)
<1>1. q.shop # NoShop /\ q.shop \in Shops /\ Scoped(q)
  BY RequestFacts DEF Alone, OneShop, Scoped, AskedShops, ShopOps, OrgOps, Op
<1>2. OrgOf[q.shop] # NoOrg
  BY <1>1, Setting
<1>3. \/ AllShops(row) /\ q.scope.all
      \/ ~ AllShops(row) /\ ~ q.scope.all /\ q.scope.shops = row.staff
  BY <1>1, ScopeOfRow DEF Alone
<1>4. ~ HasShop(row, q.shop)
  BY <1>2, <1>3 DEF HasShop, AllShops
<1> QED BY <1>1, <1>4 DEF Entitled

LEMMA WholeRefused ==
  ASSUME NEW q, Alone(q), ~ OneShop(q), q.op = "orgReceipts", ~ Unasked(q),
         ~ Pending(q, "scope"), ~ Pending(q, "staff"), ~ q.scope.all
  PROVE  ~ Entitled(q, row)
<1>1. q.shop = NoShop /\ Scoped(q)
  BY DEF OneShop, Scoped
<1>2. ~ AllShops(row)
  BY <1>1, ScopeOfRow DEF Alone
<1> QED BY <1>1, <1>2 DEF Entitled

LEMMA OutsideRefused ==
  ASSUME NEW q, Alone(q), \A check \in Check : ~ Pending(q, check), Outside(q)
  PROVE  ~ Entitled(q, row)
<1> SUFFICES ASSUME Entitled(q, row) PROVE FALSE
  OBVIOUS
<1>1. /\ q.op = "business" /\ Scoped(q) /\ ByActor(q)
      /\ \A check \in {"actor", "scope", "staff"} : ~ Pending(q, check)
  BY DEF Outside, Scoped, ByActor, Check
<1>2. ~ Unasked(q)
  BY <1>1, ActorOfRow DEF Alone
<1>3. \/ AllShops(row) /\ q.scope.all
      \/ ~ AllShops(row) /\ ~ q.scope.all /\ q.scope.shops = row.staff
  BY <1>1, <1>2, ScopeOfRow DEF Alone
<1>4. row.org = q.org /\ row.staff \subseteq ShopsOf(q.org)
  BY <1>1, RequestFacts DEF Alone, Entitled, OrgOps, Fits
<1>5. \A s \in Shops : HasShop(row, s) => s \in InOrg(q)
  BY <1>3, <1>4 DEF HasShop, AllShops, InOrg, ShopsOf
<1>6. CASE q.shop = NoShop
  <2>1. \E s \in ShopsOf(q.org) : HasShop(row, s)
    BY <1>1, <1>6 DEF Entitled
  <2>2. Served(q) = InOrg(q)
    BY <1>1, <1>6 DEF Served, ShopOps
  <2> QED BY <2>1, <2>2, <1>5, Setting DEF Outside
<1>7. CASE q.shop # NoShop
  <2>1. q.shop \in Shops /\ HasShop(row, q.shop)
    BY <1>1, <1>7, RequestFacts DEF Alone, Entitled, AskedShops, ShopOps
  <2>2. Served(q) = {q.shop}
    BY <1>1, <1>7 DEF Served, ShopOps
  <2> QED BY <2>1, <2>2, <1>5 DEF Outside
<1> QED BY <1>6, <1>7

---------------------------------------------------------------------------
\* The steps of a request.

Halved(q) ==
  q.out = "ok" /\ Regular(q) =>
    /\ \E v \in q.seen : v.active /\ MayAct(q.op, v)
    /\ q.op \notin Unrestricted => \A s \in q.served : \E v \in q.seen : HasShop(v, s)

LEMMA NeededOn ==
  ASSUME NEW q, NEW p, Needed(q), p.op = q.op, p.shop = q.shop,
         \A check \in Check : Pending(p, check) => Pending(q, check)
  PROVE  Needed(p)
<1>1. ByActor(p) = ByActor(q) /\ Scoped(p) = Scoped(q) /\ OneShop(p) = OneShop(q)
  BY DEF ByActor, Scoped, OneShop
<1> QED BY <1>1 DEF Needed, Check

LEMMA OneRequest ==
  ASSUME AccessInv, UNCHANGED Rest, NEW r \in Requests, NEW p \in Request,
         req' = [req EXCEPT ![r] = p], RequestOK(p), Just(p), Halved(p)
  PROVE  AccessInv'
<1>1. row' = row /\ issued' = issued /\ changes' = changes
  BY DEF Rest
<1>2. /\ req' \in [Requests -> Request]
      /\ \A s \in Requests : req'[s] = IF s = r THEN p ELSE req[s]
  BY DEF AccessInv, TypeOK
<1>3. TypeOK'
  BY <1>1, <1>2 DEF AccessInv, TypeOK
<1>4. \A s \in Requests : RequestOK(req'[s]) /\ Just(req'[s]) /\ Halved(req'[s])
  BY <1>2 DEF AccessInv, MatrixHolds, HalvesHold, Halved
<1>5. \A s \in Requests : RequestOK(req[s])'
  BY <1>1, <1>4 DEF RequestOK
<1>6. MatrixHolds' /\ HalvesHold'
  BY <1>4 DEF MatrixHolds, HalvesHold, Halved
<1> QED BY <1>3, <1>5, <1>6 DEF AccessInv

\* A handler that passes a check and knows more than before.
LEMMA Passing ==
  ASSUME AccessInv, UNCHANGED Rest, NEW r \in Requests, req[r].pc = "checking",
         NEW p \in Request, req' = [req EXCEPT ![r] = p], p.pc = "checking",
         Request0(p) = Request0(req[r]), p.out = req[r].out, p.served = req[r].served,
         Ordered(p.todo), \A check \in Check : Pending(p, check) => Pending(req[r], check), Known(p)
  PROVE  AccessInv'
<1>1. RequestOK(req[r])
  BY DEF AccessInv
<1>2. p.op = req[r].op /\ p.shop = req[r].shop /\ p.org = req[r].org /\ p.role = req[r].role
      /\ p.seen = req[r].seen
  BY SameRequest
<1>3. Needed(p)
  BY <1>1, <1>2, NeededOn DEF RequestOK
<1>4. RequestOK(p)
  BY <1>1, <1>2, <1>3 DEF RequestOK
<1>5. p.out = "none"
  BY <1>1 DEF RequestOK
<1>6. Just(p) /\ Halved(p)
  BY <1>5 DEF Just, Halved
<1> QED BY <1>4, <1>6, OneRequest

\* A handler that answers; what it answers is right.
LEMMA Answering ==
  ASSUME AccessInv, UNCHANGED Rest, NEW r \in Requests, req[r].pc = "checking",
         NEW p \in Request, req' = [req EXCEPT ![r] = p], p.pc = "answered",
         Request0(p) = Request0(req[r]),
         \A v \in req[r].seen :
           req[r].seen = {v} /\ Regular(req[r]) =>
             /\ p.out = "ok" => /\ Entitled(req[r], v)
                                /\ p.op \notin Unrestricted => \A s \in p.served : HasShop(v, s)
             /\ p.out = "refused" => ~ Entitled(req[r], v),
         Halved(p)
  PROVE  AccessInv'
<1>1. RequestOK(req[r])
  BY DEF AccessInv
<1>2. p.op = req[r].op /\ p.shop = req[r].shop /\ p.org = req[r].org /\ p.seen = req[r].seen
      /\ p.role = req[r].role
  BY SameRequest
<1>3. RequestOK(p)
  BY <1>1, <1>2 DEF RequestOK
<1>4. (\A v : Entitled(p, v) <=> Entitled(req[r], v)) /\ (Regular(p) <=> Regular(req[r]))
  BY <1>2 DEF Entitled, Regular, TokenHolds
<1>5. Just(p)
  BY <1>2, <1>4 DEF Just
<1> QED BY <1>3, <1>5, OneRequest

LEMMA Refusing ==
  ASSUME AccessInv, UNCHANGED Rest, NEW r \in Requests, req[r].pc = "checking",
         Answer(r, "refused"), Alone(req[r]) => ~ Entitled(req[r], row)
  PROVE  AccessInv'
<1> DEFINE q == req[r]
           p == [q EXCEPT !.pc = "answered", !.out = "refused"]
<1>1. q \in Request /\ RequestOK(q)
  BY DEF AccessInv, TypeOK
<1>2. p \in Request /\ p.pc = "answered" /\ p.out = "refused" /\ Request0(p) = Request0(q)
  BY <1>1 DEF Request, Request0
<1>3. req' = [req EXCEPT ![r] = p]
  BY <1>1 DEF Answer, AccessInv, TypeOK, Request
<1>4. ASSUME NEW v \in q.seen, q.seen = {v}, Regular(q) PROVE ~ Entitled(q, v)
  <2>1. v = row
    BY <1>1, <1>4 DEF RequestOK
  <2>2. Alone(q)
    BY <1>1, <1>4, <2>1 DEF Alone, Person0
  <2> QED BY <2>1, <2>2
<1>5. Halved(p)
  BY <1>2 DEF Halved
<1> HIDE DEF p
<1> QED BY <1>2, <1>3, <1>4, <1>5, Answering

\* The state of a handler that is about to make a check.
LEMMA AtCheck ==
  ASSUME AccessInv, NEW r \in Requests, NEW check, Checking(r, check)
  PROVE  /\ req[r] \in Request /\ req[r].pc = "checking" /\ RequestOK(req[r])
         /\ Head(req[r].todo) = check /\ Due0(req[r]) /\ Pending(req[r], check) /\ Needed(req[r])
         /\ row \in req[r].seen
<1>1. req[r] \in Request /\ req[r].pc = "checking" /\ RequestOK(req[r]) /\ Head(req[r].todo) = check
  BY DEF AccessInv, TypeOK, Checking
<1>2. Due0(req[r]) /\ Needed(req[r]) /\ row \in req[r].seen
  BY <1>1 DEF RequestOK, Due0, Checking, Request
<1> QED BY <1>1, <1>2, Due DEF Due0

\* The check is done, and nothing else has changed.
LEMMA AfterCheck ==
  ASSUME AccessInv, NEW r \in Requests, NEW check, Checking(r, check)
  PROVE  /\ Passed(r) \in Request /\ Passed(r).pc = "checking" /\ Next0(req[r], Passed(r))
         /\ Read0(Passed(r)) = Read0(req[r])
         /\ Passed(r).out = req[r].out /\ Passed(r).served = req[r].served
<1>1. req[r] \in Request /\ req[r].pc = "checking" /\ Due0(req[r])
  BY AtCheck
<1>2. Tail(req[r].todo) \in Seq(Check)
  BY <1>1, OrderedTail DEF Due0
<1> QED BY <1>1, <1>2 DEF Passed, Request, Next0, Request0, Read0

LEMMA PassingOn ==
  ASSUME AccessInv, UNCHANGED Rest, NEW r \in Requests, NEW check, Checking(r, check),
         NEW p \in Request, req' = [req EXCEPT ![r] = p], p.pc = "checking", Next0(req[r], p),
         p.out = req[r].out, p.served = req[r].served, Known(p)
  PROVE  AccessInv'
<1>1. req[r].pc = "checking" /\ Due0(req[r])
  BY AtCheck
<1>2. Ordered(p.todo) /\ \A c \in Check : Pending(p, c) => Pending(req[r], c)
  BY <1>1, PendingTail DEF Due0, Next0
<1> QED BY <1>1, <1>2, Passing DEF Next0

LEMMA PassIfStep ==
  ASSUME AccessInv, UNCHANGED Rest, NEW r \in Requests, NEW check, Checking(r, check),
         NEW ok \in BOOLEAN, PassIf(r, ok), ok => Known(Passed(r)),
         ~ ok /\ Alone(req[r]) => ~ Entitled(req[r], row)
  PROVE  AccessInv'
<1>1. CASE ok
  <2>1. req' = [req EXCEPT ![r] = Passed(r)]
    BY <1>1 DEF PassIf
  <2> QED BY <1>1, <2>1, AfterCheck, PassingOn
<1>2. CASE ~ ok
  <2>1. Answer(r, "refused") /\ req[r].pc = "checking"
    BY <1>2, AtCheck DEF PassIf
  <2> QED BY <1>2, <2>1, Refusing
<1> QED BY <1>1, <1>2

---------------------------------------------------------------------------
\* The actions.

LEMMA MemberStep ==
  ASSUME AccessInv, NEW r \in Requests, Member(r)
  PROVE  AccessInv'
<1> DEFINE q == req[r]
           ok == q.role = "SUPER_ADMIN" \/ (row.active /\ row.org = q.org)
<1>1. Checking(r, "member") /\ PassIf(r, ok) /\ UNCHANGED Rest
  BY DEF Member
<1>2. /\ q.pc = "checking" /\ Due0(q) /\ Head(q.todo) = "member" /\ row \in q.seen
      /\ q.op \in OrgOps \ {"settings"}
  BY <1>1, AtCheck DEF Needed
<1>3. ok \in BOOLEAN
  OBVIOUS
<1>4. ok => Known(Passed(r))
  BY <1>1, <1>2, AfterCheck, MemberKnown
<1>5. ~ ok => ~ Entitled(q, row)
  BY <1>2 DEF Entitled
<1> HIDE DEF ok
<1> QED BY <1>1, <1>3, <1>4, <1>5, PassIfStep

LEMMA ActorStep ==
  ASSUME AccessInv, NEW r \in Requests, Actor(r)
  PROVE  AccessInv'
<1> DEFINE q == req[r]
           p == [Passed(r) EXCEPT !.actor = ActorRow(row)]
<1>1. Checking(r, "actor") /\ UNCHANGED Rest
  BY DEF Actor
<1>2. /\ q.pc = "checking" /\ Due0(q) /\ Head(q.todo) = "actor" /\ row \in q.seen /\ ByActor(q)
  BY <1>1, AtCheck DEF Needed
<1>3. CASE row.active
  <2>1. row \in Row
    BY DEF AccessInv, TypeOK
  <2>2. ActorRow(row) \in Person
    BY <2>1 DEF ActorRow, Person, Row
  <2>3. /\ Passed(r) \in Request /\ Next0(q, Passed(r)) /\ Read0(Passed(r)) = Read0(q)
        /\ Passed(r).pc = "checking" /\ Passed(r).out = q.out /\ Passed(r).served = q.served
    BY <1>1, AfterCheck
  <2>4. /\ p \in Request /\ p.actor = ActorRow(row) /\ p.scope = q.scope /\ Next0(q, p)
        /\ p.pc = "checking" /\ p.out = q.out /\ p.served = q.served
    BY <2>2, <2>3 DEF Request, Next0, Request0, Read0
  <2>5. req' = [req EXCEPT ![r] = p]
    BY <1>3 DEF Actor
  <2> HIDE DEF p
  <2>6. Known(p)
    BY <1>2, <1>3, <2>4, ActorKnown
  <2> QED BY <1>1, <2>4, <2>5, <2>6, PassingOn
<1>4. CASE ~ row.active
  <2>1. Answer(r, "refused") /\ ~ Entitled(q, row)
    BY <1>4 DEF Actor, Entitled
  <2> QED BY <1>1, <1>2, <2>1, Refusing
<1> QED BY <1>3, <1>4

LEMMA PermissionStep ==
  ASSUME AccessInv, NEW r \in Requests, Permission(r)
  PROVE  AccessInv'
<1> DEFINE q == req[r]
           ok == Permit(q.op, q.actor, q.shop)
<1>1. Checking(r, "permit") /\ PassIf(r, ok) /\ UNCHANGED Rest
  BY DEF Permission
<1>2. /\ q.pc = "checking" /\ Due0(q) /\ Head(q.todo) = "permit" /\ ByActor(q)
  BY <1>1, AtCheck DEF Needed
<1>3. ok \in BOOLEAN
  BY DEF Permit, CanAddStock, CanAddOrgFunding, CanGenerateReports, CanGenerateBusinessReport,
         CanManageUsers, ShopOpsAllowed, IsPlatformAdmin
<1>4. ok => Known(Passed(r))
  BY <1>1, <1>2, AfterCheck, PermitKnown
<1>5. ~ ok /\ Alone(q) => ~ Entitled(q, row)
  BY <1>2, Due, PermitRefused DEF Due0
<1> HIDE DEF ok
<1> QED BY <1>1, <1>3, <1>4, <1>5, PassIfStep

LEMMA OwnStep ==
  ASSUME AccessInv, NEW r \in Requests, OwnOrg(r)
  PROVE  AccessInv'
<1> DEFINE q == req[r]
           ok == q.actor.role = "OWNER" => q.actor.org = q.org
<1>1. Checking(r, "own") /\ PassIf(r, ok) /\ UNCHANGED Rest
  BY DEF OwnOrg
<1>2. /\ q.pc = "checking" /\ Due0(q) /\ Head(q.todo) = "own" /\ q.op = "settings"
  BY <1>1, AtCheck DEF Needed
<1>3. ok \in BOOLEAN
  OBVIOUS
<1>4. ok => Known(Passed(r))
  BY <1>1, <1>2, AfterCheck, OwnKnown
<1>5. ~ ok /\ Alone(q) => ~ Entitled(q, row)
  <2> SUFFICES ASSUME ~ ok, Alone(q) PROVE ~ Entitled(q, row)
    OBVIOUS
  <2>1. q.actor = ActorRow(row)
    BY <1>2, Due, ActorOfRow DEF Due0, Alone, ByActor
  <2> QED BY <1>2, <2>1 DEF Entitled, ActorRow, OrgOps
<1> HIDE DEF ok
<1> QED BY <1>1, <1>3, <1>4, <1>5, PassIfStep

LEMMA ScopeUserStep ==
  ASSUME AccessInv, NEW r \in Requests, ScopeUser(r)
  PROVE  AccessInv'
<1> DEFINE q == req[r]
<1>1. Checking(r, "scope") /\ UNCHANGED Rest
  BY DEF ScopeUser
<1>2. /\ q \in Request /\ q.pc = "checking" /\ Due0(q) /\ Head(q.todo) = "scope" /\ row \in q.seen
  BY <1>1, AtCheck
<1>3. CASE Unasked(q)
  <2> DEFINE p == [q EXCEPT !.todo = SubSeq(q.todo, 4, Len(q.todo))]
  <2>1. SubSeq(q.todo, 4, Len(q.todo)) \in Seq(Check)
    BY <1>2, OrderedRest DEF Due0
  <2>2. /\ p \in Request /\ p.todo = SubSeq(q.todo, 4, Len(q.todo)) /\ Request0(p) = Request0(q)
        /\ Read0(p) = Read0(q) /\ p.pc = "checking" /\ p.out = q.out /\ p.served = q.served
    BY <1>2, <2>1 DEF Request, Request0, Read0
  <2>3. req' = [req EXCEPT ![r] = p]
    BY <1>3 DEF ScopeUser
  <2> HIDE DEF p
  <2>4. Known(p)
    BY <1>2, <1>3, <2>2, ScopeSkipped
  <2>5. Ordered(p.todo) /\ \A c \in Check : Pending(p, c) => Pending(q, c)
    BY ZenonT(30), <1>2, <2>2, PendingRest DEF Due0, Check
  <2> QED BY <1>1, <1>2, <2>2, <2>3, <2>4, <2>5, Passing
<1>4. CASE ~ Unasked(q)
  <2> DEFINE p == [Passed(r) EXCEPT !.base = ActorRow(row)]
  <2>1. ActorRow(row) \in Person
    BY DEF AccessInv, TypeOK, ActorRow, Person, Row
  <2>2. /\ Passed(r) \in Request /\ Next0(q, Passed(r)) /\ Read0(Passed(r)) = Read0(q)
        /\ Passed(r).pc = "checking" /\ Passed(r).out = q.out /\ Passed(r).served = q.served
    BY <1>1, AfterCheck
  <2>3. /\ p \in Request /\ p.base = ActorRow(row) /\ p.actor = q.actor /\ p.scope = q.scope
        /\ Next0(q, p) /\ p.pc = "checking" /\ p.out = q.out /\ p.served = q.served
    BY <2>1, <2>2 DEF Request, Next0, Request0, Read0
  <2>4. req' = [req EXCEPT ![r] = p]
    BY <1>4 DEF ScopeUser
  <2> HIDE DEF p
  <2>5. Known(p)
    BY <1>2, <1>4, <2>3, BaseKnown
  <2> QED BY <1>1, <2>3, <2>4, <2>5, PassingOn
<1> QED BY <1>3, <1>4

LEMMA ScopeShopsStep ==
  ASSUME AccessInv, NEW r \in Requests, ScopeShops(r)
  PROVE  AccessInv'
<1> DEFINE q == req[r]
           scope == ScopeOf(q.base, row.staff)
           p == [Passed(r) EXCEPT !.scope = scope]
<1>1. Checking(r, "staff") /\ UNCHANGED Rest /\ req' = [req EXCEPT ![r] = p]
  BY DEF ScopeShops
<1>2. /\ q \in Request /\ Due0(q) /\ Head(q.todo) = "staff" /\ row \in q.seen /\ row \in Row
  BY <1>1, AtCheck DEF AccessInv, TypeOK
<1>3. scope \in [all : BOOLEAN, shops : SUBSET Shops]
  <2>1. row.staff \subseteq Shops /\ Owned \subseteq Shops /\ ShopsOf(q.base.org) \subseteq Shops
    BY <1>2, AccessSetting, Setting DEF Row
  <2> QED BY <2>1 DEF ScopeOf
<1>4. /\ Passed(r) \in Request /\ Next0(q, Passed(r)) /\ Read0(Passed(r)) = Read0(q)
      /\ Passed(r).pc = "checking" /\ Passed(r).out = q.out /\ Passed(r).served = q.served
  BY <1>1, AfterCheck
<1> HIDE DEF scope
<1>5. /\ p \in Request /\ p.scope = scope /\ p.actor = q.actor /\ p.base = q.base
      /\ Next0(q, p) /\ p.pc = "checking" /\ p.out = q.out /\ p.served = q.served
  BY <1>3, <1>4 DEF Request, Next0, Request0, Read0
<1> HIDE DEF p
<1>6. Known(p)
  BY <1>2, <1>5, ScopeRead DEF scope
<1> QED BY <1>1, <1>5, <1>6, PassingOn

\* Asking for a shop or for all shops comes after the scope is known, and only of
\* persons who have one.
LEMMA ScopeIsKnown ==
  ASSUME AccessInv, NEW r \in Requests, NEW check \in {"shop", "whole"}, Checking(r, check),
         Scoped(req[r])
  PROVE  ~ Pending(req[r], "scope") /\ ~ Pending(req[r], "staff") /\ ~ Unasked(req[r])
<1>1. Due0(req[r]) /\ Head(req[r].todo) = check /\ Pending(req[r], check)
  BY AtCheck
<1>2. ~ Pending(req[r], "scope") /\ ~ Pending(req[r], "staff")
  BY <1>1, Due DEF Due0
<1> QED BY <1>1, <1>2 DEF Due0, Known, ScopeKnown

LEMMA ShopStep ==
  ASSUME AccessInv, NEW r \in Requests, ShopInScope(r)
  PROVE  AccessInv'
<1> DEFINE q == req[r]
           ok == IF q.scope.all THEN row.org # NoOrg /\ OrgOf[q.shop] = row.org
                 ELSE q.shop \in q.scope.shops
<1>1. Checking(r, "shop") /\ PassIf(r, ok) /\ UNCHANGED Rest
  BY DEF ShopInScope
<1>2. /\ Due0(q) /\ Head(q.todo) = "shop" /\ row \in q.seen /\ OneShop(q) /\ Scoped(q)
  BY <1>1, AtCheck DEF Needed, OneShop, Scoped
<1>3. ok \in BOOLEAN
  <2>1. CASE q.scope.all
    BY <2>1
  <2>2. CASE ~ q.scope.all
    BY <2>2
  <2> QED BY <2>1, <2>2
<1>4. ok => Known(Passed(r))
  BY <1>1, <1>2, AfterCheck, ShopKnown
<1>5. ~ ok /\ Alone(q) => ~ Entitled(q, row)
  BY <1>1, <1>2, ScopeIsKnown, ShopRefused
<1> HIDE DEF ok
<1> QED BY <1>1, <1>3, <1>4, <1>5, PassIfStep

LEMMA WholeStep ==
  ASSUME AccessInv, NEW r \in Requests, WholeScope(r)
  PROVE  AccessInv'
<1> DEFINE q == req[r]
           ok == q.op = "orgReceipts" => q.scope.all
<1>1. Checking(r, "whole") /\ PassIf(r, ok) /\ UNCHANGED Rest
  BY DEF WholeScope
<1>2. q \in Request /\ Due0(q) /\ Head(q.todo) = "whole" /\ ~ OneShop(q)
  BY <1>1, AtCheck DEF Needed
<1>3. ok \in BOOLEAN
  BY <1>2 DEF Request
<1>4. ok => Known(Passed(r))
  BY <1>1, <1>2, AfterCheck, ShopKnown DEF EveryShop
<1>5. ~ ok /\ Alone(q) => ~ Entitled(q, row)
  BY <1>1, <1>2, ScopeIsKnown, WholeRefused DEF Scoped
<1> HIDE DEF ok
<1> QED BY <1>1, <1>3, <1>4, <1>5, PassIfStep

---------------------------------------------------------------------------
\* The request begins, and ends.

LEMMA FreshTyped == Fresh \in Request
<1>1. NoActor \in Person /\ WithoutLimit \in [all : BOOLEAN, shops : SUBSET Shops]
  BY DEF NoActor, Person, Role, WithoutLimit
<1>2. << >> \in Seq(Check) /\ "sale" \in Op
  BY DEF Op, ShopOps
<1> QED BY <1>1, <1>2 DEF Fresh, Request, Role

LEMMA StartStep ==
  ASSUME AccessInv, NEW r \in Requests, Start(r)
  PROVE  AccessInv'
<1>1. req[r].pc = "idle" /\ UNCHANGED Rest
  BY DEF Start
<1>2. PICK op \in Op, role \in issued :
        \E shop \in AskedShops(op), org \in AskedOrgs(op) :
          req' = [req EXCEPT ![r] = [Fresh EXCEPT
                    !.pc = "checking", !.op = op, !.shop = shop, !.org = org, !.role = role,
                    !.todo = Checks(op, shop), !.seen = {row}]]
  BY DEF Start
<1>3. PICK shop \in AskedShops(op), org \in AskedOrgs(op) :
        req' = [req EXCEPT ![r] = [Fresh EXCEPT
                  !.pc = "checking", !.op = op, !.shop = shop, !.org = org, !.role = role,
                  !.todo = Checks(op, shop), !.seen = {row}]]
  BY <1>2
<1> DEFINE p == [Fresh EXCEPT
                   !.pc = "checking", !.op = op, !.shop = shop, !.org = org, !.role = role,
                   !.todo = Checks(op, shop), !.seen = {row}]
<1>4. /\ p.pc = "checking" /\ p.op = op /\ p.shop = shop /\ p.org = org /\ p.role = role
      /\ p.todo = Checks(op, shop) /\ p.seen = {row} /\ p.scope = WithoutLimit
      /\ p.out = "none" /\ p.served = {} /\ p.actor = NoActor /\ p.base = NoActor
  BY DEF Fresh
<1>5. DOMAIN p = DOMAIN Fresh
  OBVIOUS
<1>6. req' = [req EXCEPT ![r] = p]
  BY <1>3
<1>7. row \in Row /\ issued \subseteq Role
  BY DEF AccessInv, TypeOK
<1>8. role \in Role
  BY <1>7
<1>9. p.todo \in Seq(Check) /\ Ordered(p.todo) /\ Needed(p) /\ Known(p)
  BY <1>4, StartKnown
<1>10. p \in Request
  <2>1. shop \in Shops \cup {NoShop} /\ org \in Orgs \cup {NoOrg}
    BY DEF AskedShops, AskedOrgs
  <2>2. Checks(op, shop) \in Seq(Check)
    BY <1>4, <1>9
  <2> QED BY <2>1, <2>2, <1>7, <1>8, FreshTyped DEF Request
<1> HIDE DEF p
<1>11. RequestOK(p)
  BY <1>4, <1>7, <1>9 DEF RequestOK
<1>12. Just(p) /\ Halved(p)
  BY <1>4 DEF Just, Halved
<1> QED BY <1>1, <1>6, <1>10, <1>11, <1>12, OneRequest

LEMMA AtReady ==
  ASSUME AccessInv, NEW r \in Requests, Ready(r)
  PROVE  /\ req[r] \in Request /\ req[r].pc = "checking" /\ RequestOK(req[r])
         /\ \A check \in Check : ~ Pending(req[r], check)
         /\ Regular(req[r]) => Person0(req[r])
<1>1. req[r] \in Request /\ req[r].pc = "checking" /\ RequestOK(req[r]) /\ req[r].todo = << >>
  BY DEF AccessInv, TypeOK, Ready
<1> QED BY <1>1 DEF Pending, Person0

LEMMA ServedTyped ==
  ASSUME NEW q, q \in Request, q.shop \in AskedShops(q.op)
  PROVE  Served(q) \in SUBSET Shops
<1>1. /\ q.op \in ShopOps => q.shop \in Shops
      /\ q.op = "business" /\ q.shop # NoShop => q.shop \in Shops
  BY DEF AskedShops, ShopOps
<1>2. InOrg(q) \subseteq Shops /\ ShopsOf(q.org) \subseteq Shops
  BY Setting DEF InOrg
<1> QED BY <1>1, <1>2 DEF Served

LEMMA ServeStep ==
  ASSUME AccessInv, NEW r \in Requests, Serve(r)
  PROVE  AccessInv'
<1> DEFINE q == req[r]
<1>1. Ready(r) /\ UNCHANGED Rest
  BY DEF Serve
<1>2. /\ q \in Request /\ q.pc = "checking" /\ RequestOK(q)
      /\ \A check \in Check : ~ Pending(q, check)
      /\ Regular(q) => Person0(q)
  BY <1>1, AtReady
<1>3. CASE Outside(q)
  <2>1. Answer(r, "refused")
    BY <1>3 DEF Serve
  <2>2. Alone(q) => ~ Entitled(q, row)
    BY <1>2, <1>3, OutsideRefused
  <2> QED BY <1>1, <1>2, <2>1, <2>2, Refusing
<1>4. CASE ~ Outside(q)
  <2> DEFINE shops == Served(q)
             p == [q EXCEPT !.pc = "answered", !.out = "ok", !.served = shops]
  <2>1. shops \in SUBSET Shops
    BY <1>2, ServedTyped DEF RequestOK
  <2>2. req' = [req EXCEPT ![r].pc = "answered", ![r].out = "ok", ![r].served = shops]
    BY <1>4 DEF Serve
  <2> HIDE DEF shops
  <2>3. /\ p \in Request /\ p.pc = "answered" /\ p.out = "ok" /\ p.served = shops
        /\ Request0(p) = Request0(q) /\ p.op = q.op /\ p.seen = q.seen /\ p.role = q.role
    BY <1>2, <2>1 DEF Request, Request0
  <2>4. req' = [req EXCEPT ![r] = p]
    BY <1>2, <2>2 DEF AccessInv, TypeOK, Request
  <2> HIDE DEF p
  <2>5. Regular(q) => Through(q)
    BY <1>2, <1>4 DEF Through
  <2>6. ASSUME Through(q), p.op \notin Unrestricted, NEW s \in p.served
        PROVE  \E v \in q.seen : HasShop(v, s)
    BY <2>3, <2>6, ServedHeld DEF shops
  <2>7. ASSUME NEW v \in q.seen, q.seen = {v}, Regular(q)
        PROVE  Entitled(q, v) /\ (p.op \notin Unrestricted => \A s \in p.served : HasShop(v, s))
    BY <2>5, <2>6, <2>7, RowEntitled
  <2>8. Regular(p) <=> Regular(q)
    BY <2>3 DEF Regular, TokenHolds
  <2>9. ASSUME Regular(q) PROVE \E v \in q.seen : v.active /\ MayAct(q.op, v)
    BY <2>5, <2>9, RoleHeld
  <2>10. Halved(p)
    BY <2>3, <2>5, <2>6, <2>8, <2>9 DEF Halved
  <2> QED BY <1>1, <1>2, <2>3, <2>4, <2>7, <2>10, Answering
<1> QED BY <1>3, <1>4

LEMMA ServeFailsStep ==
  ASSUME AccessInv, NEW r \in Requests, ServeFails(r)
  PROVE  AccessInv'
<1> DEFINE q == req[r]
           p == [q EXCEPT !.pc = "answered", !.out = "error"]
<1>1. Ready(r) /\ UNCHANGED Rest /\ Answer(r, "error")
  BY DEF ServeFails
<1>2. q \in Request /\ q.pc = "checking"
  BY <1>1, AtReady
<1>3. /\ p \in Request /\ p.pc = "answered" /\ p.out = "error" /\ Request0(p) = Request0(q)
  BY <1>2 DEF Request, Request0
<1>4. req' = [req EXCEPT ![r] = p]
  BY <1>1, <1>2 DEF Answer, AccessInv, TypeOK, Request
<1> HIDE DEF p
<1>5. Halved(p)
  BY <1>3 DEF Halved
<1> QED BY <1>1, <1>2, <1>3, <1>4, <1>5, Answering

---------------------------------------------------------------------------
\* The changes of the person's row.

LEMMA ChangeStep ==
  ASSUME AccessInv, NEW new \in Row, Change(new)
  PROVE  AccessInv'
<1>1. /\ row' = new /\ changes' = changes + 1 /\ changes < MaxChanges /\ Sees(new)
      /\ issued' \subseteq issued \cup {new.role}
  BY DEF Change
<1>2. ASSUME NEW r \in Requests, req[r].pc \in {"idle", "answered"}
      PROVE  /\ req'[r] = req[r] /\ RequestOK(req[r])' /\ Just(req'[r]) /\ Halved(req'[r])
  <2>1. req'[r] = req[r]
    BY <1>1, <1>2 DEF Sees
  <2>2. RequestOK(req[r]) /\ Just(req[r]) /\ Halved(req[r])
    BY DEF AccessInv, MatrixHolds, HalvesHold, Halved
  <2> QED BY <1>2, <2>1, <2>2 DEF RequestOK
<1>3. ASSUME NEW r \in Requests, req[r].pc = "checking"
      PROVE  /\ req'[r] \in Request /\ RequestOK(req[r])' /\ Just(req'[r]) /\ Halved(req'[r])
  <2> DEFINE q == req[r]
             p == [q EXCEPT !.seen = @ \cup {new}]
  <2>1. q \in Request /\ RequestOK(q)
    BY DEF AccessInv, TypeOK
  <2>2. req'[r] = p
    BY <1>1, <1>3 DEF Sees
  <2>3. /\ p \in Request /\ p.seen = q.seen \cup {new} /\ p.pc = q.pc /\ p.op = q.op
        /\ p.shop = q.shop /\ p.org = q.org /\ p.role = q.role /\ p.todo = q.todo
        /\ p.actor = q.actor /\ p.base = q.base /\ p.scope = q.scope
        /\ p.out = q.out /\ p.served = q.served
    BY <2>1 DEF Request
  <2> HIDE DEF p
  <2>4. Known(q) /\ Needed(q)
    BY <2>1, <1>3 DEF RequestOK
  <2>5. Known(p)
    BY <2>3, <2>4, SeenKnown
  <2>6. Needed(p)
    BY <2>3, <2>4, NeededOn DEF Pending
  <2>7. p.seen \subseteq Row
    BY <2>1, <2>3 DEF RequestOK
  <2>8. RequestOK(req[r])'
    BY <1>1, <1>3, <2>1, <2>2, <2>3, <2>5, <2>6, <2>7 DEF RequestOK
  <2>9. p.out = "none"
    BY <1>3, <2>1, <2>3 DEF RequestOK
  <2>10. Just(p) /\ Halved(p)
    BY <2>9 DEF Just, Halved
  <2> QED BY <2>2, <2>3, <2>8, <2>10
<1>4. \A r \in Requests : req[r] \in Request /\ req[r].pc \in {"idle", "checking", "answered"}
  BY DEF AccessInv, TypeOK, Request
<1>5. req' \in [Requests -> Request]
  <2>1. req' = [r \in Requests |-> req'[r]]
    BY <1>1 DEF Sees
  <2> QED BY <2>1, <1>2, <1>3, <1>4
<1>6. TypeOK'
  BY <1>1, <1>5, AccessSetting DEF AccessInv, TypeOK, Row
<1>7. \A r \in Requests : RequestOK(req[r])' /\ Just(req'[r]) /\ Halved(req'[r])
  BY <1>2, <1>3, <1>4
<1>8. MatrixHolds' /\ HalvesHold'
  BY <1>7 DEF MatrixHolds, HalvesHold, Halved
<1> QED BY <1>6, <1>7, <1>8 DEF AccessInv

LEMMA ReassignStep ==
  ASSUME AccessInv, Reassign
  PROVE  AccessInv'
<1>1. row \in Row
  BY DEF AccessInv, TypeOK
<1>2. ASSUME NEW s \in ShopsOf(row.org)
      PROVE  /\ [row EXCEPT !.role = "STAFF", !.access = "NONE", !.staff = {s}] \in Row
             /\ [row EXCEPT !.role = "MANAGER", !.access = "ONE_SHOP", !.staff = {s}] \in Row
  BY <1>1, Setting DEF Row, Role
<1>3. [row EXCEPT !.role = "MANAGER", !.access = "ALL_SHOPS", !.staff = {}] \in Row
  BY <1>1 DEF Row, Role
<1> QED BY <1>2, <1>3, ChangeStep DEF Reassign

LEMMA AccountSteps ==
  ASSUME AccessInv, Deactivate \/ SyncRole \/ UpdateProfile \/ Found
  PROVE  AccessInv'
<1>1. row \in Row
  BY DEF AccessInv, TypeOK
<1>2. /\ [row EXCEPT !.active = FALSE] \in Row
      /\ \A role \in {"OWNER", "ADMIN", "SUPER_ADMIN"} : [row EXCEPT !.role = role] \in Row
      /\ \A org \in Orgs : [row EXCEPT !.org = org, !.role = "OWNER"] \in Row
  BY <1>1 DEF Row, Role
<1>3. CASE Deactivate
  BY <1>2, <1>3, ChangeStep DEF Deactivate
<1>4. CASE SyncRole
  BY <1>2, <1>4, ChangeStep DEF SyncRole
<1>5. CASE UpdateProfile
  BY <1>5, AccessSetting, ChangeStep DEF UpdateProfile
<1>6. CASE Found
  BY <1>2, <1>6, ChangeStep DEF Found
<1> QED BY <1>3, <1>4, <1>5, <1>6

---------------------------------------------------------------------------
LEMMA InitAccess == Init => AccessInv
<1> SUFFICES ASSUME Init PROVE AccessInv
  OBVIOUS
<1>1. /\ row \in Row /\ issued = {row.role} /\ changes = 0
      /\ req = [r \in Requests |-> Fresh]
  BY AccessSetting DEF Init
<1>2. Fresh \in Request
  BY FreshTyped
<1>3. TypeOK
  BY <1>1, <1>2, AccessSetting DEF TypeOK, Row
<1>4. RequestOK(Fresh) /\ Just(Fresh) /\ Halved(Fresh)
  BY DEF RequestOK, Just, Halved, Fresh
<1>5. MatrixHolds /\ HalvesHold /\ \A r \in Requests : RequestOK(req[r])
  BY <1>1, <1>4 DEF MatrixHolds, HalvesHold, Halved
<1> QED BY <1>3, <1>5 DEF AccessInv

LEMMA StepAccess == AccessInv /\ [Next]_vars => AccessInv'
<1> SUFFICES ASSUME AccessInv, [Next]_vars PROVE AccessInv'
  OBVIOUS
<1>1. CASE UNCHANGED vars
  <2>1. row' = row /\ issued' = issued /\ changes' = changes /\ req' = req
    BY <1>1 DEF vars
  <2>2. TypeOK' /\ MatrixHolds' /\ HalvesHold'
    BY <2>1 DEF AccessInv, TypeOK, MatrixHolds, HalvesHold
  <2>3. \A r \in Requests : RequestOK(req[r])'
    BY <2>1 DEF AccessInv, RequestOK
  <2> QED BY <2>2, <2>3 DEF AccessInv
<1>2. ASSUME NEW r \in Requests,
             \/ Start(r) \/ Member(r) \/ Actor(r) \/ Permission(r) \/ OwnOrg(r)
             \/ ScopeUser(r) \/ ScopeShops(r) \/ ShopInScope(r) \/ WholeScope(r)
             \/ Serve(r) \/ ServeFails(r)
      PROVE  AccessInv'
  BY <1>2, StartStep, MemberStep, ActorStep, PermissionStep, OwnStep, ScopeUserStep, ScopeShopsStep,
     ShopStep, WholeStep, ServeStep, ServeFailsStep
<1>3. CASE Reassign \/ Deactivate \/ SyncRole \/ UpdateProfile \/ Found
  BY <1>3, ReassignStep, AccountSteps
<1> QED BY <1>1, <1>2, <1>3 DEF Next

---------------------------------------------------------------------------
\* Between two checks of a request, what the handler has read so far is of a row that
\* the person had since the request began: AccessInv holds in every state.
THEOREM AccessInductive == Spec => []AccessInv
<1> QED BY InitAccess, StepAccess, PTL DEF Spec

\* Every handler, row and token keeps to its type: the checks that are left, the scope
\* and the shops that are shown are what resolveShopScope and the controllers make.
THEOREM AccessTypes == Spec => []TypeOK
<1>1. AccessInv => TypeOK
  BY DEF AccessInv
<1> QED BY <1>1, AccessInductive, PTL

\* For any shops, roles and requests, and any changes of the person's row before, by the
\* exchange and by unfiltered bodies too: a person whose row stays as it is during a
\* regular request is served exactly when the permission matrix allows it, with that
\* person's shops only (finance and past reports are shown of all shops).
THEOREM MatrixIsKept == Spec => []MatrixHolds
<1>1. AccessInv => MatrixHolds
  BY DEF AccessInv
<1> QED BY <1>1, AccessInductive, PTL

\* And when the row changes between the checks of a regular request, however often: the
\* role that was needed and each shop that is shown were the person's at some instant
\* of the request (finance and past reports are shown of all shops).
THEOREM HalvesAreKept == Spec => []HalvesHold
<1>1. AccessInv => HalvesHold
  BY DEF AccessInv
<1> QED BY <1>1, AccessInductive, PTL

=============================================================================
