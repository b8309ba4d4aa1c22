----------------------------- MODULE CatalogProofs -----------------------------
(***************************************************************************)
(* The catalog, for any sets of rows, documents, feeds, requests, edits    *)
(* and imports: types, what a deletion may take away, and who may claim    *)
(* that a row is of the Mnyama Shop.                                       *)
(***************************************************************************)
EXTENDS Catalog, WellFoundedInduction, TLAPS

---------------------------------------------------------------------------
\* The parts of the invariant, the state of an import as a record.

DocOf(x) == x.docs[CHOOSE d \in x.left : TRUE]
AheadOf(x) == {k \in Places(DocOf(x)) : k > x.at}
Standing(x) ==
  /\ x \in Import
  /\ x.pc \in Step => x.left # {} /\ (\A d \in x.left : x.docs[d] \in ParsedDoc) /\ AheadOf(x) # {}
  /\ x.pc = "newCategory" => DocOf(x).title # None
  /\ x.pc \in {"row", "variant", "create"} => x.product # None

TablesOK ==
  /\ category \in [Categories -> Names \cup {None, Gone}]
  /\ product \in [Products -> ProductRow \cup {None, Gone}]
  /\ variant \in [Variants -> VariantRow \cup {None, Gone}]
  /\ inUse \subseteq Variants
JobsOK == job \in [Jobs -> OrNone(Request)] /\ \A j \in Jobs : Asked(j)
ImportsOK == imp \in [Importers -> Import] /\ \A i \in Importers : Standing(imp[i])

\* The invariant in three parts: the tables, the handlers of edits and the imports.
LEMMA Split == CatalogInv <=> TablesOK /\ JobsOK /\ ImportsOK
<1>1. \A i \in Importers : DocOf(imp[i]) = Doc(i) /\ AheadOf(imp[i]) = Ahead(i)
  BY DEF DocOf, AheadOf, Doc, DocAt, Ahead
<1> QED BY <1>1 DEF CatalogInv, TypeOK, TablesOK, JobsOK, ImportsOK, Standing, Found

\* The same of the next state.
LEMMA SplitPrime == CatalogInv' <=> TablesOK' /\ JobsOK' /\ ImportsOK'
<1>1. \A i \in Importers : DocOf(imp'[i]) = Doc(i)' /\ AheadOf(imp'[i]) = Ahead(i)'
  BY DEF DocOf, AheadOf, Doc, DocAt, Ahead
<1> QED BY <1>1 DEF CatalogInv, TypeOK, TablesOK, JobsOK, ImportsOK, Standing, Found

---------------------------------------------------------------------------
\* Places in a document.

\* Usable variants have their places in the list, which are natural numbers.
LEMMA PlacesAreNatural ==
  ASSUME NEW doc \in ParsedDoc
  PROVE  /\ Places(doc) # {} /\ Places(doc) \subseteq Nat
         /\ \A k \in Places(doc) : k > 0 /\ doc.variants[k].id \in Variants /\ doc.variants[k].sku \in Skus
<1>1. doc.variants \in Seq(RawVariant) /\ Places(doc) # {}
  BY DEF ParsedDoc
<1>2. Len(doc.variants) \in Nat /\ DOMAIN doc.variants = 1..Len(doc.variants)
      /\ \A k \in 1..Len(doc.variants) : doc.variants[k] \in RawVariant
  BY <1>1
<1> QED BY <1>1, <1>2 DEF Places, Usable, RawVariant, OrNone

\* A set of natural numbers has a least one, by well-founded induction.
LEMMA LeastNatural ==
  ASSUME NEW S, S \subseteq Nat, S # {}
  PROVE  \E k \in S : \A l \in S : k <= l
<1>1. IsWellFoundedOn(OpToRel(<, Nat), Nat)
  BY NatLessThanWellFounded
<1>2. PICK k \in S : \A l \in S : ~ (<< l, k >> \in OpToRel(<, Nat))
  BY <1>1, WFMin
<1>3. ASSUME NEW l \in S PROVE k <= l
  <2>1. k \in Nat /\ l \in Nat /\ ~ (l < k)
    BY <1>2 DEF OpToRel
  <2> QED BY <2>1
<1> QED BY <1>3

\* While usable variants are ahead, the next one is among them and has an id and a SKU.
LEMMA NextPlace ==
  ASSUME NEW i \in Importers, Standing(imp[i]), imp[i].pc \in Step
  PROVE  /\ DocAt(i) \in imp[i].left /\ DocAt(i) \in Docs /\ Doc(i) \in ParsedDoc /\ Doc(i) = DocOf(imp[i])
         /\ Ahead(i) = AheadOf(imp[i])
         /\ Place(i) \in Ahead(i) /\ Place(i) \in Nat /\ Place(i) > imp[i].at
         /\ (\A l \in Ahead(i) : l \in Nat /\ Place(i) <= l)
         /\ Wanted(i).id \in Variants /\ Wanted(i).sku \in Skus
<1>1. /\ imp[i] \in Import /\ imp[i].left # {} /\ (\A d \in imp[i].left : imp[i].docs[d] \in ParsedDoc)
      /\ AheadOf(imp[i]) # {}
  BY DEF Standing
<1>2. DocAt(i) \in imp[i].left /\ DocAt(i) \in Docs
  BY <1>1 DEF DocAt, Import
<1>3. Doc(i) \in ParsedDoc /\ Doc(i) = DocOf(imp[i]) /\ Ahead(i) = AheadOf(imp[i])
  BY <1>1, <1>2 DEF Doc, DocOf, DocAt, Ahead, AheadOf
<1>4. Ahead(i) \subseteq Nat /\ Ahead(i) # {} /\ Ahead(i) \subseteq Places(Doc(i))
  BY <1>1, <1>3, PlacesAreNatural DEF Ahead
<1>5. Place(i) \in Ahead(i) /\ \A l \in Ahead(i) : Place(i) <= l
  BY <1>4, LeastNatural DEF Place
<1>6. Place(i) > imp[i].at
  BY <1>5 DEF Ahead
<1>7. Wanted(i).id \in Variants /\ Wanted(i).sku \in Skus
  BY <1>3, <1>4, <1>5, PlacesAreNatural DEF Wanted
<1> QED BY <1>2, <1>3, <1>4, <1>5, <1>6, <1>7

---------------------------------------------------------------------------
\* Imports that go on.

\* What an import is told of rows that others touched changes nothing else of it.
LEMMA Touching ==
  ASSUME ImportsOK, NEW i, NEW ids \in SUBSET (Products \cup Variants)
  PROVE  /\ TouchedBut(i, ids) \in [Importers -> Import]
         /\ \A k \in Importers : Standing(TouchedBut(i, ids)[k])
         /\ i \in Importers => TouchedBut(i, ids)[i] = imp[i]
<1>1. ASSUME NEW k \in Importers PROVE Standing([imp[k] EXCEPT !.touched = @ \cup ids])
  <2> DEFINE x == [imp[k] EXCEPT !.touched = @ \cup ids]
  <2>1. imp[k] \in Import /\ Standing(imp[k])
    BY DEF ImportsOK
  <2>2. /\ x \in Import /\ x.pc = imp[k].pc /\ x.docs = imp[k].docs /\ x.left = imp[k].left
        /\ x.at = imp[k].at /\ x.product = imp[k].product
    BY <2>1 DEF Import
  <2> HIDE DEF x
  <2>3. DocOf(x) = DocOf(imp[k]) /\ AheadOf(x) = AheadOf(imp[k])
    BY <2>2 DEF DocOf, AheadOf
  <2>4. Standing(x)
    BY <2>1, <2>2, <2>3 DEF Standing
  <2> QED BY <2>4 DEF x
<1>2. \A k \in Importers : Standing(TouchedBut(i, ids)[k])
  BY <1>1 DEF TouchedBut, ImportsOK
<1>3. TouchedBut(i, ids) = [k \in Importers |-> TouchedBut(i, ids)[k]]
  BY DEF TouchedBut
<1>4. \A k \in Importers : TouchedBut(i, ids)[k] \in Import
  BY <1>2 DEF Standing
<1> QED BY <1>2, <1>3, <1>4 DEF TouchedBut

\* A step of one import that keeps it in order keeps all of them.
LEMMA Move ==
  ASSUME ImportsOK, NEW i \in Importers, NEW x, Standing(x), imp' = [imp EXCEPT ![i] = x]
  PROVE  ImportsOK'
BY DEF ImportsOK, Standing

\* The same when the step also tells the other imports what it touched.
LEMMA MoveTouching ==
  ASSUME ImportsOK, NEW i \in Importers, NEW ids \in SUBSET (Products \cup Variants), NEW x, Standing(x),
         imp' = [TouchedBut(i, ids) EXCEPT ![i] = x]
  PROVE  ImportsOK'
<1>1. /\ TouchedBut(i, ids) \in [Importers -> Import]
      /\ \A k \in Importers : Standing(TouchedBut(i, ids)[k])
  BY Touching
<1> QED BY <1>1 DEF ImportsOK, Standing

\* An import that has not begun is in order.
LEMMA StandingIdle == Standing(IdleImport)
<1>1. IdleImport \in Import /\ IdleImport.pc = "idle"
  BY DEF IdleImport, Import, OrNone
<1> QED BY <1>1 DEF Standing, Step

\* The same document, at another step.
LEMMA StandingOn ==
  ASSUME NEW x, Standing(x), x.pc \in Step, NEW y \in Import,
         y.docs = x.docs, y.left = x.left, y.at = x.at, y.pc \in Step,
         y.pc = "newCategory" => DocOf(x).title # None,
         y.pc \in {"row", "variant", "create"} => y.product # None
  PROVE  Standing(y)
<1>1. DocOf(y) = DocOf(x) /\ AheadOf(y) = AheadOf(x)
  BY DEF DocOf, AheadOf
<1> QED BY <1>1 DEF Standing

\* The next document.
LEMMA StandingNext ==
  ASSUME NEW i \in Importers, Standing(imp[i]), imp[i].pc \in Step,
         NEW done \in SUBSET Docs, NEW failed \in SUBSET Docs
  PROVE  Standing(NextDoc(i, done, failed))
<1> DEFINE x == imp[i]
           y == NextDoc(i, done, failed)
<1>1. /\ x \in Import /\ (\A d \in x.left : x.docs[d] \in ParsedDoc) /\ x.left \subseteq Docs
  BY DEF Standing, Import
<1>2. /\ y \in Import /\ y.docs = x.docs /\ y.left = x.left \ {DocAt(i)} /\ y.at = 0
      /\ y.pc = IF x.left = {DocAt(i)} THEN "end" ELSE "category"
  <2>1. {"end", "category"} \subseteq Step \cup {"idle", "end"} /\ 0 \in Nat /\ None \in OrNone(Products)
        /\ None \in OrNone(Categories)
    BY DEF Step, OrNone
  <2> QED BY <1>1, <2>1 DEF NextDoc, Import
<1>3. DocAt(i) \in x.left
  BY NextPlace
<1> SUFFICES Standing(y)
  OBVIOUS
<1> HIDE DEF x, y
<1>4. CASE x.left = {DocAt(i)}
  BY <1>2, <1>4 DEF Standing, Step
<1>5. CASE x.left # {DocAt(i)}
  <2>1. y.left # {} /\ (\A d \in y.left : y.docs[d] \in ParsedDoc) /\ y.pc = "category"
    BY <1>1, <1>2, <1>3, <1>5
  <2>2. DocOf(y) \in ParsedDoc
    BY <2>1 DEF DocOf
  <2>3. AheadOf(y) # {}
    BY <2>2, <1>2, PlacesAreNatural DEF AheadOf
  <2> QED BY <1>2, <2>1, <2>3 DEF Standing
<1> QED BY <1>4, <1>5

---------------------------------------------------------------------------
\* What a write does to rows.

Keeps == Rows(product) \subseteq Rows(product)' /\ Rows(variant) \subseteq Rows(variant)'
NoClaim == Synced(product)' \subseteq Synced(product) /\ Synced(variant)' \subseteq Synced(variant)

\* A row that is there is of its type.
LEMMA RowsAre ==
  ASSUME TablesOK
  PROVE  /\ Rows(category) \subseteq Categories /\ Rows(product) \subseteq Products /\ Rows(variant) \subseteq Variants
         /\ \A c \in Rows(category) : category[c] \in Names
         /\ \A p \in Rows(product) : product[p] \in ProductRow
         /\ \A v \in Rows(variant) : variant[v] \in VariantRow
BY DEF TablesOK, Rows, Row

\* Writing a product row keeps the tables typed and takes no row away.
LEMMA PutProduct ==
  ASSUME TablesOK, NEW p \in Products, NEW rec \in ProductRow, product' = [product EXCEPT ![p] = rec]
  PROVE  /\ product' \in [Products -> ProductRow \cup {None, Gone}]
         /\ Rows(product) \subseteq Rows(product)'
         /\ rec.source = "CUSTOM" \/ (Row(product, p) /\ rec.source = product[p].source)
              => Synced(product)' \subseteq Synced(product)
<1>1. product \in [Products -> ProductRow \cup {None, Gone}] /\ rec \notin {None, Gone}
  BY CatalogNaming DEF TablesOK
<1>2. /\ product' \in [Products -> ProductRow \cup {None, Gone}] /\ product'[p] = rec
      /\ \A q \in Products : q # p => product'[q] = product[q]
  BY <1>1
<1>3. DOMAIN product = Products /\ DOMAIN product' = Products
  BY <1>1, <1>2
<1>4. Rows(product) \subseteq Rows(product)'
  BY <1>1, <1>2, <1>3 DEF Rows, Row
<1>5. ASSUME rec.source = "CUSTOM" \/ (Row(product, p) /\ rec.source = product[p].source),
             NEW q \in Synced(product)'
      PROVE  q \in Synced(product)
  <2>1. q \in Products /\ product'[q] \notin {None, Gone} /\ product'[q].source = "MNYAMA_SHOP"
    BY <1>3, <1>5 DEF Synced, Rows, Row
  <2>2. CASE q = p
    BY <2>1, <2>2, <1>2, <1>3, <1>5 DEF Synced, Rows, Row
  <2>3. CASE q # p
    BY <2>1, <2>3, <1>2, <1>3 DEF Synced, Rows, Row
  <2> QED BY <2>2, <2>3
<1> QED BY <1>2, <1>4, <1>5

\* Writing a variant row keeps the tables typed and takes no row away.
LEMMA PutVariant ==
  ASSUME TablesOK, NEW v \in Variants, NEW rec \in VariantRow, variant' = [variant EXCEPT ![v] = rec]
  PROVE  /\ variant' \in [Variants -> VariantRow \cup {None, Gone}]
         /\ Rows(variant) \subseteq Rows(variant)'
         /\ rec.source = "CUSTOM" \/ (Row(variant, v) /\ rec.source = variant[v].source)
              => Synced(variant)' \subseteq Synced(variant)
<1>1. variant \in [Variants -> VariantRow \cup {None, Gone}] /\ rec \notin {None, Gone}
  BY CatalogNaming DEF TablesOK
<1>2. /\ variant' \in [Variants -> VariantRow \cup {None, Gone}] /\ variant'[v] = rec
      /\ \A w \in Variants : w # v => variant'[w] = variant[w]
  BY <1>1
<1>3. DOMAIN variant = Variants /\ DOMAIN variant' = Variants
  BY <1>1, <1>2
<1>4. Rows(variant) \subseteq Rows(variant)'
  BY <1>1, <1>2, <1>3 DEF Rows, Row
<1>5. ASSUME rec.source = "CUSTOM" \/ (Row(variant, v) /\ rec.source = variant[v].source),
             NEW w \in Synced(variant)'
      PROVE  w \in Synced(variant)
  <2>1. w \in Variants /\ variant'[w] \notin {None, Gone} /\ variant'[w].source = "MNYAMA_SHOP"
    BY <1>3, <1>5 DEF Synced, Rows, Row
  <2>2. CASE w = v
    BY <2>1, <2>2, <1>2, <1>3, <1>5 DEF Synced, Rows, Row
  <2>3. CASE w # v
    BY <2>1, <2>3, <1>2, <1>3 DEF Synced, Rows, Row
  <2> QED BY <2>2, <2>3
<1> QED BY <1>2, <1>4, <1>5

\* Some variants are deleted, and no other is touched.
LEMMA DropVariants ==
  ASSUME TablesOK, NEW vs, DOMAIN variant' = Variants,
         \A v \in Variants : variant'[v] = IF v \in vs THEN Deleted(v, FedVariants) ELSE variant[v],
         variant' = [v \in Variants |-> variant'[v]]
  PROVE  /\ variant' \in [Variants -> VariantRow \cup {None, Gone}]
         /\ Rows(variant)' = Rows(variant) \ vs
         /\ Synced(variant)' \subseteq Synced(variant)
<1>1. variant \in [Variants -> VariantRow \cup {None, Gone}] /\ DOMAIN variant = Variants
  BY DEF TablesOK
<1>2. \A v \in Variants : Deleted(v, FedVariants) \in {None, Gone}
  BY DEF Deleted
<1>3. variant' \in [Variants -> VariantRow \cup {None, Gone}]
  BY <1>1, <1>2
<1>4. Rows(variant)' = Rows(variant) \ vs
  BY <1>1, <1>2 DEF Rows, Row
<1> QED BY <1>1, <1>2, <1>3, <1>4 DEF Synced, Rows, Row

---------------------------------------------------------------------------
\* Steps that write no row.

\* A step of an import that leaves the tables alone loses nothing and claims nothing.
LEMMA QuietImport ==
  ASSUME CatalogInv, UNCHANGED << category, product, variant, inUse, job >>, ImportsOK'
  PROVE  CatalogInv' /\ Keeps /\ NoClaim
<1>1. TablesOK' /\ JobsOK'
  BY Split DEF TablesOK, JobsOK, Asked
<1> QED BY <1>1, SplitPrime DEF Keeps, NoClaim, Rows, Row, Synced

\* What the invariant says of one import.
LEMMA Facts ==
  ASSUME CatalogInv, NEW i \in Importers
  PROVE  /\ TablesOK /\ JobsOK /\ ImportsOK /\ Standing(imp[i]) /\ imp[i] \in Import
         /\ imp \in [Importers -> Import]
BY Split DEF ImportsOK

\* The document at hand is one that maps.
LEMMA DocTypes ==
  ASSUME NEW doc \in ParsedDoc
  PROVE  /\ doc.default \in Variants /\ doc.product \in Products \cup {None}
         /\ doc.category \in Categories \cup {None} /\ doc.title \in Names \cup {None}
BY DEF ParsedDoc, OrNone

\* The steps of an import that only read.
LEMMA FindCategoryStep ==
  ASSUME CatalogInv, NEW i \in Importers, FindCategory(i)
  PROVE  CatalogInv' /\ Keeps /\ NoClaim
<1>1. /\ imp[i].pc = "category" /\ imp[i].pc \in Step /\ UNCHANGED << category, product, variant, inUse, job >>
  BY DEF FindCategory, Step
<1>2. Doc(i) \in ParsedDoc /\ Doc(i) = DocOf(imp[i])
  BY <1>1, Facts, NextPlace
<1>3. \E c \in OrNone(Categories), pc \in {"product", "newCategory"} :
        /\ pc = "newCategory" => Doc(i).title # None
        /\ imp' = [imp EXCEPT ![i] = [imp[i] EXCEPT !.category = c, !.pc = pc]]
  <2>1. CASE Has(category, Doc(i).category) /\ imp' = [imp EXCEPT ![i].category = Doc(i).category, ![i].pc = "product"]
    <3>1. Doc(i).category \in OrNone(Categories)
      BY <1>2, DocTypes DEF OrNone
    <3> QED BY <2>1, <3>1, Facts
  <2>2. CASE \E c \in Rows(category) : imp' = [imp EXCEPT ![i].category = c, ![i].pc = "product"]
    <3>1. PICK c \in Rows(category) : imp' = [imp EXCEPT ![i].category = c, ![i].pc = "product"]
      BY <2>2
    <3>2. c \in OrNone(Categories)
      BY Facts, RowsAre DEF OrNone
    <3> QED BY <3>1, <3>2, Facts
  <2>3. CASE \/ imp' = To(i, "product")
             \/ Doc(i).title # None /\ imp' = To(i, "newCategory")
    <3>1. imp[i].category \in OrNone(Categories)
          /\ \A pc : [imp[i] EXCEPT !.category = imp[i].category, !.pc = pc] = [imp[i] EXCEPT !.pc = pc]
      BY Facts DEF Import
    <3> QED BY <2>3, <3>1, Facts DEF To
  <2> QED BY <2>1, <2>2, <2>3 DEF FindCategory
<1>4. PICK c \in OrNone(Categories), pc \in {"product", "newCategory"} :
        /\ pc = "newCategory" => Doc(i).title # None
        /\ imp' = [imp EXCEPT ![i] = [imp[i] EXCEPT !.category = c, !.pc = pc]]
  BY <1>3
<1> DEFINE y == [imp[i] EXCEPT !.category = c, !.pc = pc]
<1>5. /\ y \in Import /\ y.docs = imp[i].docs /\ y.left = imp[i].left /\ y.at = imp[i].at /\ y.pc = pc
      /\ y.pc \in Step
  <2>1. pc \in Step
    BY DEF Step
  <2> QED BY <2>1, Facts DEF Import
<1> HIDE DEF y
<1>6. Standing(y)
  BY <1>1, <1>2, <1>4, <1>5, Facts, StandingOn
<1>7. ImportsOK'
  BY <1>4, <1>6, Facts, Move DEF y
<1> QED BY <1>1, <1>7, QuietImport

LEMMA FindProductStep ==
  ASSUME CatalogInv, NEW i \in Importers, FindProduct(i)
  PROVE  CatalogInv' /\ Keeps /\ NoClaim
<1>1. /\ imp[i].pc = "product" /\ imp[i].pc \in Step /\ UNCHANGED << category, product, variant, inUse, job >>
  BY DEF FindProduct, Step
<1>2. Doc(i) \in ParsedDoc /\ Doc(i) = DocOf(imp[i])
  BY <1>1, Facts, NextPlace
<1>3. \E p \in OrNone(Products), pc \in {"row", "newProduct"} :
        /\ pc = "row" => p # None
        /\ imp' = [imp EXCEPT ![i] = [imp[i] EXCEPT !.product = p, !.pc = pc]]
  <2>1. CASE Row(variant, Doc(i).default)
    <3>1. variant[Doc(i).default].product \in Products
      BY <2>1, <1>2, DocTypes, Facts DEF TablesOK, Row, VariantRow
    <3> QED BY <2>1, <3>1, Facts, CatalogNaming DEF FindProduct, OrNone
  <2>2. CASE ~Row(variant, Doc(i).default) /\ Has(product, Doc(i).product)
    <3>1. Doc(i).product \in Products
      BY <2>2, <1>2, DocTypes DEF Has
    <3> QED BY <2>2, <3>1, Facts, CatalogNaming DEF FindProduct, OrNone
  <2>3. CASE ~Row(variant, Doc(i).default) /\ ~Has(product, Doc(i).product)
    <3>1. imp[i].product \in OrNone(Products)
          /\ \A pc : [imp[i] EXCEPT !.product = imp[i].product, !.pc = pc] = [imp[i] EXCEPT !.pc = pc]
      BY Facts DEF Import
    <3> QED BY <2>3, <3>1, Facts DEF FindProduct, To
  <2> QED BY <2>1, <2>2, <2>3
<1>4. PICK p \in OrNone(Products), pc \in {"row", "newProduct"} :
        /\ pc = "row" => p # None
        /\ imp' = [imp EXCEPT ![i] = [imp[i] EXCEPT !.product = p, !.pc = pc]]
  BY <1>3
<1> DEFINE y == [imp[i] EXCEPT !.product = p, !.pc = pc]
<1>5. /\ y \in Import /\ y.docs = imp[i].docs /\ y.left = imp[i].left /\ y.at = imp[i].at /\ y.pc = pc
      /\ y.pc \in Step /\ y.product = p
  <2>1. pc \in Step
    BY DEF Step
  <2> QED BY <2>1, Facts DEF Import
<1> HIDE DEF y
<1>6. Standing(y)
  BY <1>1, <1>2, <1>4, <1>5, Facts, StandingOn
<1>7. ImportsOK'
  BY <1>4, <1>6, Facts, Move DEF y
<1> QED BY <1>1, <1>7, QuietImport

LEMMA LoadStep ==
  ASSUME CatalogInv, NEW i \in Importers, Load(i)
  PROVE  CatalogInv' /\ Keeps /\ NoClaim
<1>1. PICK feed \in Feeds, moved \in SUBSET Docs, c \in OrNone(Rows(category)) :
        /\ c # None => \A d \in moved : feed[d].title = category[c]
        /\ LET docs == [d \in Docs |-> IF d \in moved THEN Migrated(feed[d], c) ELSE feed[d]]
               left == {d \in Docs : Mapped(docs[d])} IN
           imp' = [imp EXCEPT ![i] = [IdleImport EXCEPT !.docs = [d \in Docs |-> IF d \in left THEN Parsed(docs[d]) ELSE None],
                                        !.left = left,
                                        !.pc = IF left = {} THEN "end" ELSE "category"]]
  BY DEF Load
<1> DEFINE docs == [d \in Docs |-> IF d \in moved THEN Migrated(feed[d], c) ELSE feed[d]]
           left == {d \in Docs : Mapped(docs[d])}
           read == [d \in Docs |-> IF d \in left THEN Parsed(docs[d]) ELSE None]
           y == [IdleImport EXCEPT !.docs = read, !.left = left, !.pc = IF left = {} THEN "end" ELSE "category"]
<1>2. c \in OrNone(Categories)
  BY Facts, RowsAre DEF OrNone
<1>3. ASSUME NEW d \in Docs PROVE docs[d] \in RawDoc
  <2>1. feed[d] \in RawDoc
    BY CatalogNaming
  <2>2. Migrated(feed[d], c) \in RawDoc
    <3>1. << [id |-> feed[d].legacy, sku |-> feed[d].sku] >> \in Seq(RawVariant)
      <4>1. [id |-> feed[d].legacy, sku |-> feed[d].sku] \in RawVariant
        BY <2>1 DEF RawDoc, RawVariant, OrNone
      <4> QED BY <4>1
    <3> QED BY <2>1, <3>1, <1>2 DEF Migrated, RawDoc
  <2> QED BY <2>1, <2>2
<1>4. \A d \in left : read[d] \in ParsedDoc
  <2> SUFFICES ASSUME NEW d \in left PROVE Parsed(docs[d]) \in ParsedDoc
    OBVIOUS
  <2>1. docs[d] \in RawDoc /\ docs[d].default # None /\ Places(docs[d]) # {}
    BY <1>3 DEF Mapped, Linked
  <2>2. Places(Parsed(docs[d])) = Places(docs[d])
    BY DEF Places, Parsed
  <2> HIDE DEF docs
  <2> QED BY <2>1, <2>2 DEF RawDoc, Parsed, ParsedDoc, OrNone
<1>5. /\ y \in Import /\ y.docs = read /\ y.left = left /\ y.at = 0
      /\ y.pc = IF left = {} THEN "end" ELSE "category"
  <2>1. IdleImport \in Import /\ IdleImport.at = 0
    BY StandingIdle DEF Standing, IdleImport
  <2>2. read \in [Docs -> OrNone(ParsedDoc)] /\ left \in SUBSET Docs
    BY <1>4 DEF OrNone
  <2>3. (IF left = {} THEN "end" ELSE "category") \in Step \cup {"idle", "end"}
    BY DEF Step
  <2> HIDE DEF read, left
  <2> QED BY <2>1, <2>2, <2>3 DEF Import, IdleImport
<1>6. imp' = [imp EXCEPT ![i] = y]
  BY <1>1
<1> HIDE DEF read, left, y, docs
<1>7. Standing(y)
  <2>1. CASE left = {}
    BY <1>5, <2>1 DEF Standing, Step
  <2>2. CASE left # {}
    <3>1. DocOf(y) \in ParsedDoc
      BY <1>4, <1>5, <2>2 DEF DocOf
    <3>2. AheadOf(y) # {}
      BY <3>1, <1>5, PlacesAreNatural DEF AheadOf
    <3> QED BY <1>4, <1>5, <2>2, <3>2 DEF Standing
  <2> QED BY <2>1, <2>2
<1>8. ImportsOK'
  BY <1>6, <1>7, Facts, Move
<1> QED BY <1>8, QuietImport DEF Load

\* An error ends one document, not the import.
LEMMA DocFailsStep ==
  ASSUME CatalogInv, NEW i \in Importers, DocFails(i)
  PROVE  CatalogInv' /\ Keeps /\ NoClaim
<1>1. imp[i].pc \in Step
  BY Facts DEF DocFails, Import
<1>2. imp' = [imp EXCEPT ![i] = NextDoc(i, imp[i].done, imp[i].failed \cup {DocAt(i)})]
  BY DEF DocFails
<1>3. imp[i].done \in SUBSET Docs /\ imp[i].failed \cup {DocAt(i)} \in SUBSET Docs
  BY <1>1, Facts, NextPlace DEF Import
<1>4. Standing(NextDoc(i, imp[i].done, imp[i].failed \cup {DocAt(i)}))
  BY <1>1, <1>3, Facts, StandingNext
<1>5. ImportsOK'
  BY <1>2, <1>4, Facts, Move
<1> QED BY <1>5, QuietImport DEF DocFails

LEMMA StopStep ==
  ASSUME CatalogInv, NEW i \in Importers, Stop(i)
  PROVE  CatalogInv' /\ Keeps /\ NoClaim
<1>1. ImportsOK'
  BY StandingIdle, Facts, Move DEF Stop
<1> QED BY <1>1, QuietImport DEF Stop

---------------------------------------------------------------------------
\* Steps of an import that write rows.

\* The import creates its category.
LEMMA MakeCategoryStep ==
  ASSUME CatalogInv, NEW i \in Importers, MakeCategory(i)
  PROVE  CatalogInv' /\ Keeps /\ NoClaim
<1>1. /\ imp[i].pc = "newCategory" /\ imp[i].pc \in Step /\ UNCHANGED << product, variant, inUse, job >>
  BY DEF MakeCategory, Step
<1>2. Doc(i) \in ParsedDoc /\ Doc(i) = DocOf(imp[i]) /\ Doc(i).title \in Names \cup {None}
  BY <1>1, Facts, NextPlace, DocTypes
<1>3. PICK c \in Categories :
        /\ category' = [category EXCEPT ![c] = Doc(i).title]
        /\ imp' = [imp EXCEPT ![i].category = c, ![i].pc = "product"]
  BY DEF MakeCategory
<1> DEFINE y == [imp[i] EXCEPT !.category = c, !.pc = "product"]
<1>4. /\ y \in Import /\ y.docs = imp[i].docs /\ y.left = imp[i].left /\ y.at = imp[i].at
      /\ y.pc = "product" /\ y.pc \in Step
  BY Facts DEF Import, Step, OrNone
<1>5. imp' = [imp EXCEPT ![i] = y]
  BY <1>3, Facts
<1> HIDE DEF y
<1>6. Standing(y)
  BY <1>1, <1>4, Facts, StandingOn
<1>7. ImportsOK'
  BY <1>5, <1>6, Facts, Move
<1>8. TablesOK' /\ JobsOK'
  BY <1>1, <1>2, <1>3, Facts DEF TablesOK, JobsOK, Asked
<1> QED BY <1>1, <1>7, <1>8, SplitPrime DEF Keeps, NoClaim, Rows, Row, Synced

\* The place of an import in a document when one of its steps wrote a product.
LEMMA PlacedStep ==
  ASSUME CatalogInv, NEW i \in Importers, imp[i].pc \in Step, NEW p \in Products, NEW pc \in {"row", "variant"},
         imp' = [TouchedBut(i, {p}) EXCEPT ![i].product = p, ![i].pc = pc]
  PROVE  ImportsOK' /\ imp'[i].pc = pc
<1> DEFINE y == [imp[i] EXCEPT !.product = p, !.pc = pc]
<1>1. {p} \in SUBSET (Products \cup Variants)
  OBVIOUS
<1>2. TouchedBut(i, {p})[i] = imp[i] /\ TouchedBut(i, {p}) \in [Importers -> Import]
  BY <1>1, Facts, Touching
<1>3. imp' = [TouchedBut(i, {p}) EXCEPT ![i] = y]
  BY <1>2
<1>4. /\ y \in Import /\ y.docs = imp[i].docs /\ y.left = imp[i].left /\ y.at = imp[i].at
      /\ y.pc = pc /\ y.pc \in Step /\ y.product = p
  BY Facts DEF Import, Step, OrNone
<1> HIDE DEF y
<1>5. p # None
  BY CatalogNaming
<1>6. Standing(y)
  BY <1>4, <1>5, Facts, StandingOn
<1>7. imp'[i].pc = pc
  BY <1>2, <1>3, <1>4
<1>8. ImportsOK'
  BY <1>1, <1>3, <1>6, Facts, MoveTouching
<1> QED BY <1>7, <1>8

LEMMA MakeProductStep ==
  ASSUME CatalogInv, NEW i \in Importers, MakeProduct(i)
  PROVE  CatalogInv' /\ Keeps /\ NoClaim
<1>1. /\ imp[i].pc = "newProduct" /\ imp[i].pc \in Step /\ UNCHANGED << category, variant, inUse, job >>
  BY DEF MakeProduct, Step
<1>2. Doc(i).product \in Products \cup {None}
  BY <1>1, Facts, NextPlace, DocTypes
<1>3. PICK p \in IF Doc(i).product = None THEN Products \ FedProducts ELSE {Doc(i).product} :
        /\ product' = [product EXCEPT ![p] = [source |-> "CUSTOM", category |-> imp[i].category, doc |-> None]]
        /\ imp' = [TouchedBut(i, {p}) EXCEPT ![i].product = p, ![i].pc = "row"]
  BY DEF MakeProduct
<1> DEFINE rec == [source |-> "CUSTOM", category |-> imp[i].category, doc |-> None]
<1>4. p \in Products
  BY <1>2, <1>3
<1>5. rec \in ProductRow /\ rec.source = "CUSTOM"
  BY Facts DEF ProductRow, Import, Source, OrNone
<1> HIDE DEF rec
<1>6. product' = [product EXCEPT ![p] = rec]
  BY <1>3 DEF rec
<1>7. /\ product' \in [Products -> ProductRow \cup {None, Gone}]
      /\ Rows(product) \subseteq Rows(product)' /\ Synced(product)' \subseteq Synced(product)
  BY <1>4, <1>5, <1>6, Facts, PutProduct
<1>8. ImportsOK'
  BY <1>1, <1>3, <1>4, PlacedStep
<1>9. TablesOK' /\ JobsOK'
  BY <1>1, <1>7, Facts DEF TablesOK, JobsOK, Asked
<1> QED BY <1>1, <1>7, <1>8, <1>9, SplitPrime DEF Keeps, NoClaim, Rows, Row, Synced

LEMMA PlaceRowStep ==
  ASSUME CatalogInv, NEW i \in Importers, PlaceRow(i)
  PROVE  CatalogInv' /\ Keeps /\ imp[i].pc = "row" /\ imp'[i] # imp[i]
<1>1. /\ imp[i].pc = "row" /\ imp[i].pc \in Step /\ UNCHANGED << category, variant, inUse, job >>
  BY DEF PlaceRow, Step
<1>2. Doc(i).product \in Products \cup {None} /\ DocAt(i) \in Docs
  BY <1>1, Facts, NextPlace, DocTypes
<1> DEFINE p == IF Doc(i).product = None THEN imp[i].product ELSE Doc(i).product
           rec == [source |-> "MNYAMA_SHOP", category |-> imp[i].category, doc |-> DocAt(i)]
<1>3. /\ product' = [product EXCEPT ![p] = rec]
      /\ imp' = [TouchedBut(i, {p}) EXCEPT ![i].product = p, ![i].pc = "variant"]
  BY DEF PlaceRow
<1>4. p \in Products
  <2>1. imp[i].product \in Products
    BY <1>1, Facts DEF Standing, Import, OrNone
  <2> QED BY <1>2, <2>1
<1>5. rec \in ProductRow
  BY <1>2, Facts DEF ProductRow, Import, Source, OrNone
<1> HIDE DEF rec, p
<1>7. product' \in [Products -> ProductRow \cup {None, Gone}] /\ Rows(product) \subseteq Rows(product)'
  BY <1>3, <1>4, <1>5, Facts, PutProduct
<1>8. ImportsOK' /\ imp'[i].pc = "variant"
  BY <1>1, <1>3, <1>4, PlacedStep
<1>9. TablesOK' /\ JobsOK'
  BY <1>1, <1>7, Facts DEF TablesOK, JobsOK, Asked
<1> QED BY <1>1, <1>7, <1>8, <1>9, SplitPrime DEF Keeps, Rows, Row

\* The row of a variant is written, and the import goes on with the next or is done with
\* the document.
LEMMA PutStep ==
  ASSUME CatalogInv, NEW i \in Importers, imp[i].pc \in {"variant", "create"}, Put(i)
  PROVE  CatalogInv' /\ Keeps /\ imp'[i] # imp[i]
<1>1. imp[i].pc \in Step /\ imp[i].product \in Products
  BY Facts DEF Step, Standing, Import, OrNone
<1>2. /\ DocAt(i) \in imp[i].left /\ DocAt(i) \in Docs /\ Doc(i) = DocOf(imp[i]) /\ Ahead(i) = AheadOf(imp[i])
      /\ Place(i) \in Ahead(i) /\ Place(i) \in Nat /\ Place(i) > imp[i].at
      /\ (\A l \in Ahead(i) : l \in Nat /\ Place(i) <= l)
      /\ Wanted(i).id \in Variants /\ Wanted(i).sku \in Skus
  BY <1>1, Facts, NextPlace
<1> DEFINE v == Wanted(i).id
           rec == [product |-> imp[i].product, sku |-> Wanted(i).sku, source |-> "MNYAMA_SHOP"]
           x == imp[i]
           on == [x EXCEPT !.at = Place(i), !.pc = "variant"]
           next == NextDoc(i, x.done \cup {DocAt(i)}, x.failed)
           y == IF Ahead(i) = {Place(i)} THEN next ELSE on
<1>3. {v} \in SUBSET (Products \cup Variants) /\ v \in Variants
  BY <1>2
<1>4. TouchedBut(i, {v})[i] = imp[i] /\ TouchedBut(i, {v}) \in [Importers -> Import]
  BY <1>3, Facts, Touching
<1>5. /\ variant' = [variant EXCEPT ![v] = rec] /\ imp' = [TouchedBut(i, {v}) EXCEPT ![i] = y]
      /\ UNCHANGED << category, product, inUse, job >>
  BY <1>4 DEF Put
<1>6. rec \in VariantRow
  BY <1>1, <1>2 DEF VariantRow, Source
<1>7. Standing(next) /\ next # x
  <2>1. x.done \cup {DocAt(i)} \in SUBSET Docs /\ x.failed \in SUBSET Docs
    BY <1>2, Facts DEF Import
  <2>2. next.left = x.left \ {DocAt(i)}
    BY Facts DEF NextDoc, Import
  <2> HIDE DEF x
  <2>3. next # x
    BY <1>2, <2>2 DEF x
  <2> QED BY <2>1, <2>3, <1>1, Facts, StandingNext DEF x
<1>8. Ahead(i) # {Place(i)} => Standing(on) /\ on # x
  <2> SUFFICES ASSUME Ahead(i) # {Place(i)} PROVE Standing(on) /\ on # x
    OBVIOUS
  <2>1. /\ on \in Import /\ on.docs = x.docs /\ on.left = x.left /\ on.at = Place(i)
        /\ on.pc = "variant" /\ on.product = x.product
    BY <1>2, Facts DEF Import, Step
  <2>2. x.at \in Nat /\ Standing(x)
    BY Facts DEF Import
  <2> HIDE DEF on
  <2>3. on # x
    <3>1. on.at # imp[i].at
      BY <1>2, <2>1, <2>2
    <3> QED BY <3>1
  <2>4. DocOf(on) = Doc(i)
    BY <1>2, <2>1 DEF DocOf
  <2>5. PICK l \in Ahead(i) : l # Place(i)
    BY <1>2
  <2>6. l \in AheadOf(on)
    BY <1>2, <2>1, <2>4, <2>5 DEF Ahead, AheadOf
  <2>7. on.product # None /\ on.pc \in Step
    BY <1>1, <2>1, CatalogNaming DEF Step
  <2> QED BY <1>1, <2>1, <2>2, <2>3, <2>6, <2>7 DEF Standing
<1> HIDE DEF v, rec, next, on
<1>9. Standing(y) /\ y # imp[i]
  BY <1>7, <1>8
<1> HIDE DEF y
<1>10. ImportsOK' /\ imp'[i] = y
  BY <1>3, <1>4, <1>5, <1>9, Facts, MoveTouching
<1>11. variant' \in [Variants -> VariantRow \cup {None, Gone}] /\ Rows(variant) \subseteq Rows(variant)'
  BY <1>3, <1>5, <1>6, Facts, PutVariant
<1>12. TablesOK' /\ JobsOK'
  BY <1>5, <1>11, Facts DEF TablesOK, JobsOK, Asked
<1> QED BY <1>5, <1>9, <1>10, <1>11, <1>12, SplitPrime DEF Keeps, Rows, Row

\* Of all steps of an import this one takes a row away.
LEMMA TakeSkuStep ==
  ASSUME CatalogInv, NEW i \in Importers, TakeSku(i)
  PROVE  /\ CatalogInv' /\ NoClaim /\ product' = product /\ job' = job
         /\ \E w \in Variants \ inUse : Rows(variant)' = Rows(variant) \ {w}
<1>1. /\ imp[i].pc = "variant" /\ imp[i].pc \in Step /\ UNCHANGED << category, product, inUse, job >>
  BY DEF TakeSku, Step
<1>2. PICK w \in Rows(variant) :
        /\ Removable({w})
        /\ variant' = [variant EXCEPT ![w] = Deleted(w, FedVariants)]
        /\ imp' = [TouchedBut(i, {w}) EXCEPT ![i].pc = "create"]
  BY DEF TakeSku
<1>3. w \in Variants /\ w \notin inUse /\ {w} \in SUBSET (Products \cup Variants)
  BY <1>2, Facts, RowsAre DEF Removable
<1>4. TouchedBut(i, {w})[i] = imp[i] /\ TouchedBut(i, {w}) \in [Importers -> Import]
  BY <1>3, Facts, Touching
<1> DEFINE y == [imp[i] EXCEPT !.pc = "create"]
<1>5. imp' = [TouchedBut(i, {w}) EXCEPT ![i] = y]
  BY <1>2, <1>4
<1>6. /\ y \in Import /\ y.docs = imp[i].docs /\ y.left = imp[i].left /\ y.at = imp[i].at
      /\ y.pc = "create" /\ y.pc \in Step /\ y.product = imp[i].product /\ y.product # None
  BY <1>1, Facts DEF Import, Step, Standing
<1> HIDE DEF y
<1>7. Standing(y)
  BY <1>1, <1>6, Facts, StandingOn
<1>8. ImportsOK'
  BY <1>3, <1>5, <1>7, Facts, MoveTouching
<1>9. /\ DOMAIN variant' = Variants
      /\ \A v \in Variants : variant'[v] = IF v \in {w} THEN Deleted(v, FedVariants) ELSE variant[v]
      /\ variant' = [v \in Variants |-> variant'[v]]
  BY <1>2, <1>3, Facts DEF TablesOK
<1>10. /\ variant' \in [Variants -> VariantRow \cup {None, Gone}]
       /\ Rows(variant)' = Rows(variant) \ {w} /\ Synced(variant)' \subseteq Synced(variant)
  BY <1>9, Facts, DropVariants
<1>11. TablesOK' /\ JobsOK'
  BY <1>1, <1>10, Facts DEF TablesOK, JobsOK, Asked
<1> QED BY <1>1, <1>3, <1>8, <1>10, <1>11, SplitPrime DEF NoClaim, Rows, Row, Synced

---------------------------------------------------------------------------
\* Edits: what was asked and checked.

\* The checks of an edit: what is kept of the request is what its write relies on.
LEMMA AskStep ==
  ASSUME CatalogInv, NEW j \in Jobs, Ask(j)
  PROVE  CatalogInv' /\ Keeps /\ NoClaim
<1>1. PICK r \in Requests : AskCategory(j, r) \/ AskProduct(j, r) \/ AskVariant(j, r)
  BY DEF Ask
<1>2. /\ r \in Request /\ Authorized(r) /\ job' = [job EXCEPT ![j] = Stripped(r)]
      /\ UNCHANGED << category, product, variant, inUse, imp >>
  BY <1>1, CatalogNaming DEF AskCategory, AskProduct, AskVariant, Accept
<1>3. /\ r.op \in {"updateCategory", "deleteCategory"} => r.category # None
      /\ r.op \in {"updateProduct", "deleteProduct", "createVariant"} => r.product # None
      /\ r.op \in {"updateVariant", "deleteVariant"} => r.variant # None
  <2>1. CASE AskCategory(j, r)
    BY <2>1 DEF AskCategory, ChecksCategory, Has
  <2>2. CASE AskProduct(j, r)
    BY <2>2 DEF AskProduct, ChecksProduct, Has
  <2>3. CASE AskVariant(j, r)
    BY <2>3 DEF AskVariant, ChecksVariant, ChecksNewVariant, Has
  <2> QED BY <1>1, <2>1, <2>2, <2>3
<1> DEFINE q == Stripped(r)
<1>4. /\ q \in Request /\ q.op = r.op /\ q.admin = r.admin /\ (~q.admin => q.source = None)
      /\ q.category = r.category /\ q.product = r.product /\ q.variant = r.variant
  BY <1>2 DEF Stripped, Request, OrNone
<1> HIDE DEF q
<1>5. JobsOK /\ TablesOK /\ ImportsOK
  BY Split
<1>6. JobsOK'
  <2>1. job' \in [Jobs -> OrNone(Request)]
    BY <1>2, <1>4, <1>5 DEF JobsOK, OrNone, q
  <2>2. ASSUME NEW k \in Jobs PROVE Asked(k)'
    <3>1. CASE k = j
      <4>1. job'[k] = q
        BY <3>1, <1>2, <1>5 DEF JobsOK, q
      <4>2. ~q.admin => q.op \in {"createProduct", "createVariant"}
        BY <1>2, <1>4 DEF Authorized
      <4> QED BY <4>1, <4>2, <1>3, <1>4 DEF Asked
    <3>2. CASE k # j
      BY <3>2, <1>2, <1>5 DEF JobsOK, Asked
    <3> QED BY <3>1, <3>2
  <2> QED BY <2>1, <2>2 DEF JobsOK
<1>7. TablesOK' /\ ImportsOK'
  BY <1>2, <1>5 DEF TablesOK, ImportsOK
<1> QED BY <1>2, <1>6, <1>7, SplitPrime DEF Keeps, NoClaim, Rows, Row, Synced

\* What the invariant says of one handler that has checked a request.
LEMMA JobFacts ==
  ASSUME CatalogInv, NEW j \in Jobs, job[j] # None
  PROVE  /\ TablesOK /\ JobsOK /\ ImportsOK /\ job[j] \in Request /\ Asked(j)
         /\ job[j].category \in Categories \cup {None} /\ job[j].product \in Products \cup {None}
         /\ job[j].variant \in Variants \cup {None} /\ job[j].name \in Names \cup {None}
         /\ job[j].sku \in Skus \cup {None} /\ job[j].source \in Source \cup {None}
         /\ job[j].doc \in Docs \cup {None}
         /\ job[j].nested \in Nested \cup {None} /\ job[j].takes \subseteq Variants
BY Split DEF JobsOK, Request, OrNone

\* A handler that is over leaves the others as they are.
LEMMA JobOver ==
  ASSUME JobsOK, NEW j \in Jobs, job' = [job EXCEPT ![j] = None]
  PROVE  JobsOK' /\ job'[j] = None /\ \A k \in Jobs : k # j => job'[k] = job[k]
BY DEF JobsOK, Asked, OrNone

\* An edit that writes: its tables are to be shown typed, all else is the same for all.
LEMMA EditWrites ==
  ASSUME CatalogInv, NEW j \in Jobs, NEW op, Writes(j, op), TablesOK',
         NEW ids \in SUBSET (Products \cup Variants), imp' = imp \/ imp' = Touched(ids)
  PROVE  /\ CatalogInv' /\ job[j].op = op /\ job'[j] = None
         /\ \A k \in Jobs : k # j => job'[k] = job[k]
<1>1. ImportsOK /\ JobsOK /\ job' = [job EXCEPT ![j] = None] /\ job[j].op = op
  BY Split DEF Writes
<1>2. ImportsOK'
  <2>1. CASE imp' = imp
    BY <1>1, <2>1 DEF ImportsOK
  <2>2. CASE imp' = Touched(ids)
    <3>1. imp' = TouchedBut(None, ids)
      BY <2>2 DEF Touched
    <3> QED BY <1>1, <3>1, Touching DEF ImportsOK
  <2> QED BY <2>1, <2>2
<1> QED BY <1>1, <1>2, JobOver, SplitPrime

---------------------------------------------------------------------------
\* Edits that take no row away.

\* Creating and renaming a category.
LEMMA CategoryEdits ==
  ASSUME CatalogInv, NEW j \in Jobs, CreateCategory(j) \/ UpdateCategory(j)
  PROVE  CatalogInv' /\ Keeps /\ NoClaim
<1>1. PICK op \in {"createCategory", "updateCategory"} : Writes(j, op)
  BY DEF CreateCategory, UpdateCategory
<1>2. job[j] # None /\ inUse' = inUse /\ product' = product /\ variant' = variant /\ imp' = imp
  BY <1>1 DEF Writes, CreateCategory, UpdateCategory
<1>3. TablesOK /\ job[j].name \in Names \cup {None}
  BY <1>2, JobFacts
<1>4. TablesOK'
  BY <1>2, <1>3 DEF TablesOK, CreateCategory, UpdateCategory
<1>5. CatalogInv'
  BY <1>1, <1>2, <1>4, EditWrites
<1> QED BY <1>2, <1>5 DEF Keeps, NoClaim, Rows, Row, Synced

LEMMA DeleteCategoryStep ==
  ASSUME CatalogInv, NEW j \in Jobs, DeleteCategory(j)
  PROVE  CatalogInv' /\ Keeps /\ NoClaim
<1> DEFINE c == job[j].category
<1>1. /\ Writes(j, "deleteCategory") /\ job[j] # None /\ inUse' = inUse /\ variant' = variant /\ imp' = imp
      /\ category' = [category EXCEPT ![c] = Gone]
      /\ product' = [p \in Products |-> IF Row(product, p) /\ product[p].category = c
                                        THEN [product[p] EXCEPT !.category = None] ELSE product[p]]
  BY DEF DeleteCategory, Writes
<1>2. TablesOK
  BY <1>1, JobFacts
<1> HIDE DEF c
<1>3. ASSUME NEW p \in Products
      PROVE  /\ product'[p] \in ProductRow \cup {None, Gone}
             /\ Row(product, p) => product'[p] \in ProductRow /\ product'[p].source = product[p].source
             /\ ~Row(product, p) => product'[p] = product[p]
  <2>1. product[p] \in ProductRow \cup {None, Gone}
    BY <1>2 DEF TablesOK
  <2>2. CASE Row(product, p) /\ product[p].category = c
    <3>1. product[p] \in ProductRow /\ product'[p] = [product[p] EXCEPT !.category = None]
      BY <2>1, <2>2, <1>1 DEF Row
    <3> QED BY <3>1, <2>2 DEF ProductRow, OrNone
  <2>3. CASE ~(Row(product, p) /\ product[p].category = c)
    BY <2>1, <2>3, <1>1 DEF Row
  <2> QED BY <2>2, <2>3
<1>4. TablesOK'
  BY <1>1, <1>2, <1>3 DEF TablesOK
<1>5. CatalogInv'
  BY <1>1, <1>4, EditWrites
<1>6. DOMAIN product = Products /\ DOMAIN product' = Products
  BY <1>1, <1>2 DEF TablesOK
<1>7. Rows(product) \subseteq Rows(product)'
  BY <1>3, <1>6, CatalogNaming DEF Rows, Row
<1>8. Synced(product)' \subseteq Synced(product)
  BY <1>3, <1>6, CatalogNaming DEF Synced, Rows, Row
<1> QED BY <1>1, <1>5, <1>7, <1>8 DEF Keeps, NoClaim, Rows, Row, Synced

\* The variants of a body: those it connects belong to the product from now on and are
\* otherwise as they were, and the others that are there are left alone.
LEMMA BodyVariants ==
  ASSUME TablesOK, NEW r, NEW p \in Products, r.nested \in Nested \cup {None}, r.takes \subseteq Variants,
         WriteVariants(r, p)
  PROVE  /\ variant' \in [Variants -> VariantRow \cup {None, Gone}]
         /\ Rows(variant) \subseteq Rows(variant)'
         /\ \A v \in Variants \ r.takes : Row(variant, v) => variant'[v] = variant[v]
         /\ \A v \in Synced(variant)' \ Synced(variant) : v \notin Rows(variant) /\ variant'[v].product = p
<1> DEFINE moved == [v \in Variants |-> IF v \in r.takes THEN [variant[v] EXCEPT !.product = p] ELSE variant[v]]
<1>1. variant \in [Variants -> VariantRow \cup {None, Gone}] /\ DOMAIN variant = Variants
      /\ r.takes \subseteq Rows(variant)
  BY DEF TablesOK, WriteVariants
<1>2. ASSUME NEW v \in Variants
      PROVE  /\ moved[v] \in VariantRow \cup {None, Gone}
             /\ Row(variant, v) => moved[v] \in VariantRow /\ moved[v].source = variant[v].source
             /\ v \notin r.takes => moved[v] = variant[v]
  <2>1. CASE v \in r.takes
    <3>1. variant[v] \in VariantRow /\ moved[v] = [variant[v] EXCEPT !.product = p]
      BY <1>1, <2>1, RowsAre
    <3> QED BY <3>1, <2>1 DEF VariantRow
  <2>2. CASE v \notin r.takes
    BY <1>1, <2>2 DEF Row
  <2> QED BY <2>1, <2>2
<1>3. moved \in [Variants -> VariantRow \cup {None, Gone}]
  BY <1>2
<1>4. CASE r.nested = None
  <2>1. variant' = moved
    BY <1>4 DEF WriteVariants
  <2> HIDE DEF moved
  <2>2. DOMAIN variant' = Variants
    BY <2>1, <1>3
  <2>3. Rows(variant) \subseteq Rows(variant)' /\ Synced(variant)' \subseteq Synced(variant)
    BY <2>1, <2>2, <1>1, <1>2, CatalogNaming DEF Rows, Row, Synced
  <2> QED BY <2>1, <2>3, <1>2, <1>3
<1>5. CASE r.nested # None
  <2> DEFINE rec == [product |-> p, sku |-> r.nested.sku, source |-> r.nested.source]
  <2>1. PICK w \in Variants : variant[w] = None /\ variant' = [moved EXCEPT ![w] = rec]
    BY <1>5 DEF WriteVariants
  <2>2. rec \in VariantRow /\ rec.product = p
    BY <1>5 DEF Nested, VariantRow
  <2> HIDE DEF moved, rec
  <2>3. /\ variant' \in [Variants -> VariantRow \cup {None, Gone}] /\ DOMAIN variant' = Variants
        /\ variant'[w] = rec /\ \A v \in Variants : v # w => variant'[v] = moved[v]
    BY <2>1, <2>2, <1>3
  <2>4. ~Row(variant, w)
    BY <2>1 DEF Row
  <2>5. Rows(variant) \subseteq Rows(variant)'
    BY <2>3, <2>4, <1>1, <1>2, CatalogNaming DEF Rows, Row
  <2>6. \A v \in Synced(variant)' : v # w => v \in Synced(variant)
    BY <2>3, <1>1, <1>2 DEF Synced, Rows, Row
  <2>7. \A v \in Variants \ r.takes : Row(variant, v) => variant'[v] = variant[v]
    BY <2>3, <2>4, <1>2
  <2>8. w \notin Rows(variant)
    BY <2>4 DEF Rows
  <2> QED BY <2>2, <2>3, <2>5, <2>6, <2>7, <2>8
<1> QED BY <1>4, <1>5

LEMMA CreateProductStep ==
  ASSUME CatalogInv, NEW j \in Jobs, CreateProduct(j)
  PROVE  /\ CatalogInv' /\ Keeps /\ job[j] # None /\ job[j].op = "createProduct" /\ job'[j] = None
         /\ job[j].admin \/ NestedInNew
<1> DEFINE rec == [source |-> Given(job[j].source, "CUSTOM"), category |-> job[j].category, doc |-> job[j].doc]
<1>1. /\ Writes(j, "createProduct") /\ job[j] # None /\ UNCHANGED << inUse, category >>
      /\ job[j].op = "createProduct" /\ imp' = Touched(job[j].takes)
      /\ \E p \in Products : /\ product[p] = None /\ product' = [product EXCEPT ![p] = rec]
                            /\ WriteVariants(job[j], p)
  BY DEF CreateProduct, Writes
<1>2. PICK p \in Products : /\ product[p] = None /\ product' = [product EXCEPT ![p] = rec]
                            /\ WriteVariants(job[j], p)
  BY <1>1
<1>3. rec \in ProductRow /\ (~job[j].admin => rec.source = "CUSTOM")
  BY <1>1, JobFacts DEF ProductRow, Given, Source, Asked, OrNone
<1> HIDE DEF rec
<1>4. /\ product' \in [Products -> ProductRow \cup {None, Gone}] /\ Rows(product) \subseteq Rows(product)'
      /\ ~job[j].admin => Synced(product)' \subseteq Synced(product)
  BY <1>1, <1>2, <1>3, JobFacts, PutProduct
<1>5. job[j].takes \in SUBSET (Products \cup Variants)
  BY <1>1, JobFacts
<1>6. /\ variant' \in [Variants -> VariantRow \cup {None, Gone}] /\ Rows(variant) \subseteq Rows(variant)'
      /\ \A v \in Synced(variant)' \ Synced(variant) : v \notin Rows(variant) /\ variant'[v].product = p
  BY <1>1, <1>2, JobFacts, BodyVariants
<1>7. TablesOK'
  BY <1>1, <1>4, <1>6, JobFacts DEF TablesOK
<1>8. CatalogInv' /\ job'[j] = None
  BY <1>1, <1>5, <1>7, EditWrites
<1>9. p \notin Rows(product)
  BY <1>2 DEF Rows, Row
<1>10. ~job[j].admin => NestedInNew
  BY <1>4, <1>6, <1>9 DEF NestedInNew
<1> QED BY <1>1, <1>4, <1>6, <1>8, <1>10 DEF Keeps

LEMMA UpdateProductStep ==
  ASSUME CatalogInv, NEW j \in Jobs, UpdateProduct(j)
  PROVE  CatalogInv' /\ Keeps /\ job[j] # None /\ job[j].admin /\ job'[j] = None
<1> DEFINE r == job[j]
           p == job[j].product
           rec == [source |-> Given(r.source, product[p].source), category |-> Given(r.category, product[p].category),
                   doc |-> Given(r.doc, product[p].doc)]
<1>1. /\ Writes(j, "updateProduct") /\ job[j] # None /\ job[j].op = "updateProduct"
      /\ UNCHANGED << inUse, category >> /\ imp' = Touched({p} \cup r.takes) /\ Row(product, p)
      /\ product' = [product EXCEPT ![p] = rec] /\ WriteVariants(r, p)
  BY DEF UpdateProduct, Writes
<1>2. /\ p \in Products /\ job[j].admin /\ r.takes \subseteq Variants /\ r.nested \in Nested \cup {None}
      /\ TablesOK
  BY <1>1, JobFacts DEF Asked
<1>3. product[p] \in ProductRow
  BY <1>1, <1>2, JobFacts DEF TablesOK, Row
<1>4. rec \in ProductRow
  BY <1>1, <1>3, JobFacts DEF ProductRow, Given, OrNone
<1> HIDE DEF rec, r, p
<1>5. product' \in [Products -> ProductRow \cup {None, Gone}] /\ Rows(product) \subseteq Rows(product)'
  BY <1>1, <1>2, <1>4, JobFacts, PutProduct
<1>6. variant' \in [Variants -> VariantRow \cup {None, Gone}] /\ Rows(variant) \subseteq Rows(variant)'
  BY <1>1, <1>2, BodyVariants
<1>7. TablesOK'
  BY <1>1, <1>2, <1>5, <1>6 DEF TablesOK
<1>8. {p} \cup r.takes \in SUBSET (Products \cup Variants)
  BY <1>2
<1>9. CatalogInv' /\ job'[j] = None
  BY <1>1, <1>7, <1>8, EditWrites
<1> QED BY <1>1, <1>2, <1>5, <1>6, <1>9 DEF Keeps

\* The SKU of a new variant is the one given or a generated one.
LEMMA SkuOfIsSku ==
  ASSUME NEW r \in Request
  PROVE  SkuOf(r) \in Skus
<1>1. r.attempt \in 1..Len(Candidates) /\ r.sku \in OrNone(Skus)
  BY DEF Request
<1>2. Candidates \in Seq(Skus)
  BY CatalogNaming
<1>3. Candidates[r.attempt] \in Skus
  BY <1>1, <1>2
<1> QED BY <1>1, <1>3 DEF SkuOf, OrNone

LEMMA CreateVariantStep ==
  ASSUME CatalogInv, NEW j \in Jobs, CreateVariant(j)
  PROVE  CatalogInv' /\ Keeps /\ (NoClaim \/ (job[j] # None /\ job[j].admin /\ job'[j] = None))
<1> DEFINE rec == [product |-> job[j].product, sku |-> SkuOf(job[j]), source |-> Given(job[j].source, "CUSTOM")]
<1>1. /\ Writes(j, "createVariant") /\ job[j] # None /\ job[j].op = "createVariant"
      /\ UNCHANGED << inUse, category, product, imp >>
      /\ \E v \in Variants : variant' = [variant EXCEPT ![v] = rec]
  BY DEF CreateVariant, Writes
<1>2. PICK v \in Variants : variant' = [variant EXCEPT ![v] = rec]
  BY <1>1
<1>3. rec \in VariantRow /\ (~job[j].admin => rec.source = "CUSTOM")
  <2>1. job[j].product \in Products
    BY <1>1, JobFacts DEF Asked
  <2>2. SkuOf(job[j]) \in Skus
    BY <1>1, JobFacts, SkuOfIsSku
  <2> QED BY <2>1, <2>2, <1>1, JobFacts DEF VariantRow, Given, Source, Asked
<1> HIDE DEF rec
<1>4. /\ variant' \in [Variants -> VariantRow \cup {None, Gone}] /\ Rows(variant) \subseteq Rows(variant)'
      /\ ~job[j].admin => Synced(variant)' \subseteq Synced(variant)
  BY <1>1, <1>2, <1>3, JobFacts, PutVariant
<1>5. TablesOK'
  BY <1>1, <1>4, JobFacts DEF TablesOK
<1>6. CatalogInv' /\ job'[j] = None
  BY <1>1, <1>5, EditWrites
<1> QED BY <1>1, <1>4, <1>6 DEF Keeps, NoClaim, Rows, Row, Synced

LEMMA UpdateVariantStep ==
  ASSUME CatalogInv, NEW j \in Jobs, UpdateVariant(j)
  PROVE  CatalogInv' /\ Keeps /\ job[j] # None /\ job[j].admin /\ job'[j] = None
<1> DEFINE r == job[j]
           v == job[j].variant
           rec == [product |-> Given(r.product, variant[v].product), sku |-> Given(r.sku, variant[v].sku),
                   source |-> Given(r.source, variant[v].source)]
<1>1. /\ Writes(j, "updateVariant") /\ job[j] # None /\ job[j].op = "updateVariant"
      /\ UNCHANGED << inUse, category, product >> /\ imp' = Touched({v}) /\ Row(variant, v)
      /\ variant' = [variant EXCEPT ![v] = rec]
  BY DEF UpdateVariant, Writes
<1>2. v \in Variants /\ job[j].admin
  BY <1>1, JobFacts DEF Asked
<1>3. variant[v] \in VariantRow
  BY <1>1, <1>2, JobFacts DEF TablesOK, Row
<1>4. rec \in VariantRow
  BY <1>1, <1>3, JobFacts DEF VariantRow, Given
<1> HIDE DEF rec, r, v
<1>5. variant' \in [Variants -> VariantRow \cup {None, Gone}] /\ Rows(variant) \subseteq Rows(variant)'
  BY <1>1, <1>2, <1>4, JobFacts, PutVariant
<1>6. TablesOK'
  BY <1>1, <1>5, JobFacts DEF TablesOK
<1>7. {v} \in SUBSET (Products \cup Variants)
  BY <1>2
<1>8. CatalogInv' /\ job'[j] = None
  BY <1>1, <1>6, <1>7, EditWrites
<1> QED BY <1>1, <1>2, <1>5, <1>8 DEF Keeps, Rows, Row

LEMMA OtherSteps ==
  ASSUME CatalogInv, (\E j \in Jobs : NextCandidate(j) \/ EditFails(j)) \/ (\E v \in Traded : UseVariant(v))
  PROVE  CatalogInv' /\ Keeps /\ NoClaim
<1>1. TablesOK /\ JobsOK /\ ImportsOK
  BY Split
<1>2. UNCHANGED << category, product, variant, imp >>
  BY DEF NextCandidate, EditFails, UseVariant
<1>3. TablesOK'
  BY <1>1, <1>2, CatalogNaming DEF TablesOK, NextCandidate, EditFails, UseVariant
<1>4. ImportsOK'
  BY <1>1, <1>2 DEF ImportsOK
<1>5. JobsOK'
  <2>1. ASSUME NEW j \in Jobs, NextCandidate(j) PROVE JobsOK'
    <3> DEFINE q == [job[j] EXCEPT !.attempt = @ + 1]
    <3>1. job[j] \in Request /\ Asked(j) /\ job[j].attempt < Len(Candidates) /\ Len(Candidates) \in Nat
      BY <2>1, JobFacts, CatalogNaming DEF NextCandidate
    <3>2. job' = [job EXCEPT ![j] = q]
      BY <2>1, <1>1 DEF NextCandidate, JobsOK
    <3>3. /\ q \in Request /\ q.op = job[j].op /\ q.admin = job[j].admin /\ q.source = job[j].source
          /\ q.category = job[j].category /\ q.product = job[j].product /\ q.variant = job[j].variant
      BY <3>1 DEF Request
    <3> HIDE DEF q
    <3>4. job[j] # None
      BY <2>1 DEF NextCandidate
    <3>5. /\ job' \in [Jobs -> OrNone(Request)] /\ job'[j] = q
          /\ \A k \in Jobs : k # j => job'[k] = job[k]
      BY <3>2, <3>3, <1>1 DEF JobsOK, OrNone
    <3>6. Asked(j)'
      BY <3>1, <3>3, <3>4, <3>5 DEF Asked
    <3>7. \A k \in Jobs : k # j => Asked(k)'
      BY <3>5, <1>1 DEF Asked, JobsOK
    <3> QED BY <3>5, <3>6, <3>7 DEF JobsOK
  <2>2. ASSUME NEW j \in Jobs, EditFails(j) PROVE JobsOK'
    BY <2>2, <1>1, JobOver DEF EditFails
  <2>3. ASSUME NEW v \in Traded, UseVariant(v) PROVE JobsOK'
    BY <2>3, <1>1 DEF UseVariant, JobsOK, Asked
  <2> QED BY <2>1, <2>2, <2>3
<1> QED BY <1>2, <1>3, <1>4, <1>5, SplitPrime DEF Keeps, NoClaim, Rows, Row, Synced

---------------------------------------------------------------------------
\* Deletions.

\* The variants of a product are rows that name it.
LEMMA VariantsInAreRows ==
  ASSUME CatalogInv, NEW p
  PROVE  VariantsIn(p) \subseteq Rows(variant) /\ VariantsIn(p) \subseteq Variants
BY Split, RowsAre DEF VariantsIn

LEMMA DeleteProductStep ==
  ASSUME CatalogInv, NEW j \in Jobs, DeleteProduct(j)
  PROVE  LET p == job[j].product IN
         /\ CatalogInv' /\ NoClaim
         /\ VariantsIn(p) \cap inUse = {}
         /\ Rows(product)' = Rows(product) \ {p} /\ Rows(variant)' = Rows(variant) \ VariantsIn(p)
         /\ \A k \in Jobs : k # j => job'[k] = job[k]
<1> DEFINE p == job[j].product
           vs == VariantsIn(p)
<1>1. /\ Writes(j, "deleteProduct") /\ job[j] # None /\ job[j].op = "deleteProduct"
      /\ UNCHANGED << inUse, category >> /\ imp' = Touched({p} \cup vs) /\ Row(product, p) /\ Removable(vs)
      /\ product' = [product EXCEPT ![p] = Deleted(p, FedProducts)]
      /\ variant' = [v \in Variants |-> IF v \in vs THEN Deleted(v, FedVariants) ELSE variant[v]]
  BY DEF DeleteProduct, Writes
<1>2. p \in Products /\ TablesOK
  BY <1>1, JobFacts DEF Asked
<1>3. vs \subseteq Variants
  BY VariantsInAreRows
<1> HIDE DEF p, vs
<1>4. /\ variant' \in [Variants -> VariantRow \cup {None, Gone}]
      /\ Rows(variant)' = Rows(variant) \ vs /\ Synced(variant)' \subseteq Synced(variant)
  <2>1. /\ DOMAIN variant' = Variants
        /\ \A v \in Variants : variant'[v] = IF v \in vs THEN Deleted(v, FedVariants) ELSE variant[v]
        /\ variant' = [v \in Variants |-> variant'[v]]
    BY <1>1
  <2> QED BY <2>1, <1>2, DropVariants
<1>5. /\ product \in [Products -> ProductRow \cup {None, Gone}]
      /\ Deleted(p, FedProducts) \in {None, Gone}
  BY <1>2 DEF TablesOK, Deleted
<1>6. /\ product' \in [Products -> ProductRow \cup {None, Gone}]
      /\ product'[p] \in {None, Gone} /\ \A q \in Products : q # p => product'[q] = product[q]
      /\ DOMAIN product = Products /\ DOMAIN product' = Products
  BY <1>1, <1>2, <1>5
<1>7. Rows(product)' = Rows(product) \ {p} /\ Synced(product)' \subseteq Synced(product)
  BY <1>6 DEF Rows, Row, Synced
<1>8. TablesOK'
  BY <1>1, <1>2, <1>4, <1>6 DEF TablesOK
<1>9. {p} \cup vs \in SUBSET (Products \cup Variants)
  BY <1>2, <1>3
<1>10. CatalogInv' /\ \A k \in Jobs : k # j => job'[k] = job[k]
  BY <1>1, <1>8, <1>9, EditWrites
<1> QED BY <1>1, <1>4, <1>7, <1>10 DEF NoClaim, Removable, p, vs

LEMMA DeleteVariantStep ==
  ASSUME CatalogInv, NEW j \in Jobs, DeleteVariant(j)
  PROVE  LET v == job[j].variant IN
         /\ CatalogInv' /\ NoClaim /\ v \notin inUse /\ product' = product
         /\ Rows(variant)' = Rows(variant) \ {v} /\ job[j].op = "deleteVariant"
         /\ \A k \in Jobs : k # j => job'[k] = job[k]
<1> DEFINE v == job[j].variant
<1>1. /\ Writes(j, "deleteVariant") /\ job[j] # None /\ job[j].op = "deleteVariant"
      /\ UNCHANGED << inUse, category, product >> /\ imp' = Touched({v}) /\ Row(variant, v) /\ Removable({v})
      /\ variant' = [variant EXCEPT ![v] = Deleted(v, FedVariants)]
  BY DEF DeleteVariant, Writes
<1>2. v \in Variants /\ TablesOK
  BY <1>1, JobFacts DEF Asked
<1> HIDE DEF v
<1>4. /\ variant' \in [Variants -> VariantRow \cup {None, Gone}]
      /\ Rows(variant)' = Rows(variant) \ {v} /\ Synced(variant)' \subseteq Synced(variant)
  <2>1. /\ DOMAIN variant' = Variants
        /\ \A w \in Variants : variant'[w] = IF w \in {v} THEN Deleted(w, FedVariants) ELSE variant[w]
        /\ variant' = [w \in Variants |-> variant'[w]]
    BY <1>1, <1>2 DEF TablesOK
  <2> QED BY <2>1, <1>2, DropVariants
<1>5. TablesOK'
  BY <1>1, <1>2, <1>4 DEF TablesOK
<1>6. {v} \in SUBSET (Products \cup Variants)
  BY <1>2
<1>7. CatalogInv' /\ \A k \in Jobs : k # j => job'[k] = job[k]
  BY <1>1, <1>5, <1>6, EditWrites
<1> QED BY <1>1, <1>4, <1>7 DEF NoClaim, Removable, Rows, Row, Synced, v

---------------------------------------------------------------------------
\* Every step, and what the properties say of it.

Whole ==
  LET lost == Rows(variant) \ Rows(variant)' IN
  /\ lost \cap inUse = {}
  /\ \A p \in Rows(product) \ Rows(product)' : VariantsIn(p) \subseteq lost
  /\ \A j \in Jobs : job[j] # None /\ job[j].op = "deleteProduct" /\ lost # {} /\ job'[j] = None
       => lost = VariantsIn(job[j].product) /\ job[j].product \notin Rows(product)'
Claimed ==
  ~(Synced(product)' \subseteq Synced(product) /\ Synced(variant)' \subseteq Synced(variant))
    => \/ \E i \in Importers : imp[i].pc \in {"row", "variant", "create"} /\ imp'[i] # imp[i]
       \/ \E j \in Jobs : /\ job[j] # None /\ job'[j] = None
                          /\ job[j].admin \/ (job[j].op = "createProduct" /\ NestedInNew)

\* A step that keeps all rows deletes nothing by halves.
LEMMA NothingIsLost == Keeps => Whole
BY DEF Keeps, Whole

\* The empty tables.
LEMMA InitCatalog == Init => CatalogInv
<1> SUFFICES ASSUME Init PROVE CatalogInv
  OBVIOUS
<1>1. TablesOK /\ JobsOK
  BY DEF Init, TablesOK, JobsOK, Asked, OrNone
<1>2. IdleImport \in Import
  BY StandingIdle DEF Standing
<1>3. ImportsOK
  BY <1>2, StandingIdle DEF Init, ImportsOK
<1> QED BY <1>1, <1>3, Split

\* Every step keeps the invariant, deletes as a whole, and claims only for those who
\* may.
LEMMA CatalogStep ==
  ASSUME CatalogInv, [Next]_vars
  PROVE  CatalogInv' /\ Whole /\ Claimed
<1>1. ASSUME NEW j \in Jobs, Ask(j) PROVE CatalogInv' /\ Whole /\ Claimed
  BY <1>1, AskStep, NothingIsLost DEF Claimed, NoClaim
<1>2. ASSUME NEW j \in Jobs, Edit(j) PROVE CatalogInv' /\ Whole /\ Claimed
  <2>1. CASE CreateCategory(j) \/ UpdateCategory(j)
    BY <2>1, CategoryEdits, NothingIsLost DEF Claimed, NoClaim
  <2>2. CASE DeleteCategory(j)
    BY <2>2, DeleteCategoryStep, NothingIsLost DEF Claimed, NoClaim
  <2>3. CASE CreateProduct(j)
    BY <2>3, CreateProductStep, NothingIsLost DEF Claimed
  <2>4. CASE UpdateProduct(j)
    BY <2>4, UpdateProductStep, NothingIsLost DEF Claimed
  <2>5. CASE CreateVariant(j)
    BY <2>5, CreateVariantStep, NothingIsLost DEF Claimed, NoClaim
  <2>6. CASE UpdateVariant(j)
    BY <2>6, UpdateVariantStep, NothingIsLost DEF Claimed
  <2>7. CASE NextCandidate(j) \/ EditFails(j)
    BY <2>7, OtherSteps, NothingIsLost DEF Claimed, NoClaim
  <2>8. CASE DeleteProduct(j)
    <3>1. /\ CatalogInv' /\ NoClaim
          /\ VariantsIn(job[j].product) \cap inUse = {} /\ VariantsIn(job[j].product) \subseteq Rows(variant)
          /\ Rows(product)' = Rows(product) \ {job[j].product}
          /\ Rows(variant)' = Rows(variant) \ VariantsIn(job[j].product)
          /\ \A k \in Jobs : k # j => job'[k] = job[k]
      BY <2>8, DeleteProductStep, VariantsInAreRows
    <3>2. Whole
      BY <3>1 DEF Whole
    <3> QED BY <3>1, <3>2 DEF Claimed, NoClaim
  <2>9. CASE DeleteVariant(j)
    <3>1. /\ CatalogInv' /\ NoClaim /\ job[j].variant \notin inUse /\ Rows(product)' = Rows(product)
          /\ Rows(variant)' = Rows(variant) \ {job[j].variant} /\ job[j].op = "deleteVariant"
          /\ \A k \in Jobs : k # j => job'[k] = job[k]
      BY <2>9, DeleteVariantStep DEF Rows, Row
    <3>2. Whole
      BY <3>1 DEF Whole
    <3> QED BY <3>1, <3>2 DEF Claimed, NoClaim
  <2> QED BY <1>2, <2>1, <2>2, <2>3, <2>4, <2>5, <2>6, <2>7, <2>8, <2>9 DEF Edit
<1>3. ASSUME NEW i \in Importers, Load(i) \/ ImportStep(i) \/ Stop(i) PROVE CatalogInv' /\ Whole /\ Claimed
  <2>1. CASE Load(i)
    BY <2>1, LoadStep, NothingIsLost DEF Claimed, NoClaim
  <2>2. CASE Stop(i)
    BY <2>2, StopStep, NothingIsLost DEF Claimed, NoClaim
  <2>3. CASE FindCategory(i)
    BY <2>3, FindCategoryStep, NothingIsLost DEF Claimed, NoClaim
  <2>4. CASE MakeCategory(i)
    BY <2>4, MakeCategoryStep, NothingIsLost DEF Claimed, NoClaim
  <2>5. CASE FindProduct(i)
    BY <2>5, FindProductStep, NothingIsLost DEF Claimed, NoClaim
  <2>6. CASE MakeProduct(i)
    BY <2>6, MakeProductStep, NothingIsLost DEF Claimed, NoClaim
  <2>7. CASE PlaceRow(i)
    BY <2>7, PlaceRowStep, NothingIsLost DEF Claimed
  <2>8. CASE PutKnown(i) \/ PutNew(i)
    <3>1. imp[i].pc \in {"variant", "create"} /\ Put(i)
      BY <2>8 DEF PutKnown, PutNew
    <3> QED BY <3>1, PutStep, NothingIsLost DEF Claimed
  <2>9. CASE TakeSku(i)
    <3>1. PICK w \in Variants \ inUse :
            CatalogInv' /\ NoClaim /\ product' = product /\ job' = job /\ Rows(variant)' = Rows(variant) \ {w}
      BY <2>9, TakeSkuStep
    <3>2. Rows(product)' = Rows(product)
      BY <3>1 DEF Rows, Row
    <3>3. Whole
      BY <3>1, <3>2 DEF Whole
    <3> QED BY <3>1, <3>3 DEF Claimed, NoClaim
  <2>10. CASE DocFails(i)
    BY <2>10, DocFailsStep, NothingIsLost DEF Claimed, NoClaim
  <2> QED BY <1>3, <2>1, <2>2, <2>3, <2>4, <2>5, <2>6, <2>7, <2>8, <2>9, <2>10 DEF ImportStep
<1>4. ASSUME NEW v \in Traded, UseVariant(v) PROVE CatalogInv' /\ Whole /\ Claimed
  BY <1>4, OtherSteps, NothingIsLost DEF Claimed, NoClaim
<1>5. CASE UNCHANGED vars
  <2>1. UNCHANGED << category, product, variant, inUse, job >> /\ imp' = imp
    BY <1>5 DEF vars
  <2>2. ImportsOK'
    BY <2>1, Split DEF ImportsOK
  <2> QED BY <2>1, <2>2, QuietImport, NothingIsLost DEF Claimed, NoClaim
<1> QED BY <1>1, <1>2, <1>3, <1>4, <1>5 DEF Next

\* The invariant of Catalog.tla is inductive.
THEOREM CatalogInductive == Spec => []CatalogInv
<1>1. CatalogInv /\ [Next]_vars => CatalogInv'
  BY CatalogStep
<1> QED BY <1>1, InitCatalog, PTL DEF Spec

\* Every state is of its type; above all, an import that goes on has a document with a
\* usable variant ahead, which is what its next statement relies on.
THEOREM CatalogTypes == Spec => []TypeOK
<1>1. CatalogInv => TypeOK
  BY DEF CatalogInv
<1> QED BY <1>1, CatalogInductive, PTL

\* Whatever runs beside a deletion, it spares what is in use and is never half done.
THEOREM DeletionsAreWhole == Spec => DeletionIsWhole
<1>1. CatalogInv /\ [Next]_vars => [Whole]_vars
  BY CatalogStep
<1> QED BY <1>1, CatalogInductive, PTL DEF Spec, DeletionIsWhole, Whole

\* No one but administrators and imports makes a product one of the Mnyama Shop, or a
\* variant that exists or joins a product that exists; a new product may bring such
\* variants along, nested in its body.
THEOREM ClaimsAreAdmins == Spec => ProvenanceFromAdmins
<1>1. CatalogInv /\ [Next]_vars => [Claimed]_vars
  BY CatalogStep
<1> QED BY <1>1, CatalogInductive, PTL DEF Spec, ProvenanceFromAdmins, Claimed
---------------------------------------------------------------------------
\* What an import has brought in stays in.

\* The document at hand, a variant of a document, and the variants an import is done
\* with and that no other contradicts.
Cur(x) == CHOOSE d \in x.left : TRUE
RawAt(x, d, k) == x.docs[d].variants[k]
Ready(x, d, k) ==
  /\ Sole(x.docs, d, k)
  /\ d \in x.done \/ (x.pc \in Step /\ d = Cur(x) /\ k <= x.at)

\* A product, and a variant, that are as the import wrote them or were touched since;
\* P and V are the tables.
Shop(x, p, P) == p \in x.touched \/ (Row(P, p) /\ P[p].source = "MNYAMA_SHOP")
Kept(x, raw, P, V) ==
  \/ raw.id \in x.touched
  \/ /\ Row(V, raw.id) /\ V[raw.id].sku = raw.sku /\ V[raw.id].source = "MNYAMA_SHOP"
     /\ Shop(x, V[raw.id].product, P)

\* The invariant of one import: all its finished variants are kept, also those of the
\* document at hand, whose product is placed before its variants.
Faithful(x, P, V) ==
  x.pc # "idle" =>
    /\ x.done \cap x.left = {}
    /\ \A d \in x.done : x.docs[d] \in ParsedDoc
    /\ \A d \in x.done \cup x.left : \A k \in Places(x.docs[d]) :
         Ready(x, d, k) => Kept(x, RawAt(x, d, k), P, V)
    /\ x.pc \in {"variant", "create"} => Shop(x, x.product, P)
FaithfulInv == \A i \in Importers : Faithful(imp[i], product, variant)

\* What is kept stays kept while the row and its product do.
LEMMA KeptOn ==
  ASSUME NEW x, NEW y, NEW P, NEW V, NEW Q, NEW W, NEW raw,
         x.touched \subseteq y.touched,
         Row(V, raw.id) /\ Shop(x, V[raw.id].product, P) => Shop(y, V[raw.id].product, Q),
         Row(V, raw.id) => raw.id \in y.touched \/ W[raw.id] = V[raw.id],
         Kept(x, raw, P, V)
  PROVE  Kept(y, raw, Q, W)
BY DEF Kept, Row

\* An import that stays with its document has only what it is done with to keep.
LEMMA FaithfulOn ==
  ASSUME NEW x, NEW y, NEW P, NEW V, NEW Q, NEW W, Faithful(x, P, V), x.pc # "idle",
         y.docs = x.docs, y.left = x.left, y.done = x.done, y.at = x.at, y.pc \in Step => x.pc \in Step,
         \A d \in x.done \cup x.left : \A k \in Places(x.docs[d]) :
           Ready(x, d, k) /\ Kept(x, RawAt(x, d, k), P, V) => Kept(y, RawAt(x, d, k), Q, W),
         y.pc \in {"variant", "create"} => Shop(y, y.product, Q)
  PROVE  Faithful(y, Q, W)
<1>1. Cur(y) = Cur(x)
  BY DEF Cur
<1>2. \A d, k : Ready(y, d, k) => Ready(x, d, k)
  BY <1>1 DEF Ready
<1>3. \A d, k : RawAt(y, d, k) = RawAt(x, d, k)
  BY DEF RawAt
<1>4. /\ x.done \cap x.left = {} /\ \A d \in x.done : x.docs[d] \in ParsedDoc
      /\ \A d \in x.done \cup x.left : \A k \in Places(x.docs[d]) :
           Ready(x, d, k) => Kept(x, RawAt(x, d, k), P, V)
  BY DEF Faithful
<1>5. \A d \in y.done \cup y.left : \A k \in Places(y.docs[d]) :
        Ready(y, d, k) => Kept(y, RawAt(y, d, k), Q, W)
  BY <1>2, <1>3, <1>4
<1> QED BY <1>4, <1>5 DEF Faithful

\* The variants of a document that was read have ids.
LEMMA DocumentsDone ==
  ASSUME NEW x, Standing(x), x.pc # "idle", NEW P, NEW V, Faithful(x, P, V)
  PROVE  /\ x.pc \in Step => Cur(x) \in x.left
         /\ \A d \in x.done : x.docs[d] \in ParsedDoc
         /\ \A d \in x.done \cup x.left : \A k \in Places(x.docs[d]) :
              Ready(x, d, k) => d \in Docs /\ x.docs[d] \in ParsedDoc /\ k \in Nat /\ RawAt(x, d, k).id \in Variants
<1>1. /\ x.pc \in Step => Cur(x) \in x.left /\ \A d \in x.left : x.docs[d] \in ParsedDoc
      /\ \A d \in x.done : x.docs[d] \in ParsedDoc
      /\ x.done \subseteq Docs /\ x.left \subseteq Docs
  BY DEF Standing, Cur, Faithful, Import
<1>2. ASSUME NEW d \in x.done \cup x.left, NEW k \in Places(x.docs[d]), Ready(x, d, k)
      PROVE  d \in Docs /\ x.docs[d] \in ParsedDoc /\ k \in Nat /\ RawAt(x, d, k).id \in Variants
  <2>1. d \in Docs /\ x.docs[d] \in ParsedDoc
    BY <1>1, <1>2 DEF Ready
  <2> QED BY <2>1, PlacesAreNatural DEF RawAt
<1> QED BY <1>1, <1>2

---------------------------------------------------------------------------
\* The imports beside a step.

\* A step that, apart from the rows ids that it tells the imports of, takes no row away,
\* changes no variant and takes no product from the Mnyama Shop.
Spares(ids) ==
  /\ \A p \in Products \ ids :
       Row(product, p) /\ product[p].source = "MNYAMA_SHOP" => Row(product', p) /\ product'[p].source = "MNYAMA_SHOP"
  /\ \A v \in Variants \ ids : Row(variant, v) => variant'[v] = variant[v]
Sparing(i) ==
  \E ids \in SUBSET (Products \cup Variants) :
    Spares(ids) /\ \A k \in Importers : k # i => imp'[k] = TouchedBut(i, ids)[k]

\* A spared shop product stays one for an import that was told of the others.
LEMMA ShopSpared ==
  ASSUME NEW ids, Spares(ids), NEW x, NEW y, x.touched \cup ids \subseteq y.touched, NEW p \in Products,
         Shop(x, p, product)
  PROVE  Shop(y, p, product')
BY DEF Shop, Spares

\* A step of another handler undoes nothing that an import has done, unless it tells it so.
LEMMA Bystander ==
  ASSUME CatalogInv, NEW i, Sparing(i), NEW k \in Importers, k # i, Faithful(imp[k], product, variant)
  PROVE  Faithful(imp'[k], product', variant')
<1>1. PICK ids \in SUBSET (Products \cup Variants) : Spares(ids) /\ imp'[k] = TouchedBut(i, ids)[k]
  BY DEF Sparing
<1>2. TablesOK /\ imp[k] \in Import /\ Standing(imp[k])
  BY Facts
<1>3. CASE imp[k].pc = "idle"
  <2>1. imp'[k] = imp[k]
    BY <1>1, <1>3 DEF TouchedBut
  <2> QED BY <2>1, <1>3 DEF Faithful
<1>4. CASE imp[k].pc # "idle"
  <2> DEFINE x == imp[k]
             y == imp'[k]
  <2>1. y = [x EXCEPT !.touched = x.touched \cup ids]
    BY <1>1, <1>4 DEF TouchedBut
  <2>2. /\ y.docs = x.docs /\ y.left = x.left /\ y.done = x.done /\ y.at = x.at /\ y.pc = x.pc
        /\ y.product = x.product /\ x.touched \cup ids \subseteq y.touched
    BY <1>2, <2>1 DEF Import
  <2>3. x.pc \in {"variant", "create"} => x.product \in Products
    BY <1>2 DEF Standing, Import, OrNone
  <2>4. \A d \in x.done \cup x.left : \A m \in Places(x.docs[d]) :
              Ready(x, d, m) => RawAt(x, d, m).id \in Variants
    BY <1>2, <1>4, DocumentsDone
  <2> HIDE DEF x, y
  <2>5. ASSUME NEW raw, raw.id \in Variants, Kept(x, raw, product, variant)
        PROVE  Kept(y, raw, product', variant')
    <3>1. Row(variant, raw.id) => variant[raw.id].product \in Products
      BY <1>2, <2>5 DEF TablesOK, Row, VariantRow
    <3>2. Row(variant, raw.id) => raw.id \in y.touched \/ variant'[raw.id] = variant[raw.id]
      BY <1>1, <2>2, <2>5 DEF Spares
    <3>3. Row(variant, raw.id) /\ Shop(x, variant[raw.id].product, product)
            => Shop(y, variant[raw.id].product, product')
      BY <1>1, <2>2, <3>1, ShopSpared
    <3>4. x.touched \subseteq y.touched
      BY <2>2
    <3> QED BY <2>5, <3>2, <3>3, <3>4, KeptOn
  <2>6. x.pc \in {"variant", "create"} => Shop(x, x.product, product)
    BY <1>4 DEF Faithful, x
  <2>7. y.pc \in {"variant", "create"} => Shop(y, y.product, product')
    BY <1>1, <2>2, <2>3, <2>6, ShopSpared
  <2>8. \A d \in x.done \cup x.left : \A m \in Places(x.docs[d]) :
          Ready(x, d, m) /\ Kept(x, RawAt(x, d, m), product, variant) => Kept(y, RawAt(x, d, m), product', variant')
    BY <2>4, <2>5
  <2>9. Faithful(x, product, variant) /\ x.pc # "idle" /\ (y.pc \in Step => x.pc \in Step)
    BY <1>4, <2>2 DEF x
  <2>10. Faithful(y, product', variant')
    BY <2>2, <2>7, <2>8, <2>9, FaithfulOn
  <2> QED BY <2>10 DEF y
<1> QED BY <1>3, <1>4

\* An import that is not told of anything is told of no rows.
LEMMA Unmoved ==
  ASSUME CatalogInv, NEW i, \A k \in Importers : k # i => imp'[k] = imp[k], Spares({})
  PROVE  Sparing(i)
<1>1. ASSUME NEW k \in Importers, k # i PROVE imp'[k] = TouchedBut(i, {})[k]
  <2>1. imp[k] \in Import
    BY Facts
  <2>2. [imp[k] EXCEPT !.touched = imp[k].touched \cup {}] = imp[k]
    BY <2>1 DEF Import
  <2> QED BY <1>1, <2>2 DEF TouchedBut
<1>2. {} \in SUBSET (Products \cup Variants)
  OBVIOUS
<1> QED BY <1>1, <1>2 DEF Sparing

\* Edits tell the imports of the rows they take away or change.
LEMMA EditSpares ==
  ASSUME CatalogInv, NEW j \in Jobs, Ask(j) \/ Edit(j)
  PROVE  Sparing(None)
<1>1. TablesOK /\ JobsOK
  BY Split
<1>2. ASSUME NEW ids \in SUBSET (Products \cup Variants), Spares(ids), imp' = Touched(ids) PROVE Sparing(None)
  BY <1>2 DEF Sparing, Touched
<1>3. CASE Ask(j) \/ NextCandidate(j) \/ EditFails(j) \/ CreateCategory(j) \/ UpdateCategory(j)
  <2>1. imp' = imp /\ product' = product /\ variant' = variant
    BY <1>3 DEF Ask, AskCategory, AskProduct, AskVariant, Accept, NextCandidate, EditFails,
                CreateCategory, UpdateCategory
  <2> QED BY <2>1, Unmoved DEF Spares
<1>4. CASE DeleteCategory(j)
  <2>1. imp' = imp /\ variant' = variant
        /\ \E c : product' = [p \in Products |->
                    IF Row(product, p) /\ product[p].category = c
                    THEN [product[p] EXCEPT !.category = None] ELSE product[p]]
    BY <1>4 DEF DeleteCategory
  <2>2. PICK c : product' = [p \in Products |->
                   IF Row(product, p) /\ product[p].category = c
                   THEN [product[p] EXCEPT !.category = None] ELSE product[p]]
    BY <2>1
  <2>3. ASSUME NEW p \in Products, Row(product, p), product[p].source = "MNYAMA_SHOP"
        PROVE  Row(product', p) /\ product'[p].source = "MNYAMA_SHOP"
    <3>1. product[p] \in ProductRow
      BY <2>3, <1>1 DEF TablesOK, Row
    <3>2. [product[p] EXCEPT !.category = None] \in ProductRow
          /\ [product[p] EXCEPT !.category = None].source = "MNYAMA_SHOP"
      BY <3>1, <2>3 DEF ProductRow, OrNone
    <3> QED BY <3>2, <2>2, <2>3, CatalogNaming DEF Row
  <2>4. Spares({})
    BY <2>1, <2>3 DEF Spares
  <2> QED BY <2>1, <2>4, Unmoved
<1>5. CASE CreateProduct(j)
  <2> DEFINE vs == job[j].takes
  <2>1. /\ job[j] # None /\ imp' = Touched(vs)
        /\ \E p \in Products : /\ product[p] = None /\ \E rec : product' = [product EXCEPT ![p] = rec]
                              /\ WriteVariants(job[j], p)
    BY <1>5 DEF CreateProduct, Writes
  <2>2. PICK p \in Products : /\ product[p] = None /\ \E rec : product' = [product EXCEPT ![p] = rec]
                              /\ WriteVariants(job[j], p)
    BY <2>1
  <2>3. \A q \in Products : q # p => product'[q] = product[q]
    BY <2>2, <1>1 DEF TablesOK
  <2>4. vs \subseteq Variants /\ \A v \in Variants \ vs : Row(variant, v) => variant'[v] = variant[v]
    BY <2>1, <2>2, JobFacts, BodyVariants
  <2> HIDE DEF vs
  <2>5. Spares(vs) /\ vs \in SUBSET (Products \cup Variants)
    BY <2>2, <2>3, <2>4 DEF Spares, Row
  <2> QED BY <2>1, <2>5, <1>2
<1>6. CASE CreateVariant(j)
  <2>1. /\ imp' = imp /\ product' = product
        /\ \E v \in Variants : variant[v] = None /\ \E rec : variant' = [variant EXCEPT ![v] = rec]
    BY <1>6 DEF CreateVariant
  <2>2. PICK v \in Variants : variant[v] = None /\ \E rec : variant' = [variant EXCEPT ![v] = rec]
    BY <2>1
  <2>3. \A w \in Variants : w # v => variant'[w] = variant[w]
    BY <2>2, <1>1 DEF TablesOK
  <2>4. Spares({})
    BY <2>1, <2>2, <2>3 DEF Spares, Row
  <2> QED BY <2>1, <2>4, Unmoved
<1>7. CASE UpdateProduct(j)
  <2> DEFINE p == job[j].product
             vs == job[j].takes
  <2>1. /\ job[j] # None /\ job[j].op = "updateProduct" /\ imp' = Touched({p} \cup vs)
        /\ (\E rec : product' = [product EXCEPT ![p] = rec]) /\ WriteVariants(job[j], p)
    BY <1>7 DEF UpdateProduct, Writes
  <2>2. p \in Products /\ vs \subseteq Variants
    BY <2>1, JobFacts DEF Asked
  <2>3. \A v \in Variants \ vs : Row(variant, v) => variant'[v] = variant[v]
    BY <2>1, <2>2, JobFacts, BodyVariants
  <2> HIDE DEF p, vs
  <2>4. \A q \in Products : q # p => product'[q] = product[q]
    BY <2>1, <1>1 DEF TablesOK
  <2>5. Spares({p} \cup vs) /\ {p} \cup vs \in SUBSET (Products \cup Variants)
    BY <2>2, <2>3, <2>4 DEF Spares, Row
  <2> QED BY <2>1, <2>5, <1>2
<1>8. CASE UpdateVariant(j) \/ DeleteVariant(j)
  <2> DEFINE v == job[j].variant
  <2>1. /\ job[j] # None /\ job[j].op \in {"updateVariant", "deleteVariant"}
        /\ imp' = Touched({v}) /\ product' = product /\ \E rec : variant' = [variant EXCEPT ![v] = rec]
    BY <1>8 DEF UpdateVariant, DeleteVariant, Writes
  <2>2. v \in Variants
    BY <2>1, JobFacts DEF Asked
  <2> HIDE DEF v
  <2>3. \A w \in Variants : w # v => variant'[w] = variant[w]
    BY <2>1, <1>1 DEF TablesOK
  <2>4. Spares({v}) /\ {v} \in SUBSET (Products \cup Variants)
    BY <2>1, <2>2, <2>3 DEF Spares, Row
  <2> QED BY <2>1, <2>4, <1>2
<1>9. CASE DeleteProduct(j)
  <2> DEFINE p == job[j].product
             vs == VariantsIn(job[j].product)
  <2>1. /\ job[j] # None /\ job[j].op = "deleteProduct" /\ imp' = Touched({p} \cup vs)
        /\ product' = [product EXCEPT ![p] = Deleted(p, FedProducts)]
        /\ variant' = [v \in Variants |-> IF v \in vs THEN Deleted(v, FedVariants) ELSE variant[v]]
    BY <1>9 DEF DeleteProduct, Writes
  <2>2. p \in Products /\ vs \subseteq Variants
    BY <2>1, JobFacts, VariantsInAreRows DEF Asked
  <2> HIDE DEF p, vs
  <2>3. /\ \A q \in Products : q # p => product'[q] = product[q]
        /\ \A v \in Variants : v \notin vs => variant'[v] = variant[v]
    BY <2>1, <1>1 DEF TablesOK
  <2>4. Spares({p} \cup vs) /\ {p} \cup vs \in SUBSET (Products \cup Variants)
    BY <2>2, <2>3 DEF Spares, Row
  <2> QED BY <2>1, <2>4, <1>2
<1> QED BY <1>3, <1>4, <1>5, <1>6, <1>7, <1>8, <1>9 DEF Edit

---------------------------------------------------------------------------
\* The import that makes the step.

\* A step within a document, towards pc, that leaves the tables it has written.
LEMMA Onward ==
  ASSUME CatalogInv, NEW i \in Importers, imp[i].pc \in Step, Faithful(imp[i], product, variant),
         NEW ids \in SUBSET (Products \cup Variants), NEW c, NEW p, NEW pc \in Step,
         imp' = [TouchedBut(i, ids) EXCEPT ![i] = [imp[i] EXCEPT !.category = c, !.product = p, !.pc = pc]],
         Spares(ids),
         \A q \in Products : Shop(imp[i], q, product) => Shop(imp[i], q, product'),
         \A d \in imp[i].done \cup imp[i].left : \A k \in Places(imp[i].docs[d]) :
           LET v == RawAt(imp[i], d, k).id IN
           Ready(imp[i], d, k) /\ Kept(imp[i], RawAt(imp[i], d, k), product, variant) /\ Row(variant, v)
             => variant'[v] = variant[v] \/ v \in imp[i].touched,
         pc \in {"variant", "create"} => Shop(imp[i], p, product')
  PROVE  Sparing(i) /\ Faithful(imp'[i], product', variant')
<1>1. /\ TablesOK /\ imp[i] \in Import /\ Standing(imp[i]) /\ ImportsOK
      /\ TouchedBut(i, ids) \in [Importers -> Import] /\ TouchedBut(i, ids)[i] = imp[i]
  BY Facts, Touching
<1>2. Sparing(i)
  BY <1>1 DEF Sparing
<1> DEFINE x == imp[i]
           y == imp'[i]
<1>3. y = [x EXCEPT !.category = c, !.product = p, !.pc = pc]
  BY <1>1
<1>4. /\ y.docs = x.docs /\ y.left = x.left /\ y.done = x.done /\ y.at = x.at /\ y.pc = pc
      /\ y.product = p /\ y.touched = x.touched
  BY <1>1, <1>3 DEF Import
<1>5. /\ x.pc \in Step /\ x.pc # "idle" /\ Standing(x) /\ Faithful(x, product, variant)
      /\ \A q \in Products : Shop(x, q, product) => Shop(x, q, product')
      /\ (pc \in {"variant", "create"} => Shop(x, p, product'))
  BY <1>1 DEF Step
<1>6. \A d \in x.done \cup x.left : \A k \in Places(x.docs[d]) :
        LET v == RawAt(x, d, k).id IN
        Ready(x, d, k) /\ Kept(x, RawAt(x, d, k), product, variant) /\ Row(variant, v)
          => variant'[v] = variant[v] \/ v \in x.touched
  OBVIOUS
<1> HIDE DEF x, y
<1>7. \A q : Shop(y, q, product') <=> Shop(x, q, product')
  BY <1>4 DEF Shop
<1>8. ASSUME NEW d \in x.done \cup x.left, NEW k \in Places(x.docs[d]), Ready(x, d, k),
             Kept(x, RawAt(x, d, k), product, variant)
      PROVE  Kept(y, RawAt(x, d, k), product', variant')
  <2> DEFINE v == RawAt(x, d, k).id
  <2>1. v \in Variants
    BY <1>5, <1>8, DocumentsDone
  <2>2. Row(variant, v) => variant[v].product \in Products
    BY <1>1, <2>1 DEF TablesOK, Row, VariantRow
  <2>3. Row(variant, v) /\ Shop(x, variant[v].product, product) => Shop(y, variant[v].product, product')
    BY <1>5, <1>7, <2>2
  <2>4. Row(variant, v) => v \in y.touched \/ variant'[v] = variant[v]
    BY <1>4, <1>6, <1>8
  <2>5. x.touched \subseteq y.touched
    BY <1>4
  <2> QED BY <1>8, <2>3, <2>4, <2>5, KeptOn
<1>9. y.pc \in {"variant", "create"} => Shop(y, y.product, product')
  BY <1>4, <1>5, <1>7
<1>10. Faithful(y, product', variant')
  BY <1>4, <1>5, <1>8, <1>9, FaithfulOn
<1> QED BY <1>2, <1>10 DEF y

\* Nobody is told of no rows.
LEMMA ToldNothing ==
  ASSUME ImportsOK, NEW i
  PROVE  TouchedBut(i, {}) = imp
<1>1. ASSUME NEW k \in Importers PROVE [imp[k] EXCEPT !.touched = imp[k].touched \cup {}] = imp[k]
  <2>1. imp[k] \in Import
    BY DEF ImportsOK
  <2> QED BY <2>1 DEF Import
<1>2. imp = [k \in Importers |-> imp[k]]
  BY DEF ImportsOK
<1> QED BY <1>1, <1>2 DEF TouchedBut

\* The steps that find or make the category and find the product write nothing that
\* was written for a variant.
LEMMA FindingFaithful ==
  ASSUME CatalogInv, NEW i \in Importers, Faithful(imp[i], product, variant),
         FindCategory(i) \/ MakeCategory(i) \/ FindProduct(i)
  PROVE  Sparing(i) /\ Faithful(imp'[i], product', variant')
<1>0. FindCategory(i) \/ MakeCategory(i) \/ FindProduct(i)
  OBVIOUS
<1>1. /\ imp[i].pc \in Step /\ UNCHANGED << product, variant >>
  BY DEF FindCategory, MakeCategory, FindProduct, Step
<1> DEFINE At(c, p, pc) == [imp[i] EXCEPT !.category = c, !.product = p, !.pc = pc]
<1>2. \E pc \in {"product", "newCategory", "row", "newProduct"} : \E c, p : imp' = [imp EXCEPT ![i] = At(c, p, pc)]
  <2>1. imp \in [Importers -> Import] /\ imp[i] \in Import
    BY Facts
  <2>2. ASSUME NEW c, NEW pc, imp' = [imp EXCEPT ![i].category = c, ![i].pc = pc]
        PROVE  imp' = [imp EXCEPT ![i] = At(c, imp[i].product, pc)]
    <3>1. [imp[i] EXCEPT !.category = c, !.pc = pc] = At(c, imp[i].product, pc)
      BY <2>1 DEF Import
    <3> HIDE DEF At
    <3> QED BY <2>1, <2>2, <3>1
  <2>3. ASSUME NEW p, NEW pc, imp' = [imp EXCEPT ![i].product = p, ![i].pc = pc]
        PROVE  imp' = [imp EXCEPT ![i] = At(imp[i].category, p, pc)]
    <3>1. [imp[i] EXCEPT !.product = p, !.pc = pc] = At(imp[i].category, p, pc)
      BY <2>1 DEF Import
    <3> HIDE DEF At
    <3> QED BY <2>1, <2>3, <3>1
  <2>4. ASSUME NEW pc, imp' = To(i, pc)
        PROVE  imp' = [imp EXCEPT ![i] = At(imp[i].category, imp[i].product, pc)]
    <3>1. [imp[i] EXCEPT !.pc = pc] = At(imp[i].category, imp[i].product, pc)
      BY <2>1 DEF Import
    <3> HIDE DEF At
    <3> QED BY <2>1, <2>4, <3>1 DEF To
  <2>5. CASE FindCategory(i) \/ MakeCategory(i)
    <3>1. \/ \E c : imp' = [imp EXCEPT ![i].category = c, ![i].pc = "product"]
          \/ \E pc \in {"product", "newCategory"} : imp' = To(i, pc)
      BY <2>5 DEF FindCategory, MakeCategory
    <3>2. CASE \E c : imp' = [imp EXCEPT ![i].category = c, ![i].pc = "product"]
      <4>1. PICK c : imp' = [imp EXCEPT ![i].category = c, ![i].pc = "product"]
        BY <3>2
      <4>2. imp' = [imp EXCEPT ![i] = At(c, imp[i].product, "product")]
        BY <4>1, <2>2
      <4> HIDE DEF At
      <4> QED BY <4>2
    <3>3. CASE \E pc \in {"product", "newCategory"} : imp' = To(i, pc)
      <4>1. PICK pc \in {"product", "newCategory"} : imp' = To(i, pc)
        BY <3>3
      <4>2. imp' = [imp EXCEPT ![i] = At(imp[i].category, imp[i].product, pc)]
        BY <4>1, <2>4
      <4> HIDE DEF At
      <4> QED BY <4>2
    <3> QED BY <3>1, <3>2, <3>3
  <2>6. CASE FindProduct(i)
    <3>1. \/ \E p : imp' = [imp EXCEPT ![i].product = p, ![i].pc = "row"]
          \/ imp' = To(i, "newProduct")
      BY <2>6 DEF FindProduct
    <3>2. CASE \E p : imp' = [imp EXCEPT ![i].product = p, ![i].pc = "row"]
      <4>1. PICK p : imp' = [imp EXCEPT ![i].product = p, ![i].pc = "row"]
        BY <3>2
      <4>2. imp' = [imp EXCEPT ![i] = At(imp[i].category, p, "row")]
        BY <4>1, <2>3
      <4> HIDE DEF At
      <4> QED BY <4>2
    <3>3. CASE imp' = To(i, "newProduct")
      <4>2. imp' = [imp EXCEPT ![i] = At(imp[i].category, imp[i].product, "newProduct")]
        BY <3>3, <2>4
      <4> HIDE DEF At
      <4> QED BY <4>2
    <3> QED BY <3>1, <3>2, <3>3
  <2> QED BY <1>0, <2>5, <2>6
<1>3. PICK pc \in {"product", "newCategory", "row", "newProduct"} : \E c, p : imp' = [imp EXCEPT ![i] = At(c, p, pc)]
  BY <1>2
<1>4. PICK c, p :
        imp' = [imp EXCEPT ![i] = [imp[i] EXCEPT !.category = c, !.product = p, !.pc = pc]]
  BY <1>3
<1>5. imp' = [TouchedBut(i, {}) EXCEPT ![i] = [imp[i] EXCEPT !.category = c, !.product = p, !.pc = pc]]
  BY <1>4, Facts, ToldNothing
<1>6. pc \in Step /\ pc \notin {"variant", "create"} /\ {} \in SUBSET (Products \cup Variants)
  BY DEF Step
<1>7. Spares({}) /\ \A q \in Products : Shop(imp[i], q, product) => Shop(imp[i], q, product')
  BY <1>1 DEF Spares, Shop
<1> QED BY <1>1, <1>5, <1>6, <1>7, Onward

\* A new product takes the place of no row; a placed one is of the Mnyama Shop.
LEMMA PlacingFaithful ==
  ASSUME CatalogInv, NEW i \in Importers, Faithful(imp[i], product, variant),
         MakeProduct(i) \/ PlaceRow(i)
  PROVE  Sparing(i) /\ Faithful(imp'[i], product', variant')
<1>1. imp[i].pc \in Step /\ variant' = variant /\ TablesOK
  BY Facts DEF MakeProduct, PlaceRow, Step
<1>2. PICK p \in Products, rec \in [source : Source, category : OrNone(Categories), doc : OrNone(Docs)],
           pc \in {"row", "variant"} :
        /\ product' = [product EXCEPT ![p] = rec]
        /\ imp' = [TouchedBut(i, {p}) EXCEPT ![i].product = p, ![i].pc = pc]
        /\ product[p] = None \/ rec.source = "MNYAMA_SHOP"
        /\ pc = "variant" => rec.source = "MNYAMA_SHOP"
  <2>1. Doc(i).product \in Products \cup {None} /\ DocAt(i) \in Docs
    BY <1>1, Facts, NextPlace, DocTypes
  <2>2. imp[i].category \in OrNone(Categories)
    BY Facts DEF Import
  <2>3. CASE MakeProduct(i)
    <3>1. [source |-> "CUSTOM", category |-> imp[i].category, doc |-> None]
            \in [source : Source, category : OrNone(Categories), doc : OrNone(Docs)]
      BY <2>2 DEF Source, OrNone
    <3> QED BY <2>1, <2>3, <3>1 DEF MakeProduct
  <2>4. CASE PlaceRow(i)
    <3> DEFINE p == IF Doc(i).product = None THEN imp[i].product ELSE Doc(i).product
               rec == [source |-> "MNYAMA_SHOP", category |-> imp[i].category, doc |-> DocAt(i)]
    <3>1. rec \in [source : Source, category : OrNone(Categories), doc : OrNone(Docs)]
          /\ rec.source = "MNYAMA_SHOP"
      BY <2>1, <2>2 DEF Source, OrNone
    <3>2. p \in Products
      <4>1. imp[i].product \in Products
        BY <2>4, Facts DEF PlaceRow, Standing, Import, OrNone
      <4> QED BY <2>1, <4>1
    <3>3. /\ product' = [product EXCEPT ![p] = rec]
          /\ imp' = [TouchedBut(i, {p}) EXCEPT ![i].product = p, ![i].pc = "variant"]
      BY <2>4 DEF PlaceRow
    <3> HIDE DEF p, rec
    <3> QED BY <3>1, <3>2, <3>3
  <2> QED BY <2>3, <2>4
<1>3. /\ product'[p] = rec /\ rec \notin {None, Gone} /\ \A q \in Products : q # p => product'[q] = product[q]
  BY <1>1, <1>2, CatalogNaming DEF TablesOK, ProductRow
<1>4. Spares({p}) /\ {p} \in SUBSET (Products \cup Variants)
  BY <1>1, <1>3 DEF Spares, Row
<1>5. \A q \in Products : Shop(imp[i], q, product) => Shop(imp[i], q, product')
  BY <1>2, <1>3 DEF Shop, Row
<1>6. pc \in Step /\ (pc \in {"variant", "create"} => Shop(imp[i], p, product'))
  BY <1>2, <1>3 DEF Step, Shop, Row
<1>7. imp' = [TouchedBut(i, {p}) EXCEPT ![i] = [imp[i] EXCEPT !.category = imp[i].category,
                                                              !.product = p, !.pc = pc]]
  <2>1. TouchedBut(i, {p})[i] = imp[i] /\ TouchedBut(i, {p}) \in [Importers -> Import] /\ imp[i] \in Import
    BY Facts, Touching
  <2>2. imp' = [TouchedBut(i, {p}) EXCEPT ![i] = [imp[i] EXCEPT !.product = p, !.pc = pc]]
    BY <1>2, <2>1
  <2>3. [imp[i] EXCEPT !.product = p, !.pc = pc]
        = [imp[i] EXCEPT !.category = imp[i].category, !.product = p, !.pc = pc]
    BY <2>1 DEF Import
  <2> QED BY <2>2, <2>3
<1> QED BY <1>1, <1>4, <1>5, <1>6, <1>7, Onward

\* The variant that the import is about to write is not among those it is done with.
LEMMA WantedIsNew ==
  ASSUME CatalogInv, NEW i \in Importers, imp[i].pc \in Step, Faithful(imp[i], product, variant),
         NEW d \in imp[i].done \cup imp[i].left, NEW k \in Places(imp[i].docs[d]), Ready(imp[i], d, k)
  PROVE  RawAt(imp[i], d, k).id # Wanted(i).id /\ RawAt(imp[i], d, k).sku # Wanted(i).sku
<1>1. /\ DocAt(i) \in imp[i].left /\ DocAt(i) \in Docs /\ Doc(i) \in ParsedDoc
      /\ Place(i) \in Ahead(i) /\ Place(i) \in Nat /\ Place(i) > imp[i].at /\ imp[i].at \in Nat
  BY Facts, NextPlace DEF Import
<1>2. /\ Cur(imp[i]) = DocAt(i) /\ Doc(i) = imp[i].docs[DocAt(i)] /\ Wanted(i) = RawAt(imp[i], DocAt(i), Place(i))
      /\ Place(i) \in Places(imp[i].docs[DocAt(i)])
  BY <1>1 DEF Cur, DocAt, Doc, Wanted, RawAt, Ahead
<1>3. imp[i].docs[DocAt(i)] # None
  BY <1>1, <1>2, NoneIsNoDocument
<1>4. imp[i].done \cap imp[i].left = {}
  BY DEF Faithful, Step
<1>5. d = DocAt(i) /\ k = Place(i) => FALSE
  <2>1. ASSUME d = DocAt(i), k = Place(i) PROVE FALSE
    <3>1. d \notin imp[i].done
      BY <2>1, <1>1, <1>4
    <3>2. k <= imp[i].at
      BY <3>1 DEF Ready
    <3> QED BY <2>1, <3>2, <1>1
  <2> QED BY <2>1
<1>6. RawAt(imp[i], DocAt(i), Place(i)).id = RawAt(imp[i], d, k).id
      \/ RawAt(imp[i], DocAt(i), Place(i)).sku = RawAt(imp[i], d, k).sku
        => DocAt(i) = d /\ Place(i) = k
  BY <1>1, <1>2, <1>3 DEF Ready, Sole, RawAt
<1> QED BY <1>2, <1>5, <1>6

\* The variant that loses its SKU is none that this import is done with.
LEMMA TakingFaithful ==
  ASSUME CatalogInv, NEW i \in Importers, Faithful(imp[i], product, variant), TakeSku(i)
  PROVE  Sparing(i) /\ Faithful(imp'[i], product', variant')
<1>1. imp[i].pc = "variant" /\ imp[i].pc \in Step /\ product' = product /\ TablesOK
  BY Facts DEF TakeSku, Step
<1>2. PICK w \in Rows(variant) :
        /\ variant[w].sku = Wanted(i).sku
        /\ variant' = [variant EXCEPT ![w] = Deleted(w, FedVariants)]
        /\ imp' = [TouchedBut(i, {w}) EXCEPT ![i].pc = "create"]
  BY DEF TakeSku
<1>3. w \in Variants /\ {w} \in SUBSET (Products \cup Variants)
  BY <1>1, <1>2, RowsAre
<1>4. TouchedBut(i, {w})[i] = imp[i] /\ TouchedBut(i, {w}) \in [Importers -> Import] /\ imp[i] \in Import
  BY <1>3, Facts, Touching
<1>5. imp' = [TouchedBut(i, {w}) EXCEPT ![i] = [imp[i] EXCEPT !.category = imp[i].category,
                                                              !.product = imp[i].product, !.pc = "create"]]
  <2> DEFINE y == [imp[i] EXCEPT !.pc = "create"]
  <2>1. imp' = [TouchedBut(i, {w}) EXCEPT ![i] = y]
    BY <1>2, <1>4
  <2>2. y = [imp[i] EXCEPT !.category = imp[i].category, !.product = imp[i].product, !.pc = "create"]
    BY <1>4 DEF Import
  <2> QED BY <2>1, <2>2
<1>6. \A v \in Variants : v # w => variant'[v] = variant[v]
  BY <1>1, <1>2 DEF TablesOK
<1>7. Spares({w})
  BY <1>1, <1>6 DEF Spares
<1>8. \A q \in Products : Shop(imp[i], q, product) => Shop(imp[i], q, product')
  BY <1>1
<1>9. "create" \in Step /\ Shop(imp[i], imp[i].product, product')
  BY <1>1 DEF Step, Faithful
<1>10. ASSUME NEW d \in imp[i].done \cup imp[i].left, NEW k \in Places(imp[i].docs[d]), Ready(imp[i], d, k),
              Kept(imp[i], RawAt(imp[i], d, k), product, variant), Row(variant, RawAt(imp[i], d, k).id)
       PROVE  LET v == RawAt(imp[i], d, k).id IN variant'[v] = variant[v] \/ v \in imp[i].touched
  <2> DEFINE raw == RawAt(imp[i], d, k)
  <2>1. raw.sku # Wanted(i).sku
    BY <1>1, <1>10, WantedIsNew
  <2>2. raw.id \in Variants
    BY <1>1, <1>10, Facts, DocumentsDone DEF Step
  <2>3. raw.id \in imp[i].touched \/ variant[raw.id].sku = raw.sku
    BY <1>10 DEF Kept
  <2> HIDE DEF raw
  <2>4. raw.id \in imp[i].touched \/ raw.id # w
    BY <1>2, <2>1, <2>3
  <2>5. variant'[raw.id] = variant[raw.id] \/ raw.id \in imp[i].touched
    BY <1>6, <2>2, <2>4
  <2> QED BY <2>5 DEF raw
<1> QED BY <1>1, <1>3, <1>5, <1>7, <1>8, <1>9, <1>10, Onward

\* The import goes on to another document, and may be done with the one at hand.
LEMMA NextFaithful ==
  ASSUME CatalogInv, NEW i \in Importers, imp[i].pc \in Step, Faithful(imp[i], product, variant),
         NEW done, NEW failed, done \in {imp[i].done, imp[i].done \cup {DocAt(i)}},
         imp'[i] = NextDoc(i, done, failed),
         \A d \in imp[i].done \cup imp[i].left : \A k \in Places(imp[i].docs[d]) :
           Ready(imp[i], d, k) => Kept(imp[i], RawAt(imp[i], d, k), product', variant'),
         DocAt(i) \in done =>
           \A k \in Places(Doc(i)) :
             Sole(imp[i].docs, DocAt(i), k) => Kept(imp[i], RawAt(imp[i], DocAt(i), k), product', variant')
  PROVE  Faithful(imp'[i], product', variant')
<1> DEFINE x == imp[i]
           y == imp'[i]
           e == DocAt(i)
<1>1. TablesOK /\ x \in Import /\ Standing(x) /\ x.pc # "idle"
  BY Facts DEF Step
<1>2. /\ y.docs = x.docs /\ y.left = x.left \ {e} /\ y.done = done /\ y.at = 0
      /\ y.touched = x.touched /\ y.pc \in {"end", "category"}
      /\ y.pc = "category" => x.left # {e}
  BY <1>1 DEF NextDoc, Import
<1>3. e \in x.left /\ Doc(i) \in ParsedDoc /\ Doc(i) = x.docs[e] /\ e = Cur(x)
  BY <1>1, NextPlace DEF Doc, DocAt, Cur
<1>4. x.done \cap x.left = {} /\ \A d \in x.done : x.docs[d] \in ParsedDoc
  BY <1>1 DEF Faithful
<1>5. /\ \A d \in x.left : x.docs[d] \in ParsedDoc
  BY <1>1 DEF Standing
<1>6. y.pc = "category" => Cur(y) \in x.left
  BY <1>2, <1>3 DEF Cur
<1>7. /\ done \in {x.done, x.done \cup {e}}
      /\ \A d \in x.done \cup x.left : \A k \in Places(x.docs[d]) :
           Ready(x, d, k) => Kept(x, RawAt(x, d, k), product', variant')
      /\ e \in done => \A k \in Places(x.docs[e]) :
           Sole(x.docs, e, k) => Kept(x, RawAt(x, e, k), product', variant')
  BY <1>3
<1> HIDE DEF x, y, e
<1>8. \A raw : Kept(x, raw, product', variant') => Kept(y, raw, product', variant')
  BY <1>2 DEF Kept, Shop
<1>9. ASSUME NEW d \in y.done \cup y.left, NEW k \in Places(y.docs[d]), Ready(y, d, k)
      PROVE  Kept(y, RawAt(y, d, k), product', variant')
  <2>1. d \in x.done \cup x.left /\ k \in Places(x.docs[d]) /\ RawAt(y, d, k) = RawAt(x, d, k)
    BY <1>2, <1>3, <1>7, <1>9 DEF RawAt
  <2>2. d \in done
    <3>1. x.docs[d] \in ParsedDoc
      BY <1>4, <1>5, <2>1
    <3>2. k > 0 /\ k \in Nat
      BY <2>1, <3>1, PlacesAreNatural
    <3>3. ~(k <= 0)
      BY <3>2
    <3> QED BY <1>2, <1>9, <3>3 DEF Ready
  <2>3. Sole(x.docs, d, k)
    BY <1>2, <1>9 DEF Ready
  <2>4. CASE Ready(x, d, k)
    BY <2>1, <2>4, <1>7, <1>8
  <2>5. CASE ~Ready(x, d, k)
    <3>1. d = e
      BY <1>7, <2>2, <2>3, <2>5 DEF Ready
    <3> QED BY <3>1, <1>7, <1>8, <2>1, <2>2, <2>3
  <2> QED BY <2>4, <2>5
<1>10. y.done \cap y.left = {} /\ \A d \in y.done : y.docs[d] \in ParsedDoc
  BY <1>2, <1>3, <1>4, <1>5, <1>7
<1>11. Faithful(y, product', variant')
  BY <1>2, <1>9, <1>10 DEF Faithful
<1> QED BY <1>11 DEF y

\* A document that fails is not reported as imported; an import that starts has nothing
\* to keep.
LEMMA QuietFaithful ==
  ASSUME CatalogInv, ImportsOK', NEW i \in Importers, Faithful(imp[i], product, variant),
         Load(i) \/ DocFails(i) \/ Stop(i)
  PROVE  Sparing(i) /\ Faithful(imp'[i], product', variant')
<1>1. /\ UNCHANGED << product, variant >> /\ imp \in [Importers -> Import] /\ imp[i] \in Import
      /\ \E y : imp' = [imp EXCEPT ![i] = y]
  BY Facts DEF Load, DocFails, Stop
<1>2. Sparing(i)
  <2>1. Spares({})
    BY <1>1 DEF Spares
  <2>2. \A k \in Importers : k # i => imp'[k] = imp[k]
    BY <1>1
  <2> QED BY <2>1, <2>2, Unmoved
<1>3. CASE Stop(i)
  <2>1. imp'[i].pc = "idle"
    BY <1>1, <1>3 DEF Stop, IdleImport
  <2> QED BY <1>2, <2>1 DEF Faithful
<1>4. CASE Load(i)
  <2>1. \E docs, left : imp' = [imp EXCEPT ![i] = [IdleImport EXCEPT !.docs = docs, !.left = left,
                                 !.pc = IF left = {} THEN "end" ELSE "category"]]
    BY <1>4 DEF Load
  <2>2. PICK docs, left : imp' = [imp EXCEPT ![i] = [IdleImport EXCEPT !.docs = docs, !.left = left,
                                    !.pc = IF left = {} THEN "end" ELSE "category"]]
    BY <2>1
  <2>3. imp'[i] = [IdleImport EXCEPT !.docs = docs, !.left = left,
                                     !.pc = IF left = {} THEN "end" ELSE "category"]
    BY <1>1, <2>2
  <2> DEFINE y == imp'[i]
  <2>4. /\ y.done = {} /\ y.at = 0 /\ y.pc \in {"end", "category"}
    BY <2>3 DEF IdleImport
  <2>5. Standing(y)
    BY DEF ImportsOK
  <2> HIDE DEF y
  <2>6. ASSUME NEW d \in y.done \cup y.left, NEW k \in Places(y.docs[d]) PROVE ~Ready(y, d, k)
    <3>1. CASE y.pc = "end"
      BY <2>4, <3>1 DEF Ready, Step
    <3>2. CASE y.pc = "category"
      <4>1. y.docs[d] \in ParsedDoc
        BY <2>4, <2>5, <2>6, <3>2 DEF Standing, Step
      <4>2. k > 0 /\ k \in Nat
        BY <2>6, <4>1, PlacesAreNatural
      <4>3. ~(k <= 0)
        BY <4>2
      <4> QED BY <2>4, <4>3 DEF Ready
    <3> QED BY <2>4, <3>1, <3>2
  <2>7. Faithful(y, product', variant')
    BY <2>4, <2>6 DEF Faithful
  <2> QED BY <1>2, <2>7 DEF y
<1>5. CASE DocFails(i)
  <2>1. imp[i].pc \in Step /\ imp'[i] = NextDoc(i, imp[i].done, imp[i].failed \cup {DocAt(i)})
    BY <1>1, <1>5 DEF DocFails, Import
  <2>2. DocAt(i) \in imp[i].left
    BY <2>1, Facts, NextPlace
  <2>3. DocAt(i) \notin imp[i].done
    BY <2>1, <2>2 DEF Faithful, Step
  <2> DEFINE failed == imp[i].failed \cup {DocAt(i)}
             done == imp[i].done
  <2>4. /\ imp'[i] = NextDoc(i, done, failed) /\ DocAt(i) \notin done
        /\ done \in {imp[i].done, imp[i].done \cup {DocAt(i)}}
    BY <2>1, <2>3
  <2>5. \A d \in imp[i].done \cup imp[i].left : \A k \in Places(imp[i].docs[d]) :
          Ready(imp[i], d, k) => Kept(imp[i], RawAt(imp[i], d, k), product', variant')
    BY <1>1, <2>1 DEF Faithful, Step
  <2> HIDE DEF failed, done
  <2> QED BY <1>2, <2>1, <2>4, <2>5, NextFaithful
<1> QED BY <1>3, <1>4, <1>5

\* A variant is written as the feed has it, into a product of the shop.
LEMMA PuttingFaithful ==
  ASSUME CatalogInv, NEW i \in Importers, Faithful(imp[i], product, variant), PutKnown(i) \/ PutNew(i)
  PROVE  Sparing(i) /\ Faithful(imp'[i], product', variant')
<1>1. /\ imp[i].pc \in {"variant", "create"} /\ imp[i].pc \in Step /\ imp[i].pc # "idle"
      /\ Put(i) /\ product' = product
  BY DEF PutKnown, PutNew, Put, Step
<1>2. TablesOK /\ imp[i] \in Import /\ Standing(imp[i]) /\ ImportsOK
  BY Facts
<1>3. /\ DocAt(i) \in imp[i].left /\ DocAt(i) \in Docs /\ Doc(i) \in ParsedDoc
      /\ Place(i) \in Ahead(i) /\ Place(i) \in Nat /\ Place(i) > imp[i].at
      /\ (\A l \in Ahead(i) : l \in Nat /\ Place(i) <= l)
      /\ Wanted(i).id \in Variants /\ Wanted(i).sku \in Skus
  BY <1>1, <1>2, NextPlace
<1> DEFINE v == Wanted(i).id
           rec == [product |-> imp[i].product, sku |-> Wanted(i).sku, source |-> "MNYAMA_SHOP"]
           x == imp[i]
           y == imp'[i]
           on == [x EXCEPT !.at = Place(i), !.pc = "variant"]
           next == NextDoc(i, x.done \cup {DocAt(i)}, x.failed)
<1>4. {v} \in SUBSET (Products \cup Variants) /\ v \in Variants
  BY <1>3
<1>5. TouchedBut(i, {v})[i] = imp[i] /\ TouchedBut(i, {v}) \in [Importers -> Import]
  BY <1>2, <1>4, Touching
<1>6. /\ variant' = [variant EXCEPT ![v] = rec]
      /\ y = IF Ahead(i) = {Place(i)} THEN next ELSE on
      /\ \A k \in Importers : k # i => imp'[k] = TouchedBut(i, {v})[k]
  BY <1>1, <1>5 DEF Put
<1>7. rec \in VariantRow /\ rec \notin {None, Gone} /\ imp[i].product \in Products
  <2>1. imp[i].product \in Products
    BY <1>1, <1>2 DEF Standing, Import, OrNone
  <2>2. rec \in VariantRow
    BY <1>3, <2>1 DEF VariantRow, Source
  <2> QED BY <2>1, <2>2, CatalogNaming
<1>8. variant'[v] = rec /\ \A w \in Variants : w # v => variant'[w] = variant[w]
  BY <1>2, <1>4, <1>6 DEF TablesOK
<1>9. Sparing(i)
  <2>1. Spares({v})
    BY <1>1, <1>8 DEF Spares
  <2> QED BY <1>4, <1>6, <2>1 DEF Sparing
<1>10. Kept(x, Wanted(i), product', variant')
  <2>1. Shop(x, x.product, product')
    BY <1>1 DEF Faithful
  <2>2. Row(variant', v) /\ variant'[v].sku = Wanted(i).sku /\ variant'[v].source = "MNYAMA_SHOP"
        /\ variant'[v].product = x.product
    BY <1>7, <1>8 DEF Row
  <2> QED BY <2>1, <2>2 DEF Kept
<1>11. ASSUME NEW d \in x.done \cup x.left, NEW k \in Places(x.docs[d]), Ready(x, d, k)
       PROVE  Kept(x, RawAt(x, d, k), product', variant')
  <2>1. RawAt(x, d, k).id # v /\ RawAt(x, d, k).id \in Variants
    BY <1>1, <1>2, <1>11, WantedIsNew, DocumentsDone
  <2>2. variant'[RawAt(x, d, k).id] = variant[RawAt(x, d, k).id]
    BY <2>1, <1>8
  <2>3. Kept(x, RawAt(x, d, k), product, variant)
    BY <1>1, <1>11 DEF Faithful
  <2> QED BY <2>2, <2>3, <1>1, KeptOn
<1>12. /\ Wanted(i) = RawAt(x, DocAt(i), Place(i)) /\ Doc(i) = x.docs[DocAt(i)] /\ Cur(x) = DocAt(i)
       /\ DocAt(i) \notin x.done
  BY <1>1, <1>3 DEF Wanted, RawAt, Doc, DocAt, Cur, Faithful
<1>13. \A k \in Places(Doc(i)) : k \in Nat
  BY <1>3, PlacesAreNatural
<1>14. x.at \in Nat
  BY <1>2 DEF Import
<1>15. CASE Ahead(i) = {Place(i)}
  <2> DEFINE done == x.done \cup {DocAt(i)}
             failed == x.failed
  <2>1. y = NextDoc(i, done, failed) /\ done \in {x.done, x.done \cup {DocAt(i)}}
    BY <1>6, <1>15
  <2>2. ASSUME NEW k \in Places(Doc(i)), Sole(x.docs, DocAt(i), k)
        PROVE  Kept(x, RawAt(x, DocAt(i), k), product', variant')
    <3>1. CASE k > x.at
      <4>1. k \in Ahead(i)
        BY <3>1, <2>2 DEF Ahead
      <4> QED BY <4>1, <1>10, <1>12, <1>15
    <3>2. CASE ~(k > x.at)
      <4>1. k <= x.at
        BY <3>2, <1>13, <1>14, <2>2
      <4>2. Ready(x, DocAt(i), k)
        BY <4>1, <2>2, <1>1, <1>12 DEF Ready
      <4> QED BY <4>2, <1>3, <1>11, <1>12
    <3> QED BY <3>1, <3>2
  <2> HIDE DEF done, failed
  <2> QED BY <2>1, <2>2, <1>1, <1>9, <1>11, NextFaithful
<1>16. CASE Ahead(i) # {Place(i)}
  <2>1. y = on
    BY <1>6, <1>16
  <2>2. /\ y.docs = x.docs /\ y.left = x.left /\ y.done = x.done /\ y.at = Place(i) /\ y.pc = "variant"
        /\ y.product = x.product /\ y.touched = x.touched
    BY <1>2, <2>1 DEF Import
  <2>5. x.pc \in Step
    BY <1>1
  <2> HIDE DEF x, y, on, next, rec
  <2>3. \A raw : Kept(x, raw, product', variant') => Kept(y, raw, product', variant')
    BY <2>2 DEF Kept, Shop
  <2>4. ASSUME NEW d \in y.done \cup y.left, NEW k \in Places(y.docs[d]), Ready(y, d, k)
        PROVE  Kept(y, RawAt(y, d, k), product', variant')
    <3>1. d \in x.done \cup x.left /\ k \in Places(x.docs[d]) /\ RawAt(y, d, k) = RawAt(x, d, k) /\ Cur(y) = Cur(x)
      BY <2>2, <2>4 DEF RawAt, Cur
    <3>2. CASE Ready(x, d, k)
      BY <1>11, <2>3, <3>1, <3>2
    <3>3. CASE ~Ready(x, d, k)
      <4>1. d = DocAt(i) /\ k <= Place(i) /\ ~(k <= x.at)
        BY <1>12, <2>2, <2>4, <3>1, <3>3, <2>5 DEF Ready
      <4>2. k \in Ahead(i)
        BY <4>1, <3>1, <1>12, <1>13, <1>14 DEF Ahead, x
      <4>3. k = Place(i)
        BY <4>1, <4>2, <1>3
      <4> QED BY <4>1, <4>3, <1>10, <1>12, <2>3, <3>1
    <3> QED BY <3>2, <3>3
  <2>6. Shop(y, y.product, product')
    BY <1>1, <2>2 DEF Faithful, Shop, x
  <2>7. y.done \cap y.left = {} /\ \A d \in y.done : y.docs[d] \in ParsedDoc
    BY <1>1, <2>2 DEF Faithful, x
  <2>8. Faithful(y, product', variant')
    BY <2>4, <2>6, <2>7 DEF Faithful
  <2> QED BY <1>9, <2>8 DEF y
<1> QED BY <1>15, <1>16

\* Every step keeps what the imports have done.
LEMMA FaithfulStep ==
  ASSUME CatalogInv, FaithfulInv, [Next]_vars
  PROVE  FaithfulInv'
<1>1. CatalogInv' /\ ImportsOK'
  BY CatalogStep, SplitPrime
<1>2. ASSUME NEW i \in Importers, Sparing(i), Faithful(imp'[i], product', variant') PROVE FaithfulInv'
  <2>1. ASSUME NEW k \in Importers PROVE Faithful(imp'[k], product', variant')
    <3>1. CASE k = i
      BY <1>2, <3>1
    <3>2. CASE k # i
      BY <1>2, <3>2, Bystander DEF FaithfulInv
    <3> QED BY <3>1, <3>2
  <2> QED BY <2>1 DEF FaithfulInv
<1>3. ASSUME Sparing(None) PROVE FaithfulInv'
  <2>1. ASSUME NEW k \in Importers PROVE Faithful(imp'[k], product', variant')
    <3>1. k # None
      BY CatalogNaming
    <3> QED BY <1>3, <3>1, Bystander DEF FaithfulInv
  <2> QED BY <2>1 DEF FaithfulInv
<1>4. ASSUME NEW j \in Jobs, Ask(j) \/ Edit(j) PROVE FaithfulInv'
  BY <1>3, <1>4, EditSpares
<1>5. ASSUME NEW i \in Importers, Load(i) \/ ImportStep(i) \/ Stop(i) PROVE FaithfulInv'
  <2>1. Faithful(imp[i], product, variant)
    BY DEF FaithfulInv
  <2>2. CASE FindCategory(i) \/ MakeCategory(i) \/ FindProduct(i)
    BY <1>2, <2>1, <2>2, FindingFaithful
  <2>3. CASE MakeProduct(i) \/ PlaceRow(i)
    BY <1>2, <2>1, <2>3, PlacingFaithful
  <2>4. CASE PutKnown(i) \/ PutNew(i)
    BY <1>2, <2>1, <2>4, PuttingFaithful
  <2>5. CASE TakeSku(i)
    BY <1>2, <2>1, <2>5, TakingFaithful
  <2>6. CASE Load(i) \/ DocFails(i) \/ Stop(i)
    BY <1>1, <1>2, <2>1, <2>6, QuietFaithful
  <2> QED BY <1>5, <2>2, <2>3, <2>4, <2>5, <2>6 DEF ImportStep
<1>6. ASSUME NEW v \in Traded, UseVariant(v) PROVE FaithfulInv'
  <2>1. \A k \in Importers : k # None => imp'[k] = imp[k]
    BY <1>6 DEF UseVariant
  <2>2. Spares({})
    BY <1>6 DEF UseVariant, Spares
  <2> QED BY <1>3, <2>1, <2>2, Unmoved
<1>7. CASE UNCHANGED vars
  <2>1. \A k \in Importers : k # None => imp'[k] = imp[k]
    BY <1>7 DEF vars
  <2>2. Spares({})
    BY <1>7 DEF vars, Spares
  <2> QED BY <1>3, <2>1, <2>2, Unmoved
<1> QED BY <1>4, <1>5, <1>6, <1>7 DEF Next

\* What an import reports as imported is in place, whatever other imports and edits do
\* beside it, as far as they did not touch it and the feed does not contradict itself.
THEOREM ImportsAreKept == Spec => []ImportedIsThere
<1>1. Init => FaithfulInv
  BY DEF Init, FaithfulInv, Faithful, IdleImport
<1>2. CatalogInv /\ FaithfulInv /\ [Next]_vars => FaithfulInv'
  BY FaithfulStep
<1>3. FaithfulInv => ImportedIsThere
  <2> SUFFICES ASSUME FaithfulInv, NEW i \in Importers, imp[i].pc = "end",
                      NEW d \in imp[i].done, NEW k \in Places(imp[i].docs[d]), Sole(imp[i].docs, d, k)
               PROVE  LET raw == imp[i].docs[d].variants[k] IN
                      raw.id \in imp[i].touched \/ InPlace(i, raw)
    BY DEF ImportedIsThere
  <2>1. Kept(imp[i], RawAt(imp[i], d, k), product, variant)
    BY DEF FaithfulInv, Faithful, Ready
  <2> QED BY <2>1 DEF Kept, RawAt, Shop, InPlace
<1> QED BY <1>1, <1>2, <1>3, CatalogInductive, PTL DEF Spec

---------------------------------------------------------------------------
\* Importing again.

\* What the loaded documents say is so, and the import is in one of them.
LEMMA SyncedHere ==
  ASSUME CatalogInv, NEW i \in Importers, imp[i].pc \in Step, InSync(i)
  PROVE  /\ DocAt(i) \in Docs /\ Doc(i) \in ParsedDoc
         /\ Doc(i).title # None => \E c \in Rows(category) : category[c] = Doc(i).title
         /\ \E p \in Products : SyncedIn(p, DocAt(i), Doc(i))
         /\ \E p \in Products :
              variant[Wanted(i).id] = [product |-> p, sku |-> Wanted(i).sku, source |-> "MNYAMA_SHOP"]
              /\ SyncedIn(p, DocAt(i), Doc(i)) /\ Wanted(i).id \in Variants
<1>1. /\ DocAt(i) \in Docs /\ Doc(i) \in ParsedDoc /\ Place(i) \in Ahead(i) /\ Wanted(i).id \in Variants
  BY Facts, NextPlace
<1>2. Doc(i) = imp[i].docs[DocAt(i)] /\ Doc(i) # None
  BY <1>1, NoneIsNoDocument DEF Doc
<1>3. /\ Doc(i).title # None => \E c \in Rows(category) : category[c] = Doc(i).title
      /\ \E p \in Products : SyncedIn(p, DocAt(i), Doc(i))
  BY <1>1, <1>2 DEF InSync
<1>4. PICK p \in Products : SyncedIn(p, DocAt(i), Doc(i))
  BY <1>3
<1>5. Wanted(i) \in UsableIn(Doc(i))
  BY <1>1 DEF Wanted, UsableIn, Ahead
<1> QED BY <1>1, <1>3, <1>4, <1>5 DEF SyncedIn

\* In sync means the same while tables and documents are the same.
LEMMA SyncStays ==
  ASSUME NEW i \in Importers, InSync(i), UNCHANGED << category, product, variant >>, imp'[i].docs = imp[i].docs
  PROVE  InSync(i)'
BY DEF InSync, SyncedIn, Row, Rows, UsableIn

\* What a step of an import does that finds its documents in the tables.
Idempotent(i) ==
  /\ UNCHANGED << category, variant >> /\ Rows(product)' = Rows(product)
  /\ InSync(i)' /\ Current(i)'

\* A step that only reads, or gives a document up.
LEMMA QuietSync ==
  ASSUME NEW i \in Importers, InSync(i), UNCHANGED << category, product, variant >>, imp'[i].docs = imp[i].docs,
         imp'[i].pc \notin {"newCategory", "newProduct", "variant"}
  PROVE  Idempotent(i)
BY SyncStays DEF Idempotent, Current, Row, Rows

\* The row of the product is the one that names the document: the database lets no
\* other have its key.
LEMMA PlacingSync ==
  ASSUME CatalogInv, NEW i \in Importers, InSync(i), PlaceRow(i)
  PROVE  Idempotent(i)
<1>1. imp[i].pc \in Step /\ category' = category /\ variant' = variant /\ TablesOK /\ imp[i] \in Import
  BY Facts DEF PlaceRow, Step
<1>2. DocAt(i) \in Docs /\ Doc(i) \in ParsedDoc /\ \E p \in Products : SyncedIn(p, DocAt(i), Doc(i))
  BY <1>1, SyncedHere
<1>3. PICK p0 \in Products : SyncedIn(p0, DocAt(i), Doc(i))
  BY <1>2
<1> DEFINE p == IF Doc(i).product = None THEN imp[i].product ELSE Doc(i).product
           rec == [source |-> "MNYAMA_SHOP", category |-> imp[i].category, doc |-> DocAt(i)]
<1>4. /\ DocFree(DocAt(i), p) /\ product' = [product EXCEPT ![p] = rec]
      /\ imp' = [TouchedBut(i, {p}) EXCEPT ![i].product = p, ![i].pc = "variant"]
  BY DEF PlaceRow
<1>5. rec \notin {None, Gone} /\ rec.source = "MNYAMA_SHOP" /\ rec.doc = DocAt(i)
  <2>1. rec \in ProductRow
    BY <1>1, <1>2 DEF ProductRow, Import, Source, OrNone
  <2> QED BY <2>1, CatalogNaming
<1> HIDE DEF p, rec
<1>6. \A q \in Rows(product) : product[q].doc = DocAt(i) => q = p
  BY <1>2, <1>4, CatalogNaming DEF DocFree
<1>7. p0 = p /\ p \in Products
  BY <1>1, <1>3, <1>6 DEF SyncedIn, Rows, Row, TablesOK
<1>8. product'[p] = rec /\ (\A q \in Products : q # p => product'[q] = product[q])
      /\ DOMAIN product = Products /\ DOMAIN product' = Products
  BY <1>1, <1>4, <1>7 DEF TablesOK
<1>9. Row(product, p) /\ product[p].doc = DocAt(i)
  BY <1>3, <1>7 DEF SyncedIn
<1>10. Rows(product)' = Rows(product)
  BY <1>5, <1>8, <1>9 DEF Rows, Row
<1>11. ASSUME NEW q \in Products, NEW d, NEW doc, SyncedIn(q, d, doc) PROVE SyncedIn(q, d, doc)'
  BY <1>1, <1>5, <1>8, <1>9, <1>11 DEF SyncedIn, Row
<1>12. /\ imp'[i].docs = imp[i].docs /\ imp'[i].left = imp[i].left /\ imp'[i].product = p /\ imp'[i].pc = "variant"
  <2>1. {p} \in SUBSET (Products \cup Variants)
    BY <1>7
  <2>2. TouchedBut(i, {p})[i] = imp[i] /\ TouchedBut(i, {p}) \in [Importers -> Import]
    BY <2>1, Facts, Touching
  <2> QED BY <1>1, <1>4, <2>2 DEF Import
<1>13. InSync(i)'
  BY <1>1, <1>11, <1>12 DEF InSync, Rows, Row
<1>14. DocAt(i)' = DocAt(i) /\ Doc(i)' = Doc(i)
  BY <1>12 DEF DocAt, Doc
<1>15. SyncedIn(imp[i].product, DocAt(i), Doc(i))'
  <2>1. SyncedIn(p, DocAt(i), Doc(i))
    BY <1>3, <1>7
  <2> QED BY <2>1, <1>1, <1>5, <1>8, <1>12, <1>14 DEF SyncedIn, Row
<1>16. Current(i)'
  BY <1>12, <1>14, <1>15 DEF Current
<1> QED BY <1>1, <1>10, <1>13, <1>16 DEF Idempotent

\* The variant is there: its row is written as it is.
LEMMA PuttingSync ==
  ASSUME CatalogInv, NEW i \in Importers, InSync(i), Current(i), PutKnown(i)
  PROVE  Idempotent(i)
<1>1. imp[i].pc = "variant" /\ imp[i].pc \in Step /\ category' = category /\ product' = product
      /\ TablesOK /\ imp[i] \in Import /\ Put(i)
  BY Facts DEF PutKnown, Put, Step
<1>2. SyncedIn(imp[i].product, DocAt(i), Doc(i))
  BY <1>1 DEF Current
<1>3. /\ DocAt(i) \in Docs /\ Doc(i) \in ParsedDoc /\ Place(i) \in Ahead(i) /\ Wanted(i).id \in Variants
      /\ Place(i) \in Nat
  BY <1>1, Facts, NextPlace
<1> DEFINE v == Wanted(i).id
           rec == [product |-> imp[i].product, sku |-> Wanted(i).sku, source |-> "MNYAMA_SHOP"]
           on == [imp[i] EXCEPT !.at = Place(i), !.pc = "variant"]
           next == NextDoc(i, imp[i].done \cup {DocAt(i)}, imp[i].failed)
<1>4. variant[v] = rec
  <2>1. Wanted(i) \in UsableIn(Doc(i))
    BY <1>3 DEF Wanted, UsableIn, Ahead
  <2> QED BY <1>2, <2>1 DEF SyncedIn
<1>5. variant' = variant
  <2>1. variant' = [variant EXCEPT ![v] = rec]
    BY <1>1 DEF Put
  <2> HIDE DEF v, rec
  <2> QED BY <1>1, <1>4, <2>1 DEF TablesOK
<1>6. imp'[i] = next \/ imp'[i] = on
  <2>1. {v} \in SUBSET (Products \cup Variants)
    BY <1>3
  <2>2. TouchedBut(i, {v})[i] = imp[i] /\ TouchedBut(i, {v}) \in [Importers -> Import]
    BY <2>1, Facts, Touching
  <2> QED BY <1>1, <2>2 DEF Put
<1>7. CASE imp'[i] = next
  <2>1. imp'[i].docs = imp[i].docs /\ imp'[i].pc \in {"end", "category"}
    BY <1>1, <1>7 DEF NextDoc, Import
  <2> QED BY <1>1, <1>5, <2>1, QuietSync
<1>8. CASE imp'[i] = on
  <2>1. /\ imp'[i].docs = imp[i].docs /\ imp'[i].left = imp[i].left /\ imp'[i].pc = "variant"
        /\ imp'[i].product = imp[i].product
    BY <1>1, <1>8 DEF Import
  <2>2. DocAt(i)' = DocAt(i) /\ Doc(i)' = Doc(i)
    BY <2>1 DEF DocAt, Doc
  <2>3. SyncedIn(imp[i].product, DocAt(i), Doc(i))'
    BY <1>1, <1>2, <1>5, <2>1, <2>2 DEF SyncedIn, Row
  <2>4. Current(i)'
    BY <2>1, <2>2, <2>3 DEF Current
  <2>5. InSync(i)'
    BY <1>1, <1>5, <2>1, SyncStays
  <2> QED BY <1>1, <1>5, <2>4, <2>5 DEF Idempotent, Rows, Row
<1> QED BY <1>6, <1>7, <1>8

\* Every step of such an import.
LEMMA SyncStep ==
  ASSUME CatalogInv, NEW i \in Importers, imp[i].pc \in Step, InSync(i), Current(i), ImportStep(i)
  PROVE  Idempotent(i)
<1>1. TablesOK /\ imp[i] \in Import /\ imp \in [Importers -> Import]
  BY Facts
<1>2. /\ Doc(i) \in ParsedDoc
      /\ Doc(i).title # None => \E c \in Rows(category) : category[c] = Doc(i).title
  BY SyncedHere
<1>3. PICK p \in Products :
        variant[Wanted(i).id] = [product |-> p, sku |-> Wanted(i).sku, source |-> "MNYAMA_SHOP"]
        /\ SyncedIn(p, DocAt(i), Doc(i)) /\ Wanted(i).id \in Variants
  BY SyncedHere
<1>4. variant[Wanted(i).id] # None
  <2>1. Wanted(i).sku \in Skus
    BY Facts, NextPlace
  <2>2. variant[Wanted(i).id] \in VariantRow
    BY <1>3, <2>1 DEF VariantRow, Source
  <2> QED BY <2>2, CatalogNaming
<1>5. CASE FindCategory(i)
  <2>1. \/ \E c : imp' = [imp EXCEPT ![i].category = c, ![i].pc = "product"]
        \/ imp' = To(i, "product")
    BY <1>2, <1>5 DEF FindCategory
  <2>2. imp'[i].docs = imp[i].docs /\ imp'[i].pc = "product"
    <3>1. CASE \E c : imp' = [imp EXCEPT ![i].category = c, ![i].pc = "product"]
      <4>1. PICK c : imp' = [imp EXCEPT ![i].category = c, ![i].pc = "product"]
        BY <3>1
      <4> QED BY <1>1, <4>1 DEF Import
    <3>2. CASE imp' = To(i, "product")
      BY <1>1, <3>2 DEF To, Import
    <3> QED BY <2>1, <3>1, <3>2
  <2> QED BY <1>5, <2>2, QuietSync DEF FindCategory
<1>6. CASE FindProduct(i)
  <2>1. Row(variant, Doc(i).default) \/ Has(product, Doc(i).product)
    BY <1>3, CatalogNaming DEF SyncedIn, Has
  <2>2. imp'[i].docs = imp[i].docs /\ imp'[i].pc = "row" /\ UNCHANGED << category, product, variant >>
    BY <1>1, <1>6, <2>1 DEF FindProduct, Import
  <2> QED BY <2>2, QuietSync
<1>7. CASE DocFails(i)
  <2>1. imp'[i].docs = imp[i].docs /\ imp'[i].pc \in {"end", "category"} /\ UNCHANGED << category, product, variant >>
    BY <1>1, <1>7 DEF DocFails, NextDoc, Import
  <2> QED BY <2>1, QuietSync
<1>8. CASE MakeCategory(i) \/ MakeProduct(i) \/ PutNew(i) \/ TakeSku(i)
  BY <1>4, <1>8 DEF MakeCategory, MakeProduct, PutNew, TakeSku, Current
<1> QED BY <1>5, <1>6, <1>7, <1>8, PlacingSync, PuttingSync DEF ImportStep

\* Importing what is there changes nothing, for any feed: the import may be repeated.
THEOREM RepeatedImports == Spec => ImportIdempotent
<1>1. CatalogInv /\ [Next]_vars =>
        [\A i \in Importers : imp[i].pc \in Step /\ InSync(i) /\ Current(i) /\ ImportStep(i) => Idempotent(i)]_vars
  BY SyncStep
<1> QED BY <1>1, CatalogInductive, PTL DEF Spec, ImportIdempotent, Idempotent
================================================================================
