-------------------------------- MODULE Catalog --------------------------------
(***************************************************************************)
(* Categories, products and variants: the requests that edit them and the  *)
(* import of the Mnyama Shop catalog from Firestore.                       *)
(*                                                                         *)
(* No operation here holds a lock over what it has read.  A request checks *)
(* (Ask...) and writes in a later statement; the import finds and writes   *)
(* row by row.  What the database still refuses is in the guards of the    *)
(* writes: unique keys, foreign keys, and rows that are gone.  Whatever    *)
(* fails leaves behind what it has written before.                         *)
(*                                                                         *)
(* Names stand for category names up to case.  Prices are left out.        *)
(***************************************************************************)
EXTENDS Naturals, Sequences, FiniteSets

CONSTANTS
  Categories, Products, Variants,  \* ids that rows can have
  Names, Skus,
  Traded,           \* bound: the variants that may come into use
  Docs,             \* documents of the Firestore collection
  Feeds,            \* what the collection may hold when it is read
  Candidates,       \* the SKUs generated for a variant without one, in order
  Jobs, Requests,   \* handlers of edits, and what they may be asked
  Importers,        \* handlers of imports
  None,             \* a missing value, or a row that was never there
  Gone              \* a row that was deleted and whose id nobody uses again

Source == {"MNYAMA_SHOP", "CUSTOM"}
Op == {"createCategory", "updateCategory", "deleteCategory",
       "createProduct", "updateProduct", "deleteProduct",
       "createVariant", "updateVariant", "deleteVariant"}
OrNone(S) == S \cup {None}

\* What a document says of one variant, and of itself; None where the field is
\* missing or malformed.  legacy and sku are the fields of the old structure.
RawVariant == [id : OrNone(Variants), sku : OrNone(Skus)]
RawDoc == [named : BOOLEAN, default : OrNone(Variants), legacy : OrNone(Variants),
           sku : Skus, product : OrNone(Products), category : OrNone(Categories),
           title : OrNone(Names), variants : Seq(RawVariant)]

\* A body is passed on as it is: in a product's there may be variants, to create
\* (one stands for several) or to connect with the product.
Nested == [sku : Skus, source : Source]
Request == [op : Op, admin : BOOLEAN, source : OrNone(Source), doc : OrNone(Docs),
            category : OrNone(Categories), name : OrNone(Names),
            product : OrNone(Products), variant : OrNone(Variants),
            sku : OrNone(Skus), attempt : 1..Len(Candidates),
            nested : OrNone(Nested), takes : SUBSET Variants]

ProductRow == [source : Source, category : OrNone(Categories), doc : OrNone(Docs)]
VariantRow == [product : Products, sku : Skus, source : Source]

ASSUME CatalogNaming ==
  /\ None \notin Categories \cup Products \cup Variants \cup Names \cup Skus \cup Docs \cup Source \cup Importers
  /\ None \notin ProductRow \cup VariantRow \cup Request \cup Nested
  /\ Gone \notin Names \cup ProductRow \cup VariantRow \cup {None}
  /\ Candidates \in Seq(Skus) /\ Candidates # << >>
  /\ Requests \subseteq Request
  /\ Traded \subseteq Variants
  /\ Feeds \subseteq [Docs -> RawDoc]

VARIABLES
  category,   \* Category.name of every row
  product,    \* Product: source, category, mnyamaShopDocId
  variant,    \* ProductVariant: product, sku, source
  inUse,      \* variants that stock, purchases, sales or prices refer to
  job,        \* the request each handler has checked and not yet written
  imp         \* where each import stands

tables == << category, product, variant >>
vars == << category, product, variant, inUse, job, imp >>

Row(table, id) == table[id] \notin {None, Gone}
Rows(table) == {id \in DOMAIN table : Row(table, id)}
Has(table, id) == id # None /\ Row(table, id)

---------------------------------------------------------------------------
\* What a document means.

Usable(raw) == raw.id # None /\ raw.sku # None
Places(doc) == {k \in DOMAIN doc.variants : Usable(doc.variants[k])}
UsableIn(doc) == {doc.variants[k] : k \in Places(doc)}
Linked(doc) == doc.default # None
Mapped(doc) == doc.named /\ Linked(doc) /\ Places(doc) # {}
Parsed(doc) == [default |-> doc.default, product |-> doc.product, category |-> doc.category,
                title |-> doc.title, variants |-> doc.variants]

\* A document after the migration script, which found category c by its title.
Migrated(doc, c) ==
  IF (doc.default # None /\ doc.variants # << >>) \/ doc.legacy = None THEN doc
  ELSE [doc EXCEPT !.default = doc.legacy,
                   !.category = IF c = None THEN @ ELSE c,
                   !.variants = << [id |-> doc.legacy, sku |-> doc.sku] >>]

\* Ids that come from the feed: the import may create their rows again.
FedProducts == {f[d].product : f \in Feeds, d \in Docs}
FedVariants ==
  UNION {{f[d].legacy} \cup {f[d].variants[k].id : k \in DOMAIN f[d].variants} :
         f \in Feeds, d \in Docs}
Deleted(id, fed) == IF id \in fed THEN None ELSE Gone

---------------------------------------------------------------------------
\* What the database accepts.

SkuFree(sku, v) == \A w \in Rows(variant) \ {v} : variant[w].sku # sku
DocFree(d, p) == d # None => \A q \in Rows(product) \ {p} : product[q].doc # d
CategoryExists(c) == c # None => Row(category, c)
Removable(vs) == vs \cap inUse = {}
VariantsIn(p) == {v \in Rows(variant) : variant[v].product = p}

\* The writer of these ids is not import i: the other imports have seen them touched.
TouchedBut(i, ids) ==
  [k \in Importers |-> IF k = i \/ imp[k].pc = "idle" THEN imp[k]
                       ELSE [imp[k] EXCEPT !.touched = @ \cup ids]]
Touched(ids) == TouchedBut(None, ids)

IdleImport == [pc |-> "idle", docs |-> [d \in Docs |-> None], left |-> {},
               category |-> None, product |-> None, at |-> 0, done |-> {}, failed |-> {}, touched |-> {}]

Init ==
  /\ category = [c \in Categories |-> None]
  /\ product = [p \in Products |-> None]
  /\ variant = [v \in Variants |-> None]
  /\ inUse = {}
  /\ job = [j \in Jobs |-> None]
  /\ imp = [i \in Importers |-> IdleImport]

---------------------------------------------------------------------------
\* Edits: the checks of each operation.

NameFree(name, c) == \A k \in Rows(category) \ {c} : category[k] # name

ChecksCategory(r) ==
  CASE r.op = "createCategory" -> NameFree(r.name, None)
    [] r.op = "updateCategory" -> Has(category, r.category) /\ NameFree(r.name, r.category)
    [] r.op = "deleteCategory" -> /\ Has(category, r.category)
                                  /\ \A p \in Rows(product) : product[p].category # r.category

ChecksProduct(r) ==
  CASE r.op = "createProduct" -> CategoryExists(r.category)
    [] r.op = "updateProduct" -> Has(product, r.product) /\ CategoryExists(r.category)
    [] r.op = "deleteProduct" -> Has(product, r.product) /\ Removable(VariantsIn(r.product))

\* Mnyama Shop products own their variants: only an administrator adds to them.
ChecksNewVariant(r) ==
  /\ Has(product, r.product)
  /\ product[r.product].source = "MNYAMA_SHOP" => r.admin
  /\ r.sku # None => SkuFree(r.sku, None)

ChecksVariant(r) ==
  CASE r.op = "createVariant" -> ChecksNewVariant(r)
    [] r.op = "updateVariant" -> Has(variant, r.variant) /\ (r.sku # None => SkuFree(r.sku, r.variant))
    [] r.op = "deleteVariant" -> /\ Has(variant, r.variant)
                                 /\ Cardinality(VariantsIn(variant[r.variant].product)) > 1
                                 /\ Removable({r.variant})

\* authorize('SUPER_ADMIN', 'ADMIN') on every route but the two open ones.
Authorized(r) == r.admin \/ r.op \in {"createProduct", "createVariant"}

\* Provenance claimed by anybody else is dropped, at the top level of the body.
Unstripped(r) == r  \* mutant
Stripped(r) == IF r.admin THEN r ELSE [r EXCEPT !.source = None, !.doc = None]

Accept(j, r) ==
  /\ job[j] = None
  /\ Authorized(r)
  /\ job' = [job EXCEPT ![j] = Stripped(r)]
  /\ UNCHANGED << category, product, variant, inUse, imp >>

AskCategory(j, r) ==
  /\ r.op \in {"createCategory", "updateCategory", "deleteCategory"}
  /\ ChecksCategory(r)
  /\ Accept(j, r)

AskProduct(j, r) ==
  /\ r.op \in {"createProduct", "updateProduct", "deleteProduct"}
  /\ ChecksProduct(r)
  /\ Accept(j, r)

AskVariant(j, r) ==
  /\ r.op \in {"createVariant", "updateVariant", "deleteVariant"}
  /\ ChecksVariant(r)
  /\ Accept(j, r)

---------------------------------------------------------------------------
\* Edits: the writes.

Writes(j, op) ==
  /\ job[j] # None
  /\ job[j].op = op
  /\ job' = [job EXCEPT ![j] = None]
  /\ UNCHANGED inUse

CreateCategory(j) ==
  /\ Writes(j, "createCategory")
  /\ \E c \in Categories :
       /\ category[c] = None
       /\ category' = [category EXCEPT ![c] = job[j].name]
  /\ UNCHANGED << product, variant, imp >>

UpdateCategory(j) ==
  /\ Writes(j, "updateCategory")
  /\ Row(category, job[j].category)
  /\ category' = [category EXCEPT ![job[j].category] = job[j].name]
  /\ UNCHANGED << product, variant, imp >>

\* Product.categoryId is ON DELETE SET NULL.
DeleteCategory(j) ==
  LET c == job[j].category IN
  /\ Writes(j, "deleteCategory")
  /\ Row(category, c)
  /\ category' = [category EXCEPT ![c] = Gone]
  /\ product' = [p \in Products |->
                   IF Row(product, p) /\ product[p].category = c
                   THEN [product[p] EXCEPT !.category = None] ELSE product[p]]
  /\ UNCHANGED << variant, imp >>

Given(value, default) == IF value = None THEN default ELSE value

\* The variants in the body of product p, written by the same statement.
WriteVariants(r, p) ==
  LET moved == [v \in Variants |-> IF v \in r.takes THEN [variant[v] EXCEPT !.product = p] ELSE variant[v]] IN
  /\ r.takes \subseteq Rows(variant)
  /\ \/ r.nested = None /\ variant' = moved
     \/ /\ r.nested # None
        /\ SkuFree(r.nested.sku, None)
        /\ \E v \in Variants \ FedVariants :
             /\ variant[v] = None
             /\ variant' = [moved EXCEPT ![v] = [product |-> p, sku |-> r.nested.sku,
                                                 source |-> r.nested.source]]

CreateProduct(j) ==
  /\ Writes(j, "createProduct")
  /\ CategoryExists(job[j].category) /\ DocFree(job[j].doc, None)
  /\ \E p \in Products \ FedProducts :
       /\ product[p] = None
       /\ product' = [product EXCEPT ![p] = [source |-> Given(job[j].source, "CUSTOM"),
                                             category |-> job[j].category, doc |-> job[j].doc]]
       /\ WriteVariants(job[j], p)
  /\ imp' = Touched(job[j].takes)
  /\ UNCHANGED category

UpdateProduct(j) ==
  LET r == job[j]  p == job[j].product IN
  /\ Writes(j, "updateProduct")
  /\ Row(product, p) /\ CategoryExists(r.category) /\ DocFree(r.doc, p)
  /\ product' = [product EXCEPT ![p] = [source |-> Given(r.source, @.source),
                                        category |-> Given(r.category, @.category),
                                        doc |-> Given(r.doc, @.doc)]]
  /\ WriteVariants(r, p)
  /\ imp' = Touched({p} \cup r.takes)
  /\ UNCHANGED category

\* mutant: two statements instead of a transaction, of which the first is done
DeleteProductVariants(j) ==
  LET vs == VariantsIn(job[j].product) IN
  /\ Writes(j, "deleteProduct")
  /\ Removable(vs)
  /\ variant' = [v \in Variants |-> IF v \in vs THEN Deleted(v, FedVariants) ELSE variant[v]]
  /\ imp' = Touched(vs)
  /\ UNCHANGED << category, product >>

\* One transaction; a variant that came into use since the check makes it fail.
DeleteProduct(j) ==
  LET p == job[j].product  vs == VariantsIn(job[j].product) IN
  /\ Writes(j, "deleteProduct")
  /\ Row(product, p) /\ Removable(vs)
  /\ product' = [product EXCEPT ![p] = Deleted(p, FedProducts)]
  /\ variant' = [v \in Variants |-> IF v \in vs THEN Deleted(v, FedVariants) ELSE variant[v]]
  /\ imp' = Touched({p} \cup vs)
  /\ UNCHANGED category

\* The SKU of the next statement: the one given, or the next one generated.
SkuOf(r) == IF r.sku = None THEN Candidates[r.attempt] ELSE r.sku

CreateVariant(j) ==
  /\ Writes(j, "createVariant")
  /\ Row(product, job[j].product) /\ SkuFree(SkuOf(job[j]), None)
  /\ \E v \in Variants \ FedVariants :
       /\ variant[v] = None
       /\ variant' = [variant EXCEPT ![v] = [product |-> job[j].product, sku |-> SkuOf(job[j]),
                                             source |-> Given(job[j].source, "CUSTOM")]]
  /\ UNCHANGED << category, product, imp >>

NextCandidate(j) ==
  /\ job[j] # None
  /\ job[j].op = "createVariant" /\ job[j].sku = None
  /\ ~SkuFree(Candidates[job[j].attempt], None)
  /\ job[j].attempt < Len(Candidates)
  /\ job' = [job EXCEPT ![j].attempt = @ + 1]
  /\ UNCHANGED << category, product, variant, inUse, imp >>

\* A productId in the body moves the variant.
UpdateVariant(j) ==
  LET r == job[j]  v == job[j].variant IN
  /\ Writes(j, "updateVariant")
  /\ Row(variant, v) /\ (r.sku # None => SkuFree(r.sku, v))
  /\ r.product # None => Row(product, r.product)
  /\ variant' = [variant EXCEPT ![v] = [product |-> Given(r.product, @.product), sku |-> Given(r.sku, @.sku),
                                        source |-> Given(r.source, @.source)]]
  /\ imp' = Touched({v})
  /\ UNCHANGED << category, product >>

DeleteVariant(j) ==
  LET v == job[j].variant IN
  /\ Writes(j, "deleteVariant")
  /\ Row(variant, v) /\ Removable({v})
  /\ variant' = [variant EXCEPT ![v] = Deleted(v, FedVariants)]
  /\ imp' = Touched({v})
  /\ UNCHANGED << category, product >>

\* The statement violates a key, finds its row gone, or is never reached.
EditFails(j) ==
  /\ job[j] # None
  /\ job' = [job EXCEPT ![j] = None]
  /\ UNCHANGED << category, product, variant, inUse, imp >>

\* Stock, a purchase, a sale or a price refers to a variant from now on.
UseVariant(v) ==
  /\ Row(variant, v)
  /\ v \notin inUse
  /\ inUse' = inUse \cup {v}
  /\ UNCHANGED << category, product, variant, job, imp >>

---------------------------------------------------------------------------
\* The import.

\* The document at hand (the query returns them in a fixed order), and of its usable
\* variants the next one.
DocAt(i) == CHOOSE d \in imp[i].left : TRUE
Doc(i) == imp[i].docs[DocAt(i)]
Ahead(i) == {k \in Places(Doc(i)) : k > imp[i].at}
Place(i) == CHOOSE k \in Ahead(i) : \A l \in Ahead(i) : k <= l
Wanted(i) == Doc(i).variants[Place(i)]
To(i, pc) == [imp EXCEPT ![i].pc = pc]

\* mutant: the place in the list of variants is not reset
NextDocSamePlace(i, done, failed) ==
  [imp[i] EXCEPT !.left = @ \ {DocAt(i)}, !.category = None, !.product = None,
                 !.done = done, !.failed = failed,
                 !.pc = IF imp[i].left = {DocAt(i)} THEN "end" ELSE "category"]

\* The next document, or the answer with the documents that failed.
NextDoc(i, done, failed) ==
  [imp[i] EXCEPT !.left = @ \ {DocAt(i)}, !.category = None, !.product = None, !.at = 0,
                 !.done = done, !.failed = failed,
                 !.pc = IF imp[i].left = {DocAt(i)} THEN "end" ELSE "category"]

\* Loaded once; documents that do not map are skipped.
Load(i) ==
  /\ imp[i].pc = "idle"
  /\ \E feed \in Feeds, moved \in SUBSET Docs, c \in OrNone(Rows(category)) :
       /\ c # None => \A d \in moved : feed[d].title = category[c]
       /\ LET docs == [d \in Docs |-> IF d \in moved THEN Migrated(feed[d], c) ELSE feed[d]]
              left == {d \in Docs : Mapped(docs[d])} IN
          imp' = [imp EXCEPT ![i] = [IdleImport EXCEPT
                   !.docs = [d \in Docs |-> IF d \in left THEN Parsed(docs[d]) ELSE None],
                   !.left = left, !.pc = IF left = {} THEN "end" ELSE "category"]]
  /\ UNCHANGED << category, product, variant, inUse, job >>

FindCategory(i) ==
  LET doc == Doc(i)
      named == {c \in Rows(category) : category[c] = doc.title} IN
  /\ imp[i].pc = "category"
  /\ \/ /\ Has(category, doc.category)
        /\ imp' = [imp EXCEPT ![i].category = doc.category, ![i].pc = "product"]
     \/ /\ ~Has(category, doc.category) /\ doc.title = None
        /\ imp' = To(i, "product")
     \/ /\ ~Has(category, doc.category)
        /\ \E c \in named : imp' = [imp EXCEPT ![i].category = c, ![i].pc = "product"]
     \/ /\ ~Has(category, doc.category) /\ doc.title # None /\ named = {}
        /\ imp' = To(i, "newCategory")
  /\ UNCHANGED << category, product, variant, inUse, job >>

MakeCategory(i) ==
  /\ imp[i].pc = "newCategory"
  /\ \E c \in Categories :
       /\ category[c] = None
       /\ category' = [category EXCEPT ![c] = Doc(i).title]
       /\ imp' = [imp EXCEPT ![i].category = c, ![i].pc = "product"]
  /\ UNCHANGED << product, variant, inUse, job >>

FindProduct(i) ==
  LET doc == Doc(i) IN
  /\ imp[i].pc = "product"
  /\ IF Row(variant, doc.default)
     THEN imp' = [imp EXCEPT ![i].product = variant[doc.default].product, ![i].pc = "row"]
     ELSE IF Has(product, doc.product)
     THEN imp' = [imp EXCEPT ![i].product = doc.product, ![i].pc = "row"]
     ELSE imp' = To(i, "newProduct")
  /\ UNCHANGED << category, product, variant, inUse, job >>

MakeProduct(i) ==
  /\ imp[i].pc = "newProduct"
  /\ CategoryExists(imp[i].category)
  /\ \E p \in IF Doc(i).product = None THEN Products \ FedProducts ELSE {Doc(i).product} :
       /\ product[p] = None
       /\ product' = [product EXCEPT ![p] = [source |-> "CUSTOM", category |-> imp[i].category,
                                             doc |-> None]]
       /\ imp' = [TouchedBut(i, {p}) EXCEPT ![i].product = p, ![i].pc = "row"]
  /\ UNCHANGED << category, variant, inUse, job >>

\* The product the document names wins over the one its default variant is in.
PlaceRow(i) ==
  LET doc == Doc(i)
      p == IF doc.product = None THEN imp[i].product ELSE doc.product IN
  /\ imp[i].pc = "row"
  /\ Row(product, p) \/ p # imp[i].product
  /\ CategoryExists(imp[i].category) /\ DocFree(DocAt(i), p)
  /\ product' = [product EXCEPT ![p] = [source |-> "MNYAMA_SHOP", category |-> imp[i].category,
                                        doc |-> DocAt(i)]]
  /\ imp' = [TouchedBut(i, {p}) EXCEPT ![i].product = p, ![i].pc = "variant"]
  /\ UNCHANGED << category, variant, inUse, job >>

\* The row of the wanted variant is written; the document is done after its last one.
Put(i) ==
  LET raw == Wanted(i) IN
  /\ Row(product, imp[i].product)
  /\ SkuFree(raw.sku, raw.id)
  /\ variant' = [variant EXCEPT ![raw.id] = [product |-> imp[i].product, sku |-> raw.sku,
                                             source |-> "MNYAMA_SHOP"]]
  /\ imp' = [TouchedBut(i, {raw.id}) EXCEPT ![i] =
               IF Ahead(i) = {Place(i)} THEN NextDoc(i, @.done \cup {DocAt(i)}, @.failed)
               ELSE [@ EXCEPT !.at = Place(i), !.pc = "variant"]]
  /\ UNCHANGED << category, product, inUse, job >>

PutKnown(i) ==
  /\ imp[i].pc = "variant"
  /\ Row(variant, Wanted(i).id)
  /\ Put(i)

PutNew(i) ==
  /\ imp[i].pc \in {"variant", "create"}
  /\ variant[Wanted(i).id] = None
  /\ Put(i)

\* mutant: the variant is only looked up by its SKU
TakeAnySku(i) ==
  /\ imp[i].pc = "variant"
  /\ \E w \in Rows(variant) :
       /\ variant[w].sku = Wanted(i).sku
       /\ Removable({w})
       /\ variant' = [variant EXCEPT ![w] = Deleted(w, FedVariants)]
       /\ imp' = [TouchedBut(i, {w}) EXCEPT ![i].pc = "create"]
  /\ UNCHANGED << category, product, inUse, job >>

\* Another variant has the SKU: it is deleted by a statement of its own.
TakeSku(i) ==
  /\ imp[i].pc = "variant"
  /\ variant[Wanted(i).id] = None
  /\ \E w \in Rows(variant) :
       /\ variant[w].sku = Wanted(i).sku
       /\ Removable({w})
       /\ variant' = [variant EXCEPT ![w] = Deleted(w, FedVariants)]
       /\ imp' = [TouchedBut(i, {w}) EXCEPT ![i].pc = "create"]
  /\ UNCHANGED << category, product, inUse, job >>

\* mutant: the document is tried again
DocRetried(i) ==
  /\ imp[i].pc \notin {"idle", "end"}
  /\ imp' = [imp EXCEPT ![i].pc = "category", ![i].at = 0]
  /\ UNCHANGED << category, product, variant, inUse, job >>

\* mutant: the failed document is reported as imported
DocFailsUnnoticed(i) ==
  /\ imp[i].pc \notin {"idle", "end"}
  /\ imp' = [imp EXCEPT ![i] = NextDoc(i, @.done \cup {DocAt(i)}, @.failed)]
  /\ UNCHANGED << category, product, variant, inUse, job >>

\* An error is caught for its document, and the import goes on with the next.
DocFails(i) ==
  /\ imp[i].pc \notin {"idle", "end"}
  /\ imp' = [imp EXCEPT ![i] = NextDoc(i, @.done, @.failed \cup {DocAt(i)})]
  /\ UNCHANGED << category, product, variant, inUse, job >>

\* The answer is sent, or the process stops before it is.
Stop(i) ==
  /\ imp[i].pc # "idle"
  /\ imp' = [imp EXCEPT ![i] = IdleImport]
  /\ UNCHANGED << category, product, variant, inUse, job >>

ImportStep(i) ==
  \/ FindCategory(i) \/ MakeCategory(i) \/ FindProduct(i) \/ MakeProduct(i)
  \/ PlaceRow(i) \/ PutKnown(i) \/ TakeSku(i) \/ PutNew(i) \/ DocFails(i)

---------------------------------------------------------------------------
Ask(j) == \E r \in Requests : AskCategory(j, r) \/ AskProduct(j, r) \/ AskVariant(j, r)
Edit(j) ==
  \/ CreateCategory(j) \/ UpdateCategory(j) \/ DeleteCategory(j)
  \/ CreateProduct(j) \/ UpdateProduct(j) \/ DeleteProduct(j)
  \/ CreateVariant(j) \/ NextCandidate(j) \/ UpdateVariant(j) \/ DeleteVariant(j)
  \/ EditFails(j)

Next ==
  \/ \E j \in Jobs : Ask(j) \/ Edit(j)
  \/ \E i \in Importers : Load(i) \/ ImportStep(i) \/ Stop(i)
  \/ \E v \in Traded : UseVariant(v)

Spec == Init /\ [][Next]_vars
FairSpec == Spec /\ \A i \in Importers : WF_vars(ImportStep(i))
---------------------------------------------------------------------------
Step == {"category", "newCategory", "product", "newProduct", "row", "variant", "create"}
ParsedDoc == {doc \in [default : Variants, product : OrNone(Products), category : OrNone(Categories),
                       title : OrNone(Names), variants : Seq(RawVariant)] : Places(doc) # {}}
ASSUME NoneIsNoDocument == None \notin ParsedDoc
Import == [pc : Step \cup {"idle", "end"}, docs : [Docs -> OrNone(ParsedDoc)],
           left : SUBSET Docs, category : OrNone(Categories), product : OrNone(Products), at : Nat,
           done : SUBSET Docs, failed : SUBSET Docs, touched : SUBSET (Products \cup Variants)]

TypeOK ==
  /\ category \in [Categories -> Names \cup {None, Gone}]
  /\ product \in [Products -> ProductRow \cup {None, Gone}]
  /\ variant \in [Variants -> VariantRow \cup {None, Gone}]
  /\ inUse \subseteq Variants
  /\ job \in [Jobs -> OrNone(Request)]
  /\ imp \in [Importers -> Import]
  /\ \A i \in Importers : imp[i].pc \in Step =>
       imp[i].left # {} /\ (\A d \in imp[i].left : imp[i].docs[d] \in ParsedDoc) /\ Ahead(i) # {}

\* No other usable variant of the loaded documents has the id or the SKU of this one.
Sole(docs, d, k) ==
  \A e \in {e \in Docs : docs[e] # None} : \A l \in Places(docs[e]) :
    docs[e].variants[l].id = docs[d].variants[k].id \/ docs[e].variants[l].sku = docs[d].variants[k].sku
      => e = d /\ l = k

\* An import that reports a document as imported (firebase-catalog-seed.service.ts:
\* seedProductsFromFirebase) has every usable variant of it in place, with the
\* SKU of the feed and under a synced product, unless a later edit touched it or
\* the documents contradict each other: neither the takeover of SKUs nor the
\* documents after it undo what it did.
InPlace(i, raw) ==
  /\ Row(variant, raw.id)
  /\ variant[raw.id].sku = raw.sku /\ variant[raw.id].source = "MNYAMA_SHOP"
  /\ product[variant[raw.id].product].source = "MNYAMA_SHOP"
     \/ variant[raw.id].product \in imp[i].touched
ImportedIsThere ==
  \A i \in Importers : imp[i].pc = "end" =>
    \A d \in imp[i].done : \A k \in Places(imp[i].docs[d]) :
      LET raw == imp[i].docs[d].variants[k] IN
      Sole(imp[i].docs, d, k) => raw.id \in imp[i].touched \/ InPlace(i, raw)

\* The database says what the loaded documents say.
SyncedIn(p, d, doc) ==
  /\ Row(product, p) /\ product[p].source = "MNYAMA_SHOP" /\ product[p].doc = d
  /\ doc.product = p \/ (doc.product = None /\ Row(variant, doc.default)
                                            /\ variant[doc.default].product = p)
  /\ \A raw \in UsableIn(doc) :
       variant[raw.id] = [product |-> p, sku |-> raw.sku, source |-> "MNYAMA_SHOP"]
InSync(i) ==
  \A d \in Docs :
    LET doc == imp[i].docs[d] IN doc # None =>
    /\ doc.title # None => \E c \in Rows(category) : category[c] = doc.title
    /\ \E p \in Products : SyncedIn(p, d, doc)
\* What the import has found does not predate that.
Current(i) ==
  /\ imp[i].pc \notin {"newCategory", "newProduct"}
  /\ imp[i].pc = "variant" => SyncedIn(imp[i].product, DocAt(i), Doc(i))

\* Importing what is already there creates, moves, renames and deletes nothing, and
\* leaves it as it is to the end: the import can be repeated after a partial failure
\* (seed.ts: "always seeded (cheap, idempotent ...)").
ImportIdempotent ==
  [][\A i \in Importers :
       imp[i].pc \in Step /\ InSync(i) /\ Current(i) /\ ImportStep(i) =>
         /\ UNCHANGED << category, variant >> /\ Rows(product)' = Rows(product)
         /\ InSync(i)' /\ Current(i)']_vars

\* What an edit that was checked may take for granted, and what the next step of an import.
Asked(j) ==
  LET r == job[j] IN
  r # None =>
    /\ ~r.admin => r.source = None /\ r.op \in {"createProduct", "createVariant"}
    /\ r.op \in {"updateCategory", "deleteCategory"} => r.category # None
    /\ r.op \in {"updateProduct", "deleteProduct", "createVariant"} => r.product # None
    /\ r.op \in {"updateVariant", "deleteVariant"} => r.variant # None
Found(i) ==
  /\ imp[i].pc = "newCategory" => Doc(i).title # None
  /\ imp[i].pc \in {"row", "variant", "create"} => imp[i].product # None
CatalogInv == TypeOK /\ (\A j \in Jobs : Asked(j)) /\ (\A i \in Importers : Found(i))

\* Provenance is claimed by administrators and the import only (products.controller.ts:
\* stripProvenanceFieldsUnlessAdmin): nobody else makes a product one of the Mnyama
\* Shop, or a variant that exists, or one added to a product that exists.  What the
\* stripping leaves is the claim of a new variant nested in the body of a new product.
Synced(table) == {id \in Rows(table) : table[id].source = "MNYAMA_SHOP"}
NestedInNew ==
  /\ Synced(product)' \subseteq Synced(product)
  /\ \A v \in Synced(variant)' \ Synced(variant) :
       v \notin Rows(variant) /\ variant'[v].product \notin Rows(product)
ProvenanceFromAdmins ==
  [][~(Synced(product)' \subseteq Synced(product) /\ Synced(variant)' \subseteq Synced(variant))
      => \/ \E i \in Importers : imp[i].pc \in {"row", "variant", "create"} /\ imp'[i] # imp[i]
         \/ \E j \in Jobs : /\ job[j] # None /\ job'[j] = None
                            /\ job[j].admin \/ (job[j].op = "createProduct" /\ NestedInNew)]_vars

\* Deleting spares what is in use and is never half done: a product goes with all
\* its variants or not at all (products.service.ts: "nothing is deleted"), also
\* when a variant comes into use, or joins or leaves the product, after the check.
DeletionIsWhole ==
  [][LET lost == Rows(variant) \ Rows(variant)' IN
     /\ lost \cap inUse = {}
     /\ \A p \in Rows(product) \ Rows(product)' : VariantsIn(p) \subseteq lost
     /\ \A j \in Jobs : job[j] # None /\ job[j].op = "deleteProduct" /\ lost # {} /\ job'[j] = None
          => lost = VariantsIn(job[j].product) /\ job[j].product \notin Rows(product)']_vars

\* Every import ends, whatever fails on the way: an error of one document does not
\* keep the others from being tried (seedProductsFromFirebase: catch).
ImportEnds == \A i \in Importers : imp[i].pc \in Step ~> imp[i].pc \notin Step

\* 'Cannot delete the last variant for a product' (products.service.ts:373).
LastVariantStays ==
  [][\A j \in Jobs : job[j] # None /\ job[j].op = "deleteVariant" /\ job'[j] = None =>
       \A p \in Products : VariantsIn(p) # {} => VariantsIn(p)' # {}]_vars
===============================================================================
