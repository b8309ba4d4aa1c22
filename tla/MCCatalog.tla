------------------------------- MODULE MCCatalog -------------------------------
(***************************************************************************)
(* Small instances of Catalog.  Document d1 names its product and has two  *)
(* variants, whose SKUs one feed exchanges; d2 names none, still has the   *)
(* old structure in one feed, and has an unusable variant in the other.    *)
(***************************************************************************)
EXTENDS Catalog, TLC

CONSTANTS c1, c2, p1, p2, p3, v1, v2, v3, v4, s1, s2, s3, n1, d1, d2

Raw(v, s) == [id |-> v, sku |-> s]
Plain == [named |-> TRUE, default |-> None, legacy |-> None, sku |-> s3, product |-> None,
          category |-> None, title |-> None, variants |-> << >>]
FirstDoc == [Plain EXCEPT !.default = v1, !.product = p1, !.category = c1, !.title = n1,
                          !.variants = << Raw(v1, s1), Raw(v2, s2) >>]
FeedA == (d1 :> FirstDoc @@ d2 :> [Plain EXCEPT !.legacy = v3])
FeedB == (d1 :> [FirstDoc EXCEPT !.variants = << Raw(v1, s2), Raw(v2, s1) >>]
          @@ d2 :> [Plain EXCEPT !.default = v3, !.variants = << Raw(None, s2), Raw(v3, s3) >>])
TwoFeeds == {FeedA, FeedB}

Ask0 == [op |-> "createVariant", admin |-> TRUE, source |-> None, doc |-> None, category |-> None,
         name |-> None, product |-> None, variant |-> None, sku |-> None, attempt |-> 1,
         nested |-> None, takes |-> {}]
EditRequests ==
  { [Ask0 EXCEPT !.op = "createCategory", !.name = n1],
    [Ask0 EXCEPT !.op = "updateCategory", !.category = c1, !.name = n1],
    [Ask0 EXCEPT !.op = "deleteCategory", !.category = c1],
    [Ask0 EXCEPT !.op = "createProduct", !.admin = FALSE, !.source = "MNYAMA_SHOP", !.category = c1,
                 !.nested = [sku |-> s3, source |-> "MNYAMA_SHOP"]],
    [Ask0 EXCEPT !.op = "createProduct", !.admin = FALSE, !.takes = {v2}],
    [Ask0 EXCEPT !.op = "updateProduct", !.product = p1, !.source = "CUSTOM", !.takes = {v3}],
    [Ask0 EXCEPT !.op = "deleteProduct", !.product = p1],
    [Ask0 EXCEPT !.product = p2, !.admin = FALSE, !.source = "MNYAMA_SHOP"],
    [Ask0 EXCEPT !.op = "updateVariant", !.variant = v1, !.sku = s2, !.product = p2],
    [Ask0 EXCEPT !.op = "deleteVariant", !.variant = v2] }

DeleteRequests ==
  { [Ask0 EXCEPT !.op = "createProduct"],
    [Ask0 EXCEPT !.product = p2],
    [Ask0 EXCEPT !.op = "deleteVariant", !.variant = v3],
    [Ask0 EXCEPT !.op = "deleteVariant", !.variant = v4] }

Generated == << s1, s2 >>
===============================================================================
