------------------------------- MODULE MCReports -------------------------------
\* Two shops and variants; two sales, a taxed one that is refunded and one that needs the
\* purchase and has its total given; an expense dated on the first day and a funding.
EXTENDS Reports

W(kind, shop, variant, units, price, discount, method, of) ==
  [kind |-> kind, shop |-> shop, variant |-> variant, units |-> units, price |-> price,
   discount |-> discount, tax |-> 0, given |-> FALSE, total |-> 0,
   method |-> method, category |-> "rent", date |-> 0, of |-> of]

MCWhat ==
  [s1 |-> [W("SALE", "a", "x", 2, 2, 1, "CASH", "s1") EXCEPT !.tax = 2],
   s2 |-> [W("SALE", "b", "y", 2, 1, 0, "MOBILE", "s2") EXCEPT !.given = TRUE, !.total = 3],
   r1 |-> W("REFUND", "a", "x", 0, 0, 0, "CASH", "s1"),
   e1 |-> W("EXPENSE", "a", "x", 0, 1, 0, "CASH", "s1"),
   p1 |-> W("PURCHASE", "b", "y", 1, 3, 0, "CASH", "s1"),
   f1 |-> W("FUNDING", "a", "x", 0, 5, 0, "CASH", "s1")]
MCWrites == DOMAIN MCWhat

B(from, to, shops, groupBy, include, methods, categories, points) ==
  [from |-> from, to |-> to, shops |-> shops, groupBy |-> groupBy, include |-> include,
   methods |-> methods, categories |-> categories, variants |-> {}, by |-> "units",
   points |-> points, top |-> 1, moves |-> 1]

\* All shops by day; one shop on the first day, without periods; and a period upside down.
MCBodies ==
  {B(0, 1, {}, "DAY", {"byShop", "byPaymentMethod", "byCategory", "timeline"}, {}, {}, 1),
   B(0, 0, {"a"}, "SHOP", {"byCategory", "byPaymentMethod", "timeline", "topProducts",
     "inventorySnapshot", "productMovements", "sales", "refunds", "expenses", "purchases",
     "funding"}, {"CASH"}, {"fuel"}, 1),
   B(1, 0, {}, "NONE", {}, {}, {}, 1)}

MCOpening == [a |-> [x |-> 2, y |-> 0], b |-> [x |-> 0, y |-> 1]]
MCPeriodLength == [DAY |-> 1, WEEK |-> 2, MONTH |-> 4]
===============================================================================
