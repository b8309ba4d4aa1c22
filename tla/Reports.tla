-------------------------------- MODULE Reports --------------------------------
(***************************************************************************)
(* The money tables and their two readings: the finance summaries, which   *)
(* add up cash flow entries, and the business report, which adds up sales, *)
(* expenses, purchases and entries by many queries in a row.               *)
(*                                                                         *)
(* A write is one transaction.  Its rows carry the time at which they were *)
(* inserted, which is before the commit makes them visible, and the cash   *)
(* flow entry is inserted after the row it refers to.  A report reads each *)
(* table by statements of its own while other transactions commit.         *)
(*                                                                         *)
(* A row is named by the write that inserted it.  A day, a week and a month*)
(* are blocks of instants; cost prices, receipts and wording are left out. *)
(***************************************************************************)
EXTENDS Integers, Sequences, FiniteSets, FiniteSetsExt, Functions, TLC

CONSTANTS
  Shops, Variants, Methods, Categories,
  Writes, What,     \* requests that write, and what each of them writes
  Bodies,           \* report requests
  Allowed,          \* the shops the actor of a report may see
  Opening,          \* the stock at the beginning
  PeriodLength,     \* of a DAY, a WEEK and a MONTH
  ListLimit,        \* rows of a list of transactions
  MaxRange, MaxPoints, MaxTop, MaxMoves,  \* limits of a request
  MaxTime,          \* bound of the clock
  MaxOpen,          \* bound of the transactions that are open at a time
  MaxCommits,       \* bound of the writes that commit
  MaxDuring,        \* bound of the writes that commit while a report is built
  TicksInReport     \* bound: whether the clock moves while a report is built, which does not read it

Kind == {"SALE", "REFUND", "EXPENSE", "PURCHASE", "FUNDING"}
Grouping == {"DAY", "WEEK", "MONTH", "SHOP", "NONE"}
Section == {"summary", "byPaymentMethod", "byShop", "byCategory", "timeline", "topProducts",
            "inventorySnapshot", "productMovements", "sales", "refunds", "expenses",
            "purchases", "funding"}
Time == 0..MaxTime

\* A caller may give the total of a sale; the rest of it then explains nothing.
Write == [kind : Kind, shop : Shops, variant : Variants, units : Nat, price : Nat, discount : Nat,
          tax : Nat, given : BOOLEAN, total : Nat,
          method : Methods, category : Categories, date : Time, of : Writes]
Body == [from : Time, to : Time, shops : SUBSET Shops, groupBy : Grouping, include : SUBSET Section,
         methods : SUBSET Methods, categories : SUBSET Categories, variants : SUBSET Variants,
         by : {"units", "revenue"}, points : Nat, top : Nat, moves : Nat]

ASSUME ReportsBounds ==
  /\ IsFiniteSet(Shops) /\ IsFiniteSet(Variants) /\ IsFiniteSet(Writes)
  /\ What \in [Writes -> Write]
  /\ \A w \in Writes : What[w].kind = "REFUND" =>
       What[What[w].of].kind = "SALE" /\ What[w].shop = What[What[w].of].shop
  /\ Bodies \subseteq Body /\ Allowed \subseteq Shops
  /\ Opening \in [Shops -> [Variants -> Nat]]
  /\ PeriodLength \in [{"DAY", "WEEK", "MONTH"} -> Nat \ {0}]
  /\ {ListLimit, MaxRange, MaxPoints, MaxTop, MaxMoves, MaxTime, MaxOpen, MaxCommits, MaxDuring} \subseteq Nat
  /\ TicksInReport \in BOOLEAN

VARIABLES
  now,
  tx,       \* each write: idle, open (with the instants it has seen), or done with its timestamps
  stock,    \* Inventory.quantity
  report    \* the report that is being built: its request and what it has read

vars == << now, tx, stock, report >>

Idle == [pc |-> "idle", seen |-> {}, at |-> 0, entryAt |-> 0]
Nothing == [k \in Kind |-> 0]
NoReport == [pc |-> "idle", request |-> << >>, got |-> << >>, during |-> Nothing, commits |-> 0]

Init ==
  /\ now = 0
  /\ tx = [w \in Writes |-> Idle]
  /\ stock = Opening
  /\ report = NoReport

---------------------------------------------------------------------------
\* The rows.

Done(kind) == {w \in Writes : What[w].kind = kind /\ tx[w].pc = "done"}
IsRefunded(s) == \E w \in Done("REFUND") : What[w].of = s

Subtotal(s) == What[s].units * What[s].price
Total(s) == IF What[s].given THEN What[s].total ELSE Subtotal(s) - What[s].discount + What[s].tax
Amount(w) ==
  CASE What[w].kind = "SALE" -> Total(w)
    [] What[w].kind = "REFUND" -> Total(What[w].of)
    [] What[w].kind = "PURCHASE" -> Subtotal(w)
    [] OTHER -> What[w].price
\* What the total of a sale adds to its items, or takes off.
Beyond(s) == Total(s) - Subtotal(s)
SumOf(S) == SumFunction([w \in S |-> Amount(w)])
Size(w) == IF Amount(w) < 0 THEN 0 - Amount(w) ELSE Amount(w)
Totals(S) == [amount |-> SumOf(S), count |-> Cardinality(S)]

\* The direction every service records with the category.
RefundGoesIn(kind) == IF kind \in {"SALE", "REFUND", "FUNDING"} THEN "IN" ELSE "OUT"  \* mutant
Direction(kind) == IF kind \in {"SALE", "FUNDING"} THEN "IN" ELSE "OUT"

Committed == Cardinality({w \in Writes : tx[w].pc = "done"})

---------------------------------------------------------------------------
\* The writes.

\* createSale needs the stock; refundSale needs a completed sale.
Begin(w) ==
  /\ tx[w].pc = "idle" /\ Cardinality({x \in Writes : tx[x].pc = "open"}) < MaxOpen
  /\ What[w].kind = "REFUND" => What[w].of \in Done("SALE") /\ ~IsRefunded(What[w].of)
  /\ tx' = [tx EXCEPT ![w] = [Idle EXCEPT !.pc = "open", !.seen = {now}]]
  /\ UNCHANGED << now, stock, report >>

Moves(w) ==
  CASE What[w].kind = "SALE" -> -What[w].units
    [] What[w].kind = "REFUND" -> What[What[w].of].units
    [] What[w].kind = "PURCHASE" -> What[w].units
    [] OTHER -> 0
Moved(w) == IF What[w].kind = "REFUND" THEN What[What[w].of].variant ELSE What[w].variant

\* mutant: the entry of an expense carries the date of the expense
CommitBackdated(w) ==
  /\ tx[w].pc = "open" /\ Committed < MaxCommits /\ report.commits < MaxDuring
  /\ stock[What[w].shop][Moved(w)] + Moves(w) >= 0
  /\ \E at, entryAt \in tx[w].seen :
       tx' = [tx EXCEPT ![w].pc = "done", ![w].seen = {}, ![w].at = at,
                        ![w].entryAt = IF What[w].kind = "EXPENSE" THEN What[w].date ELSE entryAt]
  /\ stock' = [stock EXCEPT ![What[w].shop][Moved(w)] = @ + Moves(w)]
  /\ report' = IF report.pc # "idle"
               THEN [report EXCEPT !.during[What[w].kind] = @ + Size(w), !.commits = @ + 1]
               ELSE report
  /\ UNCHANGED now

\* mutant: a sale of more than there is
CommitUncovered(w) ==
  /\ tx[w].pc = "open" /\ Committed < MaxCommits /\ report.commits < MaxDuring
  /\ tx' = [tx EXCEPT ![w].pc = "done", ![w].seen = {}, ![w].at = now, ![w].entryAt = now]
  /\ stock' = [stock EXCEPT ![What[w].shop][Moved(w)] = @ + Moves(w)]
  /\ report' = IF report.pc # "idle"
               THEN [report EXCEPT !.during[What[w].kind] = @ + Size(w), !.commits = @ + 1]
               ELSE report
  /\ UNCHANGED now

\* The row, the stock it moves and, last, the entry: visible at once.
Commit(w) ==
  /\ tx[w].pc = "open" /\ Committed < MaxCommits /\ report.commits < MaxDuring
  /\ stock[What[w].shop][Moved(w)] + Moves(w) >= 0
  /\ \E at, entryAt \in tx[w].seen :
       /\ What[w].kind = "FUNDING" => entryAt = at
       /\ tx' = [tx EXCEPT ![w].pc = "done", ![w].seen = {}, ![w].at = at, ![w].entryAt = entryAt]
  /\ stock' = [stock EXCEPT ![What[w].shop][Moved(w)] = @ + Moves(w)]
  /\ report' = IF report.pc # "idle"
               THEN [report EXCEPT !.during[What[w].kind] = @ + Size(w), !.commits = @ + 1]
               ELSE report
  /\ UNCHANGED now

Rollback(w) ==
  /\ tx[w].pc = "open"
  /\ tx' = [tx EXCEPT ![w] = Idle]
  /\ UNCHANGED << now, stock, report >>

\* The clock shows another instant, which may be an earlier one: clocks are set back.
Tick ==
  /\ report.pc = "idle" \/ TicksInReport
  /\ \E t \in Time \ {now} :
       /\ now' = t
       /\ tx' = [w \in Writes |-> IF tx[w].pc = "open" THEN [tx[w] EXCEPT !.seen = @ \cup {t}] ELSE tx[w]]
  /\ UNCHANGED << stock, report >>

---------------------------------------------------------------------------
\* What a request selects.

Dated(t, r) == r.from <= t /\ t <= r.to
In(S, r) == {w \in S : What[w].shop \in r.shops}

SoldOrRefunded(r) == {s \in In(Done("SALE"), r) : Dated(tx[s].at, r)}
Sold(r) == {s \in In(Done("SALE"), r) : Dated(tx[s].at, r) /\ ~IsRefunded(s)}
Spent(r) == {e \in In(Done("EXPENSE"), r) : Dated(What[e].date, r)}
Bought(r) == {p \in In(Done("PURCHASE"), r) : Dated(tx[p].at, r)}
Entries(kind, r) == {w \in In(Done(kind), r) : Dated(tx[w].entryAt, r)}
Units(shops, v) == SumFunction([s \in shops |-> stock[s][v]])

\* The rows a list of transactions shows: the newest ones, up to a limit.
Newest(S, at(_), limit) ==
  CHOOSE T \in SUBSET S :
    /\ Cardinality(T) = Min({limit, Cardinality(S)})
    /\ \A w \in T, x \in S \ T : at(w) >= at(x)

At(w) == tx[w].at
EntryAt(w) == tx[w].entryAt
DateOf(w) == What[w].date

---------------------------------------------------------------------------
\* The finance summaries: one query over the entries, one over the stock.

LedgerSum(kind, r) == SumOf(Entries(kind, r))

FinanceSummary(r) ==
  [totalRevenue |-> LedgerSum("SALE", r), totalExpenses |-> LedgerSum("EXPENSE", r),
   totalPurchases |-> LedgerSum("PURCHASE", r), totalRefunds |-> LedgerSum("REFUND", r),
   netEstimate |-> LedgerSum("SALE", r) - LedgerSum("EXPENSE", r)
                     - LedgerSum("PURCHASE", r) - LedgerSum("REFUND", r)]

\* getSummary of one shop splits the same entries by direction and by category.
OfDirection(dir, r) == UNION {Entries(kind, r) : kind \in {k \in Kind : Direction(k) = dir}}
ShopSummary(shop, r) ==
  LET here == [r EXCEPT !.shops = {shop}] IN
  [totalIn |-> SumOf(OfDirection("IN", here)), totalOut |-> SumOf(OfDirection("OUT", here)),
   net |-> SumOf(OfDirection("IN", here)) - SumOf(OfDirection("OUT", here))]

StockSummary(shops, threshold) ==
  [totalUnits |-> SumFunction([v \in Variants |-> Units(shops, v)]),
   lowStockCount |-> Cardinality({v \in Variants : Units(shops, v) <= threshold})]

\* getFinanceSummary: the stock is that of every shop, whichever were selected.
Finance(r, threshold) == FinanceSummary(r) @@ StockSummary(Shops, threshold)

---------------------------------------------------------------------------
\* The business report.

Accepts(body) ==
  /\ body.from <= body.to /\ body.to - body.from <= MaxRange
  /\ body.points \in 1..MaxPoints /\ body.top \in 1..MaxTop /\ body.moves \in 1..MaxMoves

\* No shops asked for means all the actor may see.
ReportShops(asked) == IF asked = {} THEN Allowed ELSE asked

\* The queries, in stages: those of one stage run in parallel.
Stages == <<
  {"completed", "refund", "expense", "purchase", "funding", "inventory"},
  {"byPaymentMethod"}, {"byShop"}, {"byCategory"},
  {"timelineSales", "timelineExpenses", "timelinePurchases", "timelineRefunds"},
  {"topItems"}, {"movements"}, {"sales"}, {"refunds"}, {"expenses"}, {"purchases"}, {"fundings"} >>

Needed(r) ==
  {"completed", "refund", "expense", "purchase", "funding"}
  \cup (IF r.include \cap {"summary", "inventorySnapshot", "topProducts"} # {} THEN {"inventory"} ELSE {})
  \cup (r.include \cap {"byPaymentMethod", "byShop", "byCategory", "sales", "refunds", "expenses", "purchases"})
  \cup (IF "timeline" \in r.include /\ r.groupBy \in DOMAIN PeriodLength THEN Stages[5] ELSE {})
  \cup (IF "topProducts" \in r.include THEN {"topItems"} ELSE {})
  \cup (IF "productMovements" \in r.include THEN {"movements"} ELSE {})
  \cup (IF "funding" \in r.include THEN {"fundings"} ELSE {})

\* The next queries: what is left of the first stage of which something is.
Unread(i) == (Stages[i] \cap Needed(report.request)) \ DOMAIN report.got
Pending == UNION {Unread(i) : i \in {j \in DOMAIN Stages : \A k \in 1..(j - 1) : Unread(k) = {}}}

GroupedBy(S, key(_)) == [k \in {key(w) : w \in S} |-> Totals({w \in S : key(w) = k})]
Aggregates(q, r) ==
  CASE q = "completed" -> Totals(Sold(r))
    [] q = "refund" -> Totals(Entries("REFUND", r))
    [] q = "expense" ->
         Totals({e \in Spent(r) : r.categories # {} => What[e].category \in r.categories})
    [] q = "purchase" -> Totals(Bought(r))
    [] q = "funding" -> Totals(Entries("FUNDING", r))
    [] q = "inventory" -> [s \in r.shops |-> stock[s]]
    [] q = "byPaymentMethod" ->
         GroupedBy({s \in Sold(r) : r.methods # {} => What[s].method \in r.methods},
                   LAMBDA s : What[s].method)
    [] q = "byShop" -> GroupedBy(Sold(r), LAMBDA s : What[s].shop)
    [] q = "byCategory" -> GroupedBy(Spent(r), LAMBDA e : What[e].category)

\* mutant: the timeline shows refunded sales
TimelineOfAll(q, r) ==
  CASE q = "timelineSales" -> SoldOrRefunded(r)
    [] q = "timelineExpenses" -> Spent(r)
    [] q = "timelinePurchases" -> Bought(r)
    [] q = "timelineRefunds" -> Entries("REFUND", r)

TimelineRows(q, r) ==
  CASE q = "timelineSales" -> Sold(r)
    [] q = "timelineExpenses" -> Spent(r)
    [] q = "timelinePurchases" -> Bought(r)
    [] q = "timelineRefunds" -> Entries("REFUND", r)

Lists(q, r) ==
  CASE q \in Stages[5] -> TimelineRows(q, r)
    [] q = "topItems" -> {s \in Sold(r) : r.variants # {} => What[s].variant \in r.variants}
    [] q = "movements" -> Newest({w \in UNION {In(Done(k), r) : k \in {"SALE", "REFUND", "PURCHASE"}} :
                                    Dated(tx[w].at, r) /\ (r.variants # {} => Moved(w) \in r.variants)},
                                 At, r.moves)
    [] q = "sales" -> Newest(Sold(r), At, ListLimit)
    [] q = "refunds" -> Newest(Entries("REFUND", r), EntryAt, ListLimit)
    [] q = "expenses" -> Newest(Spent(r), DateOf, ListLimit)
    [] q = "purchases" -> Newest(Bought(r), At, ListLimit)
    [] q = "fundings" -> Newest(Entries("FUNDING", r), EntryAt, ListLimit)

Aggregated == Stages[1] \cup {"byPaymentMethod", "byShop", "byCategory"}

Generate(body) ==
  /\ report.pc = "idle"
  /\ Accepts(body)
  /\ body.shops \subseteq Allowed /\ ReportShops(body.shops) # {}
  /\ report' = [NoReport EXCEPT !.pc = "reading",
                                !.request = [body EXCEPT !.shops = ReportShops(body.shops)]]
  /\ UNCHANGED << now, tx, stock >>

Rows(q) == IF q \in Aggregated THEN Aggregates(q, report.request) ELSE Lists(q, report.request)
Read(q) ==
  /\ report' = [report EXCEPT !.got = [p \in DOMAIN @ \cup {q} |-> IF p = q THEN Rows(q) ELSE @[p]]]
  /\ UNCHANGED << now, tx, stock >>

\* The payload is stored and answered.
Save ==
  /\ report.pc = "reading"
  /\ Pending = {}
  /\ report' = [report EXCEPT !.pc = "answered"]
  /\ UNCHANGED << now, tx, stock >>

\* The answer is sent, or a query or the insert has failed.
EndReport ==
  /\ report.pc # "idle"
  /\ report' = NoReport
  /\ UNCHANGED << now, tx, stock >>

Next ==
  \/ \E w \in Writes : Begin(w) \/ Commit(w) \/ Rollback(w)
  \/ Tick
  \/ \E body \in Bodies : Generate(body)
  \/ report.pc = "reading" /\ \E q \in Pending : Read(q)
  \/ Save
  \/ EndReport

Spec == Init /\ [][Next]_vars

---------------------------------------------------------------------------
\* The payload.

Got(q) == report.got[q]
Revenue == Got("completed").amount
CashIn == Revenue + Got("funding").amount
CashOutUnstocked == Got("expense").amount + Got("refund").amount  \* mutant
CashOut == Got("expense").amount + Got("purchase").amount + Got("refund").amount
NetCash == CashIn - CashOut

\* Points of the timeline: periods with rows, of which the last ones are shown.
PeriodKey(t, r) == t \div PeriodLength[r.groupBy]
PeriodOf(q, w) ==
  LET r == report.request IN
  CASE q = "timelineExpenses" -> PeriodKey(DateOf(w), r)
    [] q = "timelineRefunds" -> PeriodKey(EntryAt(w), r)
    [] OTHER -> PeriodKey(At(w), r)
Periods == UNION {{PeriodOf(q, w) : w \in Got(q)} : q \in Stages[5]}
LastPoints(n) == {k \in Periods : Cardinality({l \in Periods : l > k}) < n}
Point(k) == [q \in Stages[5] |-> SumOf({w \in Got(q) : PeriodOf(q, w) = k})]
Net(k) == Point(k)["timelineSales"] - Point(k)["timelineExpenses"]
            - Point(k)["timelinePurchases"] - Point(k)["timelineRefunds"]
Timeline == [k \in LastPoints(report.request.points) |->
              [q \in Stages[5] \cup {"net"} |-> IF q = "net" THEN Net(k) ELSE Point(k)[q]]]

\* Sold variants with what was sold of them, the best ones only.
ByVariant ==
  [v \in {What[s].variant : s \in Got("topItems")} |->
     LET of == {s \in Got("topItems") : What[s].variant = v} IN
     [units |-> SumFunction([s \in of |-> What[s].units]),
      revenue |-> SumFunction([s \in of |-> Subtotal(s)])]]
TopProducts ==
  CHOOSE T \in SUBSET DOMAIN ByVariant :
    /\ Cardinality(T) = Min({report.request.top, Cardinality(DOMAIN ByVariant)})
    /\ \A v \in T, x \in DOMAIN ByVariant \ T :
         ByVariant[v][report.request.by] >= ByVariant[x][report.request.by]

StockUnits ==
  SumFunction([s \in report.request.shops |-> SumFunction([v \in Variants |-> Got("inventory")[s][v]])])

---------------------------------------------------------------------------
TypeOK ==
  /\ now \in Time
  /\ tx \in [Writes -> [pc : {"idle", "open", "done"}, seen : SUBSET Time, at : Time, entryAt : Time]]
  /\ stock \in [Shops -> [Variants -> Nat]]
  /\ report.pc \in {"idle", "reading", "answered"}
  /\ report.pc # "idle" =>
       /\ report.request \in Body /\ report.request.shops # {}
       /\ report.during \in [Kind -> Int] /\ report.commits \in 0..MaxDuring
       /\ DOMAIN report.got \subseteq Needed(report.request)

Answered == report.pc = "answered"
Has(section) == Answered /\ section \in report.request.include
OffBy(a, b, slack) == a - b <= slack /\ b - a <= slack
GroupSum(q) == SumFunction([k \in DOMAIN Got(q) |-> Got(q)[k].amount])
TimelineSum(q) == SumFunction([k \in DOMAIN Timeline |-> Timeline[k][q]])
Complete == Cardinality(Periods) <= report.request.points
Timed == Has("timeline") /\ report.request.groupBy \in DOMAIN PeriodLength
AllListed(q) == Cardinality(Got(q)) < ListLimit
\* A discount may exceed the items (sale.controller.ts:29), and then a part may exceed the whole.
NoneNegative == \A w \in Writes : Amount(w) >= 0

\* The figures a report repeats agree (report.service.ts: buildPayload computes each
\* of them by another query): the summary with the breakdowns, the timeline, the
\* products sold with what the totals of their sales add to the items, the lists, and
\* the stock with the stock summary.
\* They differ by at most the amounts of what has committed while the report was built,
\* taken without their signs, and not at all when nothing has.
SalesAgree ==
  LET sold == report.during["SALE"] + report.during["REFUND"] IN
  /\ Has("byShop") => OffBy(Revenue, GroupSum("byShop"), sold)
  /\ Has("byPaymentMethod") =>
       IF report.request.methods = {} THEN OffBy(Revenue, GroupSum("byPaymentMethod"), sold)
       ELSE NoneNegative => GroupSum("byPaymentMethod") <= Revenue + sold
  /\ Timed => /\ NoneNegative => TimelineSum("timelineSales") <= Revenue + sold
              /\ Complete => OffBy(Revenue, TimelineSum("timelineSales"), sold)
  /\ Has("sales") /\ AllListed("sales") => OffBy(Revenue, SumOf(Got("sales")), sold)
  /\ Has("topProducts") /\ report.request.variants = {} /\ TopProducts = DOMAIN ByVariant =>
       OffBy(Revenue, SumFunction([v \in TopProducts |-> ByVariant[v].revenue])
                        + SumFunction([s \in Got("topItems") |-> Beyond(s)]), sold)
CostsAgree ==
  LET d == report.during  whole == report.request.categories = {} IN
  /\ Has("byCategory") => /\ Got("expense").amount <= GroupSum("byCategory") + d["EXPENSE"]
                          /\ whole => OffBy(Got("expense").amount, GroupSum("byCategory"), d["EXPENSE"])
  /\ Timed /\ Complete =>
       /\ whole => OffBy(Got("expense").amount, TimelineSum("timelineExpenses"), d["EXPENSE"])
       /\ OffBy(Got("purchase").amount, TimelineSum("timelinePurchases"), d["PURCHASE"])
       /\ OffBy(Got("refund").amount, TimelineSum("timelineRefunds"), d["REFUND"])
  /\ Has("refunds") /\ AllListed("refunds") =>
       OffBy(Got("refund").amount, SumOf(Got("refunds")), d["REFUND"])
  /\ Has("purchases") /\ AllListed("purchases") =>
       OffBy(Got("purchase").amount, SumOf(Got("purchases")), d["PURCHASE"])
  /\ Has("funding") /\ AllListed("fundings") =>
       OffBy(Got("funding").amount, SumOf(Got("fundings")), d["FUNDING"])
StockAgrees ==
  Has("inventorySnapshot") /\ report.commits = 0 =>
    StockUnits = StockSummary(report.request.shops, 0).totalUnits
ReportAgrees == Answered => SalesAgree /\ CostsAgree /\ StockAgrees

\* Every row of the report's tables lies in the period with its entry or not at all.
InStep(r) ==
  /\ \A w \in In(Done("SALE") \cup Done("PURCHASE"), r) : Dated(tx[w].at, r) <=> Dated(tx[w].entryAt, r)
  /\ \A e \in In(Done("EXPENSE"), r) : Dated(What[e].date, r) <=> Dated(tx[e].entryAt, r)
LedgerNet(r) == SumFunction([s \in r.shops |-> ShopSummary(s, r).net])
Undisturbed == Answered /\ report.commits = 0 /\ report.request.categories = {}

\* Without refunds, the net cash of a report (report.service.ts: netCash) is the net
\* of the ledger (cashflow.service.ts: getSummary) over the same shops and period,
\* when no row and its entry fall on two sides of its limits.
NetCashWithoutRefunds ==
  LET r == report.request IN
  Undisturbed /\ InStep(r) /\ In(Done("REFUND"), r) = {} => NetCash = LedgerNet(r)

\* The same with refunds (docs/mobile/business-report-api.md:212-218: refunds are the
\* REFUND entries and a cash out of their own, as in cashflow.service.ts).
NetCashIsLedgerNet ==
  LET r == report.request IN Undisturbed /\ InStep(r) => NetCash = LedgerNet(r)

\* What the requests select.
Selections == {[body EXCEPT !.shops = ReportShops(@)] : body \in Bodies}

\* The two summaries of the ledger agree for every selection of shops: by category
\* (getFinanceSummaryByOrganization) and by direction (getSummary), funding apart.
\* (Looked at between reports, which change no entry.)
SummariesAgree ==
  report.pc = "idle" => \A r \in Selections :
    FinanceSummary(r).netEstimate + LedgerSum("FUNDING", r) = LedgerNet(r)

\* A period is closed while the clock is past it and has been for every open transaction.
Closed(r) == now > r.to /\ \A w \in Writes : tx[w].pc = "open" => \A t \in tx[w].seen : t > r.to

\* The ledger of a closed period does not change.  A report of it made again shows no new
\* sale, purchase or refund, and loses the sales that are refunded later; it gains the
\* expenses that are dated back into it (expense.service.ts:27), whose entries are of later.
ClosedPeriodSettles ==
  [][report.pc = "idle" /\ tx' # tx =>
       \A r \in Selections :
         Closed(r) => /\ FinanceSummary(r)' = FinanceSummary(r)
                      /\ Sold(r)' \subseteq Sold(r) /\ Bought(r)' = Bought(r)
                      /\ Entries("REFUND", r)' = Entries("REFUND", r)
                      /\ Spent(r) \subseteq Spent(r)'
                      /\ \A e \in Writes : e \in Spent(r)' \ Spent(r) => tx'[e].entryAt > r.to]_vars

\* 'Stock on hand ... isn't scoped to the date range - only to the shop selection'
\* (organization.controller.ts:410).
StockFollowsSelection ==
  \A body \in Bodies : body.shops # {} =>
    Finance(body, 0).totalUnits = StockSummary(body.shops, 0).totalUnits
=============================================================================
