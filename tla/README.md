# Agrovet in TLA+

Agrovet is a point-of-sale backend for organizations with several shops: an
Express server over PostgreSQL, through Prisma. Its hard part is not in any one
function but in what happens when the transactions of many requests overlap.
This directory holds a model of it, the TLC runs that check small instances, and
proofs that hold for every instance.

## The system

| Component | State it keeps | Operations | What makes it correct |
|---|---|---|---|
| Sales (`sale`) | `Sale`, `SaleItem`, `Payment` | `createSale` (SERIALIZABLE, three attempts), `refundSale` | a sale happens at one instant or not at all; it is refunded once; it is always answered |
| Inventory (`inventory`) | `Inventory.quantity`, `InventoryTransaction` | deduct, restore, receive, adjust, overwrite, bulk forms | never below zero, never beyond the column, explained by the ledger |
| Purchases (`purchase`) | `Purchase`, `PurchaseItem` | `createPurchase` | stock, ledger and expense move together |
| Receipts (`receipt`) | `Receipt`, `ReceiptCounter` | allocate, create, print, void | numbers are unique; void is final |
| Cash flow, expenses (`cashflow`, `expense`) | `CashFlowEntry`, `Expense` | record, funding, summaries | agrees with sales, refunds and purchases |
| Pricing (`pricing`) | `ShopVariantPrice`, `PriceHistory`, prices of variants and batches | resolve, validate, update | a sold price is one on record and not below the minimum |
| Reports (`reports`) | `BusinessReport` | generate, list, read | the figures of one report agree, and agree with the ledger |
| Permissions (`auth`: `permissions`, `shopScope`) | none: reads `User`, `ShopStaff`, `Shop` | the checks before every operation | who is served is who the permission matrix names |
| Organizations and staff (`organizations`, `firebase`) | `Organization`, `User`, `ShopStaff` | create, assign, deactivate, provision | role, access and assignments fit together and stay in one organization; an invited person has an account |
| Authentication (`auth`) | `RefreshToken`, `TokenBlocklist` | login, exchange, refresh, logout | a session stays with its device; a deactivated user gets no token; a change of role reaches every token |
| Shops (`shops`) | `Shop` | create, update, delete | branches stay within an organization |
| Catalog (`products`) | `Category`, `Product`, `ProductVariant` | edit, import from Mnyama Shop | an import ends, is there when it says so, and can be repeated; what is in use stays |
| Notifications (`notifications`) | `Notification` | record, list, mark, delete | a committed activity is notified or was answered as an error; marks and deletions stay |

How they interact: the controllers check the actor's role and shop, then call one
service. `SaleService` calls `InventoryService`, `CashFlowService` and
`ReceiptService` with its own transaction; `PurchaseService` calls the first two.
Prices and permissions are read outside the transaction, and notifications are
written after the commit. All shared state is in PostgreSQL: requests meet only
as transactions that wait for row locks, see each other's committed rows, and
conflict. There is no queue, no cache and no background job.

What is hard: the interleaving of statements of transactions at two isolation
levels; rollback and retry after part of the work; deadlocks between requests
that touch rows in different orders; checks whose result is stale when it is
used; handlers without a transaction, which check, call Firebase or hash a
password, and write; tokens that outlive what they say; a clock that goes back.
Only the database and Firebase persist: a crash of the server is the rollback of
its open transactions, and of nothing it has done in Firebase.

## Plan

| | Module | Models | State |
|---|---|---|---|
| 1 | `Commerce` | sales, refunds, purchases, corrections as transactions | modelled, checked, proved |
| 2 | `AtomicCommerce` | what they promise: one instant each | refinement checked and proved |
| 3 | `Receipts` | numbers, creation, printing, voiding | modelled, checked, proved |
| 4 | `Staffing` | users, roles, shop assignments, invitations | modelled, checked, proved |
| 5 | `Sessions` | access and refresh tokens | modelled, checked, proved |
| 6 | `Catalog` | categories, products, variants, the import and manual edits | modelled, checked, proved |
| 7 | `Reports` | the money tables, the summaries, and a report's reads among commits | modelled, checked, proved |
| 8 | `Access` | the checks of role, organization and shop before every operation | modelled, checked, proved |
| 9 | `Notices` | notifications after the commit, and the handlers about them | modelled, checked, proved |

`MC<module>` instantiates a module for TLC and `<module>Proofs` holds its proofs.
`Sums` has what `Commerce` and `AtomicCommerce` add up over the lines of a request.
The modules share no variables, because the parts meet in few places, and those
are part of both: `Commerce` has the rows of a sale that `Receipts` and
`Reports` look at more closely, `Staffing` keeps the assignments that `Access`
takes as they are (`Fits`) and the roles whose tokens `Sessions` follows, and
`Notices` begins where a transaction of `Commerce` has committed.

What could come next: price resolution and the bulk sheets as functions with
reference definitions, and a refund whose check and update are one statement, for
which `RefundsApart` (see Proofs) would be a theorem and no hypothesis.

## Commerce

`Commerce.tla` follows `sale.service.ts`, `inventory.service.ts`,
`purchase.service.ts` and `cashflow.service.ts`, with the bulk forms.

A **request** is one HTTP call. `pc` says where its handler stands: `idle`,
`ready` (an attempt of `createSale` is due), `checked` (a refund has passed
'Already refunded'), `open` (in its transaction), `done`, `failed`. `tx` is its
transaction: the next item, the quantities it has written, the movements it has
logged, and for a sale its snapshot and the rows that others have committed
since. `lock` says which transaction has written a row; an uncommitted quantity
is `tx[r].work`, a committed one `stock`.

| Action | Code |
|---|---|
| `AskSale`, `BeginSale`, `SellItem`, `SellShort` | validation and first statement of `createSale`; `deductSaleStock` |
| `SellConflict`, `SerializationFailure`, `Retry` | P2034 and the catch block of `createSale` |
| `AskRefund`, `MarkRefunded`, `RestoreStock` | `refundSale`, `restoreRefundStock` |
| `AskPurchase`, `ReceiveBatch` | `createPurchase`, `receivePurchaseBatch` |
| `AskAdjust`, `AdjustStock`, `MoveShort`, `MoveOverflow` | `adjustInventory`, `bulkAdjustInventory` |
| `AskOverwrite`, `OverwriteStock` | `updateInventory`, `bulkUpdateInventory` |
| `VoidReceipt` | `voidReceipt`, by a clerk: the sale stays as it is |
| `Commit`, `Book` | the end of the transaction with its rows in `Sale`, `Payment`, `CashFlowEntry`, `Receipt` |
| `Expire`, `DeadlockVictim` | timeouts, crashes, errors of other statements; PostgreSQL's deadlock detection |

The database is modelled by what the services rely on. At SERIALIZABLE a
statement reads the snapshot of the first statement and fails if a row it would
write was committed since; at READ COMMITTED a conditional update re-reads the
row after it has waited for it. PostgreSQL may refuse further sales because of
read-write dependencies: `SerializationFailure` allows it whenever another sale
overlaps. A row that does not exist is a row of quantity 0; the services answer
both alike. Statements that touch no shared row are part of `Commit`.

`AtomicCommerce.tla` is the promise: `Sell`, `Refund`, `Receive`, `Adjust` and
`SetStock` each happen at one instant, and so does a clerk's `VoidReceipt`.
`Commerce` maps itself to it (`Atomic`),
with the bill of a sale taken from its request once it has committed (`Bill`). What
a cart does to a row is a sum over its lines, in `Sums`: `Units` names a row once
per line that has it, `LastSet` is the last absolute quantity, because
`bulkUpdateInventory` writes the lines in order.

Properties: `StockInRange` (no oversell, no overflow), `LedgerExplainsStock` (the
quantity of a row is what `InventoryTransaction` adds up to),
`StockAccountsForSales` (what left the shelf is what completed sales contain),
`BooksAgree` (sale, cash flow and receipt tell one story: a completed sale is paid
in full and has a receipt, which may be void only because a clerk voided it; the
receipt of a refunded sale is void), `AtomicSpec` (the refinement),
`EveryRequestAnswered`.

## Receipts

`Receipts.tla` refines the part of `createSale` that `Commerce` has in `Book`. A
number is a timestamp and the value of a counter kept per organization and
timestamp; numbers are unique over all organizations. The clock may be set to any
instant at any time, which covers summer time, corrections and two servers.
`Allocate` locks the counter row until the commit; `AllocateConflict` is the raw
query's serialization failure, which Prisma reports as P2034 or not at all;
`NumberTaken` is the unique violation that aborts the transaction, and
`AllocateRefused` what then happens to the retry loop of `createForSale`.
`Refund` is `voidForSale`; `ClerkReads`, `ClerkPrints` and `ClerkVoids` are the
two statements of `markPrinted` and `voidReceipt`.

Properties: `OrgNumbersDistinct`, `CounterCountsReceipts`, `RefundVoids` (a
receipt of a refunded sale is void, whatever a clerk prints or voids meanwhile),
`SaleAnswered`.

## Staffing

`Staffing.tla` is the people: their accounts in Firebase (`account`, the uids it
has `spent`, the claims `granted`), their rows in `User` with the shops of
`ShopStaff` (`user`), and the places they are given (`org`, `shop`, `closed`). The
handlers of this part hold no lock over what they have checked. A **job** is such
a handler between its reads and its write, with the row it is going to write; in
a row that updates another one, `None` stands for a field it leaves alone.

| Action | Code |
|---|---|
| `SignUp`, `Grant` | the app; `scripts/provision-firebase-global-role.ts` |
| `RegisterReads`, `RegisterSaves` | `register`, before and after the hash |
| `ExchangeReads`, `ExchangeCreates`, `ExchangeLinks` | `exchangeFirebaseToken`: lookup by email, create, or update of uid and role |
| `ProfileMails`, `ProfileSaves` | `updateUserProfile` of the Firebase bridge: the account's email, then the row's |
| `UpdateProfile` | `updateProfile`, whose body reaches the table unfiltered: the email, or any column of the row (`Rewrites`) |
| `FoundReads`, `FoundSaves` | `createOrganizationForUser` |
| `UpdateShop` | `updateShop`: its body may name another organization |
| `CreateShop`, `DeleteShop` | `createShop`, `deleteShop` with the foreign key of `ShopStaff` |
| `InviteReads`, `Provision`, `ProvisionFails`, `InviteSaves` | `createOrgUser`, with `provisionInvitedFirebaseUser` and its clean-up |
| `UpdateReads`, `UpdateSaves` | `updateOrgUser` |
| `Fails` | a violated key, an error, a crash: what was written before stays |

A granted role stays presentable, because ID tokens issued with an earlier claim
are accepted until they expire; for the same reason an ID token may name any
email that its account has `borne`. A shop's id is never used again.

The bodies of two routes go to Prisma as they came (`auth.controller.ts:145`,
`shop.controller.ts:108`), so that they may write columns no handler has checked.
What they write obeys no rule; what can be asked is that the rest keeps its rules
while they write. `rewritten` and `moved` remember the rows and shops they changed,
and the properties speak of the others: `AssignmentFits` (STAFF and ONE_SHOP
managers have one shop, others none), `AssignedWithinOrg` (that shop exists, for
every row, and belongs to the person's organization), `InvitedHasAccount` (no
failing invitation takes back an account that a row is linked to),
`InvitedStaysInvited` (no stale exchange or founding makes somebody else of a person
whom an owner invited, or moves them to another organization). Two updates that
overlap may leave the role of the one or of the other: the last write wins.

## Sessions

`Sessions.tla` is what a role or a deactivation does to the tokens that are out.
An access token carries the rank its user had when it was issued and is checked
against its signature and the blocklist only; a refresh token is a row that a
call reads, revokes and replaces in three statements. `standing` is the user's
rank or `inactive`, `call` what a handler has read. A token has a number of ticks
left, and a blocked or revoked one has none.

| Action | Code |
|---|---|
| `SignIn`, `Mint` | `login` and the end of `exchangeFirebaseToken`: user read, tokens issued |
| `RefreshReads`, `RefreshRevokes`, `Mint` | `refreshTokens` |
| `LogoutBlocks`, `LogoutRevokes` | `logout`, whose writes may fail in silence |
| `Deactivate`, `ChangeRank` | `deactivateOrgUser`, `deactivateUser`; whatever `Staffing` does to a role |
| `UpdateProfile` | the same unfiltered body, with any access token that is out: it may also make an inactive user active |
| `Tick` | expiry of both kinds of token |

Properties: `StaysBound` (a token bound to a device is replaced only by tokens
bound to it), `InactiveGetsNothing` (once the requests that were under way at a
deactivation are over, no request gets a token while the user is inactive; one that
was under way may get its tokens, and then only `StandingCatchesUp` speaks of
them), `StandingCatchesUp` (in the end
every accepted token says what its user is). That a refresh token serves once is
not stated: two calls can read it before either revokes it, the model has those
steps, and no document promises otherwise.

## Catalog

`Catalog.tla` is `products.service.ts` with its controller, and
`firebase-catalog-seed.service.ts`. Three tables (`category`, `product`,
`variant`), the variants that are `inUse`, a `job` per handler that has checked a
request and not written it yet, and an `imp` per import: the documents it has
loaded, those that are left, done and failed, the place in the list of variants,
and the ids that others have `touched` meanwhile. A deleted id is `Gone`, unless
the feed may bring it back.

| Action | Code |
|---|---|
| `AskCategory`, `AskProduct`, `AskVariant` | the checks of each operation, and the controller's stripping of provenance |
| `CreateCategory` ... `DeleteVariant`, `NextCandidate`, `EditFails` | the writes, each as the database accepts it; the next generated SKU |
| `WriteVariants` | the variants in the body of a product, which `createProduct` and `updateProduct` pass on: one to create, others to connect |
| `Load` | `MnyamaShopFirestoreClient` and `mapMnyamaShopProduct`, with the migration script in between |
| `FindCategory`, `MakeCategory` | `resolveCategoryId` |
| `FindProduct`, `MakeProduct`, `PlaceRow` | `resolveProductId`, `upsertCatalogRow` |
| `PutKnown`, `TakeSku`, `PutNew` | `upsertVariant`: by id, the takeover of a SKU, the creation |
| `DocFails`, `Stop` | the catch of one document; the answer, or the end of the process |

Properties: `ImportedIsThere` (a document reported as imported is in the tables,
but for what others touched), `ImportIdempotent` (importing what is there creates,
moves and deletes nothing), `DeletionIsWhole` (a product goes with all its
variants or not at all, and nothing in use goes), `ProvenanceFromAdmins`
(nobody but administrators and imports makes a product, or a variant of a product
that exists, one of the Mnyama Shop), `ImportEnds`. The stripping of provenance looks
at the top level of a body only (`products.controller.ts:15`): a variant nested in a
new product keeps the source it claims, and the property says that this is all that
is left. A body that updates a nested variant does what `UpdateVariant` does.

## Reports

`Reports.tla` is the money tables and what is read from them. A write is one
transaction (`tx`) whose rows carry an instant that the clock showed while it was
open (`seen`), since a clock may also be set back; a sale has a discount and a tax,
or a total that the caller gives, and an expense the date its user gives. A report
is a request, what its queries have `got` so far, and how much has committed
`during` it.

| Action | Code |
|---|---|
| `Begin`, `Commit`, `Rollback`, `Tick` | the transactions of sales, refunds, expenses, purchases and funding, and the clock |
| `Generate` | `normalizeReportRequest`, `resolveReportShops` |
| `Read` | one query of `buildPayload`, `buildTimeline` or `buildTopProducts`, in the stages of the code: those of one stage in any order |
| `Save`, `EndReport` | the insert of the payload; the answer, or an error |

`FinanceSummary`, `ShopSummary` and `StockSummary` are the other reading of the
same tables; `NetCash`, `Timeline`, `TopProducts` and `StockUnits` the figures of
the payload.

Properties: `ReportAgrees` (figures that one report computes by two queries differ
by no more than what committed meanwhile; the products' revenue differs from the
sales' by what the totals of the sales are `Beyond` their items),
`NetCashWithoutRefunds` (net cash is the ledger's net when nothing is refunded),
`SummariesAgree` (the summaries by category and by direction are one),
`ClosedPeriodSettles` (while the clock is past a period, and was for every open
transaction, its ledger does not change; a report of it loses at most sales that are
refunded later and gains at most expenses that are dated back into it, whose entries
are in a later period).

## Access

`Access.tla` is the checks that a request passes before its operation runs:
`authenticate`, `assertOrganizationAccess`, `loadAuthActor`, the predicates of
`permissions.ts`, `resolveShopScope` and `assertShopInScope`. Each is a step of
its own, and between two of them the person's `row` may change. A request is the
list `todo` of its checks, what they have read (`actor`, `base`, `scope`) and the
rows that the person has had since it began (`seen`).

| Action | Code |
|---|---|
| `Start` | `authenticate`: the role is the token's, or the row's with a Firebase token |
| `Member` | `assertOrganizationAccess` |
| `Actor` | `loadAuthActor` |
| `Permission` | the `can...` predicate of the operation |
| `OwnOrg` | `assertSettingsAccess` |
| `ScopeUser`, `ScopeShops` | the two reads of `resolveShopScope` |
| `ShopInScope`, `WholeScope` | the last part of `assertShopInScope`; 'all shops' of `listByOrganization` |
| `Serve`, `ServeFails` | the operation, of which the shops it shows are kept; `resolveReportShops` |
| `Reassign`, `Deactivate`, `Found` | what `Staffing` does to the row |
| `SyncRole` | `exchangeFirebaseToken` on a row that is no invited one: the role of the Firebase account, whatever the organization |
| `UpdateProfile` | an unfiltered body makes the row one of `Written` |

`Checks` lists them for each of seventeen kinds of operation, in the order of the
handlers. The matrix of `docs/mobile/roles-shop-scope-integration.md` is
`Entitled`, which is written down without the checks.

Every `Change` of the row may issue a token with its new role, and old tokens stay
out: `issued` is the set of roles that a token may name.

Properties: `MatrixHolds` (a person whose row stays as it is during a request is
served exactly when the matrix allows it, and sees only that person's shops),
`HalvesHold` (when it changes between the checks, the matrix may hold at no
instant, but the role and each of the shops were the person's at some instant).
Both are about `Regular` requests: of people who are no platform administrators,
whose role and assignments fit (an unfiltered body may break that) and who are not
moved between organizations with shops meanwhile. They leave out what the code does
otherwise, each by a name:

* `TokenHolds`: `assertOrganizationAccess` and the list of shops look at the role of
  the token and not at that of the row. A SUPER_ADMIN's token passes for every
  organization until it expires, whatever the row has become, by the exchange's sync
  of the role for instance (`organization-access.ts:17`, `auth.service.ts:299`).
* `Unrestricted`: the finance figures and the stored reports of an organization are
  shown to whoever has the role, for all its shops. Here the code and the document
  disagree: lines 102 and 106 of `roles-shop-scope-integration.md` restrict some
  people to their assigned shop.

## Notices

`Notices.tla` is what follows a trade (a sale, a refund, a purchase or an
expense). `trader` is a handler with its client, who may send a request again
after an error; `made` the notifications in order, `st` what became of each;
`reader` a handler about notifications.

| Action | Code |
|---|---|
| `Send`, `SendAgain` | the client |
| `Commit`, `Refuse` | the service, as `Commerce` has it |
| `RecordNotification`, `RecordFails` | `fromSale` and its like, after the commit |
| `Ask`, `FindRow`, `AssertOrg` | the routes, with the organization of the row that was found |
| `List`, `Count`, `Get` | the reads |
| `FindAgain`, `Write` | `markAsRead`, `deleteNotification`: found again, then written |
| `MarkAll` | `markAllAsRead` |

Properties: `TradesAccounted` (every committed trade has its one notification in
the organization of its shop, or is about to get it, or was answered as an error:
a client who repeats a trade that was done has been told of one), `MarkedAll`,
`NotesStay` (only those who pass the access check of its organization, `Homes`,
change a notification: members, and any SUPER_ADMIN; read and deleted are final),
`TradeAnswered`.

## Runs

| Run | Instance | Shows |
|---|---|---|
| `commerce` | 2 rows, 2 sales, 1 refund, 2 purchases or adjustments, 3 attempts, clerks' voids | `StockInRange`, `LedgerExplainsStock`, `BooksAgree`, `StockAccountsForSales` |
| `commerce_atomic` | 2 crossing carts, a refund, 1 stock request, absolute updates too | Commerce implements `AtomicCommerce`; every request is answered |
| `receipts` | 3 sales of 2 organizations, 2 instants, 1 clerk, 2 attempts | numbers distinct and counted, a refund voids, every sale is answered |
| `staffing` | 2 emails, rows, organizations and handlers, 1 account, 1 shop, 1 change from outside | `AssignmentFits`, `AssignedWithinOrg`, `InvitedHasAccount`, `InvitedStaysInvited` |
| `sessions` | 1 user of 2 ranks, 2 devices, 2 tokens of each kind, 2 handlers | `StaysBound`, `InactiveGetsNothing`, `StandingCatchesUp` |
| `catalog` | 2 documents in 2 feeds, 1 import, 1 editor with 10 requests, 4 variants | `ImportedIsThere`, `ImportIdempotent`, `DeletionIsWhole`, `ProvenanceFromAdmins`, `ImportEnds` |
| `reports` | 6 writes of every kind in 2 shops, 3 requests, 2 instants | `ReportAgrees`, `NetCashWithoutRefunds`, `SummariesAgree`, `ClosedPeriodSettles` |
| `access` | 8 persons, 3 shops, 3 organizations, 3 unfiltered bodies, all operations, 3 changes | `MatrixHolds`, `HalvesHold` |
| `notices` | 3 trades of 2 clients, 2 readers, 2 organizations | `TradesAccounted`, `MarkedAll`, `NotesStay`, `TradeAnswered` |
| `refund_race` | 1 sale, 2 refunds | **violation** of `RefundedOnce` |
| `receipt_collision` | 2 sales of 2 organizations at one instant | **violation** of `CollisionIsRetried` |
| `founder` | 1 person, 2 requests | **violation** of `StaysInOrg` |

Bounds. Two rows are the least that two transactions can lock in opposite orders.
The opening stock (2 and 1) lets one cart empty a row another one needs, and
`MaxQty` = 3 lets a purchase or a refund overflow. Carts name both rows in either
order, or one row twice, so that a transaction meets its own write.
`MAX_SALE_CREATE_RETRIES` keeps its value 3 in `Commerce`; in `Receipts` it is 2,
where an attempt can already meet a counter row left by a rollback of the one
before. Amounts are one value: no step compares them. Requests of one kind are
interchangeable, which the safety run uses as a symmetry; the runs with liveness
properties do not. In `Staffing` two people and two handlers are what a race between
two writers of one row, or of one email, takes; a second organization is what an
assignment can wrongly cross. `MaxChanges` = 1 lets one row or shop be changed by an
unfiltered body, or one account get another email, at any point. With one account
and one shop an invitation meets its own account or none, and an assignment its shop
or none: what two of each add is left to the proofs, because the instance would take
hours. One platform role stands for both, which the code treats alike but for the
organization, and SUPER_ADMIN is the one without. Users share nothing in `Sessions`,
so one is enough; a refresh token lives for 2 ticks and an access token for 1, so
that a session outlives the token it began with. `Refresh` and `Access` bound the
tokens that are out at once, not those that are ever issued: a dead one leaves its
place to another. In `Catalog` one import and one handler of edits are enough for
each of their steps to come between any two of the other's, because both find
everything again in the tables; two imports differ from that only in whose row the
second one finds. One feed exchanges two SKUs, names no product or has an unusable
variant; the other is the old structure. `Traded` are the variants that may come
into use: one of the feed and one made by hand. In `Reports`, `MaxOpen` = 1 and
`MaxDuring` = 1 keep one transaction open at a time and let one commit while a
report is built, at any of its queries; `MaxCommits` = 2 is a sale and its refund,
or any other pair. `TicksInReport` = FALSE stops the clock while a report is built:
no query reads it, so that it only adds states. In `Access` one request is enough,
because requests change nothing that another one reads; `MaxChanges` = 3 puts a
change between any three pairs of checks; `Written` has one body that moves an owner
to another organization and two that break an assignment. In `Notices` the list
shows one notification (`Limit` = 1), so that it leaves some out.

Fairness. `Handle(r)` is weakly fair: the event loop resumes every handler whose
statement can proceed, and a statement that waits for a lock is not enabled.
`DeadlockVictim` is weakly fair because PostgreSQL runs its detector after
`deadlock_timeout`. Nothing else is: no client has to send a request, and no
transaction has to expire. In `Sessions` the steps of a call under way and the
clock are fair; requests, changes of role and deactivations are not. In `Catalog`
the import is fair as a whole (the loop goes on after an error), in `Notices` the
handler of a trade (`Handler`), in `Receipts` every handler; no client is.

What the violations show: a double refund (`sale.service.ts:261` is a stale
check) and a retry loop that cannot retry (`receipt.service.ts:70`). `BooksAgree`
says "at least in full" of a refund because of the first. Two requests that found
an organization both see none, and the second moves its founder out of the first
(`organization.service.ts:34`).

Further checks by hand. These configurations are kept beside the runs; TLC finds
the property of each violated.

| Configuration | Property | What it shows |
|---|---|---|
| `MCReceipts_print.cfg` | `NoPrintAfterVoid` | a receipt is printed after it was voided (`receipt.service.ts:207`) |
| `MCStaffing_superadmin.cfg` | `SuperAdminHasNoOrg` | an owner who is granted the `dev` claim becomes a SUPER_ADMIN with an organization (`auth.service.ts:301`) |
| `MCCatalog_last.cfg` | `LastVariantStays` | two deletions take the last two variants of a product (`products.service.ts:372`) |
| `MCReports_netcash.cfg` | `NetCashIsLedgerNet` | a refunded sale is missing from cash in and counted in cash out (`report.service.ts:260`) |
| `MCReports_stock.cfg` | `StockFollowsSelection` | the stock figures are those of all shops (`organization.controller.ts:412`), where the comment above says they follow the selection |

## Proofs

`CommerceProofs.tla`, for any sets of rows and requests and any carts, jobs,
limits and attempts:

* `StockInvariant`: `StockInv` is inductive. `StockInRange` alone is not: a commit
  publishes what a transaction wrote long before. `LockOK` says that what is
  written under a lock is in range and that only open transactions hold rows;
  `SnapshotOK` says that a snapshot is current on every row not marked stale,
  which is why a sale's conditional decrement cannot go below zero; `JobOK` ties
  the items to what the validators let through.
* `TypeCorrect`, `NoOversell`: `TypeOK` and `StockInRange` follow.
* `BooksCorrect`: `BooksAgree` is preserved, given `JobOK`, also when refunds race
  and clerks void receipts.
* `WorkInvariant`: `WorkInv` is inductive with `StockInv`. `LogOK`: what an open
  transaction wrote to a row it holds is what is committed there and what it has
  logged. `ProgressOK`: it has done the lines before its next one, each once, and
  no others, although a line may name a row again and the others commit meanwhile.
* `AuditTrail`: if no request sets an absolute quantity (`NoOverwrites`), the
  ledger explains the stock.
* `PaidBackOnce`, `NoDoubleRefund`: a refund in flight is the first of its sale, and
  none is paid back more than it cost, as long as no two refunds of one sale are
  in flight at once (`RefundsApart`). The run `refund_race` shows that this
  hypothesis is needed; it always holds when there is one refund.
* `Refinement`: under the same hypothesis, every step of `Commerce` is a step of
  `AtomicCommerce` or a stutter: all but `Commit` are stutters, and a commit is the
  whole operation, because of `ProgressOK`.
* `NothingLost`: under it and without absolute updates, `StockAccountsForSales`.

`ReceiptsProofs.tla`: `NumberInv` is inductive. A number not yet committed is the
next value of a counter row that only its own transaction has written
(`PendingOK`, `HolderOK`), and a committed one has been counted (`CountedOK`), so
`OrgNumbersDistinct` holds for any number of sales and whatever the clock does.
`NumbersWithoutGaps` adds that only finitely many receipts are issued for an
instant (`CountInv`), and each commit adds one receipt and one to the counter.
`RefundedIsVoid` needs that a refunded sale stays committed (`VoidInv`): a clerk's
write after that touches the printing time or voids again.

`StaffingProofs.tla`, for any number of people, rows, shops and handlers:

* `AssignmentInvariant`: `AssignmentInv` is inductive, and `StaffTypes`,
  `AssignmentsFit` and `AssignmentsWithinOrg` follow. What a handler is about to
  write must already fit (`JobOK`), and the shops it validated must still be the
  organization's or be deleted (`WasWithin`, `ClosedOK`), in which case the
  foreign key refuses the write. A row's kind may not change under a job, unless an
  unfiltered body changed it: `InvitedHasOrg` shows that no founding can reach an
  invited person.
* `InvitedAccounts`: `InvitedHasAccount` needs `UidOK`: no two invitations hold one
  account, none holds one that a row names, and no pending exchange will put
  another uid into the row of an invited person.
* `InvitedStays`: the action property, from `AssignmentInv` in both states.

`SessionsProofs.tla`: `SessionInv` is inductive and gives `SessionTypes` and
`SessionStaysBound`: a live token, and a call that will issue one, belong to
somebody (`Held`), so that what a call read has an owner with a standing.
`InactiveUsersGetNothing` is an action property that follows from it, one step
per action.

`CatalogProofs.tla`, for any documents, tables, handlers and imports: `CatalogInv`
is inductive. `TypeOK` alone is not: an import between two statements needs the
document at hand to be one that maps, with a usable variant still ahead, and what
the statement before has found (`Found`); a checked request has the fields its
write uses, and one of no administrator claims nothing at its top level (`Asked`).
`DeletionsAreWhole` and `ClaimsAreAdmins` are action properties that follow from
it, one step per action. Two more theorems are about what an import leaves:

* `ImportsAreKept`: `ImportedIsThere` speaks of an import that has ended; its
  invariant (`Faithful`) says it of every variant that is finished, those of the
  document at hand included, and of the product they are placed under. Half of the
  proof is the import's own later steps: the takeover of a SKU, and the variants
  and documents after it, undo nothing unless the feed names an id or SKU twice
  (`Sole`). The other half is the bystanders: an import writes nothing that breaks
  what another one did, and an editor's writes are `touched` (`Spares`, `Bystander`).
* `RepeatedImports`: each step of an import whose documents are in the tables
  leaves them as they are. `Current` asks that what the step before has found does
  not predate them: an import that has looked for a category or product, not found
  it and then another import has made it, may create a second one.

`ReportsProofs.tla`, for any writes, requests, shops, variants and limits:

* `ReportTypes`, from the invariant that a report is a record whose queries are
  among those it needs.
* `ClosedPeriods`: a transaction that may still commit has seen only instants after
  the period, its timestamps are among them, and rows that are there stay.
* `SummariesMatch`: one ledger is summed by category and by direction and shop. An
  entry is in one category and one shop of the selection, and counts in with the
  sign of its direction; the sums over the parts add up to the sum over the whole.
* `FiguresNearTables`: `FiguresInv` is inductive. `ReportAgrees` speaks of an
  answered report only, when the tables have moved on. The invariant says of every
  query that is done that its figure differs from what it would be now by at most
  what has committed since the report began, and of two queries over the same rows
  that they differ from each other by no more: each commit changes one of the
  kinds by one amount, and a later query covers what an earlier one missed.
* `FiguresAgree`: `ReportAgrees` then is arithmetic about the sums of one table: by
  shop, by method, by category, by period of the timeline (a row falls in one
  period, and in none that is left out when all are shown), by product (the items,
  and what totals are beyond them), or in a list that is shorter than its limit.
* `NetCashIsNet`: when nothing committed meanwhile, each figure is its table, each
  table agrees with its ledger entries (`InStep`), and `NetCashWithoutRefunds` is
  what they add up to.

`NoneNegative` in two clauses of `SalesAgree` is a condition the code does not
ensure: the controller accepts a discount above the sum of the items
(`sale.controller.ts:29`), and then a part of the sales can exceed the whole.

`AccessProofs.tla`, for any organizations, shops, rows, requests and any number of
changes: `AccessInv` is inductive and gives `MatrixIsKept`, `HalvesAreKept` and
`AccessTypes`. Neither property says anything of a request that is not answered yet,
so the invariant says what a handler knows after each check: `RoleKnown` of the
member, the actor and the permission, `ScopeKnown` of the scope, each from a row of
the person that was `seen`. `Ordered` and `Needed` say of the checks that are left
that each finds what it needs. Nothing is assumed of how the row changes: what the
properties need of the rows that were seen is in `Regular`. One lemma per check
extends the knowledge, one per check shows that its refusal is one of the matrix,
and `ServedHeld` and `RowEntitled` draw the conclusion. That a person has at most
one assignment (`Fits`) is assumed of the initial rows and of the requests that the
properties speak of; that `Staffing` keeps it, but for unfiltered bodies, is
`AssignmentsFit`.

`NoticesProofs.tla`: `NoticesInv` is inductive: how far each client has come
(`Counted`), where a notification comes from (`Founded`), and what a handler about
notifications may take for granted (`Checked`). `TradesAreAccounted`,
`NotesAreKept` and `NoticeTypes` follow, for any clients, readers and limit.
`ListsAreComplete` (`MarkedAll`) needs what an answer has vouched for (`Vouched`):
notifications are added at the end and none becomes unread again, so that what was
read or left out when the answer was made stays so; and what the newest `Limit` of
a list leave out is older than each of them (`LeftOut`).

Sums and cardinalities. `SumFunctionOnSet` is a fold, and what the proofs need of
it (the empty sum, one more element, disjoint parts, order) is proved at the
beginning of `CommerceProofs` and of `ReportsProofs` by a least counterexample: the
finite subsets of a set are well-founded under strict inclusion, and of the subsets
that a law fails for one is smallest. The step from a subset to one with another
element is that of an induction. The two modules look at sums of different things
and have their own lemmas.

The assumptions on the constants are the named ASSUMEs of the modules: the
requests of `Commerce` and `Receipts` are finite and of disjoint kinds, the carts
and jobs are what the validators accept, the writes, shops and variants of
`Reports` are finite, the limits and lifetimes are natural numbers, and `None` is
none of the values it stands in for. TLC evaluates them in every run.

Every invariant and every action property of the runs that pass is a theorem, and
so is the refinement. Only model-checked is liveness (`EveryRequestAnswered`,
`SaleAnswered`, `StandingCatchesUp`, `ImportEnds`, `TradeAnswered`), because the
prover knows neither ENABLED nor fairness. The properties of the violated runs and
configurations are false, and TLC shows how.

## Not modelled

Prices, discounts and totals of `Commerce` (amounts are inputs), cost and selling
prices of batches. Price resolution is three reads in order of priority;
`updateShopSellingPrice` has no caller, and two concurrent updates of a variant may
leave its selling price below its cost price. In `Reports`, cost prices, stock
values and receipts. In `Catalog`, default prices, images, the dry run of an import
(it writes nothing) and the product sheet; of the writes a body of a product may
nest, those to other tables, the deletion of variants, and ids that it names for
rows to create. In `Access`, the `authorize` of a route, which looks at the token's
role before the handler looks at the row's, and a shop that moves to another
organization (`UpdateShop` of `Staffing`); `requireShopAccess` is used by no route.
In `Staffing`, what an unfiltered body nests beyond the assignments of the row.
Passwords, phone numbers and the Firestore profile of a person; `isActive` in
`Staffing` (it is `standing` in `Sessions` and `active` in `Access`, and guards only
the founding there); the hierarchy of branches; the audit log that `auth.service.ts`
writes and nothing reads back; notifications of users, which nothing writes.
`InventoryTransfer` and `Supplier` have tables but no code that writes them.
Spreadsheets, uploads, the wiring of routes and the API documentation are I/O; the
seeds and the audit script are run by hand.
