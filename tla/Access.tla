--------------------------------- MODULE Access ---------------------------------
(***************************************************************************)
(* Who may do what: the checks a request passes before its operation runs. *)
(*                                                                         *)
(* A check reads the user, the shop assignments or the shop by a statement *)
(* of its own, while that user's role, access, organization or shops are   *)
(* changed.  The role in an access token is one that the user has had.  An *)
(* operation is the sequence of its checks and then one effect, of which   *)
(* only the shops that it shows or changes are kept.                       *)
(*                                                                         *)
(* One person makes all requests.  Shops and organizations stay as they    *)
(* are; what an operation does to money and stock is in other modules.     *)
(***************************************************************************)
EXTENDS Integers, Sequences, FiniteSets, FiniteSetsExt

CONSTANTS
  Orgs, Shops,    \* shops are numbers: the order of their ids
  OrgOf, Owned,   \* a shop's organization, and the shops the person owns
  Rows,           \* what the person's row may be at the beginning
  Written,        \* what an unfiltered body may make of it
  Requests,       \* requests of the person
  MaxChanges      \* bound of the changes of the person's row

Role == {"SUPER_ADMIN", "ADMIN", "OWNER", "MANAGER", "STAFF"}
NoOrg == "none"
NoShop == 0
Row == [role : Role, org : Orgs \cup {NoOrg}, access : {"NONE", "ONE_SHOP", "ALL_SHOPS"},
        active : BOOLEAN, staff : SUBSET Shops]

ShopOps == {"sale", "expense", "inventory", "receipt", "cash", "purchase", "purchases", "stock",
            "funding"}
OrgOps == {"ledgers", "stockReport", "orgReceipts", "business", "pastReports", "finance", "shops",
           "settings"}
Op == ShopOps \cup OrgOps

ShopsOf(org) == {s \in Shops : OrgOf[s] = org}

\* The assignments of a person, as Staffing keeps them: AssignmentFits, AssignedWithinOrg.
Fits(v) ==
  /\ v.staff \subseteq ShopsOf(v.org)
  /\ \A s, t \in v.staff : s = t
  /\ v.staff # {} => v.role = "STAFF" \/ (v.role = "MANAGER" /\ v.access = "ONE_SHOP")
  /\ v.role = "MANAGER" => v.access # "NONE"

ASSUME AccessSetting ==
  /\ Shops \subseteq Nat \ {NoShop} /\ NoOrg \notin Orgs
  /\ OrgOf \in [Shops -> Orgs] /\ Owned \subseteq Shops /\ Rows \cup Written \subseteq Row
  /\ MaxChanges \in Nat
  /\ \A v \in Rows : Fits(v)

VARIABLES
  row,      \* the person's User and ShopStaff rows
  issued,   \* the roles that access tokens of the person may name
  changes,  \* how often the row has changed
  req       \* the handlers

vars == << row, issued, changes, req >>

ActorRow(v) == [role |-> v.role, org |-> v.org, access |-> v.access]
NoActor == [role |-> "STAFF", org |-> NoOrg, access |-> "NONE"]
WithoutLimit == [all |-> TRUE, shops |-> {}]
Fresh == [pc |-> "idle", op |-> "sale", shop |-> NoShop, org |-> NoOrg, role |-> "STAFF",
          todo |-> << >>, actor |-> NoActor, base |-> NoActor, scope |-> WithoutLimit,
          seen |-> {}, served |-> {}, out |-> "none"]

Init ==
  /\ row \in Rows
  /\ issued = {row.role}
  /\ changes = 0
  /\ req = [r \in Requests |-> Fresh]

---------------------------------------------------------------------------
\* permissions.ts

IsPlatformAdmin(a) == a.role \in {"ADMIN", "SUPER_ADMIN"}
CanManageUsers(a) == a.role = "OWNER" \/ IsPlatformAdmin(a)
CanAddOrgFunding(a) == CanManageUsers(a) \/ (a.role = "MANAGER" /\ a.access = "ALL_SHOPS")
CanAddStock(a) == CanManageUsers(a) \/ a.role = "MANAGER"
CanGenerateReports(a, allShops) ==
  CanManageUsers(a) \/ (a.role = "MANAGER" /\ (a.access = "ALL_SHOPS" \/ ~allShops))
CanGenerateBusinessReport(a) == CanManageUsers(a) \/ a.role = "MANAGER"
ShopOpsAllowed(a) == a.role \in {"OWNER", "MANAGER", "STAFF"} \/ IsPlatformAdmin(a)

Permit(op, a, shop) ==
  CASE op \in {"purchase", "stock"} -> CanAddStock(a)
    [] op = "funding" -> CanAddOrgFunding(a)
    [] op \in {"ledgers", "stockReport"} -> CanGenerateReports(a, shop = NoShop)
    [] op \in {"business", "pastReports"} -> CanGenerateBusinessReport(a)
    [] op = "settings" -> CanManageUsers(a)
    [] OTHER -> ShopOpsAllowed(a)

---------------------------------------------------------------------------
\* The checks of each operation, in the order of its handler.

\* "scope", "staff" and "shop" are assertShopInScope, and with "whole" resolveShopScope.

Guarded == << "actor", "scope", "staff", "shop", "permit" >>
Managed == << "actor", "permit", "scope", "staff", "shop" >>
ByRole == << "member", "actor", "permit" >>
ByShop == << "member", "actor", "permit", "scope", "staff", "shop" >>
ByScope == << "member", "actor", "permit", "scope", "staff", "whole" >>

SaleChecks == Guarded           \* to create, list and refund sales
ExpenseChecks == Guarded
PurchaseChecks == Guarded       \* to create purchases, and to list them
InventoryReadChecks == Guarded
ReceiptChecks == Guarded        \* to list, show, print and void receipts
CashChecks == Guarded
StockChecks == Managed
FundingChecks == Managed
\* Sales, expenses and purchases of an organization, or of one of its shops.
LedgerChecks(shop) == IF shop = NoShop THEN ByRole ELSE ByShop
\* Its stock, and the changes of it.
StockReportChecks(shop) == IF shop = NoShop THEN ByRole ELSE ByShop
OrgReceiptChecks(shop) == IF shop = NoShop THEN ByScope ELSE ByShop
BusinessChecks == ByScope
PastReportChecks == ByRole
FinanceChecks == << "member" >>
ShopListChecks == << "member", "scope", "staff", "whole" >>
SettingsChecks == << "actor", "permit", "own" >>

Checks(op, shop) ==
  CASE op = "sale" -> SaleChecks
    [] op = "expense" -> ExpenseChecks
    [] op \in {"purchase", "purchases"} -> PurchaseChecks
    [] op = "inventory" -> InventoryReadChecks
    [] op = "receipt" -> ReceiptChecks
    [] op = "cash" -> CashChecks
    [] op = "stock" -> StockChecks
    [] op = "funding" -> FundingChecks
    [] op = "ledgers" -> LedgerChecks(shop)
    [] op = "stockReport" -> StockReportChecks(shop)
    [] op = "orgReceipts" -> OrgReceiptChecks(shop)
    [] op = "business" -> BusinessChecks
    [] op = "pastReports" -> PastReportChecks
    [] op = "finance" -> FinanceChecks
    [] op = "shops" -> ShopListChecks
    [] op = "settings" -> SettingsChecks

AskedShops(op) ==
  CASE op \in ShopOps -> Shops
    [] op \in {"ledgers", "stockReport", "orgReceipts", "business"} -> Shops \cup {NoShop}
    [] OTHER -> {NoShop}
AskedOrgs(op) == IF op \in ShopOps THEN {NoOrg} ELSE Orgs

---------------------------------------------------------------------------
\* The request and its checks.

Checking(r, check) == req[r].pc = "checking" /\ req[r].todo # << >> /\ Head(req[r].todo) = check
Ready(r) == req[r].pc = "checking" /\ req[r].todo = << >>
Answer(r, out) == req' = [req EXCEPT ![r].pc = "answered", ![r].out = out]
Passed(r) == [req[r] EXCEPT !.todo = Tail(@)]
PassIf(r, ok) == IF ok THEN req' = [req EXCEPT ![r] = Passed(r)] ELSE Answer(r, "refused")
Rest == << row, issued, changes >>

\* authenticate: an access token, whose role nobody compares with the row's, or a
\* Firebase token, for which the row is read.
Start(r) ==
  /\ req[r].pc = "idle"
  /\ \E op \in Op, role \in issued :
       \E shop \in AskedShops(op), org \in AskedOrgs(op) :
         req' = [req EXCEPT ![r] = [Fresh EXCEPT
                   !.pc = "checking", !.op = op, !.shop = shop, !.org = org, !.role = role,
                   !.todo = Checks(op, shop), !.seen = {row}]]
  /\ UNCHANGED Rest

\* assertOrganizationAccess
Member(r) ==
  /\ Checking(r, "member")
  /\ PassIf(r, req[r].role = "SUPER_ADMIN" \/ (row.active /\ row.org = req[r].org))
  /\ UNCHANGED Rest

\* mutant: the actor has the role of the token
ActorOfToken(r) ==
  /\ Checking(r, "actor")
  /\ IF row.active
     THEN req' = [req EXCEPT ![r] = [Passed(r) EXCEPT
                    !.actor = [role |-> req[r].role, org |-> row.org, access |-> row.access]]]
     ELSE Answer(r, "refused")
  /\ UNCHANGED Rest

\* loadAuthActor
Actor(r) ==
  /\ Checking(r, "actor")
  /\ IF row.active
     THEN req' = [req EXCEPT ![r] = [Passed(r) EXCEPT !.actor = ActorRow(row)]]
     ELSE Answer(r, "refused")
  /\ UNCHANGED Rest

Permission(r) ==
  /\ Checking(r, "permit")
  /\ PassIf(r, Permit(req[r].op, req[r].actor, req[r].shop))
  /\ UNCHANGED Rest

\* assertSettingsAccess
OwnOrg(r) ==
  /\ Checking(r, "own")
  /\ PassIf(r, req[r].actor.role = "OWNER" => req[r].actor.org = req[r].org)
  /\ UNCHANGED Rest

---------------------------------------------------------------------------
\* resolveShopScope and assertShopInScope.

\* Platform administrators are not asked; the list of shops asks by the token's role.
Unasked(q) ==
  IF q.op = "shops" THEN q.role \notin {"STAFF", "MANAGER"} ELSE IsPlatformAdmin(q.actor)

\* The user's row; the assignments are read by another statement.
ScopeUser(r) ==
  /\ Checking(r, "scope")
  /\ req' = [req EXCEPT ![r] =
       IF Unasked(req[r]) THEN [req[r] EXCEPT !.todo = SubSeq(req[r].todo, 4, Len(req[r].todo))]
       ELSE [Passed(r) EXCEPT !.base = ActorRow(row)]]
  /\ UNCHANGED Rest

AllShopsAccess(b) == b.role = "OWNER" \/ (b.role = "MANAGER" /\ b.access = "ALL_SHOPS")
SingleShopRole(b) == b.role = "STAFF" \/ (b.role = "MANAGER" /\ b.access = "ONE_SHOP")

\* mutant: a manager of one shop has all shops
ScopeOfManager(b, staff) ==
  IF b.role \in {"OWNER", "MANAGER"} THEN [all |-> TRUE, shops |-> ShopsOf(b.org)]
  ELSE [all |-> FALSE, shops |-> {s \in staff : s = Min(staff)}]

\* A user with a single shop has the first one.
ScopeOf(b, staff) ==
  IF AllShopsAccess(b) THEN [all |-> TRUE, shops |-> ShopsOf(b.org)]
  ELSE [all |-> FALSE,
        shops |-> IF SingleShopRole(b) THEN {s \in staff : s = Min(staff)} ELSE Owned \cup staff]

ScopeShops(r) ==
  /\ Checking(r, "staff")
  /\ req' = [req EXCEPT ![r] = [Passed(r) EXCEPT !.scope = ScopeOf(req[r].base, row.staff)]]
  /\ UNCHANGED Rest

\* With all shops, the user's organization and the shop's are read again.
ShopInScope(r) ==
  /\ Checking(r, "shop")
  /\ PassIf(r, IF req[r].scope.all THEN row.org # NoOrg /\ OrgOf[req[r].shop] = row.org
               ELSE req[r].shop \in req[r].scope.shops)
  /\ UNCHANGED Rest

WholeScope(r) ==
  /\ Checking(r, "whole")
  /\ PassIf(r, req[r].op = "orgReceipts" => req[r].scope.all)
  /\ UNCHANGED Rest

---------------------------------------------------------------------------
\* The operations.

InOrg(q) ==
  {s \in ShopsOf(q.org) : q.scope.all \/ s \in q.scope.shops}

\* mutant: a report without a shop is filtered by the shop all the same
ServedFiltered(q) ==
  CASE q.op \in ShopOps \cup {"ledgers", "stockReport", "orgReceipts", "business"} -> {q.shop}
    [] q.op = "shops" -> InOrg(q)
    [] q.op \in {"finance", "pastReports"} -> ShopsOf(q.org)
    [] OTHER -> {}

\* Finance and past reports are those of all shops of the organization.
Served(q) ==
  CASE q.op \in ShopOps -> {q.shop}
    [] q.op \in {"ledgers", "stockReport", "orgReceipts"} ->
         {s \in ShopsOf(q.org) : q.shop \in {NoShop, s}}
    [] q.op = "business" -> IF q.shop = NoShop THEN InOrg(q) ELSE {q.shop}
    [] q.op = "shops" -> InOrg(q)
    [] q.op \in {"finance", "pastReports"} -> ShopsOf(q.org)
    [] OTHER -> {}

\* resolveReportShops: a shop outside the scope, or no shop at all.
Outside(q) == q.op = "business" /\ (InOrg(q) = {} \/ ~ (Served(q) \subseteq InOrg(q)))

Serve(r) ==
  /\ Ready(r)
  /\ IF Outside(req[r]) THEN Answer(r, "refused")
     ELSE req' = [req EXCEPT ![r].pc = "answered", ![r].out = "ok", ![r].served = Served(req[r])]
  /\ UNCHANGED Rest

\* The service refuses, or the database fails.
ServeFails(r) ==
  /\ Ready(r)
  /\ Answer(r, "error")
  /\ UNCHANGED Rest

---------------------------------------------------------------------------
\* What becomes of the person's row.

Sees(new) == req' = [r \in Requests |-> IF req[r].pc \in {"idle", "answered"} THEN req[r]
                                        ELSE [req[r] EXCEPT !.seen = @ \cup {new}]]
\* Signing in and refreshing issue tokens to an active user, with the role of the row.
Change(new) ==
  /\ changes < MaxChanges /\ new # row
  /\ row' = new /\ changes' = changes + 1 /\ Sees(new)
  /\ issued' = issued \cup (IF new.active THEN {new.role} ELSE {})

\* updateOrgUser: staff and managers only, and at most one shop, of the organization.
Reassign ==
  /\ row.role \in {"STAFF", "MANAGER"} /\ row.org # NoOrg
  /\ \/ \E s \in ShopsOf(row.org) :
          Change([row EXCEPT !.role = "STAFF", !.access = "NONE", !.staff = {s}])
     \/ \E s \in ShopsOf(row.org) :
          Change([row EXCEPT !.role = "MANAGER", !.access = "ONE_SHOP", !.staff = {s}])
     \/ Change([row EXCEPT !.role = "MANAGER", !.access = "ALL_SHOPS", !.staff = {}])

\* deactivateOrgUser and deactivateUser
Deactivate == Change([row EXCEPT !.active = FALSE])

\* exchangeFirebaseToken: staff and managers keep their role, the others get that of
\* their Firebase account, whatever their organization.
SyncRole ==
  /\ row.role \notin {"STAFF", "MANAGER"}
  /\ \E role \in {"OWNER", "ADMIN", "SUPER_ADMIN"} : Change([row EXCEPT !.role = role])

\* updateProfile: the body goes to the database as it is.
UpdateProfile == \E new \in Written : Change(new)

\* createOrganizationForUser
Found ==
  /\ row.active /\ row.role # "SUPER_ADMIN" /\ row.org = NoOrg
  /\ \E org \in Orgs : ShopsOf(org) = {} /\ Change([row EXCEPT !.org = org, !.role = "OWNER"])

Next ==
  \/ \E r \in Requests :
       \/ Start(r) \/ Member(r) \/ Actor(r) \/ Permission(r) \/ OwnOrg(r)
       \/ ScopeUser(r) \/ ScopeShops(r) \/ ShopInScope(r) \/ WholeScope(r)
       \/ Serve(r) \/ ServeFails(r)
  \/ Reassign
  \/ Deactivate
  \/ SyncRole
  \/ UpdateProfile
  \/ Found

Spec == Init /\ [][Next]_vars

---------------------------------------------------------------------------
Check == {"member", "actor", "permit", "own", "scope", "staff", "shop", "whole"}
Person == [role : Role, org : Orgs \cup {NoOrg}, access : {"NONE", "ONE_SHOP", "ALL_SHOPS"}]
Request == [pc : {"idle", "checking", "answered"}, op : Op, shop : Shops \cup {NoShop},
            org : Orgs \cup {NoOrg}, role : Role, todo : Seq(Check), actor : Person,
            base : Person, scope : [all : BOOLEAN, shops : SUBSET Shops],
            seen : SUBSET Row, served : SUBSET Shops, out : {"none", "ok", "refused", "error"}]

TypeOK ==
  /\ row \in Row /\ issued \subseteq Role /\ changes \in 0..MaxChanges
  /\ req \in [Requests -> Request]

\* What a handler knows once it has passed a check; what it has read is of a row that
\* the person had during the request.
Pending(q, check) == \E i \in 1..Len(q.todo) : q.todo[i] = check
ByActor(q) == q.op \notin {"finance", "shops"}
Scoped(q) == q.shop # NoShop \/ q.op \in {"orgReceipts", "business", "shops"}
OneShop(q) == q.shop # NoShop /\ q.op # "business"
EveryShop(q) == q.shop = NoShop /\ q.op = "orgReceipts"

RoleKnown(q) ==
  /\ q.op \in OrgOps \ {"settings"} /\ ~ Pending(q, "member") =>
       q.role = "SUPER_ADMIN" \/ \E v \in q.seen : v.active /\ v.org = q.org
  /\ ByActor(q) =>
       IF Pending(q, "actor")
       THEN /\ Pending(q, "permit")
            /\ q.op = "settings" => Pending(q, "own")
            /\ Scoped(q) => Pending(q, "scope")
       ELSE \E v \in q.seen : v.active /\ q.actor = ActorRow(v)
  /\ ByActor(q) /\ ~ Pending(q, "permit") => Permit(q.op, q.actor, q.shop)
  /\ q.op = "settings" /\ ~ Pending(q, "own") =>
       q.actor.role # "OWNER" \/ q.actor.org = q.org

ScopeKnown(q) ==
  IF Pending(q, "scope")
  THEN Pending(q, "staff") /\ q.scope = WithoutLimit
  ELSE IF Unasked(q)
  THEN q.scope = WithoutLimit /\ \A check \in {"staff", "shop", "whole"} : ~ Pending(q, check)
  ELSE /\ \E v \in q.seen : q.base = ActorRow(v)
       /\ ~ Pending(q, "staff") =>
            /\ \E v \in q.seen : q.scope = ScopeOf(q.base, v.staff)
            /\ OneShop(q) /\ ~ Pending(q, "shop") =>
                 IF q.scope.all THEN \E v \in q.seen : v.org = OrgOf[q.shop]
                 ELSE q.shop \in q.scope.shops
            /\ EveryShop(q) /\ ~ Pending(q, "whole") => q.scope.all

Known(q) ==
  /\ RoleKnown(q)
  /\ Pending(q, "staff") => /\ OneShop(q) => Pending(q, "shop")
                            /\ EveryShop(q) => Pending(q, "whole")
  /\ Scoped(q) => ScopeKnown(q)

\* Only checks that the operation needs are left.
Needed(q) ==
  /\ Pending(q, "member") => q.op \in OrgOps \ {"settings"}
  /\ Pending(q, "actor") \/ Pending(q, "permit") => ByActor(q)
  /\ Pending(q, "own") => q.op = "settings"
  /\ Pending(q, "scope") \/ Pending(q, "staff") => Scoped(q)
  /\ Pending(q, "shop") => OneShop(q)
  /\ Pending(q, "whole") => ~ OneShop(q)

\* The checks that are left come in an order in which each finds what it needs.
Ordered(t) ==
  \A j \in 1..Len(t) :
    /\ t[j] = "actor" => \A i \in 1..(j - 1) : t[i] = "member"
    /\ t[j] = "scope" => /\ j + 2 <= Len(t) /\ t[j + 1] = "staff" /\ t[j + 2] \in {"shop", "whole"}
                         /\ \A i \in 1..(j - 1) : t[i] \notin {"staff", "shop", "whole"}
    /\ t[j] = "staff" => j = 1 \/ t[j - 1] = "scope"
    /\ t[j] \in {"shop", "whole"} => j = 1 \/ t[j - 1] = "staff"

RequestOK(q) ==
  /\ q.seen \subseteq Row
  /\ q.pc = "checking" =>
       /\ row \in q.seen
       /\ q.shop \in AskedShops(q.op) /\ q.org \in AskedOrgs(q.op)
       /\ q.out = "none" /\ q.served = {}
       /\ Ordered(q.todo) /\ Needed(q) /\ Known(q)

\* The permission matrix of docs/mobile/roles-shop-scope-integration.md (section 3).
\* It restricts some to their assigned shop in the reports (line 102) and in the
\* finance figures (line 106), where the handlers of past reports and finance ask for
\* the role and the organization only: there the code and the document disagree.
Unrestricted == {"finance", "pastReports"}
MayAct(op, v) ==
  CASE op \in {"sale", "expense", "inventory", "receipt", "cash", "purchases", "orgReceipts"} ->
         v.role \in {"OWNER", "MANAGER", "STAFF"}
    [] op \in {"stock", "purchase", "ledgers", "stockReport", "business", "pastReports"} ->
         v.role \in {"OWNER", "MANAGER"}
    [] op = "funding" -> v.role = "OWNER" \/ (v.role = "MANAGER" /\ v.access = "ALL_SHOPS")
    [] op = "settings" -> v.role = "OWNER"
    [] OTHER -> TRUE
HasShop(v, s) ==
  IF v.role = "OWNER" \/ (v.role = "MANAGER" /\ v.access = "ALL_SHOPS") THEN v.org = OrgOf[s]
  ELSE v.role \in {"STAFF", "MANAGER"} /\ s \in v.staff
Platform(v) == v.role \in {"ADMIN", "SUPER_ADMIN"}

\* What the matrix says of a request: the role, the organization and the shops.
AllShops(v) == v.role = "OWNER" \/ (v.role = "MANAGER" /\ v.access = "ALL_SHOPS")
Entitled(q, v) ==
  /\ v.active /\ MayAct(q.op, v)
  /\ q.op \in OrgOps => v.org = q.org
  /\ q.shop # NoShop => HasShop(v, q.shop)
  /\ q.shop = NoShop /\ q.op \in {"ledgers", "stockReport", "orgReceipts"} => AllShops(v)
  /\ q.shop = NoShop /\ q.op = "business" => \E s \in ShopsOf(q.org) : HasShop(v, s)

\* Two checks take the role from the token: that of the organization lets a SUPER_ADMIN
\* in (organization-access.ts:17), and the list of shops is whole but for staff and
\* managers.  They are right while the row is not another one than the token says.
TokenHolds(q, v) ==
  /\ q.op \in OrgOps \ {"settings"} /\ q.role = "SUPER_ADMIN" => v.role = "SUPER_ADMIN"
  /\ q.op = "shops" /\ q.role \notin {"STAFF", "MANAGER"} => v.role \notin {"STAFF", "MANAGER"}

\* The requests that the matrix speaks of: not of platform administrators, nor while an
\* unfiltered body has made the assignments unfit or moves the person to other shops.
Regular(q) ==
  \A v \in q.seen :
    /\ ~Platform(v) /\ Fits(v) /\ TokenHolds(q, v)
    /\ \A w \in q.seen : ShopsOf(w.org) = ShopsOf(v.org)

\* When the person's row stays as it is during a request, the handlers accept what
\* the permission matrix allows that row, and nothing else, however many checks of
\* different tables make it up and whatever the row was when the token was issued
\* (but see TokenHolds); what they show is of that person's shops (but see
\* Unrestricted).
Just(q) ==
  \A v \in q.seen :
    q.seen = {v} /\ Regular(q) =>
      /\ q.out = "ok" => /\ Entitled(q, v)
                         /\ q.op \notin Unrestricted => \A s \in q.served : HasShop(v, s)
      /\ q.out = "refused" => ~Entitled(q, v)
MatrixHolds == \A r \in Requests : Just(req[r])

\* When it changes meanwhile, the matrix may hold at no instant, since role and
\* shops are read one after the other; but the role, and each of the shops, were
\* the person's at some instant of the request.
HalvesHold ==
  \A r \in Requests : LET q == req[r] IN
    q.out = "ok" /\ Regular(q) =>
      /\ \E v \in q.seen : v.active /\ MayAct(q.op, v)
      /\ q.op \notin Unrestricted => \A s \in q.served : \E v \in q.seen : HasShop(v, s)

AccessInv ==
  /\ TypeOK /\ MatrixHolds /\ HalvesHold
  /\ \A r \in Requests : RequestOK(req[r])

=============================================================================
