-------------------------------- MODULE Staffing --------------------------------
(***************************************************************************)
(* The people of Agrovet: their accounts in Firebase, their rows in the    *)
(* User table, the organization, role and shops they are given there.      *)
(* auth.service.ts registers and exchanges, organization.service.ts        *)
(* founds, org-users.service.ts and provision-invited-user.ts invite,      *)
(* update and deactivate.                                                  *)
(*                                                                         *)
(* None of these handlers holds a lock over what it has checked: it reads, *)
(* calls Firebase or hashes a password, and writes later.  A job is the    *)
(* handler between its reads and its write, with the row it will write.    *)
(***************************************************************************)
EXTENDS Naturals, FiniteSets

CONSTANTS
  Email, Uid,      \* what identifies a person in both systems
  User,            \* rows of the User table
  Org, Shop,
  Handler,         \* requests that are served at the same time
  Platform,        \* the platform roles in use: ADMIN, SUPER_ADMIN or both
  MaxChanges,      \* rows and shops that unfiltered bodies change, and accounts
                   \* that get another email (bound)
  None

VARIABLES
  account,   \* the email of each Firebase account, None if there is no account
  borne,     \* the emails an account has had: its ID tokens name one of them
  spent,     \* the uids that Firebase has given out
  granted,   \* the platform roles an account has been granted as a claim
  user,      \* the rows; one whose role is None does not exist
  org,       \* the organizations that exist
  shop,      \* the organization of each shop, None if there is no shop
  closed,    \* the shops that were deleted
  rewritten, \* the rows that an unfiltered body has changed, beyond the email
  moved,     \* the shops that an unfiltered body has moved to an organization
  job

firebase == << account, borne, spent, granted >>
people == << user, rewritten >>
places == << org, shop, closed, moved >>
vars == << account, borne, spent, granted, user, rewritten, org, shop, closed, moved, job >>

Invited == {"STAFF", "MANAGER"}
Role == Invited \cup Platform \cup {"OWNER"}
Access == {"ONE_SHOP", "ALL_SHOPS"}

ASSUME PlatformAssumption == Platform \subseteq {"ADMIN", "SUPER_ADMIN"}
ASSUME BoundAssumption == MaxChanges \in Nat
ASSUME NoneIsNew == None \notin Email \cup Uid \cup User \cup Org \cup Shop \cup Role \cup Access

Row(e, i, r, o, a, s) ==
  [email |-> e, uid |-> i, role |-> r, org |-> o, access |-> a, staffIn |-> s]

NoRow == Row(None, None, None, None, None, {})

Idle == [at |-> "idle", of |-> None, row |-> NoRow]

Job(at, u, row) == [at |-> at, of |-> u, row |-> row]

-------------------------------------------------------------------------------

Init ==
  /\ account = [i \in Uid |-> None]
  /\ borne = [i \in Uid |-> {}]
  /\ spent = {}
  /\ granted = [i \in Uid |-> {}]
  /\ user = [u \in User |-> NoRow]
  /\ org = {}
  /\ shop = [s \in Shop |-> None]
  /\ closed = {}
  /\ rewritten = {}
  /\ moved = {}
  /\ job = [h \in Handler |-> Idle]

Exists(u) == user[u].role # None

EmailFree(e) == \A u \in User : user[u].email # e

UidFree(i) == \A u \in User : user[u].uid # i

(* Mutant: a field that is not given is written all the same. *)
GivenAlways(new, old) == new

(* What a request gives, or what was there. *)
Given(new, old) == IF new = None THEN old ELSE new

Begin(h, j) ==
  /\ job[h] = Idle
  /\ job' = [job EXCEPT ![h] = j]

End(h) == job' = [job EXCEPT ![h] = Idle]

(* Insert a row and end: its email and uid are unique, its shop exists. *)
Insert(h, new) ==
  /\ EmailFree(new.email)
  /\ new.uid = None \/ UidFree(new.uid)
  /\ \A s \in new.staffIn : shop[s] # None
  /\ \E u \in User : ~Exists(u) /\ user' = [user EXCEPT ![u] = new]
  /\ End(h)
  /\ UNCHANGED << firebase, rewritten, places >>

(* A unique or foreign key violation, an error of the database or of       *)
(* Firebase, a crash: what was written before stays.                       *)
Fails(h) ==
  /\ job[h] # Idle
  /\ End(h)
  /\ UNCHANGED << firebase, people, places >>

(* The bound on the changes that come from outside these handlers. *)
MayChange ==
  Cardinality(rewritten) + Cardinality(moved)
    + Cardinality({i \in Uid : Cardinality(borne[i]) > 1}) < MaxChanges

-------------------------------------------------------------------------------
(* Firebase *)

(* Somebody signs up in the app. *)
SignUp ==
  \E i \in Uid \ spent, e \in Email :
    /\ \A k \in Uid : account[k] # e
    /\ account' = [account EXCEPT ![i] = e]
    /\ borne' = [borne EXCEPT ![i] = {e}]
    /\ spent' = spent \cup {i}
    /\ UNCHANGED << granted, people, places, job >>

(* scripts/provision-firebase-global-role.ts.  Tokens issued before a grant *)
(* stay valid, so a grant only adds a role the account may present.         *)
Grant ==
  \E i \in Uid, r \in Platform :
    /\ account[i] # None
    /\ granted' = [granted EXCEPT ![i] = @ \cup {r}]
    /\ UNCHANGED << account, borne, spent, people, places, job >>

(* PUT /api/firebase/profile gives the account another email, ...          *)
ProfileMails(h) ==
  \E i \in Uid, e \in Email :
    /\ account[i] # None
    /\ \A k \in Uid \ {i} : account[k] # e
    /\ e \in borne[i] \/ MayChange
    /\ account' = [account EXCEPT ![i] = e]
    /\ borne' = [borne EXCEPT ![i] = @ \cup {e}]
    /\ Begin(h, Job("profile", None, Row(e, i, None, None, None, {})))
    /\ UNCHANGED << spent, granted, people, places >>

(* ... and then the row that is linked to the account, if there is one.    *)
ProfileSaves(h) ==
  \E u \in User :
    LET new == job[h].row
    IN  /\ job[h].at = "profile"
        /\ user[u].uid = new.uid
        /\ user[u].email = new.email \/ EmailFree(new.email)
        /\ user' = [user EXCEPT ![u].email = new.email]
        /\ End(h)
        /\ UNCHANGED << firebase, rewritten, places >>

-------------------------------------------------------------------------------
(* Registration and exchange *)

(* An OWNER or ADMIN needs an organization, a SUPER_ADMIN has none. *)
RegisterReads(h) ==
  \E e \in Email, r \in Role \ Invited, o \in org \cup {None} :
    /\ EmailFree(e)
    /\ (o = None) = (r = "SUPER_ADMIN")
    /\ Begin(h, Job("register", None, Row(e, None, r, o, None, {})))
    /\ UNCHANGED << firebase, people, places >>

RegisterSaves(h) == job[h].at = "register" /\ Insert(h, job[h].row)

(* Mutant: the role is always synced. *)
SyncedAlways(u, r) == IF user[u].role = r THEN None ELSE r

(* The mapped role, unless the row has one that an owner gave it. *)
SyncedRole(u, r) == IF user[u].role \in Invited \cup {r} THEN None ELSE r

(* A person exchanges an ID token.  The row is looked up by the email in   *)
(* the token; in a row to update, None stands for a field left alone.      *)
ExchangeReads(h) ==
  \E i \in Uid, e \in Email, r \in Role :
    /\ account[i] # None
    /\ e \in borne[i]
    /\ r \in {"OWNER"} \cup granted[i]
    /\ \/ /\ EmailFree(e)
          /\ Begin(h, Job("exchange", None, Row(e, i, r, None, None, {})))
       \/ \E u \in User :
            /\ user[u].email = e
            /\ user[u].uid \in {None, i}
            /\ user[u].uid = None \/ SyncedRole(u, r) # None
            /\ Begin(h, Job("link", u, Row(None, IF user[u].uid = None THEN i ELSE None,
                                           SyncedRole(u, r), None, None, {})))
    /\ UNCHANGED << firebase, people, places >>

ExchangeCreates(h) == job[h].at = "exchange" /\ Insert(h, job[h].row)

ExchangeLinks(h) ==
  LET new == job[h].row
      u == job[h].of
  IN  /\ job[h].at = "link"
      /\ new.uid \in {None, user[u].uid} \/ UidFree(new.uid)
      /\ user' = [user EXCEPT ![u].uid = Given(new.uid, @),
                              ![u].role = Given(new.role, @)]
      /\ End(h)
      /\ UNCHANGED << firebase, rewritten, places >>

-------------------------------------------------------------------------------
(* Bodies that reach the database as they came *)

(* What one column of a row, or its assignments, may become. *)
Rewrites(x) ==
       {[x EXCEPT !.uid = i] : i \in {j \in spent : UidFree(j)} \cup {None}}
  \cup {[x EXCEPT !.role = r] : r \in Role}
  \cup {[x EXCEPT !.org = o] : o \in org \cup {None}}
  \cup {[x EXCEPT !.access = a] : a \in Access \cup {None}}
  \cup {[x EXCEPT !.staffIn = S] : S \in SUBSET {s \in Shop : shop[s] # None}}

(* PUT /api/auth/profile, and what a body writes through a relation: the   *)
(* email, or any column of the row; a body of several is several steps.    *)
UpdateProfile ==
  \E u \in User :
    /\ Exists(u)
    /\ \/ \E e \in Email :
            /\ user[u].email = e \/ EmailFree(e)
            /\ user' = [user EXCEPT ![u].email = e]
            /\ UNCHANGED rewritten
       \/ /\ MayChange
          /\ \E x \in Rewrites(user[u]) : user' = [user EXCEPT ![u] = x]
          /\ rewritten' = rewritten \cup {u}
    /\ UNCHANGED << firebase, places, job >>

(* PUT /api/shops/:id: the body may name another organization. *)
UpdateShop ==
  \E s \in Shop, o \in org :
    /\ shop[s] # None
    /\ MayChange
    /\ shop' = [shop EXCEPT ![s] = o]
    /\ moved' = moved \cup {s}
    /\ UNCHANGED << firebase, people, org, closed, job >>

-------------------------------------------------------------------------------
(* Organizations and shops *)

(* createOrganizationForUser reads the user in its transaction, ... *)
FoundReads(h) ==
  \E u \in User :
    /\ Exists(u)
    /\ user[u].role # "SUPER_ADMIN"
    /\ user[u].org = None
    /\ Begin(h, Job("found", u, NoRow))
    /\ UNCHANGED << firebase, people, places >>

(* ... and then creates the organization and updates the user by its id.   *)
FoundSaves(h) ==
  \E o \in Org \ org :
    /\ job[h].at = "found"
    /\ org' = org \cup {o}
    /\ user' = [user EXCEPT ![job[h].of].org = o, ![job[h].of].role = "OWNER"]
    /\ End(h)
    /\ UNCHANGED << firebase, rewritten, shop, closed, moved >>

CreateShop ==
  \E s \in Shop \ closed, o \in org :
    /\ shop[s] = None
    /\ shop' = [shop EXCEPT ![s] = o]
    /\ UNCHANGED << firebase, people, org, closed, moved, job >>

(* A shop that somebody is assigned to cannot be deleted. *)
DeleteShop ==
  \E s \in Shop :
    /\ shop[s] # None
    /\ \A u \in User : s \notin user[u].staffIn
    /\ shop' = [shop EXCEPT ![s] = None]
    /\ closed' = closed \cup {s}
    /\ UNCHANGED << firebase, people, org, moved, job >>

-------------------------------------------------------------------------------
(* Invitations and assignments *)

(* Mutant: a manager of all shops may name one. *)
LaxAssignment(r, a, s) ==
  \/ r = "STAFF" /\ a = None /\ s # None
  \/ r = "MANAGER" /\ a = "ONE_SHOP" /\ s # None
  \/ r = "MANAGER" /\ a = "ALL_SHOPS"

(* validateAssignment, with the shop the person will get or None. *)
ValidAssignment(r, a, s) ==
  \/ r = "STAFF" /\ a = None /\ s # None
  \/ r = "MANAGER" /\ a = "ONE_SHOP" /\ s # None
  \/ r = "MANAGER" /\ a = "ALL_SHOPS" /\ s = None

(* Mutant: the shop has only to exist. *)
AnyShop(s, o) == s \in Shop => shop[s] # None

(* validateShop *)
ShopOf(s, o) == s \in Shop => shop[s] = o

Assigned(s) == {s} \ {None}

InviteReads(h) ==
  \E e \in Email, o \in org, r \in Invited, a \in Access \cup {None}, s \in Shop \cup {None} :
    /\ ValidAssignment(r, a, s)
    /\ ShopOf(s, o)
    /\ EmailFree(e)
    /\ Begin(h, Job("invite", None, Row(e, None, r, o, a, Assigned(s))))
    /\ UNCHANGED << firebase, people, places >>

(* provisionInvitedFirebaseUser creates the account, ... *)
Provision(h) ==
  \E i \in Uid \ spent :
    /\ job[h].at = "invite"
    /\ \A k \in Uid : account[k] # job[h].row.email
    /\ account' = [account EXCEPT ![i] = job[h].row.email]
    /\ borne' = [borne EXCEPT ![i] = {job[h].row.email}]
    /\ spent' = spent \cup {i}
    /\ job' = [job EXCEPT ![h].at = "provisioned", ![h].row.uid = i]
    /\ UNCHANGED << granted, people, places >>

(* ... and deletes it again if the claim or the profile cannot be set.     *)
ProvisionFails(h) ==
  /\ job[h].at = "provisioned"
  /\ account' = [account EXCEPT ![job[h].row.uid] = None]
  /\ End(h)
  /\ UNCHANGED << borne, spent, granted, people, places >>

(* Mutant: the row does not name the account. *)
InviteSavesUnlinked(h) ==
  job[h].at = "provisioned" /\ Insert(h, [job[h].row EXCEPT !.uid = None])

(* The user and its assignment, in one transaction.  If it fails, nothing  *)
(* deletes the account.                                                    *)
InviteSaves(h) == job[h].at = "provisioned" /\ Insert(h, job[h].row)

(* A request that leaves a field out takes it from the row it has read: a  *)
(* manager's access, and a shop where the new access needs one.            *)
AccessAfter(u, role, a) == IF role = "MANAGER" THEN Given(a, user[u].access) ELSE a

ShopsAfter(u, access, s) ==
  IF s = None /\ access # "ALL_SHOPS" /\ user[u].staffIn # {}
  THEN user[u].staffIn ELSE {s}

AssignReads(h, u, e, r, a, s) ==
  /\ user[u].role \in Invited
  /\ user[u].org # None
  /\ ValidAssignment(r, a, s)
  /\ ShopOf(s, user[u].org)
  /\ Begin(h, Job("update", u, Row(e, None, r, None, a, Assigned(s))))
  /\ UNCHANGED << firebase, people, places >>

UpdateReads(h) ==
  \E u \in User, e \in Email \cup {None}, r \in Invited \cup {None},
     a \in Access \cup {None}, s \in Shop \cup {None} :
    LET role == Given(r, user[u].role)
        access == AccessAfter(u, role, a)
    IN  \E x \in ShopsAfter(u, access, s) : AssignReads(h, u, e, role, access, x)

(* The user, and its assignments deleted and created, in one transaction.  *)
UpdateSaves(h) ==
  LET new == job[h].row
      u == job[h].of
  IN  /\ job[h].at = "update"
      /\ new.email \in {None, user[u].email} \/ EmailFree(new.email)
      /\ \A s \in new.staffIn : shop[s] # None
      /\ user' = [user EXCEPT ![u].email = Given(new.email, @), ![u].role = new.role,
                              ![u].access = new.access, ![u].staffIn = new.staffIn]
      /\ End(h)
      /\ UNCHANGED << firebase, rewritten, places >>

-------------------------------------------------------------------------------

Handle(h) ==
  \/ RegisterReads(h) \/ RegisterSaves(h)
  \/ ExchangeReads(h) \/ ExchangeCreates(h) \/ ExchangeLinks(h)
  \/ ProfileMails(h) \/ ProfileSaves(h)
  \/ FoundReads(h) \/ FoundSaves(h)
  \/ InviteReads(h) \/ Provision(h) \/ ProvisionFails(h) \/ InviteSaves(h)
  \/ UpdateReads(h) \/ UpdateSaves(h)
  \/ Fails(h)

Next ==
  \/ SignUp \/ Grant \/ UpdateProfile \/ UpdateShop \/ CreateShop \/ DeleteShop
  \/ \E h \in Handler : Handle(h)

Spec == Init /\ [][Next]_vars

-------------------------------------------------------------------------------
(* Properties *)

RowType ==
  [email : Email \cup {None}, uid : Uid \cup {None}, role : Role \cup {None},
   org : Org \cup {None}, access : Access \cup {None}, staffIn : SUBSET Shop]

JobType ==
  [at : {"idle", "register", "exchange", "link", "profile", "found", "invite", "provisioned",
         "update"},
   of : User \cup {None}, row : RowType]

(* Every variable keeps its type, a row has an email if it has a role, and *)
(* none without a role has a uid.                                          *)
TypeOK ==
  /\ account \in [Uid -> Email \cup {None}]
  /\ borne \in [Uid -> SUBSET Email]
  /\ spent \subseteq Uid
  /\ granted \in [Uid -> SUBSET Platform]
  /\ \A u \in User : /\ user[u].email # None <=> Exists(u)
                     /\ user[u].uid # None => Exists(u)
  /\ user \in [User -> RowType]
  /\ org \subseteq Org
  /\ shop \in [Shop -> Org \cup {None}]
  /\ closed \subseteq Shop
  /\ rewritten \subseteq User
  /\ moved \subseteq Shop
  /\ job \in [Handler -> JobType]

(* The rules of the role: STAFF and ONE_SHOP managers have exactly one      *)
(* shop, ALL_SHOPS managers and all others none, and only managers have an  *)
(* access.                                                                  *)
Fits(x) ==
  /\ x.role = "STAFF" => x.access = None /\ \E s \in Shop : x.staffIn = {s}
  /\ x.role = "MANAGER" => \/ x.access = "ONE_SHOP" /\ \E s \in Shop : x.staffIn = {s}
                           \/ x.access = "ALL_SHOPS" /\ x.staffIn = {}
  /\ x.role \notin Invited => x.access = None /\ x.staffIn = {}

(* Role, access and assignments of a person fit together, whatever         *)
(* handlers have written them and in whatever order, unless an unfiltered  *)
(* body has changed the row.                                               *)
AssignmentFits == \A u \in User \ rewritten : Fits(user[u])

(* Nobody is assigned to a shop that is gone, nor, unless an unfiltered    *)
(* body has changed the row or moved the shop, to one of another           *)
(* organization.                                                           *)
AssignedWithinOrg ==
  \A u \in User, s \in Shop : s \in user[u].staffIn =>
    /\ shop[s] # None
    /\ u \in rewritten \/ s \in moved \/ shop[s] = user[u].org

(* Somebody who was invited has an account to sign in with, and it is not  *)
(* one that a failed invitation takes back, unless an unfiltered body has  *)
(* changed the row.                                                        *)
InvitedHasAccount ==
  \A u \in User \ rewritten : user[u].role \in Invited =>
    /\ user[u].uid # None /\ account[user[u].uid] # None
    /\ \A h \in Handler : job[h].at = "provisioned" => job[h].row.uid # user[u].uid

(* Whoever an owner invited stays invited, as STAFF or as MANAGER, in the  *)
(* organization: no exchange, founding or handler that read the row before *)
(* makes somebody else of them.  Only an unfiltered body may.  Which of    *)
(* the two roles stays after two updates at once is not said: the last     *)
(* one's.                                                                  *)
InvitedStaysInvited ==
  [][\A u \in User \ rewritten' : user[u].role \in Invited =>
       user'[u].role \in Invited /\ user'[u].org = user[u].org]_vars

(* 'User already belongs to an organization'. *)
StaysInOrg ==
  [][\A u \in User : user[u].org # None => user'[u].org = user[u].org]_vars

(* 'Optional because SUPER_ADMIN doesn't belong to any org'. *)
SuperAdminHasNoOrg ==
  \A u \in User : user[u].role = "SUPER_ADMIN" => user[u].org = None

-------------------------------------------------------------------------------
(* The inductive invariants behind the properties *)

(* The shops a handler has validated are still the organization's, or were *)
(* moved by an unfiltered body, or are gone.                               *)
WasWithin(o, S) == o # None /\ \A s \in S : shop[s] = o \/ s \in moved \cup closed

(* A job's row will fit, and a row that is to be changed belongs to the    *)
(* same kind of user as when it was read, if no unfiltered body changed it. *)
JobFine(j) ==
  LET new == j.row
      u == j.of
  IN  /\ j.at \in {"register", "exchange"} =>
           new.email # None /\ new.role \in Role \ Invited /\ Fits(new)
      /\ j.at \in {"invite", "provisioned"} =>
           new.email # None /\ new.role \in Invited /\ Fits(new) /\ WasWithin(new.org, new.staffIn)
      /\ j.at = "profile" => new.email # None /\ new.uid # None
      /\ j.at \in {"link", "found", "update"} => u \in User /\ Exists(u)
      /\ j.at = "link" =>
           /\ new.role \notin Invited
           /\ u \notin rewritten /\ user[u].role \in Invited => new.role = None
      /\ j.at = "found" => u \in rewritten \/ user[u].role \notin Invited
      /\ j.at = "update" =>
           /\ new.role \in Invited /\ Fits(new)
           /\ \/ u \in rewritten
              \/ user[u].role \in Invited /\ WasWithin(user[u].org, new.staffIn)

JobOK == \A h \in Handler : JobFine(job[h])

(* A shop that was deleted does not come back. *)
ClosedOK == \A s \in closed : shop[s] = None

(* Whoever was invited has an organization, and so cannot found one. *)
InvitedHasOrg == \A u \in User \ rewritten : user[u].role \in Invited => user[u].org # None

AssignmentInv ==
  TypeOK /\ JobOK /\ ClosedOK /\ InvitedHasOrg /\ AssignmentFits /\ AssignedWithinOrg

(* Every account's uid has been given out, no two invitations have one, and *)
(* no exchange is about to link a person who was invited.                  *)
UidOK ==
  /\ \A i \in Uid : account[i] # None => i \in spent
  /\ \A h \in Handler : job[h].at = "provisioned" =>
       job[h].row.uid \in spent /\ account[job[h].row.uid] # None
  /\ \A h, k \in Handler :
       job[h].at = "provisioned" /\ job[k].at = "provisioned" /\ h # k
         => job[h].row.uid # job[k].row.uid
  /\ \A h \in Handler : job[h].at = "link" =>
       \/ job[h].of \in rewritten \/ user[job[h].of].role \notin Invited
       \/ job[h].row.uid = None

AccountInv == UidOK /\ InvitedHasAccount

================================================================================
