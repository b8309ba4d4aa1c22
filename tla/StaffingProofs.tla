---------------------------- MODULE StaffingProofs ----------------------------
(***************************************************************************)
(* Staffing, for any number of people, shops and handlers: role, access    *)
(* and assignments fit together and stay within the organization, whoever  *)
(* was invited stays invited and has an account, except for the rows and   *)
(* shops that an unfiltered body has changed.                              *)
(***************************************************************************)
EXTENDS Staffing, TLAPS

-------------------------------------------------------------------------------
(* The steps that many actions share *)

FirebaseType ==
  /\ account \in [Uid -> Email \cup {None}]
  /\ borne \in [Uid -> SUBSET Email]
  /\ spent \subseteq Uid
  /\ granted \in [Uid -> SUBSET Platform]

(* A row without a person in it has the type of a row, and so does a       *)
(* handler that does nothing.                                              *)
LEMMA EmptyTypes == NoRow \in RowType /\ Idle \in JobType /\ JobFine(Idle)
BY DEF NoRow, Row, RowType, Idle, JobType, JobFine

(* A handler goes on, ends or begins with a row that will fit: rows and    *)
(* shops are as before.                                                    *)
LEMMA SetJob ==
  ASSUME AssignmentInv, NEW h \in Handler, NEW j \in JobType, JobFine(j),
         job' = [job EXCEPT ![h] = j], FirebaseType',
         UNCHANGED << people, places >>
  PROVE  AssignmentInv'
<1>0. /\ user' = user /\ rewritten' = rewritten
      /\ org' = org /\ shop' = shop /\ closed' = closed /\ moved' = moved
  BY DEF people, places
<1>1. TypeOK'
  BY <1>0 DEF AssignmentInv, TypeOK, FirebaseType, Exists
<1>2. \A k : JobFine(k)' <=> JobFine(k)
  BY <1>0 DEF JobFine, WasWithin, Exists
<1>3. JobOK'
  <2> SUFFICES ASSUME NEW k \in Handler PROVE JobFine(job'[k])
    BY <1>2 DEF JobOK
  <2>1. job'[k] = IF k = h THEN j ELSE job[k]
    BY DEF AssignmentInv, TypeOK
  <2> QED BY <2>1 DEF AssignmentInv, JobOK
<1>4. ClosedOK' /\ InvitedHasOrg' /\ AssignmentFits' /\ AssignedWithinOrg'
  BY <1>0 DEF AssignmentInv, ClosedOK, InvitedHasOrg, AssignmentFits, AssignedWithinOrg
<1> QED BY <1>1, <1>3, <1>4 DEF AssignmentInv

(* A row that no unfiltered body has changed becomes one that fits, is in  *)
(* its organization and, if it was there, is of the same kind: invited, in *)
(* the same organization, or not.                                          *)
Kept(u, new) ==
  /\ Fits(new)
  /\ new.role \in Invited => new.org # None
  /\ \A s \in new.staffIn : s \in moved \/ shop[s] = new.org
  /\ Exists(u) => (user[u].role \in Invited <=> new.role \in Invited)
  /\ user[u].role \in Invited => new.org = user[u].org

(* One row changes, and is kept if no unfiltered body has changed it. *)
LEMMA SetUser ==
  ASSUME AssignmentInv, NEW u \in User, NEW new \in RowType,
         new.email # None, new.role # None,
         \A s \in new.staffIn : shop[s] # None,
         u \in rewritten' \/ Kept(u, new),
         rewritten \subseteq rewritten', rewritten' \subseteq User,
         user' = [user EXCEPT ![u] = new],
         job' \in [Handler -> JobType],
         \A k \in Handler : job'[k] \in {job[k], Idle},
         FirebaseType', org' \subseteq Org, shop' = shop, closed' = closed, moved' = moved
  PROVE  AssignmentInv'
<1>1. \A v \in User : user'[v] = IF v = u THEN new ELSE user[v]
  BY DEF AssignmentInv, TypeOK
<1>2. TypeOK'
  BY <1>1 DEF AssignmentInv, TypeOK, FirebaseType, Exists
<1>3. JobOK'
  <2> SUFFICES ASSUME NEW k \in Handler PROVE JobFine(job[k])' 
    BY DEF JobOK
  <2>1. CASE job'[k] = Idle
    BY <2>1 DEF JobFine, Idle
  <2>2. CASE job'[k] = job[k]
    <3>1. JobFine(job[k]) /\ job[k] \in JobType
      BY DEF AssignmentInv, JobOK, TypeOK
    <3>2. u \in rewritten' \/ /\ user[u].role \in Invited => user'[u].org = user[u].org
                              /\ Exists(u) => (user[u].role \in Invited <=> user'[u].role \in Invited)
      BY <1>1 DEF Kept
    <3>3. \A v \in User : Exists(v) => Exists(v)'
      BY <1>1 DEF Exists
    <3>4. \A o, S : WasWithin(o, S)' <=> WasWithin(o, S)
      BY DEF WasWithin
    <3>5. \A x : Fits(x)' <=> Fits(x)
      BY DEF Fits
    <3> QED BY <1>1, <2>2, <3>1, <3>2, <3>3, <3>4, <3>5 DEF JobFine, JobType
  <2> QED BY <2>1, <2>2
<1>4. ClosedOK' /\ InvitedHasOrg'
  BY <1>1 DEF AssignmentInv, ClosedOK, InvitedHasOrg, Kept
<1>5. AssignmentFits'
  BY <1>1 DEF AssignmentInv, AssignmentFits, Kept
<1>6. AssignedWithinOrg'
  BY <1>1 DEF AssignmentInv, AssignedWithinOrg, Kept
<1> QED BY <1>2, <1>3, <1>4, <1>5, <1>6 DEF AssignmentInv

(* A shop opens, closes or is moved. *)
LEMMA SetShops ==
  ASSUME AssignmentInv, FirebaseType, FirebaseType',
         shop' \in [Shop -> Org \cup {None}], closed' \subseteq Shop, moved' \subseteq Shop,
         closed \subseteq closed', moved \subseteq moved',
         \A s \in Shop : shop'[s] # shop[s] =>
            \/ shop[s] = None
            \/ s \in closed' /\ \A u \in User : s \notin user[u].staffIn
            \/ s \in moved' /\ shop'[s] # None,
         ClosedOK', user' = user, rewritten' = rewritten, org' = org, job' = job
  PROVE  AssignmentInv'
<1>1. TypeOK'
  BY DEF AssignmentInv, TypeOK, FirebaseType, Exists
<1>2. JobOK'
  <2> SUFFICES ASSUME NEW k \in Handler PROVE JobFine(job[k])'
    BY DEF JobOK
  <2>1. JobFine(job[k]) /\ job[k] \in JobType
    BY DEF AssignmentInv, JobOK, TypeOK
  <2>2. \A o, S : S \subseteq Shop /\ WasWithin(o, S) => WasWithin(o, S)'
    BY DEF WasWithin, AssignmentInv, ClosedOK
  <2> QED BY <2>1, <2>2 DEF JobFine, Exists, JobType, RowType
<1>3. AssignmentFits' /\ InvitedHasOrg'
  BY DEF AssignmentInv, AssignmentFits, InvitedHasOrg
<1>4. AssignedWithinOrg'
  BY DEF AssignmentInv, AssignedWithinOrg
<1> QED BY <1>1, <1>2, <1>3, <1>4 DEF AssignmentInv

-------------------------------------------------------------------------------
(* The actions *)

LEMMA InitAssignments == Init => AssignmentInv
<1> SUFFICES ASSUME Init PROVE AssignmentInv
  OBVIOUS
<1>1. TypeOK
  BY EmptyTypes DEF Init, TypeOK, NoRow, Row, Exists
<1>2. JobOK
  BY EmptyTypes DEF Init, JobOK
<1>3. ClosedOK /\ InvitedHasOrg /\ AssignmentFits /\ AssignedWithinOrg
  BY NoneIsNew DEF Init, ClosedOK, InvitedHasOrg, AssignmentFits, AssignedWithinOrg, NoRow, Row, Fits, Role, Invited
<1> QED BY <1>1, <1>2, <1>3 DEF AssignmentInv

(* A handler that ends without a row of its own leaves things as they are. *)
LEMMA EndAssignments ==
  ASSUME AssignmentInv, NEW h \in Handler, End(h), FirebaseType',
         UNCHANGED << people, places >>
  PROVE  AssignmentInv'
BY EmptyTypes, SetJob DEF End

(* Inserting a row that fits keeps the invariant, if the shops it names    *)
(* were the organization's when they were validated: a shop that is there  *)
(* was not deleted since.                                                  *)
LEMMA InsertAssignments ==
  ASSUME AssignmentInv, NEW h \in Handler, NEW new \in RowType, Insert(h, new),
         new.email # None, new.role # None, Fits(new),
         new.staffIn # {} => WasWithin(new.org, new.staffIn),
         new.role \in Invited => new.org # None
  PROVE  AssignmentInv'
<1>1. PICK u \in User : ~Exists(u) /\ user' = [user EXCEPT ![u] = new]
  BY DEF Insert
<1>2. user[u].role \notin Invited
  BY <1>1, NoneIsNew DEF Exists, Role
<1>3. /\ job' = [job EXCEPT ![h] = Idle]
      /\ \A s \in new.staffIn : shop[s] # None
      /\ org' = org /\ shop' = shop /\ closed' = closed /\ moved' = moved
      /\ rewritten' = rewritten /\ rewritten \subseteq User
      /\ UNCHANGED firebase
  BY DEF Insert, End, places, AssignmentInv, TypeOK
<1>4. FirebaseType' /\ org' \subseteq Org
  BY <1>3 DEF AssignmentInv, TypeOK, FirebaseType, firebase
<1>5. job' \in [Handler -> JobType] /\ \A k \in Handler : job'[k] \in {job[k], Idle}
  BY <1>3, EmptyTypes DEF AssignmentInv, TypeOK
<1>6. \A s \in new.staffIn : s \in moved \/ shop[s] = new.org
  BY <1>3 DEF WasWithin, AssignmentInv, ClosedOK
<1>7. Kept(u, new)
  BY <1>1, <1>2, <1>6 DEF Kept
<1> QED BY <1>1, <1>3, <1>4, <1>5, <1>7, SetUser

(* Rows that no person is invited with fit without a shop. *)
LEMMA PlainRows ==
  ASSUME NEW e \in Email, NEW i \in Uid \cup {None}, NEW r \in Role \ Invited,
         NEW o \in Org \cup {None}
  PROVE  /\ Row(e, i, r, o, None, {}) \in RowType
         /\ Fits(Row(e, i, r, o, None, {}))
         /\ Row(e, i, r, o, None, {}).email # None
         /\ Row(e, i, r, o, None, {}).role \in Role \ Invited
BY NoneIsNew DEF Row, RowType, Fits, Invited

LEMMA RegisterAssignments ==
  ASSUME AssignmentInv, NEW h \in Handler, RegisterReads(h) \/ RegisterSaves(h)
  PROVE  AssignmentInv'
<1>0. FirebaseType
  BY DEF AssignmentInv, TypeOK, FirebaseType
<1>1. CASE RegisterReads(h)
  <2>1. PICK e \in Email, r \in Role \ Invited, o \in org \cup {None} :
          job' = [job EXCEPT ![h] = Job("register", None, Row(e, None, r, o, None, {}))]
    BY <1>1 DEF RegisterReads, Begin
  <2>2. o \in Org \cup {None}
    BY DEF AssignmentInv, TypeOK
  <2> DEFINE j == Job("register", None, Row(e, None, r, o, None, {}))
  <2>3. j \in JobType /\ JobFine(j)
    BY <2>2, PlainRows DEF Job, JobType, JobFine
  <2>4. UNCHANGED << people, places >> /\ FirebaseType'
    BY <1>0, <1>1 DEF RegisterReads, firebase, FirebaseType
  <2> HIDE DEF j
  <2>5. job' = [job EXCEPT ![h] = j]
    BY <2>1 DEF j
  <2> QED BY <2>3, <2>4, <2>5, SetJob
<1>2. CASE RegisterSaves(h)
  <2>1. Insert(h, job[h].row) /\ job[h].at = "register"
    BY <1>2 DEF RegisterSaves
  <2>2. job[h].row \in RowType /\ JobFine(job[h])
    BY DEF AssignmentInv, TypeOK, JobOK, JobType
  <2>3. /\ job[h].row.email # None /\ job[h].row.role \in Role \ Invited
        /\ Fits(job[h].row)
    BY <2>1, <2>2 DEF JobFine
  <2>4. job[h].row.role # None /\ job[h].row.staffIn = {}
    BY <2>3, NoneIsNew DEF Fits
  <2> QED BY <2>1, <2>2, <2>3, <2>4, InsertAssignments
<1> QED BY <1>1, <1>2

LEMMA ExchangeAssignments ==
  ASSUME AssignmentInv, NEW h \in Handler,
         ExchangeReads(h) \/ ExchangeCreates(h) \/ ExchangeLinks(h)
  PROVE  AssignmentInv'
<1>0. FirebaseType
  BY DEF AssignmentInv, TypeOK, FirebaseType
<1>1. CASE ExchangeReads(h)
  <2>1. PICK i \in Uid, e \in Email, r \in Role :
          /\ r \in {"OWNER"} \cup granted[i]
          /\ \/ Begin(h, Job("exchange", None, Row(e, i, r, None, None, {})))
             \/ \E u \in User :
                  /\ user[u].email = e
                  /\ user[u].uid \in {None, i}
                  /\ user[u].uid = None \/ SyncedRole(u, r) # None
                  /\ Begin(h, Job("link", u, Row(None, IF user[u].uid = None THEN i ELSE None,
                                                 SyncedRole(u, r), None, None, {})))
    BY <1>1 DEF ExchangeReads
  <2>2. UNCHANGED << people, places >> /\ FirebaseType'
    BY <1>0, <1>1 DEF ExchangeReads, firebase, FirebaseType
  <2>3. r \in Role \ Invited
    BY <2>1, PlatformAssumption DEF AssignmentInv, TypeOK, Invited, Role
  <2>4. CASE Begin(h, Job("exchange", None, Row(e, i, r, None, None, {})))
    <3> DEFINE j == Job("exchange", None, Row(e, i, r, None, None, {}))
    <3>1. j \in JobType /\ JobFine(j)
      BY <2>3, PlainRows DEF Job, JobType, JobFine
    <3>2. job' = [job EXCEPT ![h] = j]
      BY <2>4 DEF Begin
    <3> HIDE DEF j
    <3> QED BY <2>2, <3>1, <3>2, SetJob
  <2>5. CASE \E u \in User :
               /\ user[u].email = e
               /\ user[u].uid \in {None, i}
               /\ user[u].uid = None \/ SyncedRole(u, r) # None
               /\ Begin(h, Job("link", u, Row(None, IF user[u].uid = None THEN i ELSE None,
                                              SyncedRole(u, r), None, None, {})))
    <3>1. PICK u \in User :
            /\ user[u].email = e
            /\ user[u].uid = None \/ SyncedRole(u, r) # None
            /\ Begin(h, Job("link", u, Row(None, IF user[u].uid = None THEN i ELSE None,
                                           SyncedRole(u, r), None, None, {})))
      BY <2>5
    <3> DEFINE new == Row(None, IF user[u].uid = None THEN i ELSE None,
                          SyncedRole(u, r), None, None, {})
               j == Job("link", u, new)
    <3>2. Exists(u)
      BY <3>1, NoneIsNew DEF AssignmentInv, TypeOK
    <3>3. SyncedRole(u, r) \in (Role \ Invited) \cup {None}
      BY <2>3 DEF SyncedRole
    <3>4. new \in RowType /\ new.role \notin Invited
      BY <3>3, NoneIsNew DEF Row, RowType, Role
    <3>5. user[u].role \in Invited => new.role = None
      BY DEF SyncedRole, Row
    <3>6. job' = [job EXCEPT ![h] = j]
      BY <3>1 DEF Begin
    <3>7. j.at = "link" /\ j.of = u /\ j.row = new /\ j \in JobType
      BY <3>4 DEF Job, JobType
    <3>8. JobFine(j)
      <4> HIDE DEF j, new
      <4> QED BY <3>2, <3>4, <3>5, <3>7 DEF JobFine
    <3> HIDE DEF j
    <3> QED BY <2>2, <3>6, <3>7, <3>8, SetJob
  <2> QED BY <2>1, <2>4, <2>5
<1>2. CASE ExchangeCreates(h)
  <2>1. Insert(h, job[h].row) /\ job[h].at = "exchange"
    BY <1>2 DEF ExchangeCreates
  <2>2. job[h].row \in RowType /\ JobFine(job[h])
    BY DEF AssignmentInv, TypeOK, JobOK, JobType
  <2>3. /\ job[h].row.email # None /\ job[h].row.role \in Role \ Invited
        /\ Fits(job[h].row)
    BY <2>1, <2>2 DEF JobFine
  <2>4. job[h].row.role # None /\ job[h].row.staffIn = {}
    BY <2>3, NoneIsNew DEF Fits
  <2> QED BY <2>1, <2>2, <2>3, <2>4, InsertAssignments
<1>3. CASE ExchangeLinks(h)
  <2> DEFINE u == job[h].of
             old == user[u]
             row == job[h].row
             new == [old EXCEPT !.uid = Given(row.uid, @), !.role = Given(row.role, @)]
  <2>1. /\ job[h].at = "link" /\ JobFine(job[h]) /\ row \in RowType
    BY <1>3 DEF ExchangeLinks, AssignmentInv, TypeOK, JobOK, JobType
  <2>2. /\ u \in User /\ Exists(u) /\ row.role \notin Invited
        /\ u \notin rewritten /\ old.role \in Invited => row.role = None
    BY <2>1 DEF JobFine
  <2>3. old \in RowType /\ old.email # None /\ old.role # None
    BY <2>2 DEF AssignmentInv, TypeOK, Exists
  <2>4. /\ \A s \in old.staffIn : shop[s] # None
        /\ u \notin rewritten => Kept(u, old)
    BY <2>2, <2>3 DEF AssignmentInv, AssignedWithinOrg, AssignmentFits, InvitedHasOrg, Kept, RowType
  <2>5. user' = [user EXCEPT ![u] = new]
    BY <1>3, <2>2 DEF ExchangeLinks, AssignmentInv, TypeOK
  <2>6. /\ org' = org /\ shop' = shop /\ closed' = closed /\ moved' = moved
        /\ rewritten' = rewritten /\ rewritten \subseteq User
        /\ FirebaseType' /\ job' = [job EXCEPT ![h] = Idle]
    BY <1>0, <1>3 DEF ExchangeLinks, End, firebase, places, FirebaseType, AssignmentInv, TypeOK
  <2>7. /\ job' \in [Handler -> JobType] /\ org' \subseteq Org
        /\ \A k \in Handler : job'[k] \in {job[k], Idle}
    BY <2>6, EmptyTypes DEF AssignmentInv, TypeOK
  <2> HIDE DEF u, row
  <2>8. /\ new \in RowType /\ new.role \in {old.role, row.role} \ {None}
        /\ u \notin rewritten /\ old.role \in Invited => new.role = old.role
        /\ new.email = old.email /\ new.org = old.org /\ new.access = old.access
        /\ new.staffIn = old.staffIn
    BY <2>1, <2>2, <2>3 DEF Given, RowType
  <2>9. u \notin rewritten => (old.role \in Invited <=> new.role \in Invited)
    BY <2>2, <2>8
  <2> HIDE DEF new
  <2>10. ASSUME u \notin rewritten PROVE Kept(u, new)
    <3> HIDE DEF old
    <3>1. Fits(new)
      BY <2>4, <2>8, <2>9, <2>10 DEF Kept, Fits, Invited
    <3> QED BY <2>4, <2>8, <2>9, <2>10, <3>1 DEF Kept, old
  <2>11. \A s \in new.staffIn : shop[s] # None
    BY <2>4, <2>8
  <2> HIDE DEF old
  <2> QED
    BY <2>2, <2>3, <2>5, <2>6, <2>7, <2>8, <2>10, <2>11, SetUser
<1> QED BY <1>1, <1>2, <1>3

(* An email changes: the row is as it was otherwise. *)
LEMMA EmailAssignments ==
  ASSUME AssignmentInv, NEW u \in User, NEW e \in Email, Exists(u),
         user' = [user EXCEPT ![u].email = e], UNCHANGED << firebase, rewritten, places >>,
         job' \in [Handler -> JobType],
         \A k \in Handler : job'[k] \in {job[k], Idle}
  PROVE  AssignmentInv'
<1> DEFINE old == user[u]
           new == [old EXCEPT !.email = e]
<1>1. old \in RowType /\ old.role # None
  BY DEF AssignmentInv, TypeOK, Exists
<1>2. /\ \A s \in old.staffIn : shop[s] # None
      /\ u \notin rewritten => Kept(u, old)
  BY <1>1 DEF AssignmentInv, AssignedWithinOrg, AssignmentFits, InvitedHasOrg, Kept, RowType
<1>3. user' = [user EXCEPT ![u] = new]
  BY DEF AssignmentInv, TypeOK
<1>4. /\ org' = org /\ shop' = shop /\ closed' = closed /\ moved' = moved
      /\ rewritten' = rewritten /\ rewritten \subseteq User
      /\ FirebaseType' /\ org' \subseteq Org
  BY DEF firebase, places, FirebaseType, AssignmentInv, TypeOK
<1>5. /\ new \in RowType /\ new.email # None /\ new.role = old.role
      /\ new.org = old.org /\ new.access = old.access /\ new.staffIn = old.staffIn
  BY <1>1, NoneIsNew DEF RowType
<1> HIDE DEF new
<1>6. ASSUME u \notin rewritten PROVE Kept(u, new)
  BY <1>2, <1>5, <1>6 DEF Kept, Fits
<1> QED BY <1>1, <1>2, <1>3, <1>4, <1>5, <1>6, SetUser

(* What an unfiltered body makes of a row has the type of a row, an email, *)
(* a role and shops that are there; that is all that is known of it.       *)
LEMMA RewrittenRows ==
  ASSUME AssignmentInv, NEW u \in User, Exists(u), NEW x \in Rewrites(user[u])
  PROVE  /\ x \in RowType /\ x.email # None /\ x.role # None
         /\ \A s \in x.staffIn : shop[s] # None
<1> DEFINE old == user[u]
<1>1. /\ old \in RowType /\ old.email # None /\ old.role # None
      /\ spent \subseteq Uid /\ org \subseteq Org
  BY DEF AssignmentInv, TypeOK, Exists
<1>2. \A s \in old.staffIn : shop[s] # None
  BY <1>1 DEF AssignmentInv, AssignedWithinOrg, RowType
<1>3. None \notin Role
  BY NoneIsNew
<1> HIDE DEF old
<1>4. x \in Rewrites(old)
  BY DEF old
<1>5. ASSUME NEW i \in Uid \cup {None}, x = [old EXCEPT !.uid = i]
      PROVE  /\ x \in RowType /\ x.email # None /\ x.role # None
             /\ \A s \in x.staffIn : shop[s] # None
  BY <1>1, <1>2, <1>5 DEF RowType
<1>6. ASSUME NEW r \in Role, x = [old EXCEPT !.role = r]
      PROVE  /\ x \in RowType /\ x.email # None /\ x.role # None
             /\ \A s \in x.staffIn : shop[s] # None
  BY <1>1, <1>2, <1>3, <1>6 DEF RowType
<1>7. ASSUME NEW o \in Org \cup {None}, x = [old EXCEPT !.org = o]
      PROVE  /\ x \in RowType /\ x.email # None /\ x.role # None
             /\ \A s \in x.staffIn : shop[s] # None
  BY <1>1, <1>2, <1>7 DEF RowType
<1>8. ASSUME NEW a \in Access \cup {None}, x = [old EXCEPT !.access = a]
      PROVE  /\ x \in RowType /\ x.email # None /\ x.role # None
             /\ \A s \in x.staffIn : shop[s] # None
  BY <1>1, <1>2, <1>8 DEF RowType
<1>9. ASSUME NEW S \in SUBSET Shop, \A s \in S : shop[s] # None, x = [old EXCEPT !.staffIn = S]
      PROVE  /\ x \in RowType /\ x.email # None /\ x.role # None
             /\ \A s \in x.staffIn : shop[s] # None
  BY <1>1, <1>9 DEF RowType
<1>10. \/ \E i \in Uid \cup {None} : x = [old EXCEPT !.uid = i]
       \/ \E r \in Role : x = [old EXCEPT !.role = r]
       \/ \E o \in Org \cup {None} : x = [old EXCEPT !.org = o]
       \/ \E a \in Access \cup {None} : x = [old EXCEPT !.access = a]
       \/ \E S \in SUBSET Shop : (\A s \in S : shop[s] # None) /\ x = [old EXCEPT !.staffIn = S]
  BY <1>1, <1>4 DEF Rewrites
<1> QED BY <1>5, <1>6, <1>7, <1>8, <1>9, <1>10

LEMMA ProfileAssignments ==
  ASSUME AssignmentInv, UpdateProfile
  PROVE  AssignmentInv'
<1>1. PICK u \in User :
        /\ Exists(u)
        /\ \/ \E e \in Email : user' = [user EXCEPT ![u].email = e] /\ rewritten' = rewritten
           \/ /\ \E x \in Rewrites(user[u]) : user' = [user EXCEPT ![u] = x]
              /\ rewritten' = rewritten \cup {u}
  BY DEF UpdateProfile
<1>2. UNCHANGED << firebase, places, job >>
  BY DEF UpdateProfile
<1>3. /\ job' \in [Handler -> JobType] /\ \A k \in Handler : job'[k] \in {job[k], Idle}
      /\ rewritten \subseteq User
  BY <1>2 DEF AssignmentInv, TypeOK
<1>4. ASSUME NEW e \in Email, user' = [user EXCEPT ![u].email = e], rewritten' = rewritten
      PROVE  AssignmentInv'
  BY <1>1, <1>2, <1>3, <1>4, EmailAssignments
<1>5. ASSUME NEW x \in Rewrites(user[u]), user' = [user EXCEPT ![u] = x],
             rewritten' = rewritten \cup {u}
      PROVE  AssignmentInv'
  <2>1. /\ x \in RowType /\ x.email # None /\ x.role # None
        /\ \A s \in x.staffIn : shop[s] # None
    BY <1>1, RewrittenRows
  <2>2. /\ FirebaseType' /\ org' \subseteq Org /\ shop' = shop /\ closed' = closed
        /\ moved' = moved
    BY <1>2 DEF firebase, places, FirebaseType, AssignmentInv, TypeOK
  <2>3. u \in rewritten' /\ rewritten \subseteq rewritten' /\ rewritten' \subseteq User
    BY <1>3, <1>5
  <2> QED BY <1>3, <1>5, <2>1, <2>2, <2>3, SetUser
<1> QED BY <1>1, <1>4, <1>5

LEMMA MailAssignments ==
  ASSUME AssignmentInv, NEW h \in Handler, ProfileMails(h) \/ ProfileSaves(h)
  PROVE  AssignmentInv'
<1>0. FirebaseType /\ JobFine(job[h]) /\ job[h] \in JobType
  BY DEF AssignmentInv, TypeOK, JobOK, FirebaseType
<1>1. CASE ProfileMails(h)
  <2>1. PICK i \in Uid, e \in Email :
          /\ account' = [account EXCEPT ![i] = e]
          /\ borne' = [borne EXCEPT ![i] = @ \cup {e}]
          /\ job' = [job EXCEPT ![h] = Job("profile", None, Row(e, i, None, None, None, {}))]
          /\ UNCHANGED << spent, granted, people, places >>
    BY <1>1 DEF ProfileMails, Begin
  <2>2. FirebaseType'
    BY <1>0, <2>1 DEF FirebaseType
  <2> DEFINE new == Row(e, i, None, None, None, {})
             j == Job("profile", None, new)
  <2>3. new \in RowType /\ new.email = e /\ new.uid = i
    BY DEF Row, RowType
  <2> HIDE DEF new
  <2>4. j \in JobType /\ j.at = "profile" /\ j.row = new
    BY <2>3 DEF Job, JobType
  <2>5. job' = [job EXCEPT ![h] = j]
    BY <2>1 DEF new
  <2> HIDE DEF j
  <2>6. JobFine(j)
    BY <2>3, <2>4, NoneIsNew DEF JobFine
  <2> QED BY <2>1, <2>2, <2>4, <2>5, <2>6, SetJob
<1>2. CASE ProfileSaves(h)
  <2>1. PICK u \in User :
          /\ job[h].at = "profile" /\ user[u].uid = job[h].row.uid
          /\ user' = [user EXCEPT ![u].email = job[h].row.email]
          /\ job' = [job EXCEPT ![h] = Idle]
          /\ UNCHANGED << firebase, rewritten, places >>
    BY <1>2 DEF ProfileSaves, End
  <2>2. job[h].row.email \in Email /\ job[h].row.uid # None
    BY <1>0, <2>1 DEF JobFine, JobType, RowType
  <2>3. Exists(u)
    BY <2>1, <2>2 DEF AssignmentInv, TypeOK
  <2>4. job' \in [Handler -> JobType] /\ \A k \in Handler : job'[k] \in {job[k], Idle}
    BY <2>1, EmptyTypes DEF AssignmentInv, TypeOK
  <2> QED BY <2>1, <2>2, <2>3, <2>4, EmailAssignments
<1> QED BY <1>1, <1>2

(* The founder changes from one role that is not invited to another: the   *)
(* organization of an invited person never changes, since such a person    *)
(* has one.                                                                *)
LEMMA FoundAssignments ==
  ASSUME AssignmentInv, NEW h \in Handler, FoundReads(h) \/ FoundSaves(h)
  PROVE  AssignmentInv'
<1>0. FirebaseType
  BY DEF AssignmentInv, TypeOK, FirebaseType
<1>1. CASE FoundReads(h)
  <2>1. PICK u \in User :
          /\ Exists(u) /\ user[u].org = None
          /\ job' = [job EXCEPT ![h] = Job("found", u, NoRow)]
    BY <1>1 DEF FoundReads, Begin
  <2>2. UNCHANGED << people, places >> /\ FirebaseType'
    BY <1>0, <1>1 DEF FoundReads, firebase, FirebaseType
  <2>3. u \in rewritten \/ user[u].role \notin Invited
    BY <2>1 DEF AssignmentInv, InvitedHasOrg
  <2> DEFINE j == Job("found", u, NoRow)
  <2>4. j \in JobType /\ j.at = "found" /\ j.of = u
    BY EmptyTypes DEF Job, JobType
  <2>5. job' = [job EXCEPT ![h] = j]
    BY <2>1
  <2> HIDE DEF j
  <2>6. JobFine(j)
    BY <2>1, <2>3, <2>4 DEF JobFine
  <2> QED BY <2>2, <2>4, <2>5, <2>6, SetJob
<1>2. CASE FoundSaves(h)
  <2>1. PICK o \in Org \ org :
          /\ org' = org \cup {o}
          /\ user' = [user EXCEPT ![job[h].of].org = o, ![job[h].of].role = "OWNER"]
    BY <1>2 DEF FoundSaves
  <2> DEFINE u == job[h].of
             old == user[u]
             new == [old EXCEPT !.org = o, !.role = "OWNER"]
  <2>2. /\ u \in User /\ Exists(u)
        /\ u \in rewritten \/ old.role \notin Invited
    BY <1>2 DEF FoundSaves, JobFine, AssignmentInv, JobOK
  <2>3. /\ old \in RowType /\ old.email # None
        /\ u \in rewritten \/ Fits(old)
        /\ \A s \in old.staffIn : shop[s] # None
    BY <2>2 DEF AssignmentInv, TypeOK, AssignmentFits, AssignedWithinOrg, Exists, RowType
  <2>4. user' = [user EXCEPT ![u] = new]
    BY <2>1, <2>2 DEF AssignmentInv, TypeOK
  <2>5. /\ shop' = shop /\ closed' = closed /\ moved' = moved
        /\ rewritten' = rewritten /\ rewritten \subseteq User
        /\ FirebaseType' /\ job' = [job EXCEPT ![h] = Idle]
    BY <1>0, <1>2 DEF FoundSaves, End, firebase, FirebaseType, AssignmentInv, TypeOK
  <2>6. /\ job' \in [Handler -> JobType] /\ org' \subseteq Org
        /\ \A k \in Handler : job'[k] \in {job[k], Idle}
    BY <2>1, <2>5, EmptyTypes DEF AssignmentInv, TypeOK
  <2> HIDE DEF u
  <2>7. /\ new \in RowType /\ new.email = old.email /\ new.role = "OWNER"
        /\ new.access = old.access /\ new.staffIn = old.staffIn
    BY <2>3 DEF RowType, Role
  <2> HIDE DEF new, old
  <2>8. "OWNER" # None /\ "OWNER" \notin Invited
    BY NoneIsNew DEF Role, Invited
  <2>9. ASSUME u \notin rewritten PROVE Kept(u, new)
    <3>1. old.role \notin Invited /\ Fits(old)
      BY <2>2, <2>3, <2>9
    <3>2. Fits(new) /\ new.staffIn = {}
      BY <2>7, <2>8, <3>1 DEF Fits, Invited
    <3> QED BY <2>7, <2>8, <3>1, <3>2 DEF Kept, old
  <2>10. new.email # None /\ new.role # None /\ \A s \in new.staffIn : shop[s] # None
    BY <2>3, <2>7, <2>8
  <2> QED BY <2>2, <2>4, <2>5, <2>6, <2>7, <2>9, <2>10, SetUser
<1> QED BY <1>1, <1>2

LEMMA ShopAssignments ==
  ASSUME AssignmentInv, CreateShop \/ DeleteShop \/ UpdateShop
  PROVE  AssignmentInv'
<1>0. FirebaseType /\ TypeOK /\ ClosedOK
  BY DEF AssignmentInv, TypeOK, FirebaseType
<1>1. /\ user' = user /\ job' = job /\ org' = org /\ rewritten' = rewritten
      /\ UNCHANGED firebase
  BY DEF CreateShop, DeleteShop, UpdateShop, people
<1>2. FirebaseType'
  BY <1>0, <1>1 DEF FirebaseType, firebase
<1>3. CASE CreateShop
  <2>1. PICK s \in Shop \ closed, o \in org :
          shop[s] = None /\ shop' = [shop EXCEPT ![s] = o] /\ closed' = closed
          /\ moved' = moved /\ moved \subseteq Shop
    BY <1>0, <1>3 DEF CreateShop, TypeOK
  <2>2. shop' \in [Shop -> Org \cup {None}] /\ closed' \subseteq Shop /\ ClosedOK'
    BY <1>0, <2>1 DEF TypeOK, ClosedOK
  <2>3. \A t \in Shop : shop'[t] # shop[t] => shop[t] = None
    BY <1>0, <2>1 DEF TypeOK
  <2> QED BY <1>0, <1>1, <1>2, <2>1, <2>2, <2>3, SetShops
<1>4. CASE DeleteShop
  <2>1. PICK s \in Shop :
          /\ shop[s] # None
          /\ \A u \in User : s \notin user[u].staffIn
          /\ shop' = [shop EXCEPT ![s] = None]
          /\ closed' = closed \cup {s}
          /\ moved' = moved /\ moved \subseteq Shop
    BY <1>0, <1>4 DEF DeleteShop, TypeOK
  <2>2. shop' \in [Shop -> Org \cup {None}] /\ closed' \subseteq Shop /\ ClosedOK'
    BY <1>0, <2>1 DEF TypeOK, ClosedOK
  <2>3. \A t \in Shop : shop'[t] # shop[t] => t = s
    BY <1>0, <2>1 DEF TypeOK
  <2> QED BY <1>0, <1>1, <1>2, <2>1, <2>2, <2>3, SetShops
<1>5. CASE UpdateShop
  <2>1. PICK s \in Shop, o \in org :
          /\ shop[s] # None
          /\ shop' = [shop EXCEPT ![s] = o]
          /\ moved' = moved \cup {s}
          /\ closed' = closed
    BY <1>5 DEF UpdateShop
  <2>2. o \in Org /\ o # None
    BY <1>0, NoneIsNew DEF TypeOK
  <2>3. /\ shop' \in [Shop -> Org \cup {None}] /\ moved' \subseteq Shop /\ closed' \subseteq Shop
        /\ ClosedOK'
    BY <1>0, <2>1, <2>2 DEF TypeOK, ClosedOK
  <2>4. \A t \in Shop : shop'[t] # shop[t] => t \in moved' /\ shop'[t] # None
    BY <1>0, <2>1, <2>2 DEF TypeOK
  <2> QED BY <1>0, <1>1, <1>2, <2>1, <2>3, <2>4, SetShops
<1> QED BY <1>3, <1>4, <1>5

(* What validateAssignment and validateShop let through fits. *)
LEMMA ValidRows ==
  ASSUME NEW e, NEW i, NEW r, NEW q, NEW o \in Org, NEW a, NEW s \in Shop \cup {None},
         ValidAssignment(r, a, s), ShopOf(s, o)
  PROVE  /\ r \in Invited /\ Fits(Row(e, i, r, q, a, Assigned(s)))
         /\ Assigned(s) \subseteq Shop
         /\ WasWithin(o, Assigned(s))
<1>1. o # None /\ None \notin Shop
  BY NoneIsNew
<1>2. r \in Invited
  BY DEF ValidAssignment, Invited
<1>3. Assigned(s) \subseteq Shop
  BY DEF Assigned
<1>4. WasWithin(o, Assigned(s))
  BY <1>1 DEF WasWithin, Assigned, ShopOf
<1>5. s # None => Assigned(s) = {s} /\ s \in Shop
  BY DEF Assigned
<1>6. s = None => Assigned(s) = {}
  BY DEF Assigned
<1>7. Fits(Row(e, i, r, q, a, Assigned(s)))
  BY <1>2, <1>5, <1>6 DEF Fits, Row, ValidAssignment
<1> QED BY <1>2, <1>3, <1>4, <1>7

LEMMA InviteAssignments ==
  ASSUME AssignmentInv, NEW h \in Handler,
         InviteReads(h) \/ Provision(h) \/ ProvisionFails(h) \/ InviteSaves(h)
  PROVE  AssignmentInv'
<1>0. FirebaseType /\ JobFine(job[h]) /\ job[h] \in JobType
  BY DEF AssignmentInv, TypeOK, JobOK, FirebaseType
<1>1. CASE InviteReads(h)
  <2>1. PICK e \in Email, o \in org, r \in Invited, a \in Access \cup {None},
             s \in Shop \cup {None} :
          /\ ValidAssignment(r, a, s) /\ ShopOf(s, o)
          /\ job' = [job EXCEPT ![h] = Job("invite", None, Row(e, None, r, o, a, Assigned(s)))]
    BY <1>1 DEF InviteReads, Begin
  <2>2. UNCHANGED << people, places >> /\ FirebaseType'
    BY <1>0, <1>1 DEF InviteReads, firebase, FirebaseType
  <2> DEFINE new == Row(e, None, r, o, a, Assigned(s))
             j == Job("invite", None, new)
  <2>3. o \in Org
    BY DEF AssignmentInv, TypeOK
  <2>4. Fits(new) /\ Assigned(s) \subseteq Shop /\ WasWithin(o, Assigned(s))
    BY <2>1, <2>3, ValidRows
  <2>5. /\ new \in RowType /\ new.email = e /\ new.role = r
        /\ new.org = o /\ new.staffIn = Assigned(s)
    BY <2>3, <2>4 DEF Row, RowType, Role
  <2> HIDE DEF new
  <2>6. j \in JobType /\ j.at = "invite" /\ j.row = new
    BY <2>5 DEF Job, JobType
  <2>7. job' = [job EXCEPT ![h] = j]
    BY <2>1 DEF new
  <2> HIDE DEF j
  <2>8. JobFine(j)
    BY <2>1, <2>4, <2>5, <2>6, NoneIsNew DEF JobFine
  <2> QED BY <2>2, <2>6, <2>7, <2>8, SetJob
<1>2. CASE Provision(h)
  <2>1. PICK i \in Uid :
          /\ job[h].at = "invite"
          /\ account' = [account EXCEPT ![i] = job[h].row.email]
          /\ borne' = [borne EXCEPT ![i] = {job[h].row.email}]
          /\ spent' = spent \cup {i}
          /\ job' = [job EXCEPT ![h].at = "provisioned", ![h].row.uid = i]
          /\ UNCHANGED << granted, people, places >>
    BY <1>2 DEF Provision
  <2>2. job[h].row \in RowType /\ job[h].row.email \in Email
    BY <1>0, <2>1 DEF JobType, JobFine, RowType
  <2>3. FirebaseType'
    BY <1>0, <2>1, <2>2 DEF FirebaseType, RowType
  <2> DEFINE row == [job[h].row EXCEPT !.uid = i]
             j == [job[h] EXCEPT !.at = "provisioned", !.row = row]
  <2>4. /\ row \in RowType /\ row.email = job[h].row.email /\ row.role = job[h].row.role
        /\ row.org = job[h].row.org /\ row.access = job[h].row.access
        /\ row.staffIn = job[h].row.staffIn
    BY <2>2 DEF RowType
  <2>5. job' = [job EXCEPT ![h] = j]
    BY <2>1 DEF AssignmentInv, TypeOK
  <2> HIDE DEF row
  <2>6. j \in JobType /\ j.at = "provisioned" /\ j.row = row
    BY <1>0, <2>4 DEF JobType
  <2> HIDE DEF j
  <2>7. JobFine(j)
    BY <1>0, <2>1, <2>4, <2>6 DEF JobFine, Fits
  <2> QED BY <2>1, <2>3, <2>5, <2>6, <2>7, SetJob
<1>3. CASE ProvisionFails(h)
  <2>1. FirebaseType'
    BY <1>0, <1>3 DEF ProvisionFails, FirebaseType
  <2> QED BY <1>3, <2>1, EndAssignments DEF ProvisionFails
<1>4. CASE InviteSaves(h)
  <2>1. Insert(h, job[h].row) /\ job[h].at = "provisioned"
    BY <1>4 DEF InviteSaves
  <2>2. job[h].row \in RowType
    BY <1>0 DEF JobType
  <2>3. /\ job[h].row.email # None /\ job[h].row.role \in Invited
        /\ Fits(job[h].row) /\ WasWithin(job[h].row.org, job[h].row.staffIn)
    BY <1>0, <2>1 DEF JobFine
  <2>4. job[h].row.role # None /\ job[h].row.org # None
    BY <2>3, NoneIsNew DEF WasWithin, Role
  <2> QED BY <2>1, <2>2, <2>3, <2>4, InsertAssignments
<1> QED BY <1>1, <1>2, <1>3, <1>4

(* A change of an invited person, with the access and shop that the        *)
(* request and the row give together.                                      *)
LEMMA AssignAssignments ==
  ASSUME AssignmentInv, NEW h \in Handler, NEW u \in User, NEW e \in Email \cup {None},
         NEW r, NEW a \in Access \cup {None}, NEW s \in Shop \cup {None},
         AssignReads(h, u, e, r, a, s)
  PROVE  AssignmentInv'
<1> DEFINE new == Row(e, None, r, None, a, Assigned(s))
           j == Job("update", u, new)
<1>1. /\ user[u].role \in Invited /\ user[u].org # None
      /\ ValidAssignment(r, a, s) /\ ShopOf(s, user[u].org)
      /\ job' = [job EXCEPT ![h] = j]
      /\ UNCHANGED << firebase, people, places >>
  BY DEF AssignReads, Begin
<1>2. FirebaseType'
  BY <1>1 DEF AssignmentInv, TypeOK, FirebaseType, firebase
<1>3. user[u].org \in Org /\ Exists(u)
  BY <1>1, NoneIsNew DEF AssignmentInv, TypeOK, RowType, Exists, Role
<1>4. /\ r \in Invited /\ Fits(new) /\ Assigned(s) \subseteq Shop
      /\ WasWithin(user[u].org, Assigned(s))
  BY <1>1, <1>3, ValidRows
<1>5. new \in RowType /\ new.role = r /\ new.staffIn = Assigned(s)
  BY <1>4 DEF Row, RowType, Role
<1> HIDE DEF new
<1>6. j \in JobType /\ j.at = "update" /\ j.of = u /\ j.row = new
  BY <1>5 DEF Job, JobType
<1> HIDE DEF j
<1>7. JobFine(j)
  BY <1>1, <1>3, <1>4, <1>5, <1>6 DEF JobFine
<1> QED BY <1>1, <1>2, <1>6, <1>7, SetJob

LEMMA UpdateAssignments ==
  ASSUME AssignmentInv, NEW h \in Handler, UpdateReads(h) \/ UpdateSaves(h)
  PROVE  AssignmentInv'
<1>0. FirebaseType /\ JobFine(job[h]) /\ job[h] \in JobType
  BY DEF AssignmentInv, TypeOK, JobOK, FirebaseType
<1>1. CASE UpdateReads(h)
  <2>1. PICK u \in User, e \in Email \cup {None}, r \in Invited \cup {None},
             a \in Access \cup {None}, s \in Shop \cup {None} :
          LET role == Given(r, user[u].role)
              access == AccessAfter(u, role, a)
          IN  \E x \in ShopsAfter(u, access, s) : AssignReads(h, u, e, role, access, x)
    BY <1>1 DEF UpdateReads
  <2> DEFINE role == Given(r, user[u].role)
             access == AccessAfter(u, role, a)
  <2>2. user[u].staffIn \subseteq Shop /\ user[u].access \in Access \cup {None}
    BY DEF AssignmentInv, TypeOK, RowType
  <2>3. access \in Access \cup {None}
    BY <2>2 DEF AccessAfter, Given
  <2>5. PICK t \in ShopsAfter(u, access, s) : AssignReads(h, u, e, role, access, t)
    BY <2>1
  <2>4. t \in Shop \cup {None}
    BY <2>2 DEF ShopsAfter
  <2> HIDE DEF role, access
  <2> QED BY <2>3, <2>4, <2>5, AssignAssignments
<1>2. CASE UpdateSaves(h)
  <2> DEFINE u == job[h].of
             old == user[u]
             row == job[h].row
             new == [old EXCEPT !.email = Given(row.email, @), !.role = row.role,
                                !.access = row.access, !.staffIn = row.staffIn]
  <2>1. /\ job[h].at = "update" /\ row \in RowType
        /\ \A s \in row.staffIn : shop[s] # None
    BY <1>0, <1>2 DEF UpdateSaves, JobType
  <2>2. /\ u \in User /\ Exists(u) /\ row.role \in Invited /\ Fits(row)
        /\ u \in rewritten \/ (old.role \in Invited /\ WasWithin(old.org, row.staffIn))
    BY <1>0, <2>1 DEF JobFine
  <2>3. old \in RowType /\ old.email # None
    BY <2>2 DEF AssignmentInv, TypeOK, Exists
  <2>4. user' = [user EXCEPT ![u] = new]
    BY <1>2, <2>2 DEF UpdateSaves, AssignmentInv, TypeOK
  <2>5. /\ org' = org /\ shop' = shop /\ closed' = closed /\ moved' = moved
        /\ rewritten' = rewritten /\ rewritten \subseteq User
        /\ FirebaseType' /\ job' = [job EXCEPT ![h] = Idle]
    BY <1>0, <1>2 DEF UpdateSaves, End, firebase, places, FirebaseType, AssignmentInv, TypeOK
  <2>6. /\ job' \in [Handler -> JobType] /\ org' \subseteq Org
        /\ \A k \in Handler : job'[k] \in {job[k], Idle}
    BY <2>5, EmptyTypes DEF AssignmentInv, TypeOK
  <2> HIDE DEF u, row
  <2>7. /\ new \in RowType /\ new.email \in {old.email, row.email} \ {None}
        /\ new.role = row.role /\ new.access = row.access
        /\ new.org = old.org /\ new.staffIn = row.staffIn
    BY <2>1, <2>3 DEF Given, RowType
  <2> HIDE DEF old, new
  <2>8. Fits(new) /\ new.role # None
    BY <2>2, <2>7, NoneIsNew DEF Fits, Role
  <2>9. ASSUME u \notin rewritten PROVE Kept(u, new)
    <3>1. old.role \in Invited /\ WasWithin(old.org, row.staffIn)
      BY <2>2, <2>9
    <3>2. \A s \in new.staffIn : s \in moved \/ shop[s] = new.org
      BY <2>1, <2>7, <3>1 DEF WasWithin, AssignmentInv, ClosedOK
    <3> QED BY <2>2, <2>7, <2>8, <3>1, <3>2 DEF Kept, WasWithin, old
  <2>10. \A s \in new.staffIn : shop[s] # None
    BY <2>1, <2>7
  <2> QED BY <2>2, <2>4, <2>5, <2>6, <2>7, <2>8, <2>9, <2>10, SetUser
<1> QED BY <1>1, <1>2

(* Accounts and their claims are no part of a row. *)
LEMMA FirebaseAssignments ==
  ASSUME AssignmentInv, SignUp \/ Grant
  PROVE  AssignmentInv'
<1>1. FirebaseType'
  BY DEF SignUp, Grant, AssignmentInv, TypeOK, FirebaseType
<1>2. /\ user' = user /\ rewritten' = rewritten /\ job' = job
      /\ org' = org /\ shop' = shop /\ closed' = closed /\ moved' = moved
  BY DEF SignUp, Grant, people, places
<1>3. TypeOK'
  BY <1>1, <1>2 DEF AssignmentInv, TypeOK, FirebaseType, Exists
<1>4. JobOK' /\ ClosedOK' /\ InvitedHasOrg' /\ AssignmentFits' /\ AssignedWithinOrg'
  BY <1>2 DEF AssignmentInv, JobOK, JobFine, WasWithin, Exists, ClosedOK, InvitedHasOrg,
              AssignmentFits, AssignedWithinOrg
<1> QED BY <1>3, <1>4 DEF AssignmentInv

-------------------------------------------------------------------------------
(* The theorems about assignments *)

LEMMA StepAssignments == AssignmentInv /\ [Next]_vars => AssignmentInv'
<1> SUFFICES ASSUME AssignmentInv, [Next]_vars PROVE AssignmentInv'
  OBVIOUS
<1>1. CASE UNCHANGED vars
  <2>1. /\ account' = account /\ borne' = borne /\ spent' = spent /\ granted' = granted
        /\ user' = user /\ rewritten' = rewritten /\ job' = job
        /\ org' = org /\ shop' = shop /\ closed' = closed /\ moved' = moved
    BY <1>1 DEF vars
  <2> QED
    BY <2>1 DEF AssignmentInv, TypeOK, JobOK, JobFine, WasWithin, Exists, ClosedOK,
                InvitedHasOrg, AssignmentFits, AssignedWithinOrg
<1>2. CASE SignUp \/ Grant
  BY <1>2, FirebaseAssignments
<1>3. CASE UpdateProfile
  BY <1>3, ProfileAssignments
<1>4. CASE CreateShop \/ DeleteShop \/ UpdateShop
  BY <1>4, ShopAssignments
<1>5. ASSUME NEW h \in Handler, Handle(h) PROVE AssignmentInv'
  <2>1. CASE RegisterReads(h) \/ RegisterSaves(h)
    BY <2>1, RegisterAssignments
  <2>2. CASE ExchangeReads(h) \/ ExchangeCreates(h) \/ ExchangeLinks(h)
    BY <2>2, ExchangeAssignments
  <2>3. CASE FoundReads(h) \/ FoundSaves(h)
    BY <2>3, FoundAssignments
  <2>4. CASE InviteReads(h) \/ Provision(h) \/ ProvisionFails(h) \/ InviteSaves(h)
    BY <2>4, InviteAssignments
  <2>5. CASE UpdateReads(h) \/ UpdateSaves(h)
    BY <2>5, UpdateAssignments
  <2>6. CASE Fails(h)
    <3>1. End(h) /\ UNCHANGED << firebase, people, places >>
      BY <2>6 DEF Fails
    <3>2. FirebaseType'
      BY <3>1 DEF AssignmentInv, TypeOK, FirebaseType, firebase
    <3> QED BY <3>1, <3>2, EndAssignments
  <2>7. CASE ProfileMails(h) \/ ProfileSaves(h)
    BY <2>7, MailAssignments
  <2> QED BY <1>5, <2>1, <2>2, <2>3, <2>4, <2>5, <2>6, <2>7 DEF Handle
<1> QED BY <1>1, <1>2, <1>3, <1>4, <1>5 DEF Next

(* Rows, shops and the handlers' stale rows always fit together. *)
THEOREM AssignmentInvariant == Spec => []AssignmentInv
BY InitAssignments, StepAssignments, PTL DEF Spec

(* The types of Staffing. *)
THEOREM StaffTypes == Spec => []TypeOK
<1>1. AssignmentInv => TypeOK
  BY DEF AssignmentInv
<1> QED BY <1>1, AssignmentInvariant, PTL

(* Role, access and shops fit together, whatever handlers interleave, for  *)
(* every row that no unfiltered body has changed (validateAssignment and   *)
(* the two transactions that write assignments).                           *)
THEOREM AssignmentsFit == Spec => []AssignmentFits
<1>1. AssignmentInv => AssignmentFits
  BY DEF AssignmentInv
<1> QED BY <1>1, AssignmentInvariant, PTL

(* Nobody is assigned to a shop that is gone, or to one of another         *)
(* organization unless an unfiltered body has changed the row or moved the *)
(* shop (validateShop, and the foreign key for a shop that is deleted in   *)
(* between).                                                               *)
THEOREM AssignmentsWithinOrg == Spec => []AssignedWithinOrg
<1>1. AssignmentInv => AssignedWithinOrg
  BY DEF AssignmentInv
<1> QED BY <1>1, AssignmentInvariant, PTL

-------------------------------------------------------------------------------
(* Accounts and the roles of invited people *)

(* No person becomes invited or stops to be, and an invited one keeps the  *)
(* account and the organization, unless an unfiltered body has changed the *)
(* row.                                                                    *)
PeopleKept ==
  /\ rewritten \subseteq rewritten'
  /\ \A u \in User \ rewritten' :
       /\ user'[u].role \in Invited <=> user[u].role \in Invited
       /\ user[u].role \in Invited => user'[u].uid = user[u].uid /\ user'[u].org = user[u].org

(* Accounts may change their email, but none appears or goes. *)
AccountsKept ==
  spent' = spent /\ \A i \in Uid : account'[i] # None <=> account[i] # None

PlainPhase == {"idle", "register", "exchange", "profile", "found", "invite", "update"}

(* What a handler does next needs no account. *)
PlainJobs == \A k \in Handler : job'[k] # job[k] => job'[k].at \in PlainPhase

(* A row that nobody is invited with appears. *)
LEMMA InsertPeople ==
  ASSUME AssignmentInv, NEW h \in Handler, NEW new, Insert(h, new)
  PROVE  /\ PlainJobs /\ AccountsKept /\ rewritten' = rewritten
         /\ new.role \notin Invited => PeopleKept
<1>1. PICK u \in User : ~Exists(u) /\ user' = [user EXCEPT ![u] = new]
  BY DEF Insert
<1>2. \A v \in User : user'[v] = IF v = u THEN new ELSE user[v]
  BY <1>1 DEF AssignmentInv, TypeOK
<1>3. user[u].role \notin Invited
  BY <1>1, NoneIsNew DEF Exists, Role
<1>4. job' = [job EXCEPT ![h] = Idle] /\ AccountsKept /\ rewritten' = rewritten
  BY DEF Insert, End, firebase, AccountsKept
<1>5. PlainJobs
  BY <1>4 DEF PlainJobs, PlainPhase, Idle, AssignmentInv, TypeOK
<1> QED BY <1>2, <1>3, <1>4, <1>5 DEF PeopleKept

(* The handlers that only read, and those that fail, change no row. *)
LEMMA ReadPeople ==
  ASSUME AssignmentInv, NEW h \in Handler,
         \/ RegisterReads(h) \/ FoundReads(h) \/ InviteReads(h) \/ UpdateReads(h)
         \/ ProfileMails(h) \/ Fails(h)
  PROVE  PeopleKept /\ PlainJobs /\ AccountsKept
<1>0. job \in [Handler -> JobType]
  BY DEF AssignmentInv, TypeOK
<1>1. CASE RegisterReads(h)
  BY <1>0, <1>1 DEF RegisterReads, Begin, Job, firebase, people, PeopleKept, PlainJobs, PlainPhase,
                    AccountsKept
<1>2. CASE FoundReads(h)
  BY <1>0, <1>2 DEF FoundReads, Begin, Job, firebase, people, PeopleKept, PlainJobs, PlainPhase,
                    AccountsKept
<1>3. CASE InviteReads(h)
  BY <1>0, <1>3 DEF InviteReads, Begin, Job, firebase, people, PeopleKept, PlainJobs, PlainPhase,
                    AccountsKept
<1>4. CASE UpdateReads(h)
  BY <1>0, <1>4 DEF UpdateReads, AssignReads, Begin, Job, firebase, people, PeopleKept, PlainJobs, PlainPhase,
                    AccountsKept
<1>5. CASE Fails(h)
  BY <1>0, <1>5 DEF Fails, End, Idle, firebase, people, PeopleKept, PlainJobs, PlainPhase,
                    AccountsKept
<1>6. CASE ProfileMails(h)
  <2>1. PICK i \in Uid, e \in Email :
          /\ account[i] # None /\ account' = [account EXCEPT ![i] = e]
          /\ job' = [job EXCEPT ![h] = Job("profile", None, Row(e, i, None, None, None, {}))]
          /\ spent' = spent /\ UNCHANGED people
    BY <1>6 DEF ProfileMails, Begin
  <2>2. AccountsKept
    BY <2>1, NoneIsNew DEF AccountsKept, AssignmentInv, TypeOK
  <2> QED BY <1>0, <2>1, <2>2 DEF Job, people, PeopleKept, PlainJobs, PlainPhase
<1> QED BY <1>1, <1>2, <1>3, <1>4, <1>5, <1>6

(* The handlers that write a row of a person who is not invited, or keep   *)
(* the person's account.                                                   *)
LEMMA WritePeople ==
  ASSUME AssignmentInv, AccountInv, NEW h \in Handler,
         \/ RegisterSaves(h) \/ ExchangeCreates(h) \/ ExchangeLinks(h) \/ ProfileSaves(h)
         \/ FoundSaves(h) \/ UpdateSaves(h)
  PROVE  PeopleKept /\ PlainJobs /\ AccountsKept
<1>0. job \in [Handler -> JobType] /\ user \in [User -> RowType] /\ JobFine(job[h])
  BY DEF AssignmentInv, TypeOK, JobOK
<1>1. CASE RegisterSaves(h) \/ ExchangeCreates(h)
  <2>1. Insert(h, job[h].row) /\ job[h].row.role \notin Invited
    BY <1>0, <1>1 DEF RegisterSaves, ExchangeCreates, JobFine
  <2> QED BY <2>1, InsertPeople
<1>2. ASSUME job' = [job EXCEPT ![h] = Idle] PROVE PlainJobs
  BY <1>0, <1>2 DEF PlainJobs, PlainPhase, Idle
<1>3. CASE ExchangeLinks(h)
  <2> DEFINE u == job[h].of
             new == [user[u] EXCEPT !.uid = Given(job[h].row.uid, @),
                                    !.role = Given(job[h].row.role, @)]
  <2>1. /\ job[h].at = "link" /\ user' = [user EXCEPT ![u] = new]
        /\ job' = [job EXCEPT ![h] = Idle] /\ AccountsKept /\ rewritten' = rewritten
    BY <1>0, <1>3 DEF ExchangeLinks, End, firebase, AccountsKept
  <2>2. /\ u \in User /\ job[h].row.role \notin Invited
        /\ u \notin rewritten /\ user[u].role \in Invited =>
             job[h].row.role = None /\ job[h].row.uid = None
    BY <1>0, <2>1 DEF JobFine, AccountInv, UidOK
  <2>3. \A v \in User : user'[v] = IF v = u THEN new ELSE user[v]
    BY <1>0, <2>1
  <2>4. /\ new.role = Given(job[h].row.role, user[u].role)
        /\ new.uid = Given(job[h].row.uid, user[u].uid) /\ new.org = user[u].org
    BY <1>0, <2>2 DEF RowType
  <2> HIDE DEF u, new
  <2>5. PeopleKept
    BY <2>1, <2>2, <2>3, <2>4 DEF PeopleKept, Given
  <2> QED BY <1>2, <2>1, <2>5
<1>4. CASE FoundSaves(h)
  <2>1. PICK o \in Org :
          /\ job[h].at = "found"
          /\ user' = [user EXCEPT ![job[h].of].org = o, ![job[h].of].role = "OWNER"]
          /\ job' = [job EXCEPT ![h] = Idle] /\ AccountsKept /\ rewritten' = rewritten
    BY <1>4 DEF FoundSaves, End, firebase, AccountsKept
  <2> DEFINE u == job[h].of
  <2>2. u \in User /\ (u \in rewritten \/ user[u].role \notin Invited)
    BY <1>0, <2>1 DEF JobFine
  <2>3. \A v \in User : v # u => user'[v] = user[v]
    BY <1>0, <2>1
  <2>4. user'[u].role = "OWNER"
    BY <1>0, <2>1, <2>2 DEF RowType
  <2>5. PeopleKept
    BY <2>1, <2>2, <2>3, <2>4 DEF PeopleKept, Invited
  <2> QED BY <1>2, <2>1, <2>5
<1>5. CASE UpdateSaves(h)
  <2> DEFINE u == job[h].of
             row == job[h].row
             new == [user[u] EXCEPT !.email = Given(row.email, @), !.role = row.role,
                                    !.access = row.access, !.staffIn = row.staffIn]
  <2>1. /\ job[h].at = "update" /\ user' = [user EXCEPT ![u] = new]
        /\ job' = [job EXCEPT ![h] = Idle] /\ AccountsKept /\ rewritten' = rewritten
    BY <1>0, <1>5 DEF UpdateSaves, End, firebase, AccountsKept
  <2>2. /\ u \in User /\ row.role \in Invited
        /\ u \in rewritten \/ user[u].role \in Invited
    BY <1>0, <2>1 DEF JobFine
  <2>3. \A v \in User : user'[v] = IF v = u THEN new ELSE user[v]
    BY <1>0, <2>1
  <2>4. new.role = row.role /\ new.uid = user[u].uid /\ new.org = user[u].org
    BY <1>0, <2>2 DEF RowType
  <2> HIDE DEF u, row, new
  <2>5. PeopleKept
    BY <2>1, <2>2, <2>3, <2>4 DEF PeopleKept
  <2> QED BY <1>2, <2>1, <2>5
<1>6. CASE ProfileSaves(h)
  <2>1. PICK u \in User :
          /\ user' = [user EXCEPT ![u].email = job[h].row.email]
          /\ job' = [job EXCEPT ![h] = Idle] /\ AccountsKept /\ rewritten' = rewritten
    BY <1>6 DEF ProfileSaves, End, firebase, AccountsKept
  <2>2. PeopleKept
    BY <1>0, <2>1 DEF PeopleKept, RowType
  <2> QED BY <1>2, <2>1, <2>2
<1> QED BY <1>1, <1>3, <1>4, <1>5, <1>6

(* The email that a person changes is no part of this, and an unfiltered   *)
(* body is noted.                                                          *)
LEMMA ProfilePeople ==
  ASSUME AssignmentInv, UpdateProfile
  PROVE  PeopleKept /\ PlainJobs /\ AccountsKept
<1>0. user \in [User -> RowType]
  BY DEF AssignmentInv, TypeOK
<1>1. PlainJobs /\ AccountsKept
  BY DEF UpdateProfile, firebase, PlainJobs, AccountsKept
<1>2. PICK u \in User :
        \/ \E e \in Email : user' = [user EXCEPT ![u].email = e] /\ rewritten' = rewritten
        \/ \E x : user' = [user EXCEPT ![u] = x] /\ rewritten' = rewritten \cup {u}
  BY DEF UpdateProfile
<1>3. ASSUME NEW e \in Email, user' = [user EXCEPT ![u].email = e], rewritten' = rewritten
      PROVE  PeopleKept
  BY <1>0, <1>3 DEF PeopleKept, RowType
<1>4. ASSUME NEW x, user' = [user EXCEPT ![u] = x], rewritten' = rewritten \cup {u}
      PROVE  PeopleKept
  BY <1>0, <1>4 DEF PeopleKept
<1> QED BY <1>1, <1>2, <1>3, <1>4

(* A step that needs no account leaves the accounts right. *)
LEMMA QuietAccounts ==
  ASSUME AssignmentInv, AccountInv, PlainJobs, PeopleKept, AccountsKept
  PROVE  AccountInv'
<1>1. \A k \in Handler : job'[k].at \in {"provisioned", "link"} => job'[k] = job[k]
  BY DEF PlainJobs, PlainPhase
<1>2. \A k \in Handler : job[k].at = "link" => job[k].of \in User
  BY DEF AssignmentInv, JobOK, JobFine
<1>3. \A k \in Handler : job[k].at = "provisioned" => job[k].row.uid \in Uid
  BY DEF AccountInv, UidOK, AssignmentInv, TypeOK
<1>4. \A u \in User : user[u].uid # None => user[u].uid \in Uid
  BY DEF AssignmentInv, TypeOK, RowType
<1>5. UidOK'
  BY <1>1, <1>2, <1>3 DEF AccountInv, UidOK, PeopleKept, AccountsKept
<1>6. InvitedHasAccount'
  BY <1>1, <1>4 DEF AccountInv, InvitedHasAccount, PeopleKept, AccountsKept
<1> QED BY <1>5, <1>6 DEF AccountInv

(* An exchange links only a row without an account, which is not one of a  *)
(* person who was invited.                                                 *)
LEMMA ExchangeReadsAccounts ==
  ASSUME AssignmentInv, AccountInv, NEW h \in Handler, ExchangeReads(h)
  PROVE  AccountInv'
<1>0. job \in [Handler -> JobType]
  BY DEF AssignmentInv, TypeOK
<1>1. account' = account /\ spent' = spent /\ user' = user /\ rewritten' = rewritten
  BY DEF ExchangeReads, firebase, people
<1>2. PICK j : job' = [job EXCEPT ![h] = j] /\ j.at \in {"exchange", "link"}
               /\ (j.at = "link" => j.of \in User
                     /\ \/ j.of \in rewritten \/ user[j.of].role \notin Invited
                        \/ j.row.uid = None)
  <2>1. PICK i \in Uid, e \in Email, r \in Role :
          \/ Begin(h, Job("exchange", None, Row(e, i, r, None, None, {})))
          \/ \E u \in User :
               Begin(h, Job("link", u, Row(None, IF user[u].uid = None THEN i ELSE None,
                                           SyncedRole(u, r), None, None, {})))
    BY DEF ExchangeReads
  <2>2. CASE Begin(h, Job("exchange", None, Row(e, i, r, None, None, {})))
    <3> DEFINE j == Job("exchange", None, Row(e, i, r, None, None, {}))
    <3>1. j.at = "exchange" /\ job' = [job EXCEPT ![h] = j]
      BY <2>2 DEF Begin, Job
    <3> HIDE DEF j
    <3> QED BY <3>1
  <2>3. ASSUME NEW u \in User,
               Begin(h, Job("link", u, Row(None, IF user[u].uid = None THEN i ELSE None,
                                           SyncedRole(u, r), None, None, {})))
        PROVE  \E j : job' = [job EXCEPT ![h] = j] /\ j.at \in {"exchange", "link"}
                      /\ (j.at = "link" => j.of \in User
                            /\ \/ j.of \in rewritten \/ user[j.of].role \notin Invited
                               \/ j.row.uid = None)
    <3>1. u \in rewritten \/ user[u].role \notin Invited \/ user[u].uid # None
      BY DEF AccountInv, InvitedHasAccount
    <3> DEFINE j == Job("link", u, Row(None, IF user[u].uid = None THEN i ELSE None,
                                       SyncedRole(u, r), None, None, {}))
    <3>2. /\ j.at = "link" /\ j.of = u
          /\ j.row.uid = IF user[u].uid = None THEN i ELSE None
      BY DEF Job, Row
    <3>3. job' = [job EXCEPT ![h] = j]
      BY <2>3 DEF Begin
    <3> HIDE DEF j
    <3> QED BY <3>1, <3>2, <3>3
  <2> QED BY <2>1, <2>2, <2>3
<1>3. \A k \in Handler : job'[k] = IF k = h THEN j ELSE job[k]
  BY <1>0, <1>2
<1>4. UidOK'
  BY <1>1, <1>2, <1>3 DEF AccountInv, UidOK
<1>5. InvitedHasAccount'
  BY <1>1, <1>2, <1>3 DEF AccountInv, InvitedHasAccount
<1> QED BY <1>4, <1>5 DEF AccountInv

(* The three steps that give an account to an invitation, take it back, or *)
(* hand it to the row.                                                     *)
LEMMA InviteAccounts ==
  ASSUME AssignmentInv, AccountInv, NEW h \in Handler,
         Provision(h) \/ ProvisionFails(h) \/ InviteSaves(h)
  PROVE  AccountInv'
<1>0. /\ job \in [Handler -> JobType] /\ account \in [Uid -> Email \cup {None}]
      /\ user \in [User -> RowType] /\ JobFine(job[h]) /\ UidOK /\ InvitedHasAccount
      /\ \A k \in Handler : job[k].at = "link" => job[k].of \in User /\ Exists(job[k].of)
  BY DEF AssignmentInv, TypeOK, JobOK, JobFine, AccountInv
<1>1. CASE Provision(h)
  <2>1. PICK i \in Uid \ spent :
          /\ job[h].at = "invite"
          /\ account' = [account EXCEPT ![i] = job[h].row.email]
          /\ spent' = spent \cup {i}
          /\ job' = [job EXCEPT ![h].at = "provisioned", ![h].row.uid = i]
          /\ user' = user /\ rewritten' = rewritten
    BY <1>1 DEF Provision, people
  <2>2. /\ \A k \in Handler : k # h => job'[k] = job[k]
        /\ job'[h].at = "provisioned" /\ job'[h].row.uid = i
        /\ \A k \in Uid : account'[k] = IF k = i THEN job[h].row.email ELSE account[k]
    BY <1>0, <2>1 DEF JobType, RowType
  <2>3. job[h].row.email # None
    BY <1>0, <2>1 DEF JobFine
  <2>4. \A u \in User \ rewritten :
           user[u].role \in Invited => user[u].uid \in Uid /\ user[u].uid # i
    BY <1>0, <2>1 DEF UidOK, InvitedHasAccount, RowType
  <2>5. \A k \in Handler : job[k].at = "provisioned" =>
           job[k].row.uid \in Uid /\ job[k].row.uid # i
    BY <1>0, <2>1 DEF UidOK, AssignmentInv, TypeOK
  <2>6. UidOK'
    BY <1>0, <2>1, <2>2, <2>3, <2>5 DEF UidOK
  <2>7. InvitedHasAccount'
    BY <1>0, <2>1, <2>2, <2>4 DEF InvitedHasAccount
  <2> QED BY <2>6, <2>7 DEF AccountInv
<1>2. CASE ProvisionFails(h)
  <2>1. /\ job[h].at = "provisioned" /\ job' = [job EXCEPT ![h] = Idle]
        /\ account' = [account EXCEPT ![job[h].row.uid] = None]
        /\ spent' = spent /\ user' = user /\ rewritten' = rewritten
    BY <1>2 DEF ProvisionFails, End, people
  <2>2. /\ \A k \in Handler : job'[k] = IF k = h THEN Idle ELSE job[k]
        /\ \A k : k # job[h].row.uid /\ k \in Uid => account'[k] = account[k]
        /\ \A k \in Uid : account'[k] # None => account[k] # None
    BY <1>0, <2>1
  <2>3. \A k \in Handler : job[k].at = "provisioned" => job[k].row.uid \in Uid
    BY <1>0 DEF UidOK, AssignmentInv, TypeOK
  <2>4. \A u \in User \ rewritten : user[u].role \in Invited => user[u].uid \in Uid
    BY <1>0 DEF InvitedHasAccount, RowType
  <2>5. UidOK'
    BY <1>0, <2>1, <2>2, <2>3 DEF UidOK, Idle
  <2>6. InvitedHasAccount'
    BY <1>0, <2>1, <2>2, <2>4 DEF InvitedHasAccount, Idle
  <2> QED BY <2>5, <2>6 DEF AccountInv
<1>3. CASE InviteSaves(h)
  <2>1. job[h].at = "provisioned" /\ Insert(h, job[h].row)
    BY <1>3 DEF InviteSaves
  <2>2. PICK u \in User : ~Exists(u) /\ user' = [user EXCEPT ![u] = job[h].row]
    BY <2>1 DEF Insert
  <2>3. /\ job' = [job EXCEPT ![h] = Idle] /\ account' = account /\ spent' = spent
        /\ rewritten' = rewritten
    BY <2>1 DEF Insert, End, firebase
  <2>4. /\ \A v \in User : user'[v] = IF v = u THEN job[h].row ELSE user[v]
        /\ \A k \in Handler : job'[k] = IF k = h THEN Idle ELSE job[k]
    BY <1>0, <2>2, <2>3
  <2>5. job[h].row.uid \in spent /\ account[job[h].row.uid] # None /\ job[h].row.uid # None
    BY <1>0, <2>1, NoneIsNew DEF UidOK, AssignmentInv, TypeOK
  <2>6. UidOK'
    BY <1>0, <2>2, <2>3, <2>4 DEF UidOK, Idle
  <2>7. InvitedHasAccount'
    BY <1>0, <2>1, <2>3, <2>4, <2>5 DEF InvitedHasAccount, UidOK, Idle
  <2> QED BY <2>6, <2>7 DEF AccountInv
<1> QED BY <1>1, <1>2, <1>3

LEMMA InitAccounts == Init => AccountInv
BY NoneIsNew DEF Init, AccountInv, UidOK, InvitedHasAccount, Idle, NoRow, Row, Role, Invited

LEMMA StepAccounts == AssignmentInv /\ AccountInv /\ [Next]_vars => AccountInv'
<1> SUFFICES ASSUME AssignmentInv, AccountInv, [Next]_vars PROVE AccountInv'
  OBVIOUS
<1>0. job \in [Handler -> JobType] /\ user \in [User -> RowType]
  BY DEF AssignmentInv, TypeOK
<1>1. ASSUME account' = account, spent' = spent, UNCHANGED people, job' = job
      PROVE  AccountInv'
  BY <1>1 DEF AccountInv, UidOK, InvitedHasAccount, people
<1>2. CASE UNCHANGED vars
  BY <1>1, <1>2 DEF vars, people
<1>3. CASE Grant \/ CreateShop \/ DeleteShop \/ UpdateShop
  BY <1>1, <1>3 DEF Grant, CreateShop, DeleteShop, UpdateShop, firebase
<1>4. CASE SignUp
  <2>1. PICK i \in Uid \ spent, e \in Email :
          account' = [account EXCEPT ![i] = e] /\ spent' = spent \cup {i}
          /\ user' = user /\ rewritten' = rewritten /\ job' = job
    BY <1>4 DEF SignUp, people
  <2>2. account \in [Uid -> Email \cup {None}] /\ e # None
    BY NoneIsNew DEF AssignmentInv, TypeOK
  <2>3. \A k \in Uid : account'[k] = IF k = i THEN e ELSE account[k]
    BY <2>1, <2>2
  <2>4. /\ \A h \in Handler : job[h].at = "provisioned" => job[h].row.uid \in Uid
        /\ \A u \in User \ rewritten : user[u].role \in Invited => user[u].uid \in Uid
    BY <1>0 DEF AccountInv, UidOK, InvitedHasAccount, AssignmentInv, TypeOK, RowType
  <2>5. UidOK'
    BY <2>1, <2>2, <2>3, <2>4 DEF AccountInv, UidOK
  <2>6. InvitedHasAccount'
    BY <2>1, <2>2, <2>3, <2>4 DEF AccountInv, InvitedHasAccount
  <2> QED BY <2>5, <2>6 DEF AccountInv
<1>5. CASE UpdateProfile
  BY <1>0, <1>5, ProfilePeople, QuietAccounts
<1>6. ASSUME NEW h \in Handler, Handle(h) PROVE AccountInv'
  <2>1. CASE \/ RegisterReads(h) \/ FoundReads(h) \/ InviteReads(h) \/ UpdateReads(h)
             \/ ProfileMails(h) \/ Fails(h)
    BY <2>1, ReadPeople, QuietAccounts
  <2>2. CASE \/ RegisterSaves(h) \/ ExchangeCreates(h) \/ ExchangeLinks(h) \/ ProfileSaves(h)
             \/ FoundSaves(h) \/ UpdateSaves(h)
    BY <2>2, WritePeople, QuietAccounts
  <2>3. CASE ExchangeReads(h)
    BY <2>3, ExchangeReadsAccounts
  <2>4. CASE Provision(h) \/ ProvisionFails(h) \/ InviteSaves(h)
    BY <2>4, InviteAccounts
  <2> QED BY <1>6, <2>1, <2>2, <2>3, <2>4 DEF Handle
<1> QED BY <1>2, <1>3, <1>4, <1>5, <1>6 DEF Next

(* Whoever was invited has an account, and a failed invitation never takes *)
(* it back, unless an unfiltered body has changed the row (createOrgUser   *)
(* and provisionInvitedFirebaseUser).                                      *)
THEOREM InvitedAccounts == Spec => []InvitedHasAccount
<1>1. AccountInv => InvitedHasAccount
  BY DEF AccountInv
<1> QED
  BY <1>1, InitAccounts, StepAccounts, AssignmentInvariant, PTL DEF Spec

(* Whoever was invited stays invited, in the organization, unless an       *)
(* unfiltered body changes the row (shouldPreserveLocalRole and the        *)
(* transactions of createOrganizationForUser and updateOrgUser).           *)
THEOREM InvitedStays == Spec => InvitedStaysInvited
<1> DEFINE Stays == \A u \in User \ rewritten' : user[u].role \in Invited =>
                      user'[u].role \in Invited /\ user'[u].org = user[u].org
<1>1. AssignmentInv /\ AccountInv /\ [Next]_vars => [Stays]_vars
  <2> SUFFICES ASSUME AssignmentInv, AccountInv, Next PROVE Stays
    OBVIOUS
  <2>1. CASE user' = user
    BY <2>1
  <2>2. ASSUME PeopleKept PROVE Stays
    BY <2>2 DEF PeopleKept
  <2>3. ASSUME NEW h \in Handler, InviteSaves(h) PROVE Stays
    <3>1. PICK u \in User : ~Exists(u) /\ user' = [user EXCEPT ![u] = job[h].row]
      BY <2>3 DEF InviteSaves, Insert
    <3>2. user[u].role \notin Invited /\ user \in [User -> RowType]
      BY <3>1, NoneIsNew DEF Exists, Role, AssignmentInv, TypeOK
    <3> QED BY <3>1, <3>2
  <2>4. CASE UpdateProfile
    BY <2>2, <2>4, ProfilePeople
  <2>5. ASSUME NEW h \in Handler,
               \/ RegisterSaves(h) \/ ExchangeCreates(h) \/ ExchangeLinks(h) \/ ProfileSaves(h)
               \/ FoundSaves(h) \/ UpdateSaves(h)
        PROVE  Stays
    BY <2>2, <2>5, WritePeople
  <2>6. user' = user \/ UpdateProfile \/ \E h \in Handler :
          \/ InviteSaves(h) \/ RegisterSaves(h) \/ ExchangeCreates(h) \/ ExchangeLinks(h)
          \/ ProfileSaves(h) \/ FoundSaves(h) \/ UpdateSaves(h)
    <3> HIDE DEF Stays
    <3>1. SignUp \/ Grant \/ CreateShop \/ DeleteShop \/ UpdateShop => user' = user
      BY DEF SignUp, Grant, CreateShop, DeleteShop, UpdateShop, people
    <3>2. ASSUME NEW h \in Handler, RegisterReads(h) \/ FoundReads(h) \/ InviteReads(h)
          PROVE  user' = user
      BY <3>2 DEF RegisterReads, FoundReads, InviteReads, people
    <3>3. ASSUME NEW h \in Handler, ExchangeReads(h) \/ UpdateReads(h) PROVE user' = user
      BY <3>3 DEF ExchangeReads, UpdateReads, AssignReads, people
    <3>4. ASSUME NEW h \in Handler,
                 Provision(h) \/ ProvisionFails(h) \/ ProfileMails(h) \/ Fails(h)
          PROVE  user' = user
      BY <3>4 DEF Provision, ProvisionFails, ProfileMails, Fails, people
    <3> QED BY <3>1, <3>2, <3>3, <3>4 DEF Next, Handle
  <2> QED BY <2>1, <2>3, <2>4, <2>5, <2>6
<1> QED
  BY <1>1, InitAccounts, StepAccounts, AssignmentInvariant, PTL DEF Spec, InvitedStaysInvited

===============================================================================
