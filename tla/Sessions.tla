-------------------------------- MODULE Sessions --------------------------------
(***************************************************************************)
(* Sessions: signing in, refreshing, signing out, and what a change of a   *)
(* user's role or a deactivation does to the tokens that are out.          *)
(* auth.service.ts and auth.middleware.ts.                                 *)
(*                                                                         *)
(* An access token is a signed statement of what the user was when it was  *)
(* issued; nobody looks the user up again until it expires.  A refresh     *)
(* token is a row that a call reads, revokes and replaces in three         *)
(* statements of their own.  Time is what tokens have left to live.        *)
(***************************************************************************)
EXTENDS Naturals

CONSTANTS
  User,
  Rank,            \* what an active user can be: a role in an organization
  Device,
  Refresh, Access, \* bounds: how many tokens of either kind are out at once
  Handler,         \* requests that are served at the same time
  RefreshLife, AccessLife,
  None

ASSUME LifeAssumption == RefreshLife \in Nat \ {0} /\ AccessLife \in Nat \ {0}
ASSUME NoneIsNew == None \notin User \cup Rank \cup Device \cup Refresh /\ "inactive" \notin Rank

VARIABLES
  standing,  \* a user's rank, or "inactive"
  refresh,   \* the rows of RefreshToken; a revoked one has nothing left
  access,    \* the access tokens neither expired nor in TokenBlocklist
  call       \* where each handler stands, and what it has read

vars == << standing, refresh, access, call >>

NoRefresh == [of |-> None, device |-> None, left |-> 0]

NoAccess == [of |-> None, as |-> None, left |-> 0]

Idle == [at |-> "idle", of |-> None, as |-> None, token |-> None, device |-> None]

-------------------------------------------------------------------------------

Init ==
  /\ standing \in [User -> Rank]
  /\ refresh = [t \in Refresh |-> NoRefresh]
  /\ access = [a \in Access |-> NoAccess]
  /\ call = [h \in Handler |-> Idle]

Step(h, c) == call' = [call EXCEPT ![h] = c]

(* A token that no call can use any more: its slot is free for another.    *)
Dead(t) ==
  /\ refresh[t].left = 0
  /\ \A h \in Handler : call[h].token # t

Active(u) == standing[u] # "inactive"

(* login and exchangeFirebaseToken read the user; only an exchange knows a *)
(* device.                                                                 *)
SignIn(h) ==
  \E u \in User, d \in Device \cup {None} :
    /\ call[h] = Idle
    /\ Active(u)
    /\ Step(h, [at |-> "mint", of |-> u, as |-> standing[u], token |-> None, device |-> d])
    /\ UNCHANGED << standing, refresh, access >>

(* Mutant: the user is not looked at again. *)
MayRefreshAnyUser(t, d) ==
  /\ refresh[t].left > 0
  /\ None \in {refresh[t].device, d} \/ refresh[t].device = d

(* refreshTokens: what it validates ... *)
MayRefresh(t, d) ==
  /\ refresh[t].left > 0
  /\ Active(refresh[t].of)
  /\ None \in {refresh[t].device, d} \/ refresh[t].device = d

(* Mutant: the new token belongs to the device the request names. *)
NamedDevice(t, d) == d

(* ... and the device of the new token: deviceId || tokenRecord.deviceId.  *)
NextDevice(t, d) == IF d = None THEN refresh[t].device ELSE d

RefreshReads(h) ==
  \E t \in Refresh, d \in Device \cup {None} :
    /\ call[h] = Idle
    /\ MayRefresh(t, d)
    /\ Step(h, [at |-> "revoke", of |-> refresh[t].of, as |-> standing[refresh[t].of],
                token |-> t, device |-> NextDevice(t, d)])
    /\ UNCHANGED << standing, refresh, access >>

(* The old token is revoked by its id, whatever it is by now, ... *)
RefreshRevokes(h) ==
  /\ call[h].at = "revoke"
  /\ refresh' = [refresh EXCEPT ![call[h].token].left = 0]
  /\ call' = [call EXCEPT ![h].at = "mint"]
  /\ UNCHANGED << standing, access >>

(* ... and both new tokens are issued for what was read. *)
Mint(h) ==
  \E t \in Refresh, a \in Access :
    LET c == call[h]
    IN  /\ c.at = "mint"
        /\ Dead(t)
        /\ access[a] = NoAccess
        /\ access' = [access EXCEPT ![a] = [of |-> c.of, as |-> c.as, left |-> AccessLife]]
        /\ refresh' = [refresh EXCEPT ![t] =
                         [of |-> c.of, device |-> c.device, left |-> RefreshLife]]
        /\ Step(h, Idle)
        /\ UNCHANGED standing

(* logout blocks the access token it came with, unless that fails: any     *)
(* error is ignored, ...                                                   *)
LogoutBlocks(h) ==
  \E a \in Access, t \in Refresh \cup {None} :
    /\ call[h] = Idle
    /\ access[a] # NoAccess
    /\ access' \in {access, [access EXCEPT ![a] = NoAccess]}
    /\ Step(h, [Idle EXCEPT !.at = "logout", !.token = t])
    /\ UNCHANGED << standing, refresh >>

(* ... then revokes the refresh token it was given, if any, in the same    *)
(* way.                                                                    *)
LogoutRevokes(h) ==
  /\ call[h].at = "logout"
  /\ \/ refresh' = refresh
     \/ call[h].token # None /\ refresh' = [refresh EXCEPT ![call[h].token].left = 0]
  /\ Step(h, Idle)
  /\ UNCHANGED << standing, access >>

(* A statement fails or the server stops: what was written before stays.   *)
Fails(h) ==
  /\ call[h] # Idle
  /\ Step(h, Idle)
  /\ UNCHANGED << standing, refresh, access >>

(* deactivateOrgUser and deactivateUser. *)
Deactivate ==
  \E u \in User :
    /\ Active(u)
    /\ standing' = [standing EXCEPT ![u] = "inactive"]
    /\ UNCHANGED << refresh, access, call >>

(* updateOrgUser and all that Staffing says of a role. *)
ChangeRank ==
  \E u \in User, r \in Rank :
    /\ Active(u)
    /\ standing' = [standing EXCEPT ![u] = r]
    /\ UNCHANGED << refresh, access, call >>

(* PUT /api/auth/profile, with any access token that is still out, writes  *)
(* the columns its body names: role, organization and isActive among them. *)
(* So a deactivated user may be active again.                              *)
UpdateProfile ==
  \E a \in Access, s \in Rank \cup {"inactive"} :
    /\ access[a] # NoAccess
    /\ standing' = [standing EXCEPT ![access[a].of] = s]
    /\ UNCHANGED << refresh, access, call >>

(* Mutant: the last moment is not the end. *)
OlderUnchecked(left) == left - 1

Older(left) == IF left = 0 THEN 0 ELSE left - 1

OlderRefresh(t) ==
  IF Dead(t) THEN NoRefresh ELSE [refresh[t] EXCEPT !.left = Older(@)]

(* Mutant: access tokens are signed without an expiry. *)
TickRefreshOnly ==
  /\ refresh' = [t \in Refresh |-> OlderRefresh(t)]
  /\ UNCHANGED << standing, access, call >>

(* Time passes, and dead tokens are forgotten. *)
Tick ==
  /\ refresh' = [t \in Refresh |-> OlderRefresh(t)]
  /\ access' = [a \in Access |-> IF access[a].left <= 1 THEN NoAccess
                                 ELSE [access[a] EXCEPT !.left = Older(@)]]
  /\ UNCHANGED << standing, call >>

-------------------------------------------------------------------------------

Request(h) == SignIn(h) \/ RefreshReads(h) \/ LogoutBlocks(h)

Handle(h) == RefreshRevokes(h) \/ Mint(h) \/ LogoutRevokes(h)

Next ==
  \/ \E h \in Handler : Request(h) \/ Handle(h) \/ Fails(h)
  \/ Deactivate \/ ChangeRank \/ UpdateProfile \/ Tick

Spec == Init /\ [][Next]_vars

(* Handlers run and time passes. *)
FairSpec == Spec /\ WF_vars(Tick) /\ \A h \in Handler : WF_vars(Handle(h))

-------------------------------------------------------------------------------
(* Properties *)

RefreshType == [of : User \cup {None}, device : Device \cup {None}, left : 0..RefreshLife]

AccessType == [of : User \cup {None}, as : Rank \cup {None}, left : 0..AccessLife]

CallType ==
  [at : {"idle", "revoke", "mint", "logout"}, of : User \cup {None}, as : Rank \cup {None},
   token : Refresh \cup {None}, device : Device \cup {None}]

(* Every variable keeps its type. *)
TypeOK ==
  /\ standing \in [User -> Rank \cup {"inactive"}]
  /\ refresh \in [Refresh -> RefreshType]
  /\ access \in [Access -> AccessType]
  /\ call \in [Handler -> CallType]

(* A session that was bound to a device stays with it: whoever replaces a  *)
(* bound token, with a request that names the device or none, binds the    *)
(* new one to the same device.                                             *)
StaysBound ==
  \A h \in Handler :
    /\ call[h].at \in {"revoke", "mint"}
    /\ call[h].token # None
    /\ refresh[call[h].token].device # None
    => call[h].device = refresh[call[h].token].device

(* Once the requests that were under way when a user was deactivated are   *)
(* over, no request gets a token for that user, who is inactive still.     *)
InactiveGetsNothing ==
  [][\A u \in User :
       ~Active(u) /\ (\A h \in Handler : call[h].of # u) =>
         /\ \A h \in Handler : call'[h].of # u
         /\ \A a \in Access : access'[a].of = u => access[a].of = u]_vars

(* A change of role, or a deactivation, reaches every token in the end:    *)
(* none that says otherwise is accepted any more.                          *)
StandingCatchesUp ==
  \A u \in User, s \in Rank \cup {"inactive"} :
    <>[](standing[u] = s) => <>[](\A a \in Access : access[a].of = u => access[a].as = s)

-------------------------------------------------------------------------------
(* The inductive invariant behind StaysBound *)

(* A live token and a call that will issue one belong to somebody. *)
Held ==
  /\ \A t \in Refresh : refresh[t].left > 0 => refresh[t].of # None
  /\ \A h \in Handler : call[h].at \in {"revoke", "mint"} => call[h].of # None

SessionInv == TypeOK /\ Held /\ StaysBound

================================================================================
