---------------------------- MODULE SessionsProofs ----------------------------
(***************************************************************************)
(* Sessions, for any number of users, devices, tokens and handlers: types, *)
(* the device a session is bound to, and what a deactivated user gets.     *)
(***************************************************************************)
EXTENDS Sessions, TLAPS

-------------------------------------------------------------------------------
(* What the actions are made of *)

LEMMA EmptyTypes == NoRefresh \in RefreshType /\ NoAccess \in AccessType /\ Idle \in CallType
BY LifeAssumption DEF NoRefresh, NoAccess, Idle, RefreshType, AccessType, CallType

LEMMA Ages ==
  ASSUME NEW n \in Nat \ {0}, NEW left \in 0..n
  PROVE  Older(left) \in 0..n /\ (Older(left) > 0 => left > 0)
BY DEF Older

LEMMA ActiveRank ==
  ASSUME TypeOK, NEW u \in User, Active(u)
  PROVE  standing[u] \in Rank
BY DEF TypeOK, Active

(* A call that says who it is for, and keeps the device of the token it    *)
(* holds.                                                                  *)
CallFine(c) ==
  c.at \in {"revoke", "mint"} =>
    /\ c.of # None
    /\ c.token # None /\ refresh[c.token].device # None => c.device = refresh[c.token].device

(* One handler goes on, and tokens only lose what they had left or fill a  *)
(* slot that no call holds.                                                *)
LEMMA CallStep ==
  ASSUME SessionInv, NEW h \in Handler, NEW c \in CallType, CallFine(c),
         call' = [call EXCEPT ![h] = c],
         refresh' \in [Refresh -> RefreshType], access' \in [Access -> AccessType],
         standing' = standing,
         \A t \in Refresh : refresh'[t].left > 0 => refresh'[t].of # None,
         \A t \in Refresh : refresh'[t].device = refresh[t].device
                              \/ (Dead(t) /\ c.token # t)
  PROVE  SessionInv'
<1>1. TypeOK'
  BY DEF SessionInv, TypeOK
<1>2. \A k \in Handler : call'[k] = IF k = h THEN c ELSE call[k]
  BY DEF SessionInv, TypeOK
<1>3. Held'
  BY <1>2 DEF SessionInv, Held, CallFine
<1>4. StaysBound'
  <2> SUFFICES ASSUME NEW k \in Handler, call'[k].at \in {"revoke", "mint"},
                      call'[k].token # None, refresh'[call'[k].token].device # None
               PROVE  call'[k].device = refresh'[call'[k].token].device
    BY DEF StaysBound
  <2>1. call'[k].token \in Refresh
    BY <1>1 DEF TypeOK, CallType
  <2>2. refresh'[call'[k].token].device = refresh[call'[k].token].device
    BY <1>2, <2>1 DEF Dead
  <2> QED BY <1>2, <2>2 DEF SessionInv, StaysBound, CallFine
<1> QED BY <1>1, <1>3, <1>4 DEF SessionInv

LEMMA InitSessions == Init => SessionInv
<1> SUFFICES ASSUME Init PROVE SessionInv
  OBVIOUS
<1>1. TypeOK
  BY EmptyTypes DEF Init, TypeOK
<1>2. Held /\ StaysBound
  BY DEF Init, Held, StaysBound, NoRefresh, Idle
<1> QED BY <1>1, <1>2 DEF SessionInv

-------------------------------------------------------------------------------
(* The actions *)

LEMMA RequestSessions ==
  ASSUME SessionInv, NEW h \in Handler, Request(h)
  PROVE  SessionInv'
<1>0. /\ TypeOK /\ Held /\ refresh \in [Refresh -> RefreshType]
      /\ access \in [Access -> AccessType] /\ call[h] \in CallType
  BY DEF SessionInv, TypeOK
<1>1. CASE SignIn(h)
  <2>1. PICK u \in User, d \in Device \cup {None} :
          /\ Active(u)
          /\ call' = [call EXCEPT ![h] =
                        [at |-> "mint", of |-> u, as |-> standing[u], token |-> None, device |-> d]]
          /\ standing' = standing /\ refresh' = refresh /\ access' = access
    BY <1>1 DEF SignIn, Step
  <2> DEFINE c == [at |-> "mint", of |-> u, as |-> standing[u], token |-> None, device |-> d]
  <2>2. c \in CallType /\ CallFine(c)
    BY <1>0, <2>1, ActiveRank, NoneIsNew DEF CallType, CallFine
  <2>3. call' = [call EXCEPT ![h] = c]
    BY <2>1
  <2> HIDE DEF c
  <2> QED BY <1>0, <2>1, <2>2, <2>3, CallStep DEF Held
<1>2. CASE RefreshReads(h)
  <2>1. PICK t \in Refresh, d \in Device \cup {None} :
          /\ MayRefresh(t, d)
          /\ call' = [call EXCEPT ![h] =
                        [at |-> "revoke", of |-> refresh[t].of, as |-> standing[refresh[t].of],
                         token |-> t, device |-> NextDevice(t, d)]]
          /\ standing' = standing /\ refresh' = refresh /\ access' = access
    BY <1>2 DEF RefreshReads, Step
  <2> DEFINE c == [at |-> "revoke", of |-> refresh[t].of, as |-> standing[refresh[t].of],
                   token |-> t, device |-> NextDevice(t, d)]
  <2>2. refresh[t].of \in User /\ refresh[t].device \in Device \cup {None}
    BY <1>0, <2>1 DEF RefreshType, MayRefresh, Held
  <2>3. standing[refresh[t].of] \in Rank
    BY <1>0, <2>1, <2>2, ActiveRank DEF MayRefresh
  <2>4. /\ NextDevice(t, d) \in Device \cup {None}
        /\ refresh[t].device # None => NextDevice(t, d) = refresh[t].device
    BY <2>1, <2>2 DEF NextDevice, MayRefresh
  <2>5. c \in CallType /\ CallFine(c)
    BY <2>2, <2>3, <2>4, NoneIsNew DEF CallType, CallFine
  <2>6. call' = [call EXCEPT ![h] = c]
    BY <2>1
  <2> HIDE DEF c
  <2> QED BY <1>0, <2>1, <2>5, <2>6, CallStep DEF Held
<1>3. CASE LogoutBlocks(h)
  <2>1. PICK a \in Access, t \in Refresh \cup {None} :
          /\ access' \in {access, [access EXCEPT ![a] = NoAccess]}
          /\ call' = [call EXCEPT ![h] = [Idle EXCEPT !.at = "logout", !.token = t]]
          /\ standing' = standing /\ refresh' = refresh
    BY <1>3 DEF LogoutBlocks, Step
  <2> DEFINE c == [Idle EXCEPT !.at = "logout", !.token = t]
  <2>2. c \in CallType /\ CallFine(c)
    BY DEF CallType, CallFine, Idle
  <2>3. access' \in [Access -> AccessType] /\ call' = [call EXCEPT ![h] = c]
    BY <1>0, <2>1, EmptyTypes
  <2> HIDE DEF c
  <2> QED BY <1>0, <2>1, <2>2, <2>3, CallStep DEF Held
<1> QED BY <1>1, <1>2, <1>3 DEF Request

LEMMA HandleSessions ==
  ASSUME SessionInv, NEW h \in Handler, Handle(h) \/ Fails(h)
  PROVE  SessionInv'
<1>0. /\ TypeOK /\ Held /\ refresh \in [Refresh -> RefreshType]
      /\ access \in [Access -> AccessType] /\ call \in [Handler -> CallType]
      /\ call[h] \in CallType /\ CallFine(call[h])
  BY DEF SessionInv, TypeOK, Held, StaysBound, CallFine
<1>1. CallFine(Idle)
  BY DEF CallFine, Idle
<1>2. CASE Fails(h)
  <2>1. /\ call' = [call EXCEPT ![h] = Idle]
        /\ standing' = standing /\ refresh' = refresh /\ access' = access
    BY <1>2 DEF Fails, Step
  <2> QED BY <1>0, <1>1, <2>1, EmptyTypes, CallStep DEF Held
<1>3. ASSUME NEW t \in Refresh, refresh' = [refresh EXCEPT ![t].left = 0]
      PROVE  /\ refresh' \in [Refresh -> RefreshType]
             /\ \A s \in Refresh : refresh'[s].left > 0 => refresh'[s].of # None
             /\ \A s \in Refresh : refresh'[s].device = refresh[s].device
  <2>1. refresh' \in [Refresh -> RefreshType]
    BY <1>0, <1>3, LifeAssumption DEF RefreshType
  <2>2. \A s \in Refresh : /\ refresh'[s].left > 0 => refresh[s].left > 0
                           /\ refresh'[s].of = refresh[s].of
                           /\ refresh'[s].device = refresh[s].device
    BY <1>0, <1>3 DEF RefreshType
  <2> QED BY <1>0, <2>1, <2>2 DEF Held
<1>4. CASE RefreshRevokes(h)
  <2> DEFINE c == [call[h] EXCEPT !.at = "mint"]
  <2>1. /\ call[h].at = "revoke" /\ call' = [call EXCEPT ![h] = c]
        /\ refresh' = [refresh EXCEPT ![call[h].token].left = 0]
        /\ standing' = standing /\ access' = access
    BY <1>0, <1>4 DEF RefreshRevokes
  <2>2. c \in CallType /\ CallFine(c)
    BY <1>0, <2>1 DEF CallType, CallFine
  <2> HIDE DEF c
  <2>3. CASE call[h].token \in Refresh
    BY <1>0, <1>3, <2>1, <2>2, <2>3, CallStep
  <2>4. CASE call[h].token = None
    <3>1. refresh' = refresh
      BY <1>0, <2>1, <2>4, NoneIsNew
    <3> QED BY <1>0, <2>1, <2>2, <3>1, CallStep DEF Held
  <2> QED BY <1>0, <2>3, <2>4 DEF CallType
<1>5. CASE LogoutRevokes(h)
  <2>1. /\ call' = [call EXCEPT ![h] = Idle] /\ standing' = standing /\ access' = access
        /\ \/ refresh' = refresh
           \/ call[h].token # None /\ refresh' = [refresh EXCEPT ![call[h].token].left = 0]
    BY <1>5 DEF LogoutRevokes, Step
  <2>2. CASE refresh' = refresh
    BY <1>0, <1>1, <2>1, <2>2, EmptyTypes, CallStep DEF Held
  <2>3. CASE call[h].token # None /\ refresh' = [refresh EXCEPT ![call[h].token].left = 0]
    <3>1. call[h].token \in Refresh
      BY <1>0, <2>3 DEF CallType
    <3> QED BY <1>0, <1>1, <1>3, <2>1, <2>3, <3>1, EmptyTypes, CallStep
  <2> QED BY <2>1, <2>2, <2>3
<1>6. CASE Mint(h)
  <2>1. PICK t \in Refresh, a \in Access :
          /\ call[h].at = "mint" /\ Dead(t)
          /\ access' = [access EXCEPT ![a] =
                          [of |-> call[h].of, as |-> call[h].as, left |-> AccessLife]]
          /\ refresh' = [refresh EXCEPT ![t] =
                           [of |-> call[h].of, device |-> call[h].device, left |-> RefreshLife]]
          /\ call' = [call EXCEPT ![h] = Idle] /\ standing' = standing
    BY <1>6 DEF Mint, Step
  <2>2. access' \in [Access -> AccessType]
    BY <1>0, <2>1, LifeAssumption DEF AccessType, CallType
  <2>3. refresh' \in [Refresh -> RefreshType]
    BY <1>0, <2>1, LifeAssumption DEF RefreshType, CallType
  <2>4. call[h].of # None
    BY <1>0, <2>1 DEF Held
  <2>5. /\ \A s \in Refresh : s # t => refresh'[s] = refresh[s]
        /\ refresh'[t].of = call[h].of
    BY <1>0, <2>1
  <2>6. \A s \in Refresh : refresh'[s].left > 0 => refresh'[s].of # None
    BY <1>0, <2>4, <2>5 DEF Held
  <2>7. \A s \in Refresh : refresh'[s].device = refresh[s].device \/ (Dead(s) /\ Idle.token # s)
    BY <2>1, <2>5, NoneIsNew DEF Idle
  <2> QED BY <1>1, <2>1, <2>2, <2>3, <2>6, <2>7, EmptyTypes, CallStep
<1> QED BY <1>2, <1>4, <1>5, <1>6 DEF Handle

(* A user changes: no token does. *)
LEMMA UserSessions ==
  ASSUME SessionInv, Deactivate \/ ChangeRank \/ UpdateProfile
  PROVE  SessionInv'
<1>1. refresh' = refresh /\ access' = access /\ call' = call
  BY DEF Deactivate, ChangeRank, UpdateProfile
<1>2. standing' \in [User -> Rank \cup {"inactive"}]
  BY DEF Deactivate, ChangeRank, UpdateProfile, SessionInv, TypeOK
<1> QED BY <1>1, <1>2 DEF SessionInv, TypeOK, Held, StaysBound

(* Time passes: a token that a call holds is not forgotten. *)
LEMMA TickSessions ==
  ASSUME SessionInv, Tick
  PROVE  SessionInv'
<1>0. /\ TypeOK /\ Held /\ StaysBound /\ refresh \in [Refresh -> RefreshType]
      /\ access \in [Access -> AccessType] /\ call \in [Handler -> CallType]
      /\ RefreshLife \in Nat \ {0} /\ AccessLife \in Nat \ {0}
  BY LifeAssumption DEF SessionInv, TypeOK
<1>1. /\ refresh' = [t \in Refresh |-> OlderRefresh(t)]
      /\ access' = [a \in Access |-> IF access[a].left <= 1 THEN NoAccess
                                     ELSE [access[a] EXCEPT !.left = Older(@)]]
      /\ call' = call /\ standing' = standing
  BY DEF Tick
<1>2. ASSUME NEW t \in Refresh
      PROVE  /\ OlderRefresh(t) \in RefreshType
             /\ OlderRefresh(t).left > 0 =>
                  refresh[t].left > 0 /\ OlderRefresh(t).of = refresh[t].of
             /\ OlderRefresh(t).device = refresh[t].device \/ Dead(t)
  <2>1. /\ refresh[t] \in RefreshType /\ refresh[t].left \in 0..RefreshLife
        /\ Older(refresh[t].left) \in 0..RefreshLife
        /\ Older(refresh[t].left) > 0 => refresh[t].left > 0
    BY <1>0, Ages DEF RefreshType
  <2>2. CASE Dead(t)
    BY <2>2, EmptyTypes DEF OlderRefresh, NoRefresh
  <2>3. CASE ~Dead(t)
    BY <2>1, <2>3 DEF OlderRefresh, RefreshType
  <2> QED BY <2>2, <2>3
<1>3. ASSUME NEW a \in Access
      PROVE  (IF access[a].left <= 1 THEN NoAccess
              ELSE [access[a] EXCEPT !.left = Older(@)]) \in AccessType
  <2>1. access[a] \in AccessType /\ Older(access[a].left) \in 0..AccessLife
    BY <1>0, Ages DEF AccessType
  <2> QED BY <2>1, EmptyTypes DEF AccessType
<1>4. TypeOK'
  BY <1>0, <1>1, <1>2, <1>3 DEF TypeOK
<1>5. Held'
  BY <1>0, <1>1, <1>2 DEF Held
<1>6. StaysBound'
  <2> SUFFICES ASSUME NEW h \in Handler, call[h].at \in {"revoke", "mint"},
                      call[h].token # None, refresh'[call[h].token].device # None
               PROVE  call[h].device = refresh'[call[h].token].device
    BY <1>1 DEF StaysBound
  <2>1. call[h].token \in Refresh
    BY <1>0 DEF CallType
  <2>2. refresh'[call[h].token].device = refresh[call[h].token].device
    BY <1>1, <1>2, <2>1 DEF Dead
  <2> QED BY <1>0, <2>2 DEF StaysBound
<1> QED BY <1>4, <1>5, <1>6 DEF SessionInv

-------------------------------------------------------------------------------
(* The theorems *)

(* What calls and tokens say of each other stays right. *)
THEOREM SessionInvariant == Spec => []SessionInv
<1>1. SessionInv /\ [Next]_vars => SessionInv'
  <2> SUFFICES ASSUME SessionInv, [Next]_vars PROVE SessionInv'
    OBVIOUS
  <2>1. CASE UNCHANGED vars
    BY <2>1 DEF vars, SessionInv, TypeOK, Held, StaysBound
  <2>2. ASSUME NEW h \in Handler, Request(h) \/ Handle(h) \/ Fails(h) PROVE SessionInv'
    BY <2>2, RequestSessions, HandleSessions
  <2> QED BY <2>1, <2>2, UserSessions, TickSessions DEF Next
<1> QED BY <1>1, InitSessions, PTL DEF Spec

(* The types of Sessions. *)
THEOREM SessionTypes == Spec => []TypeOK
<1>1. SessionInv => TypeOK
  BY DEF SessionInv
<1> QED BY <1>1, SessionInvariant, PTL

(* A token that was bound to a device is only replaced by tokens for that  *)
(* device (refreshTokens), also when it is used twice at the same time.    *)
THEOREM SessionStaysBound == Spec => []StaysBound
<1>1. SessionInv => StaysBound
  BY DEF SessionInv
<1> QED BY <1>1, SessionInvariant, PTL

(* A user who is inactive gets no token from a request that was not under  *)
(* way when that began (the isActive checks of login, exchange, refresh).  *)
THEOREM InactiveUsersGetNothing == Spec => InactiveGetsNothing
<1> DEFINE NoneGot(u) == /\ \A h \in Handler : call'[h].of # u
                         /\ \A a \in Access : access'[a].of = u => access[a].of = u
<1>1. ASSUME SessionInv, Next, NEW u \in User, ~Active(u), \A h \in Handler : call[h].of # u
      PROVE  NoneGot(u)
  <2>1. /\ call \in [Handler -> CallType] /\ access \in [Access -> AccessType] /\ u # None
        /\ NoAccess.of # u /\ Idle.of # u
    BY <1>1, NoneIsNew DEF SessionInv, TypeOK, NoAccess, Idle
  <2>2. ASSUME NEW h \in Handler, NEW c, call' = [call EXCEPT ![h] = c], c.of # u
        PROVE  \A k \in Handler : call'[k].of # u
    BY <1>1, <2>1, <2>2
  <2>3. ASSUME NEW h \in Handler, SignIn(h) PROVE NoneGot(u)
    <3>1. PICK v \in User, d \in Device \cup {None} :
            /\ Active(v) /\ access' = access
            /\ call' = [call EXCEPT ![h] =
                 [at |-> "mint", of |-> v, as |-> standing[v], token |-> None, device |-> d]]
      BY <2>3 DEF SignIn, Step
    <3> DEFINE c == [at |-> "mint", of |-> v, as |-> standing[v], token |-> None, device |-> d]
    <3>2. c.of # u /\ call' = [call EXCEPT ![h] = c]
      BY <1>1, <3>1
    <3> HIDE DEF c
    <3> QED BY <2>2, <3>1, <3>2
  <2>4. ASSUME NEW h \in Handler, RefreshReads(h) PROVE NoneGot(u)
    <3>1. PICK t \in Refresh, d \in Device \cup {None} :
            /\ Active(refresh[t].of) /\ access' = access
            /\ call' = [call EXCEPT ![h] =
                 [at |-> "revoke", of |-> refresh[t].of, as |-> standing[refresh[t].of],
                  token |-> t, device |-> NextDevice(t, d)]]
      BY <2>4 DEF RefreshReads, MayRefresh, Step
    <3> DEFINE c == [at |-> "revoke", of |-> refresh[t].of, as |-> standing[refresh[t].of],
                     token |-> t, device |-> NextDevice(t, d)]
    <3>2. c.of # u /\ call' = [call EXCEPT ![h] = c]
      BY <1>1, <3>1
    <3> HIDE DEF c
    <3> QED BY <2>2, <3>1, <3>2
  <2>5. ASSUME NEW h \in Handler, LogoutBlocks(h) PROVE NoneGot(u)
    <3>1. PICK a \in Access, t \in Refresh \cup {None} :
            /\ access' \in {access, [access EXCEPT ![a] = NoAccess]}
            /\ call' = [call EXCEPT ![h] = [Idle EXCEPT !.at = "logout", !.token = t]]
      BY <2>5 DEF LogoutBlocks, Step
    <3>2. [Idle EXCEPT !.at = "logout", !.token = t].of # u
      BY <2>1 DEF Idle
    <3>3. \A b \in Access : access'[b] \in {access[b], NoAccess}
      BY <2>1, <3>1
    <3> QED BY <2>1, <2>2, <3>1, <3>2, <3>3
  <2>6. ASSUME NEW h \in Handler, RefreshRevokes(h) PROVE NoneGot(u)
    <3>1. access' = access /\ call' = [call EXCEPT ![h] = [call[h] EXCEPT !.at = "mint"]]
      BY <2>1, <2>6 DEF RefreshRevokes
    <3>2. [call[h] EXCEPT !.at = "mint"].of # u
      BY <1>1, <2>1 DEF CallType
    <3> QED BY <2>2, <3>1, <3>2
  <2>7. ASSUME NEW h \in Handler, Mint(h) PROVE NoneGot(u)
    <3>1. PICK a \in Access :
            /\ access' = [access EXCEPT ![a] =
                            [of |-> call[h].of, as |-> call[h].as, left |-> AccessLife]]
            /\ call' = [call EXCEPT ![h] = Idle]
      BY <2>7 DEF Mint, Step
    <3>2. \A b \in Access : access'[b].of \in {access[b].of, call[h].of}
      BY <2>1, <3>1
    <3> QED BY <1>1, <2>1, <2>2, <3>1, <3>2
  <2>8. ASSUME NEW h \in Handler, LogoutRevokes(h) \/ Fails(h) PROVE NoneGot(u)
    <3>1. access' = access /\ call' = [call EXCEPT ![h] = Idle]
      BY <2>8 DEF LogoutRevokes, Fails, Step
    <3> QED BY <2>1, <2>2, <3>1
  <2>9. CASE Deactivate \/ ChangeRank \/ UpdateProfile
    BY <1>1, <2>9 DEF Deactivate, ChangeRank, UpdateProfile
  <2>10. CASE Tick
    <3>1. /\ call' = call
          /\ access' = [a \in Access |-> IF access[a].left <= 1 THEN NoAccess
                                         ELSE [access[a] EXCEPT !.left = Older(@)]]
      BY <2>10 DEF Tick
    <3>2. \A a \in Access : access'[a].of \in {access[a].of, NoAccess.of}
      BY <2>1, <3>1 DEF AccessType
    <3> QED BY <1>1, <2>1, <3>1, <3>2
  <2> HIDE DEF NoneGot
  <2> QED
    BY <1>1, <2>3, <2>4, <2>5, <2>6, <2>7, <2>8, <2>9, <2>10 DEF Next, Request, Handle
<1>2. SessionInv /\ [Next]_vars =>
        [\A u \in User : ~Active(u) /\ (\A h \in Handler : call[h].of # u) => NoneGot(u)]_vars
  <2> HIDE DEF NoneGot
  <2> QED BY <1>1
<1> QED
  BY <1>2, SessionInvariant, PTL DEF Spec, InactiveGetsNothing

===============================================================================
