----------------------------- MODULE NoticesProofs -----------------------------
(***************************************************************************)
(* Notifications, for any number of organizations, shops, clients, members *)
(* and trades: types, the account of every trade, and what may happen to a *)
(* notification.                                                           *)
(***************************************************************************)
EXTENDS Notices, FiniteSetTheorems, SequenceTheorems, WellFoundedInduction, TLAPS

---------------------------------------------------------------------------
\* Names of notifications.

LEMMA Naming ==
  ASSUME NEW t \in Traders, NEW k \in 1..MaxTrades[t]
  PROVE  << t, k >> \in Id /\ Home(<< t, k >>) = OrgOf[ShopOf[t]] /\ OrgOf[ShopOf[t]] \in Orgs
BY NoticesSetting DEF Id, Home

LEMMA Parts ==
  ASSUME NEW id \in Id
  PROVE  /\ id = << id[1], id[2] >> /\ id # << >>
         /\ id[1] \in Traders /\ id[2] \in 1..MaxTrades[id[1]]
         /\ Home(id) = OrgOf[ShopOf[id[1]]] /\ Home(id) \in Orgs
BY NoticesSetting DEF Id, Home

LEMMA Entries ==
  ASSUME TypeOK, NEW i \in DOMAIN made
  PROVE  i \in 1..Len(made) /\ made[i].id \in Id /\ made[i].org \in Orgs
<1>1. made \in Seq([id : Id, org : Orgs]) /\ i \in 1..Len(made)
  BY DEF TypeOK
<1>2. made[i] \in [id : Id, org : Orgs]
  BY <1>1, ElementOfSeq
<1> QED BY <1>1, <1>2

LEMMA NotesFinite ==
  ASSUME TypeOK, NEW t \in Traders
  PROVE  IsFiniteSet(Notes(t)) /\ Cardinality(Notes(t)) \in Nat /\ Notes(t) \subseteq 1..Len(made)
<1>1. Len(made) \in Nat /\ DOMAIN made = 1..Len(made)
  BY DEF TypeOK
<1>2. Notes(t) \subseteq 1..Len(made)
  BY <1>1 DEF Notes
<1>3. IsFiniteSet(1..Len(made))
  BY <1>1, FS_Interval
<1> QED BY <1>2, <1>3, FS_Subset, FS_CardinalityType

\* Nothing has been sent yet.
LEMMA InitNotices == Init => NoticesInv
<1> SUFFICES ASSUME Init PROVE NoticesInv
  OBVIOUS
<1>1. \A t \in Traders : NewTrader \in Trader(t) /\ 0 \in 0..MaxTrades[t]
  BY NoticesSetting DEF NewTrader, Trader
<1>2. NewReader \in Reader /\ NewReader.pc = "idle" /\ NewReader.id = << >> /\ NewReader.op = "list"
      /\ NewReader.got = {} /\ NewReader.upTo = 0
  BY NoticesSetting DEF NewReader, Reader, Op
<1>3. made = << >> /\ made \in Seq([id : Id, org : Orgs]) /\ DOMAIN made = {} /\ Len(made) = 0
  BY DEF Init
<1>4. /\ \A t \in Traders : trader[t] = NewTrader /\ trades[t] = 0
      /\ \A r \in Readers : reader[r] = NewReader
      /\ \A id \in Id : st[id] = "none"
  BY DEF Init
<1>5. TypeOK
  BY <1>1, <1>2, <1>3, <1>4 DEF Init, TypeOK
<1>6. \A t \in Traders : Notes(t) = {} /\ Cardinality(Notes(t)) = 0
  BY <1>3, FS_EmptySet DEF Notes
<1>7. TradesAccounted /\ Founded
  BY <1>3, <1>4, <1>6 DEF TradesAccounted, Founded, NewTrader
<1>8. (\A t \in Traders : Counted(t)) /\ (\A r \in Readers : Checked(r))
  BY <1>2, <1>4 DEF Counted, Checked, NewTrader
<1> QED BY <1>5, <1>7, <1>8 DEF NoticesInv

---------------------------------------------------------------------------
\* One client goes on, and no notification is written.

Fits(t, c, n) ==
  /\ n + (IF c.pc = "serving" THEN 1 ELSE 0) <= c.sent
  /\ n + (IF c.pc \in {"serving", "failed"} THEN 1 ELSE 0) <= c.wanted + c.errors
  /\ c.errors + (IF c.pc \in {"serving", "noting"} THEN 1 ELSE 0) <= c.sent /\ c.wanted <= c.sent
  /\ c.pc = "noting" => n > 0 /\ st[<< t, n >>] = "none"
  /\ n <= Cardinality(Notes(t)) + c.errors + (IF c.pc = "noting" THEN 1 ELSE 0)
  /\ c.pc # "told"

\* A step of one client and its handler, which creates no notification, keeps the
\* invariant if it keeps that client in order.
LEMMA TraderStep ==
  ASSUME NoticesInv, NEW t \in Traders, NEW c \in Trader(t), NEW n \in 0..MaxTrades[t],
         DOMAIN trader' = Traders, DOMAIN trades' = Traders,
         \A u \in Traders : trader'[u] = IF u = t THEN c ELSE trader[u],
         \A u \in Traders : trades'[u] = IF u = t THEN n ELSE trades[u],
         n >= trades[t], made' = made, st' = st, reader' = reader,
         Fits(t, c, n)
  PROVE  NoticesInv'
<1>1. /\ TypeOK /\ TradesAccounted /\ Founded
      /\ (\A u \in Traders : Counted(u)) /\ (\A r \in Readers : Checked(r))
  BY DEF NoticesInv
<1>2. TypeOK'
  BY <1>1 DEF TypeOK, Trader
<1>3. \A u \in Traders : Notes(u)' = Notes(u)
  BY DEF Notes
<1>4. TradesAccounted'
  <2> SUFFICES ASSUME NEW u \in Traders
               PROVE  /\ trades'[u] <= Cardinality(Notes(u)) + trader'[u].errors
                                         + (IF trader'[u].pc = "noting" THEN 1 ELSE 0)
                      /\ trades'[u] <= trader'[u].wanted + trader'[u].errors
                      /\ trader'[u].pc = "told" => \E i \in Notes(u) : made[i].id = << u, trades'[u] >>
                      /\ \A i \in Notes(u) : made[i].org = OrgOf[ShopOf[u]] /\ made[i].id[2] <= trades'[u]
    BY <1>3 DEF TradesAccounted
  <2>1. CASE u # t
    BY <2>1, <1>1 DEF TradesAccounted
  <2>2. CASE u = t
    <3>1. trades'[u] = n /\ trader'[u] = c
      BY <2>2
    <3>2. n <= c.wanted + c.errors
      BY <1>1 DEF Trader, Fits
    <3>3. \A i \in Notes(u) : made[i].org = OrgOf[ShopOf[u]] /\ made[i].id[2] <= n
      <4> SUFFICES ASSUME NEW i \in Notes(u) PROVE made[i].org = OrgOf[ShopOf[u]] /\ made[i].id[2] <= n
        OBVIOUS
      <4>1. made[i].id \in Id /\ made[i].id[1] = u
        BY <1>1, Entries DEF Notes
      <4>2. made[i].id[2] \in 1..MaxTrades[u] /\ trades[u] \in 0..MaxTrades[u]
        BY <4>1, <1>1, Parts DEF TypeOK
      <4> QED BY <4>2, <1>1, <2>2, NoticesSetting DEF TradesAccounted
    <3> QED BY <3>1, <3>2, <3>3, <2>2, <1>1 DEF TradesAccounted, Fits
  <2> QED BY <2>1, <2>2
<1>5. Founded'
  <2> SUFFICES ASSUME NEW id \in Id, st[id] # "none" PROVE id[2] <= trades'[id[1]]
    BY <1>1 DEF Founded
  <2>1. id[1] \in Traders /\ id[2] \in 1..MaxTrades[id[1]] /\ id[2] <= trades[id[1]]
    BY <1>1, Parts DEF Founded
  <2>2. trades[id[1]] \in 0..MaxTrades[id[1]]
    BY <1>1, <2>1 DEF TypeOK
  <2> QED BY <2>1, <2>2, NoticesSetting
<1>6. ASSUME NEW u \in Traders PROVE Counted(u)'
  <2>1. CASE u # t
    BY <2>1, <1>1 DEF Counted
  <2>2. CASE u = t
    BY <2>2 DEF Counted, Fits
  <2> QED BY <2>1, <2>2
<1>7. \A r \in Readers : Checked(r)'
  BY <1>1 DEF Checked
<1> QED BY <1>2, <1>4, <1>5, <1>6, <1>7 DEF NoticesInv

\* The steps of trades that create no notification.
LEMMA TradeSteps ==
  ASSUME NoticesInv, NEW t \in Traders, Send(t) \/ SendAgain(t) \/ Commit(t) \/ Refuse(t) \/ RecordFails(t)
  PROVE  NoticesInv'
<1>1. /\ TypeOK /\ TradesAccounted /\ Founded /\ Counted(t)
      /\ trader[t] \in Trader(t) /\ trades[t] \in 0..MaxTrades[t] /\ MaxTrades[t] \in Nat \ {0}
      /\ DOMAIN trader = Traders /\ DOMAIN trades = Traders
  BY NoticesSetting DEF NoticesInv, TypeOK
<1>2. /\ trades[t] <= Cardinality(Notes(t)) + trader[t].errors + (IF trader[t].pc = "noting" THEN 1 ELSE 0)
      /\ Cardinality(Notes(t)) \in Nat
      /\ trader[t].sent \in Nat /\ trader[t].wanted \in Nat /\ trader[t].errors \in Nat /\ trades[t] \in Nat
  BY <1>1, NotesFinite DEF TradesAccounted, Trader
<1>3. CASE Send(t)
  <2> DEFINE c == [trader[t] EXCEPT !.pc = "serving", !.sent = @ + 1, !.wanted = @ + 1]
  <2>1. c \in Trader(t) /\ c.pc = "serving" /\ c.sent = trader[t].sent + 1 /\ c.wanted = trader[t].wanted + 1 /\ c.errors = trader[t].errors
    BY <1>1, <1>3 DEF Send, Trader, Counted
  <2>2. \A u \in Traders : trader'[u] = IF u = t THEN c ELSE trader[u]
    BY <1>1, <1>3 DEF Send
  <2>3. \A u \in Traders : trades'[u] = IF u = t THEN trades[t] ELSE trades[u]
    BY <1>1, <1>3 DEF Send
  <2>4. /\ DOMAIN trader' = Traders /\ DOMAIN trades' = Traders /\ made' = made /\ st' = st /\ reader' = reader
        /\ trader[t].pc \in {"idle", "told"}
    BY <1>1, <1>3 DEF Send
  <2> HIDE DEF c
  <2>7. Fits(t, c, trades[t])
    <3>1. /\ trades[t] <= trader[t].sent /\ trader[t].errors <= trader[t].sent /\ trader[t].wanted <= trader[t].sent
          /\ trades[t] <= trader[t].wanted + trader[t].errors
          /\ trades[t] <= Cardinality(Notes(t)) + trader[t].errors
      BY <1>1, <1>2, <2>4 DEF Counted
    <3> QED BY <3>1, <1>2, <2>1, <2>4 DEF Fits
  <2>8. trades[t] >= trades[t] /\ trades[t] \in 0..MaxTrades[t]
    BY <1>1, <1>2, <2>4 DEF Counted, Trader
  <2> QED BY <1>1, <2>1, <2>2, <2>3, <2>4, <2>7, <2>8, TraderStep
<1>4. CASE SendAgain(t)
  <2> DEFINE c == [trader[t] EXCEPT !.pc = "serving", !.sent = @ + 1]
  <2>1. c \in Trader(t) /\ c.pc = "serving" /\ c.sent = trader[t].sent + 1 /\ c.wanted = trader[t].wanted /\ c.errors = trader[t].errors
    BY <1>1, <1>4 DEF SendAgain, Trader, Counted
  <2>2. \A u \in Traders : trader'[u] = IF u = t THEN c ELSE trader[u]
    BY <1>1, <1>4 DEF SendAgain
  <2>3. \A u \in Traders : trades'[u] = IF u = t THEN trades[t] ELSE trades[u]
    BY <1>1, <1>4 DEF SendAgain
  <2>4. /\ DOMAIN trader' = Traders /\ DOMAIN trades' = Traders /\ made' = made /\ st' = st /\ reader' = reader
        /\ trader[t].pc = "failed"
    BY <1>1, <1>4 DEF SendAgain
  <2> HIDE DEF c
  <2>7. Fits(t, c, trades[t])
    <3>1. /\ trades[t] <= trader[t].sent /\ trader[t].errors <= trader[t].sent /\ trader[t].wanted <= trader[t].sent
          /\ trades[t] + 1 <= trader[t].wanted + trader[t].errors
          /\ trades[t] <= Cardinality(Notes(t)) + trader[t].errors
      BY <1>1, <1>2, <2>4 DEF Counted
    <3> QED BY <3>1, <1>2, <2>1, <2>4 DEF Fits
  <2>8. trades[t] >= trades[t] /\ trades[t] \in 0..MaxTrades[t]
    BY <1>1, <1>2, <2>4 DEF Counted, Trader
  <2> QED BY <1>1, <2>1, <2>2, <2>3, <2>4, <2>7, <2>8, TraderStep
<1>5. CASE Commit(t)
  <2> DEFINE c == [trader[t] EXCEPT !.pc = "noting"]
  <2>1. c \in Trader(t) /\ c.pc = "noting" /\ c.sent = trader[t].sent /\ c.wanted = trader[t].wanted /\ c.errors = trader[t].errors
    BY <1>1, <1>5 DEF Commit, Trader, Counted
  <2>2. \A u \in Traders : trader'[u] = IF u = t THEN c ELSE trader[u]
    BY <1>1, <1>5 DEF Commit
  <2>3. \A u \in Traders : trades'[u] = IF u = t THEN trades[t] + 1 ELSE trades[u]
    BY <1>1, <1>5 DEF Commit
  <2>4. /\ DOMAIN trader' = Traders /\ DOMAIN trades' = Traders /\ made' = made /\ st' = st /\ reader' = reader
        /\ trader[t].pc = "serving"
    BY <1>1, <1>5 DEF Commit
  <2> HIDE DEF c
  <2>5. st[<< t, trades[t] + 1 >>] = "none"
    <3>1. trades[t] + 1 \in 1..MaxTrades[t]
      BY <1>1, <1>2, <2>4 DEF Counted, Trader
    <3>2. << t, trades[t] + 1 >> \in Id
      BY <3>1, Naming
    <3>3. ~(trades[t] + 1 <= trades[t])
      BY <1>2
    <3> QED BY <1>1, <3>2, <3>3 DEF Founded
  <2>7. Fits(t, c, trades[t] + 1)
    <3>1. /\ trades[t] + 1 <= trader[t].sent /\ trader[t].errors + 1 <= trader[t].sent /\ trader[t].wanted <= trader[t].sent
          /\ trades[t] + 1 <= trader[t].wanted + trader[t].errors
          /\ trades[t] <= Cardinality(Notes(t)) + trader[t].errors
      BY <1>1, <1>2, <2>4 DEF Counted
    <3> QED BY <3>1, <1>2, <2>1, <2>4, <2>5 DEF Fits
  <2>8. trades[t] + 1 >= trades[t] /\ trades[t] + 1 \in 0..MaxTrades[t]
    BY <1>1, <1>2, <2>4 DEF Counted, Trader
  <2> QED BY <1>1, <2>1, <2>2, <2>3, <2>4, <2>7, <2>8, TraderStep
<1>6. CASE Refuse(t)
  <2> DEFINE c == [trader[t] EXCEPT !.pc = "failed", !.errors = @ + 1]
  <2>1. c \in Trader(t) /\ c.pc = "failed" /\ c.sent = trader[t].sent /\ c.wanted = trader[t].wanted /\ c.errors = trader[t].errors + 1
    BY <1>1, <1>6 DEF Refuse, Trader, Counted
  <2>2. \A u \in Traders : trader'[u] = IF u = t THEN c ELSE trader[u]
    BY <1>1, <1>6 DEF Refuse
  <2>3. \A u \in Traders : trades'[u] = IF u = t THEN trades[t] ELSE trades[u]
    BY <1>1, <1>6 DEF Refuse
  <2>4. /\ DOMAIN trader' = Traders /\ DOMAIN trades' = Traders /\ made' = made /\ st' = st /\ reader' = reader
        /\ trader[t].pc = "serving"
    BY <1>1, <1>6 DEF Refuse
  <2> HIDE DEF c
  <2>7. Fits(t, c, trades[t])
    <3>1. /\ trades[t] <= trader[t].sent /\ trader[t].errors + 1 <= trader[t].sent /\ trader[t].wanted <= trader[t].sent
          /\ trades[t] + 1 <= trader[t].wanted + trader[t].errors
          /\ trades[t] <= Cardinality(Notes(t)) + trader[t].errors
      BY <1>1, <1>2, <2>4 DEF Counted
    <3> QED BY <3>1, <1>2, <2>1, <2>4 DEF Fits
  <2>8. trades[t] >= trades[t] /\ trades[t] \in 0..MaxTrades[t]
    BY <1>1, <1>2, <2>4 DEF Counted, Trader
  <2> QED BY <1>1, <2>1, <2>2, <2>3, <2>4, <2>7, <2>8, TraderStep
<1>7. CASE RecordFails(t)
  <2> DEFINE c == [trader[t] EXCEPT !.pc = "failed", !.errors = @ + 1]
  <2>1. c \in Trader(t) /\ c.pc = "failed" /\ c.sent = trader[t].sent /\ c.wanted = trader[t].wanted /\ c.errors = trader[t].errors + 1
    BY <1>1, <1>7 DEF RecordFails, Trader, Counted
  <2>2. \A u \in Traders : trader'[u] = IF u = t THEN c ELSE trader[u]
    BY <1>1, <1>7 DEF RecordFails
  <2>3. \A u \in Traders : trades'[u] = IF u = t THEN trades[t] ELSE trades[u]
    BY <1>1, <1>7 DEF RecordFails
  <2>4. /\ DOMAIN trader' = Traders /\ DOMAIN trades' = Traders /\ made' = made /\ st' = st /\ reader' = reader
        /\ trader[t].pc = "noting"
    BY <1>1, <1>7 DEF RecordFails
  <2> HIDE DEF c
  <2>7. Fits(t, c, trades[t])
    <3>1. /\ trades[t] <= trader[t].sent /\ trader[t].errors + 1 <= trader[t].sent /\ trader[t].wanted <= trader[t].sent
          /\ trades[t] <= trader[t].wanted + trader[t].errors
          /\ trades[t] <= Cardinality(Notes(t)) + trader[t].errors + 1
      BY <1>1, <1>2, <2>4 DEF Counted
    <3> QED BY <3>1, <1>2, <2>1, <2>4 DEF Fits
  <2>8. trades[t] >= trades[t] /\ trades[t] \in 0..MaxTrades[t]
    BY <1>1, <1>2, <2>4 DEF Counted, Trader
  <2> QED BY <1>1, <2>1, <2>2, <2>3, <2>4, <2>7, <2>8, TraderStep
<1> QED BY <1>3, <1>4, <1>5, <1>6, <1>7

\* The one that does: the new notification is the only one of its trade.
LEMMA NewNotice ==
  ASSUME NoticesInv, NEW t \in Traders, RecordNotification(t)
  PROVE  NoticesInv'
<1> DEFINE id == << t, trades[t] >>
           n == [id |-> id, org |-> OrgOf[ShopOf[t]]]
           c == [trader[t] EXCEPT !.pc = "told"]
<1>1. /\ TypeOK /\ TradesAccounted /\ Founded
      /\ (\A u \in Traders : Counted(u)) /\ (\A r \in Readers : Checked(r))
      /\ trader[t] \in Trader(t) /\ trades[t] \in 0..MaxTrades[t] /\ MaxTrades[t] \in Nat \ {0}
      /\ DOMAIN trader = Traders /\ DOMAIN trades = Traders
  BY NoticesSetting DEF NoticesInv, TypeOK
<1>2. /\ trader[t].pc = "noting" /\ trades' = trades /\ reader' = reader
      /\ made' = Append(made, n) /\ st' = [st EXCEPT ![id] = "unread"]
      /\ DOMAIN trader' = Traders /\ \A u \in Traders : trader'[u] = IF u = t THEN c ELSE trader[u]
  BY <1>1 DEF RecordNotification, Notification
<1>3. c \in Trader(t) /\ c.pc = "told" /\ c.sent = trader[t].sent /\ c.wanted = trader[t].wanted
        /\ c.errors = trader[t].errors
  BY <1>1, <1>2 DEF Trader
<1> HIDE DEF c
<1>4. /\ trades[t] \in 1..MaxTrades[t] /\ st[id] = "none" /\ id \in Id
      /\ Home(id) = OrgOf[ShopOf[t]] /\ n \in [id : Id, org : Orgs] /\ n.id = id /\ n.org = Home(id)
      /\ id[1] = t /\ id[2] = trades[t]
  <2>1. trades[t] \in 1..MaxTrades[t] /\ st[id] = "none"
    BY <1>1, <1>2 DEF Counted
  <2> QED BY <2>1, Naming
<1> HIDE DEF n, id
<1>5. /\ made' \in Seq([id : Id, org : Orgs]) /\ Len(made) \in Nat /\ Len(made)' = Len(made) + 1
      /\ DOMAIN made = 1..Len(made) /\ DOMAIN made' = 1..(Len(made) + 1)
      /\ \A i \in DOMAIN made : made'[i] = made[i]
      /\ made'[Len(made) + 1] = n
  <2>1. made \in Seq([id : Id, org : Orgs])
    BY <1>1 DEF TypeOK
  <2>2. /\ made' \in Seq([id : Id, org : Orgs]) /\ Len(made') = Len(made) + 1
        /\ \A i \in 1..Len(made) : made'[i] = made[i]
        /\ made'[Len(made) + 1] = n
    BY <2>1, <1>2, <1>4, AppendProperties
  <2> QED BY <2>1, <2>2
<1>6. /\ \A i \in DOMAIN made : made[i].id # id /\ made[i].id \in Id
      /\ st' \in [Id -> {"none", "unread", "read", "gone"}] /\ st'[id] = "unread"
      /\ \A k \in Id : k # id => st'[k] = st[k]
  <2>1. st \in [Id -> {"none", "unread", "read", "gone"}]
    BY <1>1 DEF TypeOK
  <2>2. \A i \in DOMAIN made : made[i].id # id /\ made[i].id \in Id
    BY <1>1, <1>4, Entries DEF Founded
  <2> QED BY <2>1, <2>2, <1>2, <1>4
<1>7. TypeOK'
  <2>1. \A i, j \in DOMAIN made' : made'[i].id = made'[j].id => i = j
    <3> SUFFICES ASSUME NEW i \in DOMAIN made', NEW j \in DOMAIN made', made'[i].id = made'[j].id
                 PROVE  i = j
      OBVIOUS
    <3>1. /\ i \in DOMAIN made \/ i = Len(made) + 1
          /\ j \in DOMAIN made \/ j = Len(made) + 1
      BY <1>5
    <3>2. CASE i \in DOMAIN made /\ j \in DOMAIN made
      BY <3>2, <1>1, <1>5 DEF TypeOK
    <3> QED BY <3>1, <3>2, <1>4, <1>5, <1>6
  <2>2. \A u \in Traders : trader'[u] \in Trader(u) /\ trades'[u] \in 0..MaxTrades[u]
    BY <1>1, <1>2, <1>3 DEF TypeOK
  <2>3. reader' \in [Readers -> Reader]
        /\ \A r \in Readers : reader'[r].got \subseteq DOMAIN made' /\ reader'[r].upTo \in 0..Len(made')
    <3> SUFFICES ASSUME NEW r \in Readers
                 PROVE  reader[r].got \subseteq DOMAIN made' /\ reader[r].upTo \in 0..(Len(made) + 1)
      BY <1>1, <1>2, <1>5 DEF TypeOK
    <3>1. reader[r].got \subseteq DOMAIN made /\ reader[r].upTo \in 0..Len(made)
      BY <1>1 DEF TypeOK
    <3> QED BY <3>1, <1>5
  <2> QED BY <1>1, <1>2, <1>5, <1>6, <2>1, <2>2, <2>3 DEF TypeOK
<1>8. /\ Notes(t)' = Notes(t) \cup {Len(made) + 1}
      /\ \A u \in Traders : u # t => Notes(u)' = Notes(u)
  <2>1. \A u \in Traders : \A i \in DOMAIN made' :
          made'[i].id[1] = u <=> (i \in DOMAIN made /\ made[i].id[1] = u) \/ (i = Len(made) + 1 /\ u = t)
    BY <1>4, <1>5
  <2> QED BY <2>1, <1>5 DEF Notes
<1>9. Cardinality(Notes(t)') = Cardinality(Notes(t)) + 1 /\ Cardinality(Notes(t)) \in Nat
  <2>1. IsFiniteSet(Notes(t)) /\ Cardinality(Notes(t)) \in Nat /\ Notes(t) \subseteq 1..Len(made)
    BY <1>1, NotesFinite
  <2>2. Len(made) + 1 \notin Notes(t)
    BY <2>1, <1>5
  <2> QED BY <2>1, <2>2, <1>8, FS_AddElement
<1>10. TradesAccounted'
  <2> SUFFICES ASSUME NEW u \in Traders
               PROVE  /\ trades[u] <= Cardinality(Notes(u)') + trader'[u].errors
                                        + (IF trader'[u].pc = "noting" THEN 1 ELSE 0)
                      /\ trades[u] <= trader'[u].wanted + trader'[u].errors
                      /\ trader'[u].pc = "told" => \E i \in Notes(u)' : made'[i].id = << u, trades[u] >>
                      /\ \A i \in Notes(u)' : made'[i].org = OrgOf[ShopOf[u]] /\ made'[i].id[2] <= trades[u]
    BY <1>2 DEF TradesAccounted
  <2>0. /\ trades[u] <= Cardinality(Notes(u)) + trader[u].errors + (IF trader[u].pc = "noting" THEN 1 ELSE 0)
        /\ trades[u] <= trader[u].wanted + trader[u].errors
        /\ trader[u].pc = "told" => \E i \in Notes(u) : made[i].id = << u, trades[u] >>
        /\ \A i \in Notes(u) : made[i].org = OrgOf[ShopOf[u]] /\ made[i].id[2] <= trades[u]
    BY <1>1 DEF TradesAccounted
  <2>1. CASE u # t
    <3>1. \A i \in Notes(u) : made'[i] = made[i]
      BY <1>5 DEF Notes
    <3>2. trader'[u] = trader[u] /\ Notes(u)' = Notes(u)
      BY <2>1, <1>2, <1>8
    <3>3. \A i \in Notes(u)' : made'[i].org = OrgOf[ShopOf[u]] /\ made'[i].id[2] <= trades[u]
      BY <2>0, <3>1, <3>2
    <3>4. trader[u].pc = "told" => \E i \in Notes(u)' : made'[i].id = << u, trades[u] >>
      BY <2>0, <3>1, <3>2
    <3>5. trades[u] <= Cardinality(Notes(u)') + trader[u].errors + (IF trader[u].pc = "noting" THEN 1 ELSE 0)
      BY <2>0, <3>2
    <3> QED BY <2>0, <3>2, <3>3, <3>4, <3>5
  <2>2. CASE u = t
    <3>1. trades[t] <= Cardinality(Notes(t)') + c.errors
      <4>1. trader[t].errors \in Nat /\ trades[t] \in Nat
        BY <1>1 DEF Trader
      <4> QED BY <4>1, <2>0, <2>2, <1>2, <1>3, <1>9
    <3>2. \A i \in Notes(t) : made'[i] = made[i]
      BY <1>5 DEF Notes
    <3>3. Len(made) + 1 \in Notes(t)' /\ made'[Len(made) + 1].id = << t, trades[t] >>
          /\ made'[Len(made) + 1].org = OrgOf[ShopOf[t]] /\ made'[Len(made) + 1].id[2] = trades[t]
          /\ trades[t] <= trades[t]
      BY <1>1, <1>4, <1>5, <1>8 DEF id
    <3>4. trader'[u] = c
      BY <2>2, <1>2
    <3>5. \A i \in Notes(t)' : made'[i].org = OrgOf[ShopOf[t]] /\ made'[i].id[2] <= trades[t]
      BY <3>2, <3>3, <2>0, <2>2, <1>8
    <3>6. trades[t] <= c.wanted + c.errors
      BY <2>0, <2>2, <1>3
    <3>7. trades[t] <= Cardinality(Notes(t)') + c.errors + (IF c.pc = "noting" THEN 1 ELSE 0)
      <4>1. c.errors \in Nat /\ Cardinality(Notes(t)') \in Nat
        BY <1>3, <1>9 DEF Trader
      <4> QED BY <3>1, <4>1, <1>3
    <3> QED BY <3>3, <3>4, <3>5, <3>6, <3>7, <2>2
  <2> QED BY <2>1, <2>2
<1>11. Founded'
  <2>1. \A i \in DOMAIN made' : made'[i].org = Home(made'[i].id) /\ st'[made'[i].id] # "none"
    <3> SUFFICES ASSUME NEW i \in DOMAIN made'
                 PROVE  made'[i].org = Home(made'[i].id) /\ st'[made'[i].id] # "none"
      OBVIOUS
    <3>1. CASE i = Len(made) + 1
      BY <3>1, <1>4, <1>5, <1>6
    <3>2. CASE i \in DOMAIN made
      BY <3>2, <1>1, <1>5, <1>6 DEF Founded
    <3> QED BY <3>1, <3>2, <1>5
  <2>2. ASSUME NEW k \in Id, st'[k] # "none"
        PROVE  k[2] <= trades'[k[1]] /\ \E i \in DOMAIN made' : made'[i].id = k
    <3>1. CASE k = id
      <4>1. trades[t] <= trades[t] /\ Len(made) + 1 \in DOMAIN made'
        BY <1>1, <1>5
      <4> QED BY <3>1, <4>1, <1>2, <1>4, <1>5
    <3>2. CASE k # id
      <4>1. k[2] <= trades[k[1]] /\ \E i \in DOMAIN made : made[i].id = k
        BY <3>2, <2>2, <1>1, <1>6 DEF Founded
      <4> QED BY <4>1, <1>2, <1>5
    <3> QED BY <3>1, <3>2
  <2> QED BY <2>1, <2>2 DEF Founded, Home
<1>12. ASSUME NEW u \in Traders PROVE Counted(u)'
  <2>1. CASE u # t
    <3>1. trader[u].pc = "noting" => st'[<< u, trades[u] >>] = st[<< u, trades[u] >>]
      <4> SUFFICES ASSUME trader[u].pc = "noting" PROVE st'[<< u, trades[u] >>] = st[<< u, trades[u] >>]
        OBVIOUS
      <4>1. trades[u] \in 1..MaxTrades[u]
        <5>1. trades[u] \in 0..MaxTrades[u] /\ MaxTrades[u] \in Nat
          BY <1>1, NoticesSetting DEF TypeOK
        <5>2. trades[u] > 0
          BY <1>1 DEF Counted
        <5> QED BY <5>1, <5>2
      <4> QED BY <4>1, <2>1, <1>4, <1>6, Naming
    <3> QED BY <2>1, <3>1, <1>1, <1>2 DEF Counted
  <2>2. CASE u = t
    <3>1. /\ trader[t].sent \in Nat /\ trader[t].wanted \in Nat /\ trader[t].errors \in Nat
          /\ trades[t] \in Nat
      BY <1>1 DEF Trader
    <3> QED BY SMTT(20), <2>2, <3>1, <1>1, <1>2, <1>3 DEF Counted
  <2> QED BY <2>1, <2>2
<1>13. \A r \in Readers : Checked(r)'
  <2> SUFFICES ASSUME NEW r \in Readers PROVE Checked(r)'
    OBVIOUS
  <2>1. reader[r] \in Reader /\ Checked(r)
    BY <1>1 DEF TypeOK
  <2>2. reader[r].id # << >> => reader[r].id \in Id
    BY <2>1 DEF Reader
  <2> QED BY <2>1, <2>2, <1>2, <1>6 DEF Checked, Home
<1> QED BY <1>7, <1>10, <1>11, <1>12, <1>13 DEF NoticesInv

---------------------------------------------------------------------------
\* One handler about notifications goes on; rows are changed, never made.

\* A step of one handler about notifications, which may only take unread ones to read
\* and any to gone.
LEMMA ReaderStep ==
  ASSUME NoticesInv, NEW r \in Readers, NEW q \in Reader,
         trader' = trader, trades' = trades, made' = made,
         reader' = [reader EXCEPT ![r] = q],
         st' \in [Id -> {"none", "unread", "read", "gone"}],
         \A id \in Id : st'[id] = "none" <=> st[id] = "none",
         q.got \subseteq DOMAIN made, q.upTo \in 0..Len(made),
         q.pc \in {"serve", "write"} => q.org \in Homes[r],
         q.id # << >> => q.org = Home(q.id) /\ st[q.id] # "none",
         q.op \in {"get", "mark", "delete"} \/ q.pc \in {"row", "write"} => q.id # << >>
  PROVE  NoticesInv'
<1>1. /\ TypeOK /\ TradesAccounted /\ Founded
      /\ (\A t \in Traders : Counted(t)) /\ (\A s \in Readers : Checked(s))
  BY DEF NoticesInv
<1>2. reader \in [Readers -> Reader]
  BY <1>1 DEF TypeOK
<1>3. reader' \in [Readers -> Reader] /\ reader'[r] = q /\ \A s \in Readers : s # r => reader'[s] = reader[s]
  BY <1>2
<1>4. TypeOK'
  BY <1>1, <1>3 DEF TypeOK
<1>5. TradesAccounted'
  BY ZenonT(30), <1>1 DEF TradesAccounted, Notes
<1>6. Founded'
  <2>1. \A i \in DOMAIN made : made[i].id \in Id
    BY <1>1, Entries
  <2> QED BY <1>1, <2>1 DEF Founded
<1>7. ASSUME NEW t \in Traders PROVE Counted(t)'
  <2>1. trader[t].pc = "noting" => << t, trades[t] >> \in Id
    <3> SUFFICES ASSUME trader[t].pc = "noting" PROVE trades[t] \in 1..MaxTrades[t]
      BY Naming
    <3>1. trades[t] \in 0..MaxTrades[t] /\ MaxTrades[t] \in Nat
      BY <1>1, NoticesSetting DEF TypeOK
    <3>2. trades[t] > 0
      BY <1>1 DEF Counted
    <3> QED BY <3>1, <3>2
  <2> QED BY <1>1, <2>1 DEF Counted
<1>8. ASSUME NEW s \in Readers PROVE Checked(s)'
  <2>1. CASE s = r
    <3>1. q.id # << >> => q.id \in Id
      BY DEF Reader
    <3> QED BY <2>1, <3>1, <1>3 DEF Checked
  <2>2. CASE s # r
    <3>1. reader[s].id # << >> => reader[s].id \in Id
      BY <1>2 DEF Reader
    <3>2. Checked(s) /\ reader'[s] = reader[s]
      BY <1>1, <1>3, <2>2
    <3> QED BY <3>1, <3>2 DEF Checked
  <2> QED BY <2>1, <2>2
<1> QED BY <1>4, <1>5, <1>6, <1>7, <1>8 DEF NoticesInv

LEMMA Parted ==
  ASSUME NoticesInv, NEW r \in Readers
  PROVE  /\ reader[r] \in Reader /\ reader \in [Readers -> Reader] /\ Checked(r)
         /\ st \in [Id -> {"none", "unread", "read", "gone"}]
         /\ reader[r].got \subseteq DOMAIN made /\ reader[r].upTo \in 0..Len(made)
         /\ Len(made) \in Nat /\ DOMAIN made = 1..Len(made)
BY DEF NoticesInv, TypeOK

\* A handler that gives up is in order.
LEMMA Refusal ==
  /\ NewReader \in Reader /\ NewReader.id = << >> /\ NewReader.op = "list"
  /\ NewReader.got = {} /\ NewReader.upTo = 0
  /\ [NewReader EXCEPT !.pc = "refused"] \in Reader
  /\ [NewReader EXCEPT !.pc = "refused"].pc = "refused"
  /\ [NewReader EXCEPT !.pc = "refused"].id = << >> /\ [NewReader EXCEPT !.pc = "refused"].op = "list"
  /\ [NewReader EXCEPT !.pc = "refused"].got = {} /\ [NewReader EXCEPT !.pc = "refused"].upTo = 0
BY NoticesSetting DEF NewReader, Reader, Op

\* A request that begins names a notification that was made, or none.
LEMMA AskStep ==
  ASSUME NoticesInv, NEW r \in Readers, Ask(r)
  PROVE  NoticesInv'
<1>1. PICK op \in Op, org \in Orgs, id \in {<< >>} \cup {id \in Id : st[id] # "none"} :
        /\ op \in {"get", "mark", "delete"} <=> id # << >>
        /\ id # << >> => org = Home(id)
        /\ reader' = [reader EXCEPT ![r].pc = IF id = << >> THEN "member" ELSE "row",
                                    ![r].op = op, ![r].org = org, ![r].id = id]
  BY DEF Ask
<1> DEFINE q == [reader[r] EXCEPT !.pc = IF id = << >> THEN "member" ELSE "row",
                                  !.op = op, !.org = org, !.id = id]
<1>2. /\ trader' = trader /\ trades' = trades /\ made' = made /\ st' = st
      /\ reader' = [reader EXCEPT ![r] = q]
  BY ZenonT(30), <1>1, Parted DEF Ask, Rest
<1>3. /\ q \in Reader /\ q.got = reader[r].got /\ q.upTo = reader[r].upTo /\ q.op = op /\ q.org = org
      /\ q.id = id /\ q.pc = (IF id = << >> THEN "member" ELSE "row")
  BY <1>1, Parted DEF Reader
<1> HIDE DEF q
<1>4. q.pc \notin {"serve", "write"} /\ q.got \subseteq DOMAIN made /\ q.upTo \in 0..Len(made)
  BY <1>3, Parted
<1>5. /\ q.id # << >> => q.org = Home(q.id) /\ st[q.id] # "none"
      /\ q.op \in {"get", "mark", "delete"} \/ q.pc \in {"row", "write"} => q.id # << >>
  BY <1>1, <1>3
<1>6. st' \in [Id -> {"none", "unread", "read", "gone"}] /\ \A k \in Id : st'[k] = "none" <=> st[k] = "none"
  BY <1>2, Parted
<1> QED BY <1>2, <1>3, <1>4, <1>5, <1>6, ReaderStep

\* The next step of a handler, or its refusal.
LEMMA GoOnStep ==
  ASSUME NoticesInv, NEW r \in Readers, NEW ok \in BOOLEAN, NEW pc \in {"member", "serve", "write", "done"},
         GoOn(r, ok, pc), trader' = trader, trades' = trades, made' = made,
         st' \in [Id -> {"none", "unread", "read", "gone"}],
         \A id \in Id : st'[id] = "none" <=> st[id] = "none",
         ok /\ pc \in {"serve", "write"} => reader[r].org \in Homes[r],
         ok /\ pc = "write" => reader[r].id # << >>
  PROVE  NoticesInv'
<1>1. CASE ok
  <2> DEFINE q == [reader[r] EXCEPT !.pc = pc]
  <2>1. reader' = [reader EXCEPT ![r] = q]
    BY <1>1, Parted DEF GoOn
  <2>2. /\ q \in Reader /\ q.got = reader[r].got /\ q.upTo = reader[r].upTo /\ q.op = reader[r].op
        /\ q.org = reader[r].org /\ q.id = reader[r].id /\ q.pc = pc
    BY Parted DEF Reader
  <2> HIDE DEF q
  <2>3. /\ q.id # << >> => q.org = Home(q.id) /\ st[q.id] # "none"
        /\ q.op \in {"get", "mark", "delete"} \/ q.pc \in {"row", "write"} => q.id # << >>
    BY <1>1, <2>2, Parted DEF Checked
  <2> QED BY <1>1, <2>1, <2>2, <2>3, Parted, ReaderStep
<1>2. CASE ~ok
  <2> DEFINE q == [NewReader EXCEPT !.pc = "refused"]
  <2>1. reader' = [reader EXCEPT ![r] = q]
    BY <1>2, Parted DEF GoOn
  <2>2. /\ q \in Reader /\ q.got = {} /\ q.upTo = 0 /\ q.op = "list" /\ q.id = << >> /\ q.pc = "refused"
    BY Refusal
  <2> HIDE DEF q
  <2>3. q.upTo \in 0..Len(made) /\ q.got \subseteq DOMAIN made
    BY <2>2, Parted
  <2> QED BY <2>1, <2>2, <2>3, ReaderStep
<1> QED BY <1>1, <1>2

\* A mark or a deletion changes the one notification, and never backwards.
LEMMA WriteFacts ==
  ASSUME NoticesInv, NEW r \in Readers, Write(r)
  PROVE  /\ reader[r].id \in Id /\ Home(reader[r].id) \in Homes[r] /\ st[reader[r].id] # "none"
         /\ trader' = trader /\ trades' = trades /\ made' = made
         /\ st' \in [Id -> {"none", "unread", "read", "gone"}]
         /\ st'[reader[r].id] \in {"read", "gone"}
         /\ st[reader[r].id] = "gone" => st'[reader[r].id] = "gone"
         /\ \A id \in Id : id # reader[r].id => st'[id] = st[id]
<1>1. /\ reader[r].pc = "write" /\ reader[r] \in Reader /\ Checked(r)
      /\ st \in [Id -> {"none", "unread", "read", "gone"}]
  BY Parted DEF Write
<1>2. /\ reader[r].id \in Id /\ Home(reader[r].id) \in Homes[r] /\ st[reader[r].id] # "none"
  BY <1>1 DEF Checked, Reader
<1>3. st' = [st EXCEPT ![reader[r].id] =
              IF st[reader[r].id] # "gone" /\ reader[r].op = "mark" THEN "read" ELSE "gone"]
  BY DEF Write
<1> QED BY <1>1, <1>2, <1>3 DEF Write

\* Marking all changes unread ones to read, and nothing else.
LEMMA MarkAllFacts ==
  ASSUME NoticesInv, NEW r \in Readers, MarkAll(r)
  PROVE  /\ trader' = trader /\ trades' = trades /\ made' = made
         /\ st' \in [Id -> {"none", "unread", "read", "gone"}]
         /\ \A id \in Id : st'[id] # st[id] =>
              st[id] = "unread" /\ st'[id] = "read" /\ Home(id) \in Homes[r]
<1> DEFINE unread == {made[i].id : i \in Kept(reader[r].org, TRUE)}
<1>1. /\ st' = [id \in Id |-> IF id \in unread THEN "read" ELSE st[id]]
      /\ trader' = trader /\ trades' = trades /\ made' = made
      /\ reader[r].pc = "serve"
  BY DEF MarkAll, Serves
<1>2. st \in [Id -> {"none", "unread", "read", "gone"}] /\ reader[r].org \in Homes[r]
  BY <1>1, Parted DEF Checked
<1>3. \A id \in unread : st[id] = "unread" /\ Home(id) = reader[r].org
  BY DEF Kept, NoticesInv, Founded
<1> HIDE DEF unread
<1> QED BY <1>1, <1>2, <1>3

\* What a list shows has been made.
LEMMA ListsAreOfMade ==
  ASSUME NEW org, NEW b \in BOOLEAN
  PROVE  Kept(org, b) \subseteq DOMAIN made /\ Newest(Kept(org, b)) \subseteq DOMAIN made
BY DEF Kept, Newest

\* The reads, which only answer.
LEMMA AnswerStep ==
  ASSUME NoticesInv, NEW r \in Readers, reader[r].pc = "serve",
         NEW got \in SUBSET DOMAIN made, Answer(r, got)
  PROVE  NoticesInv'
<1> DEFINE q == [reader[r] EXCEPT !.pc = "done", !.upTo = Len(made), !.got = got]
<1>1. /\ trader' = trader /\ trades' = trades /\ made' = made /\ st' = st
      /\ reader' = [reader EXCEPT ![r] = q]
  BY Parted DEF Answer, Rest
<1>2. /\ q \in Reader /\ q.got = got /\ q.upTo = Len(made) /\ q.op = reader[r].op
      /\ q.org = reader[r].org /\ q.id = reader[r].id /\ q.pc = "done"
  <2>1. reader[r] \in Reader /\ got \in SUBSET Nat /\ Len(made) \in Nat
    BY Parted
  <2> QED BY <2>1 DEF Reader
<1> HIDE DEF q
<1>3. q.pc \notin {"serve", "write", "row"} /\ q.got \subseteq DOMAIN made /\ q.upTo \in 0..Len(made)
  BY <1>2, Parted
<1>4. /\ q.id # << >> => q.org = Home(q.id) /\ st[q.id] # "none"
      /\ q.op \in {"get", "mark", "delete"} => q.id # << >>
  BY <1>2, Parted DEF Checked
<1>5. st' \in [Id -> {"none", "unread", "read", "gone"}] /\ \A k \in Id : st'[k] = "none" <=> st[k] = "none"
  BY <1>1, Parted
<1> QED BY <1>1, <1>2, <1>3, <1>4, <1>5, ReaderStep

LEMMA MarkAllStep ==
  ASSUME NoticesInv, NEW r \in Readers, MarkAll(r)
  PROVE  NoticesInv'
<1> DEFINE q == [reader[r] EXCEPT !.pc = "done", !.upTo = Len(made)]
<1>1. reader' = [reader EXCEPT ![r] = q] /\ reader[r].pc = "serve"
  BY Parted DEF MarkAll, Serves
<1>2. /\ q \in Reader /\ q.got = reader[r].got /\ q.upTo = Len(made) /\ q.op = reader[r].op
      /\ q.org = reader[r].org /\ q.id = reader[r].id /\ q.pc = "done"
  BY Parted DEF Reader
<1> HIDE DEF q
<1>3. q.pc \notin {"serve", "write", "row"} /\ q.got \subseteq DOMAIN made /\ q.upTo \in 0..Len(made)
  BY <1>2, Parted
<1>4. /\ q.id # << >> => q.org = Home(q.id) /\ st[q.id] # "none"
      /\ q.op \in {"get", "mark", "delete"} => q.id # << >>
  BY <1>2, Parted DEF Checked
<1>5. /\ trader' = trader /\ trades' = trades /\ made' = made
      /\ st' \in [Id -> {"none", "unread", "read", "gone"}]
      /\ \A k \in Id : st'[k] = "none" <=> st[k] = "none"
  BY MarkAllFacts
<1> QED BY <1>1, <1>2, <1>3, <1>4, <1>5, ReaderStep

LEMMA RequestSteps ==
  ASSUME NoticesInv, NEW r \in Readers, Request(r)
  PROVE  NoticesInv'
<1>1. /\ st \in [Id -> {"none", "unread", "read", "gone"}] /\ reader[r] \in Reader /\ Checked(r)
  BY Parted
<1>2. CASE Ask(r)
  BY <1>2, AskStep
<1>3. CASE FindRow(r)
  <2>1. (st[reader[r].id] # "gone") \in BOOLEAN
    OBVIOUS
  <2> QED BY <1>1, <1>3, <2>1, GoOnStep DEF FindRow, Rest
<1>4. CASE AssertOrg(r)
  <2>1. (reader[r].org \in Homes[r]) \in BOOLEAN
    OBVIOUS
  <2> QED BY <1>1, <1>4, <2>1, GoOnStep DEF AssertOrg, Rest
<1>5. CASE FindAgain(r)
  <2>1. (st[reader[r].id] # "gone") \in BOOLEAN
    OBVIOUS
  <2>2. reader[r].org \in Homes[r] /\ reader[r].id # << >>
    BY <1>1, <1>5 DEF FindAgain, Checked
  <2> QED BY <1>1, <1>5, <2>1, <2>2, GoOnStep DEF FindAgain, Rest
<1>6. CASE Write(r)
  <2>1. (st[reader[r].id] # "gone") \in BOOLEAN
    OBVIOUS
  <2>2. GoOn(r, st[reader[r].id] # "gone", "done")
    BY <1>6 DEF Write
  <2>3. /\ trader' = trader /\ trades' = trades /\ made' = made
        /\ st' \in [Id -> {"none", "unread", "read", "gone"}]
        /\ \A k \in Id : st'[k] = "none" <=> st[k] = "none"
    BY <1>6, WriteFacts
  <2> QED BY <2>1, <2>2, <2>3, GoOnStep
<1>7. CASE List(r)
  <2>1. PICK op \in {"list", "listUnread"} :
          Serves(r, op) /\ Answer(r, Newest(Kept(reader[r].org, op = "listUnread")))
    BY <1>7 DEF List
  <2> QED BY <2>1, ListsAreOfMade, AnswerStep DEF Serves
<1>8. CASE Count(r)
  BY <1>8, ListsAreOfMade, AnswerStep DEF Count, Serves
<1>9. CASE Get(r)
  BY <1>9, AnswerStep DEF Get, Serves
<1>10. CASE MarkAll(r)
  BY <1>10, MarkAllStep
<1> QED BY <1>2, <1>3, <1>4, <1>5, <1>6, <1>7, <1>8, <1>9, <1>10 DEF Request

---------------------------------------------------------------------------
\* The invariant of Notices.tla is inductive.
THEOREM NoticesInductive == Spec => []NoticesInv
<1>1. NoticesInv /\ [Next]_vars => NoticesInv'
  <2> SUFFICES ASSUME NoticesInv, [Next]_vars PROVE NoticesInv'
    OBVIOUS
  <2>1. ASSUME NEW t \in Traders, Trade(t) PROVE NoticesInv'
    BY <2>1, TradeSteps, NewNotice DEF Trade
  <2>2. ASSUME NEW r \in Readers, Request(r) PROVE NoticesInv'
    BY <2>2, RequestSteps
  <2>3. CASE UNCHANGED vars
    <3>1. trader' = trader /\ trades' = trades /\ made' = made /\ st' = st /\ reader' = reader
      BY <2>3 DEF vars
    <3>2. TypeOK' /\ Founded'
      BY <3>1 DEF NoticesInv, TypeOK, Founded
    <3>3. TradesAccounted'
      BY <3>1 DEF NoticesInv, TradesAccounted, Notes
    <3>4. (\A t \in Traders : Counted(t)') /\ (\A r \in Readers : Checked(r)')
      BY <3>1 DEF NoticesInv, Counted, Checked
    <3> QED BY <3>2, <3>3, <3>4 DEF NoticesInv
  <2> QED BY <2>1, <2>2, <2>3 DEF Next
<1> QED BY <1>1, InitNotices, PTL DEF Spec

\* Every state is of its type.
THEOREM NoticeTypes == Spec => []TypeOK
<1>1. NoticesInv => TypeOK
  BY DEF NoticesInv
<1> QED BY <1>1, NoticesInductive, PTL

\* Every committed trade has its notification, is being notified, or was told as an error.
THEOREM TradesAreAccounted == Spec => []TradesAccounted
<1>1. NoticesInv => TradesAccounted
  BY DEF NoticesInv
<1> QED BY <1>1, NoticesInductive, PTL

---------------------------------------------------------------------------
\* What may happen to a notification.

Stays(id) ==
  /\ \E r \in Readers : reader'[r] # reader[r] /\ Home(id) \in Homes[r]
  /\ st[id] # "gone" /\ st'[id] # "none" /\ (st[id] = "read" => st'[id] = "gone")

\* One step changes notifications only for a member of their organization, and never
\* backwards.
LEMMA NoteStep ==
  ASSUME NoticesInv, [Next]_vars, NEW id \in Id, st[id] # "none", st'[id] # st[id]
  PROVE  Stays(id)
<1>1. ASSUME NEW t \in Traders, Trade(t) PROVE FALSE
  <2>1. CASE RecordNotification(t)
    <3>1. st[<< t, trades[t] >>] = "none" /\ st' = [st EXCEPT ![<< t, trades[t] >>] = "unread"]
      BY <2>1 DEF RecordNotification, Notification, NoticesInv, Counted
    <3> QED BY <3>1
  <2> QED BY <2>1, <1>1 DEF Trade, Send, SendAgain, Commit, Refuse, RecordFails
<1>2. ASSUME NEW r \in Readers, Request(r) PROVE Stays(id)
  <2>1. CASE Write(r)
    <3>1. id = reader[r].id /\ Home(id) \in Homes[r] /\ st[id] # "gone" /\ st'[id] \in {"read", "gone"}
      BY <2>1, WriteFacts
    <3>2. reader'[r] # reader[r]
      <4>1. reader'[r].pc \in {"done", "refused"} /\ reader[r].pc = "write"
        BY <2>1, Parted, Refusal DEF Write, GoOn
      <4> QED BY <4>1
    <3> QED BY <3>1, <3>2 DEF Stays
  <2>2. CASE MarkAll(r)
    <3>1. st[id] = "unread" /\ st'[id] = "read" /\ Home(id) \in Homes[r]
      BY <2>2, MarkAllFacts
    <3>2. reader'[r] # reader[r]
      <4>1. reader'[r].pc = "done" /\ reader[r].pc = "serve"
        BY <2>2, Parted DEF MarkAll, Serves
      <4> QED BY <4>1
    <3> QED BY <3>1, <3>2 DEF Stays
  <2> QED BY <2>1, <2>2, <1>2 DEF Request, Ask, FindRow, AssertOrg, FindAgain, List, Count, Get, Answer, Rest
<1> QED BY <1>1, <1>2 DEF Next, vars

\* A notification is changed by members of its organization only, and read and deleted
\* for good.
THEOREM NotesAreKept == Spec => NotesStay
<1>1. NoticesInv /\ [Next]_vars =>
        [\A id \in Id : st[id] # "none" /\ st'[id] # st[id] =>
           /\ \E r \in Readers : reader'[r] # reader[r] /\ Home(id) \in Homes[r]
           /\ st[id] # "gone" /\ st'[id] # "none" /\ (st[id] = "read" => st'[id] = "gone")]_vars
  BY NoteStep DEF Stays
<1> QED BY <1>1, NoticesInductive, PTL DEF Spec, NotesStay

---------------------------------------------------------------------------
\* What a list leaves out.

\* A set of naturals has a least one.
LEMMA LeastOf ==
  ASSUME NEW S, S \subseteq Nat, S # {}
  PROVE  \E k \in S : \A l \in S : k <= l
<1>1. PICK k \in S : \A l \in S : ~ (<< l, k >> \in OpToRel(<, Nat))
  BY NatLessThanWellFounded, WFMin
<1>2. ASSUME NEW l \in S PROVE k <= l
  <2>1. k \in Nat /\ l \in Nat /\ ~ (l < k)
    BY <1>1 DEF OpToRel
  <2> QED BY <2>1
<1> QED BY <1>2

\* One that is bounded has a greatest.
LEMMA GreatestOf ==
  ASSUME NEW n \in Nat, NEW S, S \subseteq 1..n, S # {}
  PROVE  \E k \in S : \A l \in S : l <= k
<1> DEFINE Bounds == {b \in Nat : \A l \in S : l <= b}
<1>1. n \in Bounds
  OBVIOUS
<1>2. PICK b \in Bounds : \A c \in Bounds : b <= c
  <2>1. Bounds \subseteq Nat /\ Bounds # {}
    BY <1>1
  <2> HIDE DEF Bounds
  <2> QED BY <2>1, LeastOf
<1>3. b \in S
  <2> SUFFICES ASSUME b \notin S PROVE FALSE
    OBVIOUS
  <2>1. PICK l \in S : TRUE
    OBVIOUS
  <2>2. b \in Nat /\ l \in 1..n /\ l <= b
    OBVIOUS
  <2>3. b - 1 \in Nat
    BY <2>2
  <2>4. \A k \in S : k <= b - 1
    <3> SUFFICES ASSUME NEW k \in S PROVE k <= b - 1
      OBVIOUS
    <3>1. k <= b /\ k # b /\ k \in 1..n
      OBVIOUS
    <3> QED BY <2>2, <3>1
  <2>5. b - 1 \in Bounds
    BY <2>3, <2>4
  <2>6. b <= b - 1
    BY <1>2, <2>5
  <2> QED BY <2>2, <2>6
<1> QED BY <1>3

Later(I, k) == {j \in I : j > k}

\* What is left out of the newest ones is older than each of them, and they are as many
\* as a list may show.
LEMMA LeftOut ==
  ASSUME NEW n \in Nat, NEW I \in SUBSET (1..n), NEW i \in I, i \notin Newest(I)
  PROVE  Cardinality(Newest(I)) = Limit /\ \A j \in Newest(I) : j > i
<1> DEFINE N == Newest(I)
<1>1. IsFiniteSet(I) /\ N \subseteq I /\ IsFiniteSet(N) /\ Cardinality(N) \in Nat
  <2>1. IsFiniteSet(1..n)
    BY FS_Interval
  <2>2. IsFiniteSet(I) /\ N \in SUBSET I
    BY <2>1, FS_Subset DEF Newest
  <2> QED BY <2>2, FS_Subset, FS_CardinalityType
<1>2. \A k \in I : /\ IsFiniteSet(Later(I, k)) /\ Cardinality(Later(I, k)) \in Nat
                   /\ k \in N <=> Cardinality(Later(I, k)) < Limit
  <2> SUFFICES ASSUME NEW k \in I
               PROVE  /\ IsFiniteSet(Later(I, k)) /\ Cardinality(Later(I, k)) \in Nat
                      /\ k \in N <=> Cardinality(Later(I, k)) < Limit
    OBVIOUS
  <2>1. Later(I, k) \in SUBSET I
    BY DEF Later
  <2> QED BY <1>1, <2>1, FS_Subset, FS_CardinalityType DEF Newest, Later
<1>3. Limit \in Nat \ {0}
  BY NoticesSetting
<1> HIDE DEF N
<1>4. ASSUME NEW j \in N PROVE j > i
  <2> SUFFICES ASSUME ~ (j > i) PROVE FALSE
    OBVIOUS
  <2>1. j \in I /\ j \in Nat /\ i \in Nat
    BY <1>1
  <2>2. Later(I, i) \in SUBSET Later(I, j)
    <3> SUFFICES ASSUME NEW k \in I, k > i PROVE k > j
      BY DEF Later
    <3>1. k \in Nat
      OBVIOUS
    <3> QED BY <2>1, <3>1
  <2>3. Cardinality(Later(I, i)) <= Cardinality(Later(I, j))
    BY <1>2, <2>1, <2>2, FS_Subset
  <2>4. Cardinality(Later(I, j)) < Limit /\ ~ (Cardinality(Later(I, i)) < Limit)
    BY <1>2, <2>1 DEF N
  <2> QED BY <1>2, <1>3, <2>1, <2>3, <2>4
<1>5. Limit <= Cardinality(N)
  <2>1. I \ N # {} /\ I \ N \subseteq 1..n
    BY DEF N
  <2>2. PICK k \in I \ N : \A l \in I \ N : l <= k
    BY <2>1, GreatestOf
  <2>3. Later(I, k) \in SUBSET N
    <3> SUFFICES ASSUME NEW l \in I, l > k, l \notin N PROVE FALSE
      BY DEF Later
    <3>1. l \in Nat /\ k \in Nat /\ l <= k
      BY <2>2
    <3> QED BY <3>1
  <2>4. Cardinality(Later(I, k)) <= Cardinality(N)
    BY <1>1, <2>3, FS_Subset
  <2> QED BY <1>1, <1>2, <1>3, <2>4
<1>6. Cardinality(N) <= Limit
  <2>1. N # {} /\ N \subseteq Nat
    BY <1>1, <1>3, <1>5, FS_EmptySet
  <2>2. PICK m \in N : \A l \in N : m <= l
    BY <2>1, LeastOf
  <2>3. /\ m \in I /\ m \in Nat /\ m \notin Later(I, m)
        /\ IsFiniteSet(Later(I, m)) /\ Cardinality(Later(I, m)) \in Nat
        /\ Cardinality(Later(I, m)) < Limit
    BY <1>1, <1>2, <2>1 DEF Later
  <2>4. /\ IsFiniteSet(Later(I, m) \cup {m})
        /\ Cardinality(Later(I, m) \cup {m}) = Cardinality(Later(I, m)) + 1
    BY <2>3, FS_AddElement
  <2>5. N \in SUBSET (Later(I, m) \cup {m})
    <3> SUFFICES ASSUME NEW l \in N, l # m PROVE l \in I /\ l > m
      BY DEF Later
    <3>1. l \in Nat /\ m <= l
      BY <2>1, <2>2
    <3> QED BY <1>1, <2>3, <3>1
  <2>6. Cardinality(N) <= Cardinality(Later(I, m) \cup {m})
    BY <2>4, <2>5, FS_Subset
  <2> QED BY <1>1, <1>3, <2>3, <2>4, <2>6
<1>7. Cardinality(N) = Limit
  BY <1>1, <1>3, <1>5, <1>6
<1> QED BY <1>4, <1>7 DEF N

---------------------------------------------------------------------------
\* What the answers promise stays true.

\* What a request may rely on, and what its answer has said.
Vouched(r) ==
  LET q == reader[r] IN
  /\ q.pc = "write" => q.op \in {"mark", "delete"}
  /\ q.pc = "done" =>
       /\ q.op = "markAll" =>
            \A i \in 1..q.upTo : made[i].org = q.org => st[made[i].id] # "unread"
       /\ q.op = "listUnread" =>
            \A i \in 1..q.upTo : made[i].org = q.org /\ st[made[i].id] = "unread" =>
              i \in q.got \/ (Cardinality(q.got) = Limit /\ \A j \in q.got : j > i)
VouchedInv == \A r \in Readers : Vouched(r)

\* A step creates notifications after the ones that are there, and makes none of these
\* unread.
LEMMA Growth ==
  ASSUME NoticesInv, [Next]_vars
  PROVE  /\ Len(made) \in Nat
         /\ \A i \in 1..Len(made) : made'[i] = made[i]
         /\ \A i \in 1..Len(made) : st'[made[i].id] = "unread" => st[made[i].id] = "unread"
<1>1. TypeOK /\ Founded /\ Len(made) \in Nat /\ DOMAIN made = 1..Len(made) /\ made \in Seq([id : Id, org : Orgs])
  BY DEF NoticesInv, TypeOK
<1>2. \A i \in 1..Len(made) : made'[i] = made[i]
  <2>1. ASSUME NEW t \in Traders, RecordNotification(t) PROVE \A i \in 1..Len(made) : made'[i] = made[i]
    <3> DEFINE n == [id |-> << t, trades[t] >>, org |-> OrgOf[ShopOf[t]]]
    <3>1. /\ trader[t].pc = "noting" /\ made' = Append(made, n)
          /\ Counted(t) /\ trades[t] \in 0..MaxTrades[t] /\ MaxTrades[t] \in Nat
      BY <2>1, NoticesSetting DEF RecordNotification, Notification, NoticesInv, TypeOK
    <3>2. trades[t] \in 1..MaxTrades[t]
      BY <3>1 DEF Counted
    <3>3. n \in [id : Id, org : Orgs]
      BY <3>2, Naming
    <3> HIDE DEF n
    <3> QED BY <1>1, <3>1, <3>3, AppendProperties
  <2>2. (\A t \in Traders : ~ RecordNotification(t)) => made' = made
    BY DEF Next, vars, Trade, Send, SendAgain, Commit, Refuse, RecordFails, Request, Ask, FindRow, AssertOrg,
           FindAgain, Write, List, Count, Get, MarkAll, Answer, Rest
  <2> QED BY <2>1, <2>2
<1>3. ASSUME NEW i \in 1..Len(made), st'[made[i].id] = "unread" PROVE st[made[i].id] = "unread"
  <2>1. made[i].id \in Id /\ st[made[i].id] # "none" /\ st \in [Id -> {"none", "unread", "read", "gone"}]
    BY <1>1, Entries DEF Founded, TypeOK
  <2>2. CASE st'[made[i].id] = st[made[i].id]
    BY <1>3, <2>2
  <2>3. CASE st'[made[i].id] # st[made[i].id]
    <3>1. Stays(made[i].id)
      BY <2>1, <2>3, NoteStep
    <3> QED BY <1>3, <2>1, <3>1 DEF Stays
  <2> QED BY <2>2, <2>3
<1> QED BY <1>1, <1>2, <1>3

\* So a request that does not move goes on to be right.
LEMMA StillVouched ==
  ASSUME NoticesInv, [Next]_vars, NEW r \in Readers, Vouched(r), reader'[r] = reader[r]
  PROVE  Vouched(r)'
<1>1. \A i \in 1..reader[r].upTo : i \in 1..Len(made)
  BY Parted
<1>2. \A i \in 1..reader[r].upTo :
        made'[i] = made[i] /\ (st'[made[i].id] = "unread" => st[made[i].id] = "unread")
  BY <1>1, Growth
<1> QED BY <1>2 DEF Vouched

\* A list of the unread ones leaves out older ones only.
LEMMA ListVouched ==
  ASSUME NoticesInv, NEW r \in Readers, Vouched(r), List(r)
  PROVE  Vouched(r)'
<1>1. PICK op \in {"list", "listUnread"} :
        Serves(r, op) /\ Answer(r, Newest(Kept(reader[r].org, op = "listUnread")))
  BY DEF List
<1> DEFINE I == Kept(reader[r].org, op = "listUnread")
           q == [reader[r] EXCEPT !.pc = "done", !.upTo = Len(made), !.got = Newest(I)]
<1>2. made' = made /\ st' = st /\ reader' = [reader EXCEPT ![r] = q] /\ reader[r].op = op
  BY <1>1, Parted DEF Answer, Rest, Serves
<1>3. reader'[r] = q /\ q.pc = "done" /\ q.op = op /\ q.org = reader[r].org /\ q.upTo = Len(made)
      /\ q.got = Newest(I)
  BY <1>2, Parted DEF Reader
<1> HIDE DEF q
<1>4. ASSUME op = "listUnread", NEW i \in 1..Len(made), made[i].org = reader[r].org, st[made[i].id] = "unread"
      PROVE  i \in Newest(I) \/ (Cardinality(Newest(I)) = Limit /\ \A j \in Newest(I) : j > i)
  <2>1. Len(made) \in Nat /\ DOMAIN made = 1..Len(made)
    BY Parted
  <2>2. I \in SUBSET (1..Len(made)) /\ i \in I
    BY <1>4, <2>1 DEF Kept
  <2> HIDE DEF I
  <2> QED BY <2>1, <2>2, LeftOut
<1> HIDE DEF I
<1> QED BY <1>2, <1>3, <1>4 DEF Vouched

\* Marking all leaves no notification of the organization unread.
LEMMA MarkAllVouched ==
  ASSUME NoticesInv, NEW r \in Readers, Vouched(r), MarkAll(r)
  PROVE  Vouched(r)'
<1> DEFINE unread == {made[i].id : i \in Kept(reader[r].org, TRUE)}
           q == [reader[r] EXCEPT !.pc = "done", !.upTo = Len(made)]
<1>1. /\ made' = made /\ st' = [id \in Id |-> IF id \in unread THEN "read" ELSE st[id]]
      /\ reader' = [reader EXCEPT ![r] = q] /\ reader[r].op = "markAll"
  BY Parted DEF MarkAll, Serves
<1>2. reader'[r] = q /\ q.pc = "done" /\ q.op = "markAll" /\ q.org = reader[r].org /\ q.upTo = Len(made)
  BY <1>1, Parted DEF Reader
<1> HIDE DEF q
<1>3. ASSUME NEW i \in 1..Len(made), made[i].org = reader[r].org PROVE st'[made[i].id] # "unread"
  <2>1. DOMAIN made = 1..Len(made) /\ made[i].id \in Id
    BY Parted, Entries DEF NoticesInv
  <2>2. st[made[i].id] = "unread" => made[i].id \in unread
    BY <1>3, <2>1 DEF Kept
  <2> HIDE DEF unread
  <2> QED BY <1>1, <2>1, <2>2
<1> HIDE DEF unread
<1> QED BY <1>1, <1>2, <1>3 DEF Vouched

\* The other steps answer no list, and mark nothing.
LEMMA OthersVouched ==
  ASSUME NoticesInv, NEW r \in Readers, Vouched(r),
         Ask(r) \/ FindRow(r) \/ AssertOrg(r) \/ FindAgain(r) \/ Write(r) \/ Count(r) \/ Get(r)
  PROVE  Vouched(r)'
<1>1. reader \in [Readers -> Reader] /\ reader[r] \in Reader
  BY Parted
<1>2. ASSUME NEW ok, NEW pc, GoOn(r, ok, pc), pc \in {"member", "serve", "write", "done"},
             ok /\ pc \in {"write", "done"} => reader[r].op \in {"mark", "delete"}
      PROVE  Vouched(r)'
  <2>1. CASE ok
    <3>1. reader'[r] = [reader[r] EXCEPT !.pc = pc]
      BY <1>1, <1>2, <2>1 DEF GoOn
    <3>2. reader'[r].pc = pc /\ reader'[r].op = reader[r].op
      BY <1>1, <3>1 DEF Reader
    <3> QED BY <1>2, <2>1, <3>2 DEF Vouched
  <2>2. CASE ~ok
    <3>1. reader'[r] = [NewReader EXCEPT !.pc = "refused"]
      BY <1>1, <1>2, <2>2 DEF GoOn
    <3> QED BY <3>1, Refusal DEF Vouched
  <2> QED BY <2>1, <2>2
<1>3. CASE Ask(r)
  <2>1. PICK op \in Op, org \in Orgs, id \in {<< >>} \cup {id \in Id : st[id] # "none"} :
          reader' = [reader EXCEPT ![r].pc = IF id = << >> THEN "member" ELSE "row",
                                   ![r].op = op, ![r].org = org, ![r].id = id]
    BY <1>3 DEF Ask
  <2>2. reader'[r] = [reader[r] EXCEPT !.pc = IF id = << >> THEN "member" ELSE "row",
                                       !.op = op, !.org = org, !.id = id]
    BY <1>1, <2>1
  <2>3. reader'[r].pc \in {"member", "row"}
    BY <1>1, <2>2 DEF Reader
  <2> QED BY <2>3 DEF Vouched
<1>4. CASE FindRow(r)
  BY <1>2, <1>4 DEF FindRow
<1>5. CASE AssertOrg(r)
  BY <1>2, <1>5 DEF AssertOrg
<1>6. CASE FindAgain(r)
  BY <1>2, <1>6 DEF FindAgain
<1>7. CASE Write(r)
  BY <1>2, <1>7 DEF Write, Vouched
<1>8. CASE Count(r)
  <2>1. reader'[r].op = "count" /\ reader'[r].pc = "done"
    BY <1>1, <1>8 DEF Count, Serves, Answer, Reader
  <2> QED BY <2>1 DEF Vouched
<1>9. CASE Get(r)
  <2>1. reader'[r].op = "get" /\ reader'[r].pc = "done"
    BY <1>1, <1>9 DEF Get, Serves, Answer, Reader
  <2> QED BY <2>1 DEF Vouched
<1> QED BY <1>3, <1>4, <1>5, <1>6, <1>7, <1>8, <1>9

LEMMA VouchedStep ==
  ASSUME NoticesInv, VouchedInv, [Next]_vars
  PROVE  VouchedInv'
<1> SUFFICES ASSUME NEW r \in Readers PROVE Vouched(r)'
  BY DEF VouchedInv
<1>1. Vouched(r)
  BY DEF VouchedInv
<1>2. CASE reader'[r] = reader[r]
  BY <1>1, <1>2, StillVouched
<1>3. CASE reader'[r] # reader[r]
  <2>1. Request(r)
    <3>1. \A t \in Traders : Trade(t) => reader' = reader
      BY DEF Trade, Send, SendAgain, Commit, Refuse, RecordNotification, RecordFails
    <3>2. ASSUME NEW s \in Readers, s # r, Request(s) PROVE reader'[r] = reader[r]
      BY <3>2, Parted DEF Request, Ask, FindRow, AssertOrg, FindAgain, Write, List, Count, Get, MarkAll, Answer, GoOn
    <3> QED BY <1>3, <3>1, <3>2 DEF Next, vars
  <2> QED BY <1>1, <2>1, ListVouched, MarkAllVouched, OthersVouched DEF Request
<1> QED BY <1>2, <1>3

\* After all notifications were marked as read, only later ones are unread; what a list
\* of unread ones leaves out is older than all it shows, which are then as many as a
\* list may have (notification.service.ts: markAllAsRead, getOrganizationNotifications).
THEOREM ListsAreComplete == Spec => []MarkedAll
<1>1. Init => VouchedInv
  <2> SUFFICES ASSUME Init PROVE VouchedInv
    OBVIOUS
  <2>1. \A r \in Readers : reader[r].pc = "idle"
    BY DEF Init, NewReader
  <2> QED BY <2>1 DEF VouchedInv, Vouched
<1>2. VouchedInv => MarkedAll
  BY DEF VouchedInv, Vouched, MarkedAll
<1> QED BY <1>1, <1>2, VouchedStep, NoticesInductive, PTL DEF Spec
================================================================================
