-------------------------------- MODULE Notices ---------------------------------
(***************************************************************************)
(* The notifications of organizations.  A sale, a refund, an expense or a  *)
(* purchase is committed first and notified afterwards, by statements of   *)
(* its own.  Members of the organization list, count, read, mark and delete*)
(* notifications meanwhile; a handler finds a row by one statement and     *)
(* writes it by another.  A client that is told of an error may send its   *)
(* request again.                                                          *)
(*                                                                         *)
(* A trade is named by its request and its number.  Wording and amounts are*)
(* left out, and so are notifications of users: no code writes them.       *)
(***************************************************************************)
EXTENDS Integers, Sequences, FiniteSets

CONSTANTS
  Orgs, Shops, OrgOf,
  Traders, ShopOf, \* requests that trade, and the shop of each of them
  Readers, Homes,  \* requests about notifications, and the organizations whose access
                   \* check their users pass: their own, or any for a SUPER_ADMIN
  Limit,           \* of a list
  MaxTrades        \* bound of the times each client sends a request

Id == UNION {{t} \X (1..MaxTrades[t]) : t \in Traders}
Home(id) == OrgOf[ShopOf[id[1]]]
Op == {"list", "listUnread", "count", "get", "mark", "markAll", "delete"}

ASSUME NoticesSetting ==
  /\ Orgs # {} /\ OrgOf \in [Shops -> Orgs] /\ ShopOf \in [Traders -> Shops]
  /\ Traders \cap Readers = {} /\ Homes \in [Readers -> SUBSET Orgs]
  /\ Limit \in Nat \ {0} /\ MaxTrades \in [Traders -> Nat \ {0}]

VARIABLES
  trader,  \* handlers and clients of trades
  trades,  \* how many of each have been committed
  made,    \* the notifications in the order of their creation
  st,      \* unread, read or gone
  reader   \* handlers about notifications

vars == << trader, trades, made, st, reader >>

NewTrader == [pc |-> "idle", sent |-> 0, wanted |-> 0, errors |-> 0]
NewReader == [pc |-> "idle", op |-> "list", org |-> CHOOSE o \in Orgs : TRUE, id |-> << >>,
              got |-> {}, upTo |-> 0]

Init ==
  /\ trader = [t \in Traders |-> NewTrader]
  /\ trades = [t \in Traders |-> 0]
  /\ made = << >>
  /\ st = [id \in Id |-> "none"]
  /\ reader = [r \in Readers |-> NewReader]

---------------------------------------------------------------------------
\* Trades.

\* The client sends a request; after an error it may send it again.
Send(t) ==
  /\ trader[t].pc \in {"idle", "told"} /\ trader[t].sent < MaxTrades[t]
  /\ trader' = [trader EXCEPT ![t].pc = "serving", ![t].sent = @ + 1, ![t].wanted = @ + 1]
  /\ UNCHANGED << trades, made, st, reader >>
SendAgain(t) ==
  /\ trader[t].pc = "failed" /\ trader[t].sent < MaxTrades[t]
  /\ trader' = [trader EXCEPT ![t].pc = "serving", ![t].sent = @ + 1]
  /\ UNCHANGED << trades, made, st, reader >>

\* The service commits, or refuses and has committed nothing.
Commit(t) ==
  /\ trader[t].pc = "serving"
  /\ trades' = [trades EXCEPT ![t] = @ + 1]
  /\ trader' = [trader EXCEPT ![t].pc = "noting"]
  /\ UNCHANGED << made, st, reader >>
Refuse(t) ==
  /\ trader[t].pc = "serving"
  /\ trader' = [trader EXCEPT ![t].pc = "failed", ![t].errors = @ + 1]
  /\ UNCHANGED << trades, made, st, reader >>

\* fromSale, fromPurchase, fromExpense: the notification is of the trade and its shop.
Notification(t) == [id |-> << t, trades[t] >>, shop |-> ShopOf[t]]

\* mutant: by the service and by the controller
RecordTwice(t) ==
  /\ trader[t].pc = "noting"
  /\ LET n == [id |-> Notification(t).id, org |-> OrgOf[Notification(t).shop]] IN
     made' = made \o << n, n >> /\ st' = [st EXCEPT ![n.id] = "unread"]
  /\ trader' = [trader EXCEPT ![t].pc = "told"]
  /\ UNCHANGED << trades, reader >>

\* mutant: the client is told of success when there is no notification
RecordSkipped(t) ==
  /\ trader[t].pc = "noting"
  /\ trader' = [trader EXCEPT ![t].pc = "told"]
  /\ UNCHANGED << trades, made, st, reader >>

\* recordFromShopActivity: the organization is that of the shop.
RecordNotification(t) ==
  /\ trader[t].pc = "noting"
  /\ LET n == Notification(t) IN
     /\ made' = Append(made, [id |-> n.id, org |-> OrgOf[n.shop]])
     /\ st' = [st EXCEPT ![n.id] = "unread"]
  /\ trader' = [trader EXCEPT ![t].pc = "told"]
  /\ UNCHANGED << trades, reader >>

\* mutant: the error is caught by nobody, there is no answer
RecordThrows(t) ==
  /\ trader[t].pc = "noting"
  /\ trader' = [trader EXCEPT ![t].pc = "idle", ![t].errors = @ + 1]
  /\ UNCHANGED << trades, made, st, reader >>

\* It fails: the trade stays, the client is told 400.
RecordFails(t) ==
  /\ trader[t].pc = "noting"
  /\ trader' = [trader EXCEPT ![t].pc = "failed", ![t].errors = @ + 1]
  /\ UNCHANGED << trades, made, st, reader >>

---------------------------------------------------------------------------
\* Requests about notifications.

Rest == << trader, trades, made, st >>

\* With an organization, or with a notification whose row tells the organization.
Ask(r) ==
  /\ reader[r].pc = "idle"
  /\ \E op \in Op, org \in Orgs, id \in {<< >>} \cup {id \in Id : st[id] # "none"} :
       /\ op \in {"get", "mark", "delete"} <=> id # << >>
       /\ id # << >> => org = Home(id)
       /\ reader' = [reader EXCEPT ![r].pc = IF id = << >> THEN "member" ELSE "row",
                                   ![r].op = op, ![r].org = org, ![r].id = id]
  /\ UNCHANGED Rest

\* The next step of a handler, or the answer that the row or the organization is not there.
GoOn(r, ok, pc) ==
  reader' = [reader EXCEPT ![r] = IF ok THEN [@ EXCEPT !.pc = pc] ELSE [NewReader EXCEPT !.pc = "refused"]]

FindRow(r) ==
  /\ reader[r].pc = "row"
  /\ GoOn(r, st[reader[r].id] # "gone", "member")
  /\ UNCHANGED Rest

\* assertOrg
AssertOrg(r) ==
  /\ reader[r].pc = "member"
  /\ GoOn(r, reader[r].org \in Homes[r], "serve")
  /\ UNCHANGED Rest

\* Where the notifications of an organization are in the order of creation.
Kept(org, unreadOnly) ==
  {i \in DOMAIN made : /\ made[i].org = org
                       /\ st[made[i].id] \in {"unread"} \cup (IF unreadOnly THEN {} ELSE {"read"})}
Newest(I) == {i \in I : Cardinality({j \in I : j > i}) < Limit}

Serves(r, op) == reader[r].pc = "serve" /\ reader[r].op = op
Answer(r, got) ==
  /\ reader' = [reader EXCEPT ![r].pc = "done", ![r].upTo = Len(made), ![r].got = got]
  /\ UNCHANGED Rest

\* getOrganizationNotifications
List(r) == \E op \in {"list", "listUnread"} :
  Serves(r, op) /\ Answer(r, Newest(Kept(reader[r].org, op = "listUnread")))
\* getUnreadCount
Count(r) == Serves(r, "count") /\ Answer(r, Kept(reader[r].org, TRUE))
\* The row that was found is the answer, whatever became of it since.
Get(r) == Serves(r, "get") /\ Answer(r, {i \in DOMAIN made : made[i].id = reader[r].id})

\* markAsRead and deleteNotification look the row up again.
FindAgain(r) ==
  /\ reader[r].pc = "serve"
  /\ reader[r].op \in {"mark", "delete"}
  /\ GoOn(r, st[reader[r].id] # "gone", "write")
  /\ UNCHANGED Rest

\* mutant: the row is written though it is gone
WriteAnyway(r) ==
  /\ reader[r].pc = "write"
  /\ st' = [st EXCEPT ![reader[r].id] = IF reader[r].op = "mark" THEN "read" ELSE "gone"]
  /\ reader' = [reader EXCEPT ![r].pc = "done"]
  /\ UNCHANGED << trader, trades, made >>

\* An update or a delete of a row that is gone is an error.
Write(r) ==
  /\ reader[r].pc = "write"
  /\ GoOn(r, st[reader[r].id] # "gone", "done")
  /\ st' = [st EXCEPT ![reader[r].id] =
              IF @ # "gone" /\ reader[r].op = "mark" THEN "read" ELSE "gone"]
  /\ UNCHANGED << trader, trades, made >>

\* mutant: all that the list shows
MarkListed(r) ==
  /\ Serves(r, "markAll")
  /\ LET shown == {made[i].id : i \in Newest(Kept(reader[r].org, TRUE))} IN
     st' = [id \in Id |-> IF id \in shown THEN "read" ELSE st[id]]
  /\ reader' = [reader EXCEPT ![r].pc = "done", ![r].upTo = Len(made)]
  /\ UNCHANGED << trader, trades, made >>

\* markAllAsRead: one statement
MarkAll(r) ==
  /\ Serves(r, "markAll")
  /\ LET unread == {made[i].id : i \in Kept(reader[r].org, TRUE)} IN
     st' = [id \in Id |-> IF id \in unread THEN "read" ELSE st[id]]
  /\ reader' = [reader EXCEPT ![r].pc = "done", ![r].upTo = Len(made)]
  /\ UNCHANGED << trader, trades, made >>

Trade(t) == Send(t) \/ SendAgain(t) \/ Commit(t) \/ Refuse(t) \/ RecordNotification(t) \/ RecordFails(t)
Request(r) == \/ Ask(r) \/ FindRow(r) \/ AssertOrg(r) \/ FindAgain(r) \/ Write(r)
              \/ List(r) \/ Count(r) \/ Get(r) \/ MarkAll(r)
Next == (\E t \in Traders : Trade(t)) \/ (\E r \in Readers : Request(r))

Handler(t) == Commit(t) \/ Refuse(t) \/ RecordNotification(t) \/ RecordFails(t)
Spec == Init /\ [][Next]_vars

\* The event loop goes on with the handlers of trades; a client need not send anything again.
FairSpec ==
  /\ Spec
  /\ \A t \in Traders : WF_vars(Handler(t))

---------------------------------------------------------------------------
Trader(t) == [pc : {"idle", "serving", "noting", "told", "failed"},
              sent : 0..MaxTrades[t], wanted : 0..MaxTrades[t], errors : 0..MaxTrades[t]]
Reader == [pc : {"idle", "row", "member", "serve", "write", "done", "refused"}, op : Op, org : Orgs,
           id : Id \cup {<< >>}, got : SUBSET Nat, upTo : Nat]

TypeOK ==
  /\ DOMAIN trader = Traders /\ DOMAIN trades = Traders
  /\ \A t \in Traders : trader[t] \in Trader(t) /\ trades[t] \in 0..MaxTrades[t]
  /\ made \in Seq([id : Id, org : Orgs])
  /\ \A i, j \in DOMAIN made : made[i].id = made[j].id => i = j
  /\ st \in [Id -> {"none", "unread", "read", "gone"}]
  /\ reader \in [Readers -> Reader]
  /\ \A r \in Readers : reader[r].got \subseteq DOMAIN made /\ reader[r].upTo \in 0..Len(made)

Notes(t) == {i \in DOMAIN made : made[i].id[1] = t}

\* Every trade is accounted for (sale.controller.ts: create, and its like): it has its
\* one notification, in the organization of its shop, or is being notified, or its
\* client was told of an error for it; so a client trades more often than it wanted
\* only after an error, and one told of success is notified of that very trade.
TradesAccounted ==
  \A t \in Traders :
    /\ trades[t] <= Cardinality(Notes(t)) + trader[t].errors + (IF trader[t].pc = "noting" THEN 1 ELSE 0)
    /\ trades[t] <= trader[t].wanted + trader[t].errors
    /\ trader[t].pc = "told" => \E i \in Notes(t) : made[i].id = << t, trades[t] >>
    /\ \A i \in Notes(t) : made[i].org = OrgOf[ShopOf[t]] /\ made[i].id[2] <= trades[t]

\* What the statement of one step leaves for the next: how far a client has come, ...
Counted(t) ==
  LET c == trader[t] IN
  /\ trades[t] + (IF c.pc = "serving" THEN 1 ELSE 0) <= c.sent
  /\ trades[t] + (IF c.pc \in {"serving", "failed"} THEN 1 ELSE 0) <= c.wanted + c.errors
  /\ c.errors + (IF c.pc \in {"serving", "noting"} THEN 1 ELSE 0) <= c.sent /\ c.wanted <= c.sent
  /\ c.pc = "noting" => trades[t] > 0 /\ st[<< t, trades[t] >>] = "none"
\* ... where a notification comes from, ...
Founded ==
  /\ \A i \in DOMAIN made : made[i].org = Home(made[i].id) /\ st[made[i].id] # "none"
  /\ \A id \in Id : st[id] # "none" => id[2] <= trades[id[1]] /\ \E i \in DOMAIN made : made[i].id = id
\* ... and what a handler about notifications may take for granted.
Checked(r) ==
  LET q == reader[r] IN
  /\ q.pc \in {"serve", "write"} => q.org \in Homes[r]
  /\ q.id # << >> => q.org = Home(q.id) /\ st[q.id] # "none"
  /\ q.op \in {"get", "mark", "delete"} \/ q.pc \in {"row", "write"} => q.id # << >>
NoticesInv ==
  /\ TypeOK /\ TradesAccounted /\ Founded
  /\ (\A t \in Traders : Counted(t)) /\ (\A r \in Readers : Checked(r))

\* After all notifications were marked as read, only later ones are unread, and what a
\* list of unread ones leaves out is older than all it shows.
MarkedAll ==
  \A r \in Readers : reader[r].pc = "done" =>
    /\ reader[r].op = "markAll" =>
         \A i \in 1..reader[r].upTo : made[i].org = reader[r].org => st[made[i].id] # "unread"
    /\ reader[r].op = "listUnread" =>
         \A i \in 1..reader[r].upTo : made[i].org = reader[r].org /\ st[made[i].id] = "unread" =>
           i \in reader[r].got \/ (Cardinality(reader[r].got) = Limit /\ \A j \in reader[r].got : j > i)

\* A notification is changed by a request of a member of its organization only; once
\* read it is not unread again, once deleted it stays deleted, however marks, the
\* marking of all and deletions overlap (notification.service.ts).
NotesStay ==
  [][\A id \in Id : st[id] # "none" /\ st'[id] # st[id] =>
       /\ \E r \in Readers : reader'[r] # reader[r] /\ Home(id) \in Homes[r]
       /\ st[id] # "gone" /\ st'[id] # "none" /\ (st[id] = "read" => st'[id] = "gone")]_vars

\* Every trade sent is answered, and in the end each one committed is notified or was
\* told as an error.
TradeAnswered == \A t \in Traders : trader[t].pc = "serving" ~> trader[t].pc \in {"told", "failed"}
=============================================================================
