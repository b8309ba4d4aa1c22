------------------------------- MODULE MCNotices --------------------------------
\* Two organizations with a shop each.  One client trades twice, or once and then
\* again because the answer was lost; the other one trades once.  One reader is a
\* member of one organization, the other reader of both.
EXTENDS Notices

MCOrgOf == [a |-> "o", b |-> "p"]
MCShopOf == [t1 |-> "a", t2 |-> "b"]
MCMaxTrades == [t1 |-> 2, t2 |-> 1]
MCHomes == [r1 |-> {"o"}, r2 |-> {"o", "p"}]
===============================================================================
