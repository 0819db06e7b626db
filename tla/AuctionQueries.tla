--------------------------- MODULE AuctionQueries ---------------------------
(***************************************************************************)
(* What the engine's GET routes answer about the lot: the queries of       *)
(* PostgresLotQueryRepository over lot_status and bids.  The two tables    *)
(* are written by statements of their own, and neither names the highest   *)
(* bidder of an open auction: the account page works it out of the bids,   *)
(* the results page reads the winner that the verdict wrote.  Answers come *)
(* as sets: paging and the order of lists are left out.                    *)
(***************************************************************************)
EXTENDS AuctionProperties, FiniteSetsExt

\* The rows of bids; each is a copy of the stored event.
BidTable == {log[i] : i \in {j \in BidAt : log[j].bid \in bidRows}}

BidsBy(u) == {r \in BidTable : r.user = u}

\* ACTIVE_STATUSES: what findActiveLots and the account's figures count.
ActiveStatuses == {"SCHEDULED", "LIVE", "CLOSING"}

\* Fault: the latest bid taken to lead.
Leading_Latest(r) == \A q \in BidTable : q.placedAt <= r.placedAt

\* leading_bids: ORDER BY amount DESC, placed_at DESC.
Leading(r) ==
  \A q \in BidTable :
    q.amount < r.amount \/ (q.amount = r.amount /\ q.placedAt <= r.placedAt)

LeadingUsers == {r.user : r \in {q \in BidTable : Leading(q)}}

\* findBidsByUser: the lot's line on the account page of a user who has bid.
AccountBid(u) ==
  [amount |-> Max({r.amount : r \in BidsBy(u)}), isWinning |-> u \in LeadingUsers,
   currentHighestBid |-> row.highest, status |-> row.status, endAt |-> row.endAt]

\* GET /api/account/bids: the JOIN drops a lot whose row is not there.
AccountBids(u) ==
  IF BidsBy(u) = {} \/ row.status = "ABSENT" THEN {} ELSE {AccountBid(u)}

Count(condition) == IF condition THEN 1 ELSE 0

\* getUserStats, over the one lot.
UserStats(u) ==
  [totalBids   |-> Cardinality(BidsBy(u)),
   activeBids  |-> Count(BidsBy(u) # {} /\ row.status \in ActiveStatuses),
   leadingBids |-> Count(u \in LeadingUsers /\ row.status \in ActiveStatuses),
   lotsWon     |-> Count(row.winner = u /\ row.status = "SOLD")]

\* findBidderIds: whom the notice of the end goes to.
BidderIds == {r.user : r \in BidTable}

\* GET /api/auctions/:lotId/bids: only an admin's answer names the bidders.
BidHistory(isAdminCaller) ==
  {[id |-> r.bid, userId |-> IF isAdminCaller THEN r.user ELSE None,
    amount |-> r.amount, placedAt |-> r.placedAt] : r \in BidTable}

\* findLotStatus, as serializeLotStatus sends it: without the winner.
LotStatus ==
  IF row.status = "ABSENT" THEN {}
  ELSE {[status |-> row.status, currentHighestBid |-> row.highest,
         bidCount |-> row.count, endAt |-> row.endAt]}

ActiveLots == {l \in LotStatus : l.status \in ActiveStatuses}

\* One day of the model's clock, in minutes.
Day == 24 * 60

DashboardStats ==
  [activeAuctions |-> Cardinality(ActiveLots),
   endingSoon |-> Cardinality({l \in LotStatus : /\ l.status \in {"LIVE", "CLOSING"}
                                                 /\ l.endAt <= now + Day})]

\* findClosedResults, over a period with the verdict in it.
ClosedResults ==
  {[finalBid |-> row.highest, reserveMet |-> row.status = "SOLD",
    winnerUserId |-> row.winner] : l \in {k \in LotStatus : k.status \in TerminalStatuses}}

UnsoldLots ==
  {[highestBid |-> l.currentHighestBid] : l \in {k \in LotStatus : k.status = "UNSOLD"}}
=============================================================================
