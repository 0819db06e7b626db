---------------------------- MODULE AuctionPages ----------------------------
(***************************************************************************)
(* What people read of a lot: the bidder's "My Bids" and dashboard in the  *)
(* user-portal, and, through the admin BFF, the admin's list of auctions,  *)
(* live figures, bid history, dashboard and reports.  Each page asks the   *)
(* engine on its own, every 5 s or once; the pages are compared as they    *)
(* would show one and the same moment.                                     *)
(***************************************************************************)
EXTENDS AuctionQueries

(***************************************************************************)
(* The bidder's pages.                                                     *)
(***************************************************************************)

DeriveBidBadgeStatus(bid) ==
  IF bid.status \in TerminalStatuses THEN "closed"
  ELSE IF bid.isWinning THEN "leading" ELSE "outbid"

\* My Bids: one line for the lot, if the user has bid on it.
BidsPage(u) ==
  {[yourBid |-> bid.amount, currentBid |-> bid.currentHighestBid,
    status |-> DeriveBidBadgeStatus(bid), closes |-> bid.endAt] : bid \in AccountBids(u)}

\* The dashboard's cards, and its first lines of the same bids.
DashboardPage(u) ==
  [leading |-> UserStats(u).leadingBids, active |-> UserStats(u).activeBids,
   won |-> UserStats(u).lotsWon,
   recent |-> {[yourBid |-> bid.amount, status |-> DeriveBidBadgeStatus(bid)]
                 : bid \in AccountBids(u)}]

-----------------------------------------------------------------------------
(***************************************************************************)
(* The admin's pages.  `up' says whether the service that knows titles,    *)
(* categories or addresses answers: what it does not say is shown as "-",  *)
(* and the page stays.                                                     *)
(***************************************************************************)
Lookup(up, value) == IF up THEN value ELSE None

\* The list of auctions, and the first lines of one auction's page.
ToSummary(l) ==
  [status |-> l.status, currentBid |-> l.currentHighestBid, bidCount |-> l.bidCount,
   endAt |-> l.endAt]

AuctionsTable == {ToSummary(l) : l \in ActiveLots}

\* The live figures; an end that has passed shows 0 minutes.
AuctionLiveStats ==
  {[status |-> s.status, currentBid |-> s.currentBid, bids |-> s.bidCount,
    minutesLeft |-> IF s.endAt > now THEN s.endAt - now ELSE 0]
     : s \in {ToSummary(l) : l \in LotStatus}}

AuctionDetailPage == [live |-> AuctionLiveStats, bids |-> BidHistory(TRUE)]

\* What a line adds to the total value.
Value(result) == IF result.reserveMet THEN result.finalBid ELSE 0

\* The auction results, with their summary.
AuctionResults(up) ==
  LET sold == {r \in ClosedResults : r.reserveMet}
  IN  [rows |-> {[finalBid |-> r.finalBid, reserveMet |-> r.reserveMet,
                  winnerEmail |-> IF r.winnerUserId = None THEN None
                                  ELSE Lookup(up, r.winnerUserId)] : r \in ClosedResults},
       totalLots |-> Cardinality(ClosedResults),
       soldPercent |-> IF ClosedResults = {} THEN 0
                       ELSE (100 * Cardinality(sold)) \div Cardinality(ClosedResults),
       totalValue |-> MapThenSumSet(Value, ClosedResults)]

\* The tab that shows them: the summary above the lines, and an error in their
\* place when the BFF gives none.
AuctionResultsTab(answers, up) ==
  IF ~answers THEN {}
  ELSE {[lots |-> AuctionResults(up).totalLots, sold |-> AuctionResults(up).soldPercent,
         value |-> AuctionResults(up).totalValue, lines |-> AuctionResults(up).rows]}

UnsoldReport == {[highestBid |-> r.highestBid] : r \in UnsoldLots}

\* The unsold lots, each with its button to list it again.
UnsoldLotsTab(answers) == IF answers THEN UnsoldReport ELSE {}

\* A count that could not be fetched is shown as "-".
AdminDashboard(up) ==
  [activeAuctions |-> IF up THEN {DashboardStats.activeAuctions} ELSE {},
   endingSoon |-> IF up THEN {DashboardStats.endingSoon} ELSE {}]

-----------------------------------------------------------------------------
\* Has every stored bid gone through both of its projections?
CaughtUp ==
  /\ row.count = Cardinality(BidAt)
  /\ \A i \in BidAt : log[i].bid \in bidRows

\* Every bidder reads how he stands: of those who have bid, the one whom the
\* stored events put first reads "leading" until the verdict, and nobody after.
BiddersAgree ==
  /\ \A u \in BidderIds :
       /\ AccountBid(u).isWinning <=> u = Current.highestUser
       /\ \A l \in BidsPage(u) :
            /\ l.yourBid = l.currentBid <=> u = Current.highestUser
            /\ (DashboardPage(u).leading = 1) <=> (l.status = "leading")
            /\ (DashboardPage(u).active = 1) <=> (l.status # "closed")
  /\ row.count = Cardinality(UNION {{u} \X (1..UserStats(u).totalBids) : u \in Users})

\* The admin's pages and the bidders' report one sale: what the report adds to
\* the value is the verdict's amount and what the winner's page calls his bid,
\* the address on the line is that of the one bidder who has won, and a lot
\* offered for another auction is nobody's.
ReportsAgree ==
  /\ \A a \in AuctionDetailPage.live : a.bids = Cardinality(AuctionDetailPage.bids)
  /\ \A tab \in AuctionResultsTab(TRUE, TRUE) :
       /\ AuctionsTable = {} <=> tab.lots = 1
       /\ tab.sold = 100 <=> tab.value > 0
  /\ AdminDashboard(TRUE).activeAuctions = {Cardinality(AuctionsTable)}
  /\ \A r \in AuctionResults(TRUE).rows :
       IF r.reserveMet
       THEN /\ LeadingUsers = {r.winnerEmail}
            /\ \A u \in Users : DashboardPage(u).won = 1 <=> u = r.winnerEmail
            /\ \E i \in VerdictAt : /\ log[i].winner = r.winnerEmail
                                    /\ log[i].amount = AuctionResults(TRUE).totalValue
            /\ AccountBid(r.winnerEmail).amount = AuctionResults(TRUE).totalValue
            /\ UnsoldLotsTab(TRUE) = {}
       ELSE /\ \A u \in Users : DashboardPage(u).won = 0
            /\ AuctionResults(TRUE).totalValue = 0
            /\ UnsoldLotsTab(TRUE) = {[highestBid |-> Current.highestAmount]}

\* Once the projections have caught up, the pages tell one story, although they
\* are made of two tables by eight queries.  (No crash, no handler outlives its
\* lock, no lot ends before it starts, and every lot asks for a raise.)
PagesAgree == CaughtUp /\ bidRows # {} => BiddersAgree /\ ReportsAgree
=============================================================================
