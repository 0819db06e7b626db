-------------------------- MODULE AuctionAggregate --------------------------
(***************************************************************************)
(* The auction aggregate of apps/auction-engine: the state a lot's events  *)
(* replay to, and the decisions it takes on a bid and on a close command.  *)
(* A pure module: it has no variables, only the aggregate, the events and  *)
(* what one makes of the other.                                            *)
(*                                                                         *)
(* Dates are minutes (naturals) and money is an integer.  `startAt' is set *)
(* by the code and never read back, so the aggregate here leaves it out;   *)
(* `sequence' is the length of the replayed prefix and is kept by the      *)
(* handler that loaded it.  AuctionCancelled is left out: main.ts builds   *)
(* the cancel handler and discards it, so no such event is ever stored.    *)
(***************************************************************************)
EXTENDS Integers, Sequences

CONSTANTS
  Users,     \* bidders that may call POST /bids
  Bids,      \* bid ids, one per bid request
  Amounts,   \* amounts a request may offer; the router refuses amount <= 0
  Terms,     \* schedules an admin may submit to POST /api/auctions
  None       \* the null of the code

ASSUME NoneAssumption    == None \notin Users /\ None \notin Bids
ASSUME AmountsAssumption == Amounts \subseteq Nat \ {0}
ASSUME TermsAssumption   ==
  Terms \subseteq [startAt : Nat, endAt : Nat, reserve : Nat,
                   increment : Nat, window : Nat, duration : Nat]

Status == {"DRAFT", "SCHEDULED", "LIVE", "CLOSING", "SOLD", "UNSOLD"}

\* The two statuses in which placeBid goes on.
Open == {"LIVE", "CLOSING"}

\* CLOSED and CANCELLED are terminal in the code too; no stored event
\* produces either.
TerminalStatuses == {"SOLD", "UNSOLD"}

Aggregate ==
  [status : Status, endAt : Nat, reserve : Nat, increment : Nat,
   window : Nat, duration : Nat, highestBid : Bids \cup {None},
   highestAmount : Nat, highestUser : Users \cup {None}, bidCount : Nat]

\* AuctionAggregate.create: no event applied yet.
Fresh ==
  [status |-> "DRAFT", endAt |-> 0, reserve |-> 0, increment |-> 0,
   window |-> 0, duration |-> 0, highestBid |-> None,
   highestAmount |-> 0, highestUser |-> None, bidCount |-> 0]

-----------------------------------------------------------------------------
(***************************************************************************)
(* Events.                                                                 *)
(***************************************************************************)
ScheduledEvents == [type : {"AuctionScheduled"}, terms : Terms]
StartedEvents   == [type : {"AuctionStarted"}]
BidEvents       == [type : {"BidPlaced"}, bid : Bids, user : Users,
                    amount : Amounts, placedAt : Nat]
ExtendedEvents  == [type : {"TimerExtended"}, endAt : Nat]
ClosedEvents    == [type : {"AuctionClosed"}, bid : Bids \cup {None},
                    amount : Nat, reserveMet : BOOLEAN,
                    winner : Users \cup {None}]

Event == ScheduledEvents \cup StartedEvents \cup BidEvents
           \cup ExtendedEvents \cup ClosedEvents

\* applyEvent: what one event does to the aggregate.  A schedule overwrites
\* the terms and the status and keeps the highest bid it finds.
ApplyEvent(agg, e) ==
  CASE e.type = "AuctionScheduled" ->
         [agg EXCEPT !.status = "SCHEDULED", !.endAt = e.terms.endAt,
                     !.reserve = e.terms.reserve,
                     !.increment = e.terms.increment,
                     !.window = e.terms.window,
                     !.duration = e.terms.duration]
    [] e.type = "AuctionStarted" ->
         [agg EXCEPT !.status = "LIVE"]
    [] e.type = "BidPlaced" ->
         [agg EXCEPT !.highestBid = e.bid, !.highestAmount = e.amount,
                     !.highestUser = e.user, !.bidCount = @ + 1]
    [] e.type = "TimerExtended" ->
         [agg EXCEPT !.endAt = e.endAt, !.status = "CLOSING"]
    [] e.type = "AuctionClosed" ->
         [agg EXCEPT !.status = IF e.reserveMet THEN "SOLD" ELSE "UNSOLD"]

-----------------------------------------------------------------------------
(***************************************************************************)
(* Commands.                                                               *)
(***************************************************************************)

\* Fault: an offer equal to the highest taken (no increment, < for <=).
Refusal_TieAllowed(agg, user, amount) ==
  IF agg.status \notin Open THEN "AUCTION_NOT_ACTIVE"
  ELSE IF user = agg.highestUser THEN "CANNOT_OUTBID_SELF"
  ELSE IF amount < agg.highestAmount THEN "BID_TOO_LOW"
  ELSE "none"

\* placeBid's early returns, in the order of the code; "none" when it goes on.
Refusal(agg, user, amount) ==
  IF agg.status \notin Open THEN "AUCTION_NOT_ACTIVE"
  ELSE IF user = agg.highestUser THEN "CANNOT_OUTBID_SELF"
  ELSE IF amount < agg.highestAmount + agg.increment THEN "BID_TOO_LOW"
  ELSE "none"

\* A bid is late when less than the window is left; endAt - placedAt is
\* negative for a bid placed after the end that the close job has not met.
IsLate(agg, placedAt) == agg.endAt - placedAt < agg.window

BidPlaced(bid, user, amount, placedAt) ==
  [type |-> "BidPlaced", bid |-> bid, user |-> user, amount |-> amount,
   placedAt |-> placedAt]

\* Fault: the duration forgotten.
TimerExtended_NoDuration(agg, placedAt) ==
  [type |-> "TimerExtended", endAt |-> placedAt]

TimerExtended(agg, placedAt) ==
  [type |-> "TimerExtended", endAt |-> placedAt + agg.duration]

\* The uncommitted events of a placeBid that was not refused.
PlaceBid(agg, bid, user, amount, placedAt) ==
  IF IsLate(agg, placedAt)
  THEN << BidPlaced(bid, user, amount, placedAt),
          TimerExtended(agg, placedAt) >>
  ELSE << BidPlaced(bid, user, amount, placedAt) >>

\* Fault: any bid taken to meet the reserve.
ReserveMet_AnyBid(agg) == agg.highestBid # None

ReserveMet(agg) ==
  agg.highestBid # None /\ agg.highestAmount >= agg.reserve

\* The event of a close() that did not find the auction already closed.
Close(agg) ==
  [type |-> "AuctionClosed", bid |-> agg.highestBid,
   amount |-> agg.highestAmount, reserveMet |-> ReserveMet(agg),
   winner |-> IF ReserveMet(agg) THEN agg.highestUser ELSE None]

Schedule(terms) == [type |-> "AuctionScheduled", terms |-> terms]
Start           == [type |-> "AuctionStarted"]
=============================================================================
