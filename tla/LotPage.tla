------------------------------ MODULE LotPage ------------------------------
(***************************************************************************)
(* The page of one lot in apps/user-portal, and the server-sent events by  *)
(* which the auction engine is to keep it up to date.                      *)
(*                                                                         *)
(* The page is rendered from the lot's row in lot_status and opens an      *)
(* EventSource, which a route handler of the portal passes on unchanged.   *)
(* The bid route and the close job tell every subscriber what the row says *)
(* after they have changed it.  How the engine comes to its row is the     *)
(* module AuctionEngine's; here a bid and the close are one step each.     *)
(***************************************************************************)
EXTENDS Naturals, Sequences

CONSTANTS
  Pages,        \* the pages open in browsers
  Calls,        \* the bids that can be under way at one time
  Amounts,      \* bound: what a bidder may enter
  MaxDrops,     \* bound: how often connections break
  None          \* no page, no row, no type

VARIABLES
  lot,          \* the lot's row in lot_status; the highest bid is 0 before any
  page,         \* what each page holds in its state
  stream,       \* each page's connection
  wire,         \* the events on their way to it
  call,         \* the bids and, under None, the close job
  drops         \* the connections that broke

vars == << lot, page, stream, wire, call, drops >>

-----------------------------------------------------------------------------
Closed(status) == status \in {"SOLD", "UNSOLD"}

\* The page as it is rendered; row is None when the engine did not answer.
Rendered(row) ==
  IF row = None
  THEN [bid |-> 0, count |-> 0, status |-> "SCHEDULED", closed |-> FALSE,
        live |-> FALSE, took |-> FALSE, leads |-> FALSE]
  ELSE [bid |-> row.highest, count |-> row.count, status |-> row.status,
        closed |-> Closed(row.status), live |-> FALSE, took |-> FALSE,
        leads |-> FALSE]

\* LotDetailPage and the first render of LotDetailClient.
Load(p) ==
  /\ page[p] = None
  /\ \E row \in {lot, None} : page' = [page EXCEPT ![p] = Rendered(row)]
  /\ UNCHANGED << lot, stream, wire, call, drops >>

\* connect: the EventSource opens and the engine subscribes it to the lot.
Connect(p) ==
  /\ page[p] # None
  /\ ~stream[p]
  /\ stream' = [stream EXCEPT ![p] = TRUE]
  /\ UNCHANGED << lot, page, wire, call, drops >>

\* onerror: the stream is closed, to be opened again after a delay.  What was
\* on its way is lost; the engine keeps nothing for a subscriber that left.
Disconnect(p) ==
  /\ stream[p] /\ drops < MaxDrops
  /\ stream' = [stream EXCEPT ![p] = FALSE]
  /\ wire' = [wire EXCEPT ![p] = << >>]
  /\ drops' = drops + 1
  /\ UNCHANGED << lot, page, call >>

\* broadcast: writeSSE under the event's name, with the row as its data; the
\* data has no field "type" and says neither whose the bid is.
Event(name, row) ==
  [name |-> name, type |-> None, bid |-> row.highest, count |-> row.count,
   status |-> row.status, bidder |-> None]

Broadcast(events) ==
  wire' = [p \in Pages |-> IF stream[p] THEN wire[p] \o events ELSE wire[p]]

-----------------------------------------------------------------------------
\* The names of the events for which useLotSse has a listener: an EventSource
\* hands to onmessage only those that have no name of their own.
Listened == {"message"}

\* What the effect on lastEvent makes of an event, by its type; each page is
\* another bidder's.
Shown(p, e) ==
  LET pg == page[p] IN
  CASE e.type = "bid_placed"     -> [pg EXCEPT !.bid = e.bid, !.count = e.count,
                                               !.leads = e.bidder = p,
                                               !.took = @ \/ e.bidder = p]
    [] e.type = "closing_soon"   -> [pg EXCEPT !.live = TRUE]
    [] e.type = "auction_closed" -> [pg EXCEPT !.closed = TRUE, !.status = e.status]
    [] OTHER                     -> pg

\* The browser dispatches the next event of the stream.
Dispatch(p) ==
  /\ wire[p] # << >>
  /\ wire' = [wire EXCEPT ![p] = Tail(@)]
  /\ page' = IF Head(wire[p]).name \in Listened
             THEN [page EXCEPT ![p] = Shown(p, Head(wire[p]))] ELSE page
  /\ UNCHANGED << lot, stream, call, drops >>

\* What is rendered from that state: the live room tells who took part how
\* they stand, the standard page how many bids there are.  The sticky bar of
\* small screens is below either.
Standing(pg) == IF ~pg.took THEN None ELSE IF pg.leads THEN "leading" ELSE "outbid"

LivePanel(pg) ==
  [currentBid |-> pg.bid, standing |-> Standing(pg), count |-> None,
   banner |-> pg.closed, mayBid |-> ~pg.closed, mayEnter |-> FALSE]

StandardPanel(pg) ==
  [currentBid |-> pg.bid, standing |-> None, count |-> pg.count,
   banner |-> pg.closed, mayBid |-> ~pg.closed, mayEnter |-> TRUE]

StickyBar(pg) == [currentBid |-> pg.bid, mayBid |-> ~pg.closed]

Panel(pg) == IF pg.live THEN LivePanel(pg) ELSE StandardPanel(pg)

\* Enter Live Room.
EnterLiveRoom(p) ==
  /\ page[p] # None /\ Panel(page[p]).mayEnter
  /\ page' = [page EXCEPT ![p].live = TRUE]
  /\ UNCHANGED << lot, stream, wire, call, drops >>

-----------------------------------------------------------------------------
Idle == [pc |-> "idle", page |-> None, amount |-> 0, row |-> None]

Goes(c, r) == call' = [call EXCEPT ![c] = r]

\* placeBid: the page posts a bid that exceeds the one it shows, unless it
\* knows the auction to be closed.  Who may bid is the module Accounts'.
PlaceBid(c, p) ==
  /\ call[c].pc = "idle" /\ page[p] # None
  /\ \E panel \in {Panel(page[p]), StickyBar(page[p])}, amount \in Amounts :
       /\ panel.mayBid
       /\ amount > panel.currentBid
       /\ Goes(c, [Idle EXCEPT !.pc = "bid", !.page = p, !.amount = amount])
  /\ UNCHANGED << lot, page, stream, wire, drops >>

Accepts(amount) == lot.status \in {"LIVE", "CLOSING"} /\ amount > lot.highest

\* The bid route: the engine takes the bid, and may extend the time, or
\* refuses it, which ends the call.
TakeBid(c) ==
  /\ call[c].pc = "bid"
  /\ \/ /\ Accepts(call[c].amount)
        /\ \E status \in {lot.status, "CLOSING"} :
             lot' = [highest |-> call[c].amount, count |-> lot.count + 1,
                     status |-> status]
        /\ Goes(c, [call[c] EXCEPT !.pc = "read"])
     \/ ~Accepts(call[c].amount) /\ lot' = lot /\ Goes(c, Idle)
  /\ UNCHANGED << page, stream, wire, drops >>

\* The start job tells no page; the close job tells them once it has read the
\* row again.
Start ==
  /\ lot.status = "SCHEDULED"
  /\ lot' = [lot EXCEPT !.status = "LIVE"]
  /\ UNCHANGED << page, stream, wire, call, drops >>

Close ==
  /\ lot.status \in {"LIVE", "CLOSING"} /\ call[None].pc = "idle"
  /\ \E status \in {"UNSOLD"} \cup (IF lot.highest = 0 THEN {} ELSE {"SOLD"}) :
       lot' = [lot EXCEPT !.status = status]
  /\ Goes(None, [Idle EXCEPT !.pc = "read"])
  /\ UNCHANGED << page, stream, wire, drops >>

\* findLotStatus; other calls may change the row before it is broadcast.
ReadRow(c) ==
  /\ call[c].pc = "read"
  /\ Goes(c, [call[c] EXCEPT !.pc = "tell", !.row = lot])
  /\ UNCHANGED << lot, page, stream, wire, drops >>

Tell(c) ==
  /\ call[c].pc = "tell"
  /\ IF c = None THEN Broadcast(<< Event("auction_closed", call[c].row) >>)
     ELSE \/ Broadcast(<< Event("bid_placed", call[c].row) >>)
          \/ Broadcast(<< Event("bid_placed", call[c].row),
                          Event("timer_extended", call[c].row) >>)
  /\ Goes(c, Idle)
  /\ UNCHANGED << lot, page, stream, drops >>

-----------------------------------------------------------------------------
\* A lot scheduled by the admin, its row just written.
Init ==
  /\ lot = [highest |-> 0, count |-> 0, status |-> "SCHEDULED"]
  /\ page = [p \in Pages |-> None]
  /\ stream = [p \in Pages |-> FALSE]
  /\ wire = [p \in Pages |-> << >>]
  /\ call = [c \in Calls \cup {None} |-> Idle]
  /\ drops = 0

PageStep(p) == Load(p) \/ Connect(p) \/ Disconnect(p) \/ Dispatch(p) \/ EnterLiveRoom(p)

CallStep(c) == ReadRow(c) \/ Tell(c)

Next ==
  \/ \E p \in Pages : PageStep(p)
  \/ \E c \in Calls : TakeBid(c) \/ \E p \in Pages : PlaceBid(c, p)
  \/ \E c \in Calls \cup {None} : CallStep(c)
  \/ Start \/ Close

\* The engine works its calls and timers off, the stream is opened again and
\* again, and the browser dispatches what arrives; nobody need bid.
Fairness ==
  /\ \A p \in Pages : WF_vars(Connect(p)) /\ WF_vars(Dispatch(p))
  /\ \A c \in Calls : WF_vars(TakeBid(c))
  /\ \A c \in Calls \cup {None} : WF_vars(CallStep(c))
  /\ WF_vars(Start) /\ WF_vars(Close)

FairSpec == Init /\ [][Next]_vars /\ Fairness
=============================================================================
