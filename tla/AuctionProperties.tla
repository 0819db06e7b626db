-------------------------- MODULE AuctionProperties --------------------------
(***************************************************************************)
(* What the auction engine owes the bidders, the seller and the services   *)
(* that listen to it.                                                      *)
(***************************************************************************)
EXTENDS AuctionEngine

Position    == 1..Len(log)
Stored(t)   == {i \in Position : log[i].type = t}
BidAt       == Stored("BidPlaced")
VerdictAt   == Stored("AuctionClosed")
Met(i)      == replay[i]     \* the aggregate the i-th event was applied to
BidsOf(i)   == {j \in BidAt : j < i}

Request ==
  [pc : RequestSteps, user : Users \cup {None}, amount : Amounts \cup {0},
   placedAt : Nat, base : Nat, todo : Seq(Event), done : Nat, answer : Answers]
AdminState  == [pc : AdminSteps, base : Nat, todo : Seq(Event)]
WorkerState == [pc : WorkerSteps, job : JobNames \cup {"none"}, base : Nat,
                todo : Seq(Event)]

\* The variables have the types the code gives them.
TypeOK ==
  /\ log \in Seq(Event) /\ replay \in Seq(Aggregate)
  /\ lock \in Bids \cup {None}
  /\ request \in [Bids -> Request]
  /\ admin \in AdminState /\ worker \in WorkerState
  /\ jobs \in [JobNames -> Job]
  /\ row \in Row /\ bidRows \subseteq Bids
  /\ announced \in Seq([at : Nat, verdict : ClosedEvents])
  /\ notified \subseteq [bid : Bids, user : Users,
                         previous : Users \cup {None}]
  /\ now \in Nat /\ schedules \in Nat /\ crashes \in Nat

(***************************************************************************)
(* Every stored event is one the aggregate would decide on at the very     *)
(* place it is stored: no handler's decision is stored behind an event it  *)
(* had not loaded.  This is what the optimistic append owes the lot, with  *)
(* the bid lock expired or never taken (start and close do not take it).   *)
(***************************************************************************)
LawfulBid(i) == Refusal(Met(i), log[i].user, log[i].amount) = "none"

LawfulExtension(i) ==
  /\ i - 1 \in BidAt
  /\ IsLate(Met(i - 1), log[i - 1].placedAt)
  /\ log[i] = TimerExtended(Met(i - 1), log[i - 1].placedAt)

LawfulClose(i) ==
  /\ Met(i).status \notin TerminalStatuses
  /\ log[i] = Close(Met(i))

LawfulHistory ==
  \A i \in Position :
    /\ log[i].type = "BidPlaced"     => LawfulBid(i)
    /\ log[i].type = "TimerExtended" => LawfulExtension(i)
    /\ log[i].type = "AuctionClosed" => LawfulClose(i)

\* What bidders see of it: a bid is at least one increment above every bid
\* before it, and nobody's bid follows their own.
BidsRise ==
  \A i, j \in BidAt :
    i < j =>
      /\ log[j].amount >= log[i].amount + Met(j).increment
      /\ log[i].user = log[j].user =>
           \E k \in BidAt : i < k /\ k < j /\ log[k].user # log[i].user

\* After a verdict no bid is taken before the lot is started again, and no
\* second verdict is given before it is started or scheduled again.
VerdictStands ==
  \A i \in VerdictAt : \A j \in Position :
    i < j =>
      /\ log[j].type = "BidPlaced" =>
           \E k \in Stored("AuctionStarted") : i < k /\ k < j
      /\ log[j].type = "AuctionClosed" =>
           \E k \in Stored("AuctionStarted") \cup Stored("AuctionScheduled") :
             i < k /\ k < j

\* A sale goes to the highest bid ever stored before it, at its amount and
\* at no less than the reserve.
SaleToHighest ==
  \A i \in VerdictAt :
    log[i].reserveMet =>
      \E j \in BidsOf(i) :
        /\ log[j].bid = log[i].bid /\ log[j].user = log[i].winner
        /\ log[j].amount = log[i].amount
        /\ log[i].amount >= Met(i).reserve
        /\ \A k \in BidsOf(i) : log[k].amount <= log[i].amount

\* An auction.closed message repeats a stored verdict, and no verdict is
\* announced twice, over retries of the close job included.
AnnouncedOnce ==
  \A m \in 1..Len(announced) :
    /\ announced[m].at \in VerdictAt
    /\ announced[m].verdict = log[announced[m].at]
    /\ \A n \in 1..Len(announced) :
         announced[n].at = announced[m].at => n = m

\* The outbid notice names the bidder that held the lot when the bid was
\* stored, not one that was overtaken in the meantime.
OutbidNoticeTrue ==
  \A m \in notified :
    \E i \in BidAt :
      /\ log[i].bid = m.bid /\ log[i].user = m.user
      /\ \/ BidsOf(i) = {} /\ m.previous = None
         \/ \E j \in BidsOf(i) : /\ \A k \in BidsOf(i) : k <= j
                                 /\ log[j].user = m.previous

\* The bid of b is stored, projected and notified, with the extension it was
\* due.
Delivered(b) ==
  \E i \in BidAt :
    /\ log[i].bid = b
    /\ b \in bidRows
    /\ \E m \in notified : m.bid = b
    /\ IsLate(Met(i), log[i].placedAt) =>
         /\ i < Len(log)
         /\ log[i + 1].type = "TimerExtended"

NotStored(b) == \A i \in BidAt : log[i].bid # b

AnswerTrue(b) ==
  /\ request[b].answer = "ok" => Delivered(b)
  /\ request[b].answer \in Refusals => NotStored(b)

\* A bidder told "ok" has a stored, projected and notified bid, with the
\* extension it was due; a bidder told a refusal has no stored bid.
AnswersTrue == \A b \in Bids : AnswerTrue(b)

\* The read model shows nothing that is not stored: it may be behind the
\* event store, never ahead of it.
BidRowsSound == \A b \in bidRows : \E i \in BidAt : log[i].bid = b

RowSound ==
  /\ row.highest # 0 => \E i \in BidAt : log[i].amount = row.highest
  /\ row.status # "ABSENT" =>
       \E i \in 1..Len(replay) : replay[i].status = row.status
  /\ row.winner # None => \E i \in VerdictAt : log[i].winner = row.winner

ReadModelSound ==
  BidRowsSound /\ RowSound /\ row.count <= Current.bidCount

\* An open auction has a close job that will run, one that failed, or a
\* handler that is about to add one.  (No crash, and no lot that ends before
\* it starts.)
OpenHasTimer ==
  Current.status \in Open =>
    \/ jobs["close"].state \in {"delayed", "active", "failed"}
    \/ \E b \in Bids : request[b].pc = "add"
    \/ admin.pc \in {"addStart", "addClose"}

\* An extension never brings the end of the auction forward (true of
\* schedules whose extension is at least as long as the window).
ExtendsForward ==
  [][\A i \in DOMAIN log' \ DOMAIN log :
       log'[i].type = "TimerExtended" => log'[i].endAt > Current.endAt]_log

-----------------------------------------------------------------------------
\* Every bid request is answered, whoever holds or loses the lock.
RequestsAnswered ==
  \A b \in Bids : request[b].pc = "acquire" ~> request[b].pc = "done"

\* A lot does not get stuck: one that is scheduled is started at its time, and
\* an open one gets its verdict, or its close job failed (or its end has moved
\* past the bound of the clock).  (No crash; schedules a lot once.)
Unsettled == Current.status \in Open /\ Current.endAt <= MaxTime

LotProgresses ==
  /\ Current.status = "SCHEDULED" ~> Current.status = "LIVE"
  /\ Unsettled ~> ~Unsettled \/ jobs["close"].state = "failed"

\* "Redis lock per lot_id prevents concurrent bid race conditions": the
\* highest bid shown to bidders never falls.  So it is while the lock outlives
\* its holder's handler, and not when the holder outlives the 5 s.
HighestNeverFalls == [][row'.highest >= row.highest]_row

-----------------------------------------------------------------------------
(***************************************************************************)
(* What the documents say of the engine and the code does not do.          *)
(***************************************************************************)

\* "Job fires -> close logic runs -> AuctionClosed": an open auction gets
\* its verdict.
OpenCloses == Unsettled ~> ~Unsettled
=============================================================================
