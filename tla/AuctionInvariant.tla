--------------------------- MODULE AuctionInvariant ---------------------------
(***************************************************************************)
(* The inductive invariant of AuctionEngine: what each handler may still   *)
(* believe of the event store between two of its awaits.  Its locals were  *)
(* computed from a prefix of the store, the prefix is still there, and     *)
(* what the handler has appended stands directly behind it.                *)
(***************************************************************************)
EXTENDS AuctionProperties, FiniteSets

\* The history variable replays the store, event by event.
ReplayInv ==
  /\ Len(replay) = Len(log) + 1
  /\ \A i \in 1..Len(log) : replay[i + 1] = ApplyEvent(replay[i], log[i])

\* The first n events of todo stand behind the loaded prefix.
StoredUpTo(base, todo, n) ==
  /\ base + n <= Len(log)
  /\ \A i \in 1..n : log[base + i] = todo[i]

Decided == {"append", "project", "insertBid", "publish", "remove", "add"}

BidInv(b) ==
  LET r == request[b] IN
    /\ r.pc \notin {"new", "done"} => r.user \in Users /\ r.amount \in Amounts
    /\ r.pc \in Decided =>
         /\ r.base <= Len(log)
         /\ Refusal(replay[r.base + 1], r.user, r.amount) = "none"
         /\ r.todo = PlaceBid(replay[r.base + 1], b, r.user, r.amount,
                              r.placedAt)
    /\ r.pc \in {"append", "project"} => r.done < Len(r.todo)
    /\ r.pc = "append" => StoredUpTo(r.base, r.todo, r.done)
    /\ r.pc \in Decided \ {"append"} =>
         StoredUpTo(r.base, r.todo, Len(r.todo))
    /\ r.pc \in {"remove", "add"} => Len(r.todo) = 2
    /\ r.pc \in {"new", "acquire", "load"} => r.done = 0

AdminInv ==
  admin.pc # "idle" =>
    /\ admin.base <= Len(log)
    /\ \E t \in Terms : admin.todo = << Schedule(t) >>

WorkerInv ==
  /\ worker.pc # "idle" => worker.job \in JobNames
  /\ worker.pc \in {"append", "project", "publish"} =>
       /\ worker.base <= Len(log)
       /\ \/ /\ worker.job = "start"
             /\ worker.todo = << Start >>
          \/ /\ worker.job = "close"
             /\ replay[worker.base + 1].status \notin TerminalStatuses
             /\ worker.todo = << Close(replay[worker.base + 1]) >>
  /\ worker.pc \in {"project", "publish"} => StoredUpTo(worker.base, worker.todo, 1)
  /\ worker.pc = "publish" => worker.job = "close"

\* A handler never knows more than the store, and the store is lawful.
HandlersSound ==
  /\ TypeOK
  /\ ReplayInv
  /\ \A b \in Bids : BidInv(b)
  /\ AdminInv
  /\ WorkerInv
  /\ LawfulHistory

-----------------------------------------------------------------------------
(***************************************************************************)
(* What the store remembers of its bids and its verdicts, prefix by        *)
(* prefix.  None of it can be read off HandlersSound at one state: each    *)
(* part speaks of all the events before a place, and so has to be carried  *)
(* from one INSERT to the next.                                            *)
(***************************************************************************)

\* No bid is among the first n events.
NoBidsUpTo(n) == \A k \in 1..n : log[k].type # "BidPlaced"

\* The j-th event is the last bid among the first n, and the highest.
LeadsUpTo(j, n) ==
  /\ j \in 1..n /\ log[j].type = "BidPlaced"
  /\ \A k \in 1..n : log[k].type = "BidPlaced" =>
                       k <= j /\ log[k].amount <= log[j].amount

\* The aggregate's highest bid is that bid, or none was stored.
LeaderAt(n) ==
  LET agg == replay[n + 1] IN
    \/ /\ NoBidsUpTo(n)
       /\ agg.highestBid = None /\ agg.highestUser = None
       /\ agg.highestAmount = 0
    \/ \E j \in 1..n : /\ LeadsUpTo(j, n)
                        /\ agg.highestBid = log[j].bid
                        /\ agg.highestUser = log[j].user
                        /\ agg.highestAmount = log[j].amount

LeaderKept == \A n \in 0..Len(log) : LeaderAt(n)

\* An event of a type in T stands behind the i-th, among the first n.
Since(i, n, T) == \E k \in 1..n : i < k /\ log[k].type \in T

\* A status in which bids are taken, or that is not final, was brought about
\* after every verdict stored so far.
PhaseAt(n) ==
  \A i \in 1..n : log[i].type = "AuctionClosed" =>
    /\ replay[n + 1].status \in Open => Since(i, n, {"AuctionStarted"})
    /\ replay[n + 1].status \notin TerminalStatuses =>
         Since(i, n, {"AuctionStarted", "AuctionScheduled"})

PhaseKept == \A n \in 0..Len(log) : PhaseAt(n)

\* Schedules whose extension is at least as long as their window.
LongExtensions == \A t \in Terms : t.window <= t.duration

EvenKept ==
  LongExtensions => \A n \in 0..Len(log) :
                      replay[n + 1].window <= replay[n + 1].duration

\* The clock stays within its bound, and no bid is from the future.
TimesKept ==
  /\ now <= MaxTime
  /\ \A b \in Bids : request[b].placedAt <= MaxTime

HistoryKept == LeaderKept /\ PhaseKept /\ EvenKept /\ TimesKept

-----------------------------------------------------------------------------
(***************************************************************************)
(* What others are told of the store: the bidder's answer, the read model, *)
(* the two messages.  Each is told behind an await or more, so the handler *)
(* has to carry what makes it true when it is told.                        *)
(***************************************************************************)
\* How far the handler of b is with telling.
ToldInv(b) ==
  LET r == request[b] IN
    /\ r.pc \notin {"release", "done"} => r.answer = "none"
    /\ r.pc \in {"new", "acquire", "load"} => NotStored(b)
    /\ r.pc = "append" /\ r.done = 0 => NotStored(b)
    /\ r.answer \in Refusals => NotStored(b)
    /\ r.pc = "insertBid" => r.done = 1
    /\ r.pc = "project" => r.done = 0 \/ b \in bidRows
    /\ r.pc \in {"publish", "remove", "add"} => b \in bidRows
    /\ r.pc \in {"remove", "add"} => \E m \in notified : m.bid = b

AdminToldInv ==
  admin.pc \notin {"idle", "append"} => StoredUpTo(admin.base, admin.todo, 1)

\* The verdict in the worker's hands was not announced before.
WorkerToldInv ==
  worker.pc \in {"project", "publish"} =>
    \A m \in 1..Len(announced) : announced[m].at # worker.base + 1

\* The bids that are stored and that their handlers have still to count.
Uncounted ==
  {b \in Bids : \/ request[b].pc = "append" /\ request[b].done = 1
                \/ request[b].pc = "project" /\ request[b].done = 0}

CountInv ==
  /\ IsFiniteSet(Uncounted)
  /\ row.count + Cardinality(Uncounted) <= Current.bidCount

ToldKept ==
  /\ \A b \in Bids : ToldInv(b)
  /\ AdminToldInv /\ WorkerToldInv /\ CountInv
  /\ AnswersTrue /\ OutbidNoticeTrue /\ AnnouncedOnce /\ ReadModelSound

-----------------------------------------------------------------------------
(***************************************************************************)
(* What the bid lock is for, where no handler outlives it.                 *)
(***************************************************************************)
LockKept == \A b \in Bids : InHandler(b) => lock = b

\* Until the row shows it, the bid in a handler's hands is the highest of all.
CeilingInv(b) ==
  \/ request[b].pc = "append"
  \/ request[b].pc = "project" /\ request[b].done = 0
  => \A i \in BidAt : log[i].amount <= request[b].amount

LockSound == LockKept /\ \A b \in Bids : CeilingInv(b)

-----------------------------------------------------------------------------
(***************************************************************************)
(* Why an open lot has a timer: its start job runs once and before its     *)
(* close job, so the close job that gives the verdict is still to run when *)
(* the lot opens, and only a handler that puts another in its place takes  *)
(* it away.  (No crash, and no lot that ends before it starts.)            *)
(***************************************************************************)

\* The admin's form lets no schedule through that ends before it starts; the
\* engine itself does not look.
StartsFirst == \A t \in Terms : t.startAt <= t.endAt

\* The worker holds the job that is active; no worker has died.
JobsHeld ==
  /\ crashes = 0
  /\ \A k \in JobNames :
       /\ jobs[k].state \notin {"waiting", "orphaned"}
       /\ jobs[k].state = "active" <=> worker.pc # "idle" /\ worker.job = k

Begun == jobs["start"].state \in {"active", "completed", "failed"}

NeverOpen == \A n \in 1..Len(replay) : replay[n].status \notin Open

\* The close job is not taken before the start job has run.
StartInv ==
  /\ ~Begun => NeverOpen
  /\ ~Begun \/ jobs["start"].state = "active" =>
       jobs["close"].state \in {"absent", "delayed"}
  /\ jobs["start"].state = "absent" =>
       jobs["close"].state = "absent" /\ admin.pc # "addClose"
  /\ jobs["start"].state = "delayed" /\ jobs["close"].state = "delayed" =>
       jobs["start"].due <= jobs["close"].due
  /\ jobs["start"].state = "delayed" /\ jobs["close"].state = "absent" =>
       /\ admin.pc = "addClose"
       /\ jobs["start"].due <= NewJob(admin.todo[1].terms.endAt, now).due

\* The close job is there, or about to be, until it has settled the lot.
CloseInv ==
  /\ jobs["start"].state # "absent" /\ jobs["close"].state = "absent" =>
       admin.pc = "addClose" \/ \E b \in Bids : request[b].pc = "add"
  /\ jobs["close"].state = "completed" => Current.status \notin Open
  /\ worker.job = "close" /\ worker.pc \in {"project", "publish", "complete"} =>
       Current.status \notin Open

TimerKept == JobsHeld /\ StartInv /\ CloseInv

-----------------------------------------------------------------------------
(***************************************************************************)
(* Why the pages tell one story: what the row and the table of bids hold   *)
(* of the store once the projections have caught up.  (As TimerKept, and   *)
(* no handler outlives its lock, and every schedule asks for a raise.)     *)
(***************************************************************************)

\* The admin's form refuses an increment of zero; the engine does not look.
RaisesAsked == \A t \in Terms : t.increment > 0

\* A bid is stored once, and counted.
BidsOnce  == \A i, j \in BidAt : log[i].bid = log[j].bid => i = j
CountKept == IsFiniteSet(BidAt) /\ Current.bidCount = Cardinality(BidAt)

\* A lot that is anything but a draft was scheduled, with an increment.
IncrementKept ==
  /\ jobs["start"].state # "absent" => Len(log) > 0
  /\ \A n \in 1..Len(log) : replay[n + 1].increment > 0

\* The start job is behind every verdict, so no bid is stored after one.
StartOnce ==
  /\ VerdictAt # {} => jobs["start"].state \in {"completed", "failed"}
  /\ \A i \in VerdictAt : \A j \in Position :
       i < j => log[j].type \notin {"AuctionStarted", "BidPlaced"}

\* A row that has counted every bid shows the highest; one that is sold names
\* the winner of a stored verdict.
RowKept ==
  /\ row.status # "DRAFT"
  /\ row.status = "ABSENT" => row.count = 0
  /\ row.count = Current.bidCount /\ row.count > 0 =>
       row.highest = Current.highestAmount
  /\ row.status = "SOLD" =>
       \E i \in VerdictAt : log[i].reserveMet /\ log[i].winner = row.winner

StoryKept == BidsOnce /\ CountKept /\ IncrementKept /\ StartOnce /\ RowKept

-----------------------------------------------------------------------------
\* All of it, each part of which needs those before it.
EngineSound == HandlersSound /\ HistoryKept /\ ToldKept
=============================================================================
