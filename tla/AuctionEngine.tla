---------------------------- MODULE AuctionEngine ----------------------------
(***************************************************************************)
(* The auction engine's handling of one lot: the command handlers of       *)
(* apps/auction-engine running against the Postgres event store and read   *)
(* model, the Redis bid lock, the BullMQ timer jobs and the RabbitMQ       *)
(* publisher.  Lots share nothing, so one lot is enough.                   *)
(*                                                                         *)
(* A step is what the Node process does up to the next await: one Redis,   *)
(* Postgres, BullMQ or RabbitMQ call and the code that follows it.  All    *)
(* bid requests, the admin's schedule request and the timer worker         *)
(* interleave between their awaits.  The worker has BullMQ's default       *)
(* concurrency of one and its jobs the default single attempt.             *)
(***************************************************************************)
EXTENDS AuctionAggregate, TimerJobs

CONSTANTS
  MaxTime,        \* bound: the last minute of the clock
  MaxSchedules,   \* bound: schedule requests
  MaxCrashes,     \* bound: crashes of the engine's process
  LockMayExpire,  \* may a handler outlive the 5 s of the bid lock?
  BrokerMayFail   \* may publish() throw?

ASSUME BoundsAssumption ==
  /\ MaxTime \in Nat /\ MaxSchedules \in Nat /\ MaxCrashes \in Nat
  /\ LockMayExpire \in BOOLEAN /\ BrokerMayFail \in BOOLEAN

VARIABLES
  log,        \* auction_events of the lot, in sequence order
  replay,     \* history: replay[i + 1] is the aggregate after i events
  lock,       \* the Redis key bid-lock:<lot>; its holder is history, the
              \* key's value is always '1'
  request,    \* each bid request and the local state of its handler
  admin,      \* the schedule request's handler
  worker,     \* the timer worker and the job it processes
  jobs,       \* BullMQ's jobs start-<lot> and close-<lot>
  row,        \* the lot's row of lot_status
  bidRows,    \* the bids with a row in the table bids
  announced,  \* auction.closed messages handed to RabbitMQ, in order
  notified,   \* auction.bid.placed messages handed to RabbitMQ
  now,        \* the clock, in minutes
  schedules,  \* schedule requests so far
  crashes     \* crashes so far

storeVars == << log, replay >>
viewVars  == << row, bidRows >>
busVars   == << announced, notified >>
envVars   == << now, schedules, crashes >>
vars == << log, replay, lock, request, admin, worker, jobs, row, bidRows,
           announced, notified, now, schedules, crashes >>

-----------------------------------------------------------------------------
(***************************************************************************)
(* The event store.  Loading replays every stored event; an INSERT of      *)
(* sequence number n + 1 succeeds exactly when n events are stored, since  *)
(* (lot_id, sequence) is unique.                                           *)
(***************************************************************************)
Current == replay[Len(replay)]

Insert(e) ==
  /\ log' = Append(log, e)
  /\ replay' = Append(replay, ApplyEvent(Current, e))

\* Fault: the unique key dropped.
Conflict_Unchecked(base, i) == FALSE

\* The unique key rejects an event computed after `base' stored events, of
\* which it is the i-th to be appended.
Conflict(base, i) == Len(log) # base + i - 1

-----------------------------------------------------------------------------
(***************************************************************************)
(* The read model: one statement per event, and a second one for a bid.    *)
(* An UPDATE of a row that is not there changes nothing.                   *)
(***************************************************************************)
AbsentRow == [status |-> "ABSENT", highest |-> 0, count |-> 0,
              endAt |-> 0, winner |-> None]

Row == [status : Status \cup {"ABSENT"}, highest : Nat, count : Nat,
        endAt : Nat, winner : Users \cup {None}]

UpsertRow(r, terms) ==
  [r EXCEPT !.status = "SCHEDULED", !.endAt = terms.endAt]

UpdateRow(r, e) ==
  CASE e.type = "AuctionStarted" -> [r EXCEPT !.status = "LIVE"]
    [] e.type = "BidPlaced" ->
         [r EXCEPT !.highest = e.amount, !.count = @ + 1]
    [] e.type = "TimerExtended" ->
         [r EXCEPT !.endAt = e.endAt, !.status = "CLOSING"]
    [] e.type = "AuctionClosed" ->
         [r EXCEPT !.status = IF e.reserveMet THEN "SOLD" ELSE "UNSOLD",
                   !.winner = e.winner]

ProjectRow(r, e) ==
  IF e.type = "AuctionScheduled" THEN UpsertRow(r, e.terms)
  ELSE IF r.status = "ABSENT" THEN r
  ELSE UpdateRow(r, e)

-----------------------------------------------------------------------------
(***************************************************************************)
(* The timer jobs of the lot, by their ids start-<lot> and close-<lot>.    *)
(***************************************************************************)
JobNames == {"start", "close"}

\* Fault: one job id for both jobs of a lot.
AddJob_SharedId(js, k, at) ==
  IF \A j \in JobNames : js[j].state = "absent"
  THEN [js EXCEPT ![k] = NewJob(at, now)]
  ELSE js

AddJob(js, k, at) == [js EXCEPT ![k] = Added(@, at, now)]

SetJob(k, s) == jobs' = [jobs EXCEPT ![k].state = s]

Due(k) == IsDue(jobs[k], now)

\* Delayed jobs are promoted by due time, then in the order they were added.
Before(j, k) ==
  \/ jobs[j].due < jobs[k].due
  \/ jobs[j].due = jobs[k].due /\ j = "start" /\ k = "close"

\* A job put back after a stall is taken before the promoted ones.
Ready(k) ==
  \/ jobs[k].state = "waiting"
  \/ /\ Due(k)
     /\ \A j \in JobNames : /\ jobs[j].state # "waiting"
                            /\ Due(j) => ~Before(j, k)

-----------------------------------------------------------------------------
(***************************************************************************)
(* POST /api/auctions/:lotId/bids and PlaceBidCommandHandler.execute.      *)
(* `base' events were loaded; `todo' are the uncommitted events, of which  *)
(* the first `done' are through the current phase.                         *)
(***************************************************************************)
RequestSteps == {"new", "acquire", "load", "append", "project", "insertBid",
                 "publish", "remove", "add", "release", "done"}
Refusals == {"AUCTION_NOT_ACTIVE", "CANNOT_OUTBID_SELF", "BID_TOO_LOW"}
Answers  == Refusals \cup {"none", "ok", "error", "lost"}

NewRequest == [pc |-> "new", user |-> None, amount |-> 0, placedAt |-> 0,
               base |-> 0, todo |-> << >>, done |-> 0, answer |-> "none"]

Become(b, r) == request' = [request EXCEPT ![b] = r]

\* The handler of b goes on at pc; its other fields stay.
Goto(b, pc) == Become(b, [request[b] EXCEPT !.pc = pc])

\* What is answered is decided before the finally block releases the lock.
Answer(b, answer) ==
  Become(b, [request[b] EXCEPT !.pc = "release", !.answer = answer])

\* The handler returns and its locals are gone.
Finished(answer) == [NewRequest EXCEPT !.pc = "done", !.answer = answer]

\* The request arrives, passes the router's checks and reads the clock.
Arrive(b) ==
  /\ request[b].pc = "new"
  /\ \E u \in Users, a \in Amounts :
       Become(b, [request[b] EXCEPT !.pc = "acquire", !.user = u,
                                    !.amount = a, !.placedAt = now])
  /\ UNCHANGED << storeVars, lock, admin, worker, jobs, viewVars, busVars,
                  envVars >>

\* Fault: SET without NX.
Acquire_Always(b) ==
  /\ request[b].pc = "acquire"
  /\ lock' = b
  /\ Goto(b, "load")
  /\ UNCHANGED << storeVars, admin, worker, jobs, viewVars, busVars, envVars >>

\* SET NX: without the lock the bid is refused and nothing is released.
Acquire(b) ==
  /\ request[b].pc = "acquire"
  /\ \/ /\ lock = None
        /\ lock' = b
        /\ Goto(b, "load")
     \/ /\ lock # None
        /\ lock' = lock
        /\ Become(b, Finished("AUCTION_NOT_ACTIVE"))
  /\ UNCHANGED << storeVars, admin, worker, jobs, viewVars, busVars, envVars >>

\* The aggregate is loaded and decides on the bid, in one synchronous step.
Load(b) ==
  /\ request[b].pc = "load"
  /\ LET r       == request[b]
         refusal == Refusal(Current, r.user, r.amount)
     IN \/ /\ refusal # "none"
           /\ Answer(b, refusal)
        \/ /\ refusal = "none"
           /\ Become(b, [r EXCEPT
                           !.pc = "append", !.base = Len(log),
                           !.todo = PlaceBid(Current, b, r.user, r.amount,
                                             r.placedAt)])
  /\ UNCHANGED << storeVars, lock, admin, worker, jobs, viewVars, busVars,
                  envVars >>

\* Fault: the duplicate key taken for a bid stored by an earlier attempt.
AppendRejected_Ignored(b) ==
  Become(b, [request[b] EXCEPT !.pc = "project", !.done = 0])

\* Fault: the INSERT tried again until it succeeds.
AppendRejected_Retried(b) == UNCHANGED request

\* A duplicate key leaves the handler through finally, whatever was appended
\* before it.
AppendRejected(b) == Answer(b, "error")

\* One INSERT of the loop in append.
AppendBid(b) ==
  /\ request[b].pc = "append"
  /\ LET r == request[b]
         i == r.done + 1
     IN \/ /\ Conflict(r.base, i)
           /\ AppendRejected(b)
           /\ UNCHANGED storeVars
        \/ /\ ~Conflict(r.base, i)
           /\ Insert(r.todo[i])
           /\ Become(b, IF i = Len(r.todo)
                        THEN [r EXCEPT !.pc = "project", !.done = 0]
                        ELSE [r EXCEPT !.done = i])
  /\ UNCHANGED << lock, admin, worker, jobs, viewVars, busVars, envVars >>

\* The UPDATE of lot_status for the next event.
ProjectBidRow(b) ==
  /\ request[b].pc = "project"
  /\ LET r == request[b]
         i == r.done + 1
     IN /\ row' = ProjectRow(row, r.todo[i])
        /\ Become(b, [r EXCEPT
                        !.pc = IF r.todo[i].type = "BidPlaced"
                               THEN "insertBid" ELSE "publish",
                        !.done = i])
  /\ UNCHANGED << storeVars, lock, admin, worker, jobs, bidRows, busVars,
                  envVars >>

\* The INSERT into bids, the second statement for a BidPlaced.
InsertBidRow(b) ==
  /\ request[b].pc = "insertBid"
  /\ bidRows' = bidRows \cup {b}
  /\ Goto(b, IF request[b].done < Len(request[b].todo) THEN "project"
             ELSE "publish")
  /\ UNCHANGED << storeVars, lock, admin, worker, jobs, row, busVars,
                  envVars >>

\* Fault: the previous bidder read from the store after the append.
BidMessage_Reread(b) ==
  [bid |-> b, user |-> request[b].user, previous |-> Current.highestUser]

\* What subscribers are told: the bid and the bidder it was computed to
\* outbid (previousHighestBidderId, read from the loaded aggregate).
BidMessage(b) ==
  [bid |-> b, user |-> request[b].user,
   previous |-> replay[request[b].base + 1].highestUser]

\* publish throws when the channel reports backpressure, which still
\* delivers the message, or when the broker is gone, which does not.
PublishBid(b) ==
  /\ request[b].pc = "publish"
  /\ \/ /\ notified' = notified \cup {BidMessage(b)}
        /\ \/ Len(request[b].todo) = 2 /\ Goto(b, "remove")
           \/ Len(request[b].todo) = 1 /\ Answer(b, "ok")
     \/ /\ BrokerMayFail
        /\ notified' \in {notified, notified \cup {BidMessage(b)}}
        /\ Answer(b, "error")
  /\ UNCHANGED << storeVars, lock, admin, worker, jobs, viewVars, announced,
                  envVars >>

\* rescheduleClose, getJob and remove; where remove throws the bid is stored
\* and its new job is not added.
RemoveClose(b) ==
  /\ request[b].pc = "remove"
  /\ \/ /\ Removable(jobs["close"])
        /\ jobs' = [jobs EXCEPT !["close"] = NoJob]
        /\ Goto(b, "add")
     \/ /\ MayRefuse(jobs["close"])
        /\ jobs' = jobs
        /\ Answer(b, "error")
  /\ UNCHANGED << storeVars, lock, admin, worker, viewVars, busVars, envVars >>

\* rescheduleClose, the new job at the extended end.
AddClose(b) ==
  /\ request[b].pc = "add"
  /\ jobs' = AddJob(jobs, "close", request[b].todo[2].endAt)
  /\ Answer(b, "ok")
  /\ UNCHANGED << storeVars, lock, admin, worker, viewVars, busVars, envVars >>

\* finally: DEL removes the key whoever set it.
Release(b) ==
  /\ request[b].pc = "release"
  /\ lock' = None
  /\ Become(b, Finished(request[b].answer))
  /\ UNCHANGED << storeVars, admin, worker, jobs, viewVars, busVars, envVars >>

BidStep(b) ==
  \/ Acquire(b) \/ Load(b) \/ AppendBid(b) \/ ProjectBidRow(b)
  \/ InsertBidRow(b) \/ PublishBid(b) \/ RemoveClose(b) \/ AddClose(b)
  \/ Release(b)

-----------------------------------------------------------------------------
(***************************************************************************)
(* POST /api/auctions and ScheduleAuctionCommandHandler.execute.  The      *)
(* closing-soon job it adds last only sends a notification and is not      *)
(* modelled.                                                               *)
(***************************************************************************)
AdminSteps == {"idle", "append", "project", "addStart", "addClose"}
AdminIdle  == [pc |-> "idle", base |-> 0, todo |-> << >>]

\* The request arrives and the aggregate is loaded; no status forbids it.
ScheduleLoad ==
  /\ admin.pc = "idle"
  /\ schedules < MaxSchedules
  /\ schedules' = schedules + 1
  /\ \E t \in Terms :
       admin' = [pc |-> "append", base |-> Len(log), todo |-> << Schedule(t) >>]
  /\ UNCHANGED << storeVars, lock, request, worker, jobs, viewVars, busVars,
                  now, crashes >>

ScheduleAppend ==
  /\ admin.pc = "append"
  /\ \/ /\ Conflict(admin.base, 1)
        /\ admin' = AdminIdle
        /\ UNCHANGED storeVars
     \/ /\ ~Conflict(admin.base, 1)
        /\ Insert(admin.todo[1])
        /\ admin' = [admin EXCEPT !.pc = "project"]
  /\ UNCHANGED << lock, request, worker, jobs, viewVars, busVars, envVars >>

ScheduleProject ==
  /\ admin.pc = "project"
  /\ row' = ProjectRow(row, admin.todo[1])
  /\ admin' = [admin EXCEPT !.pc = "addStart"]
  /\ UNCHANGED << storeVars, lock, request, worker, jobs, bidRows, busVars,
                  envVars >>

ScheduleStart ==
  /\ admin.pc = "addStart"
  /\ jobs' = AddJob(jobs, "start", admin.todo[1].terms.startAt)
  /\ admin' = [admin EXCEPT !.pc = "addClose"]
  /\ UNCHANGED << storeVars, lock, request, worker, viewVars, busVars,
                  envVars >>

ScheduleClose ==
  /\ admin.pc = "addClose"
  /\ jobs' = AddJob(jobs, "close", admin.todo[1].terms.endAt)
  /\ admin' = AdminIdle
  /\ UNCHANGED << storeVars, lock, request, worker, viewVars, busVars,
                  envVars >>

AdminStep ==
  \/ ScheduleAppend \/ ScheduleProject \/ ScheduleStart \/ ScheduleClose

-----------------------------------------------------------------------------
(***************************************************************************)
(* BullMQAuctionWorker.process with the start and close handlers.  Neither *)
(* takes the bid lock, neither reads the clock.                            *)
(***************************************************************************)
WorkerSteps == {"idle", "load", "append", "project", "publish", "complete",
                "fail"}
WorkerIdle  == [pc |-> "idle", job |-> "none", base |-> 0, todo |-> << >>]

WorkerGoto(pc) == worker' = [worker EXCEPT !.pc = pc]

TakeJob(k) ==
  /\ worker.pc = "idle"
  /\ Ready(k)
  /\ SetJob(k, "active")
  /\ worker' = [WorkerIdle EXCEPT !.pc = "load", !.job = k]
  /\ UNCHANGED << storeVars, lock, request, admin, viewVars, busVars, envVars >>

\* Fault: a retried close not recognised.
AlreadyClosed_Never == FALSE

AlreadyClosed == Current.status \in TerminalStatuses

\* Start appends whatever the status; close returns early when it is terminal.
WorkerLoad ==
  /\ worker.pc = "load"
  /\ \/ /\ worker.job = "close" /\ AlreadyClosed
        /\ WorkerGoto("complete")
     \/ /\ worker.job = "close" /\ ~AlreadyClosed
        /\ worker' = [worker EXCEPT !.pc = "append", !.base = Len(log),
                                    !.todo = << Close(Current) >>]
     \/ /\ worker.job = "start"
        /\ worker' = [worker EXCEPT !.pc = "append", !.base = Len(log),
                                    !.todo = << Start >>]
  /\ UNCHANGED << storeVars, lock, request, admin, jobs, viewVars, busVars,
                  envVars >>

\* Fault: the duplicate key taken for a verdict stored by an earlier attempt.
CommandRejected_Ignored == WorkerGoto("project")

CommandRejected == WorkerGoto("fail")

WorkerAppend ==
  /\ worker.pc = "append"
  /\ \/ /\ Conflict(worker.base, 1)
        /\ CommandRejected
        /\ UNCHANGED storeVars
     \/ /\ ~Conflict(worker.base, 1)
        /\ Insert(worker.todo[1])
        /\ WorkerGoto("project")
  /\ UNCHANGED << lock, request, admin, jobs, viewVars, busVars, envVars >>

WorkerProject ==
  /\ worker.pc = "project"
  /\ row' = ProjectRow(row, worker.todo[1])
  /\ WorkerGoto(IF worker.job = "close" THEN "publish" ELSE "complete")
  /\ UNCHANGED << storeVars, lock, request, admin, jobs, bidRows, busVars,
                  envVars >>

\* The message repeats the event; `at' (history) is the event's sequence.
ClosedMessage == [at |-> worker.base + 1, verdict |-> worker.todo[1]]

PublishClosed ==
  /\ worker.pc = "publish"
  /\ \/ /\ announced' = Append(announced, ClosedMessage)
        /\ WorkerGoto("complete")
     \/ /\ BrokerMayFail
        /\ announced' \in {announced, Append(announced, ClosedMessage)}
        /\ WorkerGoto("fail")
  /\ UNCHANGED << storeVars, lock, request, admin, jobs, viewVars, notified,
                  envVars >>

\* The processor returned or threw; with one attempt a failed job stays so.
FinishJob ==
  /\ worker.pc \in {"complete", "fail"}
  /\ SetJob(worker.job, IF worker.pc = "complete" THEN "completed"
                        ELSE "failed")
  /\ worker' = WorkerIdle
  /\ UNCHANGED << storeVars, lock, request, admin, viewVars, busVars, envVars >>

WorkerStep == WorkerLoad \/ WorkerAppend \/ WorkerProject \/ PublishClosed
                \/ FinishJob

-----------------------------------------------------------------------------
(***************************************************************************)
(* The environment.                                                        *)
(***************************************************************************)

\* The key's 5 s time to live passes, its holder gone or merely slow.
InHandler(b) == request[b].pc \notin {"new", "acquire", "done"}

ExpireLock ==
  /\ lock # None
  /\ LockMayExpire \/ ~InHandler(lock)
  /\ lock' = None
  /\ UNCHANGED << storeVars, request, admin, worker, jobs, viewVars, busVars,
                  envVars >>

\* BullMQ finds an active job without a worker.
RecoverStalled(k) ==
  /\ jobs[k].state = "orphaned"
  /\ jobs' = [jobs EXCEPT ![k] = PutBack(@)]
  /\ UNCHANGED << storeVars, lock, request, admin, worker, viewVars, busVars,
                  envVars >>

\* The process dies and restarts: every handler is lost between two awaits,
\* the lock stays, the worker's job is left active.
Crash ==
  /\ crashes < MaxCrashes
  /\ crashes' = crashes + 1
  /\ request' = [b \in Bids |->
                   IF request[b].pc \in {"new", "done"} THEN request[b]
                   ELSE Finished("lost")]
  /\ admin' = AdminIdle
  /\ worker' = WorkerIdle
  /\ \/ worker.pc = "idle" /\ jobs' = jobs
     \/ worker.pc # "idle" /\ SetJob(worker.job, "orphaned")
  /\ UNCHANGED << storeVars, lock, viewVars, busVars, now, schedules >>

Tick ==
  /\ now < MaxTime
  /\ now' = now + 1
  /\ UNCHANGED << storeVars, lock, request, admin, worker, jobs, viewVars,
                  busVars, schedules, crashes >>

-----------------------------------------------------------------------------
Init ==
  /\ log = << >> /\ replay = << Fresh >>
  /\ lock = None
  /\ request = [b \in Bids |-> NewRequest]
  /\ admin = AdminIdle
  /\ worker = WorkerIdle
  /\ jobs = [k \in JobNames |-> NoJob]
  /\ row = AbsentRow /\ bidRows = {}
  /\ announced = << >> /\ notified = {}
  /\ now = 0 /\ schedules = 0 /\ crashes = 0

Next ==
  \/ \E b \in Bids : Arrive(b) \/ BidStep(b)
  \/ ScheduleLoad \/ AdminStep
  \/ \E k \in JobNames : TakeJob(k) \/ RecoverStalled(k)
  \/ WorkerStep
  \/ ExpireLock \/ Crash \/ Tick

Spec == Init /\ [][Next]_vars

\* Handlers that were started go on, a ready job is taken, keys expire and
\* the clock runs; nobody is obliged to bid, to schedule or to crash.
Fairness ==
  /\ \A b \in Bids : WF_vars(BidStep(b))
  /\ WF_vars(AdminStep)
  /\ \A k \in JobNames : WF_vars(TakeJob(k)) /\ WF_vars(RecoverStalled(k))
  /\ WF_vars(WorkerStep)
  /\ WF_vars(ExpireLock)
  /\ WF_vars(Tick)

FairSpec == Spec /\ Fairness
=============================================================================
