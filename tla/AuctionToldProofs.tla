-------------------------- MODULE AuctionToldProofs --------------------------
(***************************************************************************)
(* What bidders, pages and other services are told of a lot is true when   *)
(* it is told and stays true: ToldKept is inductive.  Under the premises   *)
(* they name, so are LockSound (the highest bid shown never falls),        *)
(* TimerKept (an open lot has a timer) and StoryKept (all pages tell one   *)
(* story).                                                                 *)
(***************************************************************************)
EXTENDS AuctionProofs, AuctionPages, FiniteSetTheorems

-----------------------------------------------------------------------------
(***************************************************************************)
(* What a step may do to the store, and who does it.                       *)
(***************************************************************************)

\* A bid enters the store by the hand of its own handler.
LEMMA StoreStepBy ==
  ASSUME HandlersSound, HistoryKept, [Next]_vars
  PROVE  \/ UNCHANGED storeVars
         \/ \E b \in Bids :
              LET q == request[b] IN
                /\ AppendBid(b) /\ ~Conflict(q.base, q.done + 1)
                /\ q.todo[q.done + 1] \in Event /\ Insert(q.todo[q.done + 1])
                /\ LawfulNext(q.todo[q.done + 1])
                /\ q.todo[q.done + 1].type = "BidPlaced" =>
                     q.todo[q.done + 1].bid = b
         \/ /\ request' = request /\ bidRows' = bidRows /\ notified' = notified
            /\ \E e \in Event : Insert(e) /\ LawfulNext(e) /\ e.type # "BidPlaced"
<1>1. ASSUME NEW b \in Bids, AppendBid(b), ~Conflict(request[b].base, request[b].done + 1)
      PROVE  LET q == request[b] IN
               /\ q.todo[q.done + 1] \in Event /\ Insert(q.todo[q.done + 1])
               /\ LawfulNext(q.todo[q.done + 1])
               /\ q.todo[q.done + 1].type = "BidPlaced" =>
                    q.todo[q.done + 1].bid = b
  <2> DEFINE q == request[b]
  <2>1. q.pc = "append" /\ q.pc \in Decided /\ Insert(q.todo[q.done + 1])
    BY <1>1 DEF AppendBid, Decided
  <2>2. q.todo[q.done + 1] \in Event /\ LawfulNext(q.todo[q.done + 1])
    BY <1>1, <2>1, AppendLawful
  <2>3. q.done = 0 \/ (q.done = 1 /\ Len(q.todo) = 2)
    BY <2>1, AppendPlace
  <2>4. /\ q.todo[1] = BidPlaced(b, q.user, q.amount, q.placedAt)
        /\ Len(q.todo) = 2 => q.todo[2] \in ExtendedEvents
    BY <2>1, DecidedTodo
  <2>5. q.todo[q.done + 1].type = "BidPlaced" => q.todo[q.done + 1].bid = b
    BY <2>3, <2>4 DEF BidPlaced, ExtendedEvents
  <2> QED BY <2>1, <2>2, <2>5
<1>2. ASSUME ScheduleAppend, ~Conflict(admin.base, 1)
      PROVE  /\ admin.todo[1] \in Event /\ Insert(admin.todo[1])
             /\ LawfulNext(admin.todo[1]) /\ admin.todo[1].type # "BidPlaced"
  <2>1. admin.pc # "idle" /\ Insert(admin.todo[1])
    BY <1>2 DEF ScheduleAppend
  <2>2. PICK t \in Terms : admin.todo = << Schedule(t) >>
    BY <2>1 DEF HandlersSound, AdminInv
  <2>3. admin.todo[1].type = "AuctionScheduled"
    BY <2>2 DEF Schedule
  <2> QED BY <2>1, <2>3, ScheduleTodo
<1>3. ASSUME WorkerAppend, ~Conflict(worker.base, 1)
      PROVE  /\ worker.todo[1] \in Event /\ Insert(worker.todo[1])
             /\ LawfulNext(worker.todo[1]) /\ worker.todo[1].type # "BidPlaced"
  <2>1. worker.pc = "append" /\ Insert(worker.todo[1])
    BY <1>3 DEF WorkerAppend
  <2>2. worker.todo[1] \in Event /\ worker.base \in Nat
    BY <2>1, WorkerTodo
  <2>3. Len(log) = worker.base
    BY <1>3, <2>2, StoreReadable DEF Conflict, HandlersSound
  <2>4. worker.todo[1].type \in {"AuctionStarted", "AuctionClosed"}
    BY <2>1 DEF HandlersSound, WorkerInv, Start, Close
  <2> QED BY <2>1, <2>2, <2>3, <2>4, WorkerTodo
<1>4. CASE \E b \in Bids : Arrive(b) \/ BidStep(b)
  <2>1. PICK b \in Bids : Arrive(b) \/ BidStep(b)
    BY <1>4
  <2>2. \/ UNCHANGED storeVars
        \/ AppendBid(b) /\ ~Conflict(request[b].base, request[b].done + 1)
    BY <2>1 DEF BidStep, Arrive, Acquire, Load, AppendBid, ProjectBidRow,
                InsertBidRow, PublishBid, RemoveClose, AddClose, Release
  <2> QED BY <1>1, <2>2
<1>5. CASE ScheduleLoad \/ AdminStep
  <2>1. \/ UNCHANGED storeVars
        \/ ScheduleAppend /\ ~Conflict(admin.base, 1)
    BY <1>5 DEF AdminStep, ScheduleLoad, ScheduleAppend, ScheduleProject,
                ScheduleStart, ScheduleClose
  <2> QED BY <1>2, <2>1 DEF ScheduleAppend, viewVars, busVars
<1>6. CASE WorkerStep
  <2>1. \/ UNCHANGED storeVars
        \/ WorkerAppend /\ ~Conflict(worker.base, 1)
    BY <1>6 DEF WorkerStep, WorkerLoad, WorkerAppend, WorkerProject,
                PublishClosed, FinishJob
  <2> QED BY <1>3, <2>1 DEF WorkerAppend, viewVars, busVars
<1>7. CASE \/ \E k \in JobNames : TakeJob(k) \/ RecoverStalled(k)
           \/ ExpireLock \/ Crash \/ Tick \/ UNCHANGED vars
  BY <1>7 DEF TakeJob, RecoverStalled, ExpireLock, Crash, Tick, vars, storeVars
<1> QED BY <1>4, <1>5, <1>6, <1>7 DEF Next

\* Whatever a step does, the events stored before it stay, at their places.
LEMMA StoreKeeps ==
  ASSUME HandlersSound, HistoryKept, [Next]_vars
  PROVE  /\ Len(log) \in Nat /\ Len(log') \in Nat /\ Len(log) <= Len(log')
         /\ \A i \in 1..Len(log) : log'[i] = log[i]
         /\ \A i \in 1..(Len(log) + 1) : replay'[i] = replay[i]
         /\ Len(replay) = Len(log) + 1 /\ Len(replay') = Len(log') + 1
<1>1. TimesKept /\ TypeOK /\ ReplayInv
  BY DEF HistoryKept, HandlersSound
<1>2. Len(log) \in Nat /\ Len(replay) = Len(log) + 1
  BY <1>1, StoreReadable DEF ReplayInv
<1>3. CASE UNCHANGED storeVars
  BY <1>2, <1>3 DEF storeVars
<1>4. ASSUME NEW e \in Event, Insert(e)
      PROVE  /\ Len(log') = Len(log) + 1 /\ Len(replay') = Len(log') + 1
             /\ \A i \in 1..Len(log) : log'[i] = log[i]
             /\ \A i \in 1..(Len(log) + 1) : replay'[i] = replay[i]
  BY <1>1, <1>4, InsertAppends DEF ReplayInv
<1> QED BY <1>1, <1>2, <1>3, <1>4, StoreStep

\* What was said of a stored bid or verdict can still be said.
LEMMA BidsKeep ==
  ASSUME HandlersSound, HistoryKept, [Next]_vars
  PROVE  /\ \A i \in BidAt : /\ i \in BidAt' /\ log'[i] = log[i]
                             /\ replay'[i] = replay[i]
                             /\ BidsOf(i)' = BidsOf(i)
         /\ \A i \in VerdictAt : i \in VerdictAt' /\ log'[i] = log[i]
<1>1. /\ Len(log) \in Nat /\ Len(log') \in Nat /\ Len(log) <= Len(log')
      /\ \A i \in 1..Len(log) : log'[i] = log[i]
      /\ \A i \in 1..Len(log) : i \in 1..Len(log') /\ i \in Int
      /\ \A i \in 1..(Len(log) + 1) : replay'[i] = replay[i]
  BY StoreKeeps
<1>2. ASSUME NEW i \in 1..Len(log)
      PROVE  log'[i] = log[i] /\ replay'[i] = replay[i] /\ i \in 1..Len(log')
  BY <1>1
<1>3. ASSUME NEW i \in 1..Len(log) PROVE BidsOf(i)' = BidsOf(i)
  <2>1. \A j \in Int : j < i => (j \in 1..Len(log) <=> j \in 1..Len(log'))
    BY <1>1
  <2>2. \A j \in 1..Len(log') : j < i => j \in 1..Len(log) /\ log'[j] = log[j]
    BY <1>1, <2>1
  <2>3. \A j \in 1..Len(log) : j \in 1..Len(log') /\ log'[j] = log[j]
    BY <1>1
  <2> QED BY <2>2, <2>3 DEF BidsOf, BidAt, Stored, Position
<1> QED BY <1>2, <1>3 DEF BidAt, VerdictAt, Stored, Position

\* A handler that appends does not stay where it is.
LEMMA AppendMoves ==
  ASSUME HandlersSound, NEW b \in Bids, AppendBid(b)
  PROVE  request'[b] # request[b]
<1>1. /\ request \in [Bids -> Request] /\ request[b] \in Request
      /\ request[b].pc = "append" /\ request[b].done \in Nat
  BY DEF HandlersSound, TypeOK, AppendBid, Request
<1>2. \A r : Become(b, r) => request'[b] = r
  BY <1>1 DEF Become
<1>3. request'[b] \in {[request[b] EXCEPT !.pc = "release", !.answer = "error"],
                       [request[b] EXCEPT !.pc = "project", !.done = 0],
                       [request[b] EXCEPT !.done = request[b].done + 1]}
  BY <1>2 DEF AppendBid, AppendRejected, Answer
<1>4. \/ request'[b].pc \in {"release", "project"}
      \/ request'[b].done = request[b].done + 1
  BY <1>1, <1>3 DEF Request
<1>5. request[b].done + 1 # request[b].done
  BY <1>1
<1> QED BY <1>1, <1>4, <1>5

\* A bid stays out of the store until its own handler appends it.
LEMMA NotStoredStays ==
  ASSUME HandlersSound, HistoryKept, [Next]_vars, NEW b \in Bids,
         ~AppendBid(b), NotStored(b)
  PROVE  NotStored(b)'
<1>1. CASE UNCHANGED storeVars
  BY <1>1 DEF storeVars, NotStored, BidAt, Stored, Position
<1>2. ASSUME NEW e \in Event, Insert(e), e.type = "BidPlaced" => e.bid # b
      PROVE  NotStored(b)'
  <2> SUFFICES ASSUME NEW n \in Nat, n = Len(log), NEW i \in 1..(n + 1),
                      log'[i].type = "BidPlaced"
               PROVE  log'[i].bid # b
    BY <1>2, StoreGrows DEF NotStored, BidAt, Stored, Position
  <2>1. /\ log'[n + 1] = e /\ \A j \in 1..n : log'[j] = log[j]
    BY <1>2, StoreGrows
  <2>2. CASE i = n + 1
    BY <1>2, <2>1, <2>2
  <2>3. CASE i # n + 1
    <3>1. i \in 1..n
      BY <2>3
    <3> QED BY <2>1, <3>1 DEF NotStored, BidAt, Stored, Position
  <2> QED BY <2>2, <2>3
<1> QED BY <1>1, <1>2, StoreStepBy

\* No step takes back a row of bids or a message.
LEMMA TellingGrows ==
  ASSUME [Next]_vars
  PROVE  bidRows \subseteq bidRows' /\ notified \subseteq notified'
<1>1. ASSUME NEW b \in Bids, Arrive(b) \/ BidStep(b)
      PROVE  bidRows \subseteq bidRows' /\ notified \subseteq notified'
  BY <1>1 DEF BidStep, Arrive, Acquire, Load, AppendBid, ProjectBidRow,
              InsertBidRow, PublishBid, RemoveClose, AddClose, Release,
              viewVars, busVars
<1>2. CASE ScheduleLoad \/ AdminStep
  BY <1>2 DEF AdminStep, ScheduleLoad, ScheduleAppend, ScheduleProject,
              ScheduleStart, ScheduleClose, viewVars, busVars
<1>3. CASE WorkerStep
  BY <1>3 DEF WorkerStep, WorkerLoad, WorkerAppend, WorkerProject,
              PublishClosed, FinishJob, viewVars, busVars
<1>4. CASE \/ \E k \in JobNames : TakeJob(k) \/ RecoverStalled(k)
           \/ ExpireLock \/ Crash \/ Tick \/ UNCHANGED vars
  BY <1>4 DEF TakeJob, RecoverStalled, ExpireLock, Crash, Tick, vars,
              viewVars, busVars
<1> QED BY <1>1, <1>2, <1>3, <1>4 DEF Next

-----------------------------------------------------------------------------
(***************************************************************************)
(* The bidder's answer.                                                    *)
(***************************************************************************)

\* A bid that was delivered stays delivered.
LEMMA DeliveredStays ==
  ASSUME HandlersSound, HistoryKept, [Next]_vars, NEW b \in Bids, Delivered(b)
  PROVE  Delivered(b)'
<1>1. PICK i \in BidAt :
        /\ log[i].bid = b
        /\ b \in bidRows
        /\ \E m \in notified : m.bid = b
        /\ IsLate(Met(i), log[i].placedAt) =>
             i < Len(log) /\ log[i + 1].type = "TimerExtended"
  BY DEF Delivered
<1>2. i \in BidAt' /\ log'[i] = log[i] /\ replay'[i] = replay[i]
  BY BidsKeep
<1>3. b \in bidRows' /\ \E m \in notified' : m.bid = b
  BY <1>1, TellingGrows
<1>4. ASSUME IsLate(Met(i), log[i].placedAt)
      PROVE  i < Len(log') /\ log'[i + 1].type = "TimerExtended"
  <2>1. i \in Nat /\ i + 1 \in 1..Len(log) /\ Len(log) \in Nat
    BY <1>1, <1>4, StoreKeeps DEF BidAt, Stored, Position
  <2> QED BY <1>1, <1>4, <2>1, StoreKeeps
<1> QED BY <1>1, <1>2, <1>3, <1>4 DEF Delivered, Met

\* A handler that did not move has told nothing that is no longer so.
LEMMA ToldUnmoved ==
  ASSUME HandlersSound, HistoryKept, [Next]_vars, NEW b \in Bids,
         request'[b] = request[b], ToldInv(b), AnswerTrue(b)
  PROVE  ToldInv(b)' /\ AnswerTrue(b)'
<1>1. ~AppendBid(b)
  BY AppendMoves
<1>2. NotStored(b) => NotStored(b)'
  BY <1>1, NotStoredStays
<1>3. Delivered(b) => Delivered(b)'
  BY DeliveredStays
<1>4. bidRows \subseteq bidRows' /\ notified \subseteq notified'
  BY TellingGrows
<1> QED BY <1>2, <1>3, <1>4 DEF ToldInv, AnswerTrue

\* What the store holds of a handler that is past its INSERTs.
LEMMA StoredBid ==
  ASSUME HandlersSound, NEW b \in Bids, request[b].pc \in Decided \ {"append"}
  PROVE  LET q == request[b]
             i == q.base + 1
         IN /\ i \in BidAt /\ log[i] = q.todo[1]
            /\ log[i].bid = b /\ log[i].user = q.user
            /\ log[i].amount = q.amount
            /\ IsLate(Met(i), log[i].placedAt) =>
                 i < Len(log) /\ log[i + 1].type = "TimerExtended"
<1> DEFINE q == request[b]
           agg == replay[q.base + 1]
<1>1. /\ q.base \in Nat /\ Len(log) \in Nat
      /\ Len(q.todo) = 1 \/ Len(q.todo) = 2
      /\ q.todo[1] = BidPlaced(b, q.user, q.amount, q.placedAt)
      /\ Len(q.todo) = 2 => q.todo[2] \in ExtendedEvents
  BY DecidedTodo, StoreReadable DEF HandlersSound
<1>2. /\ StoredUpTo(q.base, q.todo, Len(q.todo))
      /\ q.todo = PlaceBid(agg, b, q.user, q.amount, q.placedAt)
  BY DEF HandlersSound, BidInv
<1>3. q.base + 1 <= Len(log) /\ log[q.base + 1] = q.todo[1]
  <2>1. q.base + Len(q.todo) <= Len(log) /\ 1 \in 1..Len(q.todo)
    BY <1>1, <1>2 DEF StoredUpTo
  <2> QED BY <1>1, <1>2, <2>1 DEF StoredUpTo
<1>4. /\ log[q.base + 1].type = "BidPlaced" /\ log[q.base + 1].bid = b
      /\ log[q.base + 1].user = q.user /\ log[q.base + 1].amount = q.amount
      /\ log[q.base + 1].placedAt = q.placedAt
  BY <1>1, <1>3 DEF BidPlaced
<1>5. q.base + 1 \in BidAt
  BY <1>1, <1>3, <1>4 DEF BidAt, Stored, Position
<1>6. ASSUME IsLate(agg, q.placedAt)
      PROVE  q.base + 1 < Len(log) /\ log[q.base + 1 + 1].type = "TimerExtended"
  <2>1. Len(q.todo) = 2
    BY <1>2, <1>6 DEF PlaceBid
  <2>2. q.base + 2 <= Len(log) /\ log[q.base + 2] = q.todo[2]
    BY <1>2, <2>1 DEF StoredUpTo
  <2>3. q.todo[2].type = "TimerExtended"
    BY <1>1, <2>1 DEF ExtendedEvents
  <2>4. q.base + 1 + 1 = q.base + 2
    BY <1>1
  <2> QED BY <1>1, <2>2, <2>3, <2>4
<1> QED BY <1>3, <1>4, <1>5, <1>6 DEF Met

\* What an answer or a decided bid makes of ToldInv and AnswerTrue, field by
\* field of the handler's next state.
LEMMA ToldBy ==
  ASSUME HandlersSound, NEW b \in Bids, NEW r, Become(b, r)
  PROVE  request'[b] = r
BY DEF HandlersSound, TypeOK, Become

\* A request that has not been decided on has told nothing.
LEMMA ToldArrive ==
  ASSUME HandlersSound, HistoryKept, [Next]_vars, NEW b \in Bids, ToldInv(b),
         Arrive(b) \/ Acquire(b) \/ Load(b)
  PROVE  ToldInv(b)' /\ AnswerTrue(b)'
<1> DEFINE q == request[b]
<1>1. /\ q \in Request /\ q.pc \in {"new", "acquire", "load"}
      /\ q.done = 0 /\ q.answer = "none" /\ NotStored(b)
  <2>1. q \in Request /\ q.pc \in {"new", "acquire", "load"}
    BY DEF HandlersSound, TypeOK, Arrive, Acquire, Load
  <2>2. q.done = 0
    BY <2>1 DEF HandlersSound, BidInv
  <2>3. q.answer = "none" /\ NotStored(b)
    BY <2>1 DEF ToldInv
  <2> QED BY <2>1, <2>2, <2>3
<1>2. NotStored(b)'
  <2>1. ~AppendBid(b)
    BY <1>1 DEF AppendBid
  <2> QED BY <1>1, <2>1, NotStoredStays
<1>3. ASSUME NEW r, Become(b, r), r.done = 0,
             \/ r.pc \in {"acquire", "load", "append"} /\ r.answer = "none"
             \/ r.pc \in {"release", "done"} /\ r.answer \in Refusals
      PROVE  ToldInv(b)' /\ AnswerTrue(b)'
  <2>1. request'[b] = r
    BY <1>3, ToldBy
  <2>2. r.answer # "ok" /\ r.pc \notin {"insertBid", "project", "publish",
                                        "remove", "add"}
    BY <1>3 DEF Refusals
  <2>3. r.pc \notin {"release", "done"} => r.answer = "none"
    BY <1>3
  <2> QED BY <1>2, <1>3, <2>1, <2>2, <2>3 DEF ToldInv, AnswerTrue
<1>4. CASE Arrive(b)
  <2>1. PICK u \in Users, a \in Amounts :
          Become(b, [q EXCEPT !.pc = "acquire", !.user = u, !.amount = a,
                              !.placedAt = now])
    BY <1>4 DEF Arrive
  <2> QED BY <1>1, <1>3, <2>1 DEF Request
<1>5. CASE Acquire(b)
  <2>1. PICK r \in {[q EXCEPT !.pc = "load"], Finished("AUCTION_NOT_ACTIVE")} :
          Become(b, r)
    BY <1>5 DEF Acquire, Goto
  <2>2. \/ r.pc = "load" /\ r.answer = "none" /\ r.done = 0
        \/ r.pc = "done" /\ r.answer = "AUCTION_NOT_ACTIVE" /\ r.done = 0
    BY <1>1, <2>1 DEF Request, Finished, NewRequest
  <2> QED BY <1>3, <2>1, <2>2 DEF Refusals
<1>6. CASE Load(b)
  <2> DEFINE refusal == Refusal(Current, q.user, q.amount)
             todo == PlaceBid(Current, b, q.user, q.amount, q.placedAt)
  <2>1. PICK r : /\ Become(b, r)
                 /\ \/ /\ refusal # "none"
                       /\ r = [q EXCEPT !.pc = "release", !.answer = refusal]
                    \/ r = [q EXCEPT !.pc = "append", !.base = Len(log),
                                     !.todo = todo]
    BY <1>6 DEF Load, Answer
  <2>2. refusal \in Refusals \cup {"none"}
    BY DEF Refusal, Refusals
  <2> HIDE DEF refusal, todo
  <2>3. \/ r.pc = "release" /\ r.answer \in Refusals /\ r.done = 0
        \/ r.pc = "append" /\ r.answer = "none" /\ r.done = 0
    BY <1>1, <2>1, <2>2 DEF Request
  <2> QED BY <1>3, <2>1, <2>3
<1> QED BY <1>4, <1>5, <1>6

\* A handler on its way through append, project and publish has told its
\* bidder nothing yet.
LEMMA ToldDecided ==
  ASSUME HandlersSound, HistoryKept, [Next]_vars, NEW b \in Bids, ToldInv(b),
         AppendBid(b) \/ ProjectBidRow(b) \/ InsertBidRow(b)
  PROVE  ToldInv(b)' /\ AnswerTrue(b)'
<1> DEFINE q == request[b]
<1>1. /\ q \in Request /\ q.answer = "none" /\ q.done \in Nat
      /\ q.pc \in {"append", "project", "insertBid"}
  BY DEF HandlersSound, TypeOK, Request, ToldInv, AppendBid, ProjectBidRow,
         InsertBidRow
<1>2. "none" \notin Refusals /\ "error" \notin Refusals
  BY DEF Refusals
<1>3. CASE AppendBid(b)
  <2>1. PICK r \in {[q EXCEPT !.pc = "release", !.answer = "error"],
                    [q EXCEPT !.pc = "project", !.done = 0],
                    [q EXCEPT !.done = q.done + 1]} : Become(b, r)
    BY <1>3 DEF AppendBid, AppendRejected, Answer
  <2>2. \/ r.pc = "release" /\ r.answer = "error"
        \/ r.pc = "project" /\ r.answer = "none" /\ r.done = 0
        \/ r.pc = "append" /\ r.answer = "none" /\ r.done # 0
    <3>1. q.pc = "append" /\ q.done + 1 # 0
      BY <1>1, <1>3 DEF AppendBid
    <3>2. CASE r = [q EXCEPT !.pc = "release", !.answer = "error"]
      BY <1>1, <3>2 DEF Request
    <3>3. CASE r = [q EXCEPT !.pc = "project", !.done = 0]
      BY <1>1, <3>3 DEF Request
    <3>4. CASE r = [q EXCEPT !.done = q.done + 1]
      BY <1>1, <3>1, <3>4 DEF Request
    <3> QED BY <2>1, <3>2, <3>3, <3>4
  <2>3. request'[b] = r
    BY <2>1, ToldBy
  <2> QED BY <1>2, <2>2, <2>3 DEF ToldInv, AnswerTrue
<1>4. CASE ProjectBidRow(b)
  <2> DEFINE i == q.done + 1
             r == [q EXCEPT !.pc = IF q.todo[i].type = "BidPlaced"
                                   THEN "insertBid" ELSE "publish",
                            !.done = i]
  <2>1. q.pc = "project" /\ request'[b] = r
    BY <1>4, ToldBy DEF ProjectBidRow
  <2>2. \/ i = 1 /\ q.todo[i].type = "BidPlaced"
        \/ i = 2 /\ q.todo[i].type # "BidPlaced" /\ b \in bidRows
    <3>1. \/ q.done = 0
          \/ q.done = 1 /\ Len(q.todo) = 2
      BY <2>1, AppendPlace
    <3>2. /\ q.todo[1].type = "BidPlaced"
          /\ Len(q.todo) = 2 => q.todo[2].type # "BidPlaced"
      <4>1. /\ q.todo[1] = BidPlaced(b, q.user, q.amount, q.placedAt)
            /\ Len(q.todo) = 2 => q.todo[2] \in ExtendedEvents
        BY <2>1, DecidedTodo DEF Decided
      <4> QED BY <4>1 DEF BidPlaced, ExtendedEvents
    <3>3. q.done = 0 \/ b \in bidRows
      BY <2>1 DEF ToldInv
    <3> QED BY <3>1, <3>2, <3>3
  <2>3. \/ r.pc = "insertBid" /\ r.done = 1 /\ r.answer = "none"
        \/ r.pc = "publish" /\ b \in bidRows /\ r.answer = "none"
    BY <1>1, <2>2 DEF Request
  <2>4. bidRows' = bidRows
    BY <1>4 DEF ProjectBidRow
  <2> QED BY <1>2, <2>1, <2>3, <2>4 DEF ToldInv, AnswerTrue
<1>5. CASE InsertBidRow(b)
  <2> DEFINE r == [q EXCEPT !.pc = IF q.done < Len(q.todo) THEN "project"
                                   ELSE "publish"]
  <2>1. request'[b] = r /\ b \in bidRows'
    BY <1>5, ToldBy DEF InsertBidRow, Goto
  <2>2. r.pc \in {"project", "publish"} /\ r.answer = "none"
    BY <1>1 DEF Request
  <2> QED BY <1>2, <2>1, <2>2 DEF ToldInv, AnswerTrue
<1> QED BY <1>3, <1>4, <1>5

\* "ok" is told behind the message and, for a late bid, behind the new job.
LEMMA ToldPublish ==
  ASSUME HandlersSound, HistoryKept, [Next]_vars, NEW b \in Bids, ToldInv(b),
         PublishBid(b) \/ RemoveClose(b) \/ AddClose(b)
  PROVE  ToldInv(b)' /\ AnswerTrue(b)'
<1> DEFINE q == request[b]
<1>1. /\ q \in Request /\ q.answer = "none" /\ b \in bidRows
      /\ q.pc \in {"publish", "remove", "add"}
      /\ q.pc \in Decided \ {"append"}
  BY DEF HandlersSound, TypeOK, ToldInv, PublishBid, RemoveClose, AddClose,
         Decided
<1>2. UNCHANGED storeVars /\ bidRows' = bidRows /\ notified \subseteq notified'
  BY TellingGrows DEF PublishBid, RemoveClose, AddClose, viewVars
<1>3. (\E m \in notified' : m.bid = b) => Delivered(b)'
  BY <1>1, <1>2, StoredBid DEF Delivered, storeVars, BidAt, Stored, Position, Met
<1>4. ASSUME NEW r, Become(b, r),
             \/ r.pc = "release" /\ r.answer = "error"
             \/ /\ r.pc \in {"remove", "add"} /\ r.answer = "none"
                /\ \E m \in notified' : m.bid = b
             \/ /\ r.pc = "release" /\ r.answer = "ok"
                /\ \E m \in notified' : m.bid = b
      PROVE  ToldInv(b)' /\ AnswerTrue(b)'
  <2>1. request'[b] = r /\ b \in bidRows'
    BY <1>1, <1>2, <1>4, ToldBy
  <2>2. r.answer \notin Refusals
    BY <1>4 DEF Refusals
  <2> QED BY <1>3, <1>4, <2>1, <2>2 DEF ToldInv, AnswerTrue
<1>5. CASE PublishBid(b)
  <2>1. BidMessage(b).bid = b
    BY DEF BidMessage
  <2>2. PICK r : /\ Become(b, r)
                 /\ \/ r = [q EXCEPT !.pc = "release", !.answer = "error"]
                    \/ /\ notified' = notified \cup {BidMessage(b)}
                       /\ r \in {[q EXCEPT !.pc = "remove"],
                                 [q EXCEPT !.pc = "release", !.answer = "ok"]}
    BY <1>5 DEF PublishBid, Goto, Answer
  <2>3. \/ r.pc = "release" /\ r.answer = "error"
        \/ /\ r.pc = "remove" /\ r.answer = "none"
           /\ notified' = notified \cup {BidMessage(b)}
        \/ /\ r.pc = "release" /\ r.answer = "ok"
           /\ notified' = notified \cup {BidMessage(b)}
    BY <1>1, <2>2 DEF Request
  <2> QED BY <1>4, <2>1, <2>2, <2>3
<1>6. CASE RemoveClose(b) \/ AddClose(b)
  <2>1. \E m \in notified' : m.bid = b
    BY <1>2, <1>6 DEF ToldInv, RemoveClose, AddClose
  <2>2. PICK r \in {[q EXCEPT !.pc = "add"],
                    [q EXCEPT !.pc = "release", !.answer = "error"],
                    [q EXCEPT !.pc = "release", !.answer = "ok"]} : Become(b, r)
    BY <1>6 DEF RemoveClose, AddClose, Goto, Answer
  <2>3. \/ r.pc = "release" /\ r.answer = "error"
        \/ r.pc = "add" /\ r.answer = "none"
        \/ r.pc = "release" /\ r.answer = "ok"
    BY <1>1, <2>2 DEF Request
  <2> QED BY <1>4, <2>1, <2>2, <2>3
<1> QED BY <1>5, <1>6

\* The finally block and the crash tell nothing new.
LEMMA ToldLeave ==
  ASSUME HandlersSound, HistoryKept, [Next]_vars, NEW b \in Bids, ToldInv(b),
         AnswerTrue(b),
         \/ Release(b)
         \/ request'[b] = Finished("lost")
  PROVE  ToldInv(b)' /\ AnswerTrue(b)'
<1>1. CASE Release(b)
  <2>1. request'[b] = Finished(request[b].answer) /\ request[b].pc = "release"
    BY <1>1, ToldBy DEF Release
  <2>2. /\ request'[b].pc = "done" /\ request'[b].answer = request[b].answer
    BY <2>1 DEF Finished, NewRequest
  <2>3. ~AppendBid(b)
    BY <2>1 DEF AppendBid
  <2>4. /\ NotStored(b) => NotStored(b)'
        /\ Delivered(b) => Delivered(b)'
    BY <2>3, NotStoredStays, DeliveredStays
  <2> QED BY <2>2, <2>4 DEF ToldInv, AnswerTrue
<1>2. CASE request'[b] = Finished("lost")
  <2>1. request'[b].pc = "done" /\ request'[b].answer = "lost"
    BY <1>2 DEF Finished, NewRequest
  <2> QED BY <2>1 DEF ToldInv, AnswerTrue, Refusals
<1> QED BY <1>1, <1>2

\* Every step leaves every bidder truthfully answered.
LEMMA ToldStep ==
  ASSUME HandlersSound, HistoryKept, [Next]_vars, NEW b \in Bids, ToldInv(b),
         AnswerTrue(b)
  PROVE  ToldInv(b)' /\ AnswerTrue(b)'
<1>1. ASSUME NEW c \in Bids, Arrive(c) \/ BidStep(c)
      PROVE  ToldInv(b)' /\ AnswerTrue(b)'
  <2>1. CASE c = b
    BY <1>1, <2>1, ToldArrive, ToldDecided, ToldPublish, ToldLeave DEF BidStep
  <2>2. CASE c # b
    <3>1. \E r : Become(c, r)
      BY <1>1 DEF BidStep, Arrive, Acquire, Load, AppendBid, AppendRejected,
                  ProjectBidRow, InsertBidRow, PublishBid, RemoveClose,
                  AddClose, Release, Goto, Answer
    <3>2. request'[b] = request[b]
      BY <2>2, <3>1 DEF Become, HandlersSound, TypeOK
    <3> QED BY <3>2, ToldUnmoved
  <2> QED BY <2>1, <2>2
<1>2. CASE Crash
  <2>1. request'[b] \in {request[b], Finished("lost")}
    BY <1>2 DEF Crash
  <2> QED BY <2>1, ToldUnmoved, ToldLeave
<1>3. CASE ScheduleLoad \/ AdminStep
  <2>1. request' = request
    BY <1>3 DEF AdminStep, ScheduleLoad, ScheduleAppend, ScheduleProject,
                ScheduleStart, ScheduleClose
  <2> QED BY <2>1, ToldUnmoved
<1>4. CASE WorkerStep
  <2>1. request' = request
    BY <1>4 DEF WorkerStep, WorkerLoad, WorkerAppend, WorkerProject,
                PublishClosed, FinishJob
  <2> QED BY <2>1, ToldUnmoved
<1>5. CASE \/ \E k \in JobNames : TakeJob(k) \/ RecoverStalled(k)
           \/ ExpireLock \/ Tick \/ UNCHANGED vars
  <2>1. request' = request
    BY <1>5 DEF TakeJob, RecoverStalled, ExpireLock, Tick, vars
  <2> QED BY <2>1, ToldUnmoved
<1> QED BY <1>1, <1>2, <1>3, <1>4, <1>5 DEF Next

-----------------------------------------------------------------------------
(***************************************************************************)
(* The message to the bidder that was outbid.                              *)
(***************************************************************************)

\* The message names the leader of the prefix the bid was decided on, which
\* is still the prefix the bid stands behind.
LEMMA NoticeSound ==
  ASSUME HandlersSound, HistoryKept, NEW b \in Bids,
         request[b].pc \in Decided \ {"append"}
  PROVE  LET m == BidMessage(b) IN
           \E i \in BidAt :
             /\ log[i].bid = m.bid /\ log[i].user = m.user
             /\ \/ BidsOf(i) = {} /\ m.previous = None
                \/ \E j \in BidsOf(i) : /\ \A k \in BidsOf(i) : k <= j
                                        /\ log[j].user = m.previous
<1> DEFINE q == request[b]
           m == BidMessage(b)
<1> SUFFICES ASSUME NEW n \in Nat, n = q.base
             PROVE  /\ n + 1 \in BidAt
                    /\ log[n + 1].bid = m.bid /\ log[n + 1].user = m.user
                    /\ \/ BidsOf(n + 1) = {} /\ m.previous = None
                       \/ \E j \in BidsOf(n + 1) :
                            /\ \A k \in BidsOf(n + 1) : k <= j
                            /\ log[j].user = m.previous
  BY DecidedTodo
<1>1. n + 1 \in BidAt /\ log[n + 1].bid = b /\ log[n + 1].user = q.user
  BY StoredBid
<1>2. m.bid = b /\ m.user = q.user /\ m.previous = replay[n + 1].highestUser
  BY DEF BidMessage
<1>3. n \in 0..Len(log) /\ Len(log) \in Nat
  BY DecidedTodo, StoreReadable DEF HandlersSound
<1>4. \A k : k \in BidsOf(n + 1) <=> k \in 1..n /\ log[k].type = "BidPlaced"
  BY <1>3 DEF BidsOf, BidAt, Stored, Position
<1>5. LeaderAt(n)
  BY <1>3 DEF HistoryKept, LeaderKept
<1>6. CASE NoBidsUpTo(n) /\ replay[n + 1].highestUser = None
  BY <1>1, <1>2, <1>4, <1>6 DEF NoBidsUpTo
<1>7. ASSUME NEW j \in 1..n, LeadsUpTo(j, n),
             replay[n + 1].highestUser = log[j].user
      PROVE  \E h \in BidsOf(n + 1) : /\ \A k \in BidsOf(n + 1) : k <= h
                                      /\ log[h].user = m.previous
  BY <1>2, <1>4, <1>7 DEF LeadsUpTo
<1> QED BY <1>1, <1>2, <1>5, <1>6, <1>7 DEF LeaderAt

\* Messages are added by PublishBid, and what they say stays so.
LEMMA NoticeStep ==
  ASSUME HandlersSound, HistoryKept, [Next]_vars, OutbidNoticeTrue
  PROVE  OutbidNoticeTrue'
<1> DEFINE True(m) ==
      \E i \in BidAt :
        /\ log[i].bid = m.bid /\ log[i].user = m.user
        /\ \/ BidsOf(i) = {} /\ m.previous = None
           \/ \E j \in BidsOf(i) : /\ \A k \in BidsOf(i) : k <= j
                                   /\ log[j].user = m.previous
<1>1. ASSUME NEW m, True(m)
      PROVE  \E i \in BidAt' :
               /\ log'[i].bid = m.bid /\ log'[i].user = m.user
               /\ \/ BidsOf(i)' = {} /\ m.previous = None
                  \/ \E j \in BidsOf(i)' : /\ \A k \in BidsOf(i)' : k <= j
                                           /\ log'[j].user = m.previous
  <2>1. PICK i \in BidAt :
          /\ log[i].bid = m.bid /\ log[i].user = m.user
          /\ \/ BidsOf(i) = {} /\ m.previous = None
             \/ \E j \in BidsOf(i) : /\ \A k \in BidsOf(i) : k <= j
                                     /\ log[j].user = m.previous
    BY <1>1
  <2>2. i \in BidAt' /\ log'[i] = log[i] /\ BidsOf(i)' = BidsOf(i)
    BY BidsKeep
  <2>3. \A j \in BidsOf(i) : log'[j] = log[j]
    BY BidsKeep DEF BidsOf
  <2> QED BY <2>1, <2>2, <2>3
<1>2. ASSUME NEW m \in notified' PROVE True(m)
  <2>1. CASE m \in notified
    BY <2>1 DEF OutbidNoticeTrue
  <2>2. CASE m \notin notified
    <3>1. PICK b \in Bids : PublishBid(b)
      <4>1. ASSUME NEW b \in Bids, Arrive(b) \/ BidStep(b)
            PROVE  PublishBid(b) \/ notified' = notified
        BY <4>1 DEF BidStep, Arrive, Acquire, Load, AppendBid, ProjectBidRow,
                    InsertBidRow, RemoveClose, AddClose, Release, busVars
      <4>2. ASSUME ScheduleLoad \/ AdminStep PROVE notified' = notified
        BY <4>2 DEF AdminStep, ScheduleLoad, ScheduleAppend, ScheduleProject,
                    ScheduleStart, ScheduleClose, busVars
      <4>3. ASSUME WorkerStep PROVE notified' = notified
        BY <4>3 DEF WorkerStep, WorkerLoad, WorkerAppend, WorkerProject,
                    PublishClosed, FinishJob, busVars
      <4>4. ASSUME \/ \E k \in JobNames : TakeJob(k) \/ RecoverStalled(k)
                   \/ ExpireLock \/ Crash \/ Tick \/ UNCHANGED vars
            PROVE  notified' = notified
        BY <4>4 DEF TakeJob, RecoverStalled, ExpireLock, Crash, Tick, vars,
                    busVars
      <4> QED BY <2>2, <4>1, <4>2, <4>3, <4>4 DEF Next
    <3>2. m = BidMessage(b) /\ request[b].pc \in Decided \ {"append"}
      BY <2>2, <3>1 DEF PublishBid, Decided
    <3> QED BY <3>2, NoticeSound
  <2> QED BY <2>1, <2>2
<1> HIDE DEF True
<1> QED BY <1>1, <1>2 DEF OutbidNoticeTrue

-----------------------------------------------------------------------------
(***************************************************************************)
(* The announcement of a verdict.                                          *)
(***************************************************************************)

\* What the admin's handler appended stays where it appended it.
LEMMA AdminToldStep ==
  ASSUME HandlersSound, HistoryKept, [Next]_vars, AdminToldInv
  PROVE  AdminToldInv'
<1>1. /\ Len(log) \in Nat /\ Len(log') \in Nat /\ Len(log) <= Len(log')
      /\ \A i \in 1..Len(log) : log'[i] = log[i]
  BY StoreKeeps
<1>2. admin \in AdminState /\ admin.base \in Nat
  BY DEF HandlersSound, TypeOK, AdminState
<1>3. ASSUME NEW base \in Nat, NEW todo, StoredUpTo(base, todo, 1)
      PROVE  StoredUpTo(base, todo, 1)'
  <2>1. /\ base + 1 <= Len(log) /\ base + 1 \in 1..Len(log)
        /\ \A i \in 1..1 : log[base + i] = todo[i] /\ i = 1
    BY <1>1, <1>3 DEF StoredUpTo
  <2> QED BY <1>1, <2>1 DEF StoredUpTo
<1>4. CASE admin'.pc \in {"idle", "append"}
  BY <1>4 DEF AdminToldInv
<1>5. CASE /\ admin.pc \notin {"idle", "append"}
           /\ admin'.base = admin.base /\ admin'.todo = admin.todo
  BY <1>2, <1>3, <1>5 DEF AdminToldInv
<1>6. CASE ScheduleAppend /\ ~Conflict(admin.base, 1)
  <2>1. /\ Insert(admin.todo[1]) /\ admin.pc # "idle"
        /\ admin'.base = admin.base /\ admin'.todo = admin.todo
    BY <1>2, <1>6 DEF ScheduleAppend, AdminState
  <2>2. Len(log) = admin.base
    BY <1>1, <1>2, <1>6 DEF Conflict
  <2>3. /\ Len(log') = admin.base + 1
        /\ log'[admin.base + 1] = admin.todo[1]
    BY <2>1, <2>2, ScheduleTodo, StoreGrows
  <2> QED BY <1>2, <2>1, <2>3 DEF AdminToldInv, StoredUpTo
<1>7. ASSUME NEW b \in Bids, Arrive(b) \/ BidStep(b)
      PROVE  admin' = admin
  BY <1>7 DEF BidStep, Arrive, Acquire, Load, AppendBid, ProjectBidRow,
              InsertBidRow, PublishBid, RemoveClose, AddClose, Release
<1>8. ASSUME WorkerStep PROVE admin' = admin
  BY <1>8 DEF WorkerStep, WorkerLoad, WorkerAppend, WorkerProject,
              PublishClosed, FinishJob
<1>9. ASSUME \/ \E k \in JobNames : TakeJob(k) \/ RecoverStalled(k)
             \/ ExpireLock \/ Tick \/ UNCHANGED vars
      PROVE  admin' = admin
  BY <1>9 DEF TakeJob, RecoverStalled, ExpireLock, Tick, vars
<1>10. CASE admin' = admin
  BY <1>4, <1>5, <1>10
<1>11. CASE \/ ScheduleLoad \/ ScheduleClose \/ Crash
            \/ ScheduleAppend /\ Conflict(admin.base, 1)
  <2>1. admin'.pc \in {"idle", "append"}
    BY <1>11 DEF ScheduleLoad, ScheduleClose, Crash, ScheduleAppend, AdminIdle
  <2> QED BY <1>4, <2>1
<1>12. CASE ScheduleProject \/ ScheduleStart
  BY <1>2, <1>5, <1>12 DEF ScheduleProject, ScheduleStart, AdminState
<1>13. CASE AdminStep
  BY <1>6, <1>11, <1>12, <1>13 DEF AdminStep
<1> QED BY <1>7, <1>8, <1>9, <1>10, <1>11, <1>13 DEF Next

\* The verdict the worker is about to announce.
LEMMA VerdictInHand ==
  ASSUME HandlersSound, worker.pc = "publish"
  PROVE  /\ worker.base + 1 \in VerdictAt
         /\ log[worker.base + 1] = worker.todo[1]
         /\ worker.todo[1] \in ClosedEvents
<1>1. /\ worker.base \in Nat /\ worker.job = "close"
      /\ worker.todo[1] \in ClosedEvents /\ Len(log) \in Nat
  BY WorkerTodo, StoreReadable DEF HandlersSound, WorkerInv
<1>2. StoredUpTo(worker.base, worker.todo, 1)
  BY DEF HandlersSound, WorkerInv
<1>3. worker.base + 1 <= Len(log) /\ log[worker.base + 1] = worker.todo[1]
  BY <1>1, <1>2 DEF StoredUpTo
<1>4. worker.todo[1].type = "AuctionClosed"
  BY <1>1 DEF ClosedEvents
<1> QED BY <1>1, <1>3, <1>4 DEF VerdictAt, Stored, Position

\* A verdict is announced by the handler that stored it, and once.
LEMMA AnnounceStep ==
  ASSUME HandlersSound, HistoryKept, [Next]_vars, WorkerToldInv, AnnouncedOnce
  PROVE  WorkerToldInv' /\ AnnouncedOnce'
<1>1. /\ announced \in Seq([at : Nat, verdict : ClosedEvents])
      /\ Len(announced) \in Nat /\ worker \in WorkerState /\ worker.base \in Nat
      /\ Len(log) \in Nat
  BY StoreReadable DEF HandlersSound, TypeOK, WorkerState
<1>2. \A i \in VerdictAt : i \in VerdictAt' /\ log'[i] = log[i]
  BY BidsKeep
<1>3. announced' = announced => AnnouncedOnce'
  BY <1>2 DEF AnnouncedOnce
<1>4. CASE worker' = worker /\ announced' = announced
  BY <1>3, <1>4 DEF WorkerToldInv
<1>5. CASE WorkerAppend
  <2>1. announced' = announced
    BY <1>5 DEF WorkerAppend, busVars
  <2>2. WorkerToldInv'
    <3>1. CASE Conflict(worker.base, 1)
      BY <1>1, <1>5, <3>1
      DEF WorkerAppend, CommandRejected, WorkerGoto, WorkerState, WorkerToldInv
    <3>2. CASE ~Conflict(worker.base, 1)
      <4>1. Len(log) = worker.base /\ worker'.base = worker.base
        BY <1>1, <1>5, <3>2
        DEF WorkerAppend, Conflict, WorkerGoto, WorkerState
      <4>2. ASSUME NEW m \in 1..Len(announced)
            PROVE  announced[m].at # worker.base + 1
        <5>1. announced[m].at \in 1..Len(log)
          BY <4>2 DEF AnnouncedOnce, VerdictAt, Stored, Position
        <5> QED BY <1>1, <4>1, <5>1
      <4> QED BY <2>1, <4>1, <4>2 DEF WorkerToldInv
    <3> QED BY <1>5, <3>1, <3>2
  <2> QED BY <1>3, <2>1, <2>2
<1>6. CASE WorkerProject
  <2>1. /\ announced' = announced /\ worker.pc = "project"
        /\ worker'.base = worker.base
    BY <1>1, <1>6 DEF WorkerProject, WorkerGoto, WorkerState, busVars
  <2> QED BY <1>3, <2>1 DEF WorkerToldInv
<1>7. CASE PublishClosed
  <2>1. /\ worker.pc = "publish"
        /\ worker'.pc \in {"complete", "fail"}
        /\ \/ announced' = announced
           \/ announced' = Append(announced, ClosedMessage)
    BY <1>1, <1>7 DEF PublishClosed, WorkerGoto, WorkerState
  <2>2. WorkerToldInv'
    BY <2>1 DEF WorkerToldInv
  <2>3. ASSUME announced' = Append(announced, ClosedMessage)
        PROVE  AnnouncedOnce'
    <3> SUFFICES ASSUME NEW n \in Nat, n = Len(announced)
                 PROVE  AnnouncedOnce'
      BY <1>1
    <3>1. /\ worker.base + 1 \in VerdictAt
          /\ log[worker.base + 1] = worker.todo[1]
          /\ worker.todo[1] \in ClosedEvents
      BY <2>1, VerdictInHand
    <3>2. /\ ClosedMessage.at = worker.base + 1
          /\ ClosedMessage.verdict = worker.todo[1]
          /\ ClosedMessage \in [at : Nat, verdict : ClosedEvents]
      BY <1>1, <3>1 DEF ClosedMessage
    <3>3. /\ Len(announced') = n + 1
          /\ announced'[n + 1] = ClosedMessage
          /\ \A m \in 1..n : announced'[m] = announced[m]
      BY <1>1, <2>3, <3>2
    <3>4. \A m \in 1..(n + 1) : m \in 1..n \/ m = n + 1
      OBVIOUS
    <3>5. \A m \in 1..n : announced[m].at # worker.base + 1
      BY <2>1 DEF WorkerToldInv
    <3>6. ASSUME NEW m \in 1..(n + 1)
          PROVE  /\ announced'[m].at \in VerdictAt'
                 /\ announced'[m].verdict = log'[announced'[m].at]
      BY <1>2, <3>1, <3>2, <3>3, <3>4 DEF AnnouncedOnce
    <3>7. ASSUME NEW m \in 1..(n + 1), NEW k \in 1..(n + 1),
                 announced'[k].at = announced'[m].at
          PROVE  k = m
      <4>1. CASE m \in 1..n /\ k \in 1..n
        BY <3>3, <3>7, <4>1 DEF AnnouncedOnce
      <4>2. CASE m = n + 1 /\ k \in 1..n
        BY <3>2, <3>3, <3>5, <3>7, <4>2
      <4>3. CASE k = n + 1 /\ m \in 1..n
        BY <3>2, <3>3, <3>5, <3>7, <4>3
      <4> QED BY <3>4, <4>1, <4>2, <4>3
    <3> QED BY <3>3, <3>6, <3>7 DEF AnnouncedOnce
  <2> QED BY <1>3, <2>1, <2>2, <2>3
<1>8. CASE \/ WorkerLoad \/ FinishJob \/ Crash
           \/ \E k \in JobNames : TakeJob(k)
  <2>1. announced' = announced /\ worker'.pc \notin {"project", "publish"}
    <3>1. CASE WorkerLoad
      <4>1. worker'.pc \in {"complete", "append"} /\ announced' = announced
        BY <1>1, <3>1 DEF WorkerLoad, WorkerGoto, WorkerState, busVars
      <4> QED BY <4>1
    <3>2. CASE FinishJob \/ Crash
      BY <3>2 DEF FinishJob, Crash, WorkerIdle, busVars
    <3>3. ASSUME NEW k \in JobNames, TakeJob(k)
          PROVE  announced' = announced /\ worker'.pc = "load"
      BY <3>3 DEF TakeJob, WorkerIdle, busVars
    <3> QED BY <1>8, <3>1, <3>2, <3>3
  <2> QED BY <1>3, <2>1 DEF WorkerToldInv
<1>9. ASSUME NEW b \in Bids, Arrive(b) \/ BidStep(b)
      PROVE  worker' = worker /\ announced' = announced
  BY <1>9 DEF BidStep, Arrive, Acquire, Load, AppendBid, ProjectBidRow,
              InsertBidRow, PublishBid, RemoveClose, AddClose, Release, busVars
<1>10. ASSUME ScheduleLoad \/ AdminStep
       PROVE  worker' = worker /\ announced' = announced
  BY <1>10 DEF AdminStep, ScheduleLoad, ScheduleAppend, ScheduleProject,
               ScheduleStart, ScheduleClose, busVars
<1>11. ASSUME \/ \E k \in JobNames : RecoverStalled(k)
              \/ ExpireLock \/ Tick \/ UNCHANGED vars
       PROVE  worker' = worker /\ announced' = announced
  BY <1>11 DEF RecoverStalled, ExpireLock, Tick, vars, busVars
<1> QED BY <1>4, <1>5, <1>6, <1>7, <1>8, <1>9, <1>10, <1>11
        DEF Next, WorkerStep

-----------------------------------------------------------------------------
(***************************************************************************)
(* The read model.                                                         *)
(***************************************************************************)

\* A row of the table bids is inserted behind its stored bid.
LEMMA BidRowsStep ==
  ASSUME HandlersSound, HistoryKept, [Next]_vars, BidRowsSound
  PROVE  BidRowsSound'
<1>1. ASSUME NEW b \in bidRows' PROVE \E i \in BidAt : log[i].bid = b
  <2>1. CASE b \in bidRows
    BY <2>1 DEF BidRowsSound
  <2>2. CASE b \notin bidRows
    <3>1. InsertBidRow(b) /\ b \in Bids
      <4>1. ASSUME NEW c \in Bids, Arrive(c) \/ BidStep(c)
            PROVE  InsertBidRow(b) /\ b \in Bids
        BY <2>2, <4>1 DEF BidStep, Arrive, Acquire, Load, AppendBid, ProjectBidRow,
                    InsertBidRow, PublishBid, RemoveClose, AddClose, Release,
                    viewVars
      <4>2. ASSUME ScheduleLoad \/ AdminStep PROVE bidRows' = bidRows
        BY <4>2 DEF AdminStep, ScheduleLoad, ScheduleAppend, ScheduleProject,
                    ScheduleStart, ScheduleClose, viewVars
      <4>3. ASSUME WorkerStep PROVE bidRows' = bidRows
        BY <4>3 DEF WorkerStep, WorkerLoad, WorkerAppend, WorkerProject,
                    PublishClosed, FinishJob, viewVars
      <4>4. ASSUME \/ \E k \in JobNames : TakeJob(k) \/ RecoverStalled(k)
                   \/ ExpireLock \/ Crash \/ Tick \/ UNCHANGED vars
            PROVE  bidRows' = bidRows
        BY <4>4 DEF TakeJob, RecoverStalled, ExpireLock, Crash, Tick, vars,
                    viewVars
      <4> QED BY <2>2, <4>1, <4>2, <4>3, <4>4 DEF Next
    <3>2. request[b].pc \in Decided \ {"append"}
      BY <3>1 DEF InsertBidRow, Decided
    <3> QED BY <3>1, <3>2, StoredBid
  <2> QED BY <2>1, <2>2
<1> QED BY <1>1, BidsKeep DEF BidRowsSound

\* A row that is not updated shows what it showed, and that is still stored.
LEMMA RowStands ==
  ASSUME HandlersSound, HistoryKept, [Next]_vars, RowSound, row' = row
  PROVE  RowSound'
<1>1. row.highest # 0 => \E i \in BidAt' : log'[i].amount = row.highest
  BY BidsKeep DEF RowSound
<1>2. row.winner # None => \E i \in VerdictAt' : log'[i].winner = row.winner
  BY BidsKeep DEF RowSound
<1>3. /\ Len(log) \in Nat /\ Len(log') \in Nat /\ Len(log) <= Len(log')
      /\ \A i \in 1..(Len(log) + 1) : replay'[i] = replay[i]
      /\ Len(replay) = Len(log) + 1 /\ Len(replay') = Len(log') + 1
  BY StoreKeeps
<1>4. ASSUME NEW i \in 1..Len(replay)
      PROVE  i \in 1..Len(replay') /\ replay'[i] = replay[i]
  BY <1>3
<1>5. row.status # "ABSENT" =>
        \E i \in 1..Len(replay') : replay'[i].status = row.status
  BY <1>4 DEF RowSound
<1> QED BY <1>1, <1>2, <1>5 DEF RowSound

\* A row and an aggregate take the same status from the same event, where
\* the row takes one.
LEMMA ProjectedStatus ==
  ASSUME NEW r \in Row, NEW agg \in Aggregate, NEW e \in Event
  PROVE  ProjectRow(r, e).status \in {r.status, ApplyEvent(agg, e).status}
<1>1. CASE e.type = "AuctionScheduled"
  <2>1. ProjectRow(r, e).status = "SCHEDULED"
    BY <1>1 DEF ProjectRow, UpsertRow, Row
  <2>2. ApplyEvent(agg, e).status = "SCHEDULED"
    BY <1>1 DEF ApplyEvent, Aggregate
  <2> QED BY <2>1, <2>2
<1>2. CASE r.status = "ABSENT" /\ e.type # "AuctionScheduled"
  BY <1>2 DEF ProjectRow
<1>3. CASE r.status # "ABSENT" /\ e.type = "AuctionStarted"
  <2>1. ProjectRow(r, e).status = "LIVE"
    BY <1>3 DEF ProjectRow, UpdateRow, Row
  <2>2. ApplyEvent(agg, e).status = "LIVE"
    BY <1>3 DEF ApplyEvent, Aggregate
  <2> QED BY <2>1, <2>2
<1>4. CASE r.status # "ABSENT" /\ e.type = "TimerExtended"
  <2>1. ProjectRow(r, e).status = "CLOSING"
    BY <1>4 DEF ProjectRow, UpdateRow, Row
  <2>2. ApplyEvent(agg, e).status = "CLOSING"
    BY <1>4 DEF ApplyEvent, Aggregate
  <2> QED BY <2>1, <2>2
<1>5. CASE r.status # "ABSENT" /\ e.type = "BidPlaced"
  BY <1>5 DEF ProjectRow, UpdateRow, Row
<1>6. CASE r.status # "ABSENT" /\ e.type = "AuctionClosed"
  <2> DEFINE verdict == IF e.reserveMet THEN "SOLD" ELSE "UNSOLD"
  <2>1. ProjectRow(r, e).status = verdict
    BY <1>6 DEF ProjectRow, UpdateRow, Row
  <2>2. ApplyEvent(agg, e).status = verdict
    BY <1>6 DEF ApplyEvent, Aggregate
  <2> QED BY <2>1, <2>2
<1> QED BY <1>1, <1>2, <1>3, <1>4, <1>5, <1>6, EventTypes

\* Projecting a stored event on the row shows what that event did.
LEMMA RowProjected ==
  ASSUME HandlersSound, RowSound, UNCHANGED storeVars,
         NEW i \in 1..Len(log), row' = ProjectRow(row, log[i])
  PROVE  RowSound'
<1> DEFINE e == log[i]
<1>1. /\ row \in Row /\ e \in Event /\ log' = log /\ replay' = replay
      /\ Len(log) \in Nat /\ Len(replay) = Len(log) + 1
      /\ replay[i] \in Aggregate /\ replay[i + 1] = ApplyEvent(replay[i], e)
      /\ i \in 1..Len(replay) /\ i + 1 \in 1..Len(replay)
  <2>1. TypeOK /\ ReplayInv /\ Len(log) \in Nat
    BY StoreReadable DEF HandlersSound
  <2>2. Len(replay) = Len(log) + 1 /\ replay[i + 1] = ApplyEvent(replay[i], e)
    BY <2>1 DEF ReplayInv
  <2>3. replay[i] \in Aggregate
    BY <2>1, <2>2 DEF TypeOK
  <2> QED BY <2>1, <2>2, <2>3 DEF TypeOK, storeVars
<1>2. /\ i \in BidAt <=> e.type = "BidPlaced"
      /\ i \in VerdictAt <=> e.type = "AuctionClosed"
  BY DEF BidAt, VerdictAt, Stored, Position
<1>3. /\ BidAt' = BidAt /\ VerdictAt' = VerdictAt
      /\ Len(replay') = Len(replay)
  BY <1>1 DEF BidAt, VerdictAt, Stored, Position
<1> HIDE DEF e
<1>4. row'.highest \in {row.highest} \cup
                         (IF e.type = "BidPlaced" THEN {e.amount} ELSE {})
  BY <1>1, EventTypes DEF ProjectRow, UpsertRow, UpdateRow, Row, e
<1>5. row'.winner \in {row.winner} \cup
                        (IF e.type = "AuctionClosed" THEN {e.winner} ELSE {})
  BY <1>1, EventTypes DEF ProjectRow, UpsertRow, UpdateRow, Row, e
<1>6. row'.status \in {row.status, replay[i + 1].status}
  BY <1>1, ProjectedStatus DEF e
<1>7. row'.highest # 0 => \E k \in BidAt : log[k].amount = row'.highest
  BY <1>2, <1>4 DEF RowSound, e
<1>8. row'.winner # None => \E k \in VerdictAt : log[k].winner = row'.winner
  BY <1>2, <1>5 DEF RowSound, e
<1>9. row'.status # "ABSENT" =>
        \E k \in 1..Len(replay) : replay[k].status = row'.status
  BY <1>1, <1>6 DEF RowSound
<1> QED BY <1>1, <1>3, <1>7, <1>8, <1>9 DEF RowSound

\* What each handler projects is an event it has stored.
LEMMA ProjectsStored ==
  ASSUME HandlersSound, AdminToldInv, row' # row, [Next]_vars
  PROVE  /\ UNCHANGED storeVars
         /\ \E i \in 1..Len(log) : row' = ProjectRow(row, log[i])
<1>1. ASSUME NEW b \in Bids, ProjectBidRow(b)
      PROVE  /\ UNCHANGED storeVars
             /\ \E i \in 1..Len(log) : row' = ProjectRow(row, log[i])
  <2> DEFINE q == request[b]
  <2>1. /\ q.pc = "project" /\ row' = ProjectRow(row, q.todo[q.done + 1])
        /\ UNCHANGED storeVars /\ q.pc \in Decided
    BY <1>1 DEF ProjectBidRow, Decided
  <2>2. /\ StoredUpTo(q.base, q.todo, Len(q.todo))
        /\ q.base \in Nat /\ q.done \in Nat /\ q.done < Len(q.todo)
        /\ Len(q.todo) \in Nat /\ Len(log) \in Nat
    BY <2>1, DecidedTodo, StoreReadable DEF HandlersSound, BidInv, Decided
  <2>3. /\ q.base + (q.done + 1) \in 1..Len(log)
        /\ q.done + 1 \in 1..Len(q.todo)
    <3>1. q.base + Len(q.todo) <= Len(log)
      BY <2>2 DEF StoredUpTo
    <3>2. ASSUME NEW base \in Nat, NEW done \in Nat, NEW len \in Nat,
                 NEW n \in Nat, done < len, base + len <= n
          PROVE  base + (done + 1) \in 1..n /\ done + 1 \in 1..len
      BY <3>2
    <3> QED BY <2>2, <3>1, <3>2
  <2>4. log[q.base + (q.done + 1)] = q.todo[q.done + 1]
    BY <2>2, <2>3 DEF StoredUpTo
  <2> QED BY <2>1, <2>3, <2>4
<1>2. ASSUME NEW base \in Nat, NEW todo, StoredUpTo(base, todo, 1),
             row' = ProjectRow(row, todo[1]), UNCHANGED storeVars
      PROVE  /\ UNCHANGED storeVars
             /\ \E i \in 1..Len(log) : row' = ProjectRow(row, log[i])
  <2>1. Len(log) \in Nat
    BY StoreReadable DEF HandlersSound
  <2>2. base + 1 \in 1..Len(log) /\ log[base + 1] = todo[1]
    BY <1>2, <2>1 DEF StoredUpTo
  <2> QED BY <1>2, <2>2
<1>3. ASSUME ScheduleProject
      PROVE  /\ UNCHANGED storeVars
             /\ \E i \in 1..Len(log) : row' = ProjectRow(row, log[i])
  <2>1. /\ StoredUpTo(admin.base, admin.todo, 1) /\ admin.base \in Nat
    BY <1>3 DEF AdminToldInv, ScheduleProject, HandlersSound, TypeOK, AdminState
  <2> QED BY <1>2, <1>3, <2>1 DEF ScheduleProject
<1>4. ASSUME WorkerProject
      PROVE  /\ UNCHANGED storeVars
             /\ \E i \in 1..Len(log) : row' = ProjectRow(row, log[i])
  <2>1. /\ StoredUpTo(worker.base, worker.todo, 1) /\ worker.base \in Nat
    BY <1>4 DEF WorkerProject, HandlersSound, TypeOK, WorkerState, WorkerInv
  <2> QED BY <1>2, <1>4, <2>1 DEF WorkerProject
<1>5. ASSUME NEW b \in Bids, Arrive(b) \/ BidStep(b) PROVE ProjectBidRow(b)
  BY <1>5 DEF BidStep, Arrive, Acquire, Load, AppendBid, InsertBidRow,
              PublishBid, RemoveClose, AddClose, Release, viewVars
<1>6. ASSUME ScheduleLoad \/ AdminStep PROVE ScheduleProject
  BY <1>6 DEF AdminStep, ScheduleLoad, ScheduleAppend, ScheduleStart,
              ScheduleClose, viewVars
<1>7. ASSUME WorkerStep PROVE WorkerProject
  BY <1>7 DEF WorkerStep, WorkerLoad, WorkerAppend, PublishClosed, FinishJob,
              viewVars
<1>8. ASSUME \/ \E k \in JobNames : TakeJob(k) \/ RecoverStalled(k)
             \/ ExpireLock \/ Crash \/ Tick \/ UNCHANGED vars
      PROVE  FALSE
  BY <1>8 DEF TakeJob, RecoverStalled, ExpireLock, Crash, Tick, vars, viewVars
<1> QED BY <1>1, <1>3, <1>4, <1>5, <1>6, <1>7, <1>8 DEF Next

\* The row shows nothing that is not stored, after every step.
LEMMA RowStep ==
  ASSUME HandlersSound, HistoryKept, [Next]_vars, AdminToldInv, RowSound
  PROVE  RowSound'
BY ProjectsStored, RowProjected, RowStands

-----------------------------------------------------------------------------
(***************************************************************************)
(* The row's count of bids: each stored bid is counted by its own handler, *)
(* at most once, and a handler that is lost leaves its bid uncounted.      *)
(***************************************************************************)

\* Projecting any event but a bid leaves the count, a bid adds one or, on an
\* absent row, nothing.
LEMMA ProjectedCount ==
  ASSUME NEW r \in Row, NEW e \in Event
  PROVE  /\ ProjectRow(r, e).count \in {r.count, r.count + 1}
         /\ e.type # "BidPlaced" => ProjectRow(r, e).count = r.count
<1>1. CASE e.type = "AuctionScheduled"
  BY <1>1 DEF ProjectRow, UpsertRow, Row
<1>2. CASE r.status = "ABSENT" /\ e.type # "AuctionScheduled"
  BY <1>2 DEF ProjectRow
<1>3. CASE /\ r.status # "ABSENT"
           /\ e.type \in {"AuctionStarted", "TimerExtended"}
  BY <1>3 DEF ProjectRow, UpdateRow, Row
<1>4. CASE r.status # "ABSENT" /\ e.type = "BidPlaced"
  BY <1>4 DEF ProjectRow, UpdateRow, Row
<1>5. CASE r.status # "ABSENT" /\ e.type = "AuctionClosed"
  BY <1>5 DEF ProjectRow, UpdateRow, Row
<1> QED BY <1>1, <1>2, <1>3, <1>4, <1>5, EventTypes

\* The aggregate counts every stored bid.
LEMMA AggregateCounts ==
  ASSUME HandlersSound, HistoryKept, [Next]_vars
  PROVE  /\ Current.bidCount \in Nat /\ Current'.bidCount \in Nat
         /\ Current'.bidCount >= Current.bidCount
<1>1. Current.bidCount \in Nat
  BY StoreReadable DEF HandlersSound, Aggregate
<1>2. CASE UNCHANGED storeVars
  BY <1>1, <1>2 DEF storeVars, Current
<1>3. ASSUME NEW e \in Event, Insert(e)
      PROVE  Current'.bidCount \in {Current.bidCount, Current.bidCount + 1}
  <2>1. Current' = ApplyEvent(Current, e) /\ Current \in Aggregate
    BY <1>3, StoreGrows
  <2>2. \A agg \in Aggregate :
          ApplyEvent(agg, e).bidCount \in {agg.bidCount, agg.bidCount + 1}
    BY EventTypes DEF ApplyEvent, Aggregate
  <2> QED BY <2>1, <2>2
<1> QED BY <1>1, <1>2, <1>3, StoreStepBy

\* A step after which no more bids are uncounted, and no more are counted.
LEMMA CountShrinks ==
  ASSUME HandlersSound, HistoryKept, [Next]_vars, CountInv,
         Uncounted' \subseteq Uncounted, row'.count = row.count
  PROVE  CountInv'
<1>1. /\ IsFiniteSet(Uncounted') /\ IsFiniteSet(Uncounted)
      /\ Cardinality(Uncounted') <= Cardinality(Uncounted)
  BY FS_Subset DEF CountInv
<1>2. /\ Cardinality(Uncounted') \in Nat /\ Cardinality(Uncounted) \in Nat
  BY <1>1, FS_CardinalityType
<1>3. row.count \in Nat
  BY DEF HandlersSound, TypeOK, Row
<1>4. /\ Current.bidCount \in Nat /\ Current'.bidCount \in Nat
      /\ Current'.bidCount >= Current.bidCount
  BY AggregateCounts
<1>5. row.count + Cardinality(Uncounted) <= Current.bidCount
  BY DEF CountInv
<1>6. row'.count + Cardinality(Uncounted') <= Current'.bidCount
  BY <1>1, <1>2, <1>3, <1>4, <1>5
<1> QED BY <1>1, <1>6 DEF CountInv

\* The handlers other than b's are as far as they were.
LEMMA UncountedBut ==
  ASSUME HandlersSound, NEW b \in Bids, NEW r, Become(b, r)
  PROVE  /\ request'[b] = r
         /\ Uncounted' \subseteq Uncounted \cup {b}
         /\ b \notin Uncounted' => Uncounted' \subseteq Uncounted \ {b}
  BY DEF HandlersSound, TypeOK, Become, Uncounted

\* The INSERT of a bid counts it in the aggregate and leaves it uncounted in
\* the row; that of its extension leaves it so.
LEMMA AppendBidCounts ==
  ASSUME HandlersSound, HistoryKept, [Next]_vars, CountInv, NEW b \in Bids,
         AppendBid(b)
  PROVE  CountInv'
<1> DEFINE q == request[b]
<1>1. /\ q \in Request /\ q.pc = "append" /\ q.done \in Nat /\ row' = row
      /\ q.done = 0 \/ (q.done = 1 /\ Len(q.todo) = 2)
      /\ Len(q.todo) \in Nat /\ row.count \in Nat
  <2>1. q \in Request /\ q.pc = "append" /\ row' = row /\ row.count \in Nat
    BY DEF AppendBid, HandlersSound, TypeOK, viewVars, Row
  <2>2. q.done = 0 \/ (q.done = 1 /\ Len(q.todo) = 2)
    BY <2>1, AppendPlace
  <2> QED BY <2>1, <2>2 DEF Request
<1>2. b \in Uncounted <=> q.done = 1
  BY <1>1 DEF Uncounted
<1>3. CASE Conflict(q.base, q.done + 1)
  <2> DEFINE r == [q EXCEPT !.pc = "release", !.answer = "error"]
  <2>1. Become(b, r) /\ r.pc = "release"
    BY <1>1, <1>3 DEF AppendBid, AppendRejected, Answer, Request
  <2>2. b \notin Uncounted'
    <3>1. \A s : Become(b, s) => request'[b] = s
      BY UncountedBut
    <3>2. request'[b].pc = "release"
      BY <2>1, <3>1
    <3> QED BY <3>2 DEF Uncounted
  <2>3. Uncounted' \subseteq Uncounted
    BY <2>1, <2>2, UncountedBut
  <2> QED BY <1>1, <2>3, CountShrinks
<1>4. CASE q.done = 1
  <2>1. PICK r : Become(b, r)
    BY DEF AppendBid, AppendRejected, Answer
  <2>2. Uncounted' \subseteq Uncounted
    BY <1>2, <1>4, <2>1, UncountedBut
  <2> QED BY <1>1, <2>2, CountShrinks
<1>5. CASE q.done = 0 /\ ~Conflict(q.base, q.done + 1)
  <2>1. PICK r : Become(b, r)
    BY DEF AppendBid, AppendRejected, Answer
  <2>2. Uncounted' \subseteq Uncounted \cup {b}
    BY <2>1, UncountedBut
  <2>3. b \notin Uncounted
    BY <1>2, <1>5
  <2>4. /\ IsFiniteSet(Uncounted) /\ IsFiniteSet(Uncounted \cup {b})
        /\ Cardinality(Uncounted \cup {b}) = Cardinality(Uncounted) + 1
    BY <2>3, FS_AddElement DEF CountInv
  <2>5. /\ IsFiniteSet(Uncounted')
        /\ Cardinality(Uncounted') <= Cardinality(Uncounted) + 1
    BY <2>2, <2>4, FS_Subset
  <2>6. /\ Cardinality(Uncounted') \in Nat /\ Cardinality(Uncounted) \in Nat
    BY <2>4, <2>5, FS_CardinalityType
  <2>7. Current.bidCount \in Nat /\ Current'.bidCount = Current.bidCount + 1
    <3>1. q.todo[1] \in BidEvents /\ Insert(q.todo[1])
      BY <1>1, <1>5, DecidedTodo DEF AppendBid, Decided
    <3>2. q.todo[1] \in Event /\ q.todo[1].type = "BidPlaced"
      BY <3>1 DEF Event, BidEvents
    <3>3. Current' = ApplyEvent(Current, q.todo[1]) /\ Current \in Aggregate
      BY <3>1, <3>2, StoreGrows
    <3> QED BY <3>2, <3>3 DEF ApplyEvent, Aggregate
  <2>8. row.count + Cardinality(Uncounted) <= Current.bidCount
    BY DEF CountInv
  <2>9. row'.count + Cardinality(Uncounted') <= Current'.bidCount
    BY <1>1, <2>5, <2>6, <2>7, <2>8
  <2> QED BY <2>5, <2>9 DEF CountInv
<1> QED BY <1>1, <1>3, <1>4, <1>5

\* The UPDATE for a bid counts it, and the one for its extension does not.
LEMMA ProjectBidCounts ==
  ASSUME HandlersSound, HistoryKept, [Next]_vars, CountInv, NEW b \in Bids,
         ProjectBidRow(b)
  PROVE  CountInv'
<1> DEFINE q == request[b]
           i == q.done + 1
           r == [q EXCEPT !.pc = IF q.todo[i].type = "BidPlaced"
                                 THEN "insertBid" ELSE "publish",
                          !.done = i]
<1>1. /\ q \in Request /\ q.pc = "project" /\ q.pc \in Decided
      /\ Become(b, r) /\ row' = ProjectRow(row, q.todo[i])
      /\ UNCHANGED storeVars /\ row \in Row /\ row.count \in Nat
  BY DEF ProjectBidRow, HandlersSound, TypeOK, Decided, Row
<1>2. /\ q.done = 0 \/ (q.done = 1 /\ Len(q.todo) = 2)
      /\ q.todo[1] \in Event
      /\ Len(q.todo) = 2 => /\ q.todo[2] \in Event
                            /\ q.todo[2].type # "BidPlaced"
  <2>1. q.done = 0 \/ (q.done = 1 /\ Len(q.todo) = 2)
    BY <1>1, AppendPlace
  <2>2. /\ q.todo[1] \in BidEvents
        /\ Len(q.todo) = 2 => q.todo[2] \in ExtendedEvents
    BY <1>1, DecidedTodo
  <2> QED BY <2>1, <2>2 DEF Event, ExtendedEvents
<1>3. r.pc \notin {"append", "project"}
  BY <1>1 DEF Request
<1> HIDE DEF r
<1>4. b \notin Uncounted'
  <2>1. request'[b] = r
    BY <1>1, UncountedBut
  <2> QED BY <1>3, <2>1 DEF Uncounted
<1>5. Uncounted' \subseteq Uncounted \ {b}
  BY <1>1, <1>4, UncountedBut
<1>6. CASE q.done = 1
  <2>1. row'.count = row.count
    BY <1>1, <1>2, <1>6, ProjectedCount
  <2>2. Uncounted' \subseteq Uncounted
    BY <1>5
  <2> QED BY <2>1, <2>2, CountShrinks
<1>7. CASE q.done = 0
  <2>1. b \in Uncounted
    BY <1>1, <1>7 DEF Uncounted
  <2>2. /\ IsFiniteSet(Uncounted) /\ IsFiniteSet(Uncounted \ {b})
        /\ Cardinality(Uncounted \ {b}) = Cardinality(Uncounted) - 1
    BY <2>1, FS_RemoveElement DEF CountInv
  <2>3. /\ IsFiniteSet(Uncounted')
        /\ Cardinality(Uncounted') <= Cardinality(Uncounted) - 1
    BY <1>5, <2>2, FS_Subset
  <2>4. /\ Cardinality(Uncounted') \in Nat /\ Cardinality(Uncounted) \in Nat
    BY <2>2, <2>3, FS_CardinalityType
  <2>5. row'.count \in {row.count, row.count + 1}
    BY <1>1, <1>2, <1>7, ProjectedCount
  <2>6. Current'.bidCount = Current.bidCount /\ Current.bidCount \in Nat
    BY <1>1, AggregateCounts DEF storeVars, Current
  <2>7. row.count + Cardinality(Uncounted) <= Current.bidCount
    BY DEF CountInv
  <2>8. row'.count + Cardinality(Uncounted') <= Current'.bidCount
    BY <1>1, <2>3, <2>4, <2>5, <2>6, <2>7
  <2> QED BY <2>3, <2>8 DEF CountInv
<1> QED BY <1>2, <1>6, <1>7

\* Every other step of a bid's handler leaves its bid as counted as it was.
LEMMA OtherBidCounts ==
  ASSUME HandlersSound, HistoryKept, [Next]_vars, CountInv, NEW b \in Bids,
         ToldInv(b),
         \/ Arrive(b) \/ Acquire(b) \/ Load(b) \/ InsertBidRow(b)
         \/ PublishBid(b) \/ RemoveClose(b) \/ AddClose(b) \/ Release(b)
  PROVE  CountInv'
<1> DEFINE q == request[b]
<1>1. q \in Request /\ row' = row
  BY DEF HandlersSound, TypeOK, Arrive, Acquire, Load, InsertBidRow,
         PublishBid, RemoveClose, AddClose, Release, viewVars
<1>2. ASSUME NEW r, Become(b, r),
             \/ r.pc \notin {"append", "project"}
             \/ r.pc = "append" /\ r.done # 1
             \/ r.pc = "project" /\ r.done # 0
      PROVE  CountInv'
  <2>1. b \notin Uncounted'
    BY <1>2, UncountedBut DEF Uncounted
  <2>2. Uncounted' \subseteq Uncounted
    BY <1>2, <2>1, UncountedBut
  <2> QED BY <1>1, <2>2, CountShrinks
<1>3. CASE Load(b)
  <2>1. q.pc = "load" /\ q.done = 0
    BY <1>3 DEF Load, HandlersSound, BidInv
  <2>2. PICK r : /\ Become(b, r)
                 /\ \/ \E refusal : r = [q EXCEPT !.pc = "release",
                                                  !.answer = refusal]
                    \/ \E todo : r = [q EXCEPT !.pc = "append",
                                               !.base = Len(log),
                                               !.todo = todo]
    BY <1>3 DEF Load, Answer
  <2>3. /\ r.pc = "release" \/ (r.pc = "append" /\ r.done = 0)
        /\ Become(b, r)
    BY <1>1, <2>1, <2>2 DEF Request
  <2> QED BY <1>2, <2>3
<1>4. CASE InsertBidRow(b)
  <2> DEFINE pc == IF q.done < Len(q.todo) THEN "project" ELSE "publish"
             r == [q EXCEPT !.pc = pc]
  <2>1. Become(b, r) /\ q.pc = "insertBid" /\ q.done = 1
    BY <1>4 DEF InsertBidRow, Goto, ToldInv
  <2>2. r.pc \in {"project", "publish"} /\ r.done = 1
    BY <1>1, <2>1 DEF Request
  <2> HIDE DEF r
  <2>3. \/ r.pc \notin {"append", "project"}
        \/ r.pc = "project" /\ r.done # 0
    BY <2>2
  <2> QED BY <1>2, <2>1, <2>3
<1>5. CASE Arrive(b)
  <2>1. PICK u \in Users, a \in Amounts :
          Become(b, [q EXCEPT !.pc = "acquire", !.user = u, !.amount = a,
                              !.placedAt = now])
    BY <1>5 DEF Arrive
  <2> QED BY <1>1, <1>2, <2>1 DEF Request
<1>6. CASE Acquire(b) \/ Release(b)
  <2>1. PICK r : /\ Become(b, r)
                 /\ \/ r = [q EXCEPT !.pc = "load"]
                    \/ \E a : r = Finished(a)
    BY <1>6 DEF Acquire, Release, Goto
  <2>2. r.pc \in {"load", "done"}
    BY <1>1, <2>1 DEF Request, Finished, NewRequest
  <2> QED BY <1>2, <2>1, <2>2
<1>7. CASE PublishBid(b) \/ RemoveClose(b) \/ AddClose(b)
  <2>1. PICK r : /\ Become(b, r)
                 /\ \/ \E pc \in {"remove", "add"} : r = [q EXCEPT !.pc = pc]
                    \/ \E a : r = [q EXCEPT !.pc = "release", !.answer = a]
    BY <1>7 DEF PublishBid, RemoveClose, AddClose, Goto, Answer
  <2>2. r.pc \in {"remove", "add", "release"}
    BY <1>1, <2>1 DEF Request
  <2> QED BY <1>2, <2>1, <2>2
<1> QED BY <1>3, <1>4, <1>5, <1>6, <1>7

\* No step of the engine lets the row count a bid twice.
LEMMA CountStep ==
  ASSUME HandlersSound, HistoryKept, [Next]_vars, CountInv,
         \A b \in Bids : ToldInv(b)
  PROVE  CountInv'
<1>1. ASSUME NEW b \in Bids, Arrive(b) \/ BidStep(b)
      PROVE  CountInv'
  BY <1>1, AppendBidCounts, ProjectBidCounts, OtherBidCounts DEF BidStep
<1>2. ASSUME request' = request, row' = row
      PROVE  CountInv'
  <2>1. Uncounted' = Uncounted
    BY <1>2 DEF Uncounted
  <2> QED BY <1>2, <2>1, CountShrinks
<1>3. ASSUME request' = request, NEW e \in Event, e.type # "BidPlaced",
             row' = ProjectRow(row, e)
      PROVE  CountInv'
  <2>1. Uncounted' = Uncounted
    BY <1>3 DEF Uncounted
  <2>2. row'.count = row.count
    BY <1>3, ProjectedCount DEF HandlersSound, TypeOK
  <2> QED BY <2>1, <2>2, CountShrinks
<1>4. CASE ScheduleProject
  <2>1. PICK t \in Terms : admin.todo = << Schedule(t) >>
    BY <1>4 DEF HandlersSound, AdminInv, ScheduleProject
  <2>2. admin.todo[1].type # "BidPlaced" /\ admin.todo[1] \in Event
    BY <1>4, <2>1, ScheduleTodo DEF Schedule, ScheduleProject
  <2> QED BY <1>3, <1>4, <2>2 DEF ScheduleProject
<1>5. CASE WorkerProject
  <2>1. worker.pc = "project" /\ worker.todo[1] \in Event
    BY <1>5, WorkerTodo DEF WorkerProject
  <2>2. worker.todo[1].type # "BidPlaced"
    BY <2>1 DEF HandlersSound, WorkerInv, Start, Close
  <2> QED BY <1>3, <1>5, <2>1, <2>2 DEF WorkerProject
<1>6. CASE Crash
  <2>1. Uncounted' = {} /\ row' = row
    BY <1>6 DEF Crash, Uncounted, Finished, NewRequest, viewVars
  <2> QED BY <2>1, CountShrinks
<1>7. ASSUME ScheduleLoad \/ AdminStep
      PROVE  ScheduleProject \/ (request' = request /\ row' = row)
  BY <1>7 DEF AdminStep, ScheduleLoad, ScheduleAppend, ScheduleStart,
              ScheduleClose, viewVars
<1>8. ASSUME WorkerStep
      PROVE  WorkerProject \/ (request' = request /\ row' = row)
  BY <1>8 DEF WorkerStep, WorkerLoad, WorkerAppend, PublishClosed, FinishJob,
              viewVars
<1>9. ASSUME \/ \E k \in JobNames : TakeJob(k) \/ RecoverStalled(k)
             \/ ExpireLock \/ Tick \/ UNCHANGED vars
      PROVE  request' = request /\ row' = row
  BY <1>9 DEF TakeJob, RecoverStalled, ExpireLock, Tick, vars, viewVars
<1> QED BY <1>1, <1>2, <1>4, <1>5, <1>6, <1>7, <1>8, <1>9 DEF Next

-----------------------------------------------------------------------------
(***************************************************************************)
(* The invariant and what follows from it.                                 *)
(***************************************************************************)

\* Nobody has been told anything at the start.
LEMMA ToldInit ==
  ASSUME Init
  PROVE  ToldKept
<1>1. /\ log = << >> /\ Len(log) = 0 /\ 1..0 = {} /\ announced = << >>
      /\ Len(announced) = 0 /\ notified = {} /\ bidRows = {}
      /\ row = AbsentRow /\ replay = << Fresh >>
  BY DEF Init
<1>2. BidAt = {} /\ VerdictAt = {}
  BY <1>1 DEF BidAt, VerdictAt, Stored, Position
<1>3. ASSUME NEW b \in Bids
      PROVE  ToldInv(b) /\ AnswerTrue(b)
  <2>1. request[b].pc = "new" /\ request[b].answer = "none"
    BY DEF Init, NewRequest
  <2> QED BY <1>2, <2>1 DEF ToldInv, AnswerTrue, NotStored, Refusals
<1>4. AdminToldInv /\ WorkerToldInv
  BY DEF Init, AdminToldInv, WorkerToldInv, AdminIdle, WorkerIdle
<1>5. CountInv
  <2>1. Uncounted = {}
    BY DEF Init, Uncounted, NewRequest
  <2>2. row.count = 0 /\ Current.bidCount = 0
    BY <1>1 DEF AbsentRow, Current, Fresh
  <2> QED BY <2>1, <2>2, FS_EmptySet DEF CountInv
<1>6. OutbidNoticeTrue /\ AnnouncedOnce
  BY <1>1 DEF OutbidNoticeTrue, AnnouncedOnce
<1>7. ReadModelSound
  <2>1. row.count <= Current.bidCount
    BY <1>1 DEF AbsentRow, Current, Fresh
  <2> QED BY <1>1, <2>1 DEF ReadModelSound, BidRowsSound, RowSound, AbsentRow
<1> QED BY <1>3, <1>4, <1>5, <1>6, <1>7 DEF ToldKept, AnswersTrue

\* Every step of the engine keeps ToldKept.
LEMMA ToldKeptStep ==
  ASSUME HandlersSound, HandlersSound', HistoryKept, ToldKept, [Next]_vars
  PROVE  ToldKept'
<1>1. \A b \in Bids : ToldInv(b)' /\ AnswerTrue(b)'
  BY ToldStep DEF ToldKept, AnswersTrue
<1>2. AdminToldInv' /\ WorkerToldInv' /\ AnnouncedOnce' /\ OutbidNoticeTrue'
  BY AdminToldStep, AnnounceStep, NoticeStep DEF ToldKept
<1>3. CountInv'
  BY CountStep DEF ToldKept
<1>4. BidRowsSound' /\ RowSound'
  BY BidRowsStep, RowStep DEF ToldKept, ReadModelSound
<1>5. row'.count <= Current'.bidCount
  <2>1. /\ Cardinality(Uncounted') \in Nat
        /\ row'.count + Cardinality(Uncounted') <= Current'.bidCount
    BY <1>3, FS_CardinalityType DEF CountInv
  <2>2. row'.count \in Nat /\ Current'.bidCount \in Nat
    BY AggregateCounts DEF HandlersSound, TypeOK, Row
  <2> QED BY <2>1, <2>2
<1> QED BY <1>1, <1>2, <1>3, <1>4, <1>5
        DEF ToldKept, AnswersTrue, ReadModelSound

\* Nothing that is told of the store is ever false, nor becomes so.
THEOREM ToldAlwaysKept == Spec => []ToldKept
<1>1. Init => ToldKept
  BY ToldInit
<1>2. HandlersSound /\ HandlersSound' /\ HistoryKept /\ ToldKept /\ [Next]_vars
        => ToldKept'
  BY ToldKeptStep
<1> QED BY <1>1, <1>2, HandlersAlwaysSound, HistoryAlwaysKept, PTL DEF Spec

\* What the handlers know, what the store remembers and what others are told
\* are sound together.
THEOREM EngineAlwaysSound == Spec => []EngineSound
<1>1. HandlersSound /\ HistoryKept /\ ToldKept => EngineSound
  BY DEF EngineSound
<1> QED BY <1>1, HandlersAlwaysSound, HistoryAlwaysKept, ToldAlwaysKept, PTL

\* "ok" is told of a stored, projected, notified and, where due, extended
\* bid, and a refusal of one that is not stored.
THEOREM AnswersAlwaysTrue == Spec => []AnswersTrue
<1>1. ToldKept => AnswersTrue
  BY DEF ToldKept
<1> QED BY <1>1, ToldAlwaysKept, PTL

\* The outbid notice names the bidder that held the lot when the bid was
\* stored, however many handlers raced for that place.
THEOREM OutbidNoticesTrue == Spec => []OutbidNoticeTrue
<1>1. ToldKept => OutbidNoticeTrue
  BY DEF ToldKept
<1> QED BY <1>1, ToldAlwaysKept, PTL

\* No verdict is announced twice, over crashes, stalled jobs and failed
\* publications included.
THEOREM VerdictsAnnouncedOnce == Spec => []AnnouncedOnce
<1>1. ToldKept => AnnouncedOnce
  BY DEF ToldKept
<1> QED BY <1>1, ToldAlwaysKept, PTL

\* The pages may be behind the store and are never ahead of it.
THEOREM ReadModelAlwaysSound == Spec => []ReadModelSound
<1>1. ToldKept => ReadModelSound
  BY DEF ToldKept
<1> QED BY <1>1, ToldAlwaysKept, PTL

-----------------------------------------------------------------------------
(***************************************************************************)
(* What the bid lock adds: the highest bid shown never falls.              *)
(***************************************************************************)

\* A lock that outlives its holder's handler has one handler in it.
LEMMA LockStep ==
  ASSUME HandlersSound, ~LockMayExpire, LockKept, [Next]_vars
  PROVE  LockKept'
<1> USE DEF InHandler
<1>1. ASSUME request' = request, lock' = lock
      PROVE  LockKept'
  BY <1>1 DEF LockKept
<1>2. ASSUME NEW b \in Bids, Arrive(b) \/ Acquire(b)
      PROVE  LockKept'
  <2>1. CASE Arrive(b)
    <3>1. lock' = lock /\ request'[b].pc = "acquire"
      BY <2>1, ToldBy DEF Arrive, HandlersSound, TypeOK, Request
    <3>2. \A c \in Bids : c # b => request'[c] = request[c]
      BY <2>1 DEF Arrive, Become, HandlersSound, TypeOK
    <3> QED BY <3>1, <3>2 DEF LockKept
  <2>2. CASE Acquire(b)
    <3>1. \A c \in Bids : c # b => request'[c] = request[c]
      BY <2>2 DEF Acquire, Goto, Become, HandlersSound, TypeOK
    <3>2. CASE lock = None /\ lock' = b
      BY <3>1, <3>2, NoneAssumption DEF LockKept
    <3>3. CASE lock' = lock /\ Become(b, Finished("AUCTION_NOT_ACTIVE"))
      <4>1. request'[b].pc = "done"
        BY <3>3, ToldBy DEF Finished, NewRequest
      <4> QED BY <3>1, <3>3, <4>1 DEF LockKept
    <3> QED BY <2>2, <3>2, <3>3 DEF Acquire
  <2> QED BY <1>2, <2>1, <2>2
<1>3. ASSUME NEW b \in Bids,
             \/ Load(b) \/ AppendBid(b) \/ ProjectBidRow(b) \/ InsertBidRow(b)
             \/ PublishBid(b) \/ RemoveClose(b) \/ AddClose(b)
      PROVE  LockKept'
  <2>1. InHandler(b) /\ lock' = lock
    BY <1>3 DEF Load, AppendBid, ProjectBidRow, InsertBidRow, PublishBid,
                RemoveClose, AddClose
  <2>2. \A c \in Bids : c # b => request'[c] = request[c]
    BY <1>3 DEF Load, AppendBid, AppendRejected, ProjectBidRow, InsertBidRow,
                PublishBid, RemoveClose, AddClose, Answer, Goto, Become,
                HandlersSound, TypeOK
  <2> QED BY <2>1, <2>2 DEF LockKept
<1>4. ASSUME NEW b \in Bids, Release(b)
      PROVE  LockKept'
  <2>1. InHandler(b) /\ request'[b].pc = "done"
    BY <1>4, ToldBy DEF Release, Finished, NewRequest
  <2>2. \A c \in Bids : c # b => request'[c] = request[c]
    BY <1>4 DEF Release, Become, HandlersSound, TypeOK
  <2> QED BY <2>1, <2>2 DEF LockKept
<1>5. CASE ExpireLock
  BY <1>5 DEF ExpireLock, LockKept
<1>6. CASE Crash
  <2>1. \A b \in Bids : request'[b].pc \in {"new", "done"}
    BY <1>6 DEF Crash, Finished, NewRequest
  <2> QED BY <2>1 DEF LockKept
<1>7. ASSUME \/ ScheduleLoad \/ AdminStep
             \/ \E k \in JobNames : TakeJob(k) \/ RecoverStalled(k)
             \/ WorkerStep \/ Tick \/ UNCHANGED vars
      PROVE  request' = request /\ lock' = lock
  <2>1. CASE ScheduleLoad \/ AdminStep
    BY <2>1 DEF AdminStep, ScheduleLoad, ScheduleAppend, ScheduleProject,
                ScheduleStart, ScheduleClose
  <2>2. CASE WorkerStep
    BY <2>2 DEF WorkerStep, WorkerLoad, WorkerAppend, WorkerProject,
                PublishClosed, FinishJob
  <2> QED BY <1>7, <2>1, <2>2 DEF TakeJob, RecoverStalled, Tick, vars
<1> QED BY <1>1, <1>2, <1>3, <1>4, <1>5, <1>6, <1>7 DEF Next, BidStep

\* A bid that is not refused is above every bid stored.
LEMMA AboveAll ==
  ASSUME HandlersSound, HistoryKept, NEW u, NEW a \in Nat,
         Refusal(Current, u, a) = "none"
  PROVE  \A i \in BidAt : log[i].amount <= a
<1> DEFINE n == Len(log)
<1>1. /\ n \in Nat /\ Current = replay[n + 1] /\ Current \in Aggregate
  BY StoreReadable DEF HandlersSound
<1>2. LeaderAt(n)
  BY <1>1 DEF HistoryKept, LeaderKept
<1>3. a >= Current.highestAmount + Current.increment
  BY <1>1 DEF Refusal, Aggregate
<1>4. Current.increment \in Nat /\ Current.highestAmount \in Nat
  BY <1>1 DEF Aggregate
<1>5. ASSUME NEW i \in BidAt
      PROVE  log[i].amount <= a
  <2>1. i \in 1..n /\ log[i].type = "BidPlaced" /\ log[i] \in Event
    BY <1>5 DEF BidAt, Stored, Position, HandlersSound, TypeOK
  <2>2. log[i].amount \in Nat
    BY <2>1, EventTypes, AmountsAssumption DEF BidEvents
  <2>3. log[i].amount <= Current.highestAmount
    <3>1. PICK j \in 1..n : LeadsUpTo(j, n) /\ Current.highestAmount = log[j].amount
      BY <1>1, <1>2, <2>1 DEF LeaderAt, NoBidsUpTo
    <3> QED BY <2>1, <3>1 DEF LeadsUpTo
  <2> QED BY <1>3, <1>4, <2>2, <2>3
<1> QED BY <1>5

\* The bid in a handler's hands stays the highest: nobody else stores one.
LEMMA CeilingStep ==
  ASSUME HandlersSound, HistoryKept, LockKept, [Next]_vars,
         NEW b \in Bids, CeilingInv(b), ToldInv(b)
  PROVE  CeilingInv(b)'
<1> DEFINE q == request[b]
           Holds(r) == r.pc = "append" \/ (r.pc = "project" /\ r.done = 0)
<1> SUFFICES ASSUME Holds(request'[b])
             PROVE  \A i \in BidAt' : log'[i].amount <= request'[b].amount
  BY DEF CeilingInv
<1> HIDE DEF Holds
<1>1. \A i \in BidAt : log'[i] = log[i]
  BY BidsKeep
<1>2. CASE Load(b)
  <2>1. /\ UNCHANGED storeVars /\ q.amount \in Nat
        /\ Refusal(Current, q.user, q.amount) = "none"
        /\ request'[b].amount = q.amount
    <3>1. /\ q \in Request /\ q.amount \in Amounts /\ UNCHANGED storeVars
      BY <1>2 DEF Load, HandlersSound, TypeOK, BidInv
    <3>2. ASSUME NEW a, Answer(b, a)
          PROVE  FALSE
      <4>1. request'[b] = [q EXCEPT !.pc = "release", !.answer = a]
        BY <3>2, ToldBy DEF Answer
      <4> QED BY <3>1, <4>1 DEF Holds, Request
    <3>3. PICK p : /\ Refusal(Current, q.user, q.amount) = "none"
                   /\ Become(b, [q EXCEPT !.pc = "append", !.base = Len(log),
                                          !.todo = p])
      BY <1>2, <3>2 DEF Load
    <3>4. request'[b].amount = q.amount
      BY <3>1, <3>3, ToldBy DEF Request
    <3> QED BY <3>1, <3>3, <3>4, AmountsAssumption
  <2>2. BidAt' = BidAt
    BY <2>1 DEF storeVars, BidAt, Stored, Position
  <2> QED BY <1>1, <2>1, <2>2, AboveAll
<1>3. CASE AppendBid(b)
  <2> DEFINE i == q.done + 1
             e == q.todo[i]
  <2>1. /\ q.pc = "append" /\ q \in Request /\ q.amount \in Nat
        /\ \A j \in BidAt : log[j].amount <= q.amount
    BY <1>3, AmountsAssumption
       DEF AppendBid, HandlersSound, TypeOK, BidInv, CeilingInv
  <2>2. ~AppendRejected(b)
    <3>1. SUFFICES ASSUME AppendRejected(b) PROVE FALSE
      OBVIOUS
    <3>2. request'[b] = [q EXCEPT !.pc = "release", !.answer = "error"]
      BY <3>1, ToldBy DEF AppendRejected, Answer
    <3> QED BY <2>1, <3>2 DEF Holds, Request
  <2>3. /\ Insert(e) /\ request'[b].amount = q.amount
    <3>1. \E r \in {[q EXCEPT !.pc = "project", !.done = 0], [q EXCEPT !.done = i]} :
            Insert(e) /\ Become(b, r)
      BY <1>3, <2>2 DEF AppendBid
    <3> QED BY <2>1, <3>1, ToldBy DEF Request
  <2>4. e \in Event /\ (e.type = "BidPlaced" => e.amount = q.amount)
    <3>1. q.todo[1] = BidPlaced(b, q.user, q.amount, q.placedAt)
      BY <2>1, DecidedTodo DEF Decided
    <3>2. q.done = 0 \/ (q.done = 1 /\ Len(q.todo) = 2)
      BY <2>1, AppendPlace
    <3>3. Len(q.todo) = 2 => q.todo[2].type = "TimerExtended"
      <4>1. Len(q.todo) = 2 => q.todo[2] \in ExtendedEvents
        BY <2>1, DecidedTodo DEF Decided
      <4> QED BY <4>1 DEF ExtendedEvents
    <3>4. e \in Event
      BY <2>1, <2>2, <1>3, AppendLawful DEF AppendBid
    <3> QED BY <3>1, <3>2, <3>3, <3>4 DEF BidPlaced
  <2>5. PICK n \in Nat : /\ n = Len(log) /\ Len(log') = n + 1
                         /\ log'[n + 1] = e
                         /\ \A j \in 1..n : log'[j] = log[j]
    BY <2>3, <2>4, StoreGrows
  <2>6. \A j \in BidAt' : j \in BidAt \/ (j = n + 1 /\ e.type = "BidPlaced")
    BY <2>5 DEF BidAt, Stored, Position
  <2> QED BY <1>1, <2>1, <2>3, <2>4, <2>5, <2>6
<1>4. CASE request'[b] = q
  <2>1. Holds(q) /\ InHandler(b)
    BY <1>4 DEF Holds, InHandler
  <2>2. \A i \in BidAt : log[i].amount <= q.amount
    BY <2>1 DEF CeilingInv, Holds
  <2>3. BidAt' = BidAt
    <3>1. CASE UNCHANGED storeVars
      BY <3>1 DEF storeVars, BidAt, Stored, Position
    <3>2. ASSUME NEW c \in Bids, AppendBid(c)
          PROVE  FALSE
      <4>1. InHandler(c)
        BY <3>2 DEF AppendBid, InHandler
      <4> QED BY <1>4, <2>1, <3>2, <4>1, AppendMoves DEF LockKept
    <3>3. ASSUME NEW e \in Event, Insert(e), e.type # "BidPlaced"
          PROVE  BidAt' = BidAt
      <4>1. PICK n \in Nat : /\ n = Len(log) /\ Len(log') = n + 1
                             /\ log'[n + 1] = e
                             /\ \A j \in 1..n : log'[j] = log[j]
        BY <3>3, StoreGrows
      <4> QED BY <3>3, <4>1 DEF BidAt, Stored, Position
    <3> QED BY <3>1, <3>2, <3>3, StoreStepBy
  <2> QED BY <1>1, <1>4, <2>2, <2>3
<1>5. ASSUME \/ ProjectBidRow(b) \/ InsertBidRow(b) \/ PublishBid(b)
             \/ RemoveClose(b) \/ AddClose(b) \/ Release(b)
      PROVE  FALSE
  <2>1. q \in Request
    BY DEF HandlersSound, TypeOK
  <2>2. ASSUME NEW r, Become(b, r)
        PROVE  request'[b] = r
    BY <2>2, ToldBy
  <2>3. CASE ProjectBidRow(b)
    <3>1. \E pc \in {"insertBid", "publish"}, d \in Nat :
            Become(b, [q EXCEPT !.pc = pc, !.done = d])
      <4>1. q.done + 1 \in Nat
        BY <2>1 DEF Request
      <4>2. Become(b, [q EXCEPT !.pc = IF q.todo[q.done + 1].type = "BidPlaced"
                                       THEN "insertBid" ELSE "publish",
                                !.done = q.done + 1])
        BY <2>3 DEF ProjectBidRow
      <4> QED BY <4>1, <4>2
    <3> QED BY <2>1, <2>2, <3>1 DEF Holds, Request
  <2>4. CASE InsertBidRow(b)
    <3>1. q.done = 1
      BY <2>4 DEF InsertBidRow, ToldInv
    <3>2. \E pc \in {"project", "publish"} : Become(b, [q EXCEPT !.pc = pc])
      BY <2>4 DEF InsertBidRow, Goto
    <3> QED BY <2>1, <2>2, <3>1, <3>2 DEF Holds, Request
  <2>5. CASE PublishBid(b) \/ RemoveClose(b) \/ AddClose(b)
    <3>1. \/ \E pc \in {"remove", "add"} : Become(b, [q EXCEPT !.pc = pc])
          \/ \E a \in Answers :
               Become(b, [q EXCEPT !.pc = "release", !.answer = a])
      BY <2>5 DEF PublishBid, RemoveClose, AddClose, Goto, Answer, Answers
    <3> QED BY <2>1, <2>2, <3>1 DEF Holds, Request
  <2>6. CASE Release(b)
    BY <2>2, <2>6 DEF Release, Finished, NewRequest, Holds
  <2> QED BY <1>5, <2>3, <2>4, <2>5, <2>6
<1>6. ASSUME Arrive(b) \/ Acquire(b) \/ Crash
      PROVE  request'[b] = q
  <2>1. q \in Request
    BY DEF HandlersSound, TypeOK
  <2>2. CASE Arrive(b)
    <3>1. PICK u, a : Become(b, [q EXCEPT !.pc = "acquire", !.user = u,
                                          !.amount = a, !.placedAt = now])
      BY <2>2 DEF Arrive
    <3>2. request'[b].pc = "acquire"
      BY <2>1, <3>1, ToldBy DEF Request
    <3> QED BY <3>2 DEF Holds
  <2>3. CASE Acquire(b)
    <3>1. \/ Become(b, [q EXCEPT !.pc = "load"])
          \/ Become(b, Finished("AUCTION_NOT_ACTIVE"))
      BY <2>3 DEF Acquire, Goto
    <3>2. request'[b].pc \in {"load", "done"}
      BY <2>1, <3>1, ToldBy DEF Request, Finished, NewRequest
    <3> QED BY <3>2 DEF Holds
  <2>4. CASE Crash
    BY <2>4 DEF Crash, Finished, NewRequest, Holds
  <2> QED BY <1>6, <2>2, <2>3, <2>4
<1>7. ASSUME request'[b] # q
      PROVE  Crash \/ Arrive(b) \/ BidStep(b)
  <2>1. ASSUME NEW c \in Bids, c # b, Arrive(c) \/ BidStep(c)
        PROVE  request'[b] = q
    BY <2>1 DEF BidStep, Arrive, Acquire, Load, AppendBid, AppendRejected,
                ProjectBidRow, InsertBidRow, PublishBid, RemoveClose, AddClose,
                Release, Answer, Goto, Become, HandlersSound, TypeOK
  <2>2. ASSUME \/ ScheduleLoad \/ AdminStep
               \/ \E k \in JobNames : TakeJob(k) \/ RecoverStalled(k)
               \/ WorkerStep \/ ExpireLock \/ Tick \/ UNCHANGED vars
        PROVE  request' = request
    BY <2>2 DEF AdminStep, ScheduleLoad, ScheduleAppend, ScheduleProject,
                ScheduleStart, ScheduleClose, WorkerStep, WorkerLoad,
                WorkerAppend, WorkerProject, PublishClosed, FinishJob, TakeJob,
                RecoverStalled, ExpireLock, Tick, vars
  <2> QED BY <1>7, <2>1, <2>2 DEF Next
<1> QED BY <1>2, <1>3, <1>4, <1>5, <1>6, <1>7 DEF BidStep

\* Only a bid that was just stored moves the highest bid shown, and it moves
\* it up.
LEMMA HighestStep ==
  ASSUME HandlersSound, HistoryKept, ToldKept, LockSound, [Next]_vars
  PROVE  row'.highest >= row.highest
<1>1. /\ row \in Row /\ row.highest \in Nat
  BY DEF HandlersSound, TypeOK, Row
<1>2. ASSUME NEW e \in Event, row' = ProjectRow(row, e), e.type # "BidPlaced"
      PROVE  row'.highest = row.highest
  <2>1. CASE e.type = "AuctionScheduled"
    BY <1>1, <1>2, <2>1 DEF ProjectRow, UpsertRow, Row
  <2>2. CASE e.type # "AuctionScheduled"
    <3>1. e.type \in {"AuctionStarted", "TimerExtended", "AuctionClosed"}
      BY <1>2, <2>2, EventTypes
    <3> QED BY <1>1, <1>2, <2>2, <3>1 DEF ProjectRow, UpdateRow, Row
  <2> QED BY <2>1, <2>2
<1>3. ASSUME NEW b \in Bids, ProjectBidRow(b)
      PROVE  row'.highest >= row.highest
  <2> DEFINE q == request[b]
             e == q.todo[q.done + 1]
  <2>1. /\ q.pc = "project" /\ row' = ProjectRow(row, e)
    BY <1>3 DEF ProjectBidRow
  <2>2. /\ q.todo[1] = BidPlaced(b, q.user, q.amount, q.placedAt)
        /\ Len(q.todo) = 2 => q.todo[2] \in Event /\ q.todo[2].type = "TimerExtended"
        /\ q.amount \in Nat
    <3>1. q.pc \in Decided
      BY <2>1 DEF Decided
    <3>2. /\ q.todo[1] = BidPlaced(b, q.user, q.amount, q.placedAt)
          /\ q.amount \in Amounts
          /\ Len(q.todo) = 2 => q.todo[2] \in ExtendedEvents
      BY <3>1, DecidedTodo
    <3> QED BY <3>2, AmountsAssumption DEF Event, ExtendedEvents
  <2>3. CASE q.done = 1 /\ Len(q.todo) = 2
    BY <1>1, <1>2, <2>1, <2>2, <2>3
  <2>4. CASE q.done = 0
    <3>1. e.type = "BidPlaced" /\ e.amount = q.amount
      BY <2>2, <2>4 DEF BidPlaced
    <3>2. row.highest <= q.amount
      <4>1. \A i \in BidAt : log[i].amount <= q.amount
        BY <2>1, <2>4 DEF LockSound, CeilingInv
      <4>2. row.highest # 0 => \E i \in BidAt : log[i].amount = row.highest
        BY DEF ToldKept, ReadModelSound, RowSound
      <4> QED BY <2>2, <4>1, <4>2
    <3>3. row'.highest \in {row.highest, q.amount}
      BY <1>1, <2>1, <3>1 DEF ProjectRow, UpdateRow, Row
    <3> QED BY <1>1, <2>2, <3>2, <3>3
  <2> QED BY <2>1, <2>3, <2>4, AppendPlace
<1>4. CASE ScheduleProject
  <2>1. PICK t \in Terms : admin.todo = << Schedule(t) >>
    BY <1>4 DEF HandlersSound, AdminInv, ScheduleProject
  <2>2. admin.todo[1].type # "BidPlaced" /\ admin.todo[1] \in Event
    BY <1>4, <2>1, ScheduleTodo DEF Schedule, ScheduleProject
  <2> QED BY <1>1, <1>2, <1>4, <2>2 DEF ScheduleProject
<1>5. CASE WorkerProject
  <2>1. worker.pc = "project" /\ worker.todo[1] \in Event
    BY <1>5, WorkerTodo DEF WorkerProject
  <2>2. worker.todo[1].type # "BidPlaced"
    BY <2>1 DEF HandlersSound, WorkerInv, Start, Close
  <2> QED BY <1>1, <1>2, <1>5, <2>1, <2>2 DEF WorkerProject
<1>6. ASSUME row' # row
      PROVE  \/ \E b \in Bids : ProjectBidRow(b)
             \/ ScheduleProject \/ WorkerProject
  <2>1. ASSUME NEW b \in Bids, Arrive(b) \/ BidStep(b)
        PROVE  ProjectBidRow(b)
    BY <1>6, <2>1 DEF BidStep, Arrive, Acquire, Load, AppendBid, InsertBidRow,
                      PublishBid, RemoveClose, AddClose, Release, viewVars
  <2>2. ASSUME ScheduleLoad \/ AdminStep
        PROVE  ScheduleProject
    BY <1>6, <2>2 DEF AdminStep, ScheduleLoad, ScheduleAppend, ScheduleStart,
                      ScheduleClose, viewVars
  <2>3. ASSUME WorkerStep
        PROVE  WorkerProject
    BY <1>6, <2>3 DEF WorkerStep, WorkerLoad, WorkerAppend, PublishClosed,
                      FinishJob, viewVars
  <2>4. ~((\E k \in JobNames : TakeJob(k) \/ RecoverStalled(k))
            \/ ExpireLock \/ Crash \/ Tick \/ UNCHANGED vars)
    BY <1>6 DEF TakeJob, RecoverStalled, ExpireLock, Crash, Tick, vars, viewVars
  <2> QED BY <2>1, <2>2, <2>3, <2>4 DEF Next
<1> QED BY <1>1, <1>3, <1>4, <1>5, <1>6

\* "Redis lock per lot_id prevents concurrent bid race conditions": where no
\* handler outlives the 5 s of the lock, the highest bid shown never falls,
\* wherever the process dies.
THEOREM HighestNeverFallsUnderLock ==
  ASSUME ~LockMayExpire
  PROVE  Spec => HighestNeverFalls
<1>1. Init => LockSound
  BY DEF Init, NewRequest, LockSound, LockKept, CeilingInv, InHandler
<1>2. HandlersSound /\ HistoryKept /\ ToldKept /\ LockSound /\ [Next]_vars
        => LockSound'
  BY LockStep, CeilingStep DEF LockSound, ToldKept
<1>3. HandlersSound /\ HistoryKept /\ ToldKept /\ LockSound /\ [Next]_vars
        => [row'.highest >= row.highest]_row
  BY HighestStep
<1> QED BY <1>1, <1>2, <1>3, HandlersAlwaysSound, HistoryAlwaysKept,
           ToldAlwaysKept, PTL DEF Spec, HighestNeverFalls

-----------------------------------------------------------------------------
(***************************************************************************)
(* Why an open lot has a timer: TimerKept is inductive.                    *)
(***************************************************************************)

\* A lot opens by the hand of its start job, and of nobody else.
LEMMA OpenedByStart ==
  ASSUME HandlersSound, HistoryKept, [Next]_vars,
         ~(WorkerAppend /\ worker.job = "start")
  PROVE  /\ Current'.status \in Open => Current.status \in Open
         /\ NeverOpen => NeverOpen'
<1>1. ASSUME NEW e \in Event, Insert(e), LawfulNext(e), e.type # "AuctionStarted"
      PROVE  /\ Current'.status \in Open => Current.status \in Open
             /\ NeverOpen => NeverOpen'
  <2>1. PICK n \in Nat : n = Len(log)
    BY <1>1, StoreGrows
  <2>2. /\ Current = replay[n + 1] /\ Current \in Aggregate
        /\ Current' = replay'[n + 2] /\ Current' = ApplyEvent(Current, e)
        /\ \A i \in 1..(n + 1) : replay'[i] = replay[i]
        /\ Len(replay) = n + 1 /\ Len(replay') = n + 2
    <3>1. Len(log') = n + 1 /\ ReplayInv'
      BY <1>1, <2>1, InsertAppends DEF HandlersSound
    <3> QED BY <1>1, <2>1, <3>1, StoreGrows DEF HandlersSound, ReplayInv
  <2>3. ASSUME Current'.status \in Open PROVE Current.status \in Open
    <3>1. CASE e.type = "AuctionScheduled"
      <4>1. e.type # "AuctionScheduled" \/ Current'.status = "SCHEDULED"
        BY <2>2, <3>1 DEF ApplyEvent, Aggregate
      <4> QED BY <2>3, <3>1, <4>1 DEF Open
    <3>2. CASE e.type = "BidPlaced"
      <4>1. Current'.status = Current.status
        BY <2>2, <3>2 DEF ApplyEvent, Aggregate
      <4> QED BY <2>3, <4>1
    <3>3. CASE e.type = "TimerExtended"
      <4>1. n > 0 /\ log[n].type = "BidPlaced" /\ n \in Position
        BY <1>1, <2>1, <3>3 DEF LawfulNext, Position
      <4>2. LawfulBid(n) /\ replay[n + 1] = ApplyEvent(replay[n], log[n])
        BY <2>1, <4>1 DEF HandlersSound, LawfulHistory, ReplayInv, Position
      <4>3. replay[n].status \in Open
        BY <4>2 DEF LawfulBid, Refusal, Met
      <4>4. replay[n] \in Aggregate
        <5>1. n - 1 \in 0..Len(log) /\ (n - 1) + 1 = n
          BY <2>1, <4>1
        <5> QED BY <5>1, StoreReadable DEF HandlersSound
      <4>5. replay[n + 1].status = replay[n].status
        BY <4>1, <4>2, <4>4 DEF ApplyEvent, Aggregate
      <4> QED BY <2>2, <4>3, <4>5
    <3>4. CASE e.type = "AuctionClosed"
      <4>1. Current'.status \in {"SOLD", "UNSOLD"}
        BY <2>2, <3>4 DEF ApplyEvent, Aggregate
      <4> QED BY <2>3, <4>1 DEF Open
    <3> QED BY <1>1, <3>1, <3>2, <3>3, <3>4, EventTypes
  <2>4. ASSUME NeverOpen PROVE NeverOpen'
    <3>1. Current'.status \notin Open
      BY <2>2, <2>3, <2>4 DEF NeverOpen
    <3>2. \A i \in 1..(n + 2) : i = n + 2 \/ i \in 1..(n + 1)
      OBVIOUS
    <3> QED BY <2>2, <2>4, <3>1, <3>2 DEF NeverOpen
  <2> QED BY <2>3, <2>4
<1>2. ASSUME UNCHANGED storeVars
      PROVE  /\ Current'.status \in Open => Current.status \in Open
             /\ NeverOpen => NeverOpen'
  BY <1>2 DEF storeVars, Current, NeverOpen
<1>3. ASSUME NEW e \in Event, Insert(e), e.type = "AuctionStarted"
      PROVE  FALSE
  <2>1. \A f \in Event : Insert(f) => f = e
    BY <1>3, StoreGrows
  <2>2. ASSUME NEW b \in Bids, AppendBid(b),
               ~Conflict(request[b].base, request[b].done + 1)
        PROVE  FALSE
    <3> DEFINE q == request[b]
    <3>1. q.pc = "append" /\ q.pc \in Decided /\ Insert(q.todo[q.done + 1])
      BY <2>2 DEF AppendBid, Decided
    <3>2. q.done = 0 \/ (q.done = 1 /\ Len(q.todo) = 2)
      BY <3>1, AppendPlace
    <3>3. /\ q.todo[1] \in BidEvents
          /\ Len(q.todo) = 2 => q.todo[2] \in ExtendedEvents
      BY <3>1, DecidedTodo
    <3>4. q.todo[q.done + 1] \in Event
      BY <2>2, <3>1, AppendLawful
    <3> QED BY <1>3, <2>1, <3>1, <3>2, <3>3, <3>4 DEF BidEvents, ExtendedEvents
  <2>3. ASSUME ScheduleAppend, ~Conflict(admin.base, 1) PROVE FALSE
    <3>1. admin.pc # "idle" /\ Insert(admin.todo[1])
      BY <2>3 DEF ScheduleAppend
    <3>2. PICK t \in Terms : admin.todo = << Schedule(t) >>
      BY <3>1 DEF HandlersSound, AdminInv
    <3>3. admin.todo[1] \in Event
      BY <3>1, ScheduleTodo
    <3> QED BY <1>3, <2>1, <3>1, <3>2, <3>3 DEF Schedule
  <2>4. ASSUME WorkerAppend, ~Conflict(worker.base, 1) PROVE FALSE
    <3>1. worker.pc = "append" /\ Insert(worker.todo[1])
      BY <2>4 DEF WorkerAppend
    <3>2. worker.todo = << Close(replay[worker.base + 1]) >>
      BY <2>4, <3>1 DEF HandlersSound, WorkerInv
    <3>3. worker.todo[1] \in Event
      BY <3>1, WorkerTodo
    <3> QED BY <1>3, <2>1, <3>1, <3>2, <3>3 DEF Close
  <2>5. ~UNCHANGED storeVars
    <3>1. Len(log') = Len(log) + 1 /\ Len(log) \in Nat
      BY <1>3, StoreGrows
    <3> QED BY <3>1 DEF storeVars
  <2>6. ASSUME NEW b \in Bids, Arrive(b) \/ BidStep(b) PROVE FALSE
    BY <2>2, <2>5, <2>6
       DEF BidStep, Arrive, Acquire, Load, AppendBid, ProjectBidRow,
           InsertBidRow, PublishBid, RemoveClose, AddClose, Release
  <2>7. CASE ScheduleLoad \/ AdminStep
    BY <2>3, <2>5, <2>7 DEF AdminStep, ScheduleLoad, ScheduleAppend,
       ScheduleProject, ScheduleStart, ScheduleClose
  <2>8. CASE WorkerStep
    BY <2>4, <2>5, <2>8 DEF WorkerStep, WorkerLoad, WorkerAppend,
       WorkerProject, PublishClosed, FinishJob
  <2>9. CASE \/ \E k \in JobNames : TakeJob(k) \/ RecoverStalled(k)
             \/ ExpireLock \/ Crash \/ Tick \/ UNCHANGED vars
    BY <2>5, <2>9 DEF TakeJob, RecoverStalled, ExpireLock, Crash, Tick, vars,
                      storeVars
  <2> QED BY <2>6, <2>7, <2>8, <2>9 DEF Next
<1>4. \/ UNCHANGED storeVars
      \/ \E e \in Event : Insert(e) /\ LawfulNext(e)
  BY StoreStep DEF HistoryKept
<1> QED BY <1>1, <1>2, <1>3, <1>4

\* What the invariant reads of the jobs, the worker and the admin's request.
LEMMA TimerTypes ==
  ASSUME HandlersSound
  PROVE  /\ jobs \in [JobNames -> Job] /\ "start" \in JobNames /\ "close" \in JobNames
         /\ jobs["start"] \in Job /\ jobs["close"] \in Job
         /\ worker \in WorkerState /\ admin \in AdminState /\ now \in Nat
         /\ admin.pc # "idle" => admin.todo[1].terms \in Terms
                                 /\ admin.todo[1].terms.startAt \in Nat
                                 /\ admin.todo[1].terms.endAt \in Nat
<1>1. TypeOK
  BY DEF HandlersSound
<1>2. ASSUME admin.pc # "idle"
      PROVE  /\ admin.todo[1].terms \in Terms
             /\ admin.todo[1].terms.startAt \in Nat
             /\ admin.todo[1].terms.endAt \in Nat
  BY <1>2, ScheduleTodo, TermsAssumption
<1> QED BY <1>1, <1>2 DEF TypeOK, JobNames

\* A step that moves neither jobs nor worker keeps TimerKept, whatever it
\* stores: no such step opens the lot, and the clock only runs forward.
LEMMA TimerUnmoved ==
  ASSUME HandlersSound, HistoryKept, TimerKept, [Next]_vars,
         jobs' = jobs, worker' = worker, crashes' = crashes,
         now' \in Nat, now <= now',
         admin' = admin \/ (admin.pc # "addClose" /\ admin'.pc # "addClose"),
         \A b \in Bids : request[b].pc = "add" => request'[b].pc = "add"
  PROVE  TimerKept'
<1>1. /\ Current'.status \in Open => Current.status \in Open
      /\ NeverOpen => NeverOpen'
  <2>1. ~WorkerAppend
    <3> SUFFICES ASSUME WorkerAppend PROVE worker' # worker
      OBVIOUS
    <3>1. worker \in WorkerState /\ worker.pc = "append"
      BY TimerTypes DEF WorkerAppend
    <3>2. worker'.pc \in {"project", "fail"}
      BY <3>1 DEF WorkerAppend, CommandRejected, WorkerGoto, WorkerState
    <3> QED BY <3>1, <3>2
  <2> QED BY <2>1, OpenedByStart
<1>2. JobsHeld'
  BY DEF TimerKept, JobsHeld
<1>3. StartInv'
  <2>1. ASSUME admin.pc = "addClose"
        PROVE  NewJob(admin.todo[1].terms.endAt, now).due
                 <= NewJob(admin.todo[1].terms.endAt, now').due
    BY <2>1, TimerTypes DEF NewJob
  <2>2. ASSUME admin.pc = "addClose"
        PROVE  /\ NewJob(admin.todo[1].terms.endAt, now).due \in Nat
               /\ NewJob(admin.todo[1].terms.endAt, now').due \in Nat
    BY <2>2, TimerTypes DEF NewJob
  <2>3. jobs["start"].due \in Nat
    BY TimerTypes DEF Job
  <2>4. admin.pc = "addClose" => admin' = admin
    OBVIOUS
  <2>5. ASSUME jobs["start"].state = "delayed", jobs["close"].state = "absent"
        PROVE  /\ admin'.pc = "addClose"
               /\ jobs["start"].due <= NewJob(admin'.todo[1].terms.endAt, now').due
    BY <2>1, <2>2, <2>3, <2>4, <2>5 DEF TimerKept, StartInv
  <2> QED BY <1>1, <2>5 DEF TimerKept, StartInv, Begun
<1>4. CloseInv'
  BY <1>1 DEF TimerKept, CloseInv
<1> QED BY <1>2, <1>3, <1>4 DEF TimerKept

\* Setting the state of one job leaves its due time and the other job alone.
LEMMA SetJobSets ==
  ASSUME HandlersSound, NEW k \in JobNames, NEW s \in JobStates, SetJob(k, s)
  PROVE  /\ jobs'[k].state = s /\ jobs'[k].due = jobs[k].due
         /\ \A j \in JobNames : j # k => jobs'[j] = jobs[j]
<1>1. jobs \in [JobNames -> Job] /\ jobs[k] \in Job
  BY TimerTypes
<1>2. jobs' = [jobs EXCEPT ![k] = [jobs[k] EXCEPT !.state = s]]
  BY DEF SetJob
<1>3. jobs'[k] = [jobs[k] EXCEPT !.state = s]
  BY <1>1, <1>2
<1> QED BY <1>1, <1>2, <1>3 DEF Job

\* Adding a job fills an empty place and leaves everything else alone.
LEMMA AddJobAdds ==
  ASSUME HandlersSound, NEW k \in JobNames, NEW at \in Nat,
         jobs' = AddJob(jobs, k, at)
  PROVE  /\ jobs'[k] = IF jobs[k].state = "absent" THEN NewJob(at, now)
                       ELSE jobs[k]
         /\ NewJob(at, now).state = "delayed"
         /\ NewJob(at, now).due = IF at > now THEN at ELSE now
         /\ \A j \in JobNames : j # k => jobs'[j] = jobs[j]
<1>1. jobs \in [JobNames -> Job]
  BY TimerTypes
<1> QED BY <1>1 DEF AddJob, Added, NewJob

\* The start job is added before the close job, and is due no later.
LEMMA TimerScheduled ==
  ASSUME StartsFirst, HandlersSound, HistoryKept, TimerKept, [Next]_vars,
         ScheduleStart \/ ScheduleClose
  PROVE  TimerKept'
<1> DEFINE terms == admin.todo[1].terms
<1>1. /\ admin.pc # "idle" /\ UNCHANGED storeVars /\ worker' = worker
      /\ crashes' = crashes /\ now' = now /\ request' = request
  BY DEF ScheduleStart, ScheduleClose, envVars
<1>2. /\ Current' = Current
      /\ NeverOpen' <=> NeverOpen
  BY <1>1 DEF storeVars, Current, NeverOpen
<1>3. /\ jobs["start"] \in Job /\ jobs["close"] \in Job
      /\ "start" \in JobNames /\ "close" \in JobNames /\ now \in Nat
      /\ terms.startAt \in Nat /\ terms.endAt \in Nat
      /\ terms.startAt <= terms.endAt /\ admin \in AdminState
  BY <1>1, TimerTypes DEF StartsFirst
<1>4. CASE ScheduleStart
  <2>1. /\ admin'.pc = "addClose" /\ admin'.todo = admin.todo
        /\ admin.pc = "addStart"
    BY <1>3, <1>4 DEF ScheduleStart, AdminState
  <2>2. /\ jobs'["close"] = jobs["close"]
        /\ jobs'["start"] = IF jobs["start"].state = "absent"
                            THEN NewJob(terms.startAt, now) ELSE jobs["start"]
        /\ NewJob(terms.startAt, now).state = "delayed"
        /\ NewJob(terms.startAt, now).due
             = IF terms.startAt > now THEN terms.startAt ELSE now
    BY <1>3, <1>4, AddJobAdds DEF ScheduleStart
  <2>3. NewJob(terms.endAt, now).due
             = IF terms.endAt > now THEN terms.endAt ELSE now
    BY DEF NewJob
  <2>4. JobsHeld'
    BY <1>1, <2>2 DEF TimerKept, JobsHeld, JobNames
  <2>5. CASE jobs["start"].state = "absent"
    <3>1. /\ jobs["close"].state = "absent" /\ NeverOpen
          /\ Current.status \notin Open \/ worker.job # "close"
             \/ worker.pc \notin {"project", "publish", "complete"}
      BY <2>5 DEF TimerKept, StartInv, CloseInv, Begun
    <3>2. StartInv'
      BY <1>1, <1>2, <1>3, <2>1, <2>2, <2>3, <2>5, <3>1 DEF StartInv, Begun
    <3>3. CloseInv'
      BY <1>1, <1>2, <2>1, <2>2, <3>1 DEF CloseInv
    <3> QED BY <2>4, <3>2, <3>3 DEF TimerKept
  <2>6. CASE jobs["start"].state # "absent"
    <3>1. jobs'["start"] = jobs["start"] /\ jobs'["close"] = jobs["close"]
      BY <2>2, <2>6
    <3>2. ~(jobs["start"].state = "delayed" /\ jobs["close"].state = "absent")
      BY <2>1 DEF TimerKept, StartInv
    <3>3. StartInv'
      BY <1>2, <2>6, <3>1, <3>2 DEF TimerKept, StartInv, Begun
    <3>4. CloseInv'
      BY <1>1, <1>2, <2>1, <3>1 DEF TimerKept, CloseInv
    <3> QED BY <2>4, <3>3, <3>4 DEF TimerKept
  <2> QED BY <2>5, <2>6
<1>5. CASE ScheduleClose
  <2>1. admin'.pc = "idle" /\ admin.pc = "addClose"
    BY <1>5 DEF ScheduleClose, AdminIdle
  <2>2. /\ jobs'["start"] = jobs["start"]
        /\ jobs'["close"] = IF jobs["close"].state = "absent"
                            THEN NewJob(terms.endAt, now) ELSE jobs["close"]
        /\ NewJob(terms.endAt, now).state = "delayed"
    BY <1>3, <1>5, AddJobAdds DEF ScheduleClose
  <2>3. JobsHeld'
    BY <1>1, <2>2 DEF TimerKept, JobsHeld, JobNames
  <2>4. jobs["start"].state # "absent"
    BY <2>1 DEF TimerKept, StartInv
  <2>5. jobs'["close"].state # "absent"
    BY <2>2
  <2>6. StartInv'
    BY <1>1, <1>2, <2>2, <2>4, <2>5 DEF TimerKept, StartInv, Begun
  <2>7. CloseInv'
    <3>1. jobs'["close"].state = "completed" => jobs["close"].state = "completed"
      BY <2>2
    <3> QED BY <1>1, <1>2, <2>5, <3>1 DEF TimerKept, CloseInv
  <2> QED BY <2>3, <2>6, <2>7 DEF TimerKept
<1> QED BY <1>4, <1>5

\* A bid that extends the lot takes the close job away and puts another in
\* its place; no bid is decided on before the start job has run.
LEMMA TimerReplaced ==
  ASSUME HandlersSound, HistoryKept, TimerKept,
         NEW b \in Bids, RemoveClose(b) \/ AddClose(b)
  PROVE  TimerKept'
<1>1. /\ request[b].pc \in Decided /\ UNCHANGED storeVars /\ worker' = worker
      /\ admin' = admin /\ crashes' = crashes /\ now' = now
  BY DEF RemoveClose, AddClose, Decided, envVars
<1>2. /\ Current' = Current
      /\ NeverOpen' <=> NeverOpen
  BY <1>1 DEF storeVars, Current, NeverOpen
<1>3. /\ jobs \in [JobNames -> Job] /\ "start" \in JobNames /\ "close" \in JobNames
      /\ request \in [Bids -> Request]
  BY TimerTypes DEF HandlersSound, TypeOK
<1>4. Begun
  <2>1. /\ request[b].base + 1 \in 1..Len(replay)
        /\ replay[request[b].base + 1].status \in Open
    <3>1. /\ request[b].base \in Nat /\ request[b].base <= Len(log)
          /\ Refusal(replay[request[b].base + 1], request[b].user,
                     request[b].amount) = "none"
      BY <1>1, DecidedTodo
    <3>2. Len(replay) = Len(log) + 1 /\ Len(log) \in Nat
      BY StoreReadable DEF HandlersSound, ReplayInv
    <3> QED BY <3>1, <3>2 DEF Refusal
  <2>2. ~NeverOpen
    BY <2>1 DEF NeverOpen
  <2> QED BY <2>2 DEF TimerKept, StartInv
<1>5. CASE RemoveClose(b) /\ jobs' = jobs
  <2>1. \A c \in Bids : request[c].pc = "add" => request'[c].pc = "add"
    BY <1>3, <1>5 DEF RemoveClose, Goto, Answer, Become
  <2>2. JobsHeld' /\ StartInv' /\ CloseInv'
    BY <1>1, <1>2, <1>5, <2>1 DEF TimerKept, JobsHeld, StartInv, CloseInv, Begun
  <2> QED BY <2>2 DEF TimerKept
<1>6. CASE RemoveClose(b) /\ jobs' # jobs
  <2>1. /\ Removable(jobs["close"]) /\ jobs' = [jobs EXCEPT !["close"] = NoJob]
        /\ Goto(b, "add")
    BY <1>6 DEF RemoveClose
  <2>2. /\ jobs'["start"] = jobs["start"] /\ jobs'["close"].state = "absent"
        /\ jobs["close"].state # "active"
    BY <1>3, <2>1 DEF NoJob, Removable
  <2>3. request'[b].pc = "add"
    BY <1>3, <2>1 DEF Goto, Become, Request
  <2>4. JobsHeld'
    BY <1>1, <2>2 DEF TimerKept, JobsHeld, JobNames
  <2>5. StartInv' /\ CloseInv'
    BY <1>1, <1>2, <1>4, <2>2, <2>3 DEF TimerKept, StartInv, CloseInv, Begun
  <2> QED BY <2>4, <2>5 DEF TimerKept
<1>7. CASE AddClose(b)
  <2>1. request[b].todo[2].endAt \in Nat
    <3>1. request[b].pc = "add"
      BY <1>7 DEF AddClose
    <3>2. Len(request[b].todo) = 2
      BY <3>1 DEF HandlersSound, BidInv
    <3> QED BY <1>1, <3>2, DecidedTodo DEF ExtendedEvents
  <2>2. /\ jobs'["start"] = jobs["start"]
        /\ jobs'["close"].state \in {"delayed", jobs["close"].state}
        /\ jobs'["close"].state # "absent"
    <3>1. /\ jobs'["close"] = IF jobs["close"].state = "absent"
                              THEN NewJob(request[b].todo[2].endAt, now)
                              ELSE jobs["close"]
          /\ NewJob(request[b].todo[2].endAt, now).state = "delayed"
          /\ jobs'["start"] = jobs["start"]
      BY <1>3, <1>7, <2>1, AddJobAdds DEF AddClose
    <3> QED BY <3>1
  <2>3. jobs["close"].state = "absent" \/ jobs'["close"] = jobs["close"]
    BY <1>3, <1>7, <2>1, AddJobAdds DEF AddClose
  <2>4. JobsHeld'
    BY <1>1, <2>2, <2>3 DEF TimerKept, JobsHeld, JobNames
  <2>5. StartInv' /\ CloseInv'
    BY <1>1, <1>2, <1>4, <2>2 DEF TimerKept, StartInv, CloseInv, Begun
  <2> QED BY <2>4, <2>5 DEF TimerKept
<1> QED BY <1>5, <1>6, <1>7

\* The worker takes the start job first: the close job, due no earlier, is
\* behind it.
LEMMA TimerTaken ==
  ASSUME HandlersSound, TimerKept, NEW k \in JobNames, TakeJob(k)
  PROVE  TimerKept'
<1>1. /\ worker.pc = "idle" /\ Ready(k) /\ SetJob(k, "active")
      /\ UNCHANGED storeVars /\ admin' = admin /\ request' = request
      /\ crashes' = crashes /\ now' = now
      /\ worker'.pc = "load" /\ worker'.job = k
  BY DEF TakeJob, envVars, WorkerIdle
<1>2. /\ Current' = Current
      /\ NeverOpen' <=> NeverOpen
  BY <1>1 DEF storeVars, Current, NeverOpen
<1>3. /\ jobs'[k].state = "active" /\ jobs'[k].due = jobs[k].due
      /\ \A j \in JobNames : j # k => jobs'[j] = jobs[j]
      /\ "start" \in JobNames /\ "close" \in JobNames
      /\ jobs["start"].due \in Nat /\ jobs["close"].due \in Nat /\ now \in Nat
  BY <1>1, SetJobSets, TimerTypes DEF JobStates, Job
<1>4. /\ jobs[k].state = "delayed" /\ jobs[k].due <= now
      /\ \A j \in JobNames : Due(j) => ~Before(j, k)
      /\ \A j \in JobNames : jobs[j].state \notin {"active", "waiting"}
  BY <1>1 DEF TimerKept, JobsHeld, Ready, Due, IsDue
<1>5. JobsHeld'
  BY <1>1, <1>3, <1>4 DEF TimerKept, JobsHeld
<1>6. CASE k = "start"
  <2>1. jobs["close"].state \in {"absent", "delayed"}
    BY <1>4, <1>6 DEF TimerKept, StartInv, Begun
  <2>2. StartInv' /\ CloseInv'
    BY <1>1, <1>2, <1>3, <1>4, <1>6, <2>1
       DEF TimerKept, StartInv, CloseInv, Begun
  <2> QED BY <1>5, <2>2 DEF TimerKept
<1>7. CASE k = "close"
  <2>1. jobs'["start"] = jobs["start"]
    BY <1>3, <1>7
  <2>2. jobs["start"].state # "delayed"
    <3> SUFFICES ASSUME jobs["start"].state = "delayed" PROVE FALSE
      OBVIOUS
    <3>1. jobs["start"].due <= jobs["close"].due
      BY <1>4, <1>7 DEF TimerKept, StartInv
    <3>2. Due("start") /\ Before("start", "close")
      BY <1>3, <1>4, <1>7, <3>1 DEF Due, IsDue, Before
    <3> QED BY <1>3, <1>4, <1>7, <3>2
  <2>3. jobs["start"].state # "absent" /\ jobs["start"].state # "active"
    BY <1>3, <1>4, <1>7 DEF TimerKept, StartInv
  <2>4. Begun
    BY <1>4, <1>7, <2>2, <2>3, TimerTypes
       DEF TimerKept, JobsHeld, Begun, Job, JobStates, JobNames
  <2>5. StartInv' /\ CloseInv'
    BY <1>1, <1>2, <1>3, <1>7, <2>1, <2>3, <2>4
       DEF TimerKept, StartInv, CloseInv, Begun
  <2> QED BY <1>5, <2>5 DEF TimerKept
<1> QED BY <1>6, <1>7 DEF JobNames

\* A job the worker is through with: a close job that is completed has found
\* the lot settled or has settled it.
LEMMA TimerFinished ==
  ASSUME HandlersSound, TimerKept, FinishJob
  PROVE  TimerKept'
<1> DEFINE k == worker.job
           s == IF worker.pc = "complete" THEN "completed" ELSE "failed"
<1>1. /\ worker.pc \in {"complete", "fail"} /\ SetJob(k, s)
      /\ worker'.pc = "idle" /\ worker'.job = "none"
      /\ UNCHANGED storeVars /\ admin' = admin /\ request' = request
      /\ crashes' = crashes /\ now' = now
  BY DEF FinishJob, envVars, WorkerIdle
<1>2. /\ Current' = Current
      /\ NeverOpen' <=> NeverOpen
  BY <1>1 DEF storeVars, Current, NeverOpen
<1>3. k \in JobNames /\ "start" \in JobNames /\ "close" \in JobNames
  BY <1>1, TimerTypes DEF HandlersSound, WorkerInv
<1>4. /\ jobs'[k].state = s /\ jobs'[k].due = jobs[k].due
      /\ \A j \in JobNames : j # k => jobs'[j] = jobs[j]
      /\ jobs[k].state = "active"
  <2>1. s \in JobStates
    BY DEF JobStates
  <2>2. jobs[k].state = "active"
    BY <1>1, <1>3 DEF TimerKept, JobsHeld
  <2> QED BY <1>1, <1>3, <2>1, <2>2, SetJobSets
<1>5. s \in {"completed", "failed"}
  OBVIOUS
<1>6. s = "completed" /\ k = "close" => Current.status \notin Open
  BY <1>1 DEF TimerKept, CloseInv
<1>7. \A j \in JobNames : j # k => jobs[j].state # "active"
  BY DEF TimerKept, JobsHeld
<1> HIDE DEF s
<1>8. JobsHeld'
  BY <1>1, <1>4, <1>5, <1>7 DEF TimerKept, JobsHeld
<1>9. StartInv' /\ CloseInv'
  <2>1. CASE k = "start"
    <3>1. jobs'["close"] = jobs["close"] /\ jobs["start"].state = "active"
      BY <1>3, <1>4, <2>1
    <3> QED BY <1>1, <1>2, <1>4, <1>5, <2>1, <3>1
            DEF TimerKept, StartInv, CloseInv, Begun
  <2>2. CASE k = "close"
    <3>1. jobs'["start"] = jobs["start"] /\ jobs["close"].state = "active"
      BY <1>3, <1>4, <2>2
    <3> QED BY <1>1, <1>2, <1>4, <1>5, <1>6, <2>2, <3>1
            DEF TimerKept, StartInv, CloseInv, Begun
  <2> QED BY <1>3, <2>1, <2>2 DEF JobNames
<1> QED BY <1>8, <1>9 DEF TimerKept

\* The worker on its way through a job: the start job opens the lot while the
\* close job is still to come, the close job leaves a lot that takes no bids.
LEMMA TimerWorked ==
  ASSUME HandlersSound, HistoryKept, TimerKept, [Next]_vars,
         WorkerLoad \/ WorkerAppend \/ WorkerProject \/ PublishClosed
  PROVE  TimerKept'
<1>1. /\ worker.pc # "idle" /\ jobs' = jobs /\ admin' = admin
      /\ request' = request /\ crashes' = crashes /\ now' = now
      /\ worker.job \in JobNames /\ worker \in WorkerState
      /\ "start" \in JobNames /\ "close" \in JobNames
  <2>1. worker.pc # "idle"
    BY DEF WorkerLoad, WorkerAppend, WorkerProject, PublishClosed
  <2> QED BY <2>1, TimerTypes
          DEF WorkerLoad, WorkerAppend, WorkerProject, PublishClosed, envVars,
              HandlersSound, WorkerInv
<1>2. worker'.job = worker.job /\ worker'.pc # "idle"
  BY <1>1 DEF WorkerLoad, WorkerAppend, WorkerProject, PublishClosed,
              CommandRejected, WorkerGoto, WorkerState
<1>3. jobs[worker.job].state = "active"
  BY <1>1 DEF TimerKept, JobsHeld
<1>4. JobsHeld'
  BY <1>1, <1>2 DEF TimerKept, JobsHeld
<1>5. CASE worker.job = "start"
  <2>1. /\ jobs["start"].state = "active"
        /\ jobs["close"].state \in {"absent", "delayed"}
    BY <1>3, <1>5 DEF TimerKept, StartInv
  <2> QED BY <1>1, <1>2, <1>4, <1>5, <2>1
          DEF TimerKept, StartInv, CloseInv, Begun
<1>6. CASE worker.job = "close"
  <2>1. /\ Current'.status \in Open => Current.status \in Open
        /\ NeverOpen => NeverOpen'
    BY <1>6, OpenedByStart
  <2>2. ASSUME worker'.pc \in {"project", "publish", "complete"}
        PROVE  Current'.status \notin Open
    <3>1. CASE WorkerLoad
      <4>1. AlreadyClosed
        BY <1>1, <1>6, <2>2, <3>1 DEF WorkerLoad, WorkerGoto, WorkerState
      <4> QED BY <2>1, <4>1 DEF AlreadyClosed, TerminalStatuses, Open
    <3>2. CASE WorkerAppend
      <4>1. Insert(worker.todo[1]) /\ worker.pc = "append"
        BY <1>1, <2>2, <3>2
           DEF WorkerAppend, CommandRejected, WorkerGoto, WorkerState
      <4>2. worker.todo[1] \in Event /\ worker.todo[1].type = "AuctionClosed"
        BY <1>6, <4>1, WorkerTodo DEF HandlersSound, WorkerInv, Close
      <4>3. Current \in Aggregate /\ Current' = ApplyEvent(Current, worker.todo[1])
        BY <4>1, <4>2, StoreGrows
      <4>4. Current'.status \in {"SOLD", "UNSOLD"}
        BY <4>2, <4>3 DEF ApplyEvent, Aggregate
      <4> QED BY <4>4 DEF Open
    <3>3. CASE WorkerProject \/ PublishClosed
      <4>1. worker.pc \in {"project", "publish"}
        BY <3>3 DEF WorkerProject, PublishClosed
      <4> QED BY <1>6, <2>1, <4>1 DEF TimerKept, CloseInv
    <3> QED BY <3>1, <3>2, <3>3
  <2>3. StartInv'
    BY <1>1, <2>1 DEF TimerKept, StartInv, Begun
  <2>4. CloseInv'
    BY <1>1, <1>2, <1>6, <2>1, <2>2 DEF TimerKept, CloseInv
  <2> QED BY <1>4, <2>3, <2>4 DEF TimerKept
<1> QED BY <1>1, <1>5, <1>6 DEF JobNames

\* Without a crash, every step keeps TimerKept.
LEMMA TimerStep ==
  ASSUME StartsFirst, MaxCrashes = 0,
         HandlersSound, HistoryKept, TimerKept, [Next]_vars
  PROVE  TimerKept'
<1>1. now \in Nat /\ now + 1 \in Nat /\ now <= now + 1
  BY TimerTypes
<1>2. ASSUME NEW b \in Bids, Arrive(b) \/ BidStep(b),
             ~RemoveClose(b), ~AddClose(b)
      PROVE  TimerKept'
  <2>1. /\ jobs' = jobs /\ worker' = worker /\ admin' = admin
        /\ crashes' = crashes /\ now' = now /\ request[b].pc # "add"
    BY <1>2 DEF BidStep, Arrive, Acquire, Load, AppendBid, ProjectBidRow,
                InsertBidRow, PublishBid, Release, envVars
  <2>2. \A c \in Bids : c # b => request'[c] = request[c]
    BY <1>2 DEF BidStep, Arrive, Acquire, Load, AppendBid, AppendRejected,
                ProjectBidRow, InsertBidRow, PublishBid, Release, Answer, Goto,
                Become, HandlersSound, TypeOK
  <2>3. \A c \in Bids : request[c].pc = "add" => request'[c].pc = "add"
    BY <2>1, <2>2
  <2> QED BY <1>1, <2>1, <2>3, TimerUnmoved
<1>3. CASE ScheduleLoad \/ ScheduleAppend \/ ScheduleProject
  <2>1. /\ jobs' = jobs /\ worker' = worker /\ request' = request
        /\ crashes' = crashes /\ now' = now
    BY <1>3 DEF ScheduleLoad, ScheduleAppend, ScheduleProject, envVars
  <2>2. admin.pc # "addClose" /\ admin'.pc # "addClose"
    BY <1>3, TimerTypes
       DEF ScheduleLoad, ScheduleAppend, ScheduleProject, AdminIdle, AdminState
  <2> QED BY <1>1, <2>1, <2>2, TimerUnmoved
<1>4. CASE ExpireLock \/ Tick \/ UNCHANGED vars
  <2>1. /\ jobs' = jobs /\ worker' = worker /\ request' = request
        /\ admin' = admin /\ crashes' = crashes
        /\ now' = now \/ now' = now + 1
    BY <1>4 DEF ExpireLock, Tick, vars, envVars
  <2> QED BY <1>1, <2>1, TimerUnmoved
<1>5. ~Crash
  BY DEF Crash, TimerKept, JobsHeld
<1>6. \A k \in JobNames : ~RecoverStalled(k)
  BY DEF RecoverStalled, TimerKept, JobsHeld
<1>7. CASE ScheduleStart \/ ScheduleClose
  BY <1>7, TimerScheduled
<1>8. ASSUME NEW b \in Bids, RemoveClose(b) \/ AddClose(b) PROVE TimerKept'
  BY <1>8, TimerReplaced
<1>9. ASSUME NEW k \in JobNames, TakeJob(k) PROVE TimerKept'
  BY <1>9, TimerTaken
<1>10. CASE WorkerStep
  BY <1>10, TimerWorked, TimerFinished DEF WorkerStep
<1> QED BY <1>2, <1>3, <1>4, <1>5, <1>6, <1>7, <1>8, <1>9, <1>10
        DEF Next, AdminStep

\* With an empty store no job is queued, and no lot needs one.
LEMMA TimerInit ==
  ASSUME Init
  PROVE  TimerKept
<1>1. /\ \A k \in JobNames : jobs[k].state = "absent"
      /\ "start" \in JobNames /\ "close" \in JobNames
      /\ worker.pc = "idle" /\ worker.job = "none" /\ admin.pc = "idle"
      /\ crashes = 0
  BY DEF Init, NoJob, JobNames, WorkerIdle, AdminIdle
<1>2. NeverOpen
  BY DEF Init, NeverOpen, Fresh, Open
<1> QED BY <1>1, <1>2
        DEF TimerKept, JobsHeld, StartInv, CloseInv, Begun

\* The start job runs once and before the close job, and only a handler that
\* will put another in its place takes the close job away.  (No crash, and no
\* lot that ends before it starts.)
THEOREM TimerAlwaysKept ==
  ASSUME StartsFirst, MaxCrashes = 0
  PROVE  Spec => []TimerKept
<1>1. Init => TimerKept
  BY TimerInit
<1>2. HandlersSound /\ HistoryKept /\ TimerKept /\ [Next]_vars => TimerKept'
  BY TimerStep
<1> QED BY <1>1, <1>2, HandlersAlwaysSound, HistoryAlwaysKept, PTL DEF Spec

\* An open lot has a close job that will run, one that failed, or a handler
\* that is about to add one, however the bids that extend it interleave with
\* each other, with the worker and with another schedule, whoever loses the
\* lock and whether or not the broker fails.  (No crash, and no lot that ends
\* before it starts.)
THEOREM OpenAlwaysHasTimer ==
  ASSUME StartsFirst, MaxCrashes = 0
  PROVE  Spec => []OpenHasTimer
<1>1. HandlersSound /\ TimerKept => OpenHasTimer
  <2> SUFFICES ASSUME HandlersSound, TimerKept, Current.status \in Open
               PROVE  OpenHasTimer
    BY DEF OpenHasTimer
  <2>1. ~NeverOpen
    BY StoreReadable DEF NeverOpen, Current, HandlersSound, ReplayInv
  <2>2. jobs["start"].state # "absent" /\ jobs["close"].state # "completed"
    BY <2>1 DEF TimerKept, StartInv, CloseInv, Begun
  <2>3. jobs["close"].state \in {"absent", "delayed", "active", "failed"}
    BY <2>2, TimerTypes DEF TimerKept, JobsHeld, Job, JobStates
  <2> QED BY <2>2, <2>3 DEF TimerKept, CloseInv, OpenHasTimer
<1> QED BY <1>1, HandlersAlwaysSound, TimerAlwaysKept, PTL

-----------------------------------------------------------------------------
(***************************************************************************)
(* Why the pages tell one story: StoryKept is inductive.                   *)
(***************************************************************************)

\* Whose hand a stored event is from: a bid's first INSERT is of the bid, the
\* worker's is of what its job is for.
LEMMA InsertedBy ==
  ASSUME HandlersSound, HistoryKept, [Next]_vars, NEW e \in Event, Insert(e)
  PROVE  /\ LawfulNext(e)
         /\ e.type = "BidPlaced" =>
              \E b \in Bids : /\ request[b].pc = "append" /\ request[b].done = 0
                              /\ e.bid = b
         /\ e.type = "AuctionStarted" => WorkerAppend /\ worker.job = "start"
         /\ e.type = "AuctionClosed" => WorkerAppend /\ worker.job = "close"
<1>1. \A f \in Event : Insert(f) => f = e
  BY StoreGrows
<1>2. ~UNCHANGED storeVars
  <2>1. Len(log') = Len(log) + 1 /\ Len(log) \in Nat
    BY StoreGrows
  <2> QED BY <2>1 DEF storeVars
<1>3. LawfulNext(e)
  BY <1>1, <1>2, StoreStepBy
<1>4. ASSUME NEW b \in Bids, AppendBid(b),
             ~Conflict(request[b].base, request[b].done + 1)
      PROVE  \/ e.type = "TimerExtended"
             \/ /\ e.type = "BidPlaced" /\ e.bid = b
                /\ request[b].pc = "append" /\ request[b].done = 0
  <2> DEFINE q == request[b]
  <2>1. q.pc = "append" /\ q.pc \in Decided /\ Insert(q.todo[q.done + 1])
    BY <1>4 DEF AppendBid, Decided
  <2>2. q.done = 0 \/ (q.done = 1 /\ Len(q.todo) = 2)
    BY <2>1, AppendPlace
  <2>3. /\ q.todo[1] = BidPlaced(b, q.user, q.amount, q.placedAt)
        /\ Len(q.todo) = 2 => q.todo[2] \in ExtendedEvents
    BY <2>1, DecidedTodo
  <2>4. e = q.todo[q.done + 1]
    BY <1>1, <1>4, <2>1, AppendLawful
  <2> QED BY <2>1, <2>2, <2>3, <2>4 DEF BidPlaced, ExtendedEvents
<1>5. ASSUME ScheduleAppend, ~Conflict(admin.base, 1)
      PROVE  e.type = "AuctionScheduled"
  <2>1. admin.pc # "idle" /\ Insert(admin.todo[1])
    BY <1>5 DEF ScheduleAppend
  <2>2. PICK t \in Terms : admin.todo = << Schedule(t) >>
    BY <2>1 DEF HandlersSound, AdminInv
  <2>3. e = admin.todo[1]
    BY <1>1, <2>1, ScheduleTodo
  <2> QED BY <2>2, <2>3 DEF Schedule
<1>6. ASSUME WorkerAppend, ~Conflict(worker.base, 1)
      PROVE  \/ e.type = "AuctionStarted" /\ worker.job = "start"
             \/ e.type = "AuctionClosed" /\ worker.job = "close"
  <2>1. worker.pc = "append" /\ Insert(worker.todo[1])
    BY <1>6 DEF WorkerAppend
  <2>2. e = worker.todo[1]
    BY <1>1, <2>1, WorkerTodo
  <2> QED BY <2>1, <2>2 DEF HandlersSound, WorkerInv, Start, Close
<1>7. ASSUME NEW b \in Bids, Arrive(b) \/ BidStep(b)
      PROVE  AppendBid(b) /\ ~Conflict(request[b].base, request[b].done + 1)
  BY <1>2, <1>7
     DEF BidStep, Arrive, Acquire, Load, AppendBid, ProjectBidRow,
         InsertBidRow, PublishBid, RemoveClose, AddClose, Release
<1>8. CASE ScheduleLoad \/ AdminStep
  BY <1>2, <1>3, <1>5, <1>8 DEF AdminStep, ScheduleLoad, ScheduleAppend,
     ScheduleProject, ScheduleStart, ScheduleClose
<1>9. CASE WorkerStep
  BY <1>2, <1>3, <1>6, <1>9 DEF WorkerStep, WorkerLoad, WorkerAppend,
     WorkerProject, PublishClosed, FinishJob
<1>10. CASE \/ \E k \in JobNames : TakeJob(k) \/ RecoverStalled(k)
            \/ ExpireLock \/ Crash \/ Tick \/ UNCHANGED vars
  BY <1>2, <1>10 DEF TakeJob, RecoverStalled, ExpireLock, Crash, Tick, vars,
                     storeVars
<1>11. CASE \E b \in Bids : Arrive(b) \/ BidStep(b)
  <2>1. PICK b \in Bids : /\ AppendBid(b)
                          /\ ~Conflict(request[b].base, request[b].done + 1)
    BY <1>7, <1>11
  <2> QED BY <1>3, <1>4, <2>1
<1> QED BY <1>8, <1>9, <1>10, <1>11 DEF Next

\* No bid is stored twice: only its own handler stores it, and only at its
\* first INSERT.
LEMMA BidsOnceStep ==
  ASSUME HandlersSound, HistoryKept, ToldKept, [Next]_vars, BidsOnce
  PROVE  BidsOnce'
<1>1. CASE UNCHANGED storeVars
  BY <1>1 DEF storeVars, BidsOnce, BidAt, Stored, Position
<1>2. ASSUME NEW e \in Event, Insert(e)
      PROVE  BidsOnce'
  <2>1. PICK n \in Nat : /\ n = Len(log) /\ Len(log') = n + 1
                         /\ log'[n + 1] = e
                         /\ \A j \in 1..n : log'[j] = log[j]
    BY <1>2, StoreGrows
  <2>2. \A j \in BidAt' : j \in BidAt \/ (j = n + 1 /\ e.type = "BidPlaced")
    BY <2>1 DEF BidAt, Stored, Position
  <2>3. \A j \in BidAt : log'[j] = log[j]
    BY <2>1 DEF BidAt, Stored, Position
  <2>4. e.type = "BidPlaced" => \A j \in BidAt : log[j].bid # e.bid
    BY <1>2, InsertedBy DEF ToldKept, ToldInv, NotStored
  <2> QED BY <2>1, <2>2, <2>3, <2>4 DEF BidsOnce
<1> QED BY <1>1, <1>2, StoreStepBy

\* The aggregate's count is the number of bids stored.
LEMMA CountKeptStep ==
  ASSUME HandlersSound, HistoryKept, [Next]_vars, CountKept
  PROVE  CountKept'
<1>1. CASE UNCHANGED storeVars
  <2>1. BidAt' = BidAt /\ Current' = Current
    BY <1>1 DEF storeVars, BidAt, Stored, Position, Current
  <2> QED BY <2>1 DEF CountKept
<1>2. ASSUME NEW e \in Event, Insert(e)
      PROVE  CountKept'
  <2>1. PICK n \in Nat : /\ n = Len(log) /\ Len(log') = n + 1
                         /\ log'[n + 1] = e
                         /\ \A j \in 1..n : log'[j] = log[j]
    BY <1>2, StoreGrows
  <2>2. Current \in Aggregate /\ Current' = ApplyEvent(Current, e)
    BY <1>2, StoreGrows
  <2>3. CASE e.type = "BidPlaced"
    <3>1. BidAt' = BidAt \cup {n + 1} /\ n + 1 \notin BidAt
      BY <2>1, <2>3 DEF BidAt, Stored, Position
    <3>2. IsFiniteSet(BidAt') /\ Cardinality(BidAt') = Cardinality(BidAt) + 1
      BY <3>1, FS_AddElement DEF CountKept
    <3>3. Current'.bidCount = Current.bidCount + 1
      BY <2>2, <2>3 DEF ApplyEvent, Aggregate
    <3> QED BY <3>2, <3>3 DEF CountKept
  <2>4. CASE e.type # "BidPlaced"
    <3>1. BidAt' = BidAt
      BY <2>1, <2>4 DEF BidAt, Stored, Position
    <3>2. Current'.bidCount = Current.bidCount
      BY <2>2, <2>4, EventTypes DEF ApplyEvent, Aggregate
    <3> QED BY <3>1, <3>2 DEF CountKept
  <2> QED BY <2>3, <2>4
<1> QED BY <1>1, <1>2, StoreStepBy

\* The start job comes from a stored schedule, and what has become of it lasts.
LEMMA StartLasts ==
  ASSUME HandlersSound, MaxCrashes = 0, TimerKept, AdminToldInv, [Next]_vars
  PROVE  /\ jobs["start"].state \in {"completed", "failed"} =>
              jobs'["start"] = jobs["start"]
         /\ jobs["start"].state = "absent" /\ jobs'["start"].state # "absent" =>
              Len(log) > 0
<1>1. /\ jobs \in [JobNames -> Job] /\ "start" \in JobNames
      /\ "close" \in JobNames /\ Len(log) \in Nat
  BY TimerTypes, StoreReadable DEF HandlersSound
<1>2. CASE jobs'["start"] = jobs["start"]
  BY <1>2
<1>3. ASSUME NEW k \in JobNames, TakeJob(k), jobs'["start"] # jobs["start"]
      PROVE  jobs["start"].state \notin {"completed", "failed", "absent"}
  <2>1. k = "start"
    BY <1>1, <1>3 DEF TakeJob, SetJob
  <2> QED BY <1>3, <2>1 DEF TakeJob, Ready, Due, IsDue
<1>4. ASSUME FinishJob, jobs'["start"] # jobs["start"]
      PROVE  jobs["start"].state = "active"
  <2>1. worker.job = "start" /\ worker.pc # "idle"
    BY <1>1, <1>4 DEF FinishJob, SetJob
  <2> QED BY <1>1, <2>1 DEF TimerKept, JobsHeld
<1>5. ASSUME ScheduleStart
      PROVE  Len(log) > 0 /\ (jobs["start"].state # "absent" =>
                                jobs'["start"] = jobs["start"])
  <2>1. StoredUpTo(admin.base, admin.todo, 1) /\ admin.base \in Nat
    BY <1>5 DEF ScheduleStart, AdminToldInv, HandlersSound, TypeOK, AdminState
  <2>2. Len(log) > 0
    BY <1>1, <2>1 DEF StoredUpTo
  <2> QED BY <1>1, <1>5, <2>2 DEF ScheduleStart, AddJob, Added
<1>6. ASSUME \/ ScheduleClose
             \/ \E b \in Bids : RemoveClose(b) \/ AddClose(b)
      PROVE  jobs'["start"] = jobs["start"]
  BY <1>1, <1>6 DEF ScheduleClose, RemoveClose, AddClose, AddJob
<1>7. ~Crash /\ \A k \in JobNames : ~RecoverStalled(k)
  BY DEF Crash, RecoverStalled, TimerKept, JobsHeld
<1>8. ASSUME jobs' # jobs
      PROVE  \/ \E k \in JobNames : TakeJob(k)
             \/ FinishJob \/ ScheduleStart \/ ScheduleClose
             \/ \E b \in Bids : RemoveClose(b) \/ AddClose(b)
  <2>1. ASSUME NEW b \in Bids, Arrive(b) \/ BidStep(b)
        PROVE  RemoveClose(b) \/ AddClose(b)
    BY <1>8, <2>1 DEF BidStep, Arrive, Acquire, Load, AppendBid, ProjectBidRow,
                      InsertBidRow, PublishBid, Release
  <2>2. ASSUME ScheduleLoad \/ AdminStep
        PROVE  ScheduleStart \/ ScheduleClose
    BY <1>8, <2>2 DEF AdminStep, ScheduleLoad, ScheduleAppend, ScheduleProject
  <2>3. ASSUME WorkerStep
        PROVE  FinishJob
    BY <1>8, <2>3 DEF WorkerStep, WorkerLoad, WorkerAppend, WorkerProject,
                      PublishClosed
  <2>4. ASSUME ExpireLock \/ Tick \/ UNCHANGED vars
        PROVE  FALSE
    BY <1>8, <2>4 DEF ExpireLock, Tick, vars
  <2> QED BY <1>7, <2>1, <2>2, <2>3, <2>4 DEF Next
<1> QED BY <1>2, <1>3, <1>4, <1>5, <1>6, <1>8

\* An event is stored behind a schedule, or is one: a lot is started, bid for
\* and settled by jobs that a stored schedule has added.
LEMMA BehindSchedule ==
  ASSUME HandlersSound, HistoryKept, TimerKept, IncrementKept, [Next]_vars,
         NEW e \in Event, Insert(e), e.type # "AuctionScheduled"
  PROVE  Len(log) > 0
<1>1. /\ Len(log) \in Nat /\ Current \in Aggregate
      /\ Len(replay) = Len(log) + 1 /\ LawfulNext(e)
  BY StoreReadable, InsertedBy DEF HandlersSound, ReplayInv
<1>2. jobs["start"].state # "absent" => Len(log) > 0
  BY DEF IncrementKept
<1>3. CASE e.type = "BidPlaced"
  <2>1. Current.status \in Open
    BY <1>1, <1>3 DEF LawfulNext, Refusal
  <2>2. ~NeverOpen
    BY <1>1, <2>1 DEF NeverOpen, Current
  <2> QED BY <1>2, <2>2 DEF TimerKept, StartInv, Begun
<1>4. CASE e.type = "TimerExtended"
  BY <1>1, <1>4 DEF LawfulNext
<1>5. CASE e.type \in {"AuctionStarted", "AuctionClosed"}
  <2>1. worker.pc # "idle" /\ worker.job \in JobNames
    BY <1>5, InsertedBy DEF WorkerAppend, HandlersSound, WorkerInv
  <2>2. jobs[worker.job].state = "active"
    BY <2>1 DEF TimerKept, JobsHeld
  <2>3. jobs["start"].state # "absent"
    BY <2>1, <2>2 DEF TimerKept, StartInv, JobNames
  <2> QED BY <1>2, <2>3
<1> QED BY <1>3, <1>4, <1>5, EventTypes

\* A lot that is anything but a draft asks for a raise.
LEMMA IncrementStep ==
  ASSUME HandlersSound, HistoryKept, MaxCrashes = 0, TimerKept, AdminToldInv,
         RaisesAsked, IncrementKept, [Next]_vars
  PROVE  IncrementKept'
<1>1. jobs'["start"].state # "absent" => Len(log') > 0
  <2>1. Len(log) \in Nat /\ Len(log') \in Nat /\ Len(log) <= Len(log')
    BY StoreKeeps
  <2>2. jobs'["start"].state # "absent" => Len(log) > 0
    BY StartLasts DEF IncrementKept
  <2> QED BY <2>1, <2>2
<1>2. CASE UNCHANGED storeVars
  BY <1>1, <1>2 DEF storeVars, IncrementKept
<1>3. ASSUME NEW e \in Event, Insert(e)
      PROVE  IncrementKept'
  <2>1. PICK n \in Nat :
          /\ n = Len(log) /\ Len(log') = n + 1
          /\ \A i \in 1..(n + 1) : replay'[i] = replay[i]
          /\ Current = replay[n + 1] /\ Current \in Aggregate
          /\ replay'[n + 2] = ApplyEvent(Current, e)
    BY <1>3, StoreGrows
  <2>2. ApplyEvent(Current, e).increment > 0
    <3>1. CASE e.type = "AuctionScheduled"
      <4>1. e.terms \in Terms /\ e.terms.increment > 0
        BY <3>1, EventTypes DEF ScheduledEvents, RaisesAsked
      <4>2. ApplyEvent(Current, e).increment = e.terms.increment
        BY <2>1, <3>1 DEF ApplyEvent, Aggregate
      <4> QED BY <4>1, <4>2
    <3>2. CASE e.type # "AuctionScheduled"
      <4>1. n > 0
        BY <1>3, <2>1, <3>2, BehindSchedule
      <4>2. Current.increment > 0
        BY <2>1, <4>1 DEF IncrementKept
      <4>3. ApplyEvent(Current, e).increment = Current.increment
        BY <2>1, <3>2, EventTypes DEF ApplyEvent, Aggregate
      <4> QED BY <4>2, <4>3
    <3> QED BY <3>1, <3>2
  <2>3. ASSUME NEW i \in 1..(n + 1)
        PROVE  replay'[i + 1].increment > 0
    <3>1. CASE i = n + 1
      BY <2>1, <2>2, <3>1
    <3>2. CASE i \in 1..n
      <4>1. i + 1 \in 1..(n + 1)
        BY <2>1, <3>2
      <4> QED BY <2>1, <3>2, <4>1 DEF IncrementKept
    <3> QED BY <2>1, <3>1, <3>2
  <2> QED BY <1>1, <2>1, <2>3 DEF IncrementKept
<1> QED BY <1>2, <1>3, StoreStepBy

\* A verdict finds the start job behind it, and so nothing that would open the
\* lot again.
LEMMA StartOnceStep ==
  ASSUME HandlersSound, HistoryKept, MaxCrashes = 0, TimerKept, AdminToldInv,
         StartOnce, [Next]_vars
  PROVE  StartOnce'
<1>1. jobs["start"].state \in {"completed", "failed"} =>
        jobs'["start"].state \in {"completed", "failed"}
  BY StartLasts
<1>2. CASE UNCHANGED storeVars
  <2>1. VerdictAt' = VerdictAt /\ Position' = Position /\ log' = log
    BY <1>2 DEF storeVars, VerdictAt, Stored, Position
  <2> QED BY <1>1, <2>1 DEF StartOnce
<1>3. ASSUME NEW e \in Event, Insert(e)
      PROVE  StartOnce'
  <2>1. PICK n \in Nat : /\ n = Len(log) /\ Len(log') = n + 1
                         /\ log'[n + 1] = e
                         /\ \A j \in 1..n : log'[j] = log[j]
                         /\ Current = replay[n + 1]
    BY <1>3, StoreGrows
  <2>2. \A i \in VerdictAt' : i \in VerdictAt \/ (i = n + 1 /\ e.type = "AuctionClosed")
    BY <2>1 DEF VerdictAt, Stored, Position
  <2>3. ASSUME e.type \in {"AuctionStarted", "AuctionClosed"}
        PROVE  /\ worker.job \in JobNames /\ jobs[worker.job].state = "active"
               /\ worker.job = IF e.type = "AuctionStarted" THEN "start" ELSE "close"
    <3>1. worker.pc # "idle"
      BY <1>3, <2>3, InsertedBy DEF WorkerAppend
    <3>2. worker.job \in JobNames
      BY <3>1 DEF HandlersSound, WorkerInv
    <3> QED BY <1>3, <2>3, <3>1, <3>2, InsertedBy DEF TimerKept, JobsHeld
  <2>4. e.type = "AuctionClosed" => jobs["start"].state \in {"completed", "failed"}
    BY <2>3 DEF TimerKept, StartInv, Begun
  <2>5. VerdictAt' # {} => jobs'["start"].state \in {"completed", "failed"}
    BY <1>1, <2>2, <2>4 DEF StartOnce
  <2>6. e.type = "AuctionStarted" => VerdictAt = {}
    BY <2>3 DEF StartOnce
  <2>7. e.type = "BidPlaced" => VerdictAt = {}
    <3> SUFFICES ASSUME e.type = "BidPlaced", NEW i \in VerdictAt PROVE FALSE
      OBVIOUS
    <3>1. i \in 1..n /\ log[i].type = "AuctionClosed" /\ i \in Position
      BY <2>1 DEF VerdictAt, Stored, Position
    <3>2. replay[n + 1].status \in Open
      BY <1>3, <2>1, InsertedBy DEF LawfulNext, Refusal
    <3>3. PhaseAt(n)
      BY <2>1 DEF HistoryKept, PhaseKept
    <3>4. PICK k \in 1..n : i < k /\ log[k].type = "AuctionStarted"
      BY <3>1, <3>2, <3>3 DEF PhaseAt, Since
    <3> QED BY <2>1, <3>4 DEF StartOnce, Position
  <2>8. ASSUME NEW i \in VerdictAt', NEW j \in Position', i < j
        PROVE  log'[j].type \notin {"AuctionStarted", "BidPlaced"}
    <3>1. i \in Int /\ j \in 1..(n + 1)
      BY <2>1 DEF VerdictAt, Stored, Position
    <3>2. CASE j = n + 1
      <4>1. i \in VerdictAt
        BY <2>2, <2>8, <3>2
      <4> QED BY <2>1, <2>6, <2>7, <3>2, <4>1
    <3>3. CASE j # n + 1
      <4>1. j \in 1..n /\ log'[j] = log[j]
        BY <2>1, <3>1, <3>3
      <4>2. i \in VerdictAt
        BY <2>2, <2>8, <3>1, <4>1
      <4> QED BY <2>1, <2>8, <4>1, <4>2 DEF StartOnce, Position
    <3> QED BY <3>2, <3>3
  <2> QED BY <2>5, <2>8 DEF StartOnce
<1> QED BY <1>2, <1>3, StoreStepBy

\* What projecting an event does to the fields of a row.
LEMMA ProjectedRow ==
  ASSUME NEW r \in Row, NEW e \in Event
  PROVE  LET p == ProjectRow(r, e) IN
           /\ r.status # "DRAFT" => p.status # "DRAFT"
           /\ p.status = "ABSENT" => p = r
           /\ e.type # "BidPlaced" => p.highest = r.highest /\ p.count = r.count
           /\ e.type = "BidPlaced" =>
                p.status = r.status /\ p.winner = r.winner
           /\ e.type = "BidPlaced" /\ p # r => p.highest = e.amount
           /\ p.status = "SOLD" =>
                \/ p.status = r.status /\ p.winner = r.winner
                \/ /\ e.type = "AuctionClosed" /\ e.reserveMet
                   /\ p.winner = e.winner
<1>1. CASE e.type = "AuctionScheduled"
  BY <1>1 DEF ProjectRow, UpsertRow, Row
<1>2. CASE r.status = "ABSENT" /\ e.type # "AuctionScheduled"
  BY <1>2 DEF ProjectRow
<1>3. CASE r.status # "ABSENT" /\ e.type = "AuctionStarted"
  BY <1>3 DEF ProjectRow, UpdateRow, Row
<1>4. CASE r.status # "ABSENT" /\ e.type = "TimerExtended"
  BY <1>4 DEF ProjectRow, UpdateRow, Row
<1>5. CASE r.status # "ABSENT" /\ e.type = "BidPlaced"
  BY <1>5 DEF ProjectRow, UpdateRow, Row
<1>6. CASE r.status # "ABSENT" /\ e.type = "AuctionClosed"
  BY <1>6 DEF ProjectRow, UpdateRow, Row
<1> QED BY <1>1, <1>2, <1>3, <1>4, <1>5, <1>6, EventTypes

\* The bid that is being projected is the highest of all, and so the one the
\* aggregate shows.
LEMMA ProjectedHighest ==
  ASSUME HandlersSound, HistoryKept, LockSound, NEW b \in Bids,
         ProjectBidRow(b), row' # row
  PROVE  LET e == request[b].todo[request[b].done + 1] IN
           e.type = "BidPlaced" => row'.highest = Current.highestAmount
<1> DEFINE q == request[b]
           e == q.todo[q.done + 1]
           n == Len(log)
<1> SUFFICES ASSUME e.type = "BidPlaced" PROVE row'.highest = Current.highestAmount
  OBVIOUS
<1>1. /\ q.pc = "project" /\ q.pc \in Decided \ {"append"}
      /\ row' = ProjectRow(row, e)
      /\ row \in Row /\ n \in Nat /\ Current = replay[n + 1]
      /\ Current \in Aggregate
  BY StoreReadable DEF ProjectBidRow, Decided, HandlersSound, TypeOK
<1>2. /\ q.todo[1] = BidPlaced(b, q.user, q.amount, q.placedAt)
      /\ q.todo[1] \in BidEvents /\ q.amount \in Amounts
      /\ Len(q.todo) = 2 => q.todo[2] \in ExtendedEvents
  BY <1>1, DecidedTodo
<1>3. q.done = 0 /\ e = q.todo[1]
  BY <1>1, <1>2, AppendPlace DEF ExtendedEvents
<1>4. e \in Event /\ e.amount = q.amount /\ q.amount \in Nat
  BY <1>2, <1>3, AmountsAssumption DEF Event, BidPlaced
<1>5. row'.highest = q.amount
  BY <1>1, <1>4, ProjectedRow
<1>6. PICK i \in BidAt : log[i].amount = q.amount
  BY <1>1, StoredBid
<1>7. \A j \in BidAt : log[j].amount <= q.amount
  BY <1>1, <1>3 DEF LockSound, CeilingInv
<1>8. LeaderAt(n) /\ ~NoBidsUpTo(n) /\ i \in 1..n /\ log[i].type = "BidPlaced"
  BY <1>1, <1>6 DEF HistoryKept, LeaderKept, NoBidsUpTo, BidAt, Stored, Position
<1>9. PICK j \in 1..n : LeadsUpTo(j, n) /\ Current.highestAmount = log[j].amount
  BY <1>1, <1>8 DEF LeaderAt
<1>10. j \in BidAt /\ log[i].amount <= log[j].amount
  BY <1>8, <1>9 DEF LeadsUpTo, BidAt, Stored, Position
<1>11. Current.highestAmount <= q.amount /\ q.amount <= Current.highestAmount
  BY <1>6, <1>7, <1>9, <1>10
<1> QED BY <1>1, <1>4, <1>5, <1>11 DEF Aggregate

\* A row is updated by the handler that holds the event.
LEMMA RowMovedBy ==
  ASSUME HandlersSound, [Next]_vars, row' # row
  PROVE  /\ UNCHANGED storeVars
         /\ \/ \E b \in Bids : ProjectBidRow(b)
            \/ \E e \in Event : row' = ProjectRow(row, e) /\ e.type # "BidPlaced"
<1>1. ASSUME NEW b \in Bids, Arrive(b) \/ BidStep(b)
      PROVE  ProjectBidRow(b)
  BY <1>1 DEF BidStep, Arrive, Acquire, Load, AppendBid, InsertBidRow,
              PublishBid, RemoveClose, AddClose, Release, viewVars
<1>2. ASSUME ScheduleLoad \/ AdminStep
      PROVE  ScheduleProject
  BY <1>2 DEF AdminStep, ScheduleLoad, ScheduleAppend, ScheduleStart,
              ScheduleClose, viewVars
<1>3. ASSUME WorkerStep
      PROVE  WorkerProject
  BY <1>3 DEF WorkerStep, WorkerLoad, WorkerAppend, PublishClosed,
              FinishJob, viewVars
<1>4. ~((\E k \in JobNames : TakeJob(k) \/ RecoverStalled(k))
          \/ ExpireLock \/ Crash \/ Tick \/ UNCHANGED vars)
  BY DEF TakeJob, RecoverStalled, ExpireLock, Crash, Tick, vars, viewVars
<1>5. CASE ScheduleProject
  <2>1. PICK t \in Terms : admin.todo = << Schedule(t) >>
    BY <1>5 DEF HandlersSound, AdminInv, ScheduleProject
  <2>2. admin.todo[1].type # "BidPlaced" /\ admin.todo[1] \in Event
    BY <1>5, <2>1, ScheduleTodo DEF Schedule, ScheduleProject
  <2> QED BY <1>5, <2>2 DEF ScheduleProject
<1>6. CASE WorkerProject
  <2>1. worker.pc = "project" /\ worker.todo[1] \in Event
    BY <1>6, WorkerTodo DEF WorkerProject
  <2>2. worker.todo[1].type # "BidPlaced"
    BY <2>1 DEF HandlersSound, WorkerInv, Start, Close
  <2> QED BY <1>6, <2>1, <2>2 DEF WorkerProject
<1>7. CASE \E b \in Bids : ProjectBidRow(b)
  BY <1>7 DEF ProjectBidRow
<1> QED BY <1>1, <1>2, <1>3, <1>4, <1>5, <1>6, <1>7 DEF Next

\* A row that has counted every bid shows the highest: a bid stored behind its
\* back it has still to count, and the one it counts last is the highest.
LEMMA RowKeptStep ==
  ASSUME HandlersSound, HistoryKept, ToldKept, LockSound, RowKept, [Next]_vars
  PROVE  RowKept'
<1>1. /\ row \in Row /\ row.count \in Nat /\ Current.bidCount \in Nat
      /\ row.count <= Current.bidCount
  BY AggregateCounts DEF HandlersSound, TypeOK, Row, ToldKept, ReadModelSound
<1>2. \A i \in VerdictAt : i \in VerdictAt' /\ log'[i] = log[i]
  BY BidsKeep
<1>3. CASE row' = row
  <2>1. ASSUME row.count = Current'.bidCount, row.count > 0
        PROVE  row.highest = Current'.highestAmount
    <3>1. CASE UNCHANGED storeVars
      BY <2>1, <3>1 DEF storeVars, Current, RowKept
    <3>2. ASSUME NEW e \in Event, Insert(e)
          PROVE  row.highest = Current'.highestAmount
      <4>1. Current \in Aggregate /\ Current' = ApplyEvent(Current, e)
        BY <3>2, StoreGrows
      <4>2. e.type = "BidPlaced" => Current'.bidCount = Current.bidCount + 1
        BY <4>1 DEF ApplyEvent, Aggregate
      <4>3. e.type # "BidPlaced" => /\ Current'.bidCount = Current.bidCount
                                    /\ Current'.highestAmount = Current.highestAmount
        BY <4>1, EventTypes DEF ApplyEvent, Aggregate
      <4>4. e.type # "BidPlaced"
        BY <1>1, <2>1, <4>2
      <4> QED BY <2>1, <4>3, <4>4 DEF RowKept
    <3> QED BY <3>1, <3>2, StoreStepBy
  <2> QED BY <1>2, <1>3, <2>1 DEF RowKept
<1>4. CASE row' # row
  <2>1. /\ UNCHANGED storeVars /\ Current' = Current
        /\ \/ \E b \in Bids : ProjectBidRow(b)
           \/ \E e \in Event : row' = ProjectRow(row, e) /\ e.type # "BidPlaced"
    BY <1>4, RowMovedBy DEF storeVars, Current
  <2>2. PICK i \in 1..Len(log) : row' = ProjectRow(row, log[i])
    BY <1>4, ProjectsStored DEF ToldKept
  <2>3. log[i] \in Event /\ (log[i].type = "AuctionClosed" => i \in VerdictAt)
    BY DEF HandlersSound, TypeOK, VerdictAt, Stored, Position
  <2>4. row'.status # "DRAFT" /\ row'.status # "ABSENT"
    BY <1>1, <1>4, <2>2, <2>3, ProjectedRow DEF RowKept
  <2>5. row'.status = "SOLD" =>
          \E j \in VerdictAt : log[j].reserveMet /\ log[j].winner = row'.winner
    BY <1>1, <2>2, <2>3, ProjectedRow DEF RowKept
  <2>6. ASSUME NEW e \in Event, row' = ProjectRow(row, e), e.type # "BidPlaced"
        PROVE  row'.highest = row.highest /\ row'.count = row.count
    BY <1>1, <2>6, ProjectedRow
  <2>7. row'.count = Current.bidCount /\ row'.count > 0 =>
          row'.highest = Current.highestAmount
    <3>1. ASSUME NEW b \in Bids, ProjectBidRow(b)
          PROVE  \/ row'.highest = Current.highestAmount
                 \/ row'.highest = row.highest /\ row'.count = row.count
      <4> DEFINE q == request[b]
      <4>1. /\ row' = ProjectRow(row, q.todo[q.done + 1]) /\ q.pc = "project"
            /\ q.pc \in Decided
        BY <3>1 DEF ProjectBidRow, Decided
      <4>2. q.todo[q.done + 1] \in Event
        BY <4>1, DecidedTodo, AppendPlace DEF Event
      <4> QED BY <1>4, <2>6, <3>1, <4>1, <4>2, ProjectedHighest
    <3> QED BY <2>1, <2>6, <3>1 DEF RowKept
  <2>8. VerdictAt' = VerdictAt /\ log' = log
    BY <2>1 DEF storeVars, VerdictAt, Stored, Position
  <2> QED BY <2>1, <2>4, <2>5, <2>7, <2>8 DEF RowKept
<1> QED BY <1>3, <1>4

\* Every step keeps the story, where no process dies and no handler outlives
\* its lock.
LEMMA StoryStep ==
  ASSUME RaisesAsked, MaxCrashes = 0,
         HandlersSound, HistoryKept, ToldKept, LockSound, TimerKept, StoryKept,
         [Next]_vars
  PROVE  StoryKept'
<1>1. BidsOnce' /\ CountKept'
  BY BidsOnceStep, CountKeptStep DEF StoryKept
<1>2. IncrementKept' /\ StartOnce'
  BY IncrementStep, StartOnceStep DEF StoryKept, ToldKept
<1>3. RowKept'
  BY RowKeptStep DEF StoryKept
<1> QED BY <1>1, <1>2, <1>3 DEF StoryKept

\* With an empty store there is no row, no bid and no start to be told of.
LEMMA StoryInit ==
  ASSUME Init
  PROVE  StoryKept
<1>1. /\ log = << >> /\ Len(log) = 0 /\ BidAt = {} /\ VerdictAt = {}
      /\ Current = Fresh /\ jobs["start"].state = "absent" /\ row = AbsentRow
  BY DEF Init, BidAt, VerdictAt, Stored, Position, Current, NoJob, JobNames
<1>2. CountKept
  BY <1>1, FS_EmptySet DEF CountKept, Fresh
<1>3. BidsOnce /\ IncrementKept /\ StartOnce
  BY <1>1 DEF BidsOnce, IncrementKept, StartOnce
<1>4. RowKept
  BY <1>1 DEF RowKept, AbsentRow
<1> QED BY <1>2, <1>3, <1>4 DEF StoryKept

-----------------------------------------------------------------------------
(***************************************************************************)
(* What the pages make of it, once the projections have caught up.         *)
(***************************************************************************)

\* Numbers that do not go beyond a bound have a greatest among them.
LEMMA GreatestNumber ==
  ASSUME NEW S \in SUBSET Nat, S # {}, NEW n \in Nat, \A x \in S : x <= n
  PROVE  \E m \in S : \A x \in S : x <= m
<1> DEFINE T == {n - x : x \in S}
<1>1. T \subseteq Nat /\ T # {}
  <2>1. \A x \in S : x \in Nat /\ x <= n
    OBVIOUS
  <2>2. \A x \in S : n - x \in Nat
    BY <2>1
  <2>3. PICK x \in S : TRUE
    OBVIOUS
  <2>4. n - x \in T
    OBVIOUS
  <2> QED BY <2>2, <2>4
<1> HIDE DEF T
<1>2. \E y \in T : \A z \in T : ~(<<z, y>> \in OpToRel(<, Nat))
  BY <1>1, NatLessThanWellFounded, WFMin
<1>3. PICK y \in T : \A z \in T : ~(<<z, y>> \in OpToRel(<, Nat))
  BY <1>2
<1>4. \A z \in T : ~(z < y)
  BY <1>1, <1>3 DEF OpToRel
<1>5. PICK m \in S : y = n - m
  BY DEF T
<1>6. ASSUME NEW x \in S PROVE x <= m
  <2>1. n - x \in T
    BY DEF T
  <2>2. ~(n - x < n - m)
    BY <1>4, <1>5, <2>1
  <2> QED BY <2>2
<1> QED BY <1>6

\* Max is the number that is not exceeded.
LEMMA MaxIs ==
  ASSUME NEW S \in SUBSET Nat, NEW m \in S, \A x \in S : x <= m
  PROVE  Max(S) = m
<1>1. \E x \in S : \A y \in S : x >= y
  OBVIOUS
<1>2. Max(S) \in S /\ \A y \in S : Max(S) >= y
  BY <1>1 DEF Max
<1>3. m \in Nat /\ Max(S) \in Nat /\ Max(S) <= m /\ Max(S) >= m
  BY <1>2
<1> QED BY <1>3

\* What a sum over no element, and over one, comes to.
LEMMA SumOfOne ==
  ASSUME NEW r, Value(r) \in Int
  PROVE  /\ MapThenSumSet(Value, {}) = 0
         /\ MapThenSumSet(Value, {r}) = Value(r)
<1> DEFINE Sum(f) == [s \in SUBSET {r} |->
                        IF s = {} THEN 0
                        ELSE LET y == CHOOSE y \in s : TRUE
                             IN Value(y) + f[s \ {y}]]
           it == CHOOSE f : f = Sum(f)
           g == [s \in SUBSET {r} |-> IF s = {} THEN 0 ELSE Value(r)]
<1>1. \A s \in SUBSET {r} : s = {} \/ s = {r}
  OBVIOUS
<1>2. (CHOOSE y \in {r} : TRUE) = r
  OBVIOUS
<1>3. {r} \ {r} = {} /\ {r} \in SUBSET {r} /\ {} \in SUBSET {r} /\ {r} # {}
  OBVIOUS
<1>4. g = Sum(g)
  <2>1. Sum(g)[{}] = 0 /\ g[{}] = 0
    BY <1>3
  <2>2. Sum(g)[{r}] = Value(r) + g[{r} \ {r}] /\ g[{r}] = Value(r)
    BY <1>2, <1>3
  <2>3. \A s \in SUBSET {r} : Sum(g)[s] = g[s]
    BY <1>1, <1>3, <2>1, <2>2
  <2> QED BY <2>3
<1>5. it = Sum(it)
  <2> HIDE DEF g, Sum
  <2> QED BY <1>4
<1>6. it[{}] = 0
  <2>1. Sum(it)[{}] = 0
    BY <1>3
  <2> HIDE DEF it
  <2> QED BY <1>5, <2>1
<1>7. it[{r}] = Value(r)
  <2>1. Sum(it)[{r}] = Value(r) + it[{r} \ {r}]
    <3> HIDE DEF it
    <3> QED BY <1>2, <1>3
  <2> HIDE DEF it, Sum
  <2> QED BY <1>3, <1>5, <1>6, <2>1
<1>8. MapThenSumSet(Value, {r}) = it[{r}]
  BY DEF MapThenSumSet, MapThenFoldSet
<1>9. MapThenSumSet(Value, {}) = 0
  BY DEF MapThenSumSet, MapThenFoldSet
<1> QED BY <1>7, <1>8, <1>9

\* Bids told apart by their bidder number as many as the bids there are.
LEMMA CountedByBidder ==
  ASSUME NEW S, IsFiniteSet(S), NEW U, \A r \in S : r.user \in U
  PROVE  LET By(u) == {r \in S : r.user = u}
         IN  Cardinality(UNION {{u} \X (1..Cardinality(By(u))) : u \in U})
               = Cardinality(S)
<1> DEFINE By(u) == {r \in S : r.user = u}
           P == UNION {{u} \X (1..Cardinality(By(u))) : u \in U}
           nth == [u \in U |-> CHOOSE f : f \in Bijection(1..Cardinality(By(u)), By(u))]
           h == [p \in P |-> nth[p[1]][p[2]]]
<1>1. ASSUME NEW u \in U
      PROVE  nth[u] \in Bijection(1..Cardinality(By(u)), By(u))
  <2>1. ExistsBijection(1..Cardinality(By(u)), By(u))
    BY FS_Subset, FS_CardinalityType
  <2> HIDE DEF By
  <2> QED BY <2>1 DEF ExistsBijection
<1>2. \A p \in P : /\ p = << p[1], p[2] >> /\ p[1] \in U
                   /\ p[2] \in 1..Cardinality(By(p[1]))
  <2> HIDE DEF By
  <2> QED OBVIOUS
<1>3. \A u \in U : \A k \in 1..Cardinality(By(u)) : << u, k >> \in P
  <2> HIDE DEF By
  <2> QED OBVIOUS
<1> HIDE DEF P, nth
<1>4. ASSUME NEW p \in P
      PROVE  h[p] \in S /\ h[p].user = p[1]
  <2>1. nth[p[1]] \in [1..Cardinality(By(p[1])) -> By(p[1])]
    BY <1>1, <1>2 DEF Bijection, Injection
  <2>2. h[p] \in By(p[1])
    BY <1>2, <2>1
  <2> QED BY <2>2
<1>5. h \in [P -> S]
  BY <1>4
<1>6. ASSUME NEW p \in P, NEW q \in P, h[p] = h[q]
      PROVE  p = q
  <2>1. p[1] = q[1]
    BY <1>4, <1>6
  <2>2. nth[p[1]][p[2]] = nth[p[1]][q[2]]
    BY <1>6, <2>1
  <2>3. p[2] = q[2]
    <3>1. \A k, m \in 1..Cardinality(By(p[1])) :
            nth[p[1]][k] = nth[p[1]][m] => k = m
      <4>1. nth[p[1]] \in Bijection(1..Cardinality(By(p[1])), By(p[1]))
        BY <1>1, <1>2
      <4> HIDE DEF By
      <4> QED BY <4>1 DEF Bijection, Injection, IsInjective
    <3>2. /\ p[2] \in 1..Cardinality(By(p[1]))
          /\ q[2] \in 1..Cardinality(By(p[1]))
      BY <1>2, <2>1
    <3> HIDE DEF By
    <3> QED BY <2>2, <3>1, <3>2
  <2> QED BY <1>2, <2>1, <2>3
<1>7. ASSUME NEW r \in S PROVE \E p \in P : h[p] = r
  <2>1. r.user \in U /\ r \in By(r.user)
    OBVIOUS
  <2>2. PICK k \in 1..Cardinality(By(r.user)) : nth[r.user][k] = r
    BY <1>1, <2>1 DEF Bijection, Surjection
  <2>3. << r.user, k >> \in P
    BY <1>3, <2>1
  <2> QED BY <2>2, <2>3
<1>8. h \in Bijection(P, S)
  <2> HIDE DEF h
  <2> QED BY <1>5, <1>6, <1>7 DEF Bijection, Injection, Surjection, IsInjective
<1>9. IsFiniteSet(P)
  BY <1>8, FS_Injection DEF Bijection
<1>10. Cardinality(P) = Cardinality(S)
  BY <1>8, <1>9, FS_Bijection DEF ExistsBijection
<1> QED BY <1>10 DEF P

\* All that is known of a lot whose projections have caught up.
AllTold == /\ HandlersSound /\ HistoryKept /\ ToldKept /\ BidsRise /\ StoryKept
           /\ CaughtUp /\ bidRows # {}

\* The last bid is the highest, and the aggregate's.
LEMMA LastBidLeads ==
  ASSUME AllTold
  PROVE  \E l \in BidAt :
           /\ log[l].user = Current.highestUser
           /\ log[l].amount = Current.highestAmount
           /\ \A i \in BidAt : i # l => i < l /\ log[i].amount < log[l].amount
<1> DEFINE n == Len(log)
<1>1. /\ n \in Nat /\ Current = replay[n + 1]
      /\ \A i \in BidAt : i \in 1..n /\ log[i] \in Event /\ log[i].type = "BidPlaced"
  BY StoreReadable DEF AllTold, HandlersSound, TypeOK, BidAt, Stored, Position
<1>2. \A i \in BidAt : log[i].amount \in Nat
  BY <1>1, EventTypes, AmountsAssumption DEF BidEvents
<1>3. BidAt # {}
  BY DEF AllTold, ToldKept, ReadModelSound, BidRowsSound
<1>4. PICK l \in 1..n : /\ LeadsUpTo(l, n)
                        /\ Current.highestUser = log[l].user
                        /\ Current.highestAmount = log[l].amount
  <2>1. LeaderAt(n) /\ ~NoBidsUpTo(n)
    BY <1>1, <1>3 DEF AllTold, HistoryKept, LeaderKept, NoBidsUpTo
  <2> QED BY <1>1, <2>1 DEF LeaderAt
<1>5. l \in BidAt
  BY <1>4 DEF LeadsUpTo, BidAt, Stored, Position
<1>6. ASSUME NEW i \in BidAt, i # l
      PROVE  i < l /\ log[i].amount < log[l].amount
  <2>1. i <= l /\ i \in 1..n /\ i < l
    BY <1>1, <1>4, <1>6 DEF LeadsUpTo
  <2>2. log[l].amount >= log[i].amount + Met(l).increment
    BY <1>5, <2>1 DEF AllTold, BidsRise
  <2>3. replay[l].increment > 0 /\ replay[l].increment \in Nat
    <3>1. l - 1 \in 1..n /\ (l - 1) + 1 = l /\ l - 1 \in 0..n
      BY <1>1, <2>1
    <3>2. replay[(l - 1) + 1].increment > 0
      BY <3>1 DEF AllTold, StoryKept, IncrementKept
    <3>3. replay[(l - 1) + 1] \in Aggregate
      BY <3>1, StoreReadable DEF AllTold, HandlersSound
    <3> QED BY <3>1, <3>2, <3>3 DEF Aggregate
  <2> QED BY <1>2, <1>5, <2>1, <2>2, <2>3 DEF Met
<1> QED BY <1>4, <1>5, <1>6

\* The table of bids holds every bid of the store, once.
LEMMA TableCaughtUp ==
  ASSUME AllTold
  PROVE  /\ BidTable = {log[i] : i \in BidAt}
         /\ \A i \in BidAt : log[i] \in BidEvents /\ log[i].amount \in Nat \ {0}
                             /\ log[i].placedAt \in Nat /\ log[i].user \in Users
         /\ IsFiniteSet(BidTable) /\ Cardinality(BidTable) = Cardinality(BidAt)
         /\ Cardinality(BidHistory(TRUE)) = Cardinality(BidAt)
<1>1. BidTable = {log[i] : i \in BidAt}
  BY DEF BidTable, AllTold, CaughtUp
<1>2. \A i \in BidAt : /\ log[i] \in BidEvents /\ log[i].amount \in Nat \ {0}
                       /\ log[i].placedAt \in Nat /\ log[i].user \in Users
  <2> SUFFICES ASSUME NEW i \in BidAt
               PROVE  /\ log[i] \in BidEvents /\ log[i].amount \in Nat \ {0}
                      /\ log[i].placedAt \in Nat /\ log[i].user \in Users
    OBVIOUS
  <2>1. log[i] \in Event /\ log[i].type = "BidPlaced"
    BY DEF AllTold, HandlersSound, TypeOK, BidAt, Stored, Position
  <2>2. log[i] \in BidEvents
    BY <2>1, EventTypes
  <2> QED BY <2>2, AmountsAssumption DEF BidEvents
<1>3. /\ IsFiniteSet(BidAt)
      /\ \A i, j \in BidAt : log[i].bid = log[j].bid => i = j
  BY DEF AllTold, StoryKept, BidsOnce, CountKept
<1>4. IsFiniteSet(BidTable) /\ Cardinality(BidTable) = Cardinality(BidAt)
  <2> DEFINE f == [i \in BidAt |-> log[i]]
  <2>1. f \in Bijection(BidAt, BidTable)
    BY <1>1, <1>3 DEF Bijection, Injection, Surjection, IsInjective
  <2> HIDE DEF f
  <2> QED BY <1>3, <2>1, FS_Bijection DEF ExistsBijection
<1>5. Cardinality(BidHistory(TRUE)) = Cardinality(BidAt)
  <2> DEFINE line(r) == [id |-> r.bid, userId |-> r.user, amount |-> r.amount,
                         placedAt |-> r.placedAt]
             f == [i \in BidAt |-> line(log[i])]
  <2>1. BidHistory(TRUE) = {line(r) : r \in BidTable}
    BY DEF BidHistory
  <2>2. \A i, j \in BidAt : line(log[i]) = line(log[j]) => i = j
    <3>1. \A r, q : line(r) = line(q) => r.bid = q.bid
      OBVIOUS
    <3> QED BY <1>3, <3>1
  <2> HIDE DEF line
  <2>3. f \in [BidAt -> BidHistory(TRUE)]
    BY <1>1, <2>1
  <2>4. f \in Bijection(BidAt, BidHistory(TRUE))
    BY <1>1, <2>1, <2>2, <2>3 DEF Bijection, Injection, Surjection, IsInjective
  <2> HIDE DEF f
  <2> QED BY <1>3, <2>4, FS_Bijection DEF ExistsBijection
<1> QED BY <1>1, <1>2, <1>4, <1>5

\* The row has counted every bid, and shows the highest.
LEMMA RowCaughtUp ==
  ASSUME AllTold
  PROVE  /\ row.highest = Current.highestAmount /\ row.highest \in Nat \ {0}
         /\ row.count = Cardinality(BidAt)
         /\ row.status \in ActiveStatuses \cup {"SOLD", "UNSOLD"}
<1>1. PICK l \in BidAt : log[l].amount = Current.highestAmount
  BY LastBidLeads
<1>2. /\ IsFiniteSet(BidAt) /\ Cardinality(BidAt) \in Nat
      /\ Cardinality(BidAt) # 0 /\ row.count = Cardinality(BidAt)
      /\ Current.bidCount = Cardinality(BidAt)
  BY FS_CardinalityType, FS_EmptySet DEF AllTold, CaughtUp, StoryKept, CountKept
<1>3. row.highest = Current.highestAmount /\ row.status \notin {"DRAFT", "ABSENT"}
  BY <1>2 DEF AllTold, StoryKept, RowKept
<1>4. row \in Row
  BY DEF AllTold, HandlersSound, TypeOK
<1> QED BY <1>1, <1>2, <1>3, <1>4, TableCaughtUp DEF Row, Status, ActiveStatuses

\* The account page's query finds the leader, whoever asks.
LEMMA LeaderShown ==
  ASSUME AllTold
  PROVE  LeadingUsers = {Current.highestUser} /\ Current.highestUser \in BidderIds
<1>1. PICK l \in BidAt :
        /\ log[l].user = Current.highestUser
        /\ \A i \in BidAt : i # l => i < l /\ log[i].amount < log[l].amount
  BY LastBidLeads
<1>2. /\ BidTable = {log[i] : i \in BidAt}
      /\ \A i \in BidAt : log[i].amount \in Nat /\ log[i].placedAt \in Nat
  BY TableCaughtUp
<1>3. Leading(log[l])
  BY <1>1, <1>2 DEF Leading
<1>4. ASSUME NEW i \in BidAt, i # l PROVE ~Leading(log[i])
  <2>1. log[l] \in BidTable /\ log[i].amount < log[l].amount
    BY <1>1, <1>2, <1>4
  <2> QED BY <1>2, <1>4, <2>1 DEF Leading
<1>5. {q \in BidTable : Leading(q)} = {log[l]}
  BY <1>2, <1>3, <1>4
<1> QED BY <1>1, <1>2, <1>5 DEF LeadingUsers, BidderIds

\* A bidder's own best bid is the highest of all exactly if he leads.
LEMMA OwnBest ==
  ASSUME AllTold, NEW u \in BidderIds
  PROVE  AccountBid(u).amount = row.highest <=> u = Current.highestUser
<1> DEFINE S == {r.amount : r \in BidsBy(u)}
<1>1. PICK l \in BidAt :
        /\ log[l].user = Current.highestUser
        /\ log[l].amount = Current.highestAmount
        /\ \A i \in BidAt : i # l => i < l /\ log[i].amount < log[l].amount
  BY LastBidLeads
<1>2. /\ BidTable = {log[i] : i \in BidAt}
      /\ \A i \in BidAt : log[i].amount \in Nat
      /\ row.highest = log[l].amount
  BY <1>1, TableCaughtUp, RowCaughtUp
<1>3. \A a \in S : \E i \in BidAt : a = log[i].amount /\ log[i].user = u
  BY <1>2 DEF BidsBy
<1>4. \A i \in BidAt : log[i].user = u => log[i].amount \in S
  BY <1>2 DEF BidsBy
<1>5. S # {}
  BY <1>2, <1>4 DEF BidderIds
<1> HIDE DEF S
<1>6. S \in SUBSET Nat /\ \A a \in S : a <= log[l].amount
  BY <1>1, <1>2, <1>3
<1>7. PICK m \in S : \A a \in S : a <= m
  BY <1>2, <1>5, <1>6, GreatestNumber
<1>8. Max(S) = m
  BY <1>6, <1>7, MaxIs
<1>9. AccountBid(u).amount = m
  BY <1>8 DEF AccountBid, S
<1>10. CASE u = Current.highestUser
  <2>1. log[l].amount \in S
    BY <1>1, <1>4, <1>10
  <2>2. m = log[l].amount
    BY <1>2, <1>6, <1>7, <2>1
  <2> QED BY <1>2, <1>9, <1>10, <2>2
<1>11. CASE u # Current.highestUser
  <2>1. PICK i \in BidAt : m = log[i].amount /\ log[i].user = u
    BY <1>3
  <2>2. log[i].amount < log[l].amount
    BY <1>1, <1>11, <2>1
  <2>3. m # log[l].amount
    BY <1>2, <2>1, <2>2
  <2> QED BY <1>2, <1>9, <1>11, <2>3
<1> QED BY <1>10, <1>11

\* The winner a sold row names is the one who leads, at the verdict's amount.
LEMMA WinnerShown ==
  ASSUME AllTold, row.status = "SOLD"
  PROVE  /\ row.winner = Current.highestUser
         /\ \E i \in VerdictAt : /\ log[i].winner = row.winner
                                 /\ log[i].amount = row.highest
<1> DEFINE n == Len(log)
<1>1. PICK i \in VerdictAt : log[i].reserveMet /\ log[i].winner = row.winner
  BY DEF AllTold, StoryKept, RowKept
<1>2. PICK l \in BidAt :
        /\ log[l].user = Current.highestUser
        /\ log[l].amount = Current.highestAmount
        /\ \A k \in BidAt : k # l => k < l /\ log[k].amount < log[l].amount
  BY LastBidLeads
<1>3. /\ n \in Nat /\ i \in 1..n /\ l \in 1..n /\ i \in Position /\ l \in Position
      /\ log[i].type = "AuctionClosed" /\ log[l].type = "BidPlaced"
  BY StoreReadable DEF AllTold, HandlersSound, BidAt, VerdictAt, Stored, Position
<1>4. ~(i < l) /\ i # l
  BY <1>1, <1>3 DEF AllTold, StoryKept, StartOnce
<1>5. l \in 1..(i - 1) /\ i - 1 \in 0..n /\ (i - 1) + 1 = i
  BY <1>3, <1>4
<1>6. log[i] = Close(replay[i])
  BY <1>3 DEF AllTold, HandlersSound, LawfulHistory, LawfulClose, Met
<1>7. /\ log[i].winner = replay[i].highestUser
      /\ log[i].amount = replay[i].highestAmount
  BY <1>1, <1>6 DEF Close
<1>8. LeaderAt(i - 1) /\ ~NoBidsUpTo(i - 1)
  BY <1>3, <1>5 DEF AllTold, HistoryKept, LeaderKept, NoBidsUpTo
<1>9. PICK j \in 1..(i - 1) : /\ LeadsUpTo(j, i - 1)
                              /\ replay[i].highestUser = log[j].user
                              /\ replay[i].highestAmount = log[j].amount
  BY <1>5, <1>8 DEF LeaderAt
<1>10. j = l
  <2>1. j \in BidAt /\ l <= j
    BY <1>3, <1>5, <1>9 DEF LeadsUpTo, BidAt, Stored, Position
  <2> QED BY <1>2, <1>3, <1>5, <2>1
<1> QED BY <1>1, <1>2, <1>7, <1>9, <1>10, RowCaughtUp

\* Every bidder reads how he stands, on each of his pages.
LEMMA BiddersAgreed ==
  ASSUME AllTold
  PROVE  BiddersAgree
<1>1. \A u : u \in LeadingUsers <=> u = Current.highestUser
  BY LeaderShown
<1>2. ASSUME NEW u \in BidderIds
      PROVE  /\ AccountBid(u).isWinning <=> u = Current.highestUser
             /\ \A l \in BidsPage(u) :
                  /\ l.yourBid = l.currentBid <=> u = Current.highestUser
                  /\ (DashboardPage(u).leading = 1) <=> (l.status = "leading")
                  /\ (DashboardPage(u).active = 1) <=> (l.status # "closed")
  <2> DEFINE bid == AccountBid(u)
             badge == DeriveBidBadgeStatus(bid)
  <2>1. /\ bid.isWinning = (u \in LeadingUsers) /\ bid.status = row.status
        /\ bid.currentHighestBid = row.highest
    BY DEF AccountBid
  <2>2. bid.amount = row.highest <=> u = Current.highestUser
    BY OwnBest
  <2>3. BidsBy(u) # {}
    BY DEF BidderIds, BidsBy
  <2>4. /\ row.status \in ActiveStatuses \cup {"SOLD", "UNSOLD"}
        /\ row.status # "ABSENT"
    BY RowCaughtUp DEF ActiveStatuses
  <2> HIDE DEF bid
  <2>5. BidsPage(u) = {[yourBid |-> bid.amount, currentBid |-> bid.currentHighestBid,
                        status |-> badge, closes |-> bid.endAt]}
    BY <2>3, <2>4 DEF BidsPage, AccountBids, bid
  <2>6. /\ badge = "leading" <=> u \in LeadingUsers /\ row.status \in ActiveStatuses
        /\ badge # "closed" <=> row.status \in ActiveStatuses
    BY <2>1, <2>4 DEF DeriveBidBadgeStatus, TerminalStatuses, ActiveStatuses
  <2>7. /\ DashboardPage(u).leading
             = Count(u \in LeadingUsers /\ row.status \in ActiveStatuses)
        /\ DashboardPage(u).active
             = Count(BidsBy(u) # {} /\ row.status \in ActiveStatuses)
    BY DEF DashboardPage, UserStats
  <2>8. /\ DashboardPage(u).leading = 1 <=>
             u \in LeadingUsers /\ row.status \in ActiveStatuses
        /\ DashboardPage(u).active = 1 <=> row.status \in ActiveStatuses
    BY <2>3, <2>7 DEF Count
  <2> HIDE DEF badge
  <2>9. ASSUME NEW l \in BidsPage(u)
        PROVE  /\ l.yourBid = bid.amount /\ l.currentBid = row.highest
               /\ l.status = badge
    BY <2>1, <2>5
  <2>10. bid.isWinning <=> u = Current.highestUser
    BY <1>1, <2>1
  <2> QED BY <2>2, <2>6, <2>8, <2>9, <2>10 DEF bid
<1>3. row.count = Cardinality(UNION {{u} \X (1..UserStats(u).totalBids) : u \in Users})
  <2>1. /\ IsFiniteSet(BidTable) /\ \A r \in BidTable : r.user \in Users
        /\ Cardinality(BidTable) = row.count
    BY TableCaughtUp, RowCaughtUp
  <2>2. \A u : UserStats(u).totalBids = Cardinality({r \in BidTable : r.user = u})
    BY DEF UserStats, BidsBy
  <2>3. row.count = Cardinality(UNION {{u} \X
                      (1..Cardinality({r \in BidTable : r.user = u})) : u \in Users})
    BY <2>1, CountedByBidder
  <2>4. \A u : {u} \X (1..UserStats(u).totalBids)
                = {u} \X (1..Cardinality({r \in BidTable : r.user = u}))
    BY <2>2
  <2>5. {{u} \X (1..UserStats(u).totalBids) : u \in Users}
          = {{u} \X (1..Cardinality({r \in BidTable : r.user = u})) : u \in Users}
    BY <2>4, Zenon
  <2> QED BY <2>3, <2>5
<1> QED BY <1>2, <1>3 DEF BiddersAgree

\* The lot as the status query shows it: on one line, active or settled.
LEMMA OneLine ==
  ASSUME AllTold
  PROVE  LET l == [status |-> row.status, currentHighestBid |-> row.highest,
                   bidCount |-> row.count, endAt |-> row.endAt]
             active == row.status \in ActiveStatuses
         IN  /\ LotStatus = {l}
             /\ ActiveLots = IF active THEN {l} ELSE {}
             /\ ClosedResults = IF active THEN {}
                                ELSE {[finalBid |-> row.highest,
                                       reserveMet |-> row.status = "SOLD",
                                       winnerUserId |-> row.winner]}
             /\ UnsoldLots = IF row.status = "UNSOLD"
                             THEN {[highestBid |-> row.highest]} ELSE {}
<1> DEFINE l == [status |-> row.status, currentHighestBid |-> row.highest,
                 bidCount |-> row.count, endAt |-> row.endAt]
           active == row.status \in ActiveStatuses
<1>1. row.status \in ActiveStatuses \cup {"SOLD", "UNSOLD"}
  BY RowCaughtUp
<1>2. LotStatus = {l}
  BY <1>1 DEF LotStatus, ActiveStatuses
<1>3. /\ l.status = row.status /\ l.currentHighestBid = row.highest
      /\ active <=> row.status \notin TerminalStatuses
  BY <1>1 DEF ActiveStatuses, TerminalStatuses
<1> HIDE DEF l
<1>4. ActiveLots = IF active THEN {l} ELSE {}
  BY <1>2, <1>3 DEF ActiveLots
<1>5. {k \in LotStatus : k.status \in TerminalStatuses} = IF active THEN {} ELSE {l}
  BY <1>2, <1>3
<1>6. ClosedResults = IF active THEN {}
                      ELSE {[finalBid |-> row.highest,
                             reserveMet |-> row.status = "SOLD",
                             winnerUserId |-> row.winner]}
  BY <1>5 DEF ClosedResults
<1>7. {k \in LotStatus : k.status = "UNSOLD"}
        = IF row.status = "UNSOLD" THEN {l} ELSE {}
  BY <1>2, <1>3
<1>8. UnsoldLots = IF row.status = "UNSOLD" THEN {[highestBid |-> row.highest]}
                   ELSE {}
  BY <1>3, <1>7 DEF UnsoldLots
<1> QED BY <1>2, <1>4, <1>6, <1>8 DEF l

\* The live figures count the bids that the history lists, and the dashboard
\* counts the auctions that the list shows.
LEMMA AdminPagesAgreed ==
  ASSUME AllTold
  PROVE  /\ \A a \in AuctionDetailPage.live : a.bids = Cardinality(AuctionDetailPage.bids)
         /\ AuctionsTable = {} <=> row.status \notin ActiveStatuses
         /\ AdminDashboard(TRUE).activeAuctions = {Cardinality(AuctionsTable)}
<1> DEFINE l == [status |-> row.status, currentHighestBid |-> row.highest,
                 bidCount |-> row.count, endAt |-> row.endAt]
           active == row.status \in ActiveStatuses
<1>1. LotStatus = {l} /\ ActiveLots = IF active THEN {l} ELSE {}
  BY OneLine
<1>2. l.bidCount = row.count /\ ToSummary(l).bidCount = row.count
  BY DEF ToSummary
<1> HIDE DEF l
<1>3. \A a \in AuctionLiveStats : a.bids = row.count
  BY <1>1, <1>2 DEF AuctionLiveStats
<1>4. \A a \in AuctionDetailPage.live : a.bids = Cardinality(AuctionDetailPage.bids)
  BY <1>3, TableCaughtUp, RowCaughtUp DEF AuctionDetailPage
<1>5. AuctionsTable = IF active THEN {ToSummary(l)} ELSE {}
  BY <1>1 DEF AuctionsTable
<1>6. Cardinality(AuctionsTable) = Cardinality(ActiveLots)
  BY <1>1, <1>5, FS_Singleton, FS_EmptySet
<1>7. AdminDashboard(TRUE).activeAuctions = {Cardinality(ActiveLots)}
  BY DEF AdminDashboard, DashboardStats
<1> QED BY <1>4, <1>5, <1>6, <1>7

\* What the results add up to, of a lot that is active, sold or unsold.
LEMMA ResultsAddUp ==
  ASSUME AllTold
  PROVE  LET R == AuctionResults(TRUE)
             sold == row.status = "SOLD"
             settled == row.status \notin ActiveStatuses
         IN  /\ R.totalLots = IF settled THEN 1 ELSE 0
             /\ R.soldPercent = IF sold THEN 100 ELSE 0
             /\ R.totalValue = IF sold THEN row.highest ELSE 0
             /\ R.rows = IF settled
                         THEN {[finalBid |-> row.highest, reserveMet |-> sold,
                                winnerEmail |-> row.winner]}
                         ELSE {}
<1> DEFINE sold == row.status = "SOLD"
           settled == row.status \notin ActiveStatuses
           r == [finalBid |-> row.highest, reserveMet |-> sold,
                 winnerUserId |-> row.winner]
           C == ClosedResults
           met == {q \in C : q.reserveMet}
           line(q) == [finalBid |-> q.finalBid, reserveMet |-> q.reserveMet,
                       winnerEmail |-> IF q.winnerUserId = None THEN None
                                       ELSE Lookup(TRUE, q.winnerUserId)]
<1>1. /\ C = IF settled THEN {r} ELSE {}
      /\ sold => settled /\ row.highest \in Nat
  BY OneLine, RowCaughtUp DEF ActiveStatuses
<1>2. /\ r.reserveMet <=> sold
      /\ Value(r) = IF sold THEN row.highest ELSE 0
      /\ line(r) = [finalBid |-> row.highest, reserveMet |-> sold,
                    winnerEmail |-> row.winner]
  BY DEF Value, Lookup
<1>3. /\ AuctionResults(TRUE).totalLots = Cardinality(C)
      /\ AuctionResults(TRUE).soldPercent
           = IF C = {} THEN 0 ELSE (100 * Cardinality(met)) \div Cardinality(C)
      /\ AuctionResults(TRUE).totalValue = MapThenSumSet(Value, C)
      /\ AuctionResults(TRUE).rows = {line(q) : q \in C}
  BY DEF AuctionResults
<1>4. Value(r) \in Int
  BY <1>1, <1>2
<1> HIDE DEF r, line, C
<1>5. CASE settled
  <2>1. C = {r} /\ met = IF sold THEN {r} ELSE {}
    BY <1>1, <1>2, <1>5
  <2>2. Cardinality(C) = 1 /\ Cardinality(met) = IF sold THEN 1 ELSE 0
    BY <2>1, FS_Singleton, FS_EmptySet
  <2>3. MapThenSumSet(Value, C) = Value(r)
    BY <1>4, <2>1, SumOfOne
  <2>4. AuctionResults(TRUE).soldPercent = IF sold THEN 100 ELSE 0
    <3>1. C # {}
      BY <2>1
    <3>2. (100 * 1) \div 1 = 100 /\ (100 * 0) \div 1 = 0
      OBVIOUS
    <3> HIDE DEF met
    <3> QED BY <1>3, <2>2, <3>1, <3>2
  <2>5. {line(q) : q \in C} = {line(r)}
    BY <2>1
  <2> QED BY <1>2, <1>3, <1>5, <2>2, <2>3, <2>4, <2>5
<1>6. CASE ~settled
  <2>1. C = {} /\ ~sold
    BY <1>1, <1>6
  <2>2. MapThenSumSet(Value, C) = 0
    BY <1>4, <2>1, SumOfOne
  <2>3. {line(q) : q \in C} = {}
    BY <2>1
  <2> QED BY <1>3, <1>6, <2>1, <2>2, <2>3, FS_EmptySet
<1> QED BY <1>5, <1>6

\* The admin's pages report one sale, or none, to the bidder who leads.
LEMMA ReportsAgreed ==
  ASSUME AllTold
  PROVE  ReportsAgree
<1> DEFINE R == AuctionResults(TRUE)
           sold == row.status = "SOLD"
           settled == row.status \notin ActiveStatuses
<1>1. /\ R.totalLots = IF settled THEN 1 ELSE 0
      /\ R.soldPercent = IF sold THEN 100 ELSE 0
      /\ R.totalValue = IF sold THEN row.highest ELSE 0
      /\ R.rows = IF settled
                  THEN {[finalBid |-> row.highest, reserveMet |-> sold,
                         winnerEmail |-> row.winner]}
                  ELSE {}
  BY ResultsAddUp
<1>2. /\ row.highest = Current.highestAmount /\ row.highest \in Nat \ {0}
      /\ row.status \in ActiveStatuses \cup {"SOLD", "UNSOLD"}
  BY RowCaughtUp
<1> HIDE DEF R
<1>3. ASSUME NEW tab \in AuctionResultsTab(TRUE, TRUE)
      PROVE  /\ AuctionsTable = {} <=> tab.lots = 1
             /\ tab.sold = 100 <=> tab.value > 0
  <2>1. tab.lots = R.totalLots /\ tab.sold = R.soldPercent /\ tab.value = R.totalValue
    <3>1. AuctionResultsTab(TRUE, TRUE) =
            {[lots |-> R.totalLots, sold |-> R.soldPercent, value |-> R.totalValue,
              lines |-> R.rows]}
      BY DEF AuctionResultsTab, R
    <3>2. tab = [lots |-> R.totalLots, sold |-> R.soldPercent,
                 value |-> R.totalValue, lines |-> R.rows]
      BY <3>1
    <3> QED BY <3>2
  <2>2. AuctionsTable = {} <=> tab.lots = 1
    BY <1>1, <2>1, AdminPagesAgreed
  <2>3. tab.sold = 100 <=> tab.value > 0
    BY <1>1, <1>2, <2>1
  <2> QED BY <2>2, <2>3
<1>4. \A u : DashboardPage(u).won = 1 <=> row.winner = u /\ sold
  BY DEF DashboardPage, UserStats, Count
<1>5. UnsoldLotsTab(TRUE)
        = IF row.status = "UNSOLD" THEN {[highestBid |-> row.highest]} ELSE {}
  <2>1. UnsoldReport = {[highestBid |-> l.highestBid] : l \in UnsoldLots}
    BY DEF UnsoldReport
  <2>2. UnsoldLots = IF row.status = "UNSOLD" THEN {[highestBid |-> row.highest]} ELSE {}
    BY OneLine
  <2> QED BY <2>1, <2>2 DEF UnsoldLotsTab
<1>6. ASSUME NEW r \in R.rows
      PROVE  IF r.reserveMet
             THEN /\ LeadingUsers = {r.winnerEmail}
                  /\ \A u \in Users : DashboardPage(u).won = 1 <=> u = r.winnerEmail
                  /\ \E i \in VerdictAt : /\ log[i].winner = r.winnerEmail
                                          /\ log[i].amount = R.totalValue
                  /\ AccountBid(r.winnerEmail).amount = R.totalValue
                  /\ UnsoldLotsTab(TRUE) = {}
             ELSE /\ \A u \in Users : DashboardPage(u).won = 0
                  /\ R.totalValue = 0
                  /\ UnsoldLotsTab(TRUE) = {[highestBid |-> Current.highestAmount]}
  <2>1. /\ r.reserveMet = sold /\ r.winnerEmail = row.winner
        /\ row.status \in {"SOLD", "UNSOLD"}
    BY <1>1, <1>2, <1>6
  <2>2. CASE sold
    <3>1. /\ row.winner = Current.highestUser
          /\ \E i \in VerdictAt : /\ log[i].winner = row.winner
                                  /\ log[i].amount = row.highest
      BY <2>2, WinnerShown
    <3>2. LeadingUsers = {row.winner} /\ row.winner \in BidderIds
      BY <3>1, LeaderShown
    <3>3. AccountBid(row.winner).amount = row.highest
      BY <3>1, <3>2, OwnBest
    <3>4. R.totalValue = row.highest /\ UnsoldLotsTab(TRUE) = {} /\ r.reserveMet
      BY <1>1, <1>5, <2>1, <2>2
    <3>5. \A u \in Users : DashboardPage(u).won = 1 <=> u = r.winnerEmail
      BY <1>4, <2>1, <2>2
    <3> HIDE DEF sold
    <3> QED BY <2>1, <3>1, <3>2, <3>3, <3>4, <3>5
  <2>3. CASE ~sold
    <3>1. \A u : DashboardPage(u).won = 0
      BY <2>3 DEF DashboardPage, UserStats, Count
    <3> QED BY <1>1, <1>2, <1>5, <2>1, <2>3, <3>1
  <2> QED BY <2>2, <2>3
<1> QED BY <1>3, <1>6, AdminPagesAgreed DEF ReportsAgree, R

\* A bid is stored once and counted, nothing is bid after a verdict, and a row
\* that has counted every bid shows the highest.  (No crash, no handler that
\* outlives its lock, and schedules as the admin's form lets them through.)
THEOREM StoryAlwaysKept ==
  ASSUME StartsFirst, RaisesAsked, MaxCrashes = 0, ~LockMayExpire
  PROVE  Spec => []StoryKept
<1>1. Init => StoryKept /\ LockSound
  BY StoryInit DEF Init, NewRequest, LockSound, LockKept, CeilingInv, InHandler
<1>2. HandlersSound /\ HistoryKept /\ ToldKept /\ LockSound /\ [Next]_vars
        => LockSound'
  BY LockStep, CeilingStep DEF LockSound, ToldKept
<1>3. HandlersSound /\ HistoryKept /\ ToldKept /\ LockSound /\ TimerKept
        /\ StoryKept /\ [Next]_vars => StoryKept'
  BY StoryStep
<1> QED BY <1>1, <1>2, <1>3, HandlersAlwaysSound, HistoryAlwaysKept,
           ToldAlwaysKept, TimerAlwaysKept, PTL DEF Spec

\* Once the projections have caught up with the store, every page that is made
\* of the two tables tells the same story: the bidder's own pages who leads, the
\* admin's and the reports who has won and for how much, however the handlers
\* that wrote them interleaved.  (No crash, no handler that outlives its lock,
\* and schedules as the admin's form lets them through.)
THEOREM PagesAlwaysAgree ==
  ASSUME StartsFirst, RaisesAsked, MaxCrashes = 0, ~LockMayExpire
  PROVE  Spec => []PagesAgree
<1>1. HandlersSound /\ HistoryKept /\ ToldKept /\ BidsRise /\ StoryKept => PagesAgree
  BY BiddersAgreed, ReportsAgreed DEF AllTold, PagesAgree
<1> QED BY <1>1, HandlersAlwaysSound, HistoryAlwaysKept, ToldAlwaysKept,
           BidsAlwaysRise, StoryAlwaysKept, PTL
=============================================================================
