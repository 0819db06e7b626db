---------------------------- MODULE AuctionProofs ----------------------------
(***************************************************************************)
(* Machine-checked proofs about the auction engine, for any set of users,  *)
(* bids, amounts and schedules and for any bounds: HandlersSound is        *)
(* inductive, so that it and the properties it implies hold in every       *)
(* reachable state.                                                        *)
(***************************************************************************)
EXTENDS AuctionInvariant, AuctionImplementsBook, TLAPS

-----------------------------------------------------------------------------
(***************************************************************************)
(* The aggregate.                                                          *)
(***************************************************************************)

\* Replaying an event on an aggregate gives an aggregate.
LEMMA ApplyEventType ==
  ASSUME NEW agg \in Aggregate, NEW e \in Event
  PROVE  ApplyEvent(agg, e) \in Aggregate
<1>1. CASE e \in ScheduledEvents
  BY <1>1, TermsAssumption DEF ApplyEvent, Aggregate, Status, ScheduledEvents
<1>2. CASE e \in StartedEvents
  BY <1>2 DEF ApplyEvent, Aggregate, Status, StartedEvents
<1>3. CASE e \in BidEvents
  <2>1. /\ e.type = "BidPlaced" /\ e.amount \in Nat
        /\ e.bid \in Bids /\ e.user \in Users
    BY <1>3, AmountsAssumption DEF BidEvents
  <2>2. ApplyEvent(agg, e) =
          [agg EXCEPT !.highestBid = e.bid, !.highestAmount = e.amount,
                      !.highestUser = e.user, !.bidCount = @ + 1]
    BY <2>1 DEF ApplyEvent
  <2>3. agg.bidCount + 1 \in Nat
    BY DEF Aggregate
  <2> QED BY <2>1, <2>2, <2>3 DEF Aggregate
<1>4. CASE e \in ExtendedEvents
  BY <1>4 DEF ApplyEvent, Aggregate, Status, ExtendedEvents
<1>5. CASE e \in ClosedEvents
  BY <1>5 DEF ApplyEvent, Aggregate, Status, ClosedEvents
<1> QED BY <1>1, <1>2, <1>3, <1>4, <1>5 DEF Event

\* The verdict of an aggregate is an event that names its highest bid.
LEMMA CloseType ==
  ASSUME NEW agg \in Aggregate
  PROVE  Close(agg) \in ClosedEvents
BY DEF Close, ClosedEvents, Aggregate, ReserveMet

\* A bid that is not refused is one event, or two of which the second is the
\* extension.
LEMMA PlaceBidType ==
  ASSUME NEW agg \in Aggregate, NEW b \in Bids, NEW u \in Users,
         NEW a \in Amounts, NEW at \in Nat
  PROVE  LET p == PlaceBid(agg, b, u, a, at) IN
           /\ p \in Seq(Event)
           /\ Len(p) \in {1, 2}
           /\ p[1] = BidPlaced(b, u, a, at)
           /\ p[1] \in BidEvents
           /\ Len(p) = 2 => /\ p[2] = TimerExtended(agg, at)
                            /\ p[2] \in ExtendedEvents
                            /\ IsLate(agg, at)
<1>1. BidPlaced(b, u, a, at) \in BidEvents
  BY DEF BidPlaced, BidEvents
<1>2. TimerExtended(agg, at) \in ExtendedEvents
  BY DEF TimerExtended, ExtendedEvents, Aggregate
<1>3. CASE IsLate(agg, at)
  BY <1>1, <1>2, <1>3 DEF PlaceBid, Event
<1>4. CASE ~IsLate(agg, at)
  BY <1>1, <1>4 DEF PlaceBid, Event
<1> QED BY <1>3, <1>4

\* The commands of the admin and of the worker are events.
LEMMA CommandType ==
  /\ \A t \in Terms : Schedule(t) \in ScheduledEvents
  /\ Start \in StartedEvents
BY DEF Schedule, ScheduledEvents, Start, StartedEvents

\* Projecting an event on a row gives a row.
LEMMA ProjectRowType ==
  ASSUME NEW r \in Row, NEW e \in Event
  PROVE  ProjectRow(r, e) \in Row
<1>1. CASE e \in ScheduledEvents
  BY <1>1, TermsAssumption
  DEF ProjectRow, UpsertRow, Row, Status, ScheduledEvents
<1>2. CASE e \in StartedEvents
  BY <1>2 DEF ProjectRow, UpdateRow, Row, Status, StartedEvents
<1>3. CASE e \in BidEvents
  <2>1. e.type = "BidPlaced" /\ e.amount \in Nat
    BY <1>3, AmountsAssumption DEF BidEvents
  <2>2. ProjectRow(r, e) \in
          {r, [r EXCEPT !.highest = e.amount, !.count = @ + 1]}
    BY <2>1 DEF ProjectRow, UpdateRow
  <2>3. r.count + 1 \in Nat
    BY DEF Row
  <2> QED BY <2>1, <2>2, <2>3 DEF Row
<1>4. CASE e \in ExtendedEvents
  BY <1>4 DEF ProjectRow, UpdateRow, Row, Status, ExtendedEvents
<1>5. CASE e \in ClosedEvents
  BY <1>5 DEF ProjectRow, UpdateRow, Row, Status, ClosedEvents
<1> QED BY <1>1, <1>2, <1>3, <1>4, <1>5 DEF Event

-----------------------------------------------------------------------------
(***************************************************************************)
(* The event store.                                                        *)
(***************************************************************************)

\* What is there to read: every prefix of the store replays to an aggregate.
LEMMA StoreReadable ==
  ASSUME TypeOK, ReplayInv
  PROVE  /\ Len(log) \in Nat
         /\ \A n \in 0..Len(log) : replay[n + 1] \in Aggregate
         /\ Current = replay[Len(log) + 1]
         /\ Current \in Aggregate
BY DEF TypeOK, ReplayInv, Current

\* An INSERT adds its event behind those stored and disturbs none of them.
LEMMA InsertAppends ==
  ASSUME TypeOK, ReplayInv, NEW e \in Event, Insert(e)
  PROVE  /\ log' \in Seq(Event) /\ replay' \in Seq(Aggregate)
         /\ ReplayInv'
         /\ Len(log') = Len(log) + 1
         /\ log'[Len(log) + 1] = e
         /\ \A i \in 1..Len(log) : log'[i] = log[i]
         /\ \A i \in 1..(Len(log) + 1) : replay'[i] = replay[i]
<1>1. Current \in Aggregate /\ Len(log) \in Nat /\ Current = replay[Len(log) + 1]
  BY StoreReadable
<1>2. ApplyEvent(Current, e) \in Aggregate
  BY <1>1, ApplyEventType
<1>3. log \in Seq(Event) /\ replay \in Seq(Aggregate) /\ Len(replay) = Len(log) + 1
  BY DEF TypeOK, ReplayInv
<1>4. log' = Append(log, e) /\ replay' = Append(replay, ApplyEvent(Current, e))
  BY DEF Insert
<1>5. log' \in Seq(Event) /\ replay' \in Seq(Aggregate)
  BY <1>2, <1>3, <1>4
<1>6. /\ Len(log') = Len(log) + 1
      /\ log'[Len(log) + 1] = e
      /\ \A i \in 1..Len(log) : log'[i] = log[i]
  BY <1>3, <1>4
<1>7. /\ Len(replay') = Len(log) + 2
      /\ replay'[Len(log) + 2] = ApplyEvent(Current, e)
      /\ \A i \in 1..(Len(log) + 1) : replay'[i] = replay[i]
  BY <1>2, <1>3, <1>4
<1>8. ReplayInv'
  <2>1. Len(replay') = Len(log') + 1
    BY <1>1, <1>6, <1>7
  <2>2. ASSUME NEW i \in 1..Len(log')
        PROVE  replay'[i + 1] = ApplyEvent(replay'[i], log'[i])
    <3>1. CASE i \in 1..Len(log)
      BY <3>1, <1>1, <1>6, <1>7 DEF ReplayInv
    <3>2. CASE i = Len(log) + 1
      BY <3>2, <1>1, <1>6, <1>7
    <3> QED BY <3>1, <3>2, <1>1, <1>6
  <2> QED BY <2>1, <2>2 DEF ReplayInv
<1> QED BY <1>5, <1>6, <1>7, <1>8

-----------------------------------------------------------------------------
(***************************************************************************)
(* What a step leaves alone.                                               *)
(***************************************************************************)

\* Nothing a handler believes is disturbed while the store and the handler's
\* own locals stay as they are.
LEMMA Undisturbed ==
  ASSUME HandlersSound, UNCHANGED storeVars
  PROVE  /\ ReplayInv' /\ LawfulHistory'
         /\ \A b \in Bids : request'[b] = request[b] => BidInv(b)'
         /\ admin' = admin => AdminInv'
         /\ worker' = worker => WorkerInv'
<1>1. log' = log /\ replay' = replay
  BY DEF storeVars
<1>2. ReplayInv'
  BY <1>1 DEF HandlersSound, ReplayInv
<1>3. LawfulHistory'
  BY <1>1 DEF HandlersSound, LawfulHistory, LawfulBid, LawfulExtension,
              LawfulClose, Position, BidAt, Stored, Met
<1>4. ASSUME NEW b \in Bids, request'[b] = request[b] PROVE BidInv(b)'
  BY <1>1, <1>4 DEF HandlersSound, BidInv, StoredUpTo
<1>5. ASSUME admin' = admin PROVE AdminInv'
  BY <1>1, <1>5 DEF HandlersSound, AdminInv
<1>6. ASSUME worker' = worker PROVE WorkerInv'
  BY <1>1, <1>6 DEF HandlersSound, WorkerInv, StoredUpTo
<1> QED BY <1>2, <1>3, <1>4, <1>5, <1>6

\* An event that may be stored next.
LawfulNext(e) ==
  /\ e.type = "BidPlaced" => Refusal(Current, e.user, e.amount) = "none"
  /\ e.type = "TimerExtended" =>
       /\ Len(log) > 0 /\ log[Len(log)].type = "BidPlaced"
       /\ IsLate(replay[Len(log)], log[Len(log)].placedAt)
       /\ e = TimerExtended(replay[Len(log)], log[Len(log)].placedAt)
  /\ e.type = "AuctionClosed" =>
       /\ Current.status \notin TerminalStatuses
       /\ e = Close(Current)

\* A lawful store stays lawful when such an event is appended.
LEMMA LawfulInsert ==
  ASSUME HandlersSound, NEW e \in Event, Insert(e), LawfulNext(e)
  PROVE  LawfulHistory'
<1>1. TypeOK /\ ReplayInv /\ LawfulHistory
  BY DEF HandlersSound
<1> SUFFICES ASSUME NEW n \in Nat, n = Len(log) PROVE LawfulHistory'
  BY <1>1, StoreReadable
<1>2. n = Len(log) /\ Current = replay[n + 1]
  BY <1>1, StoreReadable
<1>3. /\ Len(log') = n + 1
      /\ log'[n + 1] = e
      /\ \A i \in 1..n : log'[i] = log[i]
      /\ \A i \in 1..(n + 1) : replay'[i] = replay[i]
  BY <1>1, InsertAppends
<1>4. ASSUME NEW i \in 1..n
      PROVE  /\ log'[i].type = "BidPlaced" => LawfulBid(i)'
             /\ log'[i].type = "TimerExtended" => LawfulExtension(i)'
             /\ log'[i].type = "AuctionClosed" => LawfulClose(i)'
  <2>1. /\ log[i].type = "BidPlaced" => LawfulBid(i)
        /\ log[i].type = "TimerExtended" => LawfulExtension(i)
        /\ log[i].type = "AuctionClosed" => LawfulClose(i)
    BY <1>1, <1>2 DEF LawfulHistory, Position
  <2>2. log'[i] = log[i] /\ replay'[i] = replay[i]
    BY <1>2, <1>3
  <2>3. LawfulBid(i) => LawfulBid(i)'
    BY <2>2 DEF LawfulBid, Met
  <2>4. LawfulClose(i) => LawfulClose(i)'
    BY <2>2 DEF LawfulClose, Met
  <2>5. LawfulExtension(i) => LawfulExtension(i)'
    <3>1. SUFFICES ASSUME LawfulExtension(i) PROVE LawfulExtension(i)'
      OBVIOUS
    <3>2. i - 1 \in 1..n /\ log[i - 1].type = "BidPlaced"
      BY <3>1, <1>2 DEF LawfulExtension, BidAt, Stored, Position
    <3>3. log'[i - 1] = log[i - 1] /\ replay'[i - 1] = replay[i - 1]
      BY <3>2, <1>2, <1>3
    <3>4. i - 1 \in BidAt'
      BY <3>2, <3>3, <1>2, <1>3 DEF BidAt, Stored, Position
    <3> QED BY <3>1, <3>3, <3>4, <2>2 DEF LawfulExtension, Met
  <2> QED BY <2>1, <2>2, <2>3, <2>4, <2>5
<1>5. /\ e.type = "BidPlaced" => LawfulBid(n + 1)'
      /\ e.type = "TimerExtended" => LawfulExtension(n + 1)'
      /\ e.type = "AuctionClosed" => LawfulClose(n + 1)'
  <2>1. log'[n + 1] = e /\ replay'[n + 1] = Current
    BY <1>2, <1>3
  <2>2. e.type = "BidPlaced" => LawfulBid(n + 1)'
    BY <2>1 DEF LawfulNext, LawfulBid, Met
  <2>3. e.type = "AuctionClosed" => LawfulClose(n + 1)'
    BY <2>1 DEF LawfulNext, LawfulClose, Met
  <2>4. ASSUME e.type = "TimerExtended" PROVE LawfulExtension(n + 1)'
    <3>1. /\ n > 0 /\ log[n].type = "BidPlaced"
          /\ IsLate(replay[n], log[n].placedAt)
          /\ e = TimerExtended(replay[n], log[n].placedAt)
      BY <2>4 DEF LawfulNext
    <3>2. log'[n] = log[n] /\ replay'[n] = replay[n]
      BY <3>1, <1>2, <1>3
    <3>3. n \in BidAt' /\ (n + 1) - 1 = n
      BY <3>1, <3>2, <1>2, <1>3 DEF BidAt, Stored, Position
    <3> QED BY <3>1, <3>2, <3>3, <2>1 DEF LawfulExtension, Met
  <2> QED BY <2>2, <2>3, <2>4
<1>6. ASSUME NEW i \in Position'
      PROVE  i \in 1..n \/ i = n + 1
  BY <1>2, <1>3 DEF Position
<1> QED BY <1>3, <1>4, <1>5, <1>6 DEF LawfulHistory

\* A handler that finds its own events behind what it loaded, and nothing
\* else, finds its next one there too once that is inserted.
LEMMA PrefixGrows ==
  ASSUME TypeOK, ReplayInv, NEW base \in Nat, NEW done \in Nat, NEW todo,
         todo[done + 1] \in Event, Insert(todo[done + 1]),
         Len(log) = base + done, StoredUpTo(base, todo, done)
  PROVE  /\ base + (done + 1) <= Len(log')
         /\ \A i \in 1..(done + 1) : log'[base + i] = todo[i]
         /\ base <= Len(log')
         /\ replay'[base + 1] = replay[base + 1]
<1>1. /\ Len(log) \in Nat
      /\ Len(log') = Len(log) + 1
      /\ log'[Len(log) + 1] = todo[done + 1]
      /\ \A i \in 1..Len(log) : log'[i] = log[i]
      /\ \A i \in 1..(Len(log) + 1) : replay'[i] = replay[i]
  BY InsertAppends, StoreReadable
<1>2. ASSUME NEW i \in 1..done PROVE log'[base + i] = todo[i]
  <2>1. base + i \in 1..Len(log)
    BY <1>1
  <2>2. log[base + i] = todo[i]
    BY DEF StoredUpTo
  <2> QED BY <1>1, <2>1, <2>2
<1>3. log'[base + (done + 1)] = todo[done + 1]
  <2>1. Len(log) + 1 = base + (done + 1)
    BY <1>1
  <2> QED BY <1>1, <2>1
<1>4. ASSUME NEW i \in 1..(done + 1) PROVE log'[base + i] = todo[i]
  <2>1. i \in 1..done \/ i = done + 1
    OBVIOUS
  <2> QED BY <1>2, <1>3, <2>1
<1>5. base + 1 \in 1..(Len(log) + 1)
  BY <1>1
<1> QED BY <1>1, <1>4, <1>5

\* What the other handlers believe survives an INSERT of one of them.
LEMMA OthersSurviveInsert ==
  ASSUME HandlersSound, NEW e \in Event, Insert(e)
  PROVE  /\ \A b \in Bids : request'[b] = request[b] => BidInv(b)'
         /\ admin' = admin => AdminInv'
         /\ worker' = worker => WorkerInv'
<1>1. /\ Len(log) \in Nat
      /\ Len(log') = Len(log) + 1
      /\ \A i \in 1..Len(log) : log'[i] = log[i]
      /\ \A i \in 1..(Len(log) + 1) : replay'[i] = replay[i]
  BY InsertAppends, StoreReadable DEF HandlersSound
<1>2. ASSUME NEW base \in Nat, base <= Len(log)
      PROVE  base <= Len(log') /\ replay'[base + 1] = replay[base + 1]
  BY <1>1, <1>2
<1>3. ASSUME NEW base \in Nat, NEW todo, NEW k \in Nat,
             StoredUpTo(base, todo, k)
      PROVE  base + k <= Len(log') /\ \A i \in 1..k : log'[base + i] = todo[i]
  BY <1>1, <1>3 DEF StoredUpTo
<1>4. ASSUME NEW b \in Bids, request'[b] = request[b] PROVE BidInv(b)'
  <2> DEFINE r == request[b]
  <2>1. BidInv(b) /\ r \in Request
    BY DEF HandlersSound, TypeOK
  <2>2. r.base \in Nat /\ r.done \in Nat /\ Len(r.todo) \in Nat
    BY <2>1 DEF Request
  <2>3. \A k \in Nat :
          StoredUpTo(r.base, r.todo, k) =>
            /\ r.base + k <= Len(log')
            /\ \A i \in 1..k : log'[r.base + i] = r.todo[i]
    BY <1>3, <2>2
  <2>4. r.base <= Len(log) =>
          r.base <= Len(log') /\ replay'[r.base + 1] = replay[r.base + 1]
    BY <1>2, <2>2
  <2> QED BY <2>1, <2>2, <2>3, <2>4, <1>4 DEF BidInv, StoredUpTo
<1>5. ASSUME admin' = admin PROVE AdminInv'
  BY <1>5, <1>1 DEF HandlersSound, TypeOK, AdminInv, AdminState
<1>6. ASSUME worker' = worker PROVE WorkerInv'
  <2>1. WorkerInv /\ worker.base \in Nat
    BY DEF HandlersSound, TypeOK, WorkerState
  <2>2. StoredUpTo(worker.base, worker.todo, 1) =>
          /\ worker.base + 1 <= Len(log')
          /\ \A i \in 1..1 : log'[worker.base + i] = worker.todo[i]
    BY <1>3, <2>1
  <2>3. worker.base <= Len(log) =>
          /\ worker.base <= Len(log')
          /\ replay'[worker.base + 1] = replay[worker.base + 1]
    BY <1>2, <2>1
  <2> QED BY <2>1, <2>2, <2>3, <1>6 DEF WorkerInv, StoredUpTo
<1> QED BY <1>4, <1>5, <1>6

\* A step that types its variables, keeps the store or appends a lawful event
\* and leaves every actor it moves sound leaves all of them sound.
LEMMA Assemble ==
  ASSUME HandlersSound, TypeOK',
         UNCHANGED storeVars \/ \E e \in Event : Insert(e) /\ LawfulNext(e),
         \A b \in Bids : request'[b] = request[b] \/ BidInv(b)',
         admin' = admin \/ AdminInv',
         worker' = worker \/ WorkerInv'
  PROVE  HandlersSound'
<1>1. CASE UNCHANGED storeVars
  BY <1>1, Undisturbed DEF HandlersSound
<1>2. ASSUME NEW e \in Event, Insert(e), LawfulNext(e)
      PROVE  HandlersSound'
  <2>1. ReplayInv'
    BY <1>2, InsertAppends DEF HandlersSound
  <2>2. LawfulHistory'
    BY <1>2, LawfulInsert
  <2>3. (\A b \in Bids : BidInv(b)') /\ AdminInv' /\ WorkerInv'
    BY <1>2, OthersSurviveInsert
  <2> QED BY <2>1, <2>2, <2>3 DEF HandlersSound
<1> QED BY <1>1, <1>2

-----------------------------------------------------------------------------
(***************************************************************************)
(* The steps of a bid request.                                             *)
(***************************************************************************)

\* The handler of b changes its own locals and nobody else's.
LEMMA BecomeOwn ==
  ASSUME TypeOK, NEW b \in Bids, NEW r \in Request, Become(b, r)
  PROVE  /\ request' \in [Bids -> Request]
         /\ request'[b] = r
         /\ \A c \in Bids : c # b => request'[c] = request[c]
BY DEF TypeOK, Become

\* The locals of a handler that has returned.
LEMMA FinishedType ==
  ASSUME NEW a \in Answers
  PROVE  /\ Finished(a) \in Request
         /\ Finished(a).pc = "done" /\ Finished(a).done = 0
<1>1. << >> \in Seq(Event)
  OBVIOUS
<1> QED BY <1>1 DEF Finished, NewRequest, Request, RequestSteps

\* A handler that goes on, or leaves with an answer, keeps its other locals.
LEMMA GoOnType ==
  ASSUME TypeOK, NEW b \in Bids
  PROVE  /\ \A pc \in RequestSteps : [request[b] EXCEPT !.pc = pc] \in Request
         /\ \A pc \in RequestSteps, d \in Nat :
              [request[b] EXCEPT !.pc = pc, !.done = d] \in Request
         /\ \A a \in Answers :
              [request[b] EXCEPT !.pc = "release", !.answer = a] \in Request
BY DEF TypeOK, Request, RequestSteps

\* A request that arrives keeps HandlersSound.
LEMMA ArriveSound ==
  ASSUME HandlersSound, NEW b \in Bids, Arrive(b)
  PROVE  HandlersSound'
<1>1. PICK u \in Users, a \in Amounts :
        Become(b, [request[b] EXCEPT !.pc = "acquire", !.user = u,
                                     !.amount = a, !.placedAt = now])
  BY DEF Arrive
<1>2. TypeOK /\ BidInv(b) /\ request[b].pc = "new" /\ request[b] \in Request
  BY DEF HandlersSound, Arrive, TypeOK
<1> DEFINE r == [request[b] EXCEPT !.pc = "acquire", !.user = u,
                                   !.amount = a, !.placedAt = now]
<1>3. r \in Request
  BY <1>2 DEF TypeOK, Request, RequestSteps
<1>4. /\ request' \in [Bids -> Request] /\ request'[b] = r
      /\ \A c \in Bids : c # b => request'[c] = request[c]
  BY <1>1, <1>2, <1>3, BecomeOwn
<1>5. TypeOK'
  BY <1>2, <1>4 DEF TypeOK, Arrive, storeVars, viewVars, busVars, envVars
<1>6. BidInv(b)'
  BY <1>2, <1>4 DEF BidInv, Request, Decided
<1>7. \A c \in Bids : request'[c] = request[c] \/ BidInv(c)'
  BY <1>4, <1>6
<1> QED BY <1>5, <1>7, Assemble DEF Arrive

\* Taking the lock, or being refused it, keeps HandlersSound.
LEMMA AcquireSound ==
  ASSUME HandlersSound, NEW b \in Bids, Acquire(b)
  PROVE  HandlersSound'
<1>1. TypeOK /\ BidInv(b) /\ request[b].pc = "acquire" /\ request[b] \in Request
  BY DEF HandlersSound, Acquire, TypeOK
<1>2. PICK r \in {[request[b] EXCEPT !.pc = "load"],
                  Finished("AUCTION_NOT_ACTIVE")} : Become(b, r)
  BY DEF Acquire, Goto
<1>3. r \in Request
  BY <1>1, <1>2, FinishedType, GoOnType DEF RequestSteps, Answers, Refusals
<1>4. /\ request' \in [Bids -> Request] /\ request'[b] = r
      /\ \A c \in Bids : c # b => request'[c] = request[c]
  BY <1>1, <1>2, <1>3, BecomeOwn
<1>5. TypeOK'
  BY <1>1, <1>4 DEF TypeOK, Acquire, storeVars, viewVars, busVars, envVars
<1>6. BidInv(b)'
  BY <1>1, <1>2, <1>4 DEF BidInv, Request, Decided, Finished, NewRequest
<1>7. \A c \in Bids : request'[c] = request[c] \/ BidInv(c)'
  BY <1>4, <1>6
<1> QED BY <1>5, <1>7, Assemble DEF Acquire

\* The decision is taken on the whole store: base is its length.
LEMMA LoadSound ==
  ASSUME HandlersSound, NEW b \in Bids, Load(b)
  PROVE  HandlersSound'
<1> DEFINE q == request[b]
           refusal == Refusal(Current, q.user, q.amount)
           todo == PlaceBid(Current, b, q.user, q.amount, q.placedAt)
<1>1. /\ TypeOK /\ ReplayInv /\ BidInv(b) /\ q.pc = "load"
      /\ q \in Request /\ q.user \in Users /\ q.amount \in Amounts
      /\ q.placedAt \in Nat /\ q.done = 0
  BY DEF HandlersSound, Load, TypeOK, BidInv, Request
<1>2. Current \in Aggregate /\ Current = replay[Len(log) + 1] /\ Len(log) \in Nat
  BY <1>1, StoreReadable
<1>3. todo \in Seq(Event) /\ Len(todo) \in {1, 2}
  BY <1>1, <1>2, PlaceBidType
<1> SUFFICES ASSUME NEW r \in Request, Become(b, r),
                    \/ /\ refusal # "none"
                       /\ r = [q EXCEPT !.pc = "release", !.answer = refusal]
                    \/ /\ refusal = "none"
                       /\ r = [q EXCEPT !.pc = "append", !.base = Len(log),
                                        !.todo = todo]
             PROVE  HandlersSound'
  <2>1. refusal \in Refusals \cup {"none"}
    BY DEF Refusal, Refusals
  <2>2. [q EXCEPT !.pc = "release", !.answer = refusal] \in Request
    BY <1>1, <2>1, GoOnType DEF Answers
  <2>3. [q EXCEPT !.pc = "append", !.base = Len(log), !.todo = todo] \in Request
    BY <1>1, <1>2, <1>3 DEF Request, RequestSteps
  <2> QED BY <2>2, <2>3 DEF Load, Answer
<1>4. /\ request' \in [Bids -> Request] /\ request'[b] = r
      /\ \A c \in Bids : c # b => request'[c] = request[c]
  BY <1>1, BecomeOwn
<1>5. TypeOK'
  BY <1>1, <1>4 DEF TypeOK, Load, storeVars, viewVars, busVars, envVars
<1>6. BidInv(b)'
  <2>1. CASE refusal # "none"
    BY <1>1, <1>4, <2>1 DEF BidInv, Request, Decided
  <2>2. CASE refusal = "none"
    <3>1. /\ r.pc = "append" /\ r.base = Len(log) /\ r.todo = todo
          /\ r.done = 0 /\ r.user = q.user /\ r.amount = q.amount
          /\ r.placedAt = q.placedAt
      BY <1>1, <2>2 DEF Request
    <3>2. log' = log /\ replay' = replay
      BY DEF Load, storeVars
    <3>3. /\ request'[b].todo = PlaceBid(replay'[Len(log) + 1], b, r.user,
                                         r.amount, r.placedAt)
          /\ Refusal(replay'[Len(log) + 1], r.user, r.amount) = "none"
      BY <1>2, <1>4, <2>2, <3>1, <3>2
    <3>4. Len(r.todo) \in {1, 2}
      BY <1>3, <3>1
    <3>5. request'[b] = r
      BY <1>4
    <3>6. 0 < Len(request'[b].todo)
      BY <3>4, <3>5
    <3> QED BY <1>1, <1>2, <1>4, <3>1, <3>2, <3>3, <3>6
            DEF BidInv, Decided, StoredUpTo
  <2> QED BY <2>1, <2>2
<1>7. \A c \in Bids : request'[c] = request[c] \/ BidInv(c)'
  BY <1>4, <1>6
<1> QED BY <1>5, <1>7, Assemble DEF Load

\* What a handler that has decided holds: the events of its decision.
LEMMA DecidedTodo ==
  ASSUME HandlersSound, NEW b \in Bids, request[b].pc \in Decided
  PROVE  LET q == request[b]
             agg == replay[q.base + 1] IN
           /\ q \in Request /\ q.user \in Users /\ q.amount \in Amounts
           /\ q.base \in Nat /\ q.placedAt \in Nat /\ q.done \in Nat
           /\ q.base <= Len(log) /\ agg \in Aggregate
           /\ Refusal(agg, q.user, q.amount) = "none"
           /\ q.todo \in Seq(Event) /\ Len(q.todo) \in {1, 2}
           /\ q.todo[1] = BidPlaced(b, q.user, q.amount, q.placedAt)
           /\ q.todo[1] \in BidEvents
           /\ Len(q.todo) = 2 => /\ q.todo[2] = TimerExtended(agg, q.placedAt)
                                 /\ q.todo[2] \in ExtendedEvents
                                 /\ IsLate(agg, q.placedAt)
<1> DEFINE q == request[b]
           agg == replay[q.base + 1]
<1>1. TypeOK /\ ReplayInv /\ BidInv(b) /\ q \in Request
  BY DEF HandlersSound, TypeOK
<1>2. /\ q.user \in Users /\ q.amount \in Amounts /\ q.base \in Nat
      /\ q.placedAt \in Nat /\ q.done \in Nat /\ q.base <= Len(log)
      /\ Refusal(agg, q.user, q.amount) = "none"
      /\ q.todo = PlaceBid(agg, b, q.user, q.amount, q.placedAt)
  BY <1>1 DEF BidInv, Request, Decided
<1>3. agg \in Aggregate
  BY <1>1, <1>2, StoreReadable
<1> HIDE DEF q, agg
<1>4. /\ q.todo \in Seq(Event) /\ Len(q.todo) \in {1, 2}
      /\ q.todo[1] = BidPlaced(b, q.user, q.amount, q.placedAt)
      /\ q.todo[1] \in BidEvents
      /\ Len(q.todo) = 2 => /\ q.todo[2] = TimerExtended(agg, q.placedAt)
                            /\ q.todo[2] \in ExtendedEvents
                            /\ IsLate(agg, q.placedAt)
  BY <1>2, <1>3, PlaceBidType
<1> QED BY <1>1, <1>2, <1>3, <1>4 DEF q, agg

\* The event a bid appends is lawful where the unique key lets it be stored:
\* a bid directly behind what was loaded, an extension behind its bid.
LEMMA AppendLawful ==
  ASSUME HandlersSound, NEW b \in Bids, request[b].pc = "append",
         ~Conflict(request[b].base, request[b].done + 1)
  PROVE  /\ request[b].todo[request[b].done + 1] \in Event
         /\ LawfulNext(request[b].todo[request[b].done + 1])
<1> DEFINE q == request[b]
           agg == replay[q.base + 1]
           e == q.todo[q.done + 1]
<1>1. /\ q.user \in Users /\ q.amount \in Amounts
      /\ q.base \in Nat /\ q.placedAt \in Nat /\ q.done \in Nat
      /\ Refusal(agg, q.user, q.amount) = "none"
      /\ q.todo \in Seq(Event) /\ Len(q.todo) \in {1, 2}
      /\ q.todo[1] = BidPlaced(b, q.user, q.amount, q.placedAt)
      /\ Len(q.todo) = 2 => /\ q.todo[2] = TimerExtended(agg, q.placedAt)
                            /\ IsLate(agg, q.placedAt)
  BY DecidedTodo DEF Decided
<1>2. Len(log) = q.base + q.done /\ Len(log) \in Nat
      /\ Current = replay[Len(log) + 1]
  BY <1>1, StoreReadable DEF HandlersSound, Conflict
<1>3. q.done < Len(q.todo) /\ StoredUpTo(q.base, q.todo, q.done)
  BY DEF HandlersSound, BidInv
<1> HIDE DEF q, agg
<1>4. /\ Len(q.todo) = 1 \/ Len(q.todo) = 2
      /\ q.done = 0 \/ q.done = 1
  <2>1. Len(q.todo) = 1 \/ Len(q.todo) = 2
    BY <1>1
  <2>2. q.done \in Nat /\ q.done < Len(q.todo) /\ Len(q.todo) \in Nat
    BY <1>1, <1>3
  <2>3. ASSUME NEW n \in Nat, NEW d \in Nat, n = 1 \/ n = 2, d < n
        PROVE  d = 0 \/ d = 1
    BY <2>3
  <2> QED BY <2>1, <2>2, <2>3
<1>5. CASE q.done = 0
  <2>1. Current = agg /\ e = BidPlaced(b, q.user, q.amount, q.placedAt)
    BY <1>1, <1>2, <1>5 DEF agg
  <2>2. e.type = "BidPlaced" /\ e.user = q.user /\ e.amount = q.amount
    BY <2>1 DEF BidPlaced
  <2>3. LawfulNext(e)
    BY <1>1, <2>1, <2>2 DEF LawfulNext
  <2> QED BY <1>1, <1>3, <1>5, <2>3 DEF q
<1>6. CASE q.done = 1
  <2>1. Len(q.todo) = 2 /\ e = q.todo[2] /\ Len(log) = q.base + 1
    <3>1. Len(q.todo) = 2
      BY <1>3, <1>6, <1>4
    <3>2. q.done + 1 = 2 /\ Len(log) = q.base + 1
      BY <1>2, <1>6
    <3> QED BY <3>1, <3>2
  <2>2. log[Len(log)] = BidPlaced(b, q.user, q.amount, q.placedAt)
    BY <1>1, <1>3, <1>6, <2>1 DEF StoredUpTo
  <2>3. /\ log[Len(log)].type = "BidPlaced"
        /\ log[Len(log)].placedAt = q.placedAt
        /\ replay[Len(log)] = agg
    BY <2>1, <2>2 DEF BidPlaced, agg
  <2>4. e = TimerExtended(agg, q.placedAt) /\ IsLate(agg, q.placedAt)
    BY <1>1, <2>1
  <2>5. e.type = "TimerExtended"
    BY <2>4 DEF TimerExtended
  <2>6. LawfulNext(e)
    BY <1>1, <2>1, <2>3, <2>4, <2>5 DEF LawfulNext
  <2>7. e \in Event
    BY <1>1, <2>1
  <2> QED BY <2>6, <2>7 DEF q
<1> QED BY <1>5, <1>6, <1>4

\* One INSERT of a bid, or its rejection, keeps HandlersSound.
LEMMA AppendBidSound ==
  ASSUME HandlersSound, NEW b \in Bids, AppendBid(b)
  PROVE  HandlersSound'
<1> DEFINE q == request[b]
           i == q.done + 1
<1>1. /\ TypeOK /\ ReplayInv /\ BidInv(b) /\ q.pc = "append"
      /\ q.pc \in Decided
  BY DEF HandlersSound, AppendBid, Decided
<1>2. /\ q \in Request /\ q.base \in Nat /\ q.done \in Nat
      /\ q.base <= Len(log) /\ Len(q.todo) \in Nat /\ Len(log) \in Nat
      /\ q.done < Len(q.todo) /\ StoredUpTo(q.base, q.todo, q.done)
  BY <1>1, DecidedTodo, StoreReadable DEF BidInv
<1>3. CASE Conflict(q.base, i)
  <2>1. Become(b, [q EXCEPT !.pc = "release", !.answer = "error"])
        /\ UNCHANGED storeVars
    BY <1>3 DEF AppendBid, AppendRejected, Answer
  <2> DEFINE r == [q EXCEPT !.pc = "release", !.answer = "error"]
  <2>2. r \in Request
    BY <1>1, GoOnType DEF Answers
  <2>3. /\ request' \in [Bids -> Request] /\ request'[b] = r
        /\ \A c \in Bids : c # b => request'[c] = request[c]
    BY <1>1, <2>1, <2>2, BecomeOwn
  <2>4. TypeOK'
    BY <1>1, <2>1, <2>3 DEF TypeOK, AppendBid, storeVars, viewVars, busVars, envVars
  <2>5. BidInv(b)'
    BY <1>1, <1>2, <2>3 DEF BidInv, Decided, Request
  <2>6. \A c \in Bids : request'[c] = request[c] \/ BidInv(c)'
    BY <2>3, <2>5
  <2> QED BY <2>1, <2>4, <2>6, Assemble DEF AppendBid
<1>4. CASE ~Conflict(q.base, i)
  <2>1. PICK r \in {[q EXCEPT !.pc = "project", !.done = 0],
                    [q EXCEPT !.done = i]} :
          /\ Become(b, r)
          /\ IF i = Len(q.todo) THEN r.pc = "project" /\ r.done = 0
             ELSE r.pc = "append" /\ r.done = i
    BY <1>1, <1>2, <1>4 DEF AppendBid, Request
  <2>2. /\ r \in Request /\ r.base = q.base /\ r.todo = q.todo
        /\ r.user = q.user /\ r.amount = q.amount /\ r.placedAt = q.placedAt
    <3>1. [q EXCEPT !.pc = "project", !.done = 0] \in Request
      BY <1>2 DEF Request, RequestSteps
    <3>2. [q EXCEPT !.done = i] \in Request
      BY <1>2 DEF Request
    <3> QED BY <1>2, <2>1, <3>1, <3>2 DEF Request
  <2>3. /\ request' \in [Bids -> Request] /\ request'[b] = r
        /\ \A c \in Bids : c # b => request'[c] = request[c]
    BY <1>1, <2>1, <2>2, BecomeOwn
  <2>4. Insert(q.todo[i]) /\ q.todo[i] \in Event /\ LawfulNext(q.todo[i])
    BY <1>1, <1>4, AppendLawful DEF AppendBid
  <2>5. /\ log' \in Seq(Event) /\ replay' \in Seq(Aggregate)
        /\ Len(log') = Len(log) + 1
        /\ log'[Len(log) + 1] = q.todo[i]
        /\ \A j \in 1..Len(log) : log'[j] = log[j]
        /\ \A j \in 1..(Len(log) + 1) : replay'[j] = replay[j]
    BY <1>1, <2>4, InsertAppends
  <2>6. TypeOK'
    BY <1>1, <2>3, <2>5 DEF TypeOK, AppendBid, viewVars, busVars, envVars
  <2>7. BidInv(b)'
    <3>1. Len(log) = q.base + q.done
      BY <1>2, <1>4 DEF Conflict
    <3>2. /\ q.base + i <= Len(log')
          /\ \A j \in 1..i : log'[q.base + j] = q.todo[j]
          /\ q.base <= Len(log')
          /\ replay'[q.base + 1] = replay[q.base + 1]
      BY <1>1, <1>2, <2>4, <3>1, PrefixGrows
    <3>3. /\ q.user \in Users /\ q.amount \in Amounts
          /\ Refusal(replay[q.base + 1], q.user, q.amount) = "none"
          /\ q.todo = PlaceBid(replay[q.base + 1], b, q.user, q.amount,
                               q.placedAt)
      BY <1>1 DEF BidInv
    <3>4. /\ request'[b].base = q.base /\ request'[b].todo = q.todo
          /\ request'[b].user = q.user /\ request'[b].amount = q.amount
          /\ request'[b].placedAt = q.placedAt
      BY <2>2, <2>3
    <3>5. CASE i = Len(q.todo)
      <4>1. request'[b].pc = "project" /\ request'[b].done = 0
        BY <2>1, <2>3, <3>5
      <4> QED BY <1>2, <3>2, <3>3, <3>4, <3>5, <4>1
              DEF BidInv, Decided, StoredUpTo
    <3>6. CASE i # Len(q.todo)
      <4>1. request'[b].pc = "append" /\ request'[b].done = i
        BY <2>1, <2>3, <3>6
      <4>2. i < Len(q.todo)
        BY <1>2, <3>6
      <4> QED BY <3>2, <3>3, <3>4, <4>1, <4>2
              DEF BidInv, Decided, StoredUpTo
    <3> QED BY <3>5, <3>6
  <2>8. \A c \in Bids : request'[c] = request[c] \/ BidInv(c)'
    BY <2>3, <2>7
  <2> QED BY <2>4, <2>6, <2>8, Assemble DEF AppendBid
<1> QED BY <1>3, <1>4

\* A handler whose events are all stored goes on with the same decision.
LEMMA GoOnSound ==
  ASSUME HandlersSound, NEW b \in Bids, UNCHANGED storeVars,
         request[b].pc \in Decided \ {"append"},
         request'[b] \in Request,
         request'[b].pc \in Decided \ {"append"},
         request'[b].pc = "project" =>
           request'[b].done < Len(request[b].todo),
         request'[b].pc \in {"remove", "add"} => Len(request[b].todo) = 2,
         request'[b].base = request[b].base,
         request'[b].todo = request[b].todo,
         request'[b].user = request[b].user,
         request'[b].amount = request[b].amount,
         request'[b].placedAt = request[b].placedAt
  PROVE  BidInv(b)'
<1>1. BidInv(b) /\ log' = log /\ replay' = replay
  BY DEF HandlersSound, storeVars
<1> QED BY <1>1 DEF BidInv, Decided, StoredUpTo

\* A handler on its way out believes nothing that matters any more.
LEMMA LeaveSound ==
  ASSUME HandlersSound, NEW b \in Bids, NEW a,
         request[b].pc \in Decided,
         request'[b] = [request[b] EXCEPT !.pc = "release", !.answer = a]
  PROVE  BidInv(b)'
<1>1. BidInv(b) /\ request[b] \in Request
  BY DEF HandlersSound, TypeOK
<1> QED BY <1>1 DEF BidInv, Decided, Request

\* Projecting an event of a bid keeps HandlersSound.
LEMMA ProjectBidRowSound ==
  ASSUME HandlersSound, NEW b \in Bids, ProjectBidRow(b)
  PROVE  HandlersSound'
<1> DEFINE q == request[b]
           i == q.done + 1
           pc == IF q.todo[i].type = "BidPlaced" THEN "insertBid" ELSE "publish"
           r == [q EXCEPT !.pc = pc, !.done = i]
<1>1. /\ TypeOK /\ BidInv(b) /\ q.pc = "project" /\ q.pc \in Decided
      /\ Become(b, r) /\ row' = ProjectRow(row, q.todo[i])
      /\ UNCHANGED storeVars
  BY DEF HandlersSound, ProjectBidRow, Decided
<1>2. /\ q \in Request /\ q.done \in Nat /\ q.todo \in Seq(Event)
      /\ q.done < Len(q.todo)
  BY <1>1, DecidedTodo DEF BidInv
<1>3. r \in Request
  <2>1. pc \in RequestSteps /\ i \in Nat
    BY <1>2 DEF RequestSteps
  <2> QED BY <1>1, <2>1, GoOnType
<1>4. /\ request' \in [Bids -> Request] /\ request'[b] = r
      /\ \A c \in Bids : c # b => request'[c] = request[c]
  BY <1>1, <1>3, BecomeOwn
<1>5. row' \in Row
  <2>1. i \in 1..Len(q.todo)
    BY <1>2
  <2>2. q.todo[i] \in Event
    BY <1>2, <2>1
  <2> QED BY <1>1, <2>2, ProjectRowType DEF TypeOK
<1>6. TypeOK'
  BY <1>1, <1>4, <1>5 DEF TypeOK, ProjectBidRow, storeVars, busVars, envVars
<1>7. BidInv(b)'
  <2>1. /\ r.pc \in {"insertBid", "publish"}
        /\ r.base = q.base /\ r.todo = q.todo /\ r.user = q.user
        /\ r.amount = q.amount /\ r.placedAt = q.placedAt
    BY <1>2 DEF Request
  <2> QED BY <1>1, <1>3, <1>4, <2>1, GoOnSound DEF Decided
<1>8. \A c \in Bids : request'[c] = request[c] \/ BidInv(c)'
  BY <1>4, <1>7
<1> QED BY <1>1, <1>6, <1>8, Assemble DEF ProjectBidRow

\* The INSERT into bids keeps HandlersSound.
LEMMA InsertBidRowSound ==
  ASSUME HandlersSound, NEW b \in Bids, InsertBidRow(b)
  PROVE  HandlersSound'
<1> DEFINE q == request[b]
           pc == IF q.done < Len(q.todo) THEN "project" ELSE "publish"
           r == [q EXCEPT !.pc = pc]
<1>1. /\ TypeOK /\ BidInv(b) /\ q.pc = "insertBid" /\ q.pc \in Decided
      /\ Become(b, r) /\ bidRows' = bidRows \cup {b}
      /\ UNCHANGED storeVars
  BY DEF HandlersSound, InsertBidRow, Decided, Goto
<1>2. q \in Request
  BY <1>1 DEF TypeOK
<1>3. r \in Request
  BY <1>1, GoOnType DEF RequestSteps
<1>4. /\ request' \in [Bids -> Request] /\ request'[b] = r
      /\ \A c \in Bids : c # b => request'[c] = request[c]
  BY <1>1, <1>3, BecomeOwn
<1>5. TypeOK'
  BY <1>1, <1>4 DEF TypeOK, InsertBidRow, storeVars, busVars, envVars
<1>6. BidInv(b)'
  <2>1. /\ r.pc = pc /\ r.done = q.done
        /\ r.base = q.base /\ r.todo = q.todo /\ r.user = q.user
        /\ r.amount = q.amount /\ r.placedAt = q.placedAt
    BY <1>2 DEF Request
  <2>2. /\ pc \in {"project", "publish"}
        /\ pc = "project" => q.done < Len(q.todo)
    OBVIOUS
  <2> QED BY <1>1, <1>3, <1>4, <2>1, <2>2, GoOnSound DEF Decided
<1>7. \A c \in Bids : request'[c] = request[c] \/ BidInv(c)'
  BY <1>4, <1>6
<1> QED BY <1>1, <1>5, <1>7, Assemble DEF InsertBidRow

\* What is published names the bidder, and the one the bid was computed to
\* outbid.
LEMMA BidMessageType ==
  ASSUME HandlersSound, NEW b \in Bids, request[b].pc \in Decided
  PROVE  BidMessage(b) \in [bid : Bids, user : Users,
                            previous : Users \cup {None}]
<1>1. request[b].user \in Users /\ replay[request[b].base + 1] \in Aggregate
  BY DecidedTodo
<1>2. replay[request[b].base + 1].highestUser \in Users \cup {None}
  BY <1>1 DEF Aggregate
<1> QED BY <1>1, <1>2 DEF BidMessage

\* Publishing a bid, delivered or not, keeps HandlersSound.
LEMMA PublishBidSound ==
  ASSUME HandlersSound, NEW b \in Bids, PublishBid(b)
  PROVE  HandlersSound'
<1> DEFINE q == request[b]
<1>1. /\ TypeOK /\ BidInv(b) /\ q.pc = "publish" /\ q.pc \in Decided
      /\ q \in Request /\ UNCHANGED storeVars
  BY DEF HandlersSound, TypeOK, PublishBid, Decided
<1>2. PICK r :
        /\ Become(b, r)
        /\ \/ r = [q EXCEPT !.pc = "remove"] /\ Len(q.todo) = 2
           \/ r = [q EXCEPT !.pc = "release", !.answer = "ok"]
           \/ r = [q EXCEPT !.pc = "release", !.answer = "error"]
  BY DEF PublishBid, Goto, Answer
<1>3. r \in Request
  <2>1. "remove" \in RequestSteps /\ "add" \in RequestSteps
    BY DEF RequestSteps
  <2>2. "ok" \in Answers /\ "error" \in Answers
    BY DEF Answers
  <2>3. /\ [q EXCEPT !.pc = "remove"] \in Request
        /\ [q EXCEPT !.pc = "release", !.answer = "ok"] \in Request
        /\ [q EXCEPT !.pc = "release", !.answer = "error"] \in Request
    BY <1>1, <2>1, <2>2, GoOnType
  <2> QED BY <1>2, <2>3
<1>4. /\ request' \in [Bids -> Request] /\ request'[b] = r
      /\ \A c \in Bids : c # b => request'[c] = request[c]
  BY <1>1, <1>2, <1>3, BecomeOwn
<1>5. TypeOK'
  <2>1. notified' \in {notified, notified \cup {BidMessage(b)}}
    BY DEF PublishBid
  <2>2. notified' \subseteq [bid : Bids, user : Users,
                             previous : Users \cup {None}]
    BY <1>1, <2>1, BidMessageType DEF TypeOK
  <2> QED BY <1>1, <1>4, <2>2 DEF TypeOK, PublishBid, storeVars, viewVars, envVars
<1>6. BidInv(b)'
  <2>1. CASE r = [q EXCEPT !.pc = "remove"] /\ Len(q.todo) = 2
    <3>1. /\ r.pc = "remove" /\ r.base = q.base /\ r.todo = q.todo
          /\ r.user = q.user /\ r.amount = q.amount
          /\ r.placedAt = q.placedAt
      BY <1>1, <2>1 DEF Request
    <3> QED BY <1>1, <1>3, <1>4, <2>1, <3>1, GoOnSound DEF Decided
  <2>2. CASE \/ r = [q EXCEPT !.pc = "release", !.answer = "ok"]
             \/ r = [q EXCEPT !.pc = "release", !.answer = "error"]
    BY <1>1, <1>4, <2>2, LeaveSound
  <2> QED BY <1>2, <2>1, <2>2
<1>7. \A c \in Bids : request'[c] = request[c] \/ BidInv(c)'
  BY <1>4, <1>6
<1> QED BY <1>1, <1>5, <1>7, Assemble DEF PublishBid

\* Removing the close job, or failing to, keeps HandlersSound.
LEMMA RemoveCloseSound ==
  ASSUME HandlersSound, NEW b \in Bids, RemoveClose(b)
  PROVE  HandlersSound'
<1> DEFINE q == request[b]
<1>1. /\ TypeOK /\ BidInv(b) /\ q.pc = "remove" /\ q.pc \in Decided
      /\ q \in Request /\ Len(q.todo) = 2 /\ UNCHANGED storeVars
  BY DEF HandlersSound, TypeOK, BidInv, RemoveClose, Decided
<1>2. PICK r :
        /\ Become(b, r)
        /\ \/ r = [q EXCEPT !.pc = "add"]
           \/ r = [q EXCEPT !.pc = "release", !.answer = "error"]
  BY DEF RemoveClose, Goto, Answer
<1>3. r \in Request
  <2>1. "remove" \in RequestSteps /\ "add" \in RequestSteps
    BY DEF RequestSteps
  <2>2. "ok" \in Answers /\ "error" \in Answers
    BY DEF Answers
  <2>3. [q EXCEPT !.pc = "add"] \in Request
    BY <1>1, <2>1, GoOnType
  <2>4. [q EXCEPT !.pc = "release", !.answer = "error"] \in Request
    BY <1>1, <2>2, GoOnType
  <2> QED BY <1>2, <2>3, <2>4
<1>4. /\ request' \in [Bids -> Request] /\ request'[b] = r
      /\ \A c \in Bids : c # b => request'[c] = request[c]
  BY <1>1, <1>2, <1>3, BecomeOwn
<1>5. TypeOK'
  <2>1. jobs' \in [JobNames -> Job]
    <3>1. NoJob \in Job
      BY DEF NoJob, Job, JobStates
    <3>2. jobs' = [jobs EXCEPT !["close"] = NoJob] \/ jobs' = jobs
      BY DEF RemoveClose
    <3> QED BY <1>1, <3>1, <3>2 DEF TypeOK
  <2> QED BY <1>1, <1>4, <2>1 DEF TypeOK, RemoveClose, storeVars, viewVars,
                                  busVars, envVars
<1>6. BidInv(b)'
  <2>1. CASE r = [q EXCEPT !.pc = "add"]
    <3>1. /\ r.pc = "add" /\ r.base = q.base /\ r.todo = q.todo
          /\ r.user = q.user /\ r.amount = q.amount
          /\ r.placedAt = q.placedAt
      BY <1>1, <2>1 DEF Request
    <3> QED BY <1>1, <1>3, <1>4, <3>1, GoOnSound DEF Decided
  <2>2. CASE r = [q EXCEPT !.pc = "release", !.answer = "error"]
    BY <1>1, <1>4, <2>2, LeaveSound
  <2> QED BY <1>2, <2>1, <2>2
<1>7. \A c \in Bids : request'[c] = request[c] \/ BidInv(c)'
  BY <1>4, <1>6
<1> QED BY <1>1, <1>5, <1>7, Assemble DEF RemoveClose

\* queue.add keeps the jobs' type: a delay is never negative.
LEMMA AddJobType ==
  ASSUME TypeOK, NEW k \in JobNames, NEW at \in Nat
  PROVE  AddJob(jobs, k, at) \in [JobNames -> Job]
BY DEF TypeOK, AddJob, Added, NewJob, Job, JobStates

\* Adding the close job at the extended end keeps HandlersSound.
LEMMA AddCloseSound ==
  ASSUME HandlersSound, NEW b \in Bids, AddClose(b)
  PROVE  HandlersSound'
<1> DEFINE q == request[b]
           r == [q EXCEPT !.pc = "release", !.answer = "ok"]
<1>1. /\ TypeOK /\ BidInv(b) /\ q.pc = "add" /\ q.pc \in Decided
      /\ Become(b, r) /\ UNCHANGED storeVars
  BY DEF HandlersSound, AddClose, Answer, Decided
<1>2. r \in Request
  BY <1>1, GoOnType DEF Answers
<1>3. /\ request' \in [Bids -> Request] /\ request'[b] = r
      /\ \A c \in Bids : c # b => request'[c] = request[c]
  BY <1>1, <1>2, BecomeOwn
<1>4. jobs' \in [JobNames -> Job]
  <2>1. q.todo[2].endAt \in Nat
    BY <1>1, DecidedTodo DEF BidInv, ExtendedEvents
  <2> QED BY <1>1, <2>1, AddJobType DEF AddClose, JobNames
<1>5. TypeOK'
  BY <1>1, <1>3, <1>4 DEF TypeOK, AddClose, storeVars, viewVars, busVars, envVars
<1>6. BidInv(b)'
  BY <1>1, <1>3, LeaveSound
<1>7. \A c \in Bids : request'[c] = request[c] \/ BidInv(c)'
  BY <1>3, <1>6
<1> QED BY <1>1, <1>5, <1>7, Assemble DEF AddClose

\* The finally block keeps HandlersSound.
LEMMA ReleaseSound ==
  ASSUME HandlersSound, NEW b \in Bids, Release(b)
  PROVE  HandlersSound'
<1> DEFINE r == Finished(request[b].answer)
<1>1. TypeOK /\ request[b].answer \in Answers /\ Become(b, r)
  BY DEF HandlersSound, TypeOK, Request, Release
<1>2. r \in Request /\ r.pc = "done"
  BY <1>1, FinishedType
<1>3. /\ request' \in [Bids -> Request] /\ request'[b] = r
      /\ \A c \in Bids : c # b => request'[c] = request[c]
  BY <1>1, <1>2, BecomeOwn
<1>4. TypeOK'
  BY <1>1, <1>3 DEF TypeOK, Release, storeVars, viewVars, busVars, envVars
<1>5. BidInv(b)'
  BY <1>2, <1>3 DEF BidInv, Decided
<1>6. \A c \in Bids : request'[c] = request[c] \/ BidInv(c)'
  BY <1>3, <1>5
<1> QED BY <1>4, <1>6, Assemble DEF Release

-----------------------------------------------------------------------------
(***************************************************************************)
(* The steps of the schedule request.                                      *)
(***************************************************************************)

\* A schedule is one event, and any store may take it next.
LEMMA ScheduleTodo ==
  ASSUME HandlersSound, admin.pc # "idle"
  PROVE  /\ admin.base \in Nat /\ admin.base <= Len(log)
         /\ admin.todo[1] \in Event /\ LawfulNext(admin.todo[1])
         /\ admin.todo[1].terms \in Terms
<1>1. PICK t \in Terms : admin.todo = << Schedule(t) >>
  BY DEF HandlersSound, AdminInv
<1>2. admin.base \in Nat /\ admin.base <= Len(log)
  BY DEF HandlersSound, AdminInv, TypeOK, AdminState
<1>3. Schedule(t) \in Event /\ Schedule(t).terms = t
      /\ Schedule(t).type = "AuctionScheduled"
  BY CommandType DEF Event, Schedule
<1> QED BY <1>1, <1>2, <1>3 DEF LawfulNext

\* A schedule request that loads the lot keeps HandlersSound.
LEMMA ScheduleLoadSound ==
  ASSUME HandlersSound, ScheduleLoad
  PROVE  HandlersSound'
<1>1. PICK t \in Terms :
        admin' = [pc |-> "append", base |-> Len(log), todo |-> << Schedule(t) >>]
  BY DEF ScheduleLoad
<1>2. TypeOK /\ Len(log) \in Nat /\ << Schedule(t) >> \in Seq(Event)
  BY CommandType, StoreReadable DEF HandlersSound, Event
<1>3. TypeOK'
  BY <1>1, <1>2 DEF TypeOK, ScheduleLoad, AdminState, AdminSteps, storeVars,
                    viewVars, busVars
<1>4. AdminInv'
  BY <1>1, <1>2 DEF AdminInv, ScheduleLoad, storeVars
<1> QED BY <1>3, <1>4, Assemble DEF ScheduleLoad

\* Storing a schedule, or its rejection, keeps HandlersSound.
LEMMA ScheduleAppendSound ==
  ASSUME HandlersSound, ScheduleAppend
  PROVE  HandlersSound'
<1>1. /\ TypeOK /\ ReplayInv /\ AdminInv /\ admin.pc # "idle"
      /\ admin \in AdminState
  BY DEF HandlersSound, TypeOK, ScheduleAppend
<1>2. CASE Conflict(admin.base, 1)
  <2>1. admin' = AdminIdle /\ UNCHANGED storeVars
    BY <1>2 DEF ScheduleAppend
  <2>2. AdminIdle \in AdminState
    <3>1. << >> \in Seq(Event)
      OBVIOUS
    <3> QED BY <3>1 DEF AdminIdle, AdminState, AdminSteps
  <2>3. TypeOK'
    BY <1>1, <2>1, <2>2 DEF TypeOK, ScheduleAppend, storeVars, viewVars,
                            busVars, envVars
  <2>4. AdminInv'
    BY <2>1 DEF AdminInv, AdminIdle
  <2> QED BY <2>1, <2>3, <2>4, Assemble DEF ScheduleAppend
<1>3. CASE ~Conflict(admin.base, 1)
  <2>1. /\ Insert(admin.todo[1]) /\ admin' = [admin EXCEPT !.pc = "project"]
        /\ admin.todo[1] \in Event /\ LawfulNext(admin.todo[1])
    BY <1>1, <1>3, ScheduleTodo DEF ScheduleAppend
  <2>2. /\ log' \in Seq(Event) /\ replay' \in Seq(Aggregate)
        /\ Len(log') = Len(log) + 1 /\ Len(log) \in Nat
    BY <1>1, <2>1, InsertAppends, StoreReadable
  <2>3. admin' \in AdminState
    BY <1>1, <2>1 DEF AdminState, AdminSteps
  <2>4. TypeOK'
    BY <1>1, <2>2, <2>3 DEF TypeOK, ScheduleAppend, viewVars, busVars, envVars
  <2>5. AdminInv'
    <3>1. admin'.base = admin.base /\ admin'.todo = admin.todo
      BY <1>1, <2>1 DEF AdminState
    <3> QED BY <1>1, <2>2, <3>1 DEF AdminInv, AdminState
  <2> QED BY <2>1, <2>4, <2>5, Assemble DEF ScheduleAppend
<1> QED BY <1>2, <1>3

\* A schedule request goes on with what it loaded, or is over.
LEMMA AdminGoesOn ==
  ASSUME HandlersSound, UNCHANGED storeVars, admin.pc # "idle",
         NEW pc \in AdminSteps,
         admin' = [admin EXCEPT !.pc = pc] \/ admin' = AdminIdle
  PROVE  admin' \in AdminState /\ AdminInv'
<1>1. admin \in AdminState /\ AdminInv /\ log' = log
  BY DEF HandlersSound, TypeOK, storeVars
<1>2. CASE admin' = [admin EXCEPT !.pc = pc]
  BY <1>1, <1>2 DEF AdminState, AdminInv
<1>3. CASE admin' = AdminIdle
  <2>1. << >> \in Seq(Event)
    OBVIOUS
  <2> QED BY <1>3, <2>1 DEF AdminState, AdminSteps, AdminInv, AdminIdle
<1> QED BY <1>2, <1>3

\* Projecting a schedule keeps HandlersSound.
LEMMA ScheduleProjectSound ==
  ASSUME HandlersSound, ScheduleProject
  PROVE  HandlersSound'
<1>1. TypeOK /\ admin.pc # "idle" /\ UNCHANGED storeVars
  BY DEF HandlersSound, ScheduleProject
<1>2. admin' \in AdminState /\ AdminInv'
  BY <1>1, AdminGoesOn DEF ScheduleProject, AdminSteps
<1>3. row' \in Row
  BY <1>1, ScheduleTodo, ProjectRowType DEF TypeOK, ScheduleProject
<1>4. TypeOK'
  BY <1>1, <1>2, <1>3 DEF TypeOK, ScheduleProject, storeVars, busVars, envVars
<1> QED BY <1>1, <1>2, <1>4, Assemble DEF ScheduleProject

\* Adding the start job keeps HandlersSound.
LEMMA ScheduleStartSound ==
  ASSUME HandlersSound, ScheduleStart
  PROVE  HandlersSound'
<1>1. TypeOK /\ admin.pc # "idle" /\ UNCHANGED storeVars
  BY DEF HandlersSound, ScheduleStart
<1>2. admin' \in AdminState /\ AdminInv'
  BY <1>1, AdminGoesOn DEF ScheduleStart, AdminSteps
<1>3. jobs' \in [JobNames -> Job]
  <2>1. admin.todo[1].terms.startAt \in Nat
    BY <1>1, ScheduleTodo, TermsAssumption
  <2> QED BY <1>1, <2>1, AddJobType DEF ScheduleStart, JobNames
<1>4. TypeOK'
  BY <1>1, <1>2, <1>3 DEF TypeOK, ScheduleStart, storeVars, viewVars, busVars,
                          envVars
<1> QED BY <1>1, <1>2, <1>4, Assemble DEF ScheduleStart

\* Adding the close job keeps HandlersSound.
LEMMA ScheduleCloseSound ==
  ASSUME HandlersSound, ScheduleClose
  PROVE  HandlersSound'
<1>1. TypeOK /\ admin.pc # "idle" /\ UNCHANGED storeVars
  BY DEF HandlersSound, ScheduleClose
<1>2. admin' \in AdminState /\ AdminInv'
  BY <1>1, AdminGoesOn DEF ScheduleClose, AdminSteps
<1>3. jobs' \in [JobNames -> Job]
  <2>1. admin.todo[1].terms.endAt \in Nat
    BY <1>1, ScheduleTodo, TermsAssumption
  <2> QED BY <1>1, <2>1, AddJobType DEF ScheduleClose, JobNames
<1>4. TypeOK'
  BY <1>1, <1>2, <1>3 DEF TypeOK, ScheduleClose, storeVars, viewVars, busVars,
                          envVars
<1> QED BY <1>1, <1>2, <1>4, Assemble DEF ScheduleClose

-----------------------------------------------------------------------------
(***************************************************************************)
(* The steps of the timer worker.                                          *)
(***************************************************************************)

\* The worker that takes a job keeps HandlersSound.
LEMMA TakeJobSound ==
  ASSUME HandlersSound, NEW k \in JobNames, TakeJob(k)
  PROVE  HandlersSound'
<1>1. /\ TypeOK /\ UNCHANGED storeVars /\ SetJob(k, "active")
      /\ worker' = [WorkerIdle EXCEPT !.pc = "load", !.job = k]
  BY DEF HandlersSound, TakeJob
<1>2. worker' \in WorkerState
  <2>1. << >> \in Seq(Event)
    OBVIOUS
  <2> QED BY <1>1, <2>1 DEF WorkerIdle, WorkerState, WorkerSteps
<1>3. jobs' \in [JobNames -> Job]
  BY <1>1 DEF TypeOK, SetJob, Job, JobStates
<1>4. TypeOK'
  BY <1>1, <1>2, <1>3 DEF TypeOK, TakeJob, storeVars, viewVars, busVars, envVars
<1>5. WorkerInv'
  BY <1>1 DEF WorkerInv, WorkerIdle
<1> QED BY <1>1, <1>4, <1>5, Assemble DEF TakeJob

\* The worker that loads the lot and decides keeps HandlersSound.
LEMMA WorkerLoadSound ==
  ASSUME HandlersSound, WorkerLoad
  PROVE  HandlersSound'
<1>1. /\ TypeOK /\ UNCHANGED storeVars /\ WorkerInv
      /\ worker \in WorkerState /\ worker.pc = "load" /\ worker.job \in JobNames
  BY DEF HandlersSound, TypeOK, WorkerInv, WorkerLoad
<1>2. /\ Current \in Aggregate /\ Len(log) \in Nat
      /\ Current = replay[Len(log) + 1] /\ log' = log /\ replay' = replay
  BY <1>1, StoreReadable DEF HandlersSound, storeVars
<1>3. CASE worker' = [worker EXCEPT !.pc = "complete"]
  <2>1. worker' \in WorkerState
    BY <1>1, <1>3 DEF WorkerState, WorkerSteps
  <2>2. TypeOK'
    BY <1>1, <2>1 DEF TypeOK, WorkerLoad, storeVars, viewVars, busVars, envVars
  <2>3. WorkerInv'
    BY <1>1, <1>3 DEF WorkerInv, WorkerState
  <2> QED BY <1>1, <2>2, <2>3, Assemble DEF WorkerLoad
<1>4. ASSUME NEW e \in Event,
             worker' = [worker EXCEPT !.pc = "append", !.base = Len(log),
                                      !.todo = << e >>],
             \/ worker.job = "start" /\ e = Start
             \/ /\ worker.job = "close" /\ e = Close(Current)
                /\ Current.status \notin TerminalStatuses
      PROVE  HandlersSound'
  <2>1. << e >> \in Seq(Event)
    OBVIOUS
  <2>2. worker' \in WorkerState
    BY <1>1, <1>2, <1>4, <2>1 DEF WorkerState, WorkerSteps
  <2>3. TypeOK'
    BY <1>1, <2>2 DEF TypeOK, WorkerLoad, storeVars, viewVars, busVars, envVars
  <2>4. /\ worker'.pc = "append" /\ worker'.base = Len(log)
        /\ worker'.todo = << e >> /\ worker'.job = worker.job
    BY <1>1, <1>4 DEF WorkerState
  <2>5. WorkerInv'
    BY <1>1, <1>2, <1>4, <2>4 DEF WorkerInv
  <2> QED BY <1>1, <2>3, <2>5, Assemble DEF WorkerLoad
<1>5. Start \in Event /\ Close(Current) \in Event
  BY <1>2, CommandType, CloseType DEF Event
<1> QED BY <1>3, <1>4, <1>5 DEF WorkerLoad, AlreadyClosed, WorkerGoto

\* What the worker's handler appends is one event, and the store it loaded
\* may take it next.
LEMMA WorkerTodo ==
  ASSUME HandlersSound, worker.pc \in {"append", "project", "publish"}
  PROVE  /\ worker.base \in Nat /\ worker.base <= Len(log)
         /\ worker.todo[1] \in Event
         /\ worker.job = "close" => worker.todo[1] \in ClosedEvents
         /\ Len(log) = worker.base => LawfulNext(worker.todo[1])
<1>1. WorkerInv /\ TypeOK /\ ReplayInv /\ worker.base \in Nat
  BY DEF HandlersSound, TypeOK, WorkerState
<1>2. worker.base <= Len(log) /\ Len(log) \in Nat
  BY <1>1, StoreReadable DEF WorkerInv
<1>3. CASE worker.job = "start" /\ worker.todo = << Start >>
  BY <1>2, <1>1, <1>3, CommandType DEF Event, LawfulNext, Start
<1>4. CASE /\ worker.job = "close"
           /\ replay[worker.base + 1].status \notin TerminalStatuses
           /\ worker.todo = << Close(replay[worker.base + 1]) >>
  <2>1. replay[worker.base + 1] \in Aggregate
    BY <1>1, <1>2, StoreReadable
  <2>2. worker.todo[1] \in ClosedEvents
    BY <1>4, <2>1, CloseType
  <2>3. worker.todo[1].type = "AuctionClosed"
    BY <2>2 DEF ClosedEvents
  <2>4. Len(log) = worker.base => Current = replay[worker.base + 1]
    BY <1>1, StoreReadable
  <2> QED BY <1>1, <1>2, <1>4, <2>2, <2>3, <2>4 DEF Event, LawfulNext
<1> QED BY <1>1, <1>3, <1>4 DEF WorkerInv

\* A handler of the worker that leaves is believed nothing.
LEMMA WorkerLeaves ==
  ASSUME HandlersSound, UNCHANGED storeVars, worker.pc # "idle",
         NEW pc \in {"complete", "fail"}, worker' = [worker EXCEPT !.pc = pc]
  PROVE  worker' \in WorkerState /\ WorkerInv'
BY DEF HandlersSound, TypeOK, WorkerState, WorkerSteps, WorkerInv

\* The worker's append keeps HandlersSound: behind a changed store it fails.
LEMMA WorkerAppendSound ==
  ASSUME HandlersSound, WorkerAppend
  PROVE  HandlersSound'
<1>1. /\ TypeOK /\ ReplayInv /\ WorkerInv /\ worker.pc = "append"
      /\ worker \in WorkerState
  BY DEF HandlersSound, TypeOK, WorkerAppend
<1>2. CASE Conflict(worker.base, 1)
  <2>1. worker' = [worker EXCEPT !.pc = "fail"] /\ UNCHANGED storeVars
    BY <1>2 DEF WorkerAppend, CommandRejected, WorkerGoto
  <2>2. worker' \in WorkerState /\ WorkerInv'
    BY <1>1, <2>1, WorkerLeaves
  <2>3. TypeOK'
    BY <1>1, <2>1, <2>2 DEF TypeOK, WorkerAppend, storeVars, viewVars,
                            busVars, envVars
  <2> QED BY <2>1, <2>2, <2>3, Assemble DEF WorkerAppend
<1>3. CASE ~Conflict(worker.base, 1)
  <2> DEFINE e == worker.todo[1]
  <2>1. /\ Insert(e) /\ worker' = [worker EXCEPT !.pc = "project"]
        /\ worker.base \in Nat /\ e \in Event
    BY <1>1, <1>3, WorkerTodo DEF WorkerAppend, WorkerGoto
  <2>2. Len(log) = worker.base /\ LawfulNext(e) /\ Len(log) \in Nat
    BY <1>1, <1>3, <2>1, WorkerTodo, StoreReadable DEF Conflict
  <2>3. log' \in Seq(Event) /\ replay' \in Seq(Aggregate)
    BY <1>1, <2>1, InsertAppends
  <2>4. /\ worker' \in WorkerState /\ worker'.pc = "project"
        /\ worker'.base = worker.base /\ worker'.todo = worker.todo
        /\ worker'.job = worker.job
    BY <1>1, <2>1 DEF WorkerState, WorkerSteps
  <2>5. TypeOK'
    BY <1>1, <2>3, <2>4 DEF TypeOK, WorkerAppend, viewVars, busVars, envVars
  <2>6. /\ worker.base + 1 <= Len(log')
        /\ \A i \in 1..1 : log'[worker.base + i] = worker.todo[i]
        /\ worker.base <= Len(log')
        /\ replay'[worker.base + 1] = replay[worker.base + 1]
    <3>1. Len(log) = worker.base + 0 /\ StoredUpTo(worker.base, worker.todo, 0)
      BY <2>1, <2>2 DEF StoredUpTo
    <3>2. 0 \in Nat /\ 0 + 1 = 1
      OBVIOUS
    <3> HIDE DEF e
    <3>3. worker.todo[0 + 1] \in Event /\ Insert(worker.todo[0 + 1])
      BY <2>1, <3>2 DEF e
    <3>4. /\ worker.base + (0 + 1) <= Len(log')
          /\ \A i \in 1..(0 + 1) : log'[worker.base + i] = worker.todo[i]
          /\ worker.base <= Len(log')
          /\ replay'[worker.base + 1] = replay[worker.base + 1]
      BY <1>1, <2>1, <3>1, <3>2, <3>3, PrefixGrows
    <3> QED BY <3>4, <3>2
  <2>7. WorkerInv'
    BY <1>1, <2>4, <2>6 DEF WorkerInv, StoredUpTo
  <2> QED BY <2>1, <2>2, <2>5, <2>7, Assemble DEF WorkerAppend
<1> QED BY <1>2, <1>3

\* Projecting the worker's event keeps HandlersSound.
LEMMA WorkerProjectSound ==
  ASSUME HandlersSound, WorkerProject
  PROVE  HandlersSound'
<1>1. /\ TypeOK /\ UNCHANGED storeVars /\ WorkerInv /\ worker.pc = "project"
      /\ worker \in WorkerState /\ log' = log /\ replay' = replay
  BY DEF HandlersSound, TypeOK, WorkerProject, storeVars
<1>2. /\ worker' \in WorkerState
      /\ worker'.pc \in {"publish", "complete"}
      /\ worker'.pc = "publish" => worker.job = "close"
      /\ worker'.base = worker.base /\ worker'.todo = worker.todo
      /\ worker'.job = worker.job
  <2>1. \/ /\ worker' = [worker EXCEPT !.pc = "publish"]
           /\ worker.job = "close"
        \/ worker' = [worker EXCEPT !.pc = "complete"]
    BY DEF WorkerProject, WorkerGoto
  <2> QED BY <1>1, <2>1 DEF WorkerState, WorkerSteps
<1>3. row' \in Row
  BY <1>1, WorkerTodo, ProjectRowType DEF TypeOK, WorkerProject
<1>4. TypeOK'
  BY <1>1, <1>2, <1>3 DEF TypeOK, WorkerProject, storeVars, busVars, envVars
<1>5. WorkerInv'
  BY <1>1, <1>2 DEF WorkerInv, StoredUpTo
<1> QED BY <1>1, <1>4, <1>5, Assemble DEF WorkerProject

\* Announcing a verdict keeps HandlersSound.
LEMMA PublishClosedSound ==
  ASSUME HandlersSound, PublishClosed
  PROVE  HandlersSound'
<1>1. /\ TypeOK /\ UNCHANGED storeVars /\ WorkerInv /\ worker.pc = "publish"
  BY DEF HandlersSound, PublishClosed
<1>2. PICK pc \in {"complete", "fail"} : worker' = [worker EXCEPT !.pc = pc]
  BY DEF PublishClosed, WorkerGoto
<1>3. worker' \in WorkerState /\ WorkerInv'
  BY <1>1, <1>2, WorkerLeaves
<1>4. announced' \in Seq([at : Nat, verdict : ClosedEvents])
  <2>1. ClosedMessage \in [at : Nat, verdict : ClosedEvents]
    BY <1>1, WorkerTodo DEF ClosedMessage, WorkerInv
  <2>2. announced' \in {announced, Append(announced, ClosedMessage)}
    BY DEF PublishClosed
  <2>3. ASSUME NEW M, NEW s \in Seq(M), NEW m \in M PROVE Append(s, m) \in Seq(M)
    OBVIOUS
  <2>4. announced \in Seq([at : Nat, verdict : ClosedEvents])
    BY <1>1 DEF TypeOK
  <2>5. Append(announced, ClosedMessage) \in Seq([at : Nat, verdict : ClosedEvents])
    BY <2>1, <2>3, <2>4, Zenon
  <2> QED BY <2>2, <2>4, <2>5
<1>5. TypeOK'
  BY <1>1, <1>3, <1>4 DEF TypeOK, PublishClosed, storeVars, viewVars, envVars
<1> QED BY <1>1, <1>3, <1>5, Assemble DEF PublishClosed

\* An idle worker is believed nothing.
LEMMA WorkerIdleType ==
  /\ WorkerIdle \in WorkerState
  /\ worker' = WorkerIdle => WorkerInv'
<1>1. << >> \in Seq(Event)
  OBVIOUS
<1> QED BY <1>1 DEF WorkerIdle, WorkerState, WorkerSteps, WorkerInv

\* An idle schedule request is believed nothing.
LEMMA AdminIdleType ==
  /\ AdminIdle \in AdminState
  /\ admin' = AdminIdle => AdminInv'
<1>1. << >> \in Seq(Event)
  OBVIOUS
<1> QED BY <1>1 DEF AdminIdle, AdminState, AdminSteps, AdminInv

\* Finishing a job keeps HandlersSound.
LEMMA FinishJobSound ==
  ASSUME HandlersSound, FinishJob
  PROVE  HandlersSound'
<1>1. TypeOK /\ UNCHANGED storeVars /\ worker' = WorkerIdle
  BY DEF HandlersSound, FinishJob
<1>2. jobs' \in [JobNames -> Job]
  BY <1>1 DEF TypeOK, FinishJob, SetJob, Job, JobStates
<1>3. TypeOK'
  BY <1>1, <1>2, WorkerIdleType DEF TypeOK, FinishJob, storeVars, viewVars,
                                    busVars, envVars
<1> QED BY <1>1, <1>3, WorkerIdleType, Assemble DEF FinishJob

-----------------------------------------------------------------------------
(***************************************************************************)
(* The steps of the environment.                                           *)
(***************************************************************************)

\* The end of the key's time to live keeps HandlersSound.
LEMMA ExpireLockSound ==
  ASSUME HandlersSound, ExpireLock
  PROVE  HandlersSound'
<1>1. TypeOK'
  BY DEF HandlersSound, TypeOK, ExpireLock, storeVars, viewVars, busVars, envVars
<1> QED BY <1>1, Assemble DEF ExpireLock

\* BullMQ's treatment of a stalled job keeps HandlersSound.
LEMMA RecoverStalledSound ==
  ASSUME HandlersSound, NEW k \in JobNames, RecoverStalled(k)
  PROVE  HandlersSound'
<1>1. TypeOK /\ jobs[k] \in Job
  BY DEF HandlersSound, TypeOK
<1>2. jobs' \in [JobNames -> Job]
  <2>1. jobs[k].stalls + 1 \in Nat
    BY <1>1 DEF Job
  <2>2. PutBack(jobs[k]) \in Job
    BY <1>1, <2>1 DEF PutBack, Job, JobStates
  <2>3. jobs' = [jobs EXCEPT ![k] = PutBack(jobs[k])]
    BY DEF RecoverStalled
  <2> QED BY <1>1, <2>2, <2>3 DEF TypeOK
<1>3. TypeOK'
  BY <1>1, <1>2 DEF TypeOK, RecoverStalled, storeVars, viewVars, busVars, envVars
<1> QED BY <1>3, Assemble DEF RecoverStalled

\* A crash between any two awaits keeps HandlersSound: the locals are gone.
LEMMA CrashSound ==
  ASSUME HandlersSound, Crash
  PROVE  HandlersSound'
<1>1. /\ TypeOK /\ UNCHANGED storeVars /\ WorkerInv
      /\ admin' = AdminIdle /\ worker' = WorkerIdle
  BY DEF HandlersSound, Crash
<1>2. /\ Finished("lost") \in Request /\ Finished("lost").pc = "done"
      /\ Finished("lost").done = 0
  BY FinishedType DEF Answers
<1>3. /\ request' \in [Bids -> Request]
      /\ \A b \in Bids : \/ request'[b] = request[b]
                         \/ request'[b] = Finished("lost")
  BY <1>1, <1>2 DEF TypeOK, Crash
<1>4. jobs' \in [JobNames -> Job]
  BY <1>1 DEF TypeOK, Crash, SetJob, WorkerInv, Job, JobStates
<1>5. TypeOK'
  BY <1>1, <1>3, <1>4, WorkerIdleType, AdminIdleType
  DEF TypeOK, Crash, storeVars, viewVars, busVars
<1>6. ASSUME NEW b \in Bids PROVE request'[b] = request[b] \/ BidInv(b)'
  BY <1>2, <1>3 DEF BidInv, Decided
<1> QED BY <1>1, <1>5, <1>6, WorkerIdleType, AdminIdleType, Assemble

\* The clock's tick keeps HandlersSound.
LEMMA TickSound ==
  ASSUME HandlersSound, Tick
  PROVE  HandlersSound'
<1>1. TypeOK'
  BY DEF HandlersSound, TypeOK, Tick, storeVars, viewVars, busVars
<1> QED BY <1>1, Assemble DEF Tick

-----------------------------------------------------------------------------
(***************************************************************************)
(* The invariant and what follows from it.                                 *)
(***************************************************************************)

\* An empty store, no handler started: the engine starts sound.
LEMMA InitSound ==
  ASSUME Init
  PROVE  HandlersSound
<1>1. << >> \in Seq(Event) /\ Fresh \in Aggregate
  <2>1. << >> \in Seq(Event)
    OBVIOUS
  <2> QED BY <2>1 DEF Fresh, Aggregate, Status
<1>2. log = << >> /\ Len(log) = 0 /\ 1..Len(log) = {}
  BY DEF Init
<1>3. replay \in Seq(Aggregate) /\ Len(replay) = 1
  <2>1. << Fresh >> \in Seq(Aggregate) /\ Len(<< Fresh >>) = 1
    BY <1>1
  <2> QED BY <2>1 DEF Init
<1>4. NewRequest \in Request
  BY <1>1 DEF NewRequest, Request, RequestSteps, Answers
<1>5. AdminIdle \in AdminState /\ WorkerIdle \in WorkerState
  BY AdminIdleType, WorkerIdleType
<1>6. TypeOK
  <2>1. NoJob \in Job /\ AbsentRow \in Row
    BY DEF NoJob, Job, JobStates, AbsentRow, Row
  <2>2. announced \in Seq([at : Nat, verdict : ClosedEvents])
    <3>1. \A M : << >> \in Seq(M)
      OBVIOUS
    <3> QED BY <3>1 DEF Init
  <2> QED BY <1>1, <1>3, <1>4, <1>5, <2>1, <2>2 DEF TypeOK, Init
<1>7. ReplayInv
  BY <1>2, <1>3 DEF ReplayInv
<1>8. \A b \in Bids : BidInv(b)
  BY DEF Init, BidInv, Decided, NewRequest
<1>9. AdminInv /\ WorkerInv
  BY DEF Init, AdminInv, WorkerInv, AdminIdle, WorkerIdle
<1>10. LawfulHistory
  BY <1>2 DEF LawfulHistory, Position
<1> QED BY <1>6, <1>7, <1>8, <1>9, <1>10 DEF HandlersSound

\* Every step of the engine, and every stuttering step, keeps HandlersSound.
LEMMA NextSound ==
  ASSUME HandlersSound, [Next]_vars
  PROVE  HandlersSound'
<1>1. ASSUME NEW b \in Bids, Arrive(b) \/ BidStep(b) PROVE HandlersSound'
  BY <1>1, ArriveSound, AcquireSound, LoadSound, AppendBidSound,
     ProjectBidRowSound, InsertBidRowSound, PublishBidSound, RemoveCloseSound,
     AddCloseSound, ReleaseSound DEF BidStep
<1>2. CASE ScheduleLoad \/ AdminStep
  BY <1>2, ScheduleLoadSound, ScheduleAppendSound, ScheduleProjectSound,
     ScheduleStartSound, ScheduleCloseSound DEF AdminStep
<1>3. ASSUME NEW k \in JobNames, TakeJob(k) \/ RecoverStalled(k)
      PROVE  HandlersSound'
  BY <1>3, TakeJobSound, RecoverStalledSound
<1>4. CASE WorkerStep
  BY <1>4, WorkerLoadSound, WorkerAppendSound, WorkerProjectSound,
     PublishClosedSound, FinishJobSound DEF WorkerStep
<1>5. CASE ExpireLock \/ Crash \/ Tick
  BY <1>5, ExpireLockSound, CrashSound, TickSound
<1>6. CASE UNCHANGED vars
  <2>1. /\ UNCHANGED storeVars /\ request' = request /\ admin' = admin
        /\ worker' = worker
    BY <1>6 DEF vars, storeVars
  <2>2. TypeOK'
    BY <1>6 DEF vars, HandlersSound, TypeOK
  <2> QED BY <2>1, <2>2, Assemble
<1> QED BY <1>1, <1>2, <1>3, <1>4, <1>5, <1>6 DEF Next

\* Between any two awaits a handler's locals agree with a prefix of the store,
\* and the store is one the aggregate's rules would have produced.
THEOREM HandlersAlwaysSound == Spec => []HandlersSound
<1>1. Init => HandlersSound
  BY InitSound
<1>2. HandlersSound /\ [Next]_vars => HandlersSound'
  BY NextSound
<1> QED BY <1>1, <1>2, PTL DEF Spec

\* The variables keep the types the code gives them: no handler reads an
\* event that is not there, no job has a negative due time.
THEOREM TypeCorrect == Spec => []TypeOK
<1>1. HandlersSound => TypeOK
  BY DEF HandlersSound
<1> QED BY <1>1, HandlersAlwaysSound, PTL

\* Whoever holds or loses the lock, and wherever the process dies, every bid,
\* extension and verdict in the store is one the aggregate decides on at that
\* very place.
THEOREM HistoryLawful == Spec => []LawfulHistory
<1>1. HandlersSound => LawfulHistory
  BY DEF HandlersSound
<1> QED BY <1>1, HandlersAlwaysSound, PTL

-----------------------------------------------------------------------------
(***************************************************************************)
(* What a lawful store says of bids and verdicts: HistoryKept is carried   *)
(* from one INSERT to the next, and with it go the rise of the bids, the   *)
(* sale to the highest and the finality of a verdict.  At the end, that    *)
(* AuctionEngine implements AuctionBook: every INSERT of a handler is one  *)
(* step of the abstract auction, taken on the stored state, and every      *)
(* other step of the engine leaves the book as it is.                      *)
(***************************************************************************)

-----------------------------------------------------------------------------
(***************************************************************************)
(* The steps that touch the store.                                         *)
(***************************************************************************)

\* The store after an INSERT, place by place.
LEMMA StoreGrows ==
  ASSUME HandlersSound, NEW e \in Event, Insert(e)
  PROVE  LET n == Len(log) IN
           /\ n \in Nat
           /\ Len(log') = n + 1
           /\ log'[n + 1] = e
           /\ \A i \in 1..n : log'[i] = log[i]
           /\ \A i \in 1..(n + 1) : replay'[i] = replay[i]
           /\ Current = replay[n + 1] /\ Current \in Aggregate
           /\ Current' = replay'[n + 2]
           /\ replay'[n + 2] = ApplyEvent(Current, e)
<1>1. TypeOK /\ ReplayInv
  BY DEF HandlersSound
<1>2. /\ Len(log) \in Nat
      /\ Current = replay[Len(log) + 1] /\ Current \in Aggregate
  BY <1>1, StoreReadable
<1>3. /\ ReplayInv'
      /\ Len(log') = Len(log) + 1
      /\ log'[Len(log) + 1] = e
      /\ \A i \in 1..Len(log) : log'[i] = log[i]
      /\ \A i \in 1..(Len(log) + 1) : replay'[i] = replay[i]
  BY <1>1, InsertAppends
<1>4. Len(replay') = Len(log) + 2
  BY <1>2, <1>3 DEF ReplayInv
<1>5. Current' = replay'[Len(log) + 2]
  BY <1>4 DEF Current
<1>6. replay'[Len(log) + 2] = ApplyEvent(Current, e)
  BY <1>2, <1>3 DEF ReplayInv
<1> QED BY <1>2, <1>3, <1>5, <1>6

\* A bid handler that appends is at its bid, or at the extension behind it.
LEMMA AppendPlace ==
  ASSUME HandlersSound, NEW b \in Bids, request[b].pc \in {"append", "project"}
  PROVE  LET q == request[b] IN
           \/ q.done = 0
           \/ q.done = 1 /\ Len(q.todo) = 2
<1> DEFINE q == request[b]
<1>1. /\ q.done \in Nat /\ q.done < Len(q.todo)
      /\ Len(q.todo) = 1 \/ Len(q.todo) = 2
  BY DecidedTodo DEF HandlersSound, BidInv, Decided
<1>2. CASE Len(q.todo) = 1
  BY <1>1, <1>2
<1>3. CASE Len(q.todo) = 2
  BY <1>1, <1>3
<1> QED BY <1>1, <1>2, <1>3

\* A step of the engine leaves the store alone or appends one lawful event,
\* and a bid it appends is not from the future.
LEMMA StoreStep ==
  ASSUME HandlersSound, TimesKept, [Next]_vars
  PROVE  \/ UNCHANGED storeVars
         \/ \E e \in Event : /\ Insert(e) /\ LawfulNext(e)
                             /\ e.type = "BidPlaced" => e.placedAt <= MaxTime
<1>1. ASSUME NEW b \in Bids, AppendBid(b), ~Conflict(request[b].base, request[b].done + 1)
      PROVE  \E e \in Event : /\ Insert(e) /\ LawfulNext(e)
                              /\ e.type = "BidPlaced" => e.placedAt <= MaxTime
  <2> DEFINE e == request[b].todo[request[b].done + 1]
  <2>1. request[b].pc = "append" /\ request[b].pc \in Decided /\ Insert(e)
    BY <1>1 DEF AppendBid, Decided
  <2>2. e \in Event /\ LawfulNext(e)
    BY <1>1, <2>1, AppendLawful
  <2>3. ASSUME e.type = "BidPlaced" PROVE e.placedAt <= MaxTime
    <3>1. \/ request[b].done = 0
          \/ request[b].done = 1 /\ Len(request[b].todo) = 2
      BY <2>1, AppendPlace
    <3>2. /\ request[b].todo[1].placedAt = request[b].placedAt
          /\ Len(request[b].todo) = 2 => request[b].todo[2].type = "TimerExtended"
      <4>1. /\ request[b].todo[1] = BidPlaced(b, request[b].user,
                                  request[b].amount, request[b].placedAt)
            /\ Len(request[b].todo) = 2 => request[b].todo[2] \in ExtendedEvents
        BY <2>1, DecidedTodo
      <4> QED BY <4>1 DEF ExtendedEvents, BidPlaced
    <3>3. \/ e = request[b].todo[1]
          \/ e = request[b].todo[2] /\ Len(request[b].todo) = 2
      BY <3>1
    <3>4. e.placedAt = request[b].placedAt
      BY <2>3, <3>2, <3>3
    <3> QED BY <3>4 DEF TimesKept
  <2> QED BY <2>1, <2>2, <2>3
<1>2. ASSUME ScheduleAppend, ~Conflict(admin.base, 1)
      PROVE  \E e \in Event : /\ Insert(e) /\ LawfulNext(e)
                              /\ e.type = "BidPlaced" => e.placedAt <= MaxTime
  <2>1. admin.pc # "idle" /\ Insert(admin.todo[1])
    BY <1>2 DEF ScheduleAppend
  <2>2. PICK t \in Terms : admin.todo = << Schedule(t) >>
    BY <2>1 DEF HandlersSound, AdminInv
  <2>3. admin.todo[1].type = "AuctionScheduled"
    BY <2>2 DEF Schedule
  <2> QED BY <2>1, <2>3, ScheduleTodo
<1>3. ASSUME WorkerAppend, ~Conflict(worker.base, 1)
      PROVE  \E e \in Event : /\ Insert(e) /\ LawfulNext(e)
                              /\ e.type = "BidPlaced" => e.placedAt <= MaxTime
  <2>1. worker.pc = "append" /\ Insert(worker.todo[1])
    BY <1>3 DEF WorkerAppend
  <2>2. worker.todo[1] \in Event /\ worker.base \in Nat
    BY <2>1, WorkerTodo
  <2>3. Len(log) = worker.base
    BY <1>3, <2>2, StoreReadable DEF Conflict, HandlersSound
  <2>4. worker.todo[1].type \in {"AuctionStarted", "AuctionClosed"}
    BY <2>1 DEF HandlersSound, WorkerInv, Start, Close
  <2> QED BY <2>1, <2>2, <2>3, <2>4, WorkerTodo
<1>4. ASSUME NEW b \in Bids, Arrive(b) \/ BidStep(b)
      PROVE  \/ UNCHANGED storeVars
             \/ AppendBid(b) /\ ~Conflict(request[b].base, request[b].done + 1)
  BY <1>4 DEF BidStep, Arrive, Acquire, Load, AppendBid, ProjectBidRow,
              InsertBidRow, PublishBid, RemoveClose, AddClose, Release
<1>5. ASSUME ScheduleLoad \/ AdminStep
      PROVE  \/ UNCHANGED storeVars
             \/ ScheduleAppend /\ ~Conflict(admin.base, 1)
  BY <1>5 DEF AdminStep, ScheduleLoad, ScheduleAppend, ScheduleProject,
              ScheduleStart, ScheduleClose
<1>6. ASSUME WorkerStep
      PROVE  \/ UNCHANGED storeVars
             \/ WorkerAppend /\ ~Conflict(worker.base, 1)
  BY <1>6 DEF WorkerStep, WorkerLoad, WorkerAppend, WorkerProject,
              PublishClosed, FinishJob
<1>7. ASSUME \/ \E k \in JobNames : TakeJob(k) \/ RecoverStalled(k)
             \/ ExpireLock \/ Crash \/ Tick \/ UNCHANGED vars
      PROVE  UNCHANGED storeVars
  BY <1>7 DEF TakeJob, RecoverStalled, ExpireLock, Crash, Tick, vars, storeVars
<1> QED BY <1>1, <1>2, <1>3, <1>4, <1>5, <1>6, <1>7 DEF Next

-----------------------------------------------------------------------------
(***************************************************************************)
(* The leader.                                                             *)
(***************************************************************************)

\* What an INSERT finds at the places before it stays as it is.
LEMMA LeaderStands ==
  ASSUME HandlersSound, NEW e \in Event, Insert(e), NEW n \in 0..Len(log),
         LeaderAt(n)
  PROVE  LeaderAt(n)'
<1>1. /\ n \in Nat /\ n <= Len(log) /\ Len(log) \in Nat
      /\ \A i \in 1..n : log'[i] = log[i]
      /\ replay'[n + 1] = replay[n + 1]
  BY StoreGrows
<1>2. NoBidsUpTo(n) => NoBidsUpTo(n)'
  BY <1>1 DEF NoBidsUpTo
<1>3. ASSUME NEW j \in 1..n, LeadsUpTo(j, n) PROVE LeadsUpTo(j, n)'
  BY <1>1, <1>3 DEF LeadsUpTo
<1> QED BY <1>1, <1>2, <1>3 DEF LeaderAt

\* A bid that is stored leads, since it beat the leader; any other event
\* leaves the lead to whom it was.
LEMMA LeaderNext ==
  ASSUME HandlersSound, NEW e \in Event, Insert(e), LawfulNext(e),
         NEW n \in Nat, n = Len(log), LeaderAt(n)
  PROVE  LeaderAt(n + 1)'
<1>1. /\ n \in Nat /\ Len(log') = n + 1 /\ log'[n + 1] = e
      /\ \A i \in 1..n : log'[i] = log[i]
      /\ Current = replay[n + 1] /\ Current \in Aggregate
      /\ replay'[n + 2] = ApplyEvent(Current, e)
  BY StoreGrows
<1> DEFINE agg == replay'[(n + 1) + 1]
<1>2. agg = ApplyEvent(Current, e)
  BY <1>1
<1>3. log \in Seq(Event)
  BY DEF HandlersSound, TypeOK
<1>4. CASE e \in BidEvents
  <2>1. /\ e.type = "BidPlaced" /\ e.amount \in Nat
        /\ agg.highestBid = e.bid /\ agg.highestUser = e.user
        /\ agg.highestAmount = e.amount
    BY <1>1, <1>2, <1>4, AmountsAssumption DEF ApplyEvent, BidEvents, Aggregate
  <2>2. /\ Current.highestAmount \in Nat /\ Current.increment \in Nat
        /\ e.amount >= Current.highestAmount + Current.increment
    BY <1>1, <2>1 DEF LawfulNext, Refusal, Aggregate
  <2>3. ASSUME NEW k \in 1..n, log[k].type = "BidPlaced"
        PROVE  log[k].amount <= e.amount
    <3>1. log[k].amount \in Nat
      <4>1. log[k] \in BidEvents
        BY <1>1, <1>3, <2>3 DEF Event, ScheduledEvents, StartedEvents,
                                ExtendedEvents, ClosedEvents
      <4> QED BY <4>1, AmountsAssumption DEF BidEvents
    <3>2. log[k].amount <= Current.highestAmount
      BY <1>1, <2>3 DEF LeaderAt, NoBidsUpTo, LeadsUpTo
    <3> QED BY <2>1, <2>2, <3>1, <3>2
  <2>4. LeadsUpTo(n + 1, n + 1)'
    <3>1. n + 1 \in 1..(n + 1) /\ log'[n + 1].type = "BidPlaced"
      BY <1>1, <2>1
    <3>2. ASSUME NEW k \in 1..(n + 1), log'[k].type = "BidPlaced"
          PROVE  k <= n + 1 /\ log'[k].amount <= log'[n + 1].amount
      <4>1. CASE k = n + 1
        BY <4>1, <1>1, <2>1
      <4>2. CASE k # n + 1
        <5>1. k \in 1..n
          BY <1>1, <4>2
        <5> QED BY <1>1, <2>3, <3>2, <5>1
      <4> QED BY <4>1, <4>2
    <3> QED BY <3>1, <3>2 DEF LeadsUpTo
  <2>5. n + 1 \in 1..(n + 1)
    BY <1>1
  <2> QED BY <1>1, <2>1, <2>4, <2>5 DEF LeaderAt
<1>5. CASE e \notin BidEvents
  <2>1. /\ e.type # "BidPlaced"
        /\ agg.highestBid = Current.highestBid
        /\ agg.highestUser = Current.highestUser
        /\ agg.highestAmount = Current.highestAmount
    <3>1. \/ e \in ScheduledEvents \/ e \in StartedEvents
          \/ e \in ExtendedEvents \/ e \in ClosedEvents
      BY <1>5 DEF Event
    <3>2. e.type \in {"AuctionScheduled", "AuctionStarted", "TimerExtended",
                      "AuctionClosed"}
      BY <3>1 DEF ScheduledEvents, StartedEvents, ExtendedEvents, ClosedEvents
    <3> QED BY <1>1, <1>2, <3>2 DEF ApplyEvent, Aggregate
  <2>2. CASE NoBidsUpTo(n) /\ Current.highestBid = None
             /\ Current.highestUser = None /\ Current.highestAmount = 0
    <3>1. NoBidsUpTo(n + 1)'
      <4>1. ASSUME NEW k \in 1..(n + 1) PROVE log'[k].type # "BidPlaced"
        <5>1. k \in 1..n \/ k = n + 1
          BY <1>1
        <5> QED BY <1>1, <2>1, <2>2, <5>1 DEF NoBidsUpTo
      <4> QED BY <4>1 DEF NoBidsUpTo
    <3> QED BY <2>1, <2>2, <3>1 DEF LeaderAt
  <2>3. ASSUME NEW j \in 1..n, LeadsUpTo(j, n),
               Current.highestBid = log[j].bid,
               Current.highestUser = log[j].user,
               Current.highestAmount = log[j].amount
        PROVE  LeaderAt(n + 1)'
    <3>1. j \in 1..(n + 1) /\ log'[j] = log[j]
      BY <1>1
    <3>2. LeadsUpTo(j, n + 1)'
      <4>1. ASSUME NEW k \in 1..(n + 1), log'[k].type = "BidPlaced"
            PROVE  k <= j /\ log'[k].amount <= log'[j].amount
        <5>1. k \in 1..n
          BY <1>1, <2>1, <4>1
        <5> QED BY <1>1, <2>3, <3>1, <4>1, <5>1 DEF LeadsUpTo
      <4> QED BY <2>3, <3>1, <4>1 DEF LeadsUpTo
    <3> QED BY <2>1, <2>3, <3>1, <3>2 DEF LeaderAt
  <2> QED BY <1>1, <2>2, <2>3 DEF LeaderAt
<1> QED BY <1>4, <1>5

\* An INSERT keeps the leader of every prefix.
LEMMA LeaderInsert ==
  ASSUME HandlersSound, LeaderKept, NEW e \in Event, Insert(e), LawfulNext(e)
  PROVE  LeaderKept'
<1> SUFFICES ASSUME NEW n \in Nat, n = Len(log) PROVE LeaderKept'
  BY StoreGrows
<1>1. Len(log') = n + 1
  BY StoreGrows
<1>2. LeaderAt(n + 1)'
  BY LeaderNext DEF LeaderKept
<1>3. ASSUME NEW m \in 0..n PROVE LeaderAt(m)'
  BY LeaderStands DEF LeaderKept
<1>4. \A m \in 0..(n + 1) : m \in 0..n \/ m = n + 1
  OBVIOUS
<1> QED BY <1>1, <1>2, <1>3, <1>4 DEF LeaderKept

-----------------------------------------------------------------------------
(***************************************************************************)
(* The verdicts.                                                           *)
(***************************************************************************)

\* What was stored since the i-th event is still there after an INSERT.
LEMMA SinceStands ==
  ASSUME HandlersSound, NEW e \in Event, Insert(e),
         NEW m \in 0..Len(log), NEW n \in Nat, m <= n, n <= Len(log) + 1,
         NEW i, NEW T, Since(i, m, T)
  PROVE  Since(i, n, T)'
<1>1. PICK k \in 1..m : i < k /\ log[k].type \in T
  BY DEF Since
<1>2. k \in 1..n /\ log'[k] = log[k]
  BY StoreGrows
<1> QED BY <1>1, <1>2 DEF Since

\* The types of events.
LEMMA EventTypes ==
  ASSUME NEW e \in Event
  PROVE  /\ e.type = "AuctionScheduled" => e \in ScheduledEvents
         /\ e.type = "AuctionStarted"   => e \in StartedEvents
         /\ e.type = "BidPlaced"        => e \in BidEvents
         /\ e.type = "TimerExtended"    => e \in ExtendedEvents
         /\ e.type = "AuctionClosed"    => e \in ClosedEvents
         /\ e.type \in {"AuctionScheduled", "AuctionStarted", "BidPlaced",
                        "TimerExtended", "AuctionClosed"}
BY DEF Event, ScheduledEvents, StartedEvents, BidEvents, ExtendedEvents,
       ClosedEvents

\* Only a start opens a lot that had its verdict: an extension, which sets
\* CLOSING whatever it finds, stands behind a bid that found the lot open.
LEMMA PhaseNext ==
  ASSUME HandlersSound, NEW e \in Event, Insert(e), LawfulNext(e), PhaseKept,
         NEW n \in Nat, n = Len(log)
  PROVE  PhaseAt(n + 1)'
<1>1. /\ Len(log') = n + 1 /\ log'[n + 1] = e
      /\ \A i \in 1..n : log'[i] = log[i]
      /\ Current = replay[n + 1] /\ Current \in Aggregate
      /\ replay'[n + 2] = ApplyEvent(Current, e)
  BY StoreGrows
<1> DEFINE agg == replay'[(n + 1) + 1]
<1>2. agg = ApplyEvent(Current, e)
  BY <1>1
<1>3. e.type = "AuctionClosed" => agg.status \in TerminalStatuses
  BY <1>1, <1>2 DEF ApplyEvent, Aggregate, TerminalStatuses
<1> SUFFICES ASSUME NEW i \in 1..(n + 1), log'[i].type = "AuctionClosed",
                    agg.status \notin TerminalStatuses
             PROVE  /\ agg.status \in Open => Since(i, n + 1, {"AuctionStarted"})'
                    /\ Since(i, n + 1, {"AuctionStarted", "AuctionScheduled"})'
  <2>1. TerminalStatuses \cap Open = {}
    BY DEF TerminalStatuses, Open
  <2> QED BY <2>1 DEF PhaseAt
<1>4. i \in 1..n /\ log[i].type = "AuctionClosed" /\ i \in Nat /\ i <= n
  <2>1. i # n + 1
    BY <1>1, <1>3
  <2> QED BY <1>1, <2>1
<1> DEFINE ByStart(m)   == Since(i, m, {"AuctionStarted"})
           ByEither(m)  == Since(i, m, {"AuctionStarted", "AuctionScheduled"})
<1>5. ASSUME NEW m \in 0..n
      PROVE  /\ ByStart(m) => ByStart(n + 1)'
             /\ ByEither(m) => ByEither(n + 1)'
             /\ ByStart(m) => ByEither(m)
  <2>1. m <= n + 1 /\ n + 1 \in Nat /\ n + 1 <= Len(log) + 1 /\ m \in 0..Len(log)
    OBVIOUS
  <2>2. ByStart(m) => ByStart(n + 1)'
    BY <2>1, SinceStands
  <2>3. ByEither(m) => ByEither(n + 1)'
    BY <2>1, SinceStands
  <2> QED BY <2>2, <2>3 DEF Since
<1>6. CASE e.type = "AuctionStarted"
  <2>1. n + 1 \in 1..(n + 1) /\ i < n + 1
    BY <1>4
  <2> QED BY <1>1, <1>6, <2>1 DEF Since
<1>7. CASE e.type = "AuctionScheduled"
  <2>1. n + 1 \in 1..(n + 1) /\ i < n + 1
    BY <1>4
  <2>2. agg.status = "SCHEDULED"
    BY <1>1, <1>2, <1>7 DEF ApplyEvent, Aggregate
  <2> QED BY <1>1, <1>7, <2>1, <2>2 DEF Since, Open
<1>8. CASE e.type = "BidPlaced"
  <2>1. agg.status = Current.status
    BY <1>1, <1>2, <1>8 DEF ApplyEvent, Aggregate
  <2>2. n \in 0..n /\ PhaseAt(n)
    BY DEF PhaseKept
  <2>3. (agg.status \in Open => ByStart(n)) /\ ByEither(n)
    BY <1>1, <1>4, <2>1, <2>2 DEF PhaseAt
  <2> QED BY <1>5, <2>2, <2>3
<1>9. CASE e.type = "TimerExtended"
  <2>1. n > 0 /\ log[n].type = "BidPlaced"
    BY <1>9 DEF LawfulNext
  <2>2. n - 1 \in 0..n /\ n - 1 \in 0..Len(log) /\ i \in 1..(n - 1)
    BY <1>4, <2>1
  <2>3. replay[n].status \in Open
    <3>1. n \in Position
      BY <2>1 DEF Position
    <3>2. LawfulBid(n)
      BY <2>1, <3>1 DEF HandlersSound, LawfulHistory
    <3> QED BY <3>2 DEF LawfulBid, Refusal, Met
  <2>4. ByStart(n - 1)
    <3>1. PhaseAt(n - 1) /\ (n - 1) + 1 = n
      BY <2>2 DEF PhaseKept
    <3> QED BY <1>4, <2>2, <2>3, <3>1 DEF PhaseAt
  <2> QED BY <1>5, <2>2, <2>4
<1> QED BY <1>3, <1>6, <1>7, <1>8, <1>9, EventTypes

\* What an INSERT finds of the verdicts before it stays as it is.
LEMMA PhaseInsert ==
  ASSUME HandlersSound, PhaseKept, NEW e \in Event, Insert(e), LawfulNext(e)
  PROVE  PhaseKept'
<1> SUFFICES ASSUME NEW n \in Nat, n = Len(log) PROVE PhaseKept'
  BY StoreGrows
<1>1. /\ Len(log') = n + 1
      /\ \A i \in 1..n : log'[i] = log[i]
      /\ \A i \in 1..(n + 1) : replay'[i] = replay[i]
  BY StoreGrows
<1>2. PhaseAt(n + 1)'
  BY PhaseNext
<1>3. ASSUME NEW m \in 0..n PROVE PhaseAt(m)'
  <2>1. PhaseAt(m) /\ m \in Nat /\ m <= n
    BY DEF PhaseKept
  <2>2. ASSUME NEW i, NEW T, Since(i, m, T) PROVE Since(i, m, T)'
    BY <2>1, <2>2, SinceStands
  <2>3. (\A i \in 1..m : log'[i] = log[i]) /\ replay'[m + 1] = replay[m + 1]
    BY <1>1, <2>1
  <2> QED BY <2>1, <2>2, <2>3 DEF PhaseAt
<1>4. \A m \in 0..(n + 1) : m \in 0..n \/ m = n + 1
  OBVIOUS
<1> QED BY <1>1, <1>2, <1>3, <1>4 DEF PhaseKept

-----------------------------------------------------------------------------
(***************************************************************************)
(* The terms, the clock and HistoryKept as a whole.                        *)
(***************************************************************************)

\* No event but a schedule changes the window or the duration.
LEMMA EvenInsert ==
  ASSUME HandlersSound, EvenKept, NEW e \in Event, Insert(e)
  PROVE  EvenKept'
<1> SUFFICES ASSUME NEW n \in Nat, n = Len(log), LongExtensions
             PROVE  \A m \in 0..Len(log') :
                      replay'[m + 1].window <= replay'[m + 1].duration
  BY StoreGrows DEF EvenKept, LongExtensions
<1>1. /\ Len(log') = n + 1
      /\ \A i \in 1..(n + 1) : replay'[i] = replay[i]
      /\ Current = replay[n + 1] /\ Current \in Aggregate
      /\ replay'[n + 2] = ApplyEvent(Current, e)
  BY StoreGrows
<1>2. \A m \in 0..n : replay[m + 1].window <= replay[m + 1].duration
  BY DEF EvenKept
<1>3. replay'[n + 2].window <= replay'[n + 2].duration
  <2>1. CASE e.type = "AuctionScheduled"
    <3>1. e.terms \in Terms
      BY <2>1, EventTypes DEF ScheduledEvents
    <3> QED BY <1>1, <2>1, <3>1 DEF ApplyEvent, Aggregate, LongExtensions
  <2>2. CASE e.type # "AuctionScheduled"
    <3>1. /\ ApplyEvent(Current, e).window = Current.window
          /\ ApplyEvent(Current, e).duration = Current.duration
      BY <1>1, <2>2, EventTypes DEF ApplyEvent, Aggregate
    <3> QED BY <1>1, <1>2, <3>1
  <2> QED BY <2>1, <2>2
<1> QED
  <2> SUFFICES ASSUME NEW m \in 0..(n + 1)
               PROVE  replay'[m + 1].window <= replay'[m + 1].duration
    BY <1>1
  <2>1. CASE m = n + 1
    BY <1>3, <2>1
  <2>2. CASE m # n + 1
    <3>1. m \in 0..n /\ m + 1 \in 1..(n + 1)
      BY <2>2
    <3> QED BY <1>1, <1>2, <3>1
  <2> QED BY <2>1, <2>2

\* A request carries the minute it arrived at, until its handler returns.
LEMMA TimeStep ==
  ASSUME HandlersSound, TimesKept, [Next]_vars
  PROVE  TimesKept'
<1>1. /\ TypeOK /\ now \in Nat /\ now <= MaxTime /\ MaxTime \in Nat
      /\ \A b \in Bids : request[b] \in Request /\ request[b].placedAt <= MaxTime
  BY BoundsAssumption DEF HandlersSound, TypeOK, TimesKept
<1>2. ASSUME NEW b \in Bids, Arrive(b) \/ BidStep(b)
      PROVE  \A c \in Bids : request'[c].placedAt \in {request[c].placedAt, now, 0}
  <2>1. \A c \in Bids : c # b => request'[c] = request[c]
    BY <1>1, <1>2
    DEF Arrive, BidStep, Acquire, Load, AppendBid, AppendRejected, ProjectBidRow,
        InsertBidRow, PublishBid, RemoveClose, AddClose, Release, Become, Goto,
        Answer, TypeOK
  <2>2. request'[b].placedAt \in {request[b].placedAt, now, 0}
    <3>1. CASE Arrive(b)
      BY <1>1, <3>1 DEF Arrive, Become, TypeOK, Request
    <3> \A r : Become(b, r) => request'[b] = r
      BY <1>1 DEF Become, TypeOK
    <3>2. CASE Acquire(b) \/ Release(b)
      BY <1>1, <3>2 DEF Acquire, Release, Goto, Finished, NewRequest, Request
    <3>3. CASE Load(b)
      BY <1>1, <3>3 DEF Load, Become, Answer, TypeOK, Request
    <3>4. CASE AppendBid(b)
      BY <1>1, <3>4 DEF AppendBid, AppendRejected, Become, Answer, TypeOK, Request
    <3>5. CASE ProjectBidRow(b) \/ InsertBidRow(b)
      BY <1>1, <3>5 DEF ProjectBidRow, InsertBidRow, Become, Goto, TypeOK, Request
    <3>6. CASE PublishBid(b)
      BY <1>1, <3>6 DEF PublishBid, Become, Goto, Answer, TypeOK, Request
    <3>7. CASE RemoveClose(b) \/ AddClose(b)
      BY <1>1, <3>7 DEF RemoveClose, AddClose, Goto, Answer, Request
    <3> QED BY <1>2, <3>1, <3>2, <3>3, <3>4, <3>5, <3>6, <3>7 DEF BidStep
  <2> QED BY <2>1, <2>2
<1>3. CASE Crash
  <2>1. now' = now
    BY <1>3 DEF Crash
  <2>2. \A c \in Bids : request'[c].placedAt \in {request[c].placedAt, 0}
    BY <1>3 DEF Crash, Finished, NewRequest
  <2> QED BY <1>1, <2>1, <2>2 DEF TimesKept
<1>4. CASE Tick
  BY <1>1, <1>4 DEF Tick, TimesKept
<1>5. CASE \E b \in Bids : Arrive(b) \/ BidStep(b)
  <2>1. now' = now
    BY <1>5 DEF Arrive, BidStep, Acquire, Load, AppendBid, ProjectBidRow,
        InsertBidRow, PublishBid, RemoveClose, AddClose, Release, envVars
  <2> QED BY <1>1, <1>2, <1>5, <2>1 DEF TimesKept
<1>6. CASE \/ ScheduleLoad \/ AdminStep \/ WorkerStep \/ ExpireLock
           \/ \E k \in JobNames : TakeJob(k) \/ RecoverStalled(k)
           \/ UNCHANGED vars
  <2>1. request' = request /\ now' = now
    BY <1>6 DEF ScheduleLoad, AdminStep, ScheduleAppend, ScheduleProject,
        ScheduleStart, ScheduleClose, WorkerStep, WorkerLoad, WorkerAppend,
        WorkerProject, PublishClosed, FinishJob, TakeJob, RecoverStalled,
        ExpireLock, envVars, vars
  <2> QED BY <2>1 DEF TimesKept
<1> QED BY <1>3, <1>4, <1>5, <1>6 DEF Next

\* What HistoryKept says of the store is said of the store alone.
LEMMA HistoryUndisturbed ==
  ASSUME HistoryKept, UNCHANGED storeVars
  PROVE  LeaderKept' /\ PhaseKept' /\ EvenKept'
<1>1. log' = log /\ replay' = replay
  BY DEF storeVars
<1> QED BY <1>1 DEF HistoryKept, LeaderKept, LeaderAt, NoBidsUpTo, LeadsUpTo,
                    PhaseKept, PhaseAt, Since, EvenKept, LongExtensions

\* Every step of the engine keeps HistoryKept.
LEMMA HistoryStep ==
  ASSUME HandlersSound, HistoryKept, [Next]_vars
  PROVE  HistoryKept'
<1>1. LeaderKept /\ PhaseKept /\ EvenKept /\ TimesKept
  BY DEF HistoryKept
<1>2. TimesKept'
  BY <1>1, TimeStep
<1>3. CASE UNCHANGED storeVars
  BY <1>2, <1>3, HistoryUndisturbed DEF HistoryKept
<1>4. ASSUME NEW e \in Event, Insert(e), LawfulNext(e)
      PROVE  HistoryKept'
  BY <1>1, <1>2, <1>4, LeaderInsert, PhaseInsert, EvenInsert DEF HistoryKept
<1> QED BY <1>1, <1>3, <1>4, StoreStep

\* An empty store has no leader, no verdict and no terms.
LEMMA HistoryInit ==
  ASSUME Init
  PROVE  HistoryKept
<1>1. /\ log = << >> /\ Len(log) = 0 /\ replay[1] = Fresh
      /\ 1..0 = {} /\ 0..0 = {0} /\ 0 + 1 = 1
  BY DEF Init
<1>2. LeaderKept
  BY <1>1 DEF LeaderKept, LeaderAt, NoBidsUpTo, Fresh
<1>3. PhaseKept
  BY <1>1 DEF PhaseKept, PhaseAt
<1>4. EvenKept
  BY <1>1 DEF EvenKept, Fresh
<1>5. TimesKept
  BY BoundsAssumption DEF Init, TimesKept, NewRequest
<1> QED BY <1>2, <1>3, <1>4, <1>5 DEF HistoryKept

-----------------------------------------------------------------------------
(***************************************************************************)
(* What follows for the bidders and the seller.                            *)
(***************************************************************************)

\* The store remembers its leader and its verdicts in every reachable state,
\* whatever the interleaving of the handlers' INSERTs.
THEOREM HistoryAlwaysKept == Spec => []HistoryKept
<1>1. Init => HistoryKept
  BY HistoryInit
<1>2. HandlersSound /\ HistoryKept /\ [Next]_vars => HistoryKept'
  BY HistoryStep
<1> QED BY <1>1, <1>2, HandlersAlwaysSound, PTL DEF Spec

\* Every bid stored beats every earlier one by the increment in force, and
\* nobody outbids themselves: the handlers' checks on a loaded copy amount to
\* checks on the store.
THEOREM BidsAlwaysRise == Spec => []BidsRise
<1>1. HandlersSound /\ HistoryKept => BidsRise
  <2> SUFFICES ASSUME HandlersSound, HistoryKept,
                      NEW i \in BidAt, NEW j \in BidAt, i < j
               PROVE  /\ log[j].amount >= log[i].amount + Met(j).increment
                      /\ log[i].user = log[j].user =>
                           \E k \in BidAt : /\ i < k /\ k < j
                                            /\ log[k].user # log[i].user
    BY DEF BidsRise
  <2>1. /\ Len(log) \in Nat /\ log \in Seq(Event) /\ TypeOK /\ ReplayInv
        /\ i \in 1..Len(log) /\ j \in 1..Len(log)
        /\ log[i].type = "BidPlaced" /\ log[j].type = "BidPlaced"
    BY DEF HandlersSound, TypeOK, BidAt, Stored, Position
  <2>2. /\ j - 1 \in 0..Len(log) /\ (j - 1) + 1 = j
        /\ i \in 1..(j - 1) /\ 1..(j - 1) \subseteq 1..Len(log)
    BY <2>1
  <2>3. replay[j] \in Aggregate
    BY <2>1, <2>2, StoreReadable
  <2>4. Refusal(replay[j], log[j].user, log[j].amount) = "none"
    BY <2>1 DEF HandlersSound, LawfulHistory, LawfulBid, Met, Position
  <2>5. \A k \in 1..Len(log) : log[k].type = "BidPlaced" => log[k].amount \in Nat
    <3>1. ASSUME NEW k \in 1..Len(log), log[k].type = "BidPlaced"
          PROVE  log[k].amount \in Nat
      <4>1. log[k] \in BidEvents
        BY <2>1, <3>1, EventTypes
      <4> QED BY <4>1, AmountsAssumption DEF BidEvents
    <3> QED BY <3>1
  <2>6. /\ log[j].amount >= replay[j].highestAmount + replay[j].increment
        /\ log[j].user # replay[j].highestUser
    <3>1. ASSUME NEW agg \in Aggregate, NEW u, NEW a \in Nat,
                 Refusal(agg, u, a) = "none"
          PROVE  a >= agg.highestAmount + agg.increment /\ u # agg.highestUser
      BY <3>1 DEF Refusal, Aggregate
    <3> QED BY <2>1, <2>3, <2>4, <2>5, <3>1
  <2>7. PICK l \in 1..(j - 1) : /\ LeadsUpTo(l, j - 1)
                                /\ replay[j].highestUser = log[l].user
                                /\ replay[j].highestAmount = log[l].amount
    <3>1. LeaderAt(j - 1)
      BY <2>2 DEF HistoryKept, LeaderKept
    <3> QED BY <2>1, <2>2, <3>1 DEF LeaderAt, NoBidsUpTo
  <2>8. /\ l \in BidAt /\ l < j /\ l \in Int /\ i \in Int
        /\ i <= l /\ log[i].amount <= log[l].amount
    BY <2>1, <2>2, <2>7 DEF LeadsUpTo, BidAt, Stored, Position
  <2>9. log[j].amount >= log[i].amount + Met(j).increment
    <3>1. /\ log[j].amount \in Nat /\ log[i].amount \in Nat
          /\ log[l].amount \in Nat /\ replay[j].increment \in Nat
      BY <2>1, <2>2, <2>3, <2>5, <2>7 DEF LeadsUpTo, Aggregate
    <3> QED BY <2>6, <2>7, <2>8, <3>1 DEF Met
  <2>10. log[i].user = log[j].user => i < l /\ log[l].user # log[i].user
    BY <2>6, <2>7, <2>8
  <2> QED BY <2>8, <2>9, <2>10
<1> QED BY <1>1, HandlersAlwaysSound, HistoryAlwaysKept, PTL

\* A sale is to the bidder of the highest bid stored before the verdict, at
\* that bid's amount and at no less than the reserve.
THEOREM SaleAlwaysToHighest == Spec => []SaleToHighest
<1>1. HandlersSound /\ HistoryKept => SaleToHighest
  <2> SUFFICES ASSUME HandlersSound, HistoryKept,
                      NEW i \in VerdictAt, log[i].reserveMet
               PROVE  \E j \in BidsOf(i) :
                        /\ log[j].bid = log[i].bid /\ log[j].user = log[i].winner
                        /\ log[j].amount = log[i].amount
                        /\ log[i].amount >= Met(i).reserve
                        /\ \A k \in BidsOf(i) : log[k].amount <= log[i].amount
    BY DEF SaleToHighest
  <2>1. /\ Len(log) \in Nat /\ i \in 1..Len(log)
        /\ log[i].type = "AuctionClosed"
    BY DEF HandlersSound, TypeOK, VerdictAt, Stored, Position
  <2>2. log[i] = Close(replay[i])
    BY <2>1 DEF HandlersSound, LawfulHistory, LawfulClose, Met, Position
  <2>3. /\ ReserveMet(replay[i])
        /\ log[i].bid = replay[i].highestBid
        /\ log[i].amount = replay[i].highestAmount
        /\ log[i].winner = replay[i].highestUser
    BY <2>2 DEF Close
  <2>4. i - 1 \in 0..Len(log) /\ (i - 1) + 1 = i
    BY <2>1
  <2>5. PICK j \in 1..(i - 1) : /\ LeadsUpTo(j, i - 1)
                                /\ replay[i].highestBid = log[j].bid
                                /\ replay[i].highestUser = log[j].user
                                /\ replay[i].highestAmount = log[j].amount
    <3>1. LeaderAt(i - 1)
      BY <2>4 DEF HistoryKept, LeaderKept
    <3> QED BY <2>3, <2>4, <3>1 DEF LeaderAt, ReserveMet
  <2>6. j \in BidsOf(i)
    BY <2>1, <2>5 DEF BidsOf, BidAt, Stored, Position, LeadsUpTo
  <2>7. ASSUME NEW k \in BidsOf(i) PROVE log[k].amount <= log[j].amount
    <3>1. k \in 1..(i - 1) /\ log[k].type = "BidPlaced"
      BY <2>1 DEF BidsOf, BidAt, Stored, Position
    <3> QED BY <2>5, <3>1 DEF LeadsUpTo
  <2> QED BY <2>3, <2>5, <2>6, <2>7 DEF ReserveMet, Met
<1> QED BY <1>1, HandlersAlwaysSound, HistoryAlwaysKept, PTL

\* After a verdict no bid is taken before the lot is started again, and no
\* second verdict is given before it is started or scheduled again.
THEOREM VerdictAlwaysStands == Spec => []VerdictStands
<1>1. HandlersSound /\ HistoryKept => VerdictStands
  <2> SUFFICES ASSUME HandlersSound, HistoryKept,
                      NEW i \in VerdictAt, NEW j \in Position, i < j
               PROVE  /\ log[j].type = "BidPlaced" =>
                           \E k \in Stored("AuctionStarted") : i < k /\ k < j
                      /\ log[j].type = "AuctionClosed" =>
                           \E k \in Stored("AuctionStarted")
                                      \cup Stored("AuctionScheduled") :
                             i < k /\ k < j
    BY DEF VerdictStands
  <2>1. /\ Len(log) \in Nat /\ i \in 1..Len(log) /\ j \in 1..Len(log)
        /\ log[i].type = "AuctionClosed"
    BY DEF HandlersSound, TypeOK, VerdictAt, Stored, Position
  <2>2. /\ j - 1 \in 0..Len(log) /\ (j - 1) + 1 = j /\ i \in 1..(j - 1)
        /\ \A k \in 1..(j - 1) : k \in 1..Len(log) /\ k < j
    BY <2>1
  <2>3. PhaseAt(j - 1)
    BY <2>2 DEF HistoryKept, PhaseKept
  <2>4. ASSUME log[j].type = "BidPlaced"
        PROVE  \E k \in Stored("AuctionStarted") : i < k /\ k < j
    <3>1. replay[j].status \in Open
      BY <2>4 DEF HandlersSound, LawfulHistory, LawfulBid, Refusal, Met
    <3>2. Since(i, j - 1, {"AuctionStarted"})
      BY <2>1, <2>2, <2>3, <3>1 DEF PhaseAt
    <3> QED BY <2>2, <3>2 DEF Since, Stored, Position
  <2>5. ASSUME log[j].type = "AuctionClosed"
        PROVE  \E k \in Stored("AuctionStarted") \cup Stored("AuctionScheduled") :
                 i < k /\ k < j
    <3>1. replay[j].status \notin TerminalStatuses
      BY <2>5 DEF HandlersSound, LawfulHistory, LawfulClose, Met
    <3>2. Since(i, j - 1, {"AuctionStarted", "AuctionScheduled"})
      BY <2>1, <2>2, <2>3, <3>1 DEF PhaseAt
    <3> QED BY <2>2, <3>2 DEF Since, Stored, Position
  <2> QED BY <2>4, <2>5
<1> QED BY <1>1, HandlersAlwaysSound, HistoryAlwaysKept, PTL

\* Where every schedule's extension is at least as long as its window, an
\* extension moves the end of the auction on, whichever minute the late bid
\* carries and whenever it is stored.
THEOREM ExtensionsGoForward ==
  ASSUME LongExtensions
  PROVE  Spec => ExtendsForward
<1> DEFINE Forward == \A i \in DOMAIN log' \ DOMAIN log :
             log'[i].type = "TimerExtended" => log'[i].endAt > Current.endAt
<1>1. HandlersSound /\ HistoryKept /\ [Next]_vars => [Forward]_log
  <2> SUFFICES ASSUME HandlersSound, HistoryKept, NEW e \in Event,
                      Insert(e), LawfulNext(e),
                      NEW i \in DOMAIN log' \ DOMAIN log,
                      log'[i].type = "TimerExtended"
               PROVE  log'[i].endAt > Current.endAt
    BY StoreStep DEF HistoryKept, storeVars
  <2> SUFFICES ASSUME NEW n \in Nat, n = Len(log)
               PROVE  log'[i].endAt > Current.endAt
    BY StoreGrows
  <2>1. /\ Len(log') = n + 1 /\ log'[n + 1] = e /\ Current = replay[n + 1]
    BY StoreGrows
  <2>2. i = n + 1
    <3>1. log' \in Seq(Event) /\ log \in Seq(Event)
      BY InsertAppends DEF HandlersSound, TypeOK
    <3>2. DOMAIN log' = 1..(n + 1) /\ DOMAIN log = 1..n
      BY <2>1, <3>1
    <3> QED BY <3>2
  <2>3. /\ n > 0 /\ log[n].type = "BidPlaced"
        /\ IsLate(replay[n], log[n].placedAt)
        /\ e = TimerExtended(replay[n], log[n].placedAt)
    BY <2>1, <2>2 DEF LawfulNext
  <2>4. /\ replay[n] \in Aggregate /\ log[n].placedAt \in Nat
        /\ replay[n].window <= replay[n].duration
    <3>1. n - 1 \in 0..Len(log) /\ (n - 1) + 1 = n /\ n \in 1..Len(log)
      BY <2>3
    <3>2. log[n] \in BidEvents
      BY <2>3, <3>1, EventTypes DEF HandlersSound, TypeOK
    <3> QED BY <3>1, <3>2, StoreReadable
            DEF BidEvents, HandlersSound, HistoryKept, EvenKept
  <2>5. Current.endAt = replay[n].endAt
    <3>1. replay[n + 1] = ApplyEvent(replay[n], log[n])
      BY <2>3 DEF HandlersSound, ReplayInv
    <3> QED BY <2>1, <2>3, <2>4, <3>1 DEF ApplyEvent, Aggregate
  <2>6. e.endAt = log[n].placedAt + replay[n].duration
    BY <2>3 DEF TimerExtended
  <2> QED BY <2>1, <2>2, <2>3, <2>4, <2>5, <2>6 DEF IsLate, Aggregate
<1> QED BY <1>1, HandlersAlwaysSound, HistoryAlwaysKept, PTL
        DEF Spec, ExtendsForward


-----------------------------------------------------------------------------
(***************************************************************************)
(* The book before and after an INSERT.                                    *)
(***************************************************************************)

\* The rules in force under an aggregate.
RulesOf(agg) == [reserve |-> agg.reserve, increment |-> agg.increment,
                 window |-> agg.window, duration |-> agg.duration]

\* What is owed after an INSERT depends on the event inserted alone.
LEMMA OwedNext ==
  ASSUME HandlersSound, NEW e \in Event, Insert(e)
  PROVE  OwedEnd' = IF e.type = "BidPlaced" /\ IsLate(Current, e.placedAt)
                    THEN {e.placedAt + Current.duration} ELSE {}
<1>1. /\ Len(log) \in Nat /\ Len(log') = Len(log) + 1
      /\ log'[Len(log) + 1] = e
      /\ replay'[Len(log) + 1] = replay[Len(log) + 1]
      /\ Current = replay[Len(log) + 1]
  BY StoreGrows
<1>2. Last' = Len(log) + 1 /\ Last' > 0 /\ log'[Last'] = e /\ replay'[Last'] = Current
  BY <1>1 DEF Last
<1> QED BY <1>2 DEF OwedEnd

\* An extension that may be stored is owed.
LEMMA OwedNow ==
  ASSUME HandlersSound, NEW e \in Event, LawfulNext(e), e.type = "TimerExtended"
  PROVE  e.endAt \in OwedEnd
BY DEF LawfulNext, OwedEnd, Last, TimerExtended

\* There is a leader exactly when there is a highest bid.
LEMMA LeaderIsSomebody ==
  ASSUME HandlersSound, HistoryKept
  PROVE  Current.highestUser = None <=> Current.highestBid = None
<1>1. /\ Len(log) \in Nat /\ log \in Seq(Event)
      /\ Current = replay[Len(log) + 1]
  BY StoreReadable DEF HandlersSound, TypeOK
<1>2. LeaderAt(Len(log))
  BY <1>1 DEF HistoryKept, LeaderKept
<1>3. ASSUME NEW j \in 1..Len(log), LeadsUpTo(j, Len(log))
      PROVE  log[j].bid # None /\ log[j].user # None
  <2>1. log[j] \in Event /\ log[j].type = "BidPlaced"
    BY <1>1, <1>3 DEF LeadsUpTo
  <2>2. log[j] \in BidEvents
    BY <2>1, EventTypes
  <2> QED BY <2>2, NoneAssumption DEF BidEvents
<1> QED BY <1>1, <1>2, <1>3 DEF LeaderAt

-----------------------------------------------------------------------------
(***************************************************************************)
(* Each event is a step of the book.                                       *)
(***************************************************************************)

\* A schedule lists the lot.
LEMMA ScheduledIsList ==
  ASSUME HandlersSound, NEW e \in Event, Insert(e), e.type = "AuctionScheduled"
  PROVE  Book!Next
<1>1. e.terms \in Terms
  BY EventTypes DEF ScheduledEvents
<1>2. Current \in Aggregate /\ Current' = ApplyEvent(Current, e)
  BY StoreGrows
<1>3. OwedEnd' = {}
  BY OwedNext
<1>4. Book!List(e.terms)
  BY <1>2, <1>3 DEF Book!List, ApplyEvent, Aggregate
<1> QED BY <1>1, <1>4 DEF Book!Next

\* A start opens the lot, whatever it was.
LEMMA StartedIsOpen ==
  ASSUME HandlersSound, NEW e \in Event, Insert(e), e.type = "AuctionStarted"
  PROVE  Book!Next
<1>1. Current \in Aggregate /\ Current' = ApplyEvent(Current, e)
  BY StoreGrows
<1>2. OwedEnd' = {}
  BY OwedNext
<1>3. Book!Open
  BY <1>1, <1>2 DEF Book!Open, ApplyEvent, Aggregate
<1> QED BY <1>3 DEF Book!Next

\* A bid is an offer that the stored state admits.
LEMMA BidIsOffer ==
  ASSUME HandlersSound, NEW e \in Event, Insert(e), LawfulNext(e),
         e.type = "BidPlaced", e.placedAt <= MaxTime
  PROVE  Book!Next
<1>1. /\ e.user \in Users /\ e.amount \in Amounts /\ e.placedAt \in 0..MaxTime
      /\ e.amount \in Nat
  BY EventTypes, AmountsAssumption, BoundsAssumption DEF BidEvents
<1>2. Current \in Aggregate /\ Current' = ApplyEvent(Current, e)
  BY StoreGrows
<1>3. OwedEnd' = IF Current.endAt - e.placedAt < Current.window
                 THEN {e.placedAt + Current.duration} ELSE {}
  BY OwedNext DEF IsLate
<1>4. /\ Current.status \in {"LIVE", "CLOSING"}
      /\ e.user # Current.highestUser
      /\ e.amount >= Current.highestAmount + Current.increment
  BY <1>1, <1>2 DEF LawfulNext, Refusal, Aggregate, Open
<1>5. /\ Current'.highestAmount = e.amount /\ Current'.highestUser = e.user
      /\ Current'.status = Current.status /\ Current'.endAt = Current.endAt
      /\ RulesOf(Current)' = RulesOf(Current)
  BY <1>2 DEF ApplyEvent, Aggregate, RulesOf
<1>6. Book!Offer(e.user, e.amount, e.placedAt)
  BY <1>3, <1>4, <1>5 DEF Book!Offer, RulesOf
<1> QED BY <1>1, <1>6 DEF Book!Next

\* An extension prolongs the auction to the end its bid was owed.
LEMMA ExtendedIsProlong ==
  ASSUME HandlersSound, NEW e \in Event, Insert(e), LawfulNext(e),
         e.type = "TimerExtended"
  PROVE  Book!Next
<1>1. Current \in Aggregate /\ Current' = ApplyEvent(Current, e)
  BY StoreGrows
<1>2. OwedEnd' = {} /\ e.endAt \in OwedEnd
  BY OwedNext, OwedNow
<1>3. Book!Prolong
  BY <1>1, <1>2 DEF Book!Prolong, ApplyEvent, Aggregate
<1> QED BY <1>3 DEF Book!Next

\* A verdict settles the lot on the stored leader and price.
LEMMA ClosedIsSettle ==
  ASSUME HandlersSound, HistoryKept, NEW e \in Event, Insert(e), LawfulNext(e),
         e.type = "AuctionClosed"
  PROVE  Book!Next
<1>1. Current \in Aggregate /\ Current' = ApplyEvent(Current, e)
  BY StoreGrows
<1>2. OwedEnd' = {}
  BY OwedNext
<1>3. /\ Current.status \notin {"SOLD", "UNSOLD"}
      /\ e.reserveMet <=> /\ Current.highestUser # None
                          /\ Current.highestAmount >= Current.reserve
  <2>1. Current.status \notin {"SOLD", "UNSOLD"} /\ e = Close(Current)
    BY DEF LawfulNext, TerminalStatuses
  <2>2. e.reserveMet = ReserveMet(Current)
    BY <2>1 DEF Close
  <2> QED BY <2>1, <2>2, LeaderIsSomebody DEF ReserveMet
<1>4. Book!Settle
  BY <1>1, <1>2, <1>3 DEF Book!Settle, ApplyEvent, Aggregate
<1> QED BY <1>4 DEF Book!Next

-----------------------------------------------------------------------------
(***************************************************************************)
(* The refinement.                                                         *)
(***************************************************************************)

\* An empty store is an empty book.
LEMMA InitIsBookInit ==
  ASSUME Init
  PROVE  Book!Init
<1>1. log = << >> /\ replay = << Fresh >> /\ Len(log) = 0 /\ Current = Fresh
  BY DEF Init, Current
<1> QED BY <1>1 DEF Book!Init, Fresh, OwedEnd, Last

\* Every step of the engine is a step of the book or leaves it alone.
LEMMA StepIsBookStep ==
  ASSUME HandlersSound, HistoryKept, [Next]_vars
  PROVE  [Book!Next]_(Book!vars)
<1>1. CASE UNCHANGED storeVars
  BY <1>1 DEF storeVars, Book!vars, Current, OwedEnd, Last
<1>2. ASSUME NEW e \in Event, Insert(e), LawfulNext(e),
             e.type = "BidPlaced" => e.placedAt <= MaxTime
      PROVE  Book!Next
  BY <1>2, EventTypes, ScheduledIsList, StartedIsOpen, BidIsOffer,
     ExtendedIsProlong, ClosedIsSettle
<1>3. TimesKept
  BY DEF HistoryKept
<1> QED BY <1>1, <1>2, <1>3, StoreStep

\* The engine, with its copies, its lock and its crashes, does nothing to a
\* lot that the abstract auction does not do in one step.
THEOREM EngineImplementsBook == Spec => ImplementsBook
<1>1. Init => Book!Init
  BY InitIsBookInit
<1>2. HandlersSound /\ HistoryKept /\ [Next]_vars => [Book!Next]_(Book!vars)
  BY StepIsBookStep
<1> QED BY <1>1, <1>2, HandlersAlwaysSound, HistoryAlwaysKept, PTL
        DEF Spec, ImplementsBook, Book!Spec
=============================================================================
