---------------------------- MODULE PaymentProofs ----------------------------
(***************************************************************************)
(* The payment service writes old rows back and is never wrong about the   *)
(* money: PaymentSound is inductive.                                       *)
(***************************************************************************)
EXTENDS PaymentProperties, TLAPS

AllKinds == {"create", "checkout", "savedCard", "webhook", "expire", "cancel",
             "extend"}

-----------------------------------------------------------------------------
(***************************************************************************)
(* The use cases.                                                          *)
(***************************************************************************)

\* Which await follows which, where the invariant asks.
LEMMA FlowTable ==
  ASSUME NEW kind \in AllKinds, NEW pc \in DOMAIN Flow(kind)
  PROVE  LET n == Flow(kind)[pc] IN
           /\ pc \in Steps /\ n \in Steps \cup {"done"}
           /\ n # "done" => n \in DOMAIN Flow(kind)
           /\ pc = "check" => kind = "webhook"
           /\ n # pc /\ n # "check" /\ (n = "find" <=> pc = "check")
           /\ pc = "session" => kind = "checkout"
           /\ pc = "charge" => kind = "savedCard"
           /\ pc = "record" => kind = "webhook"
           /\ n = "session" => kind = "checkout"
           /\ n = "charge" => kind = "savedCard"
           /\ kind = "create" => /\ pc = "find" <=> n = "save"
                                 /\ pc = "save" <=> n = "add"
                                 /\ pc = "add" <=> n = "publish"
                                 /\ pc \in {"find", "save", "add", "publish"}
           /\ kind = "checkout" => /\ pc = "find" <=> n = "session"
                                   /\ pc = "session" <=> n = "save"
                                   /\ pc \in {"find", "session", "save"}
           /\ kind = "savedCard" => /\ pc = "find" <=> n = "charge"
                                    /\ pc = "charge" <=> n = "save"
                                    /\ pc = "save" <=> n = "publish"
                                    /\ pc \in {"find", "charge", "save", "publish"}
           /\ kind = "webhook" => /\ pc = "record" <=> n = "remove"
                                  /\ pc = "remove" <=> n = "publish"
           /\ pc = "publish" => n = "done"
           /\ kind \notin {"create", "savedCard", "webhook", "expire"} =>
                pc # "publish"
<1>1. CASE kind = "create"
  BY <1>1 DEF Flow, CreateFlow, Steps
<1>2. CASE kind = "checkout"
  BY <1>2 DEF Flow, CheckoutFlow, Steps
<1>3. CASE kind = "savedCard"
  BY <1>3 DEF Flow, SavedCardFlow, Steps
<1>4. CASE kind = "webhook"
  BY <1>4 DEF Flow, WebhookFlow, Steps
<1>5. CASE kind = "expire"
  BY <1>5 DEF Flow, ExpireFlow, Steps
<1>6. CASE kind = "cancel"
  BY <1>6 DEF Flow, CancelFlow, Steps
<1>7. CASE kind = "extend"
  BY <1>7 DEF Flow, ExtendFlow, Steps
<1> QED BY <1>1, <1>2, <1>3, <1>4, <1>5, <1>6, <1>7 DEF AllKinds

\* A handler that is under way runs one of the use cases, and which one says
\* who it is.
LEMMA UnderwayKind ==
  ASSUME PaymentSound, NEW t \in Handlers, Underway(t)
  PROVE  LET k == task[t] IN
           /\ k.kind \in AllKinds /\ k.pc \in DOMAIN Flow(k.kind)
           /\ k \in Task
           /\ t = Consumer <=> k.kind = "create"
           /\ t = Worker <=> k.kind = "expire"
           /\ k.kind \in {"checkout", "savedCard", "webhook"} => t \in Requests
BY PaymentAssumption
DEF PaymentSound, CopyInv, KindsOf, AllKinds, TypeOK, Handlers

\* Where an await moves its handler to.
LEMMA BecomeOwn ==
  ASSUME TypeOK, NEW t \in Handlers, NEW r, Become(t, r)
  PROVE  /\ task'[t] = r
         /\ \A u \in Handlers : u # t => task'[u] = task[u]
         /\ r \in Task => task' \in [Handlers -> Task]
BY DEF TypeOK, Become

\* A handler that has ended keeps nothing but, for the worker, its job.
LEMMA EndedType ==
  ASSUME TypeOK, NEW t \in Handlers, NEW how \in {"done", "threw"}
  PROVE  LET r == Ended(t, how) IN
           /\ r \in Task /\ r.pc = how /\ r.pc \notin Steps /\ r.kind = "none"
           /\ t = Worker => r.invoice = task[t].invoice
  BY DEF Ended, Idle, Task, TypeOK, Steps, NoRow, InvoiceRow, Payments

\* A handler that goes on keeps its locals.
LEMMA OnwardType ==
  ASSUME PaymentSound, NEW t \in Handlers, Underway(t)
  PROVE  LET k == task[t]
             n == Flow(k.kind)[k.pc]
             r == Onward(t) IN
           /\ r \in Task
           /\ n = "done" => r = Ended(t, "done")
           /\ n # "done" => /\ r = [k EXCEPT !.pc = n]
                            /\ r.pc = n /\ r.kind = k.kind
                            /\ r.invoice = k.invoice /\ r.seen = k.seen
                            /\ r.due = k.due /\ r.about = k.about
<1> DEFINE k == task[t]
           n == Flow(k.kind)[k.pc]
<1>1. k.kind \in AllKinds /\ k.pc \in DOMAIN Flow(k.kind) /\ k \in Task
  BY UnderwayKind
<1>2. n \in Steps \cup {"done"}
  BY <1>1, FlowTable
<1>3. Ended(t, "done") \in Task
  BY EndedType DEF PaymentSound
<1> HIDE DEF n
<1>4. CASE n = "done"
  BY <1>3, <1>4 DEF Onward, n
<1>5. CASE n # "done"
  <2>1. Onward(t) = [k EXCEPT !.pc = n]
    BY <1>5 DEF Onward, n
  <2> QED BY <1>1, <1>2, <1>5, <2>1 DEF Task, n
<1> QED BY <1>4, <1>5 DEF n

\* The row a handler writes is PAID only with a payment of this invoice.
LEMMA WrittenRow ==
  ASSUME PaymentSound, NEW t \in Handlers, task[t].pc = "save"
  PROVE  LET row == Written(t)
             i   == task[t].invoice IN
           /\ i \in Invoices /\ row \in InvoiceRow /\ row.status # "ABSENT"
           /\ row.status = "PAID" <=> row.intent # None
           /\ row.intent # None =>
                MoneyTaken(row.intent) /\ payment[row.intent].invoice = i
<1> DEFINE k == task[t]
           row == Written(t)
<1>1. /\ Underway(t) /\ k.kind \in AllKinds /\ k \in Task
      /\ t = Consumer <=> k.kind = "create"
      /\ k.kind \in {"checkout", "savedCard", "webhook"} => t \in Requests
  BY UnderwayKind DEF Underway, Steps
<1>2. /\ k.invoice \in Invoices
      /\ k.kind # "create" => /\ k.seen.status = "AWAITING_PAYMENT"
                              /\ k.seen.intent = None
      /\ k.kind = "webhook" => /\ k.about \in Requests
                               /\ payment[k.about] = Taken("completed", k.invoice)
      /\ k.kind = "savedCard" => payment[t] = Taken("charged", k.invoice)
  BY <1>1 DEF PaymentSound, InvoiceInv, CopyInv
<1>3. /\ k.seen \in InvoiceRow /\ k.due \in Nat /\ None \in Payments
      /\ Requests \subseteq Payments /\ None \notin Requests
  BY <1>1, PaymentAssumption DEF Task, Payments
<1>4. CASE k.kind = "create"
  <2>1. row = [status |-> "AWAITING_PAYMENT", checkout |-> None,
               intent |-> None, dueAt |-> k.due]
    BY <1>4 DEF Written, Created, NoRow
  <2> QED BY <1>2, <1>3, <2>1 DEF InvoiceRow, InvoiceStatus
<1>5. CASE k.kind \in {"checkout", "extend"}
  <2>1. row = [k.seen EXCEPT !.checkout = t] \/ row = [k.seen EXCEPT !.dueAt = k.due]
    BY <1>5 DEF Written, WithSession, DueOn
  <2>2. row \in InvoiceRow /\ row.status = "AWAITING_PAYMENT" /\ row.intent = None
    <3>1. CASE k.kind = "checkout"
      BY <1>1, <1>2, <1>3, <3>1 DEF Written, WithSession, InvoiceRow
    <3>2. CASE k.kind = "extend"
      BY <1>1, <1>2, <1>3, <3>2 DEF Written, DueOn, InvoiceRow
    <3> QED BY <1>5, <3>1, <3>2
  <2> QED BY <1>2, <2>2
<1>6. CASE k.kind \in {"expire", "cancel"}
  <2>1. /\ row \in InvoiceRow /\ row.status \in {"EXPIRED", "CANCELLED"}
        /\ row.intent = None
    BY <1>2, <1>3, <1>6
    DEF Written, Expired, Cancelled, InvoiceRow, InvoiceStatus
  <2> QED BY <1>2, <2>1
<1>7. CASE k.kind = "savedCard"
  <2>1. row \in InvoiceRow /\ row.status = "PAID" /\ row.intent = t
    BY <1>1, <1>2, <1>3, <1>7 DEF Written, PaidWith, InvoiceRow, InvoiceStatus
  <2> QED BY <1>1, <1>2, <1>3, <1>7, <2>1 DEF MoneyTaken, Taken
<1>8. CASE k.kind = "webhook"
  <2>1. row \in InvoiceRow /\ row.status = "PAID" /\ row.intent = k.about
    BY <1>1, <1>2, <1>3, <1>8 DEF Written, PaidWith, InvoiceRow, InvoiceStatus
  <2> QED BY <1>2, <1>3, <1>8, <2>1 DEF MoneyTaken, Taken
<1> QED BY <1>1, <1>4, <1>5, <1>6, <1>7, <1>8 DEF AllKinds

\* What a step of the use cases makes of its handler: it ends, or goes on
\* with its locals, one of which it may have read just now.
LEMMA MoveOf ==
  ASSUME PaymentSound, NEW t \in Handlers, HandlerStep(t)
  PROVE  LET k == task[t]
             n == Flow(k.kind)[k.pc]
             r == task'[t] IN
           /\ Underway(t)
           /\ \A u \in Handlers : u # t => task'[u] = task[u]
           /\ task' \in [Handlers -> Task]
           /\ t = Consumer => k.pc # "find"
           /\ \/ r = Ended(t, "done") \/ r = Ended(t, "threw")
              \/ /\ n # "done" /\ r.pc = n
                 /\ r.kind = k.kind /\ r.invoice = k.invoice
                 /\ r.due = k.due /\ r.about = k.about
                 /\ \/ k.pc # "find" /\ r.seen = k.seen
                    \/ /\ k.pc = "find" /\ r.seen = rows[k.invoice]
                       /\ IsAwaitingPayment(rows[k.invoice])
<1> DEFINE k == task[t]
           n == Flow(k.kind)[k.pc]
<1>1. Underway(t) /\ TypeOK
  BY DEF HandlerStep, Call, Check, Find, OpenSession, Charge, Save, Record,
         Remove, Add, Publish, Underway, Steps, PaymentSound
<1>2. /\ Onward(t) \in Task
      /\ n = "done" => Onward(t) = Ended(t, "done")
      /\ n # "done" => /\ Onward(t) = [k EXCEPT !.pc = n]
                       /\ Onward(t).pc = n /\ Onward(t).kind = k.kind
                       /\ Onward(t).invoice = k.invoice
                       /\ Onward(t).seen = k.seen
                       /\ Onward(t).due = k.due /\ Onward(t).about = k.about
  BY <1>1, OnwardType
<1>3. Ended(t, "done") \in Task /\ Ended(t, "threw") \in Task
  BY <1>1, EndedType
<1> HIDE DEF n
<1>4. CASE Find(t)
  <2>1. /\ t # Consumer /\ k.pc = "find" /\ k.invoice \in Invoices
        /\ rows[k.invoice] \in InvoiceRow /\ k.kind \in AllKinds
        /\ k.pc \in DOMAIN Flow(k.kind)
    BY <1>1, <1>4, UnderwayKind
    DEF Find, PaymentSound, InvoiceInv, TypeOK
  <2>2. n # "done"
    BY <2>1, FlowTable DEF n, AllKinds, Flow, CreateFlow, CheckoutFlow,
       SavedCardFlow, WebhookFlow, ExpireFlow, CancelFlow, ExtendFlow
  <2>3. PICK r : /\ Become(t, r)
                 /\ \/ /\ r = [Onward(t) EXCEPT !.seen = rows[k.invoice]]
                       /\ IsAwaitingPayment(rows[k.invoice])
                    \/ r \in {Ended(t, "done"), Ended(t, "threw")}
    BY <1>4 DEF Find, Refused
  <2>4. r \in Task
    BY <1>2, <1>3, <2>1, <2>3 DEF Task
  <2>5. /\ task'[t] = r /\ task' \in [Handlers -> Task]
        /\ \A u \in Handlers : u # t => task'[u] = task[u]
    BY <1>1, <2>3, <2>4, BecomeOwn
  <2>6. CASE /\ r = [Onward(t) EXCEPT !.seen = rows[k.invoice]]
             /\ IsAwaitingPayment(rows[k.invoice])
    <3>1. /\ r.pc = n /\ r.kind = k.kind /\ r.invoice = k.invoice
          /\ r.due = k.due /\ r.about = k.about /\ r.seen = rows[k.invoice]
      BY <1>2, <2>2, <2>6 DEF Task
    <3> QED BY <1>1, <2>1, <2>2, <2>5, <2>6, <3>1 DEF n
  <2>7. CASE r \in {Ended(t, "done"), Ended(t, "threw")}
    BY <1>1, <2>1, <2>5, <2>7
  <2> QED BY <2>3, <2>6, <2>7
<1>5. CASE Check(t) \/ Call(t)
  <2>1. k.pc # "find" /\ \E r \in {Onward(t), Ended(t, "done"), Ended(t, "threw")} :
                           Become(t, r)
    <3>1. CASE Check(t)
      BY <3>1 DEF Check
    <3>2. CASE OpenSession(t) \/ Charge(t)
      BY <3>2 DEF OpenSession, Charge
    <3>3. CASE Save(t) \/ Record(t)
      BY <3>3 DEF Save, Record
    <3>4. CASE Remove(t) \/ Add(t) \/ Publish(t)
      BY <3>4 DEF Remove, Add, Publish
    <3> QED BY <1>5, <3>1, <3>2, <3>3, <3>4 DEF Call
  <2>2. PICK r \in {Onward(t), Ended(t, "done"), Ended(t, "threw")} : Become(t, r)
    BY <2>1
  <2>3. /\ task'[t] = r /\ task' \in [Handlers -> Task]
        /\ \A u \in Handlers : u # t => task'[u] = task[u]
    BY <1>1, <1>2, <1>3, <2>2, BecomeOwn
  <2>4. CASE r \in {Ended(t, "done"), Ended(t, "threw")}
    BY <1>1, <2>1, <2>3, <2>4
  <2>5. CASE r = Onward(t)
    BY <1>1, <1>2, <2>1, <2>3, <2>5 DEF n
  <2> QED BY <2>2, <2>4, <2>5
<1> QED BY <1>4, <1>5 DEF HandlerStep

-----------------------------------------------------------------------------
(***************************************************************************)
(* What no step undoes.                                                    *)
(***************************************************************************)

\* A request is at Stripe before it has made its payment.
LEMMA NotYetMade ==
  ASSUME PaymentSound, NEW t \in Handlers, task[t].pc \in {"session", "charge"}
  PROVE  /\ t \in Requests /\ payment[t].state = "none"
         /\ task[t].invoice \in Invoices
         /\ rows[task[t].invoice] # NoRow
         /\ task[t].pc = "session" => task[t].kind = "checkout"
         /\ task[t].pc = "charge" => task[t].kind = "savedCard"
         /\ Underway(t)
<1>1. Underway(t)
  BY DEF Underway, Steps
<1>2. /\ task[t].kind \in {"checkout", "savedCard"} /\ t \in Requests
      /\ task[t].pc = "session" => task[t].kind = "checkout"
      /\ task[t].pc = "charge" => task[t].kind = "savedCard"
  BY <1>1, UnderwayKind, FlowTable
<1>3. t # Consumer
  BY <1>2, PaymentAssumption
<1> QED BY <1>1, <1>2, <1>3 DEF PaymentSound, InvoiceInv, MadeInv

\* Who changes the table, and who changes what Stripe holds.
LEMMA WhoWrites ==
  ASSUME [Next]_vars
  PROVE  /\ rows' = rows \/ \E t \in Handlers : Save(t)
         /\ \/ payment' = payment
            \/ \E t \in Handlers : OpenSession(t) \/ Charge(t)
            \/ \E p \in Requests : PayOnPage(p)
<1>1. ASSUME NEW t \in Handlers, HandlerStep(t)
      PROVE  /\ rows' = rows \/ Save(t)
             /\ payment' = payment \/ OpenSession(t) \/ Charge(t)
  BY <1>1 DEF HandlerStep, Call, Check, Find, OpenSession, Charge, Save,
              Record, Remove, Add, Publish
<1>2. ASSUME NEW t \in Requests, Arrive(t) \/ WebhookArrives(t)
      PROVE  rows' = rows /\ payment' = payment
  BY <1>2 DEF Arrive, Begin, WebhookArrives
<1>3. ASSUME NEW i \in Invoices, TakeJob(i) \/ RecoverStalled(i)
      PROVE  rows' = rows /\ payment' = payment
  BY <1>3 DEF TakeJob, RecoverStalled
<1>4. ASSUME \/ Deliver \/ FindLot \/ Settle \/ FinishJob \/ Crash \/ Tick
             \/ UNCHANGED vars
      PROVE  rows' = rows /\ payment' = payment
  BY <1>4 DEF Deliver, FindLot, Settle, FinishJob, Crash, Tick, vars
<1>5. ASSUME NEW p \in Requests, PayOnPage(p) PROVE rows' = rows
  BY <1>5 DEF PayOnPage
<1> QED BY <1>1, <1>2, <1>3, <1>4, <1>5 DEF Next, ServiceStep

\* An invoice stays in the table, and money that was taken stays taken, for
\* the invoice it was taken for.
LEMMA NothingUndone ==
  ASSUME PaymentSound, [Next]_vars
  PROVE  /\ \A i \in Invoices : rows[i] # NoRow => rows'[i] # NoRow
         /\ \A p \in Requests :
              /\ MoneyTaken(p) => payment'[p] = payment[p]
              /\ payment[p].state # "none" => /\ payment'[p].state # "none"
                                              /\ payment'[p].invoice = payment[p].invoice
<1>1. /\ rows \in [Invoices -> InvoiceRow]
      /\ payment \in [Requests -> [state : {"none", "open", "completed", "charged"},
                                   invoice : Invoices \cup {None}]]
  BY DEF PaymentSound, TypeOK
<1>2. ASSUME NEW t \in Handlers, Save(t), NEW i \in Invoices, rows[i] # NoRow
      PROVE  rows'[i] # NoRow
  <2>1. Written(t) # NoRow /\ rows' = [rows EXCEPT ![task[t].invoice] = Written(t)]
    BY <1>2, WrittenRow DEF Save, NoRow
  <2> QED BY <1>1, <1>2, <2>1
<1>3. ASSUME NEW t \in Handlers, OpenSession(t) \/ Charge(t),
             NEW p \in Requests, payment[p].state # "none"
      PROVE  payment'[p] = payment[p]
  <2>1. t # p
    BY <1>3, NotYetMade DEF OpenSession, Charge
  <2> QED BY <1>1, <1>3, <2>1 DEF OpenSession, Charge, Charged
<1>4. ASSUME NEW q \in Requests, PayOnPage(q),
             NEW p \in Requests, payment[p].state # "none"
      PROVE  /\ MoneyTaken(p) => payment'[p] = payment[p]
             /\ payment'[p].state # "none"
             /\ payment'[p].invoice = payment[p].invoice
  <2>1. CASE p = q
    BY <1>1, <1>4, <2>1 DEF PayOnPage, MoneyTaken
  <2>2. CASE p # q
    BY <1>1, <1>4, <2>2 DEF PayOnPage
  <2> QED BY <2>1, <2>2
<1>5. \A i \in Invoices : rows[i] # NoRow => rows'[i] # NoRow
  BY <1>2, WhoWrites
<1>6. ASSUME NEW p \in Requests, payment[p].state # "none"
      PROVE  /\ MoneyTaken(p) => payment'[p] = payment[p]
             /\ payment'[p].state # "none"
             /\ payment'[p].invoice = payment[p].invoice
  BY <1>3, <1>4, <1>6, WhoWrites
<1>7. \A p \in Requests : MoneyTaken(p) => payment[p].state # "none"
  BY DEF MoneyTaken
<1> QED BY <1>5, <1>6, <1>7

-----------------------------------------------------------------------------
(***************************************************************************)
(* Types.                                                                  *)
(***************************************************************************)

\* What becomes of a job has a job's type.
LEMMA JobTypes ==
  ASSUME NEW job \in Job, NEW at \in Nat, NEW time \in Nat
  PROVE  /\ NoJob \in Job /\ Added(job, at, time) \in Job /\ PutBack(job) \in Job
         /\ \A s \in JobStates : [job EXCEPT !.state = s] \in Job
<1>1. NoJob \in Job
  BY DEF NoJob, Job, JobStates
<1>2. NewJob(at, time) \in Job
  BY DEF NewJob, Job, JobStates
<1>3. PutBack(job) \in Job
  <2> DEFINE s == IF job.stalls < 1 THEN "waiting" ELSE "failed"
  <2>1. s \in JobStates /\ job.stalls + 1 \in Nat
    BY DEF Job, JobStates
  <2> HIDE DEF s
  <2>2. [job EXCEPT !.state = s, !.stalls = job.stalls + 1] \in Job
    BY <2>1 DEF Job
  <2> QED BY <2>2 DEF PutBack, s
<1> QED BY <1>1, <1>2, <1>3 DEF Added, Job

\* The awaits of the use cases keep the types.
LEMMA HandlerStepType ==
  ASSUME PaymentSound, NEW t \in Handlers, HandlerStep(t)
  PROVE  TypeOK'
<1> DEFINE k == task[t]
<1>1. /\ TypeOK /\ task' \in [Handlers -> Task] /\ Underway(t)
  BY MoveOf DEF PaymentSound
<1>2. /\ k \in Task /\ t # Consumer => k.invoice \in Invoices
      /\ k.pc # "find" => k.invoice \in Invoices
      /\ k.due \in Nat
  BY <1>1 DEF PaymentSound, InvoiceInv, TypeOK, Task
<1>3. CASE Check(t) \/ Find(t)
  BY <1>1, <1>3 DEF TypeOK, Check, Find
<1>4. CASE OpenSession(t) \/ Charge(t)
  <2>1. t \in Requests /\ k.invoice \in Invoices
    BY <1>4, NotYetMade DEF OpenSession, Charge
  <2>2. payment' \in {payment,
          [payment EXCEPT ![t] = [state |-> "open", invoice |-> k.invoice]],
          [payment EXCEPT ![t] = [state |-> "charged", invoice |-> k.invoice]]}
    BY <1>4 DEF OpenSession, Charge, Charged
  <2>3. payment' \in [Requests -> [state : {"none", "open", "completed", "charged"},
                                   invoice : Invoices \cup {None}]]
    BY <1>1, <2>1, <2>2 DEF TypeOK
  <2> QED BY <1>1, <1>4, <2>3 DEF TypeOK, OpenSession, Charge
<1>5. CASE Save(t)
  <2>1. rows' \in [Invoices -> InvoiceRow]
    BY <1>1, <1>5, WrittenRow DEF Save, TypeOK
  <2> QED BY <1>1, <1>5, <2>1 DEF TypeOK, Save
<1>6. CASE Record(t)
  <2>1. k.about \in Requests
    <3>1. k.kind = "webhook"
      BY <1>1, <1>6, UnderwayKind, FlowTable DEF Record
    <3> QED BY <1>1, <3>1 DEF PaymentSound, CopyInv
  <2> QED BY <1>1, <1>6, <2>1 DEF TypeOK, Record
<1>7. CASE Remove(t)
  <2>1. jobs' \in [Invoices -> Job]
    <3>1. NoJob \in Job
      BY DEF NoJob, Job, JobStates
    <3> QED BY <1>1, <1>7, <3>1 DEF Remove, TypeOK
  <2> QED BY <1>1, <1>7, <2>1 DEF TypeOK, Remove
<1>8. CASE Add(t)
  <2>1. k.invoice \in Invoices
    BY <1>2, <1>8 DEF Add
  <2>2. Added(jobs[k.invoice], k.due, now) \in Job
    BY <1>1, <1>2, <2>1, JobTypes DEF TypeOK
  <2>3. jobs' \in [Invoices -> Job]
    BY <1>1, <1>8, <2>2 DEF Add, TypeOK
  <2> QED BY <1>1, <1>8, <2>3 DEF TypeOK, Add
<1>9. CASE Publish(t)
  <2>1. received' \in [Requests -> Nat]
    BY <1>1, <1>9 DEF Publish, TypeOK
  <2> QED BY <1>1, <1>9, <2>1 DEF TypeOK, Publish
<1> QED BY <1>3, <1>4, <1>5, <1>6, <1>7, <1>8, <1>9 DEF HandlerStep, Call

\* And so does everything else.
LEMMA TypeStep ==
  ASSUME PaymentSound, [Next]_vars
  PROVE  TypeOK'
<1>1. TypeOK
  BY DEF PaymentSound
<1>2. ASSUME NEW t \in Handlers, NEW r \in Task, Become(t, r)
      PROVE  task' \in [Handlers -> Task]
  BY <1>1, <1>2, BecomeOwn
<1>3. Idle \in Task
  BY DEF Idle, Task, NoRow, InvoiceRow, Payments
<1>4. ASSUME NEW t \in Requests, Arrive(t) PROVE TypeOK'
  <2>1. PICK kind \in Kinds \ {"webhook"}, i \in Invoices : Begin(t, kind, i)
    BY <1>4 DEF Arrive
  <2>2. PICK due \in IF kind = "extend" THEN DueDates ELSE {0} :
          Become(t, [Idle EXCEPT !.kind = kind, !.pc = "find", !.invoice = i,
                                 !.due = due])
    BY <2>1 DEF Begin
  <2>3. due \in Nat
    BY <2>2, PaymentAssumption
  <2>4. [Idle EXCEPT !.kind = kind, !.pc = "find", !.invoice = i,
                     !.due = due] \in Task
    BY <1>3, <2>3 DEF Task, Steps
  <2>5. t \in Handlers
    BY DEF Handlers
  <2>6. task' \in [Handlers -> Task]
    BY <1>2, <2>2, <2>4, <2>5
  <2> QED BY <1>1, <2>1, <2>6 DEF Begin, TypeOK
<1>5. ASSUME NEW t \in Requests, WebhookArrives(t) PROVE TypeOK'
  <2>1. PICK p \in Requests :
          /\ payment[p].state = "completed"
          /\ Become(t, [Idle EXCEPT !.kind = "webhook", !.pc = "check",
                          !.invoice = payment[p].invoice, !.about = p])
    BY <1>5 DEF WebhookArrives
  <2>2. payment[p].invoice \in Invoices \cup {None} /\ "webhook" \in Kinds
    BY <1>1, <1>5 DEF TypeOK, WebhookArrives
  <2>3. [Idle EXCEPT !.kind = "webhook", !.pc = "check",
           !.invoice = payment[p].invoice, !.about = p] \in Task
    BY <1>3, <2>2 DEF Task, Steps, Payments
  <2>4. t \in Handlers
    BY DEF Handlers
  <2>5. task' \in [Handlers -> Task]
    BY <1>2, <2>1, <2>3, <2>4
  <2> QED BY <1>1, <1>5, <2>5 DEF WebhookArrives, TypeOK
<1>6. CASE Deliver
  <2>1. [Idle EXCEPT !.kind = "create", !.pc = "find"] \in Task
    BY <1>3 DEF Task, Steps
  <2>2. task' \in [Handlers -> Task]
    BY <1>2, <1>6, <2>1 DEF Deliver, Handlers
  <2> QED BY <1>1, <1>6, <2>2 DEF Deliver, TypeOK
<1>7. CASE FindLot
  <2>1. Consumer \in Handlers /\ Underway(Consumer) /\ task[Consumer].pc = "find"
    BY <1>7 DEF FindLot, Handlers, Underway, Steps
  <2>2. Onward(Consumer) \in Task /\ Ended(Consumer, "done") \in Task
    BY <1>1, <2>1, OnwardType, EndedType
  <2>3. now + Window \in Nat
    BY <1>1, PaymentAssumption DEF TypeOK
  <2>4. \A i \in Invoices :
          [Onward(Consumer) EXCEPT !.invoice = i, !.due = now + Window] \in Task
    BY <2>2, <2>3 DEF Task
  <2>5. task' \in [Handlers -> Task]
    BY <1>2, <1>7, <2>1, <2>2, <2>4 DEF FindLot
  <2> QED BY <1>1, <1>7, <2>5 DEF FindLot, TypeOK
<1>8. CASE Settle
  <2>1. closed' \in Nat
    <3>1. closed > 0 /\ closed \in Nat
      BY <1>1, <1>8 DEF Settle, PaymentSound, InvoiceInv, Handlers, TypeOK
    <3> QED BY <1>8, <3>1 DEF Settle
  <2>2. task' \in [Handlers -> Task]
    BY <1>2, <1>3, <1>8 DEF Settle, Handlers
  <2> QED BY <1>1, <1>8, <2>1, <2>2 DEF Settle, TypeOK
<1>9. ASSUME NEW i \in Invoices, TakeJob(i) PROVE TypeOK'
  <2>1. [Idle EXCEPT !.kind = "expire", !.pc = "find", !.invoice = i] \in Task
    BY <1>3 DEF Task, Steps
  <2>2. task' \in [Handlers -> Task]
    BY <1>2, <1>9, <2>1 DEF TakeJob, Handlers
  <2>3. jobs' \in [Invoices -> Job]
    BY <1>1, <1>9 DEF TakeJob, TypeOK, Job, JobStates
  <2> QED BY <1>1, <1>9, <2>2, <2>3 DEF TakeJob, TypeOK
<1>10. ASSUME NEW i \in Invoices, RecoverStalled(i) PROVE TypeOK'
  <2>1. PutBack(jobs[i]) \in Job
    BY <1>1, JobTypes DEF TypeOK
  <2>2. jobs' \in [Invoices -> Job]
    BY <1>1, <1>10, <2>1 DEF RecoverStalled, TypeOK
  <2> QED BY <1>1, <1>10, <2>2 DEF RecoverStalled, TypeOK
<1>11. CASE FinishJob
  <2>1. task' \in [Handlers -> Task]
    BY <1>2, <1>3, <1>11 DEF FinishJob, Handlers
  <2>2. jobs' \in [Invoices -> Job]
    BY <1>1, <1>11 DEF FinishJob, TypeOK, Job, JobStates
  <2> QED BY <1>1, <1>11, <2>1, <2>2 DEF FinishJob, TypeOK
<1>12. ASSUME NEW p \in Requests, PayOnPage(p) PROVE TypeOK'
  BY <1>1, <1>12 DEF PayOnPage, TypeOK
<1>13. CASE Crash
  <2>1. \A t \in Handlers : Ended(t, "threw") \in Task
    BY <1>1, EndedType
  <2>2. task' \in [Handlers -> Task]
    BY <1>1, <1>3, <1>13, <2>1 DEF Crash, TypeOK
  <2>3. jobs' \in [Invoices -> Job]
    BY <1>1, <1>13 DEF Crash, TypeOK, Job, JobStates
  <2> QED BY <1>1, <1>13, <2>2, <2>3 DEF Crash, TypeOK
<1>14. CASE Tick \/ UNCHANGED vars
  BY <1>1, <1>14 DEF Tick, vars, TypeOK
<1> QED BY HandlerStepType, <1>4, <1>5, <1>6, <1>7, <1>8, <1>9, <1>10, <1>11,
        <1>12, <1>13, <1>14 DEF Next, ServiceStep

-----------------------------------------------------------------------------
(***************************************************************************)
(* What a handler may believe of the table and of its payment.             *)
(***************************************************************************)

\* The message in the consumer's hands is acknowledged by the consumer.
LEMMA ClosedStands ==
  ASSUME PaymentSound, [Next]_vars, task'[Consumer] = task[Consumer]
  PROVE  closed' = closed
<1>1. CASE Settle
  <2>1. Consumer \in Handlers /\ TypeOK
    BY DEF Handlers, PaymentSound
  <2>2. task'[Consumer] = Idle
    BY <1>1, <2>1, BecomeOwn DEF Settle
  <2> QED BY <1>1, <2>2 DEF Settle, Idle
<1>2. ASSUME NEW t \in Handlers, HandlerStep(t) PROVE closed' = closed
  BY <1>2 DEF HandlerStep, Call, Check, Find, OpenSession, Charge, Save,
              Record, Remove, Add, Publish
<1>3. ASSUME NEW t \in Requests, Arrive(t) \/ WebhookArrives(t) \/ PayOnPage(t)
      PROVE  closed' = closed
  BY <1>3 DEF Arrive, Begin, WebhookArrives, PayOnPage
<1>4. ASSUME NEW i \in Invoices, TakeJob(i) \/ RecoverStalled(i)
      PROVE  closed' = closed
  BY <1>4 DEF TakeJob, RecoverStalled
<1>5. ASSUME Deliver \/ FindLot \/ FinishJob \/ Crash \/ Tick \/ UNCHANGED vars
      PROVE  closed' = closed
  BY <1>5 DEF Deliver, FindLot, FinishJob, Crash, Tick, vars
<1> QED BY <1>1, <1>2, <1>3, <1>4, <1>5 DEF Next, ServiceStep

\* While the consumer has still to save its invoice nobody else saves any,
\* for there is none to be read.
LEMMA EmptyStands ==
  ASSUME PaymentSound, [Next]_vars, task'[Consumer] = task[Consumer],
         \A i \in Invoices : rows[i] = NoRow
  PROVE  rows' = rows
<1> SUFFICES ASSUME NEW t \in Handlers, Save(t) PROVE FALSE
  BY WhoWrites
<1>1. Underway(t) /\ HandlerStep(t) /\ task[t].pc = "save"
  BY DEF Save, HandlerStep, Call, Underway, Steps
<1>2. t = Consumer
  BY <1>1 DEF PaymentSound, InvoiceInv
<1>3. /\ task[t].kind \in AllKinds /\ task[t].pc \in DOMAIN Flow(task[t].kind)
  BY <1>1, UnderwayKind
<1>4. task'[t].pc # task[t].pc
  BY <1>1, <1>3, MoveOf, FlowTable, EndedType DEF PaymentSound
<1> QED BY <1>2, <1>4

\* A handler that did not move may go on believing what it believed.
LEMMA BeliefStands ==
  ASSUME PaymentSound, [Next]_vars, NEW u \in Handlers, task'[u] = task[u]
  PROVE  InvoiceInv(u)' /\ CopyInv(u)'
<1>1. InvoiceInv(u) /\ CopyInv(u) /\ Underway(u)' = Underway(u)
  BY DEF PaymentSound, Underway
<1>2. InvoiceInv(u)'
  <2>1. \A i \in Invoices : rows[i] # NoRow => rows'[i] # NoRow
    BY NothingUndone
  <2>2. u = Consumer => closed' = closed
    BY ClosedStands
  <2>3. u = Consumer /\ task[u].pc = "save" => \A i \in Invoices : rows'[i] = NoRow
    BY <1>1, EmptyStands DEF InvoiceInv
  <2>4. Underway(u) /\ (u # Consumer \/ task[u].pc \in {"add", "publish"}) =>
          task[u].invoice \in Invoices
    BY <1>1 DEF InvoiceInv
  <2> QED BY <1>1, <2>1, <2>2, <2>3, <2>4 DEF InvoiceInv
<1>3. CopyInv(u)'
  <2>1. \A p \in Requests : payment[p].state \in {"completed", "charged"} =>
          payment'[p] = payment[p]
    BY NothingUndone DEF MoneyTaken
  <2>2. ASSUME Underway(u), task[u].kind = "webhook"
        PROVE  payment'[task[u].about] = Taken("completed", task[u].invoice)
    BY <1>1, <2>1, <2>2 DEF CopyInv, Taken
  <2>3. ASSUME Underway(u), task[u].kind = "savedCard",
               task[u].pc \in {"save", "publish"}
        PROVE  payment'[u] = Taken("charged", task[u].invoice)
    <3>1. u \in Requests
      BY <2>3, UnderwayKind
    <3> QED BY <1>1, <2>1, <2>3, <3>1 DEF CopyInv, Taken
  <2> QED BY <1>1, <2>2, <2>3 DEF CopyInv
<1> QED BY <1>2, <1>3

\* A handler that has ended is believed nothing.
LEMMA BeliefEnds ==
  ASSUME PaymentSound, [Next]_vars, NEW t \in Handlers, Underway(t),
         closed' = closed, task'[t] \in {Ended(t, "done"), Ended(t, "threw")}
  PROVE  InvoiceInv(t)' /\ CopyInv(t)'
<1>1. /\ task'[t].pc \notin Steps
      /\ t = Worker => task'[t].invoice = task[t].invoice
  BY EndedType DEF PaymentSound
<1>2. task[t].pc # "idle"
  BY DEF Underway, Steps
<1>3. ~Underway(t)' /\ task'[t].pc # "save"
  BY <1>1 DEF Underway, Steps
<1>4. t = Worker => task[t].invoice \in Invoices /\ rows'[task[t].invoice] # NoRow
  BY <1>2, NothingUndone DEF PaymentSound, InvoiceInv
<1> QED BY <1>1, <1>2, <1>3, <1>4 DEF PaymentSound, InvoiceInv, CopyInv

\* Each await of a use case leaves its handler with a copy it may write back.
LEMMA BeliefMoves ==
  ASSUME PaymentSound, [Next]_vars, NEW t \in Handlers, HandlerStep(t)
  PROVE  InvoiceInv(t)' /\ CopyInv(t)'
<1> DEFINE k == task[t]
           n == Flow(k.kind)[k.pc]
           r == task'[t]
<1>1. closed' = closed
  BY DEF HandlerStep, Call, Check, Find, OpenSession, Charge, Save,
         Record, Remove, Add, Publish
<1>2. /\ Underway(t)
      /\ t = Consumer => k.pc # "find"
      /\ \/ r = Ended(t, "done") \/ r = Ended(t, "threw")
         \/ /\ n # "done" /\ r.pc = n
            /\ r.kind = k.kind /\ r.invoice = k.invoice
            /\ r.due = k.due /\ r.about = k.about
            /\ \/ k.pc # "find" /\ r.seen = k.seen
               \/ /\ k.pc = "find" /\ r.seen = rows[k.invoice]
                  /\ IsAwaitingPayment(rows[k.invoice])
  BY MoveOf
<1>3. /\ k.kind \in AllKinds /\ k.pc \in DOMAIN Flow(k.kind)
      /\ t = Consumer <=> k.kind = "create"
      /\ k.kind \in {"checkout", "savedCard", "webhook"} => t \in Requests
  BY <1>2, UnderwayKind
<1>4. InvoiceInv(t) /\ CopyInv(t) /\ k.invoice \in Invoices /\ k.pc # "idle"
  BY <1>2 DEF PaymentSound, InvoiceInv, Underway, Steps
<1> HIDE DEF n, r
<1>5. CASE r = Ended(t, "done") \/ r = Ended(t, "threw")
  BY <1>1, <1>2, <1>5, BeliefEnds DEF r
<1>6. CASE /\ n # "done" /\ r.pc = n
           /\ r.kind = k.kind /\ r.invoice = k.invoice
           /\ r.due = k.due /\ r.about = k.about
           /\ \/ k.pc # "find" /\ r.seen = k.seen
              \/ /\ k.pc = "find" /\ r.seen = rows[k.invoice]
                 /\ IsAwaitingPayment(rows[k.invoice])
  <2>1. /\ n \in DOMAIN Flow(k.kind) /\ n # "check"
        /\ n = "find" => k.pc = "check"
        /\ k.kind = "create" => /\ k.pc = "find" <=> n = "save"
                                /\ k.pc \in {"save", "add"}
        /\ k.kind = "savedCard" => /\ k.pc = "charge" <=> n = "save"
                                   /\ k.pc = "save" <=> n = "publish"
    BY <1>2, <1>3, <1>6, FlowTable DEF n
  <2>2. InvoiceInv(t)'
    <3>1. rows'[k.invoice] # NoRow
      <4>1. CASE t # Consumer \/ k.pc = "add"
        BY <1>2, <1>4, <4>1, NothingUndone DEF InvoiceInv
      <4>2. CASE t = Consumer /\ k.pc = "save"
        <5>1. Save(t)
          BY <4>2 DEF HandlerStep, Call, Check, Find, OpenSession, Charge,
                      Record, Remove, Add, Publish
        <5>2. rows' = [rows EXCEPT ![k.invoice] = Written(t)]
              /\ Written(t) # NoRow
          BY <4>2, <5>1, WrittenRow DEF Save, NoRow
        <5> QED BY <1>4, <5>2 DEF PaymentSound, TypeOK
      <4> QED BY <1>3, <2>1, <4>1, <4>2
    <3>2. ~(t = Consumer /\ r.pc = "save")
      BY <1>2, <1>3, <1>6, <2>1
    <3> QED BY <1>1, <1>4, <1>6, <3>1, <3>2 DEF InvoiceInv, r
  <2>3. CopyInv(t)'
    <3>1. r.kind \in KindsOf(t) /\ r.pc \in DOMAIN Flow(r.kind)
      BY <1>2, <1>4, <1>6, <2>1 DEF CopyInv
    <3>2. ASSUME t # Consumer, r.pc \notin {"check", "find"}
          PROVE  r.seen.status = "AWAITING_PAYMENT" /\ r.seen.intent = None
      <4>1. CASE k.pc = "find"
        <5>1. rows[k.invoice].status = "AWAITING_PAYMENT"
          BY <1>6, <4>1 DEF IsAwaitingPayment
        <5>2. rows[k.invoice].intent = None
          BY <1>4, <5>1 DEF PaymentSound, TableInv, PaidMeansPaid
        <5> QED BY <1>6, <4>1, <5>1, <5>2
      <4>2. CASE k.pc # "find"
        <5>1. k.pc # "check"
          <6>1. k.pc = "check" => n = "find"
            BY <1>3, FlowTable DEF n
          <6> QED BY <1>6, <3>2, <6>1
        <5> QED BY <1>2, <1>4, <1>6, <3>2, <4>2, <5>1 DEF CopyInv
      <4> QED BY <4>1, <4>2
    <3>3. ASSUME r.kind = "webhook"
          PROVE  r.about \in Requests
                 /\ payment'[r.about] = Taken("completed", r.invoice)
      <4>1. k.about \in Requests /\ payment[k.about] = Taken("completed", k.invoice)
        BY <1>2, <1>4, <1>6, <3>3 DEF CopyInv
      <4>2. payment'[k.about] = payment[k.about]
        BY <4>1, NothingUndone DEF MoneyTaken, Taken
      <4> QED BY <1>6, <4>1, <4>2
    <3>4. ASSUME r.kind = "savedCard", r.pc \in {"save", "publish"}
          PROVE  payment'[t] = Taken("charged", r.invoice)
      <4>1. t \in Requests
        BY <1>3, <1>6, <3>4
      <4>2. CASE k.pc = "charge"
        <5>1. Charge(t)
          BY <4>2 DEF HandlerStep, Call, Check, Find, OpenSession, Save,
                      Record, Remove, Add, Publish
        <5>2. r.pc \in Steps
          BY <3>4 DEF Steps
        <5>3. task' = [task EXCEPT ![t] = r]
              /\ r \notin {Ended(t, "done"), Ended(t, "threw")}
          BY <5>1, <5>2, EndedType, BecomeOwn
          DEF Charge, r, Become, PaymentSound, TypeOK
        <5>4. payment' = Charged(t)
          BY <5>1, <5>3, BecomeOwn DEF Charge, r, PaymentSound
        <5> QED BY <1>6, <4>1, <5>4 DEF Charged, Taken, PaymentSound, TypeOK
      <4>3. CASE k.pc = "save"
        <5>1. payment[t] = Taken("charged", k.invoice)
          BY <1>2, <1>4, <1>6, <3>4, <4>3 DEF CopyInv
        <5>2. payment'[t] = payment[t]
          BY <4>1, <5>1, NothingUndone DEF MoneyTaken, Taken
        <5> QED BY <1>6, <5>1, <5>2
      <4> QED BY <1>6, <2>1, <3>4, <4>2, <4>3
    <3> QED BY <3>1, <3>2, <3>3, <3>4 DEF CopyInv, r
  <2> QED BY <2>2, <2>3
<1> QED BY <1>2, <1>5, <1>6

\* Whoever sets off, and whatever dies, finds an invoice in the table.
LEMMA BeliefStarts ==
  ASSUME PaymentSound, [Next]_vars, NEW t \in Handlers, ~HandlerStep(t),
         task'[t] # task[t]
  PROVE  InvoiceInv(t)' /\ CopyInv(t)'
<1>1. /\ TypeOK /\ Consumer \notin Requests /\ Worker \notin Requests
      /\ Consumer # Worker /\ Consumer \in Handlers /\ Worker \in Handlers
      /\ Requests \subseteq Handlers
  BY PaymentAssumption DEF PaymentSound, Handlers
<1>2. \A i \in Invoices : rows[i] # NoRow => rows'[i] # NoRow
  BY NothingUndone
<1>3. ASSUME NEW u \in Handlers, NEW r, Become(u, r)
      PROVE  u = t /\ task'[t] = r
  BY <1>1, <1>3, BecomeOwn
<1>4. ASSUME NEW u \in Requests, Arrive(u) PROVE InvoiceInv(t)' /\ CopyInv(t)'
  <2>1. PICK kind \in Kinds \ {"webhook"}, i \in Invoices : Begin(u, kind, i)
    BY <1>4 DEF Arrive
  <2>2. PICK due \in IF kind = "extend" THEN DueDates ELSE {0} :
          Become(u, [Idle EXCEPT !.kind = kind, !.pc = "find", !.invoice = i,
                                 !.due = due])
    BY <2>1 DEF Begin
  <2>3. /\ t = u /\ task'[t].kind = kind /\ task'[t].pc = "find"
        /\ task'[t].invoice = i /\ rows'[i] # NoRow
    <3>1. t = u /\ task'[t] = [Idle EXCEPT !.kind = kind, !.pc = "find",
                                          !.invoice = i, !.due = due]
      BY <1>1, <1>3, <2>2
    <3>2. rows[i] # NoRow
      BY <2>1 DEF Begin
    <3> QED BY <1>2, <3>1, <3>2 DEF Idle
  <2>4. kind \in KindsOf(t) /\ "find" \in DOMAIN Flow(kind)
    <3>1. kind \in {"checkout", "savedCard", "cancel", "extend"}
      BY PaymentAssumption
    <3> QED BY <1>1, <2>3, <3>1
            DEF KindsOf, Flow, CheckoutFlow, SavedCardFlow, CancelFlow, ExtendFlow
  <2>5. t # Consumer /\ t # Worker
    BY <1>1, <2>3
  <2> QED BY <2>3, <2>4, <2>5 DEF InvoiceInv, CopyInv
<1>5. ASSUME NEW u \in Requests, WebhookArrives(u)
      PROVE  InvoiceInv(t)' /\ CopyInv(t)'
  <2>1. PICK p \in Requests :
          /\ payment[p].state = "completed"
          /\ Become(u, [Idle EXCEPT !.kind = "webhook", !.pc = "check",
                          !.invoice = payment[p].invoice, !.about = p])
    BY <1>5 DEF WebhookArrives
  <2>2. /\ t = u /\ task'[t].kind = "webhook" /\ task'[t].pc = "check"
        /\ task'[t].invoice = payment[p].invoice /\ task'[t].about = p
    <3>1. t = u /\ task'[t] = [Idle EXCEPT !.kind = "webhook", !.pc = "check",
                                  !.invoice = payment[p].invoice, !.about = p]
      BY <1>1, <1>3, <2>1
    <3> QED BY <3>1 DEF Idle
  <2>3. /\ payment[p].invoice \in Invoices /\ rows'[payment[p].invoice] # NoRow
        /\ payment'[p] = Taken("completed", payment[p].invoice)
    <3>1. payment[p].invoice \in Invoices /\ rows[payment[p].invoice] # NoRow
      BY <2>1 DEF PaymentSound, MadeInv
    <3>2. payment'[p] = payment[p]
      BY <1>5 DEF WebhookArrives
    <3>3. payment[p] = Taken("completed", payment[p].invoice)
      BY <1>1, <2>1 DEF TypeOK, Taken
    <3> QED BY <1>2, <3>1, <3>2, <3>3
  <2>4. "webhook" \in KindsOf(t) /\ "check" \in DOMAIN Flow("webhook")
    BY <1>1, <1>5, <2>2 DEF WebhookArrives, KindsOf, Flow, WebhookFlow
  <2>5. t # Consumer /\ t # Worker
    BY <1>1, <2>2
  <2> QED BY <2>2, <2>3, <2>4, <2>5 DEF InvoiceInv, CopyInv
<1>6. CASE Deliver
  <2>1. /\ t = Consumer /\ task'[t].kind = "create" /\ task'[t].pc = "find"
        /\ closed' > 0
    <3>1. t = Consumer /\ task'[t] = [Idle EXCEPT !.kind = "create", !.pc = "find"]
      BY <1>1, <1>3, <1>6 DEF Deliver
    <3> QED BY <1>6, <3>1 DEF Deliver, Idle
  <2>2. "create" \in KindsOf(t) /\ "find" \in DOMAIN Flow("create")
    BY <1>1, <2>1 DEF KindsOf, Flow, CreateFlow
  <2> QED BY <1>1, <2>1, <2>2 DEF InvoiceInv, CopyInv
<1>7. CASE FindLot
  <2>1. /\ task[Consumer].pc = "find" /\ Underway(Consumer)
        /\ rows' = rows /\ closed' = closed
    BY <1>7 DEF FindLot, Underway, Steps
  <2>2. task[Consumer].kind = "create"
    BY <1>1, <2>1, UnderwayKind
  <2>3. CASE Become(Consumer, Ended(Consumer, "done"))
    BY <1>1, <1>3, <2>1, <2>3, BeliefEnds
  <2>4. ASSUME ~LotHasInvoice, NEW i \in Invoices,
               Become(Consumer, [Onward(Consumer) EXCEPT
                                   !.invoice = i, !.due = now + Window])
        PROVE  InvoiceInv(t)' /\ CopyInv(t)'
    <3>1. Onward(Consumer) = [task[Consumer] EXCEPT !.pc = "save"]
      BY <2>1, <2>2 DEF Onward, Flow, CreateFlow
    <3>2. /\ t = Consumer /\ task'[t].pc = "save" /\ task'[t].invoice = i
          /\ task'[t].kind = "create"
      <4>1. /\ t = Consumer
            /\ task'[t] = [Onward(Consumer) EXCEPT !.invoice = i, !.due = now + Window]
        BY <1>1, <1>3, <2>4
      <4>2. task[Consumer] \in Task
        BY <1>1 DEF TypeOK
      <4> QED BY <2>2, <3>1, <4>1, <4>2 DEF Task
    <3>3. \A j \in Invoices : rows'[j] = NoRow
      BY <2>1, <2>4 DEF LotHasInvoice
    <3>4. closed' > 0
      BY <1>1, <2>1 DEF PaymentSound, InvoiceInv
    <3>5. "create" \in KindsOf(t) /\ "save" \in DOMAIN Flow("create")
      BY <1>1, <3>2 DEF KindsOf, Flow, CreateFlow
    <3> QED BY <1>1, <3>2, <3>3, <3>4, <3>5 DEF InvoiceInv, CopyInv
  <2> QED BY <1>7, <2>3, <2>4 DEF FindLot
<1>8. ASSUME NEW i \in Invoices, TakeJob(i) PROVE InvoiceInv(t)' /\ CopyInv(t)'
  <2>1. /\ t = Worker /\ task'[t].kind = "expire" /\ task'[t].pc = "find"
        /\ task'[t].invoice = i
    <3>1. /\ t = Worker
          /\ task'[t] = [Idle EXCEPT !.kind = "expire", !.pc = "find", !.invoice = i]
      BY <1>1, <1>3, <1>8 DEF TakeJob
    <3> QED BY <3>1 DEF Idle
  <2>2. rows'[i] # NoRow
    <3>1. jobs[i].state # "absent"
      BY <1>8 DEF TakeJob, IsDue
    <3> QED BY <1>2, <3>1 DEF PaymentSound, TableInv
  <2>3. "expire" \in KindsOf(t) /\ "find" \in DOMAIN Flow("expire")
    BY <1>1, <2>1 DEF KindsOf, Flow, ExpireFlow
  <2> QED BY <1>1, <2>1, <2>2, <2>3 DEF InvoiceInv, CopyInv
<1>9. ASSUME ~Underway(t)', t \in {Consumer, Worker} => task'[t].pc = "idle"
      PROVE  InvoiceInv(t)' /\ CopyInv(t)'
  <2>1. t \in {Consumer, Worker} => task'[t].pc # "save"
    BY <1>9
  <2> QED BY <1>9, <2>1 DEF InvoiceInv, CopyInv
<1>10. CASE Settle \/ FinishJob
  <2>1. task'[t] = Idle
    BY <1>1, <1>3, <1>10 DEF Settle, FinishJob
  <2> QED BY <1>9, <2>1 DEF Idle, Underway, Steps
<1>11. CASE Crash
  <2>1. IF t \in {Consumer, Worker} THEN task'[t] = Idle
        ELSE task'[t] = Ended(t, "threw")
    BY <1>11 DEF Crash
  <2>2. Ended(t, "threw").pc = "threw" /\ Idle.pc = "idle"
    BY DEF Ended, Idle
  <2>3. ~Underway(t)'
    BY <2>1, <2>2 DEF Underway, Steps
  <2> QED BY <1>9, <2>1, <2>2, <2>3
<1>12. CASE \/ \E p \in Requests : PayOnPage(p)
            \/ \E i \in Invoices : RecoverStalled(i)
            \/ Tick \/ UNCHANGED vars
  BY <1>12 DEF PayOnPage, RecoverStalled, Tick, vars
<1>13. ASSUME NEW u \in Handlers, HandlerStep(u) PROVE FALSE
  <2>1. u # t
    BY <1>13
  <2> QED BY <1>13, <2>1, MoveOf
<1> QED BY <1>4, <1>5, <1>6, <1>7, <1>8, <1>10, <1>11, <1>12, <1>13
        DEF Next, ServiceStep

\* Every step leaves every handler with what it may believe.
LEMMA BeliefStep ==
  ASSUME PaymentSound, [Next]_vars, NEW t \in Handlers
  PROVE  InvoiceInv(t)' /\ CopyInv(t)'
BY BeliefStands, BeliefMoves, BeliefStarts

-----------------------------------------------------------------------------
(***************************************************************************)
(* The table.                                                              *)
(***************************************************************************)

\* A job is added by a handler whose invoice is saved.
LEMMA JobsOfRows ==
  ASSUME PaymentSound, [Next]_vars, NEW i \in Invoices,
         jobs'[i].state # "absent"
  PROVE  rows'[i] # NoRow
<1>1. /\ \A j \in Invoices : rows[j] # NoRow => rows'[j] # NoRow
      /\ jobs[i].state # "absent" => rows[i] # NoRow
      /\ jobs \in [Invoices -> Job]
  BY NothingUndone DEF PaymentSound, TableInv, TypeOK
<1>2. CASE jobs[i].state # "absent"
  BY <1>1, <1>2
<1>3. CASE jobs[i].state = "absent"
  <2>1. ASSUME NEW t \in Handlers, Add(t), task[t].invoice = i
        PROVE  rows[i] # NoRow
    BY <2>1 DEF Add, PaymentSound, InvoiceInv, Underway, Steps
  <2>2. ASSUME NEW t \in Handlers, HandlerStep(t)
        PROVE  Add(t) /\ task[t].invoice = i
    <3>1. CASE Remove(t)
      <4>1. jobs' = jobs \/ jobs' = [jobs EXCEPT ![task[t].invoice] = NoJob]
        BY <3>1 DEF Remove
      <4> QED BY <1>1, <1>3, <4>1 DEF NoJob
    <3>2. CASE Add(t)
      BY <1>1, <1>3, <3>2 DEF Add
    <3>3. CASE ~Remove(t) /\ ~Add(t)
      BY <1>3, <2>2, <3>3 DEF HandlerStep, Call, Check, Find, OpenSession,
         Charge, Save, Record, Publish
    <3> QED BY <3>1, <3>2, <3>3
  <2>3. ASSUME NEW t \in Requests, Arrive(t) \/ WebhookArrives(t) \/ PayOnPage(t)
        PROVE  FALSE
    BY <1>3, <2>3 DEF Arrive, Begin, WebhookArrives, PayOnPage
  <2>4. ASSUME NEW j \in Invoices, TakeJob(j) \/ RecoverStalled(j)
        PROVE  FALSE
    <3>1. j # i
      BY <1>3, <2>4 DEF TakeJob, RecoverStalled, IsDue
    <3> QED BY <1>1, <1>3, <2>4, <3>1 DEF TakeJob, RecoverStalled
  <2>5. ASSUME FinishJob PROVE rows[i] # NoRow
    <3>1. rows[task[Worker].invoice] # NoRow /\ task[Worker].invoice \in Invoices
      BY <2>5 DEF FinishJob, PaymentSound, InvoiceInv, Handlers
    <3>2. CASE i # task[Worker].invoice
      BY <1>1, <1>3, <2>5, <3>1, <3>2 DEF FinishJob
    <3> QED BY <3>1, <3>2
  <2>6. ASSUME Deliver \/ FindLot \/ Settle \/ Crash \/ Tick \/ UNCHANGED vars
        PROVE  FALSE
    BY <1>1, <1>3, <2>6 DEF Deliver, FindLot, Settle, Crash, Tick, vars
  <2> QED BY <1>1, <2>1, <2>2, <2>3, <2>4, <2>5, <2>6 DEF Next, ServiceStep
<1> QED BY <1>2, <1>3

\* Who saves a first invoice is the consumer, and it saw none.
LEMMA SavedBy ==
  ASSUME PaymentSound, NEW t \in Handlers, Save(t)
  PROVE  LET i == task[t].invoice IN
           /\ i \in Invoices /\ Underway(t) /\ HandlerStep(t)
           /\ rows' = [rows EXCEPT ![i] = Written(t)]
           /\ t = Consumer => \A j \in Invoices : rows[j] = NoRow
           /\ t # Consumer => /\ rows[i] # NoRow
                              /\ task[t].seen.status = "AWAITING_PAYMENT"
<1>1. Underway(t) /\ HandlerStep(t) /\ task[t].pc = "save"
  BY DEF Save, HandlerStep, Call, Underway, Steps
<1>2. task[t].invoice \in Invoices
  BY <1>1, WrittenRow
<1> QED BY <1>1, <1>2 DEF Save, PaymentSound, InvoiceInv, CopyInv

\* The table keeps to one invoice, and to what was paid for it.
LEMMA TableStep ==
  ASSUME PaymentSound, [Next]_vars
  PROVE  TableInv'
<1>1. TableInv /\ rows \in [Invoices -> InvoiceRow] /\ None \notin Requests
  BY PaymentAssumption DEF PaymentSound, TypeOK
<1>2. CASE rows' = rows
  <2>1. \A i \in Invoices : jobs'[i].state # "absent" => rows'[i] # NoRow
    BY JobsOfRows
  <2>2. PaidMeansPaid'
    <3> SUFFICES ASSUME NEW i \in Invoices
                 PROVE  LET p == rows[i].intent
                        IN  /\ rows[i].status = "PAID" <=> p # None
                            /\ p # None => /\ payment'[p].state \in {"completed", "charged"}
                                        /\ payment'[p].invoice = i
      BY <1>2 DEF PaidMeansPaid, MoneyTaken
    <3>1. rows[i].intent \in Requests \cup {None}
      BY <1>1 DEF InvoiceRow, Payments
    <3>2. /\ rows[i].status = "PAID" <=> rows[i].intent # None
          /\ rows[i].intent # None => /\ MoneyTaken(rows[i].intent)
                                      /\ payment[rows[i].intent].invoice = i
      BY <1>1 DEF TableInv, PaidMeansPaid
    <3>3. ASSUME rows[i].intent # None
          PROVE  /\ payment'[rows[i].intent].state \in {"completed", "charged"}
                 /\ payment'[rows[i].intent].invoice = i
      <4> DEFINE q == rows[i].intent
      <4>1. q \in Requests /\ MoneyTaken(q) /\ payment[q].invoice = i
        BY <3>1, <3>2, <3>3
      <4> HIDE DEF q
      <4>2. payment'[q] = payment[q]
        BY <4>1, NothingUndone
      <4>3. payment'[q].state \in {"completed", "charged"} /\ payment'[q].invoice = i
        BY <4>1, <4>2 DEF MoneyTaken
      <4> QED BY <4>3 DEF q
    <3> QED BY <3>2, <3>3
  <2> QED BY <1>1, <1>2, <2>1, <2>2 DEF TableInv, OneInvoice
<1>3. ASSUME NEW t \in Handlers, Save(t) PROVE TableInv'
  <2> DEFINE i == task[t].invoice
             row == Written(t)
  <2>1. /\ i \in Invoices /\ rows' = [rows EXCEPT ![i] = row]
        /\ t = Consumer => \A j \in Invoices : rows[j] = NoRow
        /\ t # Consumer => rows[i] # NoRow
    BY <1>3, SavedBy
  <2>2. /\ row \in InvoiceRow /\ row.status # "ABSENT"
        /\ row.status = "PAID" <=> row.intent # None
        /\ row.intent # None => MoneyTaken(row.intent) /\ payment[row.intent].invoice = i
    BY <1>3, WrittenRow DEF Save
  <2>3. payment' = payment
    BY <1>3 DEF Save
  <2> HIDE DEF i, row
  <2>4. \A j \in Invoices : rows'[j] = IF j = i THEN row ELSE rows[j]
    BY <1>1, <2>1
  <2>5. \A j \in Invoices : /\ rows'[j].status = "ABSENT" => rows'[j] = NoRow
                            /\ jobs'[j].state # "absent" => rows'[j] # NoRow
    BY <1>1, <2>2, <2>4, JobsOfRows DEF TableInv
  <2>6. OneInvoice'
    BY <1>1, <2>1, <2>4 DEF OneInvoice, TableInv
  <2>7. PaidMeansPaid'
    BY <1>1, <2>2, <2>3, <2>4 DEF PaidMeansPaid, TableInv, MoneyTaken
  <2> QED BY <2>5, <2>6, <2>7 DEF TableInv
<1> QED BY <1>2, <1>3, WhoWrites

-----------------------------------------------------------------------------
(***************************************************************************)
(* What a request has paid.                                                *)
(***************************************************************************)

\* A request that has paid only goes on to save, to announce and to end.
LEMMA PaidMoves ==
  ASSUME PaymentSound, [Next]_vars, NEW p \in Requests,
         payment[p].state # "none"
  PROVE  /\ task'[p].pc \in {"save", "publish", "done", "threw"}
         /\ Underway(p)' => /\ Underway(p)
                            /\ task'[p].kind \in {"checkout", "savedCard"}
<1>1. /\ TypeOK /\ p \in Handlers /\ p # Consumer /\ p # Worker
      /\ task[p].pc \in {"save", "publish", "done", "threw"}
      /\ Underway(p) => task[p].kind \in {"checkout", "savedCard"}
      /\ task[p].pc # "idle"
  BY PaymentAssumption DEF PaymentSound, MadeInv, Handlers
<1>2. CASE task'[p] = task[p]
  BY <1>1, <1>2 DEF Underway
<1>3. CASE HandlerStep(p)
  <2> DEFINE n == Flow(task[p].kind)[task[p].pc]
  <2>1. /\ Underway(p)
        /\ \/ task'[p] = Ended(p, "done") \/ task'[p] = Ended(p, "threw")
           \/ /\ n # "done" /\ task'[p].pc = n
              /\ task'[p].kind = task[p].kind
    BY <1>1, <1>3, MoveOf
  <2>2. /\ task[p].kind \in AllKinds /\ task[p].pc \in DOMAIN Flow(task[p].kind)
        /\ task[p].pc \in {"save", "publish"}
    BY <1>1, <2>1, UnderwayKind DEF Underway, Steps
  <2>3. n \in {"done", "publish"}
    <3>1. CASE task[p].kind = "checkout"
      BY <2>2, <3>1 DEF Flow, CheckoutFlow
    <3>2. CASE task[p].kind = "savedCard"
      BY <2>2, <3>2 DEF Flow, SavedCardFlow
    <3> QED BY <1>1, <2>1, <3>1, <3>2
  <2>4. /\ Ended(p, "done").pc = "done" /\ Ended(p, "threw").pc = "threw"
        /\ "done" \notin Steps /\ "threw" \notin Steps
    BY DEF Ended, Idle, Steps
  <2> QED BY <1>1, <2>1, <2>3, <2>4 DEF Underway
<1>4. CASE ~HandlerStep(p) /\ task'[p] # task[p]
  <2>1. ASSUME NEW u \in Handlers, NEW r, Become(u, r) PROVE u = p
    BY <1>1, <1>4, <2>1, BecomeOwn
  <2>2. ASSUME NEW u \in Requests, Arrive(u) \/ WebhookArrives(u) PROVE FALSE
    BY <1>1, <2>1, <2>2 DEF Arrive, Begin, WebhookArrives, Handlers
  <2>3. ASSUME \/ Deliver \/ FindLot \/ Settle \/ FinishJob
               \/ \E i \in Invoices : TakeJob(i)
        PROVE  FALSE
    <3>1. Consumer \in Handlers /\ Worker \in Handlers
      BY DEF Handlers
    <3> QED BY <1>1, <2>1, <2>3, <3>1 DEF Deliver, FindLot, Settle, FinishJob, TakeJob
  <2>4. ASSUME NEW u \in Handlers, HandlerStep(u) PROVE FALSE
    <3>1. u # p
      BY <1>4, <2>4
    <3> QED BY <1>1, <1>4, <2>4, <3>1, MoveOf
  <2>5. CASE Crash
    <3>1. task'[p] = Ended(p, "threw")
      BY <1>1, <1>4, <2>5 DEF Crash
    <3> QED BY <3>1 DEF Ended, Idle, Underway, Steps
  <2>6. ASSUME \/ \E q \in Requests : PayOnPage(q)
               \/ \E i \in Invoices : RecoverStalled(i)
               \/ Tick \/ UNCHANGED vars
        PROVE  FALSE
    BY <1>4, <2>6 DEF PayOnPage, RecoverStalled, Tick, vars
  <2> QED BY <2>2, <2>3, <2>4, <2>5, <2>6 DEF Next, ServiceStep
<1> QED BY <1>2, <1>3, <1>4

\* Every payment is of an invoice there is.
LEMMA MadeStep ==
  ASSUME PaymentSound, [Next]_vars, NEW p \in Requests
  PROVE  MadeInv(p)'
<1>1. /\ \A i \in Invoices : rows[i] # NoRow => rows'[i] # NoRow
      /\ TypeOK /\ p \in Handlers
  BY NothingUndone DEF PaymentSound, Handlers
<1>2. CASE payment[p].state # "none"
  <2>1. /\ payment[p].invoice \in Invoices /\ rows[payment[p].invoice] # NoRow
        /\ payment'[p].invoice = payment[p].invoice
    BY <1>2, NothingUndone DEF PaymentSound, MadeInv
  <2> QED BY <1>1, <1>2, <2>1, PaidMoves DEF MadeInv
<1>3. CASE payment[p].state = "none" /\ payment'[p].state # "none"
  <2>1. ASSUME NEW q \in Requests, PayOnPage(q) PROVE FALSE
    BY <1>1, <1>3, <2>1 DEF PayOnPage, TypeOK
  <2>2. PICK t \in Handlers : OpenSession(t) \/ Charge(t)
    BY <1>3, <2>1, WhoWrites
  <2>3. /\ HandlerStep(t) /\ task[t].pc \in {"session", "charge"}
        /\ rows' = rows
    BY <2>2 DEF OpenSession, Charge, HandlerStep, Call
  <2>4. /\ t \in Requests /\ Underway(t) /\ task[t].invoice \in Invoices
        /\ rows[task[t].invoice] # NoRow
        /\ task[t].pc = "session" => task[t].kind = "checkout"
        /\ task[t].pc = "charge" => task[t].kind = "savedCard"
    BY <2>3, NotYetMade
  <2>5. t = p /\ payment'[p].invoice = task[p].invoice
    BY <1>1, <1>3, <2>2 DEF OpenSession, Charge, Charged, TypeOK
  <2>6. \/ task'[p] = Ended(p, "done") \/ task'[p] = Ended(p, "threw")
        \/ /\ task'[p].pc = Flow(task[p].kind)[task[p].pc]
           /\ task'[p].kind = task[p].kind
    BY <2>3, <2>5, MoveOf
  <2>7. Flow(task[p].kind)[task[p].pc] = "save"
    BY <2>3, <2>4, <2>5 DEF Flow, CheckoutFlow, SavedCardFlow
  <2>8. /\ Ended(p, "done").pc = "done" /\ Ended(p, "threw").pc = "threw"
        /\ "done" \notin Steps /\ "threw" \notin Steps
    BY DEF Ended, Idle, Steps
  <2>9. /\ task'[p].pc \in {"save", "done", "threw"}
        /\ Underway(p)' => task'[p].kind \in {"checkout", "savedCard"}
    BY <2>3, <2>4, <2>5, <2>6, <2>7, <2>8 DEF Underway
  <2> QED BY <2>3, <2>4, <2>5, <2>9 DEF MadeInv
<1> QED BY <1>2, <1>3 DEF MadeInv

-----------------------------------------------------------------------------
(***************************************************************************)
(* Who announces a payment.                                                *)
(***************************************************************************)

\* Who records an event, and who sends a message.
LEMMA WhoTells ==
  ASSUME [Next]_vars
  PROVE  /\ events' = events \/ \E t \in Handlers : Record(t)
         /\ received' = received \/ \E t \in Handlers : Publish(t)
<1>1. ASSUME NEW t \in Handlers, HandlerStep(t)
      PROVE  /\ events' = events \/ Record(t)
             /\ received' = received \/ Publish(t)
  BY <1>1 DEF HandlerStep, Call, Check, Find, OpenSession, Charge, Save,
              Record, Remove, Add, Publish
<1>2. ASSUME NEW t \in Requests, Arrive(t) \/ WebhookArrives(t) \/ PayOnPage(t)
      PROVE  events' = events /\ received' = received
  BY <1>2 DEF Arrive, Begin, WebhookArrives, PayOnPage
<1>3. ASSUME NEW i \in Invoices, TakeJob(i) \/ RecoverStalled(i)
      PROVE  events' = events /\ received' = received
  BY <1>3 DEF TakeJob, RecoverStalled
<1>4. ASSUME \/ Deliver \/ FindLot \/ Settle \/ FinishJob \/ Crash \/ Tick
             \/ UNCHANGED vars
      PROVE  events' = events /\ received' = received
  BY <1>4 DEF Deliver, FindLot, Settle, FinishJob, Crash, Tick, vars
<1> QED BY <1>1, <1>2, <1>3, <1>4 DEF Next, ServiceStep

\* What a request becomes when it is not one of its awaits that moves it.
LEMMA RequestStarts ==
  ASSUME PaymentSound, [Next]_vars, NEW t \in Requests, ~HandlerStep(t),
         task'[t] # task[t]
  PROVE  task'[t].pc \in {"check", "find", "threw"}
<1>1. /\ TypeOK /\ t \in Handlers /\ t # Consumer /\ t # Worker
      /\ Consumer \in Handlers /\ Worker \in Handlers
  BY PaymentAssumption DEF PaymentSound, Handlers
<1>2. ASSUME NEW u \in Handlers, NEW r, Become(u, r)
      PROVE  u = t /\ task'[t] = r
  BY <1>1, <1>2, BecomeOwn
<1>3. ASSUME NEW u \in Requests, Arrive(u) PROVE task'[t].pc = "find"
  <2>1. PICK kind \in Kinds \ {"webhook"}, i \in Invoices : Begin(u, kind, i)
    BY <1>3 DEF Arrive
  <2>2. PICK due \in IF kind = "extend" THEN DueDates ELSE {0} :
          Become(u, [Idle EXCEPT !.kind = kind, !.pc = "find", !.invoice = i,
                                 !.due = due])
    BY <2>1 DEF Begin
  <2>3. task'[t] = [Idle EXCEPT !.kind = kind, !.pc = "find", !.invoice = i,
                                !.due = due]
    BY <1>2, <2>2 DEF Handlers
  <2> QED BY <2>3 DEF Idle
<1>4. ASSUME NEW u \in Requests, WebhookArrives(u) PROVE task'[t].pc = "check"
  <2>1. PICK p \in Requests :
          Become(u, [Idle EXCEPT !.kind = "webhook", !.pc = "check",
                       !.invoice = payment[p].invoice, !.about = p])
    BY <1>4 DEF WebhookArrives
  <2>2. task'[t] = [Idle EXCEPT !.kind = "webhook", !.pc = "check",
                      !.invoice = payment[p].invoice, !.about = p]
    BY <1>2, <2>1 DEF Handlers
  <2> QED BY <2>2 DEF Idle
<1>5. ASSUME \/ Deliver \/ FindLot \/ Settle \/ FinishJob
             \/ \E i \in Invoices : TakeJob(i)
      PROVE  FALSE
  BY <1>1, <1>2, <1>5 DEF Deliver, FindLot, Settle, FinishJob, TakeJob
<1>6. ASSUME NEW u \in Handlers, HandlerStep(u) PROVE FALSE
  <2>1. u # t
    BY <1>6
  <2> QED BY <1>1, <1>6, <2>1, MoveOf
<1>7. CASE Crash
  <2>1. task'[t] = Ended(t, "threw")
    BY <1>1, <1>7 DEF Crash
  <2> QED BY <2>1 DEF Ended, Idle
<1>8. ASSUME \/ \E q \in Requests : PayOnPage(q)
             \/ \E i \in Invoices : RecoverStalled(i)
             \/ Tick \/ UNCHANGED vars
      PROVE  FALSE
  BY <1>8 DEF PayOnPage, RecoverStalled, Tick, vars
<1> QED BY <1>3, <1>4, <1>5, <1>6, <1>7, <1>8 DEF Next, ServiceStep

\* A handler has a payment to announce from its record of it on, and until it
\* publishes.
LEMMA AnnouncingFrom ==
  ASSUME PaymentSound, [Next]_vars, NEW t \in Handlers, NEW p \in Requests,
         Announcing(t, p)'
  PROVE  \/ Announcing(t, p) /\ ~Publish(t)
         \/ Record(t) /\ task[t].about = p /\ p \notin events
<1> DEFINE k == task[t]
           r == task'[t]
           n == Flow(k.kind)[k.pc]
<1>1. /\ r.kind = "webhook" /\ r.about = p /\ r.pc \in {"remove", "publish"}
      /\ r.pc \in Steps
  BY DEF Announcing, Steps
<1>2. TypeOK
  BY DEF PaymentSound
<1>3. CASE HandlerStep(t)
  <2>1. /\ Underway(t) /\ n # "done" /\ r.pc = n
        /\ r.kind = k.kind /\ r.about = k.about
    BY <1>1, <1>2, <1>3, MoveOf, EndedType
  <2>2. k.kind \in AllKinds /\ k.pc \in DOMAIN Flow(k.kind)
    BY <2>1, UnderwayKind
  <2>3. k.pc \in {"record", "remove"}
    BY <1>1, <2>1, <2>2, FlowTable
  <2>4. CASE k.pc = "remove"
    BY <1>1, <2>1, <2>4 DEF Announcing, Publish
  <2>5. CASE k.pc = "record"
    <3>1. Record(t)
      BY <1>3, <2>5 DEF HandlerStep, Call, Check, Find, OpenSession, Charge,
                        Save, Remove, Add, Publish
    <3>2. k.about \notin events
      <4>1. ASSUME k.about \in events PROVE FALSE
        <5>1. Become(t, Ended(t, "threw"))
          BY <3>1, <4>1 DEF Record
        <5>2. r = Ended(t, "threw")
          BY <1>2, <5>1, BecomeOwn
        <5> QED BY <1>1, <1>2, <5>2, EndedType
      <4> QED BY <4>1
    <3> QED BY <1>1, <2>1, <3>1, <3>2
  <2> QED BY <2>3, <2>4, <2>5
<1>4. CASE ~HandlerStep(t) /\ r = k
  BY <1>1, <1>4 DEF Announcing, HandlerStep, Call
<1>5. CASE ~HandlerStep(t) /\ r # k
  <2>1. CopyInv(t)'
    BY BeliefStep
  <2>2. r.kind \in KindsOf(t)
    BY <1>1, <2>1 DEF CopyInv, Underway
  <2>3. t \in Requests
    BY <1>1, <2>2 DEF KindsOf, Handlers
  <2> QED BY <1>1, <1>5, <2>3, RequestStarts
<1> QED BY <1>3, <1>4, <1>5

\* Who sends the message of a payment has it to announce, or has just
\* charged it.
LEMMA SentBy ==
  ASSUME PaymentSound, [Next]_vars, NEW p \in Requests,
         received'[p] # received[p]
  PROVE  /\ received'[p] = 1 /\ received[p] = 0
         /\ events' = events /\ payment' = payment
         /\ \E t \in Handlers :
              /\ Publish(t)
              /\ \/ Announcing(t, p)
                 \/ /\ t = p /\ payment[p].state = "charged"
                    /\ p \notin events /\ ~Underway(p)'
<1>1. PICK t \in Handlers : Publish(t)
  BY WhoTells
<1>2. /\ TypeOK /\ received[p] \in Nat
      /\ \A u \in Handlers : Announcing(u, p) => p \in events /\ received[p] = 0
      /\ p \in events => payment[p].state = "completed"
      /\ received[p] # 0 => p \in events \/ ~Underway(p)
  BY DEF PaymentSound, AnnouncedInv, TypeOK
<1>3. /\ Underway(t) /\ task[t].pc = "publish" /\ HandlerStep(t)
      /\ events' = events /\ payment' = payment
  BY <1>1 DEF Publish, Underway, Steps, HandlerStep, Call
<1>4. p \in Announces(t) /\ received'[p] = received[p] + 1
  BY <1>1, <1>2 DEF Publish
<1>5. CASE task[t].kind = "webhook"
  <2>1. task[t].about = p
    BY <1>4, <1>5 DEF Announces
  <2> QED BY <1>1, <1>2, <1>3, <1>4, <1>5, <2>1 DEF Announcing
<1>6. CASE task[t].kind = "savedCard"
  <2>1. t = p
    BY <1>4, <1>6 DEF Announces
  <2>2. payment[p].state = "charged"
    <3>1. CopyInv(t)
      BY DEF PaymentSound
    <3> QED BY <1>3, <1>6, <2>1, <3>1 DEF CopyInv, Taken
  <2>3. p \notin events /\ received[p] = 0
    BY <1>2, <1>3, <2>1, <2>2
  <2>4. ~Underway(p)'
    <3>1. task[t].kind \in AllKinds /\ task[t].pc \in DOMAIN Flow(task[t].kind)
      BY <1>3, UnderwayKind
    <3>2. Flow(task[t].kind)[task[t].pc] = "done"
      BY <1>3, <3>1, FlowTable
    <3>3. task'[t].pc \notin Steps
      BY <1>2, <1>3, <3>2, MoveOf, EndedType
    <3> QED BY <2>1, <3>3 DEF Underway
  <2> QED BY <1>1, <1>3, <1>4, <2>1, <2>2, <2>3, <2>4
<1> QED BY <1>4, <1>5, <1>6 DEF Announces

\* A payment is announced at most once.
LEMMA AnnouncedStep ==
  ASSUME PaymentSound, [Next]_vars, NEW p \in Requests
  PROVE  AnnouncedInv(p)'
<1>1. AnnouncedInv(p) /\ TypeOK
  BY DEF PaymentSound
<1>2. ASSUME NEW t \in Handlers, Record(t)
      PROVE  /\ HandlerStep(t) /\ task[t].about \in Requests
             /\ payment[task[t].about].state = "completed"
             /\ events' = events \cup {task[t].about}
             /\ payment' = payment /\ received' = received
  <2>1. Underway(t) /\ HandlerStep(t) /\ task[t].pc = "record"
    BY <1>2 DEF Record, Underway, Steps, HandlerStep, Call
  <2>2. task[t].kind = "webhook"
    BY <2>1, UnderwayKind, FlowTable
  <2>3. CopyInv(t)
    BY DEF PaymentSound
  <2>4. task[t].about \in Requests /\ payment[task[t].about].state = "completed"
    BY <2>1, <2>2, <2>3 DEF CopyInv, Taken
  <2> QED BY <1>2, <2>1, <2>4 DEF Record
<1>3. /\ p \in events => p \in events'
      /\ p \in events' => payment'[p].state = "completed"
      /\ p \in events' \ events => \E t \in Handlers : Record(t)
  <2>1. payment[p].state \in {"completed", "charged"} => payment'[p] = payment[p]
    BY NothingUndone DEF MoneyTaken
  <2>2. p \in events => payment[p].state = "completed"
    BY <1>1 DEF AnnouncedInv
  <2>3. CASE events' = events
    BY <2>1, <2>2, <2>3
  <2>4. ASSUME NEW t \in Handlers, Record(t)
        PROVE  /\ p \in events => p \in events'
               /\ p \in events' => payment'[p].state = "completed"
    BY <1>2, <2>2, <2>4
  <2> QED BY <2>3, <2>4, WhoTells
<1>4. ASSUME received'[p] # 0
      PROVE  /\ received'[p] = 1
             /\ \/ p \in events'
                \/ payment'[p].state = "charged" /\ ~Underway(p)'
  <2>1. CASE received'[p] = received[p]
    <3>1. /\ received[p] = 1
          /\ \/ p \in events
             \/ payment[p].state = "charged" /\ ~Underway(p)
      BY <1>1, <1>4, <2>1 DEF AnnouncedInv
    <3>2. payment[p].state = "charged" =>
            payment'[p] = payment[p] /\ (Underway(p)' => Underway(p))
      BY NothingUndone, PaidMoves DEF MoneyTaken
    <3> QED BY <1>3, <2>1, <3>1, <3>2
  <2>2. CASE received'[p] # received[p]
    <3>1. PICK t \in Handlers :
            \/ Announcing(t, p)
            \/ payment[p].state = "charged" /\ ~Underway(p)'
      BY <2>2, SentBy
    <3>2. received'[p] = 1 /\ events' = events /\ payment' = payment
      BY <2>2, SentBy
    <3> QED BY <1>1, <3>1, <3>2 DEF AnnouncedInv
  <2> QED BY <2>1, <2>2
<1>5. ASSUME NEW t \in Handlers, Announcing(t, p)'
      PROVE  /\ p \in events' /\ received'[p] = 0
             /\ \A u \in Handlers : Announcing(u, p)' => u = t
  <2>1. CASE Announcing(t, p) /\ ~Publish(t)
    <3>1. /\ p \in events /\ received[p] = 0
          /\ payment[p].state = "completed"
          /\ \A u \in Handlers : Announcing(u, p) => u = t
      BY <1>1, <2>1 DEF AnnouncedInv
    <3>2. received'[p] = received[p]
      BY <2>1, <3>1, SentBy
    <3>3. \A u \in Handlers : Announcing(u, p)' => u = t
      BY <3>1, AnnouncingFrom
    <3> QED BY <1>3, <3>1, <3>2, <3>3
  <2>2. CASE Record(t) /\ task[t].about = p /\ p \notin events
    <3>1. /\ HandlerStep(t) /\ p \in events' /\ received' = received
          /\ payment[p].state = "completed"
      BY <1>2, <2>2
    <3>2. received[p] = 0
      BY <1>1, <2>2, <3>1 DEF AnnouncedInv
    <3>3. ASSUME NEW u \in Handlers, Announcing(u, p)', u # t PROVE FALSE
      <4>1. ~Announcing(u, p)
        BY <1>1, <2>2 DEF AnnouncedInv
      <4>2. Record(u)
        BY <3>3, <4>1, AnnouncingFrom
      <4>3. HandlerStep(u)
        BY <1>2, <4>2
      <4>4. task'[t] = task[t]
        BY <3>3, <4>3, MoveOf
      <4>5. task[t].pc = "record"
        BY <2>2 DEF Record
      <4> QED BY <1>5, <4>4, <4>5 DEF Announcing
    <3> QED BY <3>1, <3>2, <3>3
  <2> QED BY <1>5, <2>1, <2>2, AnnouncingFrom
<1> QED BY <1>3, <1>4, <1>5 DEF AnnouncedInv

-----------------------------------------------------------------------------
(***************************************************************************)
(* The theorems.                                                           *)
(***************************************************************************)

LEMMA InitSound == Init => PaymentSound
<1> SUFFICES ASSUME Init PROVE PaymentSound
  OBVIOUS
<1>1. TypeOK
  <2>1. NoRow \in InvoiceRow
    BY DEF NoRow, InvoiceRow, Payments
  <2>2. Idle \in Task
    BY <2>1 DEF Idle, Task, Payments
  <2>3. NoJob \in Job
    BY DEF NoJob, Job, JobStates
  <2> QED BY <2>1, <2>2, <2>3, PaymentAssumption DEF Init, TypeOK
<1>2. ASSUME NEW t \in Handlers PROVE InvoiceInv(t) /\ CopyInv(t)
  <2>1. task[t].pc = "idle"
    BY DEF Init, Idle
  <2> QED BY <2>1 DEF InvoiceInv, CopyInv, Underway, Steps
<1>3. ASSUME NEW p \in Requests PROVE MadeInv(p) /\ AnnouncedInv(p)
  <2>1. /\ payment[p].state = "none" /\ p \notin events /\ received[p] = 0
        /\ \A t \in Handlers : task[t].pc = "idle"
    BY DEF Init, Idle
  <2> QED BY <2>1 DEF MadeInv, AnnouncedInv, Announcing
<1>4. TableInv
  BY DEF Init, TableInv, OneInvoice, PaidMeansPaid, NoRow, NoJob
<1> QED BY <1>1, <1>2, <1>3, <1>4 DEF PaymentSound

\* The inductive invariant: whatever old rows are written back, whatever dies
\* and however often Stripe calls, what every handler holds stays true of the
\* table, of Stripe and of the events recorded.
THEOREM PaymentAlwaysSound == Spec => []PaymentSound
<1>1. PaymentSound /\ [Next]_vars => PaymentSound'
  BY TypeStep, BeliefStep, MadeStep, AnnouncedStep, TableStep
     DEF PaymentSound, Handlers
<1> QED BY <1>1, InitSound, PTL DEF Spec

\* The lot has at most one invoice however often auction.closed is delivered.
THEOREM OneInvoiceAlways == Spec => []OneInvoice
<1>1. PaymentSound => OneInvoice
  BY DEF PaymentSound, TableInv
<1> QED BY <1>1, PaymentAlwaysSound, PTL

\* A PAID invoice names the payment whose money was taken for it, whoever
\* writes the row last.
THEOREM PaidAlwaysMeansPaid == Spec => []PaidMeansPaid
<1>1. PaymentSound => PaidMeansPaid
  BY DEF PaymentSound, TableInv
<1> QED BY <1>1, PaymentAlwaysSound, PTL

\* payment.received tells of money that was taken, once for each payment.
THEOREM AlwaysReceivedOnce == Spec => []ReceivedOnce
<1>1. PaymentSound => ReceivedOnce
  <2> SUFFICES ASSUME PaymentSound, NEW p \in Requests
               PROVE  /\ received[p] <= 1
                      /\ received[p] = 1 => MoneyTaken(p)
    BY DEF ReceivedOnce
  <2>1. AnnouncedInv(p) /\ received[p] \in Nat
    BY DEF PaymentSound, TypeOK
  <2> QED BY <2>1 DEF AnnouncedInv, MoneyTaken
<1> QED BY <1>1, PaymentAlwaysSound, PTL

\* A settled invoice changes only by a handler that read it before it was.
THEOREM SettledAlwaysStands == Spec => SettledStands
<1>1. ASSUME PaymentSound, [Next]_vars, NEW i \in Invoices,
             rows[i].status \in {"PAID", "EXPIRED", "CANCELLED"},
             rows'[i] # rows[i]
      PROVE  \E t \in Handlers : Outdated(t, i)
  <2>1. PICK t \in Handlers : Save(t)
    BY <1>1, WhoWrites
  <2>2. /\ Underway(t) /\ rows' = [rows EXCEPT ![task[t].invoice] = Written(t)]
        /\ t = Consumer => \A j \in Invoices : rows[j] = NoRow
        /\ t # Consumer => task[t].seen.status = "AWAITING_PAYMENT"
    BY <1>1, <2>1, SavedBy
  <2>3. task[t].invoice = i
    BY <1>1, <2>2 DEF PaymentSound, TypeOK
  <2>4. rows[i] # NoRow
    BY <1>1 DEF NoRow
  <2> QED BY <2>2, <2>3, <2>4 DEF Outdated
<1>2. PaymentSound /\ [Next]_vars =>
        [\A i \in Invoices :
           /\ rows[i].status \in {"PAID", "EXPIRED", "CANCELLED"}
           /\ rows'[i] # rows[i]
           => \E t \in Handlers : Outdated(t, i)]_vars
  BY <1>1
<1> QED BY <1>2, PaymentAlwaysSound, PTL DEF Spec, SettledStands
=============================================================================
