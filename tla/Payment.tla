------------------------------- MODULE Payment -------------------------------
(***************************************************************************)
(* The payment service's handling of one lot: the consumer of              *)
(* auction.closed, the HTTP use cases on an invoice, Stripe's webhook and  *)
(* the expiry worker of apps/payment, against Postgres, BullMQ, Stripe and *)
(* the RabbitMQ publisher.                                                 *)
(*                                                                         *)
(* Every handler reads the invoice, decides, awaits, and writes the whole  *)
(* row back.  A step is one await and the code that follows it; handlers   *)
(* interleave between their awaits.  The consumer takes one message at a   *)
(* time (prefetch 1), the worker one job at a time.                        *)
(***************************************************************************)
EXTENDS Integers, FiniteSets, TimerJobs

CONSTANTS
  Invoices,       \* the ids uuidv4() may draw for invoices of the lot
  Requests,       \* the HTTP calls; what a call pays with Stripe has its name
  Consumer,       \* the consumer of auction.closed
  Worker,         \* the worker of the invoice-expiry queue
  None,           \* no invoice, no payment
  Kinds,          \* the kinds of HTTP call made
  Window,         \* PAYMENT_WINDOW_HOURS
  DueDates,       \* the due dates an admin may ask for
  Closings,       \* bound: auction.closed messages of a sale of the lot
  MaxTime,        \* bound: the clock stops here unless a job waits for it
  MaxCrashes,     \* bound: crashes of the service's process
  IdRefused,      \* does BullMQ refuse the job's id, for its colon? 5.79.1 does
  QueueMayFail,   \* may queue.add throw for any other reason?
  BrokerMayFail,  \* may publish throw?
  StripeMayFail   \* may a call to Stripe throw?

ASSUME PaymentAssumption ==
  /\ None \notin Invoices \cup Requests
  /\ Consumer # Worker /\ Consumer \notin Requests /\ Worker \notin Requests
  /\ Kinds \subseteq {"checkout", "savedCard", "webhook", "cancel", "extend"}
  /\ Window \in Nat /\ DueDates \subseteq Nat /\ Closings \in Nat
  /\ MaxTime \in Nat /\ MaxCrashes \in Nat
  /\ {IdRefused, QueueMayFail, BrokerMayFail, StripeMayFail} \subseteq BOOLEAN

VARIABLES
  rows,      \* the table invoices
  events,    \* payment_events: the stripe_event_id's recorded
  task,      \* what each handler is doing, with its locals
  jobs,      \* BullMQ's jobs expiry:<invoice>
  closed,    \* auction.closed messages not yet acknowledged
  payment,   \* Stripe: the checkout session or charge a request has made
  received,  \* history: payment.received messages sent, by payment
  now,       \* the clock
  crashes    \* crashes so far

vars == << rows, events, task, jobs, closed, payment, received, now, crashes >>

Handlers == Requests \cup {Consumer, Worker}
Payments == Requests \cup {None}

-----------------------------------------------------------------------------
(***************************************************************************)
(* The invoice's row.  `intent' stands for stripe_payment_intent and       *)
(* paid_at, which are set together.                                        *)
(***************************************************************************)
InvoiceStatus == {"AWAITING_PAYMENT", "PAID", "EXPIRED", "CANCELLED"}

InvoiceRow == [status : InvoiceStatus \cup {"ABSENT"}, checkout : Payments,
               intent : Payments, dueAt : Nat]

NoRow == [status |-> "ABSENT", checkout |-> None, intent |-> None, dueAt |-> 0]

\* Fault: an invoice in any state may be acted upon.
IsAwaitingPayment_AnyState(row) == row # NoRow

IsAwaitingPayment(row) == row.status = "AWAITING_PAYMENT"

\* Fault: the lookup by lot dropped.
LotHasInvoice_Never == FALSE

LotHasInvoice == \E i \in Invoices : rows[i] # NoRow

Created(due)       == [NoRow EXCEPT !.status = "AWAITING_PAYMENT",
                                    !.dueAt = due]
WithSession(row, p) == [row EXCEPT !.checkout = p]
PaidWith(row, p)   == [row EXCEPT !.status = "PAID", !.intent = p]
Expired(row)       == [row EXCEPT !.status = "EXPIRED"]
Cancelled(row)     == [row EXCEPT !.status = "CANCELLED"]
DueOn(row, due)    == [row EXCEPT !.dueAt = due]

-----------------------------------------------------------------------------
(***************************************************************************)
(* The use cases: what each awaits, in order.                              *)
(***************************************************************************)
CreateFlow   == [find |-> "save", save |-> "add", add |-> "publish",
                 publish |-> "done"]
CheckoutFlow == [find |-> "session", session |-> "save", save |-> "done"]

\* Fault: the payment is not announced.
SavedCardFlow_Silent == [find |-> "charge", charge |-> "save", save |-> "done",
                         publish |-> "done"]
SavedCardFlow == [find |-> "charge", charge |-> "save", save |-> "publish",
                  publish |-> "done"]
WebhookFlow   == [check |-> "find", find |-> "save", save |-> "record",
                  record |-> "remove", remove |-> "publish", publish |-> "done"]
ExpireFlow    == [find |-> "save", save |-> "publish", publish |-> "done"]
CancelFlow    == [find |-> "save", save |-> "remove", remove |-> "done"]
ExtendFlow    == [find |-> "save", save |-> "remove", remove |-> "add",
                  add |-> "done"]

Flow(kind) ==
  CASE kind = "create"    -> CreateFlow
    [] kind = "checkout"  -> CheckoutFlow
    [] kind = "savedCard" -> SavedCardFlow
    [] kind = "webhook"   -> WebhookFlow
    [] kind = "expire"    -> ExpireFlow
    [] kind = "cancel"    -> CancelFlow
    [] kind = "extend"    -> ExtendFlow

Steps == {"check", "find", "session", "charge", "save", "record", "remove",
          "add", "publish"}

\* `seen' is the invoice as it was read, `due' the new due date, `about' the
\* session a webhook reports.
Idle == [kind |-> "none", pc |-> "idle", invoice |-> None, seen |-> NoRow,
         due |-> 0, about |-> None]

Become(t, r) == task' = [task EXCEPT ![t] = r]

\* The handler returns ("done") or throws ("threw") and its locals are gone;
\* the worker knows the job it has still to report on.
Ended(t, how) ==
  [Idle EXCEPT !.pc = how,
               !.invoice = IF t = Worker THEN task[t].invoice ELSE None]

\* The handler goes on after its current await.
Onward(t) ==
  LET pc == Flow(task[t].kind)[task[t].pc]
  IN  IF pc = "done" THEN Ended(t, pc) ELSE [task[t] EXCEPT !.pc = pc]

Underway(t) == task[t].pc \in Steps

\* What the handler writes back: the row it has read, changed.
Written(t) ==
  LET row == task[t].seen
  IN  CASE task[t].kind = "create"    -> Created(task[t].due)
        [] task[t].kind = "checkout"  -> WithSession(row, t)
        [] task[t].kind = "savedCard" -> PaidWith(row, t)
        [] task[t].kind = "webhook"   -> PaidWith(row, task[t].about)
        [] task[t].kind = "expire"    -> Expired(row)
        [] task[t].kind = "cancel"    -> Cancelled(row)
        [] task[t].kind = "extend"    -> DueOn(row, task[t].due)

-----------------------------------------------------------------------------
(***************************************************************************)
(* What sets a handler off.                                                *)
(***************************************************************************)
\* A user pays, or asks to; an admin cancels or extends.
Begin(t, kind, i) ==
  /\ task[t].pc = "idle" /\ rows[i] # NoRow
  /\ \E due \in IF kind = "extend" THEN DueDates ELSE {0} :
       Become(t, [Idle EXCEPT !.kind = kind, !.pc = "find", !.invoice = i,
                              !.due = due])
  /\ UNCHANGED << rows, events, jobs, closed, payment, received, now, crashes >>

Arrive(t) ==
  \E kind \in Kinds \ {"webhook"}, i \in Invoices : Begin(t, kind, i)

\* Stripe reports a session that was paid, as often as it likes.
WebhookArrives(t) ==
  /\ "webhook" \in Kinds /\ task[t].pc = "idle"
  /\ \E p \in Requests :
       /\ payment[p].state = "completed"
       /\ Become(t, [Idle EXCEPT !.kind = "webhook", !.pc = "check",
                       !.invoice = payment[p].invoice, !.about = p])
  /\ UNCHANGED << rows, events, jobs, closed, payment, received, now, crashes >>

Deliver ==
  /\ task[Consumer].pc = "idle" /\ closed > 0
  /\ Become(Consumer, [Idle EXCEPT !.kind = "create", !.pc = "find"])
  /\ UNCHANGED << rows, events, jobs, closed, payment, received, now, crashes >>

TakeJob(i) ==
  /\ task[Worker].pc = "idle"
  /\ jobs[i].state = "waiting" \/ IsDue(jobs[i], now)
  /\ jobs' = [jobs EXCEPT ![i].state = "active"]
  /\ Become(Worker, [Idle EXCEPT !.kind = "expire", !.pc = "find",
                                 !.invoice = i])
  /\ UNCHANGED << rows, events, closed, payment, received, now, crashes >>
-----------------------------------------------------------------------------
(***************************************************************************)
(* The awaits of the use cases.                                            *)
(***************************************************************************)
\* findByLotId: a lot that has an invoice gets no second one.
FindLot ==
  /\ task[Consumer].pc = "find"
  /\ \/ /\ LotHasInvoice
        /\ Become(Consumer, Ended(Consumer, "done"))
     \/ /\ ~LotHasInvoice
        /\ \E i \in Invoices :
             /\ rows[i] = NoRow
             /\ Become(Consumer, [Onward(Consumer) EXCEPT
                                    !.invoice = i, !.due = now + Window])
  /\ UNCHANGED << rows, events, jobs, closed, payment, received, now, crashes >>

\* A webhook whose event is in payment_events is answered and ignored.
Check(t) ==
  /\ task[t].pc = "check"
  /\ Become(t, IF task[t].about \in events THEN Ended(t, "done") ELSE Onward(t))
  /\ UNCHANGED << rows, events, jobs, closed, payment, received, now, crashes >>

\* The admin's use cases throw what the others only answer.
Refused(t) ==
  Ended(t, IF task[t].kind \in {"cancel", "extend"} THEN "threw" ELSE "done")

\* findById and the conditions; a call by another user than the winner is
\* refused too.
Find(t) ==
  /\ t # Consumer /\ task[t].pc = "find"
  /\ LET row  == rows[task[t].invoice]
         kind == task[t].kind
         meet == /\ IsAwaitingPayment(row)
                 /\ kind = "extend" => task[t].due > row.dueAt
     IN  \/ meet /\ Become(t, [Onward(t) EXCEPT !.seen = row])
         \/ /\ ~meet \/ kind \in {"checkout", "savedCard"}
            /\ Become(t, Refused(t))
  /\ UNCHANGED << rows, events, jobs, closed, payment, received, now, crashes >>

\* Stripe creates a session whose metadata names the invoice.
OpenSession(t) ==
  /\ task[t].pc = "session"
  /\ \/ /\ payment' = [payment EXCEPT ![t] =
                         [state |-> "open", invoice |-> task[t].invoice]]
        /\ Become(t, Onward(t))
     \/ /\ StripeMayFail
        /\ payment' = payment
        /\ Become(t, Ended(t, "threw"))
  /\ UNCHANGED << rows, events, jobs, closed, received, now, crashes >>

Charged(t) == [payment EXCEPT ![t] =
                 [state |-> "charged", invoice |-> task[t].invoice]]

\* Fault: the status of the payment intent is not looked at.
Charge_AnyStatus(t) ==
  /\ task[t].pc = "charge"
  /\ payment' \in {payment, Charged(t)}
  /\ Become(t, Onward(t))
  /\ UNCHANGED << rows, events, jobs, closed, received, now, crashes >>

\* The saved card is charged, or there is none, or it is declined; a call
\* that throws may have charged it.
Charge(t) ==
  /\ task[t].pc = "charge"
  /\ \/ payment' = Charged(t) /\ Become(t, Onward(t))
     \/ payment' = payment /\ Become(t, Ended(t, "done"))
     \/ /\ StripeMayFail
        /\ payment' \in {payment, Charged(t)}
        /\ Become(t, Ended(t, "threw"))
  /\ UNCHANGED << rows, events, jobs, closed, received, now, crashes >>

\* INSERT ... ON CONFLICT (id) DO UPDATE, whatever the row has become.
Save(t) ==
  /\ task[t].pc = "save"
  /\ rows' = [rows EXCEPT ![task[t].invoice] = Written(t)]
  /\ Become(t, Onward(t))
  /\ UNCHANGED << events, jobs, closed, payment, received, now, crashes >>

\* Fault: stripe_event_id not unique.
Record_Again(t) ==
  /\ task[t].pc = "record"
  /\ events' = events \cup {task[t].about}
  /\ Become(t, Onward(t))
  /\ UNCHANGED << rows, jobs, closed, payment, received, now, crashes >>

\* savePaymentEvent: the unique stripe_event_id rejects a second row.
Record(t) ==
  /\ task[t].pc = "record"
  /\ events' = events \cup {task[t].about}
  /\ Become(t, IF task[t].about \in events THEN Ended(t, "threw") ELSE Onward(t))
  /\ UNCHANGED << rows, jobs, closed, payment, received, now, crashes >>

\* cancelExpiry: nothing without a job, an error while the job runs.
Remove(t) ==
  /\ task[t].pc = "remove"
  /\ LET i == task[t].invoice
     IN  \/ /\ Removable(jobs[i])
            /\ jobs' = [jobs EXCEPT ![i] = NoJob]
            /\ Become(t, Onward(t))
         \/ /\ MayRefuse(jobs[i])
            /\ jobs' = jobs
            /\ Become(t, Ended(t, "threw"))
  /\ UNCHANGED << rows, events, closed, payment, received, now, crashes >>

\* scheduleExpiry: the release of BullMQ that is locked takes no custom id with
\* a colon, as expiry:<invoice> is, and throws.
Add(t) ==
  /\ task[t].pc = "add"
  /\ \/ /\ ~IdRefused
        /\ jobs' = [jobs EXCEPT ![task[t].invoice] = Added(@, task[t].due, now)]
        /\ Become(t, Onward(t))
     \/ /\ IdRefused \/ QueueMayFail
        /\ jobs' = jobs
        /\ Become(t, Ended(t, "threw"))
  /\ UNCHANGED << rows, events, closed, payment, received, now, crashes >>

\* The payment a handler announces.
Announces(t) ==
  CASE task[t].kind = "savedCard" -> {t}
    [] task[t].kind = "webhook"   -> {task[t].about}
    [] OTHER                      -> {}

\* publish: payment.received is counted.  It throws with the message sent
\* (backpressure) or lost.
Publish(t) ==
  /\ task[t].pc = "publish"
  /\ LET sent == [p \in Requests |->
                    received[p] + IF p \in Announces(t) THEN 1 ELSE 0]
     IN  \/ received' = sent /\ Become(t, Onward(t))
         \/ /\ BrokerMayFail
            /\ received' \in {sent, received}
            /\ Become(t, Ended(t, "threw"))
  /\ UNCHANGED << rows, events, jobs, closed, payment, now, crashes >>

-----------------------------------------------------------------------------
\* Acknowledged, or rejected without requeueing: either way the message is gone.
Settle ==
  /\ task[Consumer].pc \in {"done", "threw"}
  /\ closed' = closed - 1
  /\ Become(Consumer, Idle)
  /\ UNCHANGED << rows, events, jobs, payment, received, now, crashes >>

FinishJob ==
  /\ task[Worker].pc \in {"done", "threw"}
  /\ jobs' = [jobs EXCEPT ![task[Worker].invoice].state =
                IF task[Worker].pc = "done" THEN "completed" ELSE "failed"]
  /\ Become(Worker, Idle)
  /\ UNCHANGED << rows, events, closed, payment, received, now, crashes >>

\* A customer who was given the URL of a session pays on Stripe's page,
\* whatever has become of the invoice.
PayOnPage(p) ==
  /\ payment[p].state = "open" /\ task[p].pc = "done"
  /\ payment' = [payment EXCEPT ![p].state = "completed"]
  /\ UNCHANGED << rows, events, task, jobs, closed, received, now, crashes >>

RecoverStalled(i) ==
  /\ jobs[i].state = "orphaned"
  /\ jobs' = [jobs EXCEPT ![i] = PutBack(@)]
  /\ UNCHANGED << rows, events, task, closed, payment, received, now, crashes >>

\* The process dies and restarts: handlers are lost between two awaits, the
\* message under way is delivered again, the job under way is left active.
Crash ==
  /\ crashes < MaxCrashes
  /\ crashes' = crashes + 1
  /\ task' = [t \in Handlers |->
                IF t \in {Consumer, Worker} THEN Idle
                ELSE IF Underway(t) THEN Ended(t, "threw") ELSE task[t]]
  /\ jobs' = [i \in Invoices |->
                IF jobs[i].state = "active" THEN [jobs[i] EXCEPT !.state = "orphaned"]
                ELSE jobs[i]]
  /\ UNCHANGED << rows, events, closed, payment, received, now >>

Tick ==
  /\ \/ now < MaxTime
     \/ \E i \in Invoices : jobs[i].state = "delayed" /\ now < jobs[i].due
  /\ now' = now + 1
  /\ UNCHANGED << rows, events, task, jobs, closed, payment, received, crashes >>

-----------------------------------------------------------------------------
Init ==
  /\ rows = [i \in Invoices |-> NoRow]
  /\ events = {}
  /\ task = [t \in Handlers |-> Idle]
  /\ jobs = [i \in Invoices |-> NoJob]
  /\ closed = Closings
  /\ payment = [p \in Requests |-> [state |-> "none", invoice |-> None]]
  /\ received = [p \in Requests |-> 0]
  /\ now = 0
  /\ crashes = 0

Call(t) == OpenSession(t) \/ Charge(t) \/ Save(t) \/ Record(t)
           \/ Remove(t) \/ Add(t) \/ Publish(t)

HandlerStep(t) == Check(t) \/ Find(t) \/ Call(t)

\* What happens to the service by itself.
ServiceStep ==
  \/ \E t \in Requests : WebhookArrives(t)
  \/ Deliver \/ FindLot \/ Settle
  \/ \E i \in Invoices : TakeJob(i) \/ RecoverStalled(i)
  \/ \E t \in Handlers : HandlerStep(t)
  \/ FinishJob
  \/ \E p \in Requests : PayOnPage(p)
  \/ Crash
  \/ Tick

Next == ServiceStep \/ \E t \in Requests : Arrive(t)

Spec == Init /\ [][Next]_vars
=============================================================================
