-------------------------- MODULE PaymentProperties --------------------------
(***************************************************************************)
(* What the payment service owes the winner, the house and the services    *)
(* that listen to it.                                                      *)
(***************************************************************************)
EXTENDS Payment

Task == [kind : Kinds \cup {"create", "expire", "none"},
         pc : Steps \cup {"idle", "done", "threw"},
         invoice : Invoices \cup {None}, seen : InvoiceRow, due : Nat,
         about : Payments]

\* The variables have the types the code gives them.
TypeOK ==
  /\ rows \in [Invoices -> InvoiceRow]
  /\ events \subseteq Requests
  /\ task \in [Handlers -> Task]
  /\ jobs \in [Invoices -> Job]
  /\ closed \in Nat
  /\ payment \in [Requests -> [state : {"none", "open", "completed", "charged"},
                               invoice : Invoices \cup {None}]]
  /\ received \in [Requests -> Nat]
  /\ now \in Nat /\ crashes \in Nat

MoneyTaken(p) == payment[p].state \in {"completed", "charged"}

\* However often auction.closed is delivered, the consumer dying at any await
\* included, the lot has one invoice.
OneInvoice ==
  \A i, j \in Invoices : rows[i] # NoRow /\ rows[j] # NoRow => i = j

\* An invoice that is PAID names a payment, an invoice that names a payment is
\* PAID, and that payment's money was taken for this very invoice, whichever
\* handlers have written old rows back.
PaidMeansPaid ==
  \A i \in Invoices :
    LET p == rows[i].intent
    IN  /\ rows[i].status = "PAID" <=> p # None
        /\ p # None => MoneyTaken(p) /\ payment[p].invoice = i

\* payment.received tells of money that was taken, and tells it once for each
\* payment, over repeated, concurrent and retried webhooks.
ReceivedOnce ==
  \A p \in Requests : /\ received[p] <= 1
                      /\ received[p] = 1 => MoneyTaken(p)

\* A handler that read the invoice before it was settled.
Outdated(t, i) ==
  /\ Underway(t)
  /\ task[t].invoice = i
  /\ task[t].seen.status = "AWAITING_PAYMENT"

\* A settled invoice is final for everyone who reads it settled: it changes
\* only while a handler is under way that had read it awaiting payment.
SettledStands ==
  [][\A i \in Invoices :
       /\ rows[i].status \in {"PAID", "EXPIRED", "CANCELLED"}
       /\ rows'[i] # rows[i]
       => \E t \in Handlers : Outdated(t, i)]_vars

\* An invoice does not await payment for ever: somebody pays or cancels, or the
\* delayed job marks it expired, as plan 05 has it, unless a checkout that had
\* read it awaiting payment writes it back when the job has gone.
AwaitingSettles ==
  \A i \in Invoices :
    rows[i].status = "AWAITING_PAYMENT" ~>
      \/ rows[i].status # "AWAITING_PAYMENT"
      \/ rows[i].checkout # None /\ jobs[i].state \in {"absent", "completed"}

-----------------------------------------------------------------------------
\* The inductive invariant of Payment.  A handler holds a copy of the invoice
\* that may be old; what it may still believe of the table, of Stripe and of the
\* events recorded is what makes its writing the copy back, and its
\* announcement, no worse than late.

\* The use cases a handler runs.
KindsOf(t) ==
  CASE t = Consumer -> {"create"}
    [] t = Worker   -> {"expire"}
    [] OTHER        -> Kinds

Taken(how, i) == [state |-> how, invoice |-> i]

\* The consumer is a while without an invoice, and then with one that is not
\* yet saved; everybody else has one that is in the table.
InvoiceInv(t) ==
  LET k == task[t] IN
    /\ Underway(t) /\ ~(t = Consumer /\ k.pc = "find") => k.invoice \in Invoices
    /\ Underway(t) /\ (t # Consumer \/ k.pc \in {"add", "publish"}) =>
         rows[k.invoice] # NoRow
    /\ t = Consumer /\ k.pc = "save" => \A i \in Invoices : rows[i] = NoRow
    /\ t = Consumer /\ k.pc # "idle" => closed > 0
    /\ t = Worker /\ k.pc # "idle" =>
         k.invoice \in Invoices /\ rows[k.invoice] # NoRow

\* The copy a handler will write back awaited payment when it was read, and a
\* handler that writes PAID has a payment of this invoice to show for it.
CopyInv(t) ==
  LET k == task[t] IN
    Underway(t) =>
      /\ k.kind \in KindsOf(t) /\ k.pc \in DOMAIN Flow(k.kind)
      /\ t # Consumer /\ k.pc \notin {"check", "find"} =>
           k.seen.status = "AWAITING_PAYMENT" /\ k.seen.intent = None
      /\ k.kind = "webhook" =>
           k.about \in Requests /\ payment[k.about] = Taken("completed", k.invoice)
      /\ k.kind = "savedCard" /\ k.pc \in {"save", "publish"} =>
           payment[t] = Taken("charged", k.invoice)

\* A payment is of an invoice in the table, and is made once: its request is
\* past the call to Stripe.
MadeInv(p) ==
  payment[p].state # "none" =>
    /\ payment[p].invoice \in Invoices /\ rows[payment[p].invoice] # NoRow
    /\ task[p].pc \in {"save", "publish", "done", "threw"}
    /\ Underway(p) => task[p].kind \in {"checkout", "savedCard"}

TableInv ==
  /\ \A i \in Invoices : /\ rows[i].status = "ABSENT" => rows[i] = NoRow
                         /\ jobs[i].state # "absent" => rows[i] # NoRow
  /\ OneInvoice /\ PaidMeansPaid

\* The webhook handler that recorded p and has still to announce it.
Announcing(t, p) ==
  task[t].kind = "webhook" /\ task[t].about = p
    /\ task[t].pc \in {"remove", "publish"}

\* A payment is announced by whoever recorded it, or by the request that
\* charged it, and by nobody else.
AnnouncedInv(p) ==
  /\ p \in events => payment[p].state = "completed"
  /\ received[p] # 0 =>
       /\ received[p] = 1
       /\ \/ p \in events
          \/ payment[p].state = "charged" /\ ~Underway(p)
  /\ \A t \in Handlers : Announcing(t, p) =>
       /\ p \in events /\ received[p] = 0
       /\ \A u \in Handlers : Announcing(u, p) => u = t

PaymentSound ==
  /\ TypeOK
  /\ \A t \in Handlers : InvoiceInv(t) /\ CopyInv(t)
  /\ \A p \in Requests : MadeInv(p) /\ AnnouncedInv(p)
  /\ TableInv
=============================================================================
