--------------------------- MODULE SaleProperties ---------------------------
(***************************************************************************)
(* What a winner who has paid is owed by the two services together.        *)
(***************************************************************************)
EXTENDS Sale, PaymentProperties

\* The winner's saved card is charged once, and at most once more for each time
\* the page was loaded again while it said "Processing...", a lost answer or a
\* dead service being among the reasons, and for each time an admin put off the
\* due date: the page's buttons and the service's condition see to it together.
ChargedOnce ==
  Cardinality({p \in Requests : payment[p].state = "charged"})
    <= 1 + reloads + extends

FulfilmentsOf(p) == {f \in Fulfilments : fulfilments[f].payment = p}

\* A payment has one fulfilment, and at most one more for each time the
\* shipping service died with the message of the payment unacknowledged.
OneFulfilment ==
  \A p \in Requests : Cardinality(FulfilmentsOf(p)) <= received[p] + stops

\* Money that was charged leads to a fulfilment, the consumer dying at any
\* await included, unless Stripe's answer was lost, or the database failed and
\* the message was dropped.
FulfilmentFollows ==
  \A p \in Requests :
    payment[p].state = "charged" ~>
      FulfilmentsOf(p) # {} \/ p \in dropped \/ task[p].pc = "threw"

-----------------------------------------------------------------------------
\* The inductive invariant behind ChargedOnce: who has charged the card, or may
\* yet lead to a charge, is counted, and a charge is counted before it is made.

InvoiceAwaits == \E i \in Invoices : rows[i].status = "AWAITING_PAYMENT"

\* A call that has charged nothing, and may still charge the card or write the
\* invoice back as it was, awaiting payment.
MayLeadOn(t) ==
  \/ task[t].kind = "savedCard" /\ task[t].pc \in {"find", "charge"}
  \/ /\ task[t].kind \in {"checkout", "extend"}
     /\ task[t].pc \in {"find", "session", "save"}

\* The calls that have charged, and those that may lead to a charge and that the
\* page does not wait for: an admin's, and what went on behind a reload.
Spending ==
  {t \in Requests : \/ payment[t].state = "charged"
                    \/ t # page.call /\ MayLeadOn(t)}

\* The page waits for a call that has charged, or for an answer that it cannot
\* read.
Stuck ==
  /\ page.call # None /\ page.kind = "savedCard"
  /\ task[page.call].pc \in {"save", "threw"}

\* The call the page waits for may lead to a charge, or the next one may.
PageMayCharge ==
  \/ InvoiceAwaits /\ ~Stuck
  \/ page.call # None /\ MayLeadOn(page.call) /\ task[page.call].pc # "find"

PageInv ==
  /\ reloads \in Nat /\ extends \in Nat
  /\ page.call # None =>
       /\ page.call \in Requests /\ page.kind \in {"savedCard", "checkout"}
       /\ task[page.call].pc # "idle"
       /\ Underway(page.call) => task[page.call].kind = page.kind

\* What a checkout has opened at Stripe is a session.
CheckoutInv(t) ==
  Underway(t) /\ task[t].kind = "checkout" => payment[t].state # "charged"

SpendingInv ==
  /\ IsFiniteSet(Spending)
  /\ Cardinality(Spending) + (IF PageMayCharge THEN 1 ELSE 0)
       <= 1 + reloads + extends

ChargeSound ==
  /\ PageInv
  /\ \A t \in Requests : CheckoutInv(t)
  /\ SpendingInv

-----------------------------------------------------------------------------
\* The inductive invariant behind OneFulfilment.

\* What the shipping service keeps of payments, and who is working on it.
SaleTypes ==
  /\ stops \in Nat
  /\ inbox \in [Requests -> Nat]
  /\ fulfilments \in [Fulfilments -> Ship!Fulfilment]
  /\ call \in [Calls -> Ship!CallState]
  /\ creating \in [pc : {"idle", "save", "ack", "nack"},
                   payment : Requests \cup {None}, user : Winners \cup {None}]

\* The message under way is in the queue until it is settled.
MessageInv ==
  creating.pc # "idle" =>
    creating.payment \in Requests /\ inbox[creating.payment] > 0

\* Every fulfilment that exists is of a payment.
PaidFor ==
  \A f \in Fulfilments :
    fulfilments[f] # Ship!NoFulfilment => fulfilments[f].payment # None

\* A call works on a fulfilment that exists, and the row it will write back,
\* however old, is of the same payment.
CallKeepsPayment(t) ==
  LET c == call[t] IN
    /\ c.pc \in {"find", "save"} =>
         /\ c.kind # "none"
         /\ c.fulfilment \in Fulfilments
         /\ fulfilments[c.fulfilment].payment # None
    /\ c.pc = "save" =>
         c.seen.payment = fulfilments[c.fulfilment].payment

\* The message that led to a fulfilment is as good as gone, unless the service
\* dies before it says so.
Acknowledging(p) == creating.pc = "ack" /\ creating.payment = p

CreatedInv(p) ==
  /\ IsFiniteSet(FulfilmentsOf(p))
  /\ Cardinality(FulfilmentsOf(p)) + inbox[p]
       <= received[p] + stops + IF Acknowledging(p) THEN 1 ELSE 0

SaleSound ==
  /\ SaleTypes /\ MessageInv /\ PaidFor
  /\ \A t \in Calls : CallKeepsPayment(t)
  /\ \A p \in Requests : CreatedInv(p)
=============================================================================
