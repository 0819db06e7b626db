-------------------------------- MODULE Sale --------------------------------
(***************************************************************************)
(* A sale from its closing to the hand-over: the payment service with the  *)
(* winner's page of the invoice, and the shipping service, with the        *)
(* message bus between them.  Each service's step leaves the other's state *)
(* alone; payment.received goes from one's publisher to the other's queue. *)
(***************************************************************************)
EXTENDS InvoicePage

CONSTANTS
  Fulfilments, Calls, Winners, Admin, MaxStops, DbMayFail,
  Winner       \* who won the lot

VARIABLES fulfilments, details, call, creating, inbox, dropped, offered, torn, stops

Ship == INSTANCE Shipping WITH Payments <- Requests

ASSUME SaleAssumption == Winner \in Winners

saleVars == << vars, pageVars, Ship!shippingVars >>

-----------------------------------------------------------------------------
\* The exchange carat.events is durable and so is the queue: what the
\* publisher sends is in the queue, once for each time it is sent.
Relay ==
  inbox' = [p \in Requests |-> inbox[p] + received'[p] - received[p]]

PaymentStep ==
  /\ InvoicePageNext
  /\ Relay
  /\ UNCHANGED << fulfilments, details, call, creating, dropped, offered,
               torn, stops >>

DeliverPayment(p) ==
  /\ Ship!Receive(p, Winner)
  /\ UNCHANGED << vars, pageVars >>

ShippingStep ==
  /\ Ship!ShippingStep
  /\ UNCHANGED << vars, pageVars >>

SaleInit == InvoicePageInit /\ Ship!ShippingInit(0)

SaleNext ==
  \/ PaymentStep
  \/ ShippingStep
  \/ \E p \in Requests : DeliverPayment(p)

SaleSpec == SaleInit /\ [][SaleNext]_saleVars

\* A service's step, taken as a step of the sale.
PaymentTakes(step) ==
  step /\ Relay
  /\ UNCHANGED << pageVars, fulfilments, details, call, creating, dropped, offered,
               torn, stops >>

ShippingTakes(step) == step /\ UNCHANGED << vars, pageVars >>

\* What the payment service goes on with, once begun.
PaymentGoesOn ==
  \/ \E t \in Handlers : HandlerStep(t)
  \/ Deliver \/ FindLot \/ Settle
  \/ \E i \in Invoices : TakeJob(i) \/ RecoverStalled(i)
  \/ FinishJob
  \/ Tick

\* Both services go on with what they have begun, the bus delivers, and the
\* clock runs; nobody has to call, choose, pay or crash.  Every handler is a
\* few steps long, so that none can keep another waiting for ever.
SaleFairness ==
  /\ WF_saleVars(PaymentTakes(PaymentGoesOn))
  /\ WF_saleVars(ShippingTakes(Ship!ConsumerStep \/ \E t \in Calls : Ship!CallStep(t)))
  /\ WF_saleVars(\E p \in Requests : DeliverPayment(p))

FairSaleSpec == SaleSpec /\ SaleFairness
=============================================================================
