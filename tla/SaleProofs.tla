----------------------------- MODULE SaleProofs -----------------------------
(***************************************************************************)
(* The sale is made of its two services: what is true of the payment       *)
(* service alone stays true in it, and a payment is fulfilled once but for *)
(* the deaths of the shipping service.                                     *)
(***************************************************************************)
EXTENDS SaleProperties, PaymentProofs, FiniteSetTheorems

-----------------------------------------------------------------------------
(***************************************************************************)
(* The page and the admin make only calls that the payment service takes.  *)
(***************************************************************************)

LEMMA PageStepIsPaymentStep ==
  ASSUME InvoicePageNext
  PROVE  [Next]_vars
<1>1. ASSUME NEW t \in Requests, NEW kind \in {"savedCard", "checkout"}, Pay(t, kind)
      PROVE  Next
  BY <1>1 DEF Pay, Next, Arrive
<1>2. ASSUME NEW t \in Requests, AdminActs(t)
      PROVE  Next
  BY <1>2 DEF AdminActs, AdminCalls, Next, Arrive
<1>3. ASSUME \/ \E t \in Requests : Answered(t)
             \/ Reload
      PROVE  UNCHANGED vars
  BY <1>3 DEF Answered, Reload
<1> QED BY <1>1, <1>2, <1>3
        DEF InvoicePageNext, CustomerStep, PaySavedCard, PayByCheckout, Next

LEMMA SaleStepIsPaymentStep ==
  ASSUME [SaleNext]_saleVars
  PROVE  [Next]_vars
<1>1. CASE PaymentStep
  BY <1>1, PageStepIsPaymentStep DEF PaymentStep
<1>2. ASSUME \/ ShippingStep \/ \E p \in Requests : DeliverPayment(p)
             \/ UNCHANGED saleVars
      PROVE  UNCHANGED vars
  BY <1>2 DEF ShippingStep, DeliverPayment, saleVars
<1> QED BY <1>1, <1>2 DEF SaleNext

\* The sale implements the payment service: the winner's page, the admin's
\* table, the bus and the shipping service make it do nothing that it does not
\* do alone.
THEOREM SaleImplementsPayment == SaleSpec => Spec
<1>1. SaleInit => Init
  BY DEF SaleInit, InvoicePageInit
<1>2. [SaleNext]_saleVars => [Next]_vars
  BY SaleStepIsPaymentStep
<1> QED BY <1>1, <1>2, PTL DEF SaleSpec, Spec

\* So what it never gets wrong alone it never gets wrong in a sale.
THEOREM SalePaymentSound == SaleSpec => []PaymentSound
BY SaleImplementsPayment, PaymentAlwaysSound, PTL

-----------------------------------------------------------------------------
(***************************************************************************)
(* Payments and their fulfilments.                                         *)
(***************************************************************************)

\* What is sent to the shipping service is in its queue.
LEMMA RelayFills ==
  ASSUME SaleTypes, PaymentSound, PaymentSound', Relay
  PROVE  \A p \in Requests : inbox'[p] = inbox[p] + received'[p] - received[p]
BY DEF Relay

LEMMA ReceivedGrows ==
  ASSUME PaymentSound, [Next]_vars, NEW p \in Requests
  PROVE  received'[p] >= received[p] /\ received[p] \in Nat /\ received'[p] \in Nat
<1>0. TypeOK
  BY DEF PaymentSound
<1>1. received[p] \in Nat
  BY <1>0 DEF TypeOK
<1>2. ASSUME NEW t \in Handlers, Publish(t)
      PROVE  received'[p] \in {received[p], received[p] + 1}
  BY <1>0, <1>1, <1>2 DEF Publish, TypeOK
<1>3. received'[p] = received[p] \/ \E t \in Handlers : Publish(t)
  <2>1. ASSUME NEW t \in Handlers, HandlerStep(t)
        PROVE  Publish(t) \/ received' = received
    BY <2>1 DEF HandlerStep, Call, Check, Find, OpenSession, Charge, Save,
                Record, Remove, Add
  <2>2. ASSUME NEW t \in Requests, Arrive(t) \/ WebhookArrives(t)
        PROVE  received' = received
    BY <2>2 DEF Arrive, Begin, WebhookArrives
  <2>3. ASSUME \/ Deliver \/ FindLot \/ Settle \/ FinishJob \/ Crash \/ Tick
               \/ \E i \in Invoices : TakeJob(i) \/ RecoverStalled(i)
               \/ \E q \in Requests : PayOnPage(q)
               \/ UNCHANGED vars
        PROVE  received' = received
    BY <2>3 DEF Deliver, FindLot, Settle, FinishJob, Crash, Tick, TakeJob,
                RecoverStalled, PayOnPage, vars
  <2> QED BY <2>1, <2>2, <2>3 DEF Next, ServiceStep
<1> QED BY <1>1, <1>2, <1>3

LEMMA CountType ==
  ASSUME SaleSound, PaymentSound, NEW p \in Requests
  PROVE  /\ IsFiniteSet(FulfilmentsOf(p)) /\ Cardinality(FulfilmentsOf(p)) \in Nat
         /\ inbox[p] \in Nat /\ stops \in Nat /\ received[p] \in Nat
         /\ Cardinality(FulfilmentsOf(p)) + inbox[p]
              <= received[p] + stops + IF Acknowledging(p) THEN 1 ELSE 0
BY FS_CardinalityType DEF SaleSound, SaleTypes, CreatedInv, PaymentSound, TypeOK

LEMMA SaleCallStands ==
  ASSUME SaleSound, UNCHANGED fulfilments, NEW t \in Calls, call'[t] = call[t]
  PROVE  CallKeepsPayment(t)'
BY DEF SaleSound, CallKeepsPayment

LEMMA SaleIdle ==
  ASSUME NEW t \in Calls, call'[t] = Ship!NoCall
  PROVE  CallKeepsPayment(t)'
BY DEF CallKeepsPayment, Ship!NoCall

\* The payment service only adds messages, one for each that it sent.
LEMMA PaymentStepSound ==
  ASSUME SaleSound, PaymentSound, PaymentSound', PaymentStep
  PROVE  SaleSound'
<1>1. UNCHANGED << fulfilments, call, creating, stops >> /\ Relay
  BY DEF PaymentStep
<1>2. [Next]_vars
  BY PageStepIsPaymentStep DEF PaymentStep
<1>3. \A p \in Requests : /\ inbox'[p] = inbox[p] + received'[p] - received[p]
                          /\ inbox'[p] \in Nat /\ inbox'[p] >= inbox[p]
  <2>1. ASSUME NEW p \in Requests
        PROVE  /\ inbox'[p] = inbox[p] + received'[p] - received[p]
               /\ inbox'[p] \in Nat /\ inbox'[p] >= inbox[p]
    BY <1>1, <1>2, RelayFills, ReceivedGrows, CountType DEF SaleSound
  <2> QED BY <2>1
<1>4. SaleTypes'
  <2>1. inbox' \in [Requests -> Nat]
    BY <1>1, <1>3 DEF Relay
  <2> QED BY <1>1, <2>1 DEF SaleSound, SaleTypes
<1>5. MessageInv' /\ PaidFor'
  <2>1. \A p \in Requests : inbox[p] \in Nat
    BY CountType
  <2> QED BY <1>1, <1>3, <2>1 DEF SaleSound, MessageInv, PaidFor
<1>6. \A t \in Calls : CallKeepsPayment(t)'
  BY <1>1, SaleCallStands
<1>7. ASSUME NEW p \in Requests
      PROVE  CreatedInv(p)'
  <2>1. FulfilmentsOf(p)' = FulfilmentsOf(p) /\ Acknowledging(p)' = Acknowledging(p)
    BY <1>1 DEF FulfilmentsOf, Acknowledging
  <2> DEFINE n == Cardinality(FulfilmentsOf(p))
             d == IF Acknowledging(p) THEN 1 ELSE 0
  <2>2. n \in Nat /\ d \in Nat /\ n + inbox[p] <= received[p] + stops + d
    BY CountType
  <2>3. n + inbox'[p] <= received'[p] + stops + d
    BY <1>2, <1>3, <2>2, CountType, ReceivedGrows
  <2> QED BY <1>1, <2>1, <2>3, CountType DEF CreatedInv
<1> QED BY <1>4, <1>5, <1>6, <1>7 DEF SaleSound

\* A step of the shipping service that makes no fulfilment and leaves the
\* consumer alone keeps the count.
LEMMA SameCount ==
  ASSUME SaleSound, PaymentSound, UNCHANGED << inbox, stops, received, creating >>,
         \A p \in Requests : FulfilmentsOf(p)' = FulfilmentsOf(p)
  PROVE  \A p \in Requests : CreatedInv(p)'
BY DEF SaleSound, CreatedInv, Acknowledging

LEMMA SaleCallMoves ==
  ASSUME SaleSound, NEW t \in Calls, NEW r, Ship!Goes(t, r)
  PROVE  /\ call'[t] = r
         /\ \A u \in Calls : u # t => call'[u] = call[u]
         /\ r \in Ship!CallState => call' \in [Calls -> Ship!CallState]
BY DEF SaleSound, SaleTypes, Ship!Goes

LEMMA SaleRestTypes ==
  /\ Ship!NoFulfilment \in Ship!Fulfilment
  /\ Ship!NoCall \in Ship!CallState
BY DEF Ship!NoFulfilment, Ship!Fulfilment, Ship!NoCall, Ship!CallState

\* A call that writes nothing over a row.
LEMMA SaleCallReads ==
  ASSUME SaleSound, PaymentSound, NEW t \in Calls, UNCHANGED vars,
         NEW r \in Ship!CallState, Ship!Goes(t, r),
         CallKeepsPayment(t)',
         UNCHANGED << fulfilments, inbox, stops, creating >>
  PROVE  SaleSound'
<1>1. /\ call' \in [Calls -> Ship!CallState]
      /\ \A u \in Calls : u # t => call'[u] = call[u]
  BY SaleCallMoves
<1>2. SaleTypes' /\ MessageInv' /\ PaidFor'
  BY <1>1 DEF SaleSound, SaleTypes, MessageInv, PaidFor
<1>3. \A u \in Calls : CallKeepsPayment(u)'
  BY <1>1, SaleCallStands
<1>4. \A p \in Requests : CreatedInv(p)'
  BY SameCount DEF FulfilmentsOf, vars
<1> QED BY <1>2, <1>3, <1>4 DEF SaleSound

\* What the page asks for is a fulfilment that exists.
LEMMA SaleRequest ==
  ASSUME SaleSound, PaymentSound, NEW t \in Calls, UNCHANGED vars,
         Ship!Request(t)
  PROVE  SaleSound'
<1>1. UNCHANGED << fulfilments, inbox, stops, creating >>
  BY DEF Ship!Request
<1>2. PICK f \in Fulfilments, kind \in {"ship", "collect", "dispatch", "collected"},
           u \in Winners \cup {Admin} :
        /\ fulfilments[f] # Ship!NoFulfilment
        /\ Ship!Asks(t, kind, f, u)
  BY DEF Ship!Request, Ship!FulfilmentPage, Ship!ChooseShipRoute,
         Ship!ChooseCollectRoute, Ship!DispatchRoute, Ship!CollectRoute,
         Ship!UserRoute, Ship!AdminRoute, Ship!Known
<1> DEFINE r == [Ship!NoCall EXCEPT !.kind = kind, !.pc = "find",
                                    !.fulfilment = f, !.user = u]
<1>3. Ship!Goes(t, r)
  BY <1>2 DEF Ship!Asks
<1>4. r \in Ship!CallState
  BY SaleRestTypes
     DEF Ship!NoCall, Ship!CallState, Ship!Choices, Ship!HandOvers
<1>5. fulfilments[f].payment # None
  BY <1>2 DEF SaleSound, PaidFor
<1>6. /\ call'[t] = r /\ r.pc = "find" /\ r.kind = kind /\ r.fulfilment = f
  BY <1>3, SaleCallMoves DEF Ship!NoCall
<1> HIDE DEF r
<1>7. CallKeepsPayment(t)'
  BY <1>1, <1>5, <1>6 DEF CallKeepsPayment
<1> QED BY <1>1, <1>3, <1>4, <1>7, SaleCallReads

\* findById keeps the row for later, and whose payment it is stays so.
LEMMA SaleFind ==
  ASSUME SaleSound, PaymentSound, NEW t \in Calls, UNCHANGED vars,
         Ship!Find(t)
  PROVE  SaleSound'
<1> DEFINE c == call[t]
           row == fulfilments[c.fulfilment]
           r == [c EXCEPT !.pc = "save", !.seen = row]
<1>1. /\ UNCHANGED << fulfilments, inbox, stops, creating >>
      /\ c.pc = "find" /\ c \in Ship!CallState /\ CallKeepsPayment(t)
  BY DEF Ship!Find, SaleSound, SaleTypes
<1>2. /\ c.kind # "none" /\ c.fulfilment \in Fulfilments
      /\ row \in Ship!Fulfilment /\ row.payment # None
  BY <1>1 DEF CallKeepsPayment, SaleSound, SaleTypes
<1>3. r \in Ship!CallState
  BY <1>1, <1>2 DEF Ship!CallState
<1>4. CASE Ship!Goes(t, r)
  <2>1. /\ r.pc = "save" /\ r.kind = c.kind
        /\ r.fulfilment = c.fulfilment /\ r.seen = row
    BY <1>1 DEF Ship!CallState
  <2>2. call'[t] = r
    BY <1>4, SaleCallMoves
  <2> HIDE DEF r
  <2>3. CallKeepsPayment(t)'
    BY <1>1, <1>2, <2>1, <2>2 DEF CallKeepsPayment
  <2> QED BY <1>1, <1>3, <1>4, <2>3, SaleCallReads
<1>5. CASE Ship!Goes(t, Ship!NoCall)
  BY <1>1, <1>5, SaleCallMoves, SaleIdle, SaleCallReads, SaleRestTypes
<1> QED BY <1>4, <1>5 DEF Ship!Find, Ship!Answer

\* The second statement of a choice, and every statement that throws, end the
\* call.
LEMMA SaleCallEnds ==
  ASSUME SaleSound, PaymentSound, NEW t \in Calls, UNCHANGED vars,
         \/ Ship!SaveDetail(t)
         \/ Ship!Save(t) /\ fulfilments' = fulfilments /\ Ship!Throws(t)
  PROVE  SaleSound'
<1>1. /\ UNCHANGED << fulfilments, inbox, stops, creating >>
      /\ Ship!Goes(t, Ship!NoCall)
  BY DEF Ship!SaveDetail, Ship!Save, Ship!Throws, Ship!Answer
<1> QED BY <1>1, SaleCallMoves, SaleIdle, SaleCallReads, SaleRestTypes

\* An old row that is written back is of the same payment.
LEMMA SaleSave ==
  ASSUME SaleSound, PaymentSound, NEW t \in Calls, UNCHANGED vars,
         Ship!Save(t), ~(fulfilments' = fulfilments /\ Ship!Throws(t))
  PROVE  SaleSound'
<1> DEFINE c == call[t]
           w == Ship!Written(t)
           r == Ship!AfterSave(t)
<1>1. /\ UNCHANGED << inbox, stops, creating >>
      /\ c.pc = "save" /\ c \in Ship!CallState /\ CallKeepsPayment(t)
      /\ fulfilments' = [fulfilments EXCEPT ![c.fulfilment] = w]
      /\ Ship!Goes(t, r)
  BY DEF Ship!Save, SaleSound, SaleTypes
<1>2. PICK g \in Fulfilments : g = c.fulfilment
  BY <1>1 DEF CallKeepsPayment
<1>3. /\ w \in Ship!Fulfilment /\ w.payment = fulfilments[g].payment
      /\ fulfilments[g].payment # None
  <2>1. /\ c.seen \in Ship!Fulfilment /\ c.seen.payment = fulfilments[g].payment
        /\ c.kind \in {"ship", "collect", "dispatch", "collected"}
        /\ fulfilments[g].payment # None
    BY <1>1, <1>2
       DEF CallKeepsPayment, Ship!CallState, Ship!Choices, Ship!HandOvers
  <2>2. \/ w = Ship!ChosenShip(c.seen) \/ w = Ship!ChosenCollect(c.seen)
        \/ w = Ship!MarkedDispatched(c.seen) \/ w = Ship!MarkedCollected(c.seen)
    BY <2>1 DEF Ship!Written
  <2> HIDE DEF w
  <2>3. w \in Ship!Fulfilment /\ w.payment = c.seen.payment
    BY <2>1, <2>2 DEF Ship!ChosenShip, Ship!ChosenCollect,
       Ship!MarkedDispatched, Ship!MarkedCollected, Ship!Fulfilment,
       Ship!FulfilmentStatus, Ship!FulfilmentMethod
  <2> QED BY <2>1, <2>3
<1>4. r \in Ship!CallState /\ r.pc \in {"idle", "detail"}
  BY <1>1, SaleRestTypes DEF Ship!AfterSave, Ship!CallState, Ship!NoCall
<1>5. /\ call'[t] = r /\ call' \in [Calls -> Ship!CallState]
      /\ \A u \in Calls : u # t => call'[u] = call[u]
  BY <1>1, <1>4, SaleCallMoves
<1> HIDE DEF w, r
<1>6. /\ fulfilments' \in [Fulfilments -> Ship!Fulfilment]
      /\ \A f \in Fulfilments : fulfilments'[f].payment = fulfilments[f].payment
      /\ \A f \in Fulfilments : f # g => fulfilments'[f] = fulfilments[f]
  BY <1>1, <1>2, <1>3 DEF SaleSound, SaleTypes
<1>7. SaleTypes' /\ MessageInv' /\ PaidFor'
  BY <1>1, <1>3, <1>5, <1>6 DEF SaleSound, SaleTypes, MessageInv, PaidFor
<1>8. \A u \in Calls : CallKeepsPayment(u)'
  <2>1. CallKeepsPayment(t)'
    BY <1>4, <1>5 DEF CallKeepsPayment
  <2>2. ASSUME NEW u \in Calls, u # t
        PROVE  CallKeepsPayment(u)'
    BY <1>5, <1>6, <2>2 DEF SaleSound, CallKeepsPayment
  <2> QED BY <2>1, <2>2
<1>9. \A p \in Requests : FulfilmentsOf(p)' = FulfilmentsOf(p)
  BY <1>6 DEF FulfilmentsOf
<1> QED BY <1>1, <1>7, <1>8, <1>9, SameCount DEF SaleSound, vars

-----------------------------------------------------------------------------
(***************************************************************************)
(* The consumer.                                                           *)
(***************************************************************************)

\* A message that is taken, or settled, makes no fulfilment; one that is
\* settled is gone.
LEMMA SaleReceive ==
  ASSUME SaleSound, PaymentSound, UNCHANGED vars, NEW q \in Requests,
         Ship!Receive(q, Winner)
  PROVE  SaleSound'
<1>1. /\ UNCHANGED << fulfilments, call, inbox, stops >>
      /\ creating.pc = "idle" /\ inbox[q] > 0
      /\ creating' = [pc |-> "save", payment |-> q, user |-> Winner]
  BY DEF Ship!Receive
<1>2. SaleTypes' /\ MessageInv' /\ PaidFor'
  BY <1>1, SaleAssumption DEF SaleSound, SaleTypes, MessageInv, PaidFor
<1>3. \A t \in Calls : CallKeepsPayment(t)'
  BY <1>1, SaleCallStands
<1>4. ASSUME NEW p \in Requests
      PROVE  CreatedInv(p)'
  <2>1. ~Acknowledging(p) /\ ~Acknowledging(p)'
    BY <1>1 DEF Acknowledging
  <2> QED BY <1>1, <2>1 DEF SaleSound, CreatedInv, FulfilmentsOf, vars
<1> QED BY <1>2, <1>3, <1>4 DEF SaleSound

LEMMA SaleSettle ==
  ASSUME SaleSound, PaymentSound, UNCHANGED vars, Ship!SettleMessage
  PROVE  SaleSound'
<1>1. /\ UNCHANGED << fulfilments, call, stops >>
      /\ creating.pc \in {"ack", "nack"} /\ creating' = Ship!AtRest
      /\ inbox' = [inbox EXCEPT ![creating.payment] = @ - 1]
  BY DEF Ship!SettleMessage
<1>2. PICK q \in Requests : q = creating.payment /\ inbox[q] > 0
  BY <1>1 DEF SaleSound, MessageInv
<1>3. /\ inbox \in [Requests -> Nat]
      /\ inbox' = [inbox EXCEPT ![q] = inbox[q] - 1]
  BY <1>1, <1>2 DEF SaleSound, SaleTypes
<1>4. /\ inbox' \in [Requests -> Nat] /\ inbox'[q] = inbox[q] - 1
      /\ \A p \in Requests : p # q => inbox'[p] = inbox[p]
  BY <1>2, <1>3
<1>5. SaleTypes' /\ MessageInv' /\ PaidFor'
  BY <1>1, <1>4 DEF SaleSound, SaleTypes, MessageInv, PaidFor, Ship!AtRest
<1>6. \A t \in Calls : CallKeepsPayment(t)'
  BY <1>1, SaleCallStands
<1>7. ASSUME NEW p \in Requests
      PROVE  CreatedInv(p)'
  <2>1. /\ FulfilmentsOf(p)' = FulfilmentsOf(p) /\ ~Acknowledging(p)'
        /\ Acknowledging(p) => p = q
    BY <1>1, <1>2 DEF FulfilmentsOf, Acknowledging, Ship!AtRest
  <2> DEFINE n == Cardinality(FulfilmentsOf(p))
  <2>2. /\ n \in Nat /\ inbox[p] \in Nat /\ stops \in Nat /\ received[p] \in Nat
        /\ n + inbox[p] <= received[p] + stops + IF Acknowledging(p) THEN 1 ELSE 0
        /\ IsFiniteSet(FulfilmentsOf(p))
    BY CountType
  <2>3. n + inbox'[p] <= received[p] + stops
    BY <1>4, <2>1, <2>2
  <2> QED BY <1>1, <2>1, <2>2, <2>3 DEF CreatedInv, vars
<1> QED BY <1>5, <1>6, <1>7 DEF SaleSound

\* The fulfilment of the message under way is the one that is new.
LEMMA SaleCreate ==
  ASSUME SaleSound, PaymentSound, UNCHANGED vars, Ship!CreateFulfilment
  PROVE  SaleSound'
<1>1. /\ UNCHANGED << call, inbox, stops >> /\ creating.pc = "save"
  BY DEF Ship!CreateFulfilment
<1>2. PICK q \in Requests : q = creating.payment /\ inbox[q] > 0
  BY <1>1 DEF SaleSound, MessageInv
<1>3. CASE /\ fulfilments' = fulfilments
           /\ creating' = [creating EXCEPT !.pc = "nack"]
  <2>1. /\ creating'.pc = "nack" /\ creating'.payment = q
        /\ creating' \in [pc : {"idle", "save", "ack", "nack"},
                          payment : Requests \cup {None},
                          user : Winners \cup {None}]
    BY <1>2, <1>3 DEF SaleSound, SaleTypes
  <2>2. SaleTypes' /\ MessageInv' /\ PaidFor'
    BY <1>1, <1>2, <1>3, <2>1 DEF SaleSound, SaleTypes, MessageInv, PaidFor
  <2>3. \A t \in Calls : CallKeepsPayment(t)'
    BY <1>1, <1>3, SaleCallStands
  <2>4. ASSUME NEW p \in Requests
        PROVE  CreatedInv(p)'
    <3>1. ~Acknowledging(p) /\ ~Acknowledging(p)'
      BY <1>1, <2>1 DEF Acknowledging
    <3> QED BY <1>1, <1>3, <3>1 DEF SaleSound, CreatedInv, FulfilmentsOf, vars
  <2> QED BY <2>2, <2>3, <2>4 DEF SaleSound
<1>4. ASSUME NEW g \in Fulfilments, fulfilments[g] = Ship!NoFulfilment,
             NEW row, row = Ship!Created(creating.payment, creating.user),
             fulfilments' = [fulfilments EXCEPT ![g] = row],
             creating' = [creating EXCEPT !.pc = "ack"]
      PROVE  SaleSound'
  <2>1. /\ creating'.pc = "ack" /\ creating'.payment = q
        /\ creating' \in [pc : {"idle", "save", "ack", "nack"},
                          payment : Requests \cup {None},
                          user : Winners \cup {None}]
    BY <1>2, <1>4 DEF SaleSound, SaleTypes
  <2>2. row \in Ship!Fulfilment /\ row.payment = q /\ q # None
    BY <1>2, <1>4, PaymentAssumption
       DEF Ship!Created, Ship!Fulfilment, Ship!FulfilmentStatus, SaleSound, SaleTypes
  <2>3. /\ fulfilments' \in [Fulfilments -> Ship!Fulfilment]
        /\ fulfilments'[g] = row
        /\ \A f \in Fulfilments : f # g => fulfilments'[f] = fulfilments[f]
    BY <1>4, <2>2 DEF SaleSound, SaleTypes
  <2>4. fulfilments[g].payment = None
    BY <1>4 DEF Ship!NoFulfilment
  <2>5. SaleTypes' /\ MessageInv' /\ PaidFor'
    BY <1>1, <1>2, <2>1, <2>2, <2>3 DEF SaleSound, SaleTypes, MessageInv, PaidFor
  <2>6. \A t \in Calls : CallKeepsPayment(t)'
    <3>1. ASSUME NEW t \in Calls
          PROVE  CallKeepsPayment(t)'
      <4>1. CallKeepsPayment(t) /\ call'[t] = call[t]
        BY <1>1 DEF SaleSound
      <4>2. call[t].pc \in {"find", "save"} => call[t].fulfilment # g
        BY <2>4, <4>1 DEF CallKeepsPayment
      <4> QED BY <2>3, <4>1, <4>2 DEF CallKeepsPayment
    <3> QED BY <3>1
  <2>7. ASSUME NEW p \in Requests
        PROVE  CreatedInv(p)'
    <3>1. ~Acknowledging(p) /\ (Acknowledging(p)' <=> p = q)
      BY <1>1, <2>1 DEF Acknowledging
    <3>2. /\ IsFiniteSet(FulfilmentsOf(p)) /\ Cardinality(FulfilmentsOf(p)) \in Nat
          /\ inbox[p] \in Nat /\ stops \in Nat /\ received[p] \in Nat
          /\ Cardinality(FulfilmentsOf(p)) + inbox[p] <= received[p] + stops
      BY <3>1, CountType
    <3>3. CASE p # q
      <4>1. FulfilmentsOf(p)' = FulfilmentsOf(p)
        BY <2>2, <2>3, <2>4, <3>3, PaymentAssumption DEF FulfilmentsOf
      <4> QED BY <1>1, <3>1, <3>2, <3>3, <4>1 DEF CreatedInv, vars
    <3>4. CASE p = q
      <4>1. /\ FulfilmentsOf(p)' = FulfilmentsOf(p) \cup {g}
            /\ g \notin FulfilmentsOf(p)
        BY <2>2, <2>3, <2>4, <3>4 DEF FulfilmentsOf
      <4>2. /\ IsFiniteSet(FulfilmentsOf(p)')
            /\ Cardinality(FulfilmentsOf(p)') = Cardinality(FulfilmentsOf(p)) + 1
        BY <3>2, <4>1, FS_AddElement
      <4> QED BY <1>1, <3>1, <3>2, <3>4, <4>2 DEF CreatedInv, vars
    <3> QED BY <3>3, <3>4
  <2> QED BY <2>5, <2>6, <2>7 DEF SaleSound
<1> QED BY <1>3, <1>4 DEF Ship!CreateFulfilment

\* A death loses what the consumer knew, and is counted.
LEMMA SaleStop ==
  ASSUME SaleSound, PaymentSound, UNCHANGED vars, Ship!Stop
  PROVE  SaleSound'
<1>1. /\ UNCHANGED << fulfilments, inbox >> /\ stops' = stops + 1
      /\ creating' = Ship!AtRest /\ call' = [t \in Calls |-> Ship!NoCall]
  BY DEF Ship!Stop
<1>2. SaleTypes' /\ MessageInv' /\ PaidFor'
  BY <1>1, SaleRestTypes
     DEF SaleSound, SaleTypes, MessageInv, PaidFor, Ship!AtRest
<1>3. \A t \in Calls : CallKeepsPayment(t)'
  BY <1>1, SaleIdle
<1>4. ASSUME NEW p \in Requests
      PROVE  CreatedInv(p)'
  <2>1. FulfilmentsOf(p)' = FulfilmentsOf(p) /\ ~Acknowledging(p)'
    BY <1>1 DEF FulfilmentsOf, Acknowledging, Ship!AtRest
  <2> QED BY <1>1, <2>1, CountType DEF CreatedInv, vars
<1> QED BY <1>2, <1>3, <1>4 DEF SaleSound

-----------------------------------------------------------------------------
(***************************************************************************)
(* The invariant and what follows from it.                                 *)
(***************************************************************************)

LEMMA SaleStep ==
  ASSUME SaleSound, PaymentSound, PaymentSound', [SaleNext]_saleVars
  PROVE  SaleSound'
<1>1. CASE PaymentStep
  BY <1>1, PaymentStepSound
<1>2. CASE ShippingStep
  <2>1. UNCHANGED vars /\ Ship!ShippingStep
    BY <1>2 DEF ShippingStep
  <2>2. ASSUME NEW f \in Fulfilments, Ship!RenderAdminPage(f)
        PROVE  UNCHANGED << fulfilments, call, creating, inbox, stops >>
    BY <2>2 DEF Ship!RenderAdminPage
  <2>3. ASSUME UNCHANGED << fulfilments, call, creating, inbox, stops >>
        PROVE  SaleSound'
    BY <2>1, <2>3, SameCount, SaleCallStands
       DEF SaleSound, SaleTypes, MessageInv, PaidFor, FulfilmentsOf, vars
  <2> QED BY <2>1, <2>2, <2>3, SaleRequest, SaleFind, SaleCallEnds, SaleSave,
             SaleCreate, SaleSettle, SaleStop
          DEF Ship!ShippingStep, Ship!CallStep, Ship!ConsumerStep
<1>3. ASSUME NEW p \in Requests, DeliverPayment(p)
      PROVE  SaleSound'
  BY <1>3, SaleReceive DEF DeliverPayment
<1>4. CASE UNCHANGED saleVars
  <2>1. UNCHANGED << vars, fulfilments, call, creating, inbox, stops >>
    BY <1>4 DEF saleVars, Ship!shippingVars
  <2> QED BY <2>1, SameCount, SaleCallStands
          DEF SaleSound, SaleTypes, MessageInv, PaidFor, FulfilmentsOf, vars
<1> QED BY <1>1, <1>2, <1>3, <1>4 DEF SaleNext

\* Between the two services no payment is lost count of, wherever the shipping
\* service dies.
THEOREM SaleAlwaysSound == SaleSpec => []SaleSound
<1>1. SaleInit => SaleSound
  <2> SUFFICES ASSUME SaleInit PROVE SaleSound
    OBVIOUS
  <2>1. /\ fulfilments = [f \in Fulfilments |-> Ship!NoFulfilment]
        /\ call = [t \in Calls |-> Ship!NoCall] /\ creating = Ship!AtRest
        /\ inbox = [p \in Requests |-> 0] /\ stops = 0
    BY DEF SaleInit, Ship!ShippingInit
  <2>2. SaleTypes /\ MessageInv /\ PaidFor
    BY <2>1, SaleRestTypes DEF SaleTypes, MessageInv, PaidFor, Ship!AtRest
  <2>3. \A t \in Calls : CallKeepsPayment(t)
    BY <2>1 DEF CallKeepsPayment, Ship!NoCall
  <2>4. ASSUME NEW p \in Requests
        PROVE  CreatedInv(p)
    <3>1. FulfilmentsOf(p) = {}
      BY <2>1, PaymentAssumption DEF FulfilmentsOf, Ship!NoFulfilment
    <3>2. received[p] = 0 /\ ~Acknowledging(p)
      BY <2>1 DEF SaleInit, InvoicePageInit, Init, Acknowledging, Ship!AtRest
    <3> QED BY <2>1, <3>1, <3>2, FS_EmptySet DEF CreatedInv
  <2> QED BY <2>2, <2>3, <2>4 DEF SaleSound
<1>2. SaleSound /\ PaymentSound /\ PaymentSound' /\ [SaleNext]_saleVars
        => SaleSound'
  BY SaleStep
<1> QED BY <1>1, <1>2, SalePaymentSound, PTL DEF SaleSpec

\* A payment has one fulfilment, and at most one more for each time the
\* shipping service died.
THEOREM OneFulfilmentAlways == SaleSpec => []OneFulfilment
<1>1. SaleSound /\ PaymentSound => OneFulfilment
  <2> SUFFICES ASSUME SaleSound, PaymentSound, NEW p \in Requests
               PROVE  Cardinality(FulfilmentsOf(p)) <= received[p] + stops
    BY DEF OneFulfilment
  <2>1. /\ Cardinality(FulfilmentsOf(p)) \in Nat /\ inbox[p] \in Nat
        /\ stops \in Nat /\ received[p] \in Nat
        /\ Cardinality(FulfilmentsOf(p)) + inbox[p]
             <= received[p] + stops + IF Acknowledging(p) THEN 1 ELSE 0
    BY CountType
  <2>2. Acknowledging(p) => inbox[p] > 0
    BY DEF SaleSound, MessageInv, Acknowledging
  <2> QED BY <2>1, <2>2
<1> QED BY <1>1, SaleAlwaysSound, SalePaymentSound, PTL

-----------------------------------------------------------------------------
(***************************************************************************)
(* The saved card.                                                         *)
(***************************************************************************)

\* The sums: c and n are numbers of calls, l and m what the page may spend, b
\* and d what it was allowed.
LEMMA Budget ==
  ASSUME NEW n \in Nat, NEW c \in Nat, NEW l \in {0, 1}, NEW m \in {0, 1}
  PROVE  \A r, e, r1, e1 \in Nat :
           /\ n + l <= 1 + r + e
           /\ \/ /\ c <= n /\ m <= l /\ r1 + e1 = r + e
              \/ /\ c <= n + 1 /\ l = 1 /\ m = 0 /\ r1 + e1 = r + e
              \/ /\ c <= n - 1 /\ r1 + e1 = r + e
              \/ /\ c <= n + 1 /\ m <= l /\ r1 + e1 = r + e + 1
              \/ /\ c <= n /\ r1 + e1 = r + e + 1
              \/ c = 0
           => c + m <= 1 + r1 + e1
OBVIOUS

\* Whoever joins those who may spend is paid for: by the page, which gives up
\* its charge, by a reload or by an extension.
Allowed(t) ==
  \/ /\ Spending' \subseteq Spending
     /\ PageMayCharge' => PageMayCharge
     /\ reloads' + extends' = reloads + extends
  \/ /\ Spending' \subseteq Spending \cup {t}
     /\ PageMayCharge /\ ~PageMayCharge'
     /\ reloads' + extends' = reloads + extends
  \/ /\ t \in Spending
     /\ Spending' \subseteq Spending \ {t}
     /\ reloads' + extends' = reloads + extends
  \/ /\ Spending' \subseteq Spending \cup {t}
     /\ PageMayCharge' => PageMayCharge
     /\ reloads' + extends' = reloads + extends + 1
  \/ /\ Spending' \subseteq Spending
     /\ reloads' + extends' = reloads + extends + 1
  \/ Spending' = {}

\* Who is paid for stays within what was allowed.
LEMMA SpendingBound ==
  ASSUME PageInv, SpendingInv, PageInv', NEW t, Allowed(t)
  PROVE  SpendingInv'
<1> DEFINE n == Cardinality(Spending)
<1>1. /\ IsFiniteSet(Spending) /\ n \in Nat
      /\ n + (IF PageMayCharge THEN 1 ELSE 0) <= 1 + reloads + extends
      /\ reloads \in Nat /\ extends \in Nat /\ reloads' \in Nat /\ extends' \in Nat
  BY FS_CardinalityType DEF SpendingInv, PageInv
<1>2. /\ IsFiniteSet(Spending \cup {t})
      /\ Cardinality(Spending \cup {t}) \in Nat
      /\ Cardinality(Spending \cup {t}) <= n + 1
  <2>1. /\ IsFiniteSet(Spending \cup {t})
        /\ Cardinality(Spending \cup {t}) = IF t \in Spending THEN n ELSE n + 1
    BY <1>1, FS_AddElement
  <2> HIDE DEF n
  <2> QED BY <1>1, <2>1
<1>3. t \in Spending => /\ IsFiniteSet(Spending \ {t})
                        /\ Cardinality(Spending \ {t}) = n - 1
  BY <1>1, FS_RemoveElement
<1>4. IsFiniteSet({}) /\ Cardinality({}) = 0
  BY FS_EmptySet
<1>5. ASSUME NEW S, IsFiniteSet(S), Spending' \subseteq S
      PROVE  /\ IsFiniteSet(Spending') /\ Cardinality(Spending') \in Nat
             /\ Cardinality(Spending') <= Cardinality(S)
  BY <1>5, FS_Subset, FS_CardinalityType
<1> HIDE DEF n
<1> SUFFICES /\ IsFiniteSet(Spending')
             /\ Cardinality(Spending') + (IF PageMayCharge' THEN 1 ELSE 0)
                  <= 1 + reloads' + extends'
  BY DEF SpendingInv
<1>6. Spending' \subseteq Spending =>
        /\ IsFiniteSet(Spending') /\ Cardinality(Spending') \in Nat
        /\ Cardinality(Spending') <= n
  BY <1>1, <1>5 DEF n
<1>7. Spending' \subseteq Spending \cup {t} =>
        /\ IsFiniteSet(Spending') /\ Cardinality(Spending') \in Nat
        /\ Cardinality(Spending') <= n + 1
  <2> SUFFICES ASSUME Spending' \subseteq Spending \cup {t}
               PROVE  /\ IsFiniteSet(Spending') /\ Cardinality(Spending') \in Nat
                      /\ Cardinality(Spending') <= n + 1
    OBVIOUS
  <2>1. /\ IsFiniteSet(Spending') /\ Cardinality(Spending') \in Nat
        /\ Cardinality(Spending') <= Cardinality(Spending \cup {t})
    BY <1>2, <1>5
  <2> QED BY <1>1, <1>2, <2>1
<1>8. t \in Spending /\ Spending' \subseteq Spending \ {t} =>
        /\ IsFiniteSet(Spending') /\ Cardinality(Spending') \in Nat
        /\ Cardinality(Spending') <= n - 1
  BY <1>3, <1>5
<1>9. Spending' = {} =>
        /\ IsFiniteSet(Spending') /\ Cardinality(Spending') = 0
  BY <1>4
<1> DEFINE c == Cardinality(Spending')
           left == IF PageMayCharge THEN 1 ELSE 0
           left1 == IF PageMayCharge' THEN 1 ELSE 0
<1>10. /\ left \in {0, 1} /\ left1 \in {0, 1}
       /\ (PageMayCharge' => PageMayCharge) => left1 <= left
       /\ PageMayCharge /\ ~PageMayCharge' => left = 1 /\ left1 = 0
       /\ n + left <= 1 + reloads + extends
  BY <1>1
<1>11. IsFiniteSet(Spending') /\ c \in Nat
  BY <1>6, <1>7, <1>8, <1>9 DEF Allowed
<1>12. \/ /\ c <= n /\ left1 <= left
          /\ reloads' + extends' = reloads + extends
       \/ /\ c <= n + 1 /\ left = 1 /\ left1 = 0
          /\ reloads' + extends' = reloads + extends
       \/ /\ c <= n - 1 /\ reloads' + extends' = reloads + extends
       \/ /\ c <= n + 1 /\ left1 <= left
          /\ reloads' + extends' = reloads + extends + 1
       \/ /\ c <= n /\ reloads' + extends' = reloads + extends + 1
       \/ c = 0
  BY <1>6, <1>7, <1>8, <1>9, <1>10 DEF Allowed
<1> HIDE DEF c, left, left1
<1>13. /\ n \in Nat /\ c \in Nat
       /\ reloads \in Nat /\ extends \in Nat /\ reloads' \in Nat /\ extends' \in Nat
       /\ left \in {0, 1} /\ left1 \in {0, 1} /\ n + left <= 1 + reloads + extends
  BY Zenon, <1>1, <1>10, <1>11
<1>14. c + left1 <= 1 + reloads' + extends'
  <2>1. \A r, e, r1, e1 \in Nat :
          /\ n + left <= 1 + r + e
          /\ \/ /\ c <= n /\ left1 <= left /\ r1 + e1 = r + e
             \/ /\ c <= n + 1 /\ left = 1 /\ left1 = 0 /\ r1 + e1 = r + e
             \/ /\ c <= n - 1 /\ r1 + e1 = r + e
             \/ /\ c <= n + 1 /\ left1 <= left /\ r1 + e1 = r + e + 1
             \/ /\ c <= n /\ r1 + e1 = r + e + 1
             \/ c = 0
          => c + left1 <= 1 + r1 + e1
    BY <1>13, Budget
  <2> QED BY <1>12, <1>13, <2>1
<1> QED BY <1>11, <1>14 DEF c, left1

\* A call that leads on has led on before, and one that passes the conditions
\* has found the invoice awaiting payment.
LEMMA LeadingMoves ==
  ASSUME PaymentSound, NEW t \in Requests, HandlerStep(t)
  PROVE  /\ task[t].pc \in Steps /\ task'[t].pc # "idle"
         /\ MayLeadOn(t)' => /\ MayLeadOn(t) /\ task'[t].pc # "find"
                             /\ task[t].pc # "save"
                             /\ task[t].pc = "find" => InvoiceAwaits
         /\ Underway(t)' => task'[t].kind = task[t].kind
<1> DEFINE k == task[t]
           n == Flow(k.kind)[k.pc]
           r == task'[t]
<1>1. /\ t \in Handlers /\ Underway(t) /\ k.kind \in AllKinds
      /\ k.pc \in DOMAIN Flow(k.kind)
  BY MoveOf, UnderwayKind DEF Handlers
<1>2. CASE r = Ended(t, "done") \/ r = Ended(t, "threw")
  <2>1. r.pc \in {"done", "threw"}
    BY <1>2 DEF Ended, Idle
  <2> QED BY <1>1, <2>1 DEF MayLeadOn, Underway, Steps
<1>3. CASE /\ n # "done" /\ r.pc = n /\ r.kind = k.kind
           /\ k.pc = "find" => IsAwaitingPayment(rows[k.invoice])
  <2>1. k.pc = "find" => InvoiceAwaits
    <3>1. t # Consumer /\ InvoiceInv(t)
      BY <1>1, PaymentAssumption DEF PaymentSound
    <3> QED BY <1>1, <1>3, <3>1 DEF InvoiceInv, InvoiceAwaits, IsAwaitingPayment
  <2>2. n \in Steps
    BY <1>1, <1>3, FlowTable
  <2>3. CASE k.kind = "savedCard"
    BY <1>1, <1>3, <2>1, <2>2, <2>3, FlowTable DEF MayLeadOn, Underway, Steps
  <2>4. CASE k.kind = "checkout"
    BY <1>1, <1>3, <2>1, <2>2, <2>4, FlowTable DEF MayLeadOn, Underway, Steps
  <2>5. CASE k.kind = "extend"
    <3>1. /\ k.pc \in {"find", "save", "remove", "add"}
          /\ n = "save" <=> k.pc = "find"
          /\ n \notin {"find", "session"}
      BY <1>1, <2>5 DEF Flow, ExtendFlow
    <3> QED BY <1>1, <1>3, <2>1, <2>2, <2>5, <3>1
            DEF MayLeadOn, Underway, Steps
  <2>6. CASE k.kind \notin {"savedCard", "checkout", "extend"}
    BY <1>1, <1>3, <2>2, <2>6 DEF MayLeadOn, Underway, Steps
  <2> QED BY <2>3, <2>4, <2>5, <2>6
<1> QED BY <1>1, <1>2, <1>3, MoveOf

\* A card is charged by the call that says so.
LEMMA NewCharge ==
  ASSUME PaymentSound, NEW t \in Requests, HandlerStep(t),
         payment[t].state # "charged", payment'[t].state = "charged"
  PROVE  /\ task[t].kind = "savedCard" /\ task[t].pc = "charge"
         /\ task'[t].pc \in {"save", "threw"}
<1>1. /\ t \in Handlers /\ TypeOK
      /\ payment \in [Requests -> [state : {"none", "open", "completed", "charged"},
                                   invoice : Invoices \cup {None}]]
  BY DEF PaymentSound, TypeOK, Handlers
<1>2. OpenSession(t) \/ Charge(t)
  BY DEF HandlerStep, Call, Check, Find, Save, Record, Remove, Add, Publish
<1>3. Charge(t) /\ task[t].pc = "charge"
  BY <1>1, <1>2 DEF OpenSession, Charge
<1>4. /\ task[t].kind = "savedCard" /\ Underway(t)
  BY <1>1, <1>3, NotYetMade
<1>5. Become(t, Onward(t)) \/ Become(t, Ended(t, "threw"))
  BY <1>3 DEF Charge
<1>6. Onward(t) \in Task /\ Onward(t).pc = "save"
  BY <1>1, <1>3, <1>4, OnwardType DEF Flow, SavedCardFlow
<1>7. Ended(t, "threw") \in Task /\ Ended(t, "threw").pc = "threw"
  BY <1>1, EndedType
<1> QED BY <1>1, <1>3, <1>4, <1>5, <1>6, <1>7, BecomeOwn

\* A step of one handler touches nobody else's payment.
LEMMA ChargeFrame ==
  ASSUME PaymentSound, NEW t \in Handlers, HandlerStep(t)
  PROVE  /\ \A u \in Requests : u # t =>
              task'[u] = task[u] /\ payment'[u] = payment[u]
         /\ rows' = rows \/ Save(t)
         /\ Save(t) => payment' = payment
<1>1. \A u \in Handlers : u # t => task'[u] = task[u]
  BY MoveOf
<1>2. \/ payment' = payment
      \/ \E x : payment' = [payment EXCEPT ![t] = x]
  BY DEF HandlerStep, Call, Check, Find, OpenSession, Charge, Charged, Save,
         Record, Remove, Add, Publish
<1>3. \A u \in Requests : u # t => payment'[u] = payment[u]
  BY <1>2 DEF PaymentSound, TypeOK
<1>4. rows' = rows \/ Save(t)
  BY DEF HandlerStep, Call, Check, Find, OpenSession, Charge,
         Record, Remove, Add, Publish
<1> QED BY <1>1, <1>3, <1>4 DEF Handlers, Save

\* Nor does it take the page's call for another, or a session for a charge.
LEMMA ChargeBelief ==
  ASSUME PaymentSound, ChargeSound, NEW t \in Handlers, HandlerStep(t),
         UNCHANGED pageVars
  PROVE  PageInv' /\ \A u \in Requests : CheckoutInv(u)'
<1>1. /\ page' = page /\ reloads' = reloads /\ extends' = extends
      /\ PageInv /\ \A u \in Requests : CheckoutInv(u)
  BY DEF pageVars, ChargeSound
<1>2. PageInv'
  <2>1. CASE page.call = t /\ page.call # None
    <3>1. t \in Requests /\ task'[t].pc # "idle"
      BY <1>1, <2>1, LeadingMoves DEF PageInv
    <3>2. Underway(t)' => task'[t].kind = page.kind
      BY <1>1, <2>1, <3>1, LeadingMoves DEF PageInv, Underway
    <3> QED BY <1>1, <2>1, <3>1, <3>2 DEF PageInv, Underway
  <2>2. CASE page.call # t \/ page.call = None
    BY <1>1, <2>2, ChargeFrame DEF PageInv, Underway
  <2> QED BY <2>1, <2>2
<1>3. ASSUME NEW u \in Requests PROVE CheckoutInv(u)'
  <2>1. CASE u = t
    BY <1>1, <2>1, LeadingMoves, NewCharge DEF CheckoutInv, Underway
  <2>2. CASE u # t
    BY <1>1, <2>2, ChargeFrame DEF CheckoutInv, Underway
  <2> QED BY <2>1, <2>2
<1> QED BY <1>2, <1>3

\* While no row is written, only the charge itself adds to the spending, and it
\* is the page's to make.
LEMMA ChargeKeeps ==
  ASSUME PaymentSound, ChargeSound, NEW t \in Handlers, HandlerStep(t),
         UNCHANGED pageVars, ~Save(t)
  PROVE  \/ /\ Spending' \subseteq Spending
            /\ PageMayCharge' => PageMayCharge
         \/ /\ Spending' \subseteq Spending \cup {t}
            /\ PageMayCharge /\ ~PageMayCharge'
<1>1. /\ page' = page /\ PageInv /\ InvoiceAwaits' = InvoiceAwaits
      /\ \A u \in Requests : u # t => task'[u] = task[u] /\ payment'[u] = payment[u]
      /\ task[t].pc # "save"
  BY ChargeFrame DEF pageVars, ChargeSound, InvoiceAwaits, HandlerStep, Call,
     Check, Find, OpenSession, Charge, Record, Remove, Add, Publish
<1>2. Spending' \subseteq Spending \cup {t}
  BY <1>1 DEF Spending, MayLeadOn
<1>3. CASE page.call # t \/ page.call = None
  <2>1. PageMayCharge' = PageMayCharge
    BY <1>1, <1>3 DEF PageMayCharge, Stuck, MayLeadOn, PageInv
  <2>2. t \in Spending' => t \in Spending
    <3>1. ASSUME t \in Requests, payment'[t].state = "charged"
          PROVE  payment[t].state = "charged" \/ MayLeadOn(t)
      BY <3>1, NewCharge DEF MayLeadOn
    <3>2. t \in Requests => (MayLeadOn(t)' => MayLeadOn(t))
      BY LeadingMoves
    <3>3. t \in Requests => t # page.call
      BY <1>3, PaymentAssumption
    <3> QED BY <1>1, <3>1, <3>2, <3>3 DEF Spending
  <2> QED BY <1>2, <2>1, <2>2
<1>4. CASE page.call = t /\ page.call # None
  <2>1. /\ t \in Requests /\ page.kind \in {"savedCard", "checkout"}
        /\ Underway(t) => task[t].kind = page.kind
    BY <1>1, <1>4 DEF PageInv
  <2>2. /\ Underway(t) /\ task[t].kind = page.kind
        /\ MayLeadOn(t)' => /\ MayLeadOn(t)
                            /\ task[t].pc = "find" => InvoiceAwaits
    BY <2>1, LeadingMoves DEF Underway
  <2>3. CASE payment[t].state # "charged" /\ payment'[t].state = "charged"
    <3>1. /\ task[t].kind = "savedCard" /\ task[t].pc = "charge"
          /\ task'[t].pc \in {"save", "threw"}
      BY <2>1, <2>3, NewCharge
    <3>2. PageMayCharge
      BY <1>4, <3>1 DEF PageMayCharge, MayLeadOn
    <3>3. Stuck'
      BY <1>1, <1>4, <2>2, <3>1 DEF Stuck
    <3>4. ~MayLeadOn(t)'
      <4>1. Underway(t)' => task'[t].kind = "savedCard"
        BY <2>1, <3>1, LeadingMoves
      <4> QED BY <3>1, <4>1 DEF MayLeadOn, Underway, Steps
    <3> QED BY <1>1, <1>2, <1>4, <3>2, <3>3, <3>4 DEF PageMayCharge, MayLeadOn
  <2>4. CASE payment[t].state = "charged" \/ payment'[t].state # "charged"
    <3>1. t \in Spending' => t \in Spending
      BY <1>1, <1>4, <2>1, <2>4 DEF Spending
    <3>2. PageMayCharge' => PageMayCharge
      <4>1. CASE MayLeadOn(t)'
        BY <1>4, <2>2, <4>1 DEF PageMayCharge, Stuck
      <4>2. CASE ~MayLeadOn(t)'
        <5>1. task[t].pc \in Steps
          BY <2>1, LeadingMoves
        <5>2. ~Stuck
          BY <1>1, <1>4, <5>1 DEF Stuck, Steps
        <5> QED BY <1>1, <1>4, <4>2, <5>2 DEF PageMayCharge, MayLeadOn
      <4> QED BY <4>1, <4>2
    <3> QED BY <1>2, <3>1, <3>2
  <2> QED BY <2>3, <2>4
<1> QED BY <1>3, <1>4

\* A row that is written back as it was comes from a call that was counted; any
\* other leaves no invoice awaiting payment, but for the first.
LEMMA ChargeSaves ==
  ASSUME PaymentSound, PaymentSound', ChargeSound, NEW t \in Handlers, Save(t),
         UNCHANGED pageVars
  PROVE  \/ /\ Spending' \subseteq Spending
            /\ PageMayCharge' => PageMayCharge
         \/ t \in Spending /\ Spending' \subseteq Spending \ {t}
         \/ Spending' = {}
<1> DEFINE k == task[t]
<1>1. /\ HandlerStep(t) /\ k.pc = "save" /\ Underway(t) /\ k.invoice \in Invoices
      /\ rows' = [rows EXCEPT ![k.invoice] = Written(t)]
  BY SavedBy DEF Save
<1>2. /\ page' = page /\ PageInv /\ payment' = payment
      /\ \A u \in Requests : u # t => task'[u] = task[u]
  BY <1>1, ChargeFrame DEF pageVars, ChargeSound
<1>3. t \in Requests => ~MayLeadOn(t)'
  BY <1>1, LeadingMoves
<1>4. Spending' \subseteq Spending
  BY <1>2, <1>3 DEF Spending, MayLeadOn
<1>5. /\ k.kind \in AllKinds
      /\ t = Consumer <=> k.kind = "create"
      /\ t = Worker <=> k.kind = "expire"
  BY <1>1, UnderwayKind
<1>6. CASE k.kind \in {"savedCard", "webhook", "cancel", "expire"}
  <2>1. ~InvoiceAwaits'
    <3>1. Written(t).status # "AWAITING_PAYMENT"
      <4>1. k.seen \in InvoiceRow
        BY DEF PaymentSound, TypeOK, Task
      <4> QED BY <1>6, <4>1 DEF Written, PaidWith, Cancelled, Expired, InvoiceRow
    <3>2. /\ rows'[k.invoice] = Written(t) /\ rows'[k.invoice] # NoRow
      <4>1. rows'[k.invoice] = Written(t)
        BY <1>1 DEF PaymentSound, TypeOK
      <4> QED BY <1>1, <4>1, WrittenRow DEF NoRow
    <3>3. OneInvoice'
      BY DEF PaymentSound, TableInv
    <3> QED BY <1>1, <3>1, <3>2, <3>3 DEF InvoiceAwaits, OneInvoice, NoRow
  <2>2. CASE page.call = t /\ page.call # None
    BY <1>2, <1>3, <1>4, <2>1, <2>2 DEF PageMayCharge, PageInv
  <2>3. CASE page.call # t \/ page.call = None
    BY <1>2, <1>4, <2>1, <2>3 DEF PageMayCharge, PageInv, MayLeadOn
  <2> QED BY <1>4, <2>2, <2>3
<1>7. CASE k.kind \in {"checkout", "extend"}
  <2>1. t \in Requests /\ MayLeadOn(t)
    BY <1>1, <1>5, <1>7 DEF MayLeadOn, Handlers
  <2>2. CASE page.call = t
    BY <1>1, <1>4, <2>1, <2>2, PaymentAssumption DEF PageMayCharge
  <2>3. CASE page.call # t
    <3>1. payment[t].state # "charged"
      <4>1. CASE k.kind = "checkout"
        BY <1>1, <2>1, <4>1 DEF ChargeSound, CheckoutInv
      <4>2. CASE k.kind = "extend"
        BY <1>1, <2>1, <4>2 DEF PaymentSound, MadeInv
      <4> QED BY <1>7, <4>1, <4>2
    <3>2. t \in Spending /\ t \notin Spending'
      BY <1>2, <1>3, <2>1, <2>3, <3>1 DEF Spending
    <3> QED BY <1>4, <3>2
  <2> QED BY <2>2, <2>3
<1>8. CASE k.kind = "create"
  <2>1. \A i \in Invoices : rows[i] = NoRow
    BY <1>5, <1>8, SavedBy
  <2>2. ASSUME NEW u \in Requests PROVE payment[u].state = "none" /\ ~Underway(u)
    <3>1. u \in Handlers /\ u # Consumer
      BY PaymentAssumption DEF Handlers
    <3> QED BY <2>1, <3>1 DEF PaymentSound, MadeInv, InvoiceInv
  <2>3. Spending = {}
    BY <2>2 DEF Spending, MayLeadOn, Underway, Steps
  <2> QED BY <1>4, <2>3
<1> QED BY <1>5, <1>6, <1>7, <1>8 DEF AllKinds

LEMMA ChargeHandlerStep ==
  ASSUME PaymentSound, PaymentSound', ChargeSound, NEW t \in Handlers,
         HandlerStep(t), UNCHANGED pageVars
  PROVE  ChargeSound'
<1>1. /\ PageInv /\ SpendingInv /\ PageInv' /\ \A u \in Requests : CheckoutInv(u)'
      /\ reloads' + extends' = reloads + extends
  BY ChargeBelief DEF ChargeSound, pageVars
<1>2. SpendingInv'
  BY <1>1, ChargeKeeps, ChargeSaves, SpendingBound DEF Allowed
<1> QED BY <1>1, <1>2 DEF ChargeSound

\* What is not a step of a use case charges nothing and begins nothing that
\* leads to a charge.
LEMMA ChargeOtherStep ==
  ASSUME PaymentSound, ChargeSound, ServiceStep,
         ~\E t \in Handlers : HandlerStep(t), UNCHANGED pageVars
  PROVE  ChargeSound'
<1>1. /\ rows' = rows /\ page' = page /\ reloads' = reloads /\ extends' = extends
      /\ PageInv /\ SpendingInv /\ \A u \in Requests : CheckoutInv(u)
  BY DEF ServiceStep, WebhookArrives, Deliver, FindLot, Settle, TakeJob,
         RecoverStalled, FinishJob, PayOnPage, Crash, Tick, pageVars, ChargeSound
<1>2. ASSUME NEW u \in Requests
      PROVE  payment'[u].state = "charged" => payment[u].state = "charged"
  BY DEF ServiceStep, WebhookArrives, Deliver, FindLot, Settle, TakeJob,
         RecoverStalled, FinishJob, PayOnPage, Crash, Tick, PaymentSound, TypeOK
<1>3. ASSUME NEW u \in Requests
      PROVE  \/ task'[u] = task[u]
             \/ task[u].pc = "idle" /\ task'[u].kind = "webhook"
             \/ task[u].pc \in Steps /\ task'[u].pc = "threw"
  <2>1. u \in Handlers /\ u # Consumer /\ u # Worker /\ TypeOK
    BY PaymentAssumption DEF Handlers, PaymentSound
  <2>2. CASE Crash
    BY <2>1, <2>2 DEF Crash, Underway, Ended, Idle
  <2>3. CASE Deliver \/ FindLot \/ Settle \/ FinishJob \/ \E i \in Invoices : TakeJob(i)
    BY <2>1, <2>3 DEF Deliver, FindLot, Settle, FinishJob, TakeJob, Become, TypeOK
  <2>4. CASE \E t \in Requests : WebhookArrives(t)
    <3>1. PICK t \in Requests : WebhookArrives(t)
      BY <2>4
    <3>2. PICK p \in Requests :
            Become(t, [Idle EXCEPT !.kind = "webhook", !.pc = "check",
                         !.invoice = payment[p].invoice, !.about = p])
      BY <3>1 DEF WebhookArrives
    <3> DEFINE r == [Idle EXCEPT !.kind = "webhook", !.pc = "check",
                       !.invoice = payment[p].invoice, !.about = p]
    <3>3. r.kind = "webhook"
      BY DEF Idle
    <3> HIDE DEF r
    <3>4. Become(t, r)
      BY <3>2 DEF r
    <3> QED BY <2>1, <3>1, <3>3, <3>4 DEF WebhookArrives, Become, TypeOK
  <2>5. CASE \/ \E i \in Invoices : RecoverStalled(i)
             \/ \E p \in Requests : PayOnPage(p)
             \/ Tick
    BY <2>5 DEF RecoverStalled, PayOnPage, Tick
  <2> QED BY <2>2, <2>3, <2>4, <2>5 DEF ServiceStep
<1>4. ASSUME NEW u \in Requests
      PROVE  /\ MayLeadOn(u)' => MayLeadOn(u) /\ task'[u] = task[u]
             /\ Underway(u)' => task'[u].kind = task[u].kind \/ task[u].pc = "idle"
             /\ task[u].pc # "idle" => task'[u].pc # "idle"
             /\ task'[u].pc \notin {"save", "threw"} /\ task[u].pc # "idle" =>
                  task[u].pc \notin {"save", "threw"}
             /\ CheckoutInv(u)'
  BY <1>1, <1>2, <1>3 DEF MayLeadOn, Underway, Steps, CheckoutInv
<1>5. PageInv'
  BY <1>1, <1>3 DEF PageInv, Underway, Steps
<1>6. Spending' \subseteq Spending
  BY <1>1, <1>2, <1>4 DEF Spending
<1>7. PageMayCharge' => PageMayCharge
  <2>1. InvoiceAwaits' = InvoiceAwaits
    BY <1>1 DEF InvoiceAwaits
  <2>2. Stuck => Stuck'
    BY <1>1, <1>4 DEF Stuck, PageInv
  <2>3. CASE page.call # None /\ MayLeadOn(page.call)' /\ task'[page.call].pc # "find"
    BY <1>1, <1>4, <2>3 DEF PageMayCharge, PageInv
  <2> QED BY <1>1, <2>1, <2>2, <2>3 DEF PageMayCharge, MayLeadOn
<1>8. SpendingInv'
  BY <1>1, <1>5, <1>6, <1>7, SpendingBound DEF Allowed
<1> QED BY <1>4, <1>5, <1>8 DEF ChargeSound

\* A call begins, the page's or the admin's, on an invoice that is in the table.
LEMMA ChargeBegin ==
  ASSUME PaymentSound, ChargeSound, NEW t \in Requests, NEW kind,
         NEW i \in Invoices, Begin(t, kind, i)
  PROVE  /\ rows' = rows /\ payment' = payment
         /\ task[t].pc = "idle" /\ task'[t].pc = "find" /\ task'[t].kind = kind
         /\ \A u \in Requests : u # t => task'[u] = task[u]
         /\ payment[t].state = "none"
         /\ \A u \in Requests : CheckoutInv(u)'
<1>1. t \in Handlers /\ TypeOK
  BY DEF Handlers, PaymentSound
<1>2. /\ rows' = rows /\ payment' = payment /\ task[t].pc = "idle"
      /\ \E due : Become(t, [Idle EXCEPT !.kind = kind, !.pc = "find",
                                          !.invoice = i, !.due = due])
  BY DEF Begin
<1>3. /\ task'[t].pc = "find" /\ task'[t].kind = kind
      /\ \A u \in Handlers : u # t => task'[u] = task[u]
  BY <1>1, <1>2 DEF Become, Idle, TypeOK
<1>4. payment[t].state = "none"
  BY <1>2 DEF PaymentSound, MadeInv
<1>5. ASSUME NEW u \in Requests PROVE CheckoutInv(u)'
  BY <1>2, <1>3, <1>4 DEF CheckoutInv, ChargeSound, Underway, Handlers
<1> QED BY <1>2, <1>3, <1>4, <1>5 DEF Handlers

\* The page calls, which it may while it waits for nothing.
LEMMA ChargePay ==
  ASSUME PaymentSound, ChargeSound, NEW t \in Requests,
         NEW kind \in {"savedCard", "checkout"}, Pay(t, kind)
  PROVE  ChargeSound'
<1>1. PICK i \in Invoices : page.call = None /\ Begin(t, kind, i)
  BY DEF Pay, MayPay
<1>2. /\ page' = [call |-> t, kind |-> kind] /\ reloads' = reloads
      /\ extends' = extends /\ PageInv /\ SpendingInv /\ t # None
  BY PaymentAssumption DEF Pay, ChargeSound
<1>3. /\ rows' = rows /\ payment' = payment
      /\ task'[t].pc = "find" /\ task'[t].kind = kind
      /\ \A u \in Requests : u # t => task'[u] = task[u]
      /\ payment[t].state = "none"
      /\ \A u \in Requests : CheckoutInv(u)'
  BY <1>1, ChargeBegin
<1>4. PageInv'
  BY <1>2, <1>3 DEF PageInv, Underway
<1>5. Spending' \subseteq Spending
  BY <1>1, <1>2, <1>3, PaymentAssumption DEF Spending, MayLeadOn
<1>6. PageMayCharge' => PageMayCharge
  BY <1>1, <1>2, <1>3 DEF PageMayCharge, Stuck, InvoiceAwaits
<1>7. SpendingInv'
  BY <1>2, <1>4, <1>5, <1>6, SpendingBound DEF Allowed
<1> QED BY <1>3, <1>4, <1>7 DEF ChargeSound

\* The admin puts off the due date, or cancels.
LEMMA ChargeAdmin ==
  ASSUME PaymentSound, ChargeSound, NEW t \in Requests, AdminActs(t)
  PROVE  ChargeSound'
<1>1. PICK kind \in {"cancel", "extend"}, i \in Invoices :
        /\ Begin(t, kind, i)
        /\ extends' = extends + IF kind = "extend" THEN 1 ELSE 0
  BY DEF AdminActs, AdminCalls
<1>2. /\ page' = page /\ reloads' = reloads /\ PageInv /\ SpendingInv
  BY DEF AdminActs, ChargeSound
<1>3. /\ rows' = rows /\ payment' = payment
      /\ task[t].pc = "idle" /\ task'[t].pc = "find" /\ task'[t].kind = kind
      /\ \A u \in Requests : u # t => task'[u] = task[u]
      /\ \A u \in Requests : CheckoutInv(u)'
  BY <1>1, ChargeBegin
<1>4. page.call # t \/ page.call = None
  BY <1>2, <1>3 DEF PageInv
<1>5. PageInv'
  BY <1>1, <1>2, <1>3, <1>4 DEF PageInv, Underway
<1>6. PageMayCharge' = PageMayCharge
  BY <1>2, <1>3, <1>4 DEF PageMayCharge, Stuck, InvoiceAwaits, MayLeadOn, PageInv
<1>7. /\ Spending' \subseteq Spending \cup {t}
      /\ kind = "cancel" => Spending' \subseteq Spending
  BY <1>2, <1>3 DEF Spending, MayLeadOn
<1>8. SpendingInv'
  BY <1>1, <1>2, <1>5, <1>6, <1>7, SpendingBound DEF Allowed, PageInv
<1> QED BY <1>3, <1>5, <1>8 DEF ChargeSound

\* The page hears its answer, or is loaded again without one.
LEMMA ChargeReady ==
  ASSUME PaymentSound, ChargeSound, Reload \/ \E t \in Requests : Answered(t)
  PROVE  ChargeSound'
<1>1. /\ UNCHANGED << rows, payment, task, extends >> /\ page' = Ready
      /\ page.call # None /\ PageInv /\ SpendingInv
      /\ \A u \in Requests : CheckoutInv(u)
  BY PaymentAssumption DEF Reload, Answered, ChargeSound, vars
<1>2. /\ PageInv' /\ page'.call = None
      /\ \A u \in Requests : CheckoutInv(u)'
  BY <1>1 DEF PageInv, Ready, Reload, Answered, CheckoutInv, Underway
<1>3. InvoiceAwaits' = InvoiceAwaits /\ PageMayCharge' = InvoiceAwaits
  BY <1>1, <1>2 DEF PageMayCharge, Stuck, InvoiceAwaits
<1>4. CASE Reload
  <2>1. /\ reloads' + extends' = reloads + extends + 1
        /\ Spending' \subseteq Spending \cup {page.call}
    BY <1>1, <1>4 DEF Reload, Spending, MayLeadOn, PageInv
  <2>2. \/ Spending' \subseteq Spending
        \/ PageMayCharge' => PageMayCharge
    <3>1. CASE MayLeadOn(page.call)
      BY <1>1, <1>3, <3>1 DEF PageMayCharge, Stuck, MayLeadOn, PageInv
    <3>2. CASE ~MayLeadOn(page.call)
      BY <1>1, <3>2 DEF Spending, MayLeadOn
    <3> QED BY <3>1, <3>2
  <2>3. SpendingInv'
    BY <1>1, <1>2, <2>1, <2>2, SpendingBound DEF Allowed
  <2> QED BY <1>2, <2>3 DEF ChargeSound
<1>5. CASE \E t \in Requests : Answered(t)
  <2>1. /\ reloads' = reloads
        /\ task[page.call].pc \in {"done", "threw"} /\ ~Stuck
    BY <1>5 DEF Answered, Stuck
  <2>2. Spending' \subseteq Spending
    BY <1>1, <2>1 DEF Spending, MayLeadOn
  <2>3. PageMayCharge' => PageMayCharge
    BY <1>3, <2>1 DEF PageMayCharge
  <2>4. SpendingInv'
    BY <1>1, <1>2, <2>1, <2>2, <2>3, SpendingBound DEF Allowed
  <2> QED BY <1>2, <2>4 DEF ChargeSound
<1> QED BY <1>4, <1>5

LEMMA ChargeStep ==
  ASSUME PaymentSound, PaymentSound', ChargeSound, [SaleNext]_saleVars
  PROVE  ChargeSound'
<1>1. ASSUME InvoicePageNext PROVE ChargeSound'
  BY <1>1, ChargePay, ChargeAdmin, ChargeReady, ChargeHandlerStep, ChargeOtherStep
     DEF InvoicePageNext, CustomerStep, PaySavedCard, PayByCheckout
<1>2. ASSUME UNCHANGED << vars, pageVars >> PROVE ChargeSound'
  BY <1>2 DEF vars, pageVars, ChargeSound, PageInv, CheckoutInv, SpendingInv,
     Spending, PageMayCharge, Stuck, MayLeadOn, InvoiceAwaits, Underway
<1> QED BY <1>1, <1>2
        DEF SaleNext, PaymentStep, ShippingStep, DeliverPayment, saleVars

\* Every charge is paid for: by the page's one chance, a reload or an extension.
THEOREM ChargeAlwaysSound == SaleSpec => []ChargeSound
<1>1. SaleInit => ChargeSound
  <2> SUFFICES ASSUME SaleInit PROVE ChargeSound
    OBVIOUS
  <2>1. /\ page.call = None /\ reloads = 0 /\ extends = 0
        /\ \A u \in Requests : task[u].pc = "idle" /\ payment[u].state = "none"
        /\ \A i \in Invoices : rows[i] = NoRow
    BY DEF SaleInit, InvoicePageInit, Ready, Init, Idle, Handlers
  <2>2. Spending = {} /\ ~PageMayCharge
    BY <2>1 DEF Spending, MayLeadOn, PageMayCharge, InvoiceAwaits, NoRow
  <2>3. SpendingInv
    BY <2>1, <2>2, FS_EmptySet DEF SpendingInv
  <2> QED BY <2>1, <2>3 DEF ChargeSound, PageInv, CheckoutInv, Underway, Steps
<1>2. ChargeSound /\ PaymentSound /\ PaymentSound' /\ [SaleNext]_saleVars
        => ChargeSound'
  BY ChargeStep
<1> QED BY <1>1, <1>2, SalePaymentSound, PTL DEF SaleSpec

\* The winner's card is charged once, and at most once more for each reload of
\* a page that waited and each extension by an admin.
THEOREM AlwaysChargedOnce == SaleSpec => []ChargedOnce
<1>1. ChargeSound => ChargedOnce
  <2> SUFFICES ASSUME ChargeSound PROVE ChargedOnce
    OBVIOUS
  <2> DEFINE C == {p \in Requests : payment[p].state = "charged"}
  <2>1. /\ IsFiniteSet(Spending) /\ Cardinality(Spending) \in Nat
        /\ Cardinality(Spending) <= 1 + reloads + extends
        /\ reloads \in Nat /\ extends \in Nat
    BY FS_CardinalityType DEF ChargeSound, SpendingInv, PageInv
  <2>2. C \subseteq Spending
    BY DEF Spending
  <2>3. Cardinality(C) <= Cardinality(Spending) /\ Cardinality(C) \in Nat
    BY <2>1, <2>2, FS_Subset, FS_CardinalityType
  <2> QED BY <2>1, <2>3 DEF ChargedOnce
<1> QED BY <1>1, ChargeAlwaysSound, PTL
=============================================================================
