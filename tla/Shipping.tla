------------------------------ MODULE Shipping ------------------------------
(***************************************************************************)
(* apps/shipping: the consumer of payment.received, which creates a        *)
(* fulfilment, and the HTTP calls that choose how the item travels and     *)
(* that mark it handed over.                                               *)
(*                                                                         *)
(* A call reads the fulfilment, decides, and writes method and status      *)
(* back; a choice then inserts its address or slot in a statement of its   *)
(* own, without a transaction.  A step is one await and the code after it. *)
(***************************************************************************)
EXTENDS Naturals, FiniteSets

CONSTANTS
  Fulfilments,   \* the ids uuidv4() may draw
  Calls,         \* the HTTP calls that can be under way at one time
  Payments,      \* the payments that payment.received may tell of
  Winners,       \* the users who may have won
  Admin,         \* a caller with the role ADMIN
  None,          \* no method, no user, no payment
  MaxStops,      \* bound: crashes of the service's process
  DbMayFail      \* may a statement throw?

ASSUME ShippingAssumption ==
  /\ None \notin Winners \cup Payments \cup Fulfilments
  /\ None \notin {"SHIP", "COLLECT"}
  /\ Admin \notin Winners
  /\ MaxStops \in Nat /\ DbMayFail \in BOOLEAN

VARIABLES
  fulfilments,   \* the table fulfilments
  details,       \* the methods a fulfilment has an address or a slot for
  call,          \* what each HTTP call is doing, with its locals
  creating,      \* what the consumer is doing
  inbox,         \* unacknowledged messages in shipping.payment.received
  dropped,       \* history: the payments whose message was rejected
  offered,       \* the buttons on the pages that the admin has open
  torn,          \* history: fulfilments a choice of which ended in an error, or
                 \* in a stop, whether or not it had written anything
  stops          \* crashes so far

shippingVars == << fulfilments, details, call, creating, inbox, dropped, offered,
                 torn, stops >>

-----------------------------------------------------------------------------
(***************************************************************************)
(* The fulfilment.                                                         *)
(***************************************************************************)
FulfilmentStatus == {"PENDING_CHOICE", "PENDING_DISPATCH", "DISPATCHED",
                     "COLLECTED"}

FulfilmentMethod == {"SHIP", "COLLECT"}

\* `payment' stands for lot_id: a lot is paid for by one payment.
Fulfilment == [status : FulfilmentStatus \cup {"ABSENT"},
               method : FulfilmentMethod \cup {None},
               user : Winners \cup {None}, payment : Payments \cup {None}]

NoFulfilment == [status |-> "ABSENT", method |-> None, user |-> None,
                 payment |-> None]

Created(p, u) == [status |-> "PENDING_CHOICE", method |-> None, user |-> u,
                  payment |-> p]

MayChoose(row) == row.method = None

ChosenShip(row) ==
  [row EXCEPT !.method = "SHIP", !.status = "PENDING_DISPATCH"]
ChosenCollect(row) ==
  [row EXCEPT !.method = "COLLECT", !.status = "PENDING_DISPATCH"]

\* Fault: an item that has gone may go again.
MayHandOver_Again(row) == row.status # "PENDING_CHOICE"

\* The method is not looked at: an item to be collected may be dispatched.
MayHandOver(row) == row.status = "PENDING_DISPATCH"

MarkedDispatched(row) == [row EXCEPT !.status = "DISPATCHED"]
MarkedCollected(row)  == [row EXCEPT !.status = "COLLECTED"]

-----------------------------------------------------------------------------
NoCall == [kind |-> "none", pc |-> "idle", fulfilment |-> None, user |-> None,
           seen |-> NoFulfilment]

AtRest == [pc |-> "idle", payment |-> None, user |-> None]

Choices   == {"ship", "collect"}
HandOvers == {"dispatch", "collected"}

CallState ==
  [kind : Choices \cup HandOvers \cup {"none"},
   pc : {"idle", "find", "save", "detail"},
   fulfilment : Fulfilments \cup {None}, user : Winners \cup {Admin, None},
   seen : Fulfilment]

Goes(t, r) == call' = [call EXCEPT ![t] = r]

\* The HTTP answer: another call may come.
Answer(t) == Goes(t, NoCall) /\ UNCHANGED torn

\* The calls of ts get an error: that a choice was among them is remembered.
Fails(ts) ==
  torn' = torn \cup {call[t].fulfilment : t \in {u \in ts : call[u].kind \in Choices}}

Asks(t, kind, f, u) ==
  Goes(t, [NoCall EXCEPT !.kind = kind, !.pc = "find", !.fulfilment = f,
                         !.user = u])

\* The ids that can be asked for: nothing deletes a fulfilment.
Known == {f \in Fulfilments : fulfilments[f] # NoFulfilment}

\* Fault: the admin's page does not look at the method.
Buttons_AnyMethod(row) ==
  IF row.status = "PENDING_DISPATCH" THEN {"dispatch", "collected"} ELSE {}

\* The buttons of the admin's page of a fulfilment.
Buttons(row) ==
  IF row.status # "PENDING_DISPATCH" THEN {}
  ELSE CASE row.method = "SHIP"    -> {"dispatch"}
         [] row.method = "COLLECT" -> {"collected"}

\* The page is rendered by the server, from the row, and may stay open.
RenderAdminPage(f) ==
  /\ f \in Known /\ ~(Buttons(fulfilments[f]) \subseteq offered[f])
  /\ offered' = [offered EXCEPT ![f] = @ \cup Buttons(fulfilments[f])]
  /\ UNCHANGED << fulfilments, details, call, creating, inbox, dropped, torn, stops >>

\* A route for admins answers everybody else with 403.
AdminRoute(t, kind) == \E f \in Known : kind \in offered[f] /\ Asks(t, kind, f, Admin)

UserRoute(t, kind) ==
  \E f \in Known, u \in Winners : Asks(t, kind, f, u)

ChooseShipRoute(t)    == UserRoute(t, "ship")
ChooseCollectRoute(t) == UserRoute(t, "collect")
DispatchRoute(t)      == AdminRoute(t, "dispatch")
CollectRoute(t)       == AdminRoute(t, "collected")

\* The winner's page has a form for each way.  It does not ask what was chosen;
\* a form is disabled while it submits, but not the other one, nor that of a
\* second window.
FulfilmentPage(t) == ChooseShipRoute(t) \/ ChooseCollectRoute(t)

Request(t) ==
  /\ call[t].pc = "idle"
  /\ FulfilmentPage(t) \/ DispatchRoute(t) \/ CollectRoute(t)
  /\ UNCHANGED << fulfilments, details, creating, inbox, dropped, torn, offered, stops >>

-----------------------------------------------------------------------------
(***************************************************************************)
(* The use cases: what each asks for, and what it writes.                  *)
(***************************************************************************)
Admits(t, row) ==
  IF call[t].kind \in Choices THEN row.user = call[t].user /\ MayChoose(row)
  ELSE MayHandOver(row)

\* findById and the entity's own check: 403 or 409 if it fails.
Find(t) ==
  /\ call[t].pc = "find"
  /\ LET row == fulfilments[call[t].fulfilment]
     IN  \/ /\ Admits(t, row)
            /\ Goes(t, [call[t] EXCEPT !.pc = "save", !.seen = row])
            /\ UNCHANGED torn
         \/ ~Admits(t, row) /\ Answer(t)
  /\ UNCHANGED << fulfilments, details, creating, inbox, dropped, offered, stops >>

Written(t) ==
  CASE call[t].kind = "ship"      -> ChosenShip(call[t].seen)
    [] call[t].kind = "collect"   -> ChosenCollect(call[t].seen)
    [] call[t].kind = "dispatch"  -> MarkedDispatched(call[t].seen)
    [] call[t].kind = "collected" -> MarkedCollected(call[t].seen)

\* Fault: a choice is answered once the fulfilment is saved.
AfterSave_NoDetail(t) == NoCall

AfterSave(t) ==
  IF call[t].kind \in Choices
  THEN [call[t] EXCEPT !.pc = "detail", !.seen = NoFulfilment]
  ELSE NoCall

\* A statement that throws answers 500.
Throws(t) == DbMayFail /\ Goes(t, NoCall) /\ Fails({t})

\* ON CONFLICT (id) DO UPDATE, whatever the row has become.
Save(t) ==
  /\ call[t].pc = "save"
  /\ \/ /\ fulfilments' = [fulfilments EXCEPT ![call[t].fulfilment] = Written(t)]
        /\ Goes(t, AfterSave(t))
        /\ UNCHANGED torn
     \/ fulfilments' = fulfilments /\ Throws(t)
  /\ UNCHANGED << details, creating, inbox, dropped, offered, stops >>

MethodOf(kind) == IF kind = "ship" THEN "SHIP" ELSE "COLLECT"

\* The second statement of saveWithAddress and saveWithSlot.
SaveDetail(t) ==
  /\ call[t].pc = "detail"
  /\ \/ /\ details' = [details EXCEPT ![call[t].fulfilment] =
                         @ \cup {MethodOf(call[t].kind)}]
        /\ Answer(t)
     \/ details' = details /\ Throws(t)
  /\ UNCHANGED << fulfilments, creating, inbox, dropped, offered, stops >>

\* hydrate: is there an address or a slot to show with the method?
Hydrated(f) == fulfilments[f].method \in details[f]

-----------------------------------------------------------------------------
(***************************************************************************)
(* The consumer: one message at a time.                                    *)
(***************************************************************************)
Receive(p, u) ==
  /\ creating.pc = "idle" /\ inbox[p] > 0
  /\ creating' = [pc |-> "save", payment |-> p, user |-> u]
  /\ UNCHANGED << fulfilments, details, call, inbox, dropped, torn, offered, stops >>

\* A new id each time: nothing asks whether the lot has a fulfilment.
CreateFulfilment ==
  /\ creating.pc = "save"
  /\ \/ \E f \in Fulfilments :
          /\ fulfilments[f] = NoFulfilment
          /\ fulfilments' = [fulfilments EXCEPT ![f] =
                               Created(creating.payment, creating.user)]
          /\ creating' = [creating EXCEPT !.pc = "ack"]
     \/ /\ DbMayFail
        /\ fulfilments' = fulfilments
        /\ creating' = [creating EXCEPT !.pc = "nack"]
  /\ UNCHANGED << details, call, inbox, dropped, torn, offered, stops >>

\* Fault: the message is not acknowledged.
SettleMessage_Kept ==
  /\ creating.pc \in {"ack", "nack"}
  /\ creating' = AtRest
  /\ UNCHANGED << fulfilments, details, call, inbox, dropped, torn, offered, stops >>

\* Acknowledged, or rejected without requeueing: either way it is gone.
SettleMessage ==
  /\ creating.pc \in {"ack", "nack"}
  /\ inbox' = [inbox EXCEPT ![creating.payment] = @ - 1]
  /\ dropped' = IF creating.pc = "ack" THEN dropped
                ELSE dropped \cup {creating.payment}
  /\ creating' = AtRest
  /\ UNCHANGED << fulfilments, details, call, torn, offered, stops >>

\* The process dies: calls get no answer, the message is delivered again.
Stop ==
  /\ stops < MaxStops
  /\ stops' = stops + 1
  /\ creating' = AtRest
  /\ call' = [t \in Calls |-> NoCall]
  /\ Fails(Calls)
  /\ UNCHANGED << fulfilments, details, inbox, dropped, offered >>

-----------------------------------------------------------------------------
\* `sent' messages of each payment wait in the queue.
ShippingInit(sent) ==
  /\ fulfilments = [f \in Fulfilments |-> NoFulfilment]
  /\ details = [f \in Fulfilments |-> {}]
  /\ call = [t \in Calls |-> NoCall]
  /\ creating = AtRest
  /\ inbox = [p \in Payments |-> sent]
  /\ dropped = {}
  /\ offered = [f \in Fulfilments |-> {}]
  /\ torn = {}
  /\ stops = 0

CallStep(t) == Find(t) \/ Save(t) \/ SaveDetail(t)

\* The consumer's steps but the delivery, which the bus begins.
ConsumerStep == CreateFulfilment \/ SettleMessage

\* What the service does by itself.
ShippingStep ==
  \/ \E t \in Calls : Request(t) \/ CallStep(t)
  \/ \E f \in Fulfilments : RenderAdminPage(f)
  \/ ConsumerStep
  \/ Stop
=============================================================================
