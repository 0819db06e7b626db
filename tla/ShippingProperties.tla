------------------------- MODULE ShippingProperties -------------------------
(***************************************************************************)
(* The shipping service on its own, told of every payment, and what the    *)
(* house may rely on when it hands an item over.                           *)
(***************************************************************************)
EXTENDS Shipping

\* The message of a payment names who won the lot.
Init == ShippingInit(1)

Next == ShippingStep \/ \E p \in Payments, u \in Winners : Receive(p, u)

Spec == Init /\ [][Next]_shippingVars

\* A call about to write to f what it made of an older row.
WritesOld(t, f) ==
  /\ call[t].pc = "save" /\ call[t].fulfilment = f
  /\ call[t].seen # fulfilments[f]

\* An item that was handed over is not sent or handed over again, but for a
\* call that had read the fulfilment before it was.
HandedOverStands ==
  [][\A f \in Fulfilments :
       /\ fulfilments[f].status \in {"DISPATCHED", "COLLECTED"}
       /\ fulfilments'[f] # fulfilments[f]
       => \E t \in Calls : WritesOld(t, f)]_shippingVars

\* A choice of f has ended in an error or a stop at any time so far, even one
\* that had written nothing yet, or one is between its two statements.
HalfChosen(f) ==
  \/ f \in torn
  \/ \E t \in Calls : call[t].pc = "detail" /\ call[t].fulfilment = f

\* Whoever packs the item finds where it goes: a fulfilment with a method has
\* a row that hydrate shows with it, whichever choices raced.  And it goes the
\* way that was chosen, although the service does not compare the two: the
\* admin's page, however old, sees to it, unless two choices raced.  Nothing
\* is said of a fulfilment a choice of which failed.
DetailsKept ==
  \A f \in Fulfilments :
    /\ fulfilments[f].method # None => Hydrated(f) \/ HalfChosen(f)
    /\ \/ fulfilments[f].status = "DISPATCHED" /\ fulfilments[f].method # "SHIP"
       \/ fulfilments[f].status = "COLLECTED" /\ fulfilments[f].method # "COLLECT"
       => details[f] = FulfilmentMethod \/ HalfChosen(f)

-----------------------------------------------------------------------------
\* The inductive invariant of Shipping: where the detail of a method that
\* somebody relies on is, and what a call may write back.

\* The variables have the types the code gives them.
TypeOK ==
  /\ fulfilments \in [Fulfilments -> Fulfilment]
  /\ details \in [Fulfilments -> SUBSET FulfilmentMethod]
  /\ call \in [Calls -> CallState]
  /\ creating \in [pc : {"idle", "save", "ack", "nack"},
                   payment : Payments \cup {None}, user : Winners \cup {None}]
  /\ offered \in [Fulfilments -> SUBSET HandOvers]

\* The detail of method m is stored, or its choice is under way or was cut
\* short.  Once true of f and m, it stays true.
DetailDue(f, m) ==
  \/ m \in details[f]
  \/ f \in torn
  \/ \E t \in Calls : /\ call[t].pc = "detail" /\ call[t].fulfilment = f
                      /\ call[t].kind \in Choices /\ MethodOf(call[t].kind) = m

\* The method a button of the admin's page is for.
MethodFor(button) == IF button = "dispatch" THEN "SHIP" ELSE "COLLECT"

\* A row has a method once it was chosen, and then the detail is due; and
\* whoever was handed the item pressed a button that was shown for a reason.
RowInv(f) ==
  LET row == fulfilments[f] IN
    /\ row.method = None <=> row.status \in {"ABSENT", "PENDING_CHOICE"}
    /\ row.method # None => DetailDue(f, row.method)
    /\ row.status = "DISPATCHED" => DetailDue(f, "SHIP")
    /\ row.status = "COLLECTED" => DetailDue(f, "COLLECT")
    /\ \A button \in offered[f] : DetailDue(f, MethodFor(button))

\* A call decided on a row that had not been handed over.
CallInv(t) ==
  LET c == call[t] IN
    /\ c.pc # "idle" => c.kind # "none" /\ c.fulfilment \in Fulfilments
    /\ c.pc = "detail" => c.kind \in Choices
    /\ c.pc # "idle" /\ c.kind \in HandOvers =>
         DetailDue(c.fulfilment, MethodFor(c.kind))
    /\ c.pc = "save" /\ c.kind \in Choices =>
         c.seen.status \in {"ABSENT", "PENDING_CHOICE"}
    /\ c.pc = "save" /\ c.kind \in HandOvers =>
         /\ c.seen.status = "PENDING_DISPATCH" /\ c.seen.method # None
         /\ DetailDue(c.fulfilment, c.seen.method)

ShippingSound ==
  /\ TypeOK
  /\ \A f \in Fulfilments : RowInv(f)
  /\ \A t \in Calls : CallInv(t)
=============================================================================
