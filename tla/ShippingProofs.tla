--------------------------- MODULE ShippingProofs ---------------------------
(***************************************************************************)
(* Two statements without a transaction, forms that race and a page of the *)
(* admin that is old: whoever packs the item still finds where it goes.    *)
(***************************************************************************)
EXTENDS ShippingProperties, TLAPS

\* Only the call t moves.
LEMMA CallMoves ==
  ASSUME TypeOK, NEW t \in Calls, NEW r, Goes(t, r)
  PROVE  /\ call'[t] = r
         /\ \A u \in Calls : u # t => call'[u] = call[u]
         /\ r \in CallState => call' \in [Calls -> CallState]
BY DEF TypeOK, Goes

LEMMA RestTypes ==
  /\ NoFulfilment \in Fulfilment
  /\ NoCall \in CallState /\ NoCall.pc = "idle"
BY DEF NoFulfilment, Fulfilment, NoCall, CallState

LEMMA CallType ==
  ASSUME TypeOK, NEW t \in Calls
  PROVE  /\ call[t] \in CallState /\ call[t].seen \in Fulfilment
         /\ call[t].fulfilment \in Fulfilments =>
              fulfilments[call[t].fulfilment] \in Fulfilment
BY DEF TypeOK, CallState

\* What a call does next, whichever it is.
LEMMA RequestMoves ==
  ASSUME TypeOK, NEW t \in Calls, Request(t)
  PROVE  /\ UNCHANGED << fulfilments, details, torn, offered, creating >>
         /\ call[t].pc = "idle"
         /\ \E f \in Fulfilments, kind \in Choices \cup HandOvers,
              u \in Winners \cup {Admin} :
              /\ call'[t] = [NoCall EXCEPT !.kind = kind, !.pc = "find",
                                           !.fulfilment = f, !.user = u]
              /\ kind \in HandOvers => kind \in offered[f]
         /\ \A u \in Calls : u # t => call'[u] = call[u]
         /\ call' \in [Calls -> CallState]
<1>1. /\ UNCHANGED << fulfilments, details, torn, offered, creating >>
      /\ call[t].pc = "idle"
  BY DEF Request
<1>2. PICK f \in Fulfilments, kind \in Choices \cup HandOvers,
           u \in Winners \cup {Admin} :
        /\ Asks(t, kind, f, u)
        /\ kind \in HandOvers => kind \in offered[f]
  BY DEF Request, FulfilmentPage, ChooseShipRoute, ChooseCollectRoute,
         DispatchRoute, CollectRoute, UserRoute, AdminRoute, Known, Choices,
         HandOvers
<1> DEFINE r == [NoCall EXCEPT !.kind = kind, !.pc = "find", !.fulfilment = f,
                               !.user = u]
<1>3. Goes(t, r)
  BY <1>2 DEF Asks
<1>4. r \in CallState
  BY RestTypes DEF NoCall, CallState
<1> QED BY <1>1, <1>2, <1>3, <1>4, CallMoves

\* A choice is remembered as torn where it did not come to its second
\* statement's end; otherwise nobody forgets it.
LEMMA DueStays ==
  ASSUME TypeOK, \A t \in Calls : CallInv(t), [Next]_shippingVars,
         NEW f \in Fulfilments, NEW m, DetailDue(f, m)
  PROVE  DetailDue(f, m)'
<1>1. ASSUME details'[f] = details[f], torn' = torn,
             \A t \in Calls : call[t].pc = "detail" => call'[t] = call[t]
      PROVE  DetailDue(f, m)'
  BY <1>1 DEF DetailDue
<1>2. ASSUME NEW t \in Calls, Request(t)
      PROVE  DetailDue(f, m)'
  BY <1>1, <1>2, RequestMoves
<1>3. ASSUME NEW t \in Calls, Find(t)
      PROVE  DetailDue(f, m)'
  <2>1. call[t].pc = "find" /\ details' = details /\ torn' = torn
    BY <1>3 DEF Find, Answer
  <2>2. \A u \in Calls : u # t => call'[u] = call[u]
    BY <1>3, CallMoves DEF Find, Answer
  <2> QED BY <1>1, <2>1, <2>2
<1>4. ASSUME NEW t \in Calls, Save(t)
      PROVE  DetailDue(f, m)'
  <2>1. call[t].pc = "save" /\ details' = details /\ torn \subseteq torn'
    BY <1>4 DEF Save, Throws, Fails
  <2>2. \A u \in Calls : u # t => call'[u] = call[u]
    BY <1>4, CallMoves DEF Save, Throws
  <2> QED BY <2>1, <2>2 DEF DetailDue
<1>5. ASSUME NEW t \in Calls, SaveDetail(t)
      PROVE  DetailDue(f, m)'
  <2> DEFINE g == call[t].fulfilment
  <2>1. /\ call[t].pc = "detail" /\ g \in Fulfilments /\ call[t].kind \in Choices
    BY <1>5 DEF SaveDetail, CallInv
  <2>2. \A u \in Calls : u # t => call'[u] = call[u]
    BY <1>5, CallMoves DEF SaveDetail, Throws, Answer
  <2>3. CASE /\ details' = [details EXCEPT ![g] = @ \cup {MethodOf(call[t].kind)}]
             /\ torn' = torn
    <3>1. /\ details[f] \subseteq details'[f]
          /\ MethodOf(call[t].kind) \in details'[g]
      BY <2>1, <2>3 DEF TypeOK
    <3> QED BY <2>2, <2>3, <3>1 DEF DetailDue
  <2>4. CASE details' = details /\ Throws(t)
    <3>1. torn \subseteq torn' /\ g \in torn'
      BY <2>1, <2>4 DEF Throws, Fails
    <3> QED BY <2>2, <2>4, <3>1 DEF DetailDue
  <2> QED BY <1>5, <2>3, <2>4 DEF SaveDetail, Answer
<1>6. CASE Stop
  <2>1. /\ details' = details /\ torn \subseteq torn'
        /\ \A t \in Calls : call[t].kind \in Choices => call[t].fulfilment \in torn'
    BY <1>6 DEF Stop, Fails
  <2> QED BY <2>1 DEF DetailDue
<1>7. ASSUME \/ \E g \in Fulfilments : RenderAdminPage(g)
             \/ ConsumerStep \/ UNCHANGED shippingVars
             \/ \E p \in Payments, u \in Winners : Receive(p, u)
      PROVE  details' = details /\ torn' = torn /\ call' = call
  BY <1>7 DEF RenderAdminPage, ConsumerStep, CreateFulfilment, SettleMessage,
              Receive, shippingVars
<1> QED BY <1>1, <1>2, <1>3, <1>4, <1>5, <1>6, <1>7
        DEF Next, ShippingStep, CallStep

\* An invariant of the rows and the calls, where the rows stand.
LEMMA RowsStand ==
  ASSUME ShippingSound, [Next]_shippingVars,
         UNCHANGED << fulfilments, offered >>
  PROVE  \A f \in Fulfilments : RowInv(f)'
<1> SUFFICES ASSUME NEW f \in Fulfilments PROVE RowInv(f)'
  OBVIOUS
<1>1. \A m \in FulfilmentMethod : DetailDue(f, m) => DetailDue(f, m)'
  BY DueStays DEF ShippingSound
<1>2. fulfilments[f].method # None => fulfilments[f].method \in FulfilmentMethod
  BY DEF ShippingSound, TypeOK, Fulfilment
<1>3. \A button : MethodFor(button) \in FulfilmentMethod
  BY DEF MethodFor, FulfilmentMethod
<1> QED BY <1>1, <1>2, <1>3 DEF RowInv, ShippingSound, FulfilmentMethod

LEMMA CallStands ==
  ASSUME ShippingSound, [Next]_shippingVars, NEW t \in Calls,
         call'[t] = call[t]
  PROVE  CallInv(t)'
<1>1. CallInv(t) /\ call[t] \in CallState
  BY CallType DEF ShippingSound
<1>2. \A f \in Fulfilments, m \in FulfilmentMethod :
        DetailDue(f, m) => DetailDue(f, m)'
  BY DueStays DEF ShippingSound
<1>3. call[t].seen.method # None => call[t].seen.method \in FulfilmentMethod
  BY <1>1 DEF CallState, Fulfilment
<1>4. MethodFor(call[t].kind) \in FulfilmentMethod
  BY DEF MethodFor, FulfilmentMethod
<1> QED BY <1>1, <1>2, <1>3, <1>4 DEF CallInv

LEMMA IdleInv ==
  ASSUME NEW t \in Calls, call'[t] = NoCall
  PROVE  CallInv(t)'
BY DEF CallInv, NoCall

-----------------------------------------------------------------------------
(***************************************************************************)
(* The steps.                                                              *)
(***************************************************************************)

\* A call that comes from a page was offered by it.
LEMMA RequestSound ==
  ASSUME ShippingSound, [Next]_shippingVars, NEW t \in Calls, Request(t)
  PROVE  ShippingSound'
<1>1. TypeOK'
  BY RequestMoves DEF ShippingSound, TypeOK
<1>2. \A f \in Fulfilments : RowInv(f)'
  BY RequestMoves, RowsStand DEF ShippingSound
<1>3. CallInv(t)'
  <2>1. PICK f \in Fulfilments, kind \in Choices \cup HandOvers,
             u \in Winners \cup {Admin} :
          /\ call'[t] = [NoCall EXCEPT !.kind = kind, !.pc = "find",
                                       !.fulfilment = f, !.user = u]
          /\ kind \in HandOvers => kind \in offered[f]
    BY RequestMoves DEF ShippingSound
  <2>2. /\ call'[t].pc = "find" /\ call'[t].kind = kind
        /\ call'[t].fulfilment = f
    BY <2>1 DEF NoCall
  <2>3. kind \in HandOvers => DetailDue(f, MethodFor(kind))'
    BY <2>1, DueStays DEF ShippingSound, RowInv
  <2> QED BY <2>2, <2>3 DEF CallInv, Choices, HandOvers
<1>4. \A u \in Calls : u # t => CallInv(u)'
  BY RequestMoves, CallStands DEF ShippingSound
<1> QED BY <1>1, <1>2, <1>3, <1>4 DEF ShippingSound

\* The entity's check lets through only what has not gone yet.
LEMMA FindSound ==
  ASSUME ShippingSound, [Next]_shippingVars, NEW t \in Calls, Find(t)
  PROVE  ShippingSound'
<1> DEFINE c == call[t]
           row == fulfilments[c.fulfilment]
           r == [c EXCEPT !.pc = "save", !.seen = row]
<1>1. /\ c.pc = "find" /\ c \in CallState /\ CallInv(t)
      /\ c.kind \in Choices \cup HandOvers
      /\ c.fulfilment \in Fulfilments /\ row \in Fulfilment
      /\ UNCHANGED << fulfilments, details, torn, offered, creating >>
  BY CallType DEF ShippingSound, Find, Answer, CallInv, CallState
<1>2. /\ \/ call'[t] = r /\ Admits(t, row)
         \/ call'[t] = NoCall
      /\ \A u \in Calls : u # t => call'[u] = call[u]
      /\ call' \in [Calls -> CallState]
  <2>1. r \in CallState
    BY <1>1 DEF CallState
  <2>2. \/ Admits(t, row) /\ Goes(t, r)
        \/ Goes(t, NoCall)
    BY DEF Find, Answer
  <2> QED BY <2>1, <2>2, CallMoves, RestTypes DEF ShippingSound
<1>3. TypeOK'
  BY <1>1, <1>2 DEF ShippingSound, TypeOK
<1>4. \A f \in Fulfilments : RowInv(f)'
  BY <1>1, RowsStand
<1>5. ASSUME call'[t] = r, Admits(t, row)
      PROVE  CallInv(t)'
  <2>1. /\ call'[t].pc = "save" /\ call'[t].kind = c.kind
        /\ call'[t].fulfilment = c.fulfilment /\ call'[t].seen = row
    BY <1>1, <1>5 DEF CallState
  <2>2. RowInv(c.fulfilment)
    BY <1>1 DEF ShippingSound
  <2>3. c.kind \in Choices => row.status \in {"ABSENT", "PENDING_CHOICE"}
    BY <1>5, <2>2 DEF Admits, MayChoose, RowInv
  <2>4. CASE c.kind \in HandOvers
    <3>1. row.status = "PENDING_DISPATCH" /\ row.method # None
      BY <1>5, <2>2, <2>4 DEF Admits, MayHandOver, RowInv, Choices, HandOvers
    <3>2. DetailDue(c.fulfilment, row.method)
      BY <2>2, <3>1 DEF RowInv
    <3>3. DetailDue(c.fulfilment, MethodFor(c.kind))
      BY <1>1, <2>4 DEF CallInv
    <3>4. \A f \in Fulfilments : \A m : DetailDue(f, m) => DetailDue(f, m)'
      BY DueStays DEF ShippingSound
    <3> QED BY <1>1, <2>1, <2>4, <3>1, <3>2, <3>3, <3>4
            DEF CallInv, Choices, HandOvers
  <2>5. CASE c.kind \in Choices
    BY <1>1, <2>1, <2>3, <2>5 DEF CallInv, Choices, HandOvers
  <2> QED BY <1>1, <2>4, <2>5
<1>6. CallInv(t)'
  BY <1>2, <1>5, IdleInv
<1>7. \A u \in Calls : u # t => CallInv(u)'
  BY <1>2, CallStands
<1> QED BY <1>3, <1>4, <1>6, <1>7 DEF ShippingSound

\* What a call writes over the row: the detail it names is due.
LEMMA WrittenSound ==
  ASSUME ShippingSound, NEW t \in Calls, call[t].pc = "save"
  PROVE  LET w == Written(t) IN
           /\ w \in Fulfilment /\ w.method \in FulfilmentMethod
           /\ w.status \in {"PENDING_DISPATCH", "DISPATCHED", "COLLECTED"}
           /\ w.status = "DISPATCHED" => call[t].kind = "dispatch"
           /\ w.status = "COLLECTED" => call[t].kind = "collected"
           /\ call[t].kind \in Choices => w.method = MethodOf(call[t].kind)
           /\ call[t].kind \in HandOvers => w.method = call[t].seen.method
<1>1. /\ CallInv(t) /\ call[t] \in CallState /\ call[t].seen \in Fulfilment
      /\ call[t].kind \in Choices \cup HandOvers
  BY CallType DEF ShippingSound, CallInv, CallState
<1>2. CASE call[t].kind = "ship"
  BY <1>1, <1>2 DEF Written, ChosenShip, Fulfilment, FulfilmentMethod,
                    FulfilmentStatus, MethodOf, Choices, HandOvers
<1>3. CASE call[t].kind = "collect"
  BY <1>1, <1>3 DEF Written, ChosenCollect, Fulfilment, FulfilmentMethod,
                    FulfilmentStatus, MethodOf, Choices, HandOvers
<1>4. ASSUME call[t].kind \in HandOvers
      PROVE  call[t].seen.method \in FulfilmentMethod
  BY <1>1, <1>4 DEF CallInv, Fulfilment
<1>5. CASE call[t].kind = "dispatch"
  BY <1>1, <1>4, <1>5 DEF Written, MarkedDispatched, Fulfilment,
                          FulfilmentStatus, Choices, HandOvers
<1>6. CASE call[t].kind = "collected"
  BY <1>1, <1>4, <1>6 DEF Written, MarkedCollected, Fulfilment,
                          FulfilmentStatus, Choices, HandOvers
<1> QED BY <1>1, <1>2, <1>3, <1>5, <1>6 DEF Choices, HandOvers

\* The row is written whatever it has become, and what is relied on is due.
LEMMA SaveSound ==
  ASSUME ShippingSound, [Next]_shippingVars, NEW t \in Calls, Save(t)
  PROVE  ShippingSound'
<1> DEFINE c == call[t]
           g == c.fulfilment
           w == Written(t)
<1>1. /\ c.pc = "save" /\ c \in CallState /\ CallInv(t)
      /\ c.kind \in Choices \cup HandOvers /\ g \in Fulfilments
      /\ UNCHANGED << details, offered, creating >>
  BY CallType DEF ShippingSound, Save, CallInv, CallState
<1>2. CASE fulfilments' = fulfilments /\ Throws(t)
  <2>1. /\ call'[t] = NoCall /\ \A u \in Calls : u # t => call'[u] = call[u]
        /\ call' \in [Calls -> CallState]
    BY <1>2, CallMoves, RestTypes DEF Throws, ShippingSound
  <2>2. TypeOK'
    BY <1>1, <1>2, <2>1 DEF ShippingSound, TypeOK
  <2>3. \A f \in Fulfilments : RowInv(f)'
    BY <1>1, <1>2, RowsStand
  <2>4. \A u \in Calls : CallInv(u)'
    BY <2>1, IdleInv, CallStands
  <2> QED BY <2>2, <2>3, <2>4 DEF ShippingSound
<1>3. ASSUME fulfilments' = [fulfilments EXCEPT ![g] = w],
             Goes(t, AfterSave(t)), NEW h \in Fulfilments, h = g,
             NEW m \in FulfilmentMethod, m = w.method
      PROVE  ShippingSound'
  <2>1. /\ \/ /\ c.kind \in Choices
              /\ call'[t] = [c EXCEPT !.pc = "detail", !.seen = NoFulfilment]
           \/ call'[t] = NoCall
        /\ \A u \in Calls : u # t => call'[u] = call[u]
        /\ call' \in [Calls -> CallState]
        /\ c.kind \in Choices =>
             call'[t] = [c EXCEPT !.pc = "detail", !.seen = NoFulfilment]
    <3>1. AfterSave(t) \in CallState
      BY <1>1, RestTypes DEF AfterSave, CallState
    <3> QED BY <1>3, <3>1, CallMoves DEF AfterSave, ShippingSound
  <2>2. /\ w \in Fulfilment /\ w.method \in FulfilmentMethod
        /\ w.status \in {"PENDING_DISPATCH", "DISPATCHED", "COLLECTED"}
        /\ w.status = "DISPATCHED" => c.kind = "dispatch"
        /\ w.status = "COLLECTED" => c.kind = "collected"
        /\ c.kind \in Choices => w.method = MethodOf(c.kind)
        /\ c.kind \in HandOvers => w.method = c.seen.method
    BY <1>1, WrittenSound
  <2> HIDE DEF w
  <2>3. TypeOK'
    BY <1>1, <1>3, <2>1, <2>2 DEF ShippingSound, TypeOK
  <2>4. CallInv(t)'
    <3>1. CASE call'[t] = NoCall
      BY <3>1, IdleInv
    <3>2. CASE /\ c.kind \in Choices
               /\ call'[t] = [c EXCEPT !.pc = "detail", !.seen = NoFulfilment]
      <4>1. /\ call'[t].pc = "detail" /\ call'[t].kind = c.kind
            /\ call'[t].fulfilment = g
        BY <1>1, <3>2 DEF CallState
      <4> QED BY <1>1, <3>2, <4>1 DEF CallInv, Choices, HandOvers
    <3> QED BY <2>1, <3>1, <3>2
  <2>5. DetailDue(h, m)'
    <3>1. CASE c.kind \in Choices
      <4>1. /\ call'[t].pc = "detail" /\ call'[t].kind = c.kind
            /\ call'[t].fulfilment = g
        BY <1>1, <2>1, <3>1 DEF CallState
      <4> QED BY <1>3, <2>2, <3>1, <4>1 DEF DetailDue
    <3>2. CASE c.kind \in HandOvers
      <4>1. DetailDue(h, m)
        BY <1>1, <1>3, <2>2, <3>2 DEF CallInv
      <4> QED BY <4>1, DueStays DEF ShippingSound
    <3> QED BY <1>1, <3>1, <3>2
  <2>6. /\ c.kind = "dispatch" => DetailDue(h, "SHIP")'
        /\ c.kind = "collected" => DetailDue(h, "COLLECT")'
    <3>1. /\ c.kind = "dispatch" => DetailDue(h, "SHIP")
          /\ c.kind = "collected" => DetailDue(h, "COLLECT")
      BY <1>1, <1>3 DEF CallInv, HandOvers, MethodFor
    <3> QED BY <3>1, DueStays DEF ShippingSound
  <2>7. /\ \A f \in Fulfilments : f # h => fulfilments'[f] = fulfilments[f]
        /\ fulfilments'[h] = w
    BY <1>1, <1>3 DEF ShippingSound, TypeOK
  <2>8. \A f \in Fulfilments, n \in FulfilmentMethod :
          DetailDue(f, n) => DetailDue(f, n)'
    BY DueStays DEF ShippingSound
  <2>9. \A button : MethodFor(button) \in FulfilmentMethod
    BY DEF MethodFor, FulfilmentMethod
  <2>10. ASSUME NEW f \in Fulfilments
         PROVE  /\ f # h => RowInv(f)'
                /\ \A button \in offered'[f] : DetailDue(f, MethodFor(button))'
    <3>1. RowInv(f)
      BY DEF ShippingSound
    <3>2. fulfilments[f].method # None => fulfilments[f].method \in FulfilmentMethod
      BY DEF ShippingSound, TypeOK, Fulfilment
    <3> QED BY <1>1, <2>7, <2>8, <2>9, <3>1, <3>2 DEF RowInv, FulfilmentMethod
  <2>11. RowInv(h)'
    <3>1. w.method # None
      BY <2>2, ShippingAssumption DEF FulfilmentMethod
    <3>2. w.status = "DISPATCHED" => DetailDue(h, "SHIP")'
      BY <2>2, <2>6
    <3>3. w.status = "COLLECTED" => DetailDue(h, "COLLECT")'
      BY <2>2, <2>6
    <3> QED BY <1>1, <1>3, <2>2, <2>5, <2>7, <2>10, <3>1, <3>2, <3>3 DEF RowInv
  <2>12. \A u \in Calls : u # t => CallInv(u)'
    BY <2>1, CallStands
  <2> QED BY <2>3, <2>4, <2>10, <2>11, <2>12 DEF ShippingSound
<1>4. w.method \in FulfilmentMethod
  BY <1>1, WrittenSound
<1> QED BY <1>1, <1>2, <1>3, <1>4 DEF Save

\* The second statement of a choice stores the detail.
LEMMA SaveDetailSound ==
  ASSUME ShippingSound, [Next]_shippingVars, NEW t \in Calls, SaveDetail(t)
  PROVE  ShippingSound'
<1>1. /\ call'[t] = NoCall /\ \A u \in Calls : u # t => call'[u] = call[u]
      /\ call' \in [Calls -> CallState]
      /\ UNCHANGED << fulfilments, offered, creating >>
  BY CallMoves, RestTypes DEF SaveDetail, Answer, Throws, ShippingSound
<1>2. details' \in [Fulfilments -> SUBSET FulfilmentMethod]
  <2>1. \A kind : MethodOf(kind) \in FulfilmentMethod
    BY DEF MethodOf, FulfilmentMethod
  <2> QED BY <2>1 DEF SaveDetail, ShippingSound, TypeOK
<1>3. TypeOK'
  BY <1>1, <1>2 DEF ShippingSound, TypeOK
<1>4. \A f \in Fulfilments : RowInv(f)'
  BY <1>1, RowsStand
<1>5. \A u \in Calls : CallInv(u)'
  BY <1>1, IdleInv, CallStands
<1> QED BY <1>3, <1>4, <1>5 DEF ShippingSound

\* A button is offered for a method that was chosen.
LEMMA RenderSound ==
  ASSUME ShippingSound, [Next]_shippingVars, NEW g \in Fulfilments,
         RenderAdminPage(g)
  PROVE  ShippingSound'
<1> DEFINE row == fulfilments[g]
<1>1. /\ UNCHANGED << fulfilments, details, call, torn, creating >>
      /\ offered' = [offered EXCEPT ![g] = @ \cup Buttons(row)]
      /\ row \in Fulfilment /\ RowInv(g)
  BY DEF RenderAdminPage, ShippingSound, TypeOK
<1>2. \A button \in Buttons(row) :
        button \in HandOvers /\ row.method = MethodFor(button)
  <2>1. row.status = "PENDING_DISPATCH" => row.method \in {"SHIP", "COLLECT"}
    BY <1>1 DEF RowInv, Fulfilment, FulfilmentMethod
  <2>2. CASE row.status # "PENDING_DISPATCH"
    <3>1. Buttons(row) = {}
      BY <2>2 DEF Buttons
    <3> QED BY <3>1
  <2>3. CASE row.status = "PENDING_DISPATCH" /\ row.method = "SHIP"
    BY <2>3 DEF Buttons, HandOvers, MethodFor
  <2>4. CASE row.status = "PENDING_DISPATCH" /\ row.method = "COLLECT"
    BY <2>4 DEF Buttons, HandOvers, MethodFor
  <2> QED BY <2>1, <2>2, <2>3, <2>4
<1>3. TypeOK'
  BY <1>1, <1>2 DEF ShippingSound, TypeOK
<1>4. ASSUME NEW f \in Fulfilments
      PROVE  RowInv(f)'
  <2>1. \A m : DetailDue(f, m)' <=> DetailDue(f, m)
    BY <1>1 DEF DetailDue
  <2>2. RowInv(f)
    BY DEF ShippingSound
  <2>3. \A button \in offered'[f] :
          button \in offered[f] \/ (f = g /\ button \in Buttons(row))
    BY <1>1 DEF ShippingSound, TypeOK
  <2>4. \A button \in Buttons(row) : DetailDue(g, MethodFor(button))
    BY <1>1, <1>2, ShippingAssumption DEF RowInv, MethodFor
  <2>5. \A button \in offered'[f] : DetailDue(f, MethodFor(button))'
    BY <2>1, <2>2, <2>3, <2>4 DEF RowInv
  <2> QED BY <1>1, <2>1, <2>2, <2>5 DEF RowInv
<1>5. \A t \in Calls : CallInv(t)'
  BY <1>1, CallStands
<1> QED BY <1>3, <1>4, <1>5 DEF ShippingSound

\* A new fulfilment takes the place of none.
LEMMA CreateSound ==
  ASSUME ShippingSound, [Next]_shippingVars, CreateFulfilment
  PROVE  ShippingSound'
<1>1. UNCHANGED << details, call, torn, offered >>
  BY DEF CreateFulfilment
<1>2. creating' \in [pc : {"idle", "save", "ack", "nack"},
                     payment : Payments \cup {None}, user : Winners \cup {None}]
  BY DEF CreateFulfilment, ShippingSound, TypeOK
<1>3. \A t \in Calls : CallInv(t)'
  BY <1>1, CallStands
<1>4. CASE fulfilments' = fulfilments
  <2>1. TypeOK'
    BY <1>1, <1>2, <1>4 DEF ShippingSound, TypeOK
  <2> QED BY <1>1, <1>3, <1>4, <2>1, RowsStand DEF ShippingSound
<1>5. ASSUME NEW g \in Fulfilments, NEW row, 
             row = Created(creating.payment, creating.user),
             fulfilments' = [fulfilments EXCEPT ![g] = row]
      PROVE  ShippingSound'
  <2>1. /\ row \in Fulfilment /\ row.method = None
        /\ row.status = "PENDING_CHOICE"
    BY <1>5 DEF Created, Fulfilment, FulfilmentStatus, ShippingSound, TypeOK
  <2>2. TypeOK'
    BY <1>1, <1>2, <1>5, <2>1 DEF ShippingSound, TypeOK
  <2>3. ASSUME NEW f \in Fulfilments
        PROVE  RowInv(f)'
    <3>1. RowInv(f) /\ \A m : DetailDue(f, m)' <=> DetailDue(f, m)
      BY <1>1 DEF DetailDue, ShippingSound
    <3>2. fulfilments'[f] = IF f = g THEN row ELSE fulfilments[f]
      BY <1>5 DEF ShippingSound, TypeOK
    <3> QED BY <1>1, <2>1, <3>1, <3>2 DEF RowInv
  <2> QED BY <1>3, <2>2, <2>3 DEF ShippingSound
<1> QED BY <1>4, <1>5 DEF CreateFulfilment

\* The rest touches neither rows nor buttons, and no call but to end it.
LEMMA RestSound ==
  ASSUME ShippingSound, [Next]_shippingVars,
         \/ SettleMessage \/ Stop \/ UNCHANGED shippingVars
         \/ \E p \in Payments, u \in Winners : Receive(p, u)
  PROVE  ShippingSound'
<1>1. /\ UNCHANGED << fulfilments, details, offered >>
      /\ call' = call \/ call' = [t \in Calls |-> NoCall]
  BY DEF SettleMessage, Stop, Receive, shippingVars
<1>2. creating' \in [pc : {"idle", "save", "ack", "nack"},
                     payment : Payments \cup {None}, user : Winners \cup {None}]
  BY DEF SettleMessage, Stop, Receive, shippingVars, AtRest, ShippingSound, TypeOK
<1>3. TypeOK'
  BY <1>1, <1>2, RestTypes DEF ShippingSound, TypeOK
<1>4. \A f \in Fulfilments : RowInv(f)'
  BY <1>1, RowsStand
<1>5. \A t \in Calls : CallInv(t)'
  BY <1>1, CallStands, IdleInv
<1> QED BY <1>3, <1>4, <1>5 DEF ShippingSound

LEMMA StepSound ==
  ASSUME ShippingSound, [Next]_shippingVars
  PROVE  ShippingSound'
BY RequestSound, FindSound, SaveSound, SaveDetailSound, RenderSound,
   CreateSound, RestSound DEF Next, ShippingStep, CallStep, ConsumerStep

-----------------------------------------------------------------------------
(***************************************************************************)
(* The invariant and what follows from it.                                 *)
(***************************************************************************)

\* Whichever choices, buttons and failures race, the details that anybody
\* relies on are stored, under way or known to have been cut short.
THEOREM ShippingAlwaysSound == Spec => []ShippingSound
<1>1. Init => ShippingSound
  <2> SUFFICES ASSUME Init PROVE ShippingSound
    OBVIOUS
  <2>1. TypeOK
    BY RestTypes DEF Init, ShippingInit, TypeOK, AtRest
  <2>2. \A f \in Fulfilments : RowInv(f)
    BY DEF Init, ShippingInit, RowInv, NoFulfilment
  <2>3. \A t \in Calls : CallInv(t)
    BY DEF Init, ShippingInit, CallInv, NoCall
  <2> QED BY <2>1, <2>2, <2>3 DEF ShippingSound
<1>2. ShippingSound /\ [Next]_shippingVars => ShippingSound'
  BY StepSound
<1> QED BY <1>1, <1>2, PTL DEF Spec

\* Whoever packs the item finds where it goes, and it goes the way that was
\* chosen, unless a choice was cut short.
THEOREM DetailsAlwaysKept == Spec => []DetailsKept
<1>1. ShippingSound => DetailsKept
  <2> SUFFICES ASSUME ShippingSound, NEW f \in Fulfilments
               PROVE  LET row == fulfilments[f] IN
                      /\ row.method # None => Hydrated(f) \/ HalfChosen(f)
                      /\ \/ row.status = "DISPATCHED" /\ row.method # "SHIP"
                         \/ row.status = "COLLECTED" /\ row.method # "COLLECT"
                         => details[f] = FulfilmentMethod \/ HalfChosen(f)
    BY DEF DetailsKept
  <2> DEFINE row == fulfilments[f]
  <2>1. /\ RowInv(f) /\ row \in Fulfilment /\ details[f] \subseteq FulfilmentMethod
    BY DEF ShippingSound, TypeOK
  <2>2. \A m : DetailDue(f, m) => m \in details[f] \/ HalfChosen(f)
    BY DEF DetailDue, HalfChosen
  <2>3. row.status \in {"DISPATCHED", "COLLECTED"} =>
          row.method \in FulfilmentMethod /\ DetailDue(f, row.method)
    BY <2>1 DEF RowInv, Fulfilment
  <2>4. {"SHIP", "COLLECT"} \subseteq details[f] => details[f] = FulfilmentMethod
    BY <2>1 DEF FulfilmentMethod
  <2>5. row.method # None => Hydrated(f) \/ HalfChosen(f)
    BY <2>1, <2>2 DEF RowInv, Hydrated
  <2>6. CASE row.status = "DISPATCHED" /\ row.method # "SHIP"
    <3>1. DetailDue(f, "SHIP") /\ DetailDue(f, "COLLECT")
      BY <2>1, <2>3, <2>6 DEF RowInv, FulfilmentMethod
    <3> QED BY <2>2, <2>4, <2>5, <3>1
  <2>7. CASE row.status = "COLLECTED" /\ row.method # "COLLECT"
    <3>1. DetailDue(f, "SHIP") /\ DetailDue(f, "COLLECT")
      BY <2>1, <2>3, <2>7 DEF RowInv, FulfilmentMethod
    <3> QED BY <2>2, <2>4, <2>5, <3>1
  <2> QED BY <2>5, <2>6, <2>7
<1> QED BY <1>1, ShippingAlwaysSound, PTL

\* What was handed over is moved only by a call that had read the fulfilment
\* before.
THEOREM HandedOverAlwaysStands == Spec => HandedOverStands
<1>1. ASSUME ShippingSound, [Next]_shippingVars, NEW f \in Fulfilments,
             fulfilments[f].status \in {"DISPATCHED", "COLLECTED"},
             fulfilments'[f] # fulfilments[f]
      PROVE  \E t \in Calls : WritesOld(t, f)
  <2>1. PICK t \in Calls : Save(t) /\ fulfilments' # fulfilments
    <3>1. ASSUME CreateFulfilment
          PROVE  fulfilments'[f] = fulfilments[f]
      <4>1. PICK g, r : \/ fulfilments' = fulfilments
                        \/ /\ fulfilments[g] = NoFulfilment
                           /\ fulfilments' = [fulfilments EXCEPT ![g] = r]
        BY <3>1 DEF CreateFulfilment
      <4>2. f # g \/ fulfilments' = fulfilments
        BY <1>1, <4>1 DEF NoFulfilment
      <4> QED BY <1>1, <4>1, <4>2 DEF ShippingSound, TypeOK
    <3>2. ASSUME \/ \E t \in Calls : Request(t) \/ Find(t) \/ SaveDetail(t)
                 \/ \E g \in Fulfilments : RenderAdminPage(g)
                 \/ SettleMessage \/ Stop \/ UNCHANGED shippingVars
                 \/ \E p \in Payments, u \in Winners : Receive(p, u)
          PROVE  fulfilments' = fulfilments
      BY <3>2 DEF Request, Find, SaveDetail, RenderAdminPage, SettleMessage,
                  Stop, Receive, shippingVars
    <3> QED BY <1>1, <3>1, <3>2 DEF Next, ShippingStep, CallStep, ConsumerStep
  <2>2. /\ call[t].pc = "save" /\ call[t].fulfilment = f
    BY <1>1, <2>1 DEF Save, ShippingSound, TypeOK
  <2>3. call[t].seen.status \in {"ABSENT", "PENDING_CHOICE", "PENDING_DISPATCH"}
    <3>1. CallInv(t) /\ call[t] \in CallState
      BY <1>1, CallType DEF ShippingSound
    <3> QED BY <2>2, <3>1 DEF CallInv, CallState
  <2> QED BY <1>1, <2>2, <2>3 DEF WritesOld
<1>2. ShippingSound /\ [Next]_shippingVars =>
        [\A f \in Fulfilments :
           /\ fulfilments[f].status \in {"DISPATCHED", "COLLECTED"}
           /\ fulfilments'[f] # fulfilments[f]
           => \E t \in Calls : WritesOld(t, f)]_shippingVars
  BY <1>1
<1> QED BY <1>2, ShippingAlwaysSound, PTL DEF Spec, HandedOverStands
=============================================================================
