----------------------------- MODULE AuctionBook -----------------------------
(***************************************************************************)
(* What the auction engine promises for a lot, with no handlers, locks,    *)
(* jobs or tables in sight: the lot is listed, opened, bid on, prolonged   *)
(* and settled, each in one indivisible step taken on the state as it is.  *)
(* AuctionEngine implements this, although each of its commands decides on *)
(* a copy of the state that others may have moved on from.                 *)
(***************************************************************************)
EXTENDS Integers

CONSTANTS Users, Amounts, Terms, Minutes, None

VARIABLES
  phase,    \* the status of the lot
  price,    \* the highest amount offered
  leader,   \* who offered it, None before the first offer
  ends,     \* when the auction is due to end
  rules,    \* reserve, increment, window and duration in force
  owed      \* the end a late offer is owed, until the next step: {} or {end}

vars == << phase, price, leader, ends, rules, owed >>

Init ==
  /\ phase = "DRAFT" /\ price = 0 /\ leader = None /\ ends = 0
  /\ rules = [reserve |-> 0, increment |-> 0, window |-> 0, duration |-> 0]
  /\ owed = {}

List(t) ==
  /\ phase' = "SCHEDULED" /\ ends' = t.endAt
  /\ rules' = [reserve |-> t.reserve, increment |-> t.increment,
               window |-> t.window, duration |-> t.duration]
  /\ owed' = {}
  /\ UNCHANGED << price, leader >>

Open ==
  /\ phase' = "LIVE" /\ owed' = {}
  /\ UNCHANGED << price, leader, ends, rules >>

\* Only somebody else may outbid the leader, by the increment at least.
Offer(u, a, at) ==
  /\ phase \in {"LIVE", "CLOSING"}
  /\ u # leader
  /\ a >= price + rules.increment
  /\ price' = a /\ leader' = u
  /\ owed' = IF ends - at < rules.window THEN {at + rules.duration} ELSE {}
  /\ UNCHANGED << phase, ends, rules >>

Prolong ==
  /\ \E e \in owed : ends' = e
  /\ phase' = "CLOSING" /\ owed' = {}
  /\ UNCHANGED << price, leader, rules >>

\* The verdict follows from the leader and the price at that moment.
Settle ==
  /\ phase \notin {"SOLD", "UNSOLD"}
  /\ phase' = IF leader # None /\ price >= rules.reserve THEN "SOLD"
              ELSE "UNSOLD"
  /\ owed' = {}
  /\ UNCHANGED << price, leader, ends, rules >>

Next ==
  \/ \E t \in Terms : List(t)
  \/ Open
  \/ \E u \in Users, a \in Amounts, at \in Minutes : Offer(u, a, at)
  \/ Prolong
  \/ Settle

Spec == Init /\ [][Next]_vars
=============================================================================
