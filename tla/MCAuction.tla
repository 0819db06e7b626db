------------------------------ MODULE MCAuction ------------------------------
(***************************************************************************)
(* Small instances of AuctionEngine for TLC: two bidders, amounts 1 and 2  *)
(* against an increment of 1, schedules of a few minutes, which the        *)
(* admin's form lets through.                                              *)
(***************************************************************************)
EXTENDS AuctionImplementsBook, AuctionInvariant, AuctionPages, TLC

Form == INSTANCE ScheduleForm

Symmetry == Permutations(Users) \cup Permutations(Bids)

\* An extension as long as the window (the engine's default has both equal):
\* a bid at minute 0 is in time, one at minute 1 is late.
EvenTerms == {[startAt |-> 0, endAt |-> 1, reserve |-> 2, increment |-> 1,
               window |-> 1, duration |-> 1]}

\* Bound of the run race: after a crash no handler loses its lock.
OneFault == crashes = 0 \/ LockKept

\* The schedules of the runs are among those an admin can submit, and all of
\* these, numbers below zero having been tried, are such as the engine's
\* modules and theorems assume; none of them ends before it starts, and each
\* asks for a raise.
Submitted == Form!FormTerms(Form!FormEntries(0..1, -1..2), "ACTIVE")

ASSUME TermsSubmitted ==
  /\ Terms \subseteq Submitted
  /\ Submitted \subseteq [startAt : Nat, endAt : Nat, reserve : Nat,
                          increment : Nat, window : Nat, duration : Nat]
  /\ \A t \in Submitted : t.startAt <= t.endAt /\ t.increment > 0
=============================================================================
