---------------------------- MODULE ScheduleForm ----------------------------
(***************************************************************************)
(* How an auction's terms reach the engine: the admin-portal's form, the   *)
(* schema of its server action, the admin BFF and the engine's route.      *)
(* Nothing here has state; the module says which Terms an admin can really *)
(* submit.                                                                 *)
(***************************************************************************)
EXTENDS Integers

CONSTANT None   \* a field that was left out

\* What can be typed into the form: dates or none, and numbers of any kind; a
\* number left empty is read as 0.
FormEntries(dates, numbers) ==
  [startAt : dates \cup {None}, endAt : dates \cup {None}, reserve : numbers,
   increment : numbers, window : numbers, duration : numbers]

\* ScheduleAuctionSchema.  The window and the duration are not compared.
ValidEntry(e) ==
  /\ None \notin {e.startAt, e.endAt} /\ e.startAt < e.endAt
  /\ e.reserve >= 0
  /\ e.increment > 0 /\ e.window > 0 /\ e.duration > 0

\* The BFF refuses a lot known to be inactive; a failing lookup refuses nothing.
Forwards(lotStatus) == lotStatus # "INACTIVE"

Given(value, default) == IF value = None THEN default ELSE value

\* The engine's route, which insists on the dates only, whoever calls it.
RouteAccepts(body) == None \notin {body.startAt, body.endAt}

RouteTerms(body) ==
  [startAt |-> body.startAt, endAt |-> body.endAt,
   reserve |-> Given(body.reserve, 0), increment |-> Given(body.increment, 1),
   window |-> Given(body.window, 5), duration |-> Given(body.duration, 5)]

\* The terms that the form's entries for a lot turn into.
FormTerms(entries, lotStatus) ==
  {RouteTerms(e) : e \in {x \in entries : /\ ValidEntry(x)
                                          /\ Forwards(lotStatus)
                                          /\ RouteAccepts(x)}}
=============================================================================
