------------------------------ MODULE SavedCards ------------------------------
(***************************************************************************)
(* apps/payment: the card a person leaves on file.                         *)
(*                                                                         *)
(* A window asks for a setup intent, gives the card to Stripe, and asks    *)
(* for the intent to be confirmed; each of the two calls reads the         *)
(* person's profile, awaits and saves the whole row.  Stripe attaches a    *)
(* card to the customer of its intent, and charges it for that one only.   *)
(***************************************************************************)
EXTENDS Integers, FiniteSets

CONSTANTS
  Windows,     \* what may be asking at one time: a tab of the browser each
  Customers,   \* bound: the Stripe customers ever made
  Nobody       \* neither a customer nor a window

VARIABLES
  profile,     \* the person's row of payment_profiles: its customer, and the
               \* customer its card was attached to
  setup,       \* what each window is doing about a card, with the calls' locals
  known,       \* the customers there are at Stripe
  overlapped   \* history: two calls found no row at a time

cardVars == << profile, setup, known, overlapped >>

NoProfile == [customer |-> Nobody, card |-> Nobody]

NoSetup == [pc |-> "idle", customer |-> Nobody, intent |-> Nobody]

ASSUME SavedCardsAssumption == Nobody \notin Customers \cup Windows

SetupGoes(w, r) == setup' = [setup EXCEPT ![w] = r]

Awaits(w, pc) == setup[w].pc = pc

\* The call is refused, or Stripe or the person says no: the window shows an error.
SetupFails(w) == SetupGoes(w, NoSetup)

\* The call throws: the answer is no JSON, and the window waits until reloaded.
SetupHangs(w) == SetupGoes(w, [NoSetup EXCEPT !.pc = "stuck"])

-----------------------------------------------------------------------------
(***************************************************************************)
(* CreateSetupIntentUseCase.                                               *)
(***************************************************************************)
\* Fault: a customer for every intent.
HasCustomer_Never(row) == FALSE

HasCustomer(row) == row # NoProfile

\* Another call has found no row and has not saved one yet.
Meets(w) == \E v \in Windows \ {w} : setup[v].pc \in {"createCustomer", "saveCustomer"}

FindProfile(w) ==
  /\ Awaits(w, "findProfile")
  /\ IF HasCustomer(profile)
     THEN /\ SetupGoes(w, [setup[w] EXCEPT !.pc = "createIntent",
                                           !.customer = profile.customer])
          /\ UNCHANGED overlapped
     ELSE /\ SetupGoes(w, [setup[w] EXCEPT !.pc = "createCustomer"])
          /\ overlapped' = (overlapped \/ Meets(w))
  /\ UNCHANGED << profile, known >>

CreateCustomer(w) ==
  /\ Awaits(w, "createCustomer")
  /\ \/ \E c \in Customers \ known :
          /\ known' = known \cup {c}
          /\ SetupGoes(w, [setup[w] EXCEPT !.pc = "saveCustomer", !.customer = c])
     \/ SetupHangs(w) /\ UNCHANGED known
  /\ UNCHANGED << profile, overlapped >>

SaveCustomer(w) ==
  /\ Awaits(w, "saveCustomer")
  /\ profile' = [NoProfile EXCEPT !.customer = setup[w].customer]
  /\ SetupGoes(w, [setup[w] EXCEPT !.pc = "createIntent"])
  /\ UNCHANGED << known, overlapped >>

CreateIntent(w) ==
  /\ Awaits(w, "createIntent")
  /\ \/ SetupGoes(w, [NoSetup EXCEPT !.pc = "confirmCard", !.intent = setup[w].customer])
     \/ SetupHangs(w)
  /\ UNCHANGED << profile, known, overlapped >>

-----------------------------------------------------------------------------
(***************************************************************************)
(* The window gives the card to Stripe, then ConfirmSetupIntentUseCase.    *)
(***************************************************************************)
ConfirmCard(w) ==
  /\ Awaits(w, "confirmCard")
  /\ \/ SetupGoes(w, [setup[w] EXCEPT !.pc = "retrieveIntent"])
     \/ SetupFails(w)
  /\ UNCHANGED << profile, known, overlapped >>

RetrieveIntent(w) ==
  /\ Awaits(w, "retrieveIntent")
  /\ \/ SetupGoes(w, [setup[w] EXCEPT !.pc = "findAgain"])
     \/ SetupFails(w)
  /\ UNCHANGED << profile, known, overlapped >>

\* existing?.stripeCustomerId ?? intent.customerId
FindAgain(w) ==
  /\ Awaits(w, "findAgain")
  /\ SetupGoes(w, [setup[w] EXCEPT !.pc = "saveCard",
       !.customer = IF profile = NoProfile THEN setup[w].intent ELSE profile.customer])
  /\ UNCHANGED << profile, known, overlapped >>

SaveCard(w) ==
  /\ Awaits(w, "saveCard")
  /\ profile' = [customer |-> setup[w].customer, card |-> setup[w].intent]
  /\ SetupGoes(w, [NoSetup EXCEPT !.pc = "saved"])
  /\ UNCHANGED << known, overlapped >>

-----------------------------------------------------------------------------
\* The person has left a card before, or has not.
CardsInit ==
  /\ profile \in {NoProfile} \cup {[customer |-> c, card |-> c] : c \in Customers}
  /\ setup = [w \in Windows |-> NoSetup]
  /\ known = {profile.customer} \ {Nobody}
  /\ overlapped = FALSE

\* What goes on by itself; "idle", "saved" and "stuck" wait for the window.
SetupStep(w) ==
  \/ FindProfile(w) \/ CreateCustomer(w) \/ SaveCustomer(w) \/ CreateIntent(w)
  \/ ConfirmCard(w) \/ RetrieveIntent(w) \/ FindAgain(w) \/ SaveCard(w)
=============================================================================
