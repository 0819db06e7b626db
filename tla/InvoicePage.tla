---------------------------- MODULE InvoicePage ----------------------------
(***************************************************************************)
(* The winner's page of an invoice in apps/user-portal, and the admin's in *)
(* apps/admin-portal: who calls the payment service, and when they may.    *)
(*                                                                         *)
(* The winner's page shows what the service answered when it last asked,   *)
(* and disables its buttons while a call of its own is under way.  A call  *)
(* goes through a route handler of the portal and outlives a reload of the *)
(* page.  The admin's page is rendered on the server and keeps the buttons *)
(* it was rendered with.                                                   *)
(***************************************************************************)
EXTENDS Payment

CONSTANT MaxReloads   \* bound: reloads while a call is under way

ASSUME InvoicePageAssumption == MaxReloads \in Nat

VARIABLES
  page,      \* the winner's page
  reloads,   \* reloads while the page said "Processing..."
  extends    \* history: the due dates an admin asked for

pageVars == << page, reloads, extends >>

-----------------------------------------------------------------------------
\* `call' is the request the page waits for, and isPaying while there is one;
\* the page is as good as closed while it has not called.
Ready == [call |-> None, kind |-> "none"]

\* GET /api/payments/invoices/:id as the winner.  A page that was told early
\* may stay open: it shows any status that the invoice has had, or none after
\* an error.
MayShow(i) == IF rows[i] = NoRow THEN {} ELSE {"AWAITING_PAYMENT", rows[i].status}

\* Fault: the buttons are not disabled while a call is under way.
MayPay_Twice(i) == MayShow(i) \ {"PAID"} # {}

\* The buttons are there for an invoice that is not PAID.
MayPay(i) == MayShow(i) \ {"PAID"} # {} /\ page.call = None

Pay(t, kind) ==
  /\ kind \in Kinds
  /\ \E i \in Invoices : MayPay(i) /\ Begin(t, kind, i)
  /\ page' = [call |-> t, kind |-> kind]
  /\ UNCHANGED << reloads, extends >>

PaySavedCard(t) == Pay(t, "savedCard")

PayByCheckout(t) == Pay(t, "checkout")

\* The call has ended and the page has its answer: it shows the error, asks for
\* the invoice again, or leaves for Stripe's page.  A use case that threw is
\* answered with JSON on the checkout's route only; on the other, and when the
\* connection breaks, res.json() or fetch rejects, nobody catches it, and the
\* buttons stay disabled: this step never comes.
Answered(t) ==
  /\ page.call = t
  /\ \/ task[t].pc = "done"
     \/ task[t].pc = "threw" /\ page.kind = "checkout"
  /\ page' = Ready
  /\ UNCHANGED << vars, reloads, extends >>

\* The customer loads the page again, or in a second window.
Reload ==
  /\ page.call # None /\ reloads < MaxReloads
  /\ page' = Ready
  /\ reloads' = reloads + 1
  /\ UNCHANGED << vars, extends >>

-----------------------------------------------------------------------------
\* GET /api/payments/invoices: what the admin's table links to.
ListInvoices == {i \in Invoices : rows[i] # NoRow}

\* The admin's buttons are rendered for an invoice that awaits payment, and
\* every invoice did once: a page left open has them still.
AdminButtons(i) == i \in ListInvoices

\* The calls the admin's service passes on.
AdminCalls == {"cancel", "extend"} \cap Kinds

AdminActs(t) ==
  /\ \E kind \in AdminCalls, i \in Invoices :
       /\ AdminButtons(i) /\ Begin(t, kind, i)
       /\ extends' = extends + IF kind = "extend" THEN 1 ELSE 0
  /\ UNCHANGED << page, reloads >>

-----------------------------------------------------------------------------
InvoicePageInit == Init /\ page = Ready /\ reloads = 0 /\ extends = 0

CustomerStep ==
  \/ \E t \in Requests : PaySavedCard(t) \/ PayByCheckout(t) \/ Answered(t)
  \/ Reload

InvoicePageNext ==
  \/ CustomerStep
  \/ \E t \in Requests : AdminActs(t)
  \/ ServiceStep /\ UNCHANGED pageVars

InvoicePageSpec == InvoicePageInit /\ [][InvoicePageNext]_<< vars, pageVars >>
=============================================================================
