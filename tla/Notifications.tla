--------------------------- MODULE Notifications ---------------------------
(***************************************************************************)
(* apps/notification-service: ten consumers, one for each kind of event,   *)
(* which look up what a letter needs, hand it to Resend or Twilio and log  *)
(* how that went.  A consumer takes one message at a time; consumers, and  *)
(* the letters of one closing-soon message, run side by side.              *)
(*                                                                         *)
(* A step is one await.  The handler's promise settles with the first      *)
(* letter that throws; the other letters go on all the same.               *)
(***************************************************************************)
EXTENDS Naturals

CONSTANTS
  Messages,      \* the messages the services publish
  Users,
  Kind,          \* the routing key of a message
  Concerns,      \* the users its payload names: whom a letter would go to
  MaxFailures,   \* bound: calls that fail (a lookup, Resend, Twilio, Postgres)
  MaxCrashes     \* bound: crashes of the process

Direct   == {"user.registered", "user.phone.verification.requested"}
ByUser   == {"auction.closing.soon", "auction.closed"}
Together == {"auction.bid.placed", "payment.invoice.created",
             "payment.received", "payment.invoice.expired",
             "shipping.item.dispatched", "shipping.item.collected"}

ASSUME NotificationsAssumption ==
  /\ Kind \in [Messages -> Direct \cup ByUser \cup Together]
  /\ Concerns \in [Messages -> SUBSET Users]
  /\ MaxFailures \in Nat /\ MaxCrashes \in Nat

VARIABLES
  handler,    \* where each message is, and its handler's promise
  letter,     \* what is being done for each user a message concerns
  mails,      \* history: letters Resend or Twilio have taken, by message, user
  rows,       \* notification_log: rows by message, user and status
  failures,   \* calls that have failed
  crashes     \* crashes so far

vars == << handler, letter, mails, rows, failures, crashes >>

Letters == Messages \X Users

-----------------------------------------------------------------------------
Busy == {"lookup", "letters", "rejected"}

\* The message's letters begin at `pc'.
Write(m, pc) ==
  letter' = [l \in Letters |-> IF l[1] = m /\ l[2] \in Concerns[m] THEN pc
                               ELSE letter[l]]

Promise(m, state) == handler' = [handler EXCEPT ![m] = state]

\* The message says whom to write to, or that nobody was outbid.
KnowsAll(m) ==
  Kind[m] \in Direct \/ (Kind[m] = "auction.bid.placed" /\ Concerns[m] = {})

\* The channel's prefetch of 1 holds for each of its consumers.
Take(m) ==
  /\ handler[m] = "queued"
  /\ \A n \in Messages : Kind[n] = Kind[m] => handler[n] \notin Busy
  /\ \/ KnowsAll(m) /\ Promise(m, "letters") /\ Write(m, "send")
     \/ ~KnowsAll(m) /\ Promise(m, "lookup") /\ UNCHANGED letter
  /\ UNCHANGED << mails, rows, failures, crashes >>

Fails == failures < MaxFailures /\ failures' = failures + 1

\* getLotTitle, with getCurrentBid or getUserEmail where they are asked
\* together: the first to fail rejects.
LookUp(m) ==
  /\ handler[m] = "lookup"
  /\ \/ /\ Promise(m, "letters")
        /\ Write(m, IF Kind[m] \in ByUser THEN "address" ELSE "send")
        /\ UNCHANGED failures
     \/ Promise(m, "rejected") /\ Fails /\ UNCHANGED letter
  /\ UNCHANGED << mails, rows, crashes >>

-----------------------------------------------------------------------------
(***************************************************************************)
(* One letter.                                                             *)
(***************************************************************************)
Moves(l, pc) == letter' = [letter EXCEPT ![l] = pc]

\* A letter that throws rejects the handler's promise, if it is still pending.
Throws(l) ==
  /\ Moves(l, "none")
  /\ handler' = [handler EXCEPT ![l[1]] = IF @ = "letters" THEN "rejected" ELSE @]

\* getUserEmail for one of the bidders, or for the winner.
Address(l) ==
  /\ letter[l] = "address"
  /\ \/ Moves(l, "send") /\ UNCHANGED << handler, failures >>
     \/ Throws(l) /\ Fails
  /\ UNCHANGED << mails, rows, crashes >>

Taken(l) == [mails EXCEPT ![l] = @ + 1]

\* Fault: Resend's answer is not looked at.
Send_ErrorIgnored(l) ==
  /\ letter[l] = "send"
  /\ mails' \in {mails, Taken(l)}
  /\ Moves(l, "log")
  /\ UNCHANGED << handler, rows, failures, crashes >>

\* The letter is taken, refused, or taken though the answer is an error.
Send(l) ==
  /\ letter[l] = "send"
  /\ \/ mails' = Taken(l) /\ Moves(l, "log") /\ UNCHANGED failures
     \/ /\ mails' \in {mails, Taken(l)}
        /\ Moves(l, "logFailed") /\ Fails
  /\ UNCHANGED << handler, rows, crashes >>

Logged(l, status) == [rows EXCEPT ![l][status] = @ + 1]

\* The INSERT of the SENT row is inside the try block.
Log(l) ==
  /\ letter[l] = "log"
  /\ \/ rows' = Logged(l, "SENT") /\ Moves(l, "none") /\ UNCHANGED failures
     \/ rows' = rows /\ Moves(l, "logFailed") /\ Fails
  /\ UNCHANGED << handler, mails, crashes >>

\* Fault: what the catch block's own INSERT throws is swallowed.
LogFailed_Swallowed(l) ==
  /\ letter[l] = "logFailed"
  /\ Moves(l, "none")
  /\ \/ rows' = Logged(l, "FAILED") /\ UNCHANGED failures
     \/ rows' = rows /\ Fails
  /\ UNCHANGED << handler, mails, crashes >>

\* The catch block.
LogFailed(l) ==
  /\ letter[l] = "logFailed"
  /\ \/ /\ rows' = Logged(l, "FAILED") /\ Moves(l, "none")
        /\ UNCHANGED << handler, failures >>
     \/ rows' = rows /\ Throws(l) /\ Fails
  /\ UNCHANGED << mails, crashes >>

Written(m) == \A u \in Users : letter[<<m, u>>] = "none"

-----------------------------------------------------------------------------
\* Fault: a message whose handler failed goes back to the queue.
Settle_Requeued(m) ==
  /\ \/ handler[m] = "letters" /\ Written(m) /\ Promise(m, "acked")
     \/ handler[m] = "rejected" /\ Promise(m, "queued")
  /\ UNCHANGED << letter, mails, rows, failures, crashes >>

\* Fault: a message whose handler failed is neither acknowledged nor rejected.
Settle_Held(m) ==
  /\ handler[m] = "letters" /\ Written(m)
  /\ Promise(m, "acked")
  /\ UNCHANGED << letter, mails, rows, failures, crashes >>

\* ack, or nack without requeueing.
Settle(m) ==
  /\ \/ handler[m] = "letters" /\ Written(m) /\ Promise(m, "acked")
     \/ handler[m] = "rejected" /\ Promise(m, "dropped")
  /\ UNCHANGED << letter, mails, rows, failures, crashes >>

\* The process dies; what was not acknowledged is delivered again.
Crash ==
  /\ crashes < MaxCrashes
  /\ crashes' = crashes + 1
  /\ handler' = [m \in Messages |-> IF handler[m] \in Busy THEN "queued"
                                    ELSE handler[m]]
  /\ letter' = [l \in Letters |-> "none"]
  /\ UNCHANGED << mails, rows, failures >>

Init ==
  /\ handler = [m \in Messages |-> "queued"]
  /\ letter = [l \in Letters |-> "none"]
  /\ mails = [l \in Letters |-> 0]
  /\ rows = [l \in Letters |-> [SENT |-> 0, FAILED |-> 0]]
  /\ failures = 0
  /\ crashes = 0

LetterStep(l) == Address(l) \/ Send(l) \/ Log(l) \/ LogFailed(l)

Next ==
  \/ \E m \in Messages : Take(m) \/ LookUp(m) \/ Settle(m)
  \/ \E l \in Letters : LetterStep(l)
  \/ Crash

Spec == Init /\ [][Next]_vars

\* The broker delivers and every await ends.
Fairness ==
  /\ \A m \in Messages : WF_vars(Take(m)) /\ WF_vars(LookUp(m)) /\ WF_vars(Settle(m))
  /\ \A l \in Letters : WF_vars(LetterStep(l))

FairSpec == Spec /\ Fairness
=============================================================================
