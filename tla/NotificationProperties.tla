----------------------- MODULE NotificationProperties -----------------------
(***************************************************************************)
(* What the users whom an event concerns, and whoever reads the log, may   *)
(* rely on.                                                                *)
(***************************************************************************)
EXTENDS Notifications

\* The log claims no letter that was not taken: over crashes, redelivery and
\* failing providers there are never more SENT rows than letters.
LogTruthful == \A l \in Letters : rows[l].SENT <= mails[l]

\* A message is acknowledged only when every user it concerns has a row that
\* says what became of the letter: nobody is forgotten silently.
NobodyForgotten ==
  \A m \in Messages : \A u \in Concerns[m] :
    handler[m] = "acked" => rows[<<m, u>>].SENT + rows[<<m, u>>].FAILED > 0

\* Nobody gets a letter twice, whatever fails around it, but for a message
\* that was delivered again because the process died.
MailedOnce == \A l \in Letters : mails[l] <= 1 + crashes

\* Every message is settled in the end, acknowledged or dropped, and nothing
\* is left half done.
MessagesSettle ==
  \A m \in Messages :
    <>[](handler[m] \in {"acked", "dropped"} /\ Written(m))

-----------------------------------------------------------------------------
\* The inductive invariant of Notifications: where a letter is says how often
\* it can have been taken, and what the log must have of it.

TypeOK ==
  /\ handler \in [Messages -> Busy \cup {"queued", "acked", "dropped"}]
  /\ letter \in [Letters -> {"none", "address", "send", "log", "logFailed"}]
  /\ mails \in [Letters -> Nat]
  /\ rows \in [Letters -> [SENT : Nat, FAILED : Nat]]
  /\ failures \in Nat /\ crashes \in Nat

\* A letter that is being written belongs to a message that was taken, and has
\* not been settled with a letter still to come: not acknowledged, that is.
\* The letters of a message that was rejected go on when it is long dropped.
HandlerInv(l) ==
  letter[l] # "none" => handler[l[1]] \in {"letters", "rejected", "dropped"}

\* Every delivery of a message but the last ended in a crash.
MailsInv(l) ==
  /\ mails[l] <= 1 + crashes
  /\ handler[l[1]] \in {"queued", "lookup"} \/ letter[l] \in {"address", "send"} =>
       mails[l] <= crashes

\* A letter about to be logged as sent is one more than the log has.
LogInv(l) ==
  /\ rows[l].SENT <= mails[l]
  /\ letter[l] = "log" => rows[l].SENT < mails[l]

InLog(l) == rows[l].SENT + rows[l].FAILED > 0

\* While the promise may still be fulfilled, a letter that is done is logged.
LoggedInv(l) ==
  l[2] \in Concerns[l[1]] =>
    /\ handler[l[1]] = "letters" => letter[l] # "none" \/ InLog(l)
    /\ handler[l[1]] = "acked" => InLog(l)

LettersSound ==
  /\ TypeOK
  /\ \A l \in Letters : HandlerInv(l) /\ MailsInv(l) /\ LogInv(l) /\ LoggedInv(l)
=============================================================================
