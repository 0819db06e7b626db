-------------------------- MODULE NotificationProofs --------------------------
(***************************************************************************)
(* Whatever fails and whoever dies, the log is truthful, nobody is         *)
(* forgotten, and nobody is written to twice in one delivery.              *)
(***************************************************************************)
EXTENDS NotificationProperties, TLAPS

LetterInv(l) == HandlerInv(l) /\ MailsInv(l) /\ LogInv(l) /\ LoggedInv(l)

LEMMA LetterOf ==
  ASSUME NEW l \in Letters
  PROVE  /\ l[1] \in Messages /\ l[2] \in Users /\ l = << l[1], l[2] >>
BY DEF Letters

LEMMA InitLetters == Init => LettersSound
<1> SUFFICES ASSUME Init PROVE LettersSound
  OBVIOUS
<1>1. TypeOK
  BY DEF Init, TypeOK, Busy
<1>2. ASSUME NEW l \in Letters PROVE LetterInv(l)
  BY <1>2, LetterOf DEF Init, LetterInv, HandlerInv, MailsInv, LogInv, LoggedInv
<1> QED BY <1>1, <1>2 DEF LettersSound, LetterInv

\* The steps of a letter change that letter and, if it throws, whether its
\* message's promise is fulfilled.
LEMMA LetterMoves ==
  ASSUME LettersSound, NEW l \in Letters, LetterStep(l)
  PROVE  TypeOK' /\ \A k \in Letters : LetterInv(k)'
<1>1. /\ TypeOK /\ l[1] \in Messages
      /\ \A k \in Letters : LetterInv(k) /\ k[1] \in Messages
  BY LetterOf DEF LettersSound, LetterInv
<1>2. /\ letter[l] # "none" /\ crashes' = crashes
      /\ handler[l[1]] \in {"letters", "rejected", "dropped"}
  BY <1>1 DEF LetterStep, Address, Send, Log, LogFailed, LetterInv, HandlerInv
<1>3. failures' \in Nat
  BY <1>1 DEF LetterStep, Address, Send, Log, LogFailed, Fails, TypeOK
<1>4. /\ \/ handler' = handler
         \/ /\ letter'[l] = "none"
            /\ handler' = [handler EXCEPT ![l[1]] =
                             IF handler[l[1]] = "letters" THEN "rejected"
                             ELSE handler[l[1]]]
      /\ \E pc \in {"none", "send", "log", "logFailed"} :
           letter' = [letter EXCEPT ![l] = pc]
      /\ mails' = mails \/ mails' = [mails EXCEPT ![l] = mails[l] + 1]
      /\ \/ rows' = rows
         \/ rows' = [rows EXCEPT ![l].SENT = rows[l].SENT + 1]
         \/ rows' = [rows EXCEPT ![l].FAILED = rows[l].FAILED + 1]
  <2>1. CASE Address(l)
    BY <1>1, <2>1 DEF Address, Moves, Throws, TypeOK
  <2>2. CASE Send(l)
    BY <2>2 DEF Send, Moves, Taken
  <2>3. CASE Log(l)
    BY <2>3 DEF Log, Moves, Logged
  <2>4. CASE LogFailed(l)
    BY <1>1, <2>4 DEF LogFailed, Moves, Throws, Logged, TypeOK
  <2> QED BY <2>1, <2>2, <2>3, <2>4 DEF LetterStep
<1>5. TypeOK'
  <2>1. handler' \in [Messages -> Busy \cup {"queued", "acked", "dropped"}]
    BY <1>1, <1>4 DEF TypeOK, Busy
  <2>2. letter' \in [Letters -> {"none", "address", "send", "log", "logFailed"}]
    BY <1>1, <1>4 DEF TypeOK
  <2>3. mails' \in [Letters -> Nat] /\ crashes' \in Nat
    BY <1>1, <1>2, <1>4 DEF TypeOK
  <2>4. rows' \in [Letters -> [SENT : Nat, FAILED : Nat]]
    <3>1. rows[l] \in [SENT : Nat, FAILED : Nat]
      BY <1>1 DEF TypeOK
    <3>2. /\ [rows[l] EXCEPT !.SENT = rows[l].SENT + 1] \in [SENT : Nat, FAILED : Nat]
          /\ [rows[l] EXCEPT !.FAILED = rows[l].FAILED + 1] \in [SENT : Nat, FAILED : Nat]
      BY <3>1
    <3>3. PICK r \in [SENT : Nat, FAILED : Nat] :
            rows' = rows \/ rows' = [rows EXCEPT ![l] = r]
      BY <1>4, <3>1, <3>2
    <3> QED BY <1>1, <3>3 DEF TypeOK
  <2> QED BY <1>3, <2>1, <2>2, <2>3, <2>4 DEF TypeOK
<1>6. ASSUME NEW k \in Letters, k # l PROVE LetterInv(k)'
  <2>1. /\ letter'[k] = letter[k] /\ mails'[k] = mails[k] /\ rows'[k] = rows[k]
        /\ \/ handler'[k[1]] = handler[k[1]]
           \/ handler[k[1]] = "letters" /\ handler'[k[1]] = "rejected"
    BY <1>1, <1>4, <1>6 DEF TypeOK
  <2> QED BY <1>1, <1>2, <2>1
          DEF LetterInv, HandlerInv, MailsInv, LogInv, LoggedInv, InLog
<1>7. LetterInv(l)'
  <2>1. LetterInv(l) /\ mails[l] \in Nat /\ crashes \in Nat
        /\ rows[l] \in [SENT : Nat, FAILED : Nat]
    BY <1>1 DEF TypeOK
  <2>2. CASE Address(l)
    <3>1. /\ letter[l] = "address" /\ mails'[l] = mails[l] /\ rows'[l] = rows[l]
          /\ \/ letter'[l] = "send" /\ handler'[l[1]] = handler[l[1]]
             \/ /\ letter'[l] = "none" /\ handler'[l[1]] # "letters"
                /\ handler'[l[1]] \in {"rejected", "dropped"}
      BY <1>1, <1>2, <2>2 DEF Address, Moves, Throws, TypeOK
    <3> QED BY <1>2, <2>1, <3>1
            DEF LetterInv, HandlerInv, MailsInv, LogInv, LoggedInv, InLog
  <2>3. CASE Send(l)
    <3>1. /\ letter[l] = "send" /\ rows'[l] = rows[l] /\ handler' = handler
          /\ \/ mails'[l] = mails[l] + 1 /\ letter'[l] \in {"log", "logFailed"}
             \/ mails'[l] = mails[l] /\ letter'[l] = "logFailed"
      BY <1>1, <2>3 DEF Send, Moves, Taken, TypeOK
    <3> QED BY <1>2, <2>1, <3>1
            DEF LetterInv, HandlerInv, MailsInv, LogInv, LoggedInv, InLog
  <2>4. CASE Log(l)
    <3>1. /\ letter[l] = "log" /\ mails'[l] = mails[l] /\ handler' = handler
          /\ \/ /\ letter'[l] = "none"
                /\ rows'[l] = [rows[l] EXCEPT !.SENT = rows[l].SENT + 1]
             \/ letter'[l] = "logFailed" /\ rows'[l] = rows[l]
      BY <1>1, <2>4 DEF Log, Moves, Logged, TypeOK
    <3>2. \/ /\ letter'[l] = "none" /\ rows'[l].SENT = rows[l].SENT + 1
             /\ rows'[l].FAILED = rows[l].FAILED
          \/ letter'[l] = "logFailed" /\ rows'[l] = rows[l]
      BY <2>1, <3>1
    <3> QED BY <1>2, <2>1, <3>1, <3>2
            DEF LetterInv, HandlerInv, MailsInv, LogInv, LoggedInv, InLog
  <2>5. CASE LogFailed(l)
    <3>1. /\ letter[l] = "logFailed" /\ mails'[l] = mails[l] /\ letter'[l] = "none"
          /\ \/ /\ handler'[l[1]] = handler[l[1]]
                /\ rows'[l] = [rows[l] EXCEPT !.FAILED = rows[l].FAILED + 1]
             \/ /\ handler'[l[1]] \in {"rejected", "dropped"}
                /\ rows'[l] = rows[l]
      BY <1>1, <1>2, <2>5 DEF LogFailed, Moves, Throws, Logged, TypeOK
    <3>2. \/ /\ handler'[l[1]] = handler[l[1]]
             /\ rows'[l].FAILED = rows[l].FAILED + 1 /\ rows'[l].SENT = rows[l].SENT
          \/ /\ handler'[l[1]] \in {"rejected", "dropped"}
             /\ rows'[l] = rows[l]
      BY <2>1, <3>1
    <3> QED BY <1>2, <2>1, <3>1, <3>2
            DEF LetterInv, HandlerInv, MailsInv, LogInv, LoggedInv, InLog
  <2> QED BY <2>2, <2>3, <2>4, <2>5 DEF LetterStep
<1> QED BY <1>5, <1>6, <1>7

\* A message is taken with its letters, or looked up first, or settled when
\* they are done.
LEMMA MessageMoves ==
  ASSUME LettersSound, NEW m \in Messages, Take(m) \/ LookUp(m) \/ Settle(m)
  PROVE  TypeOK' /\ \A k \in Letters : LetterInv(k)'
<1>1. /\ TypeOK
      /\ \A k \in Letters : LetterInv(k) /\ k[1] \in Messages /\ k[2] \in Users
  BY LetterOf DEF LettersSound, LetterInv
<1>2. /\ crashes' = crashes /\ mails' = mails /\ rows' = rows
      /\ failures' \in Nat
  BY <1>1 DEF Take, LookUp, Settle, Fails, TypeOK
<1>3. PICK to \in Busy \cup {"acked", "dropped"} :
        handler' = [handler EXCEPT ![m] = to]
  BY DEF Take, LookUp, Settle, Promise, Busy
<1>4. \/ letter' = letter
      \/ \E pc \in {"address", "send"} : Write(m, pc)
  BY DEF Take, LookUp, Settle
<1>5. \A k \in Letters : k[1] # m => letter'[k] = letter[k]
  BY <1>1, <1>4 DEF Write, TypeOK
<1>6. TypeOK'
  <2>1. handler' \in [Messages -> Busy \cup {"queued", "acked", "dropped"}]
    BY <1>1, <1>3 DEF TypeOK
  <2>2. letter' \in [Letters -> {"none", "address", "send", "log", "logFailed"}]
    BY <1>1, <1>4 DEF Write, TypeOK
  <2> QED BY <1>1, <1>2, <2>1, <2>2 DEF TypeOK
<1>7. ASSUME NEW k \in Letters PROVE LetterInv(k)'
  <2>1. CASE k[1] # m
    <3>1. handler'[k[1]] = handler[k[1]] /\ letter'[k] = letter[k]
      BY <1>1, <1>3, <1>5, <2>1 DEF TypeOK
    <3> QED BY <1>1, <1>2, <3>1
            DEF LetterInv, HandlerInv, MailsInv, LogInv, LoggedInv, InLog
  <2>2. ASSUME k[1] = m, Take(m) PROVE LetterInv(k)'
    <3>1. handler[m] = "queued" /\ letter[k] = "none" /\ mails[k] <= crashes
      BY <1>1, <2>2 DEF Take, LetterInv, HandlerInv, MailsInv
    <3>2. handler'[m] \in {"letters", "lookup"}
      BY <1>1, <2>2 DEF Take, Promise, TypeOK
    <3>3. letter'[k] \in {"none", "send"}
      BY <1>1, <2>2, <3>1 DEF Take, Write, TypeOK
    <3>4. /\ handler'[m] = "lookup" => letter'[k] = "none"
          /\ handler'[m] = "letters" /\ k[2] \in Concerns[m] => letter'[k] = "send"
      BY <1>1, <2>2, <3>1 DEF Take, Promise, Write, TypeOK
    <3> QED BY <1>1, <1>2, <2>2, <3>1, <3>2, <3>3, <3>4
            DEF LetterInv, HandlerInv, MailsInv, LogInv, LoggedInv, InLog, TypeOK
  <2>3. ASSUME k[1] = m, LookUp(m) PROVE LetterInv(k)'
    <3>1. handler[m] = "lookup" /\ letter[k] = "none" /\ mails[k] <= crashes
      BY <1>1, <2>3 DEF LookUp, LetterInv, HandlerInv, MailsInv
    <3>2. \/ /\ handler'[m] = "letters"
             /\ letter'[k] \in {"none", "address", "send"}
             /\ k[2] \in Concerns[m] => letter'[k] # "none"
          \/ handler'[m] = "rejected" /\ letter'[k] = "none"
      BY <1>1, <2>3, <3>1 DEF LookUp, Promise, Write, TypeOK
    <3> QED BY <1>1, <1>2, <2>3, <3>1, <3>2
            DEF LetterInv, HandlerInv, MailsInv, LogInv, LoggedInv, InLog, TypeOK
  <2>4. ASSUME k[1] = m, Settle(m) PROVE LetterInv(k)'
    <3>1. letter'[k] = letter[k]
      BY <2>4 DEF Settle
    <3>2. \/ handler[m] = "letters" /\ letter[k] = "none" /\ handler'[m] = "acked"
          \/ handler[m] = "rejected" /\ handler'[m] = "dropped"
      BY <1>1, <2>4, LetterOf DEF Settle, Promise, Written, TypeOK
    <3> QED BY <1>1, <1>2, <2>4, <3>1, <3>2
            DEF LetterInv, HandlerInv, MailsInv, LogInv, LoggedInv, InLog
  <2> QED BY <2>1, <2>2, <2>3, <2>4
<1> QED BY <1>6, <1>7

\* A crash brings back to the queue what was under way, and with it a letter.
LEMMA CrashMoves ==
  ASSUME LettersSound, Crash
  PROVE  TypeOK' /\ \A k \in Letters : LetterInv(k)'
<1>1. /\ TypeOK /\ crashes' = crashes + 1 /\ mails' = mails /\ rows' = rows
      /\ \A k \in Letters : LetterInv(k) /\ k[1] \in Messages
  BY LetterOf DEF LettersSound, LetterInv, Crash
<1>2. TypeOK'
  BY <1>1 DEF Crash, TypeOK
<1>3. ASSUME NEW k \in Letters PROVE LetterInv(k)'
  <2>1. /\ letter'[k] = "none"
        /\ \/ handler'[k[1]] = "queued"
           \/ handler'[k[1]] = handler[k[1]] /\ handler[k[1]] \notin Busy
    BY <1>1 DEF Crash
  <2> QED BY <1>1, <2>1
          DEF LetterInv, HandlerInv, MailsInv, LogInv, LoggedInv, InLog, Busy, TypeOK
<1> QED BY <1>2, <1>3

\* The inductive invariant: for any messages, users, failures and crashes.
THEOREM LettersAlwaysSound == Spec => []LettersSound
<1>1. LettersSound /\ [Next]_vars => LettersSound'
  <2> SUFFICES ASSUME LettersSound, [Next]_vars PROVE LettersSound'
    OBVIOUS
  <2>1. CASE Next
    <3>1. TypeOK' /\ \A k \in Letters : LetterInv(k)'
      BY <2>1, LetterMoves, MessageMoves, CrashMoves DEF Next
    <3> QED BY <3>1 DEF LettersSound, LetterInv, Letters
  <2>2. CASE UNCHANGED vars
    BY <2>2 DEF vars, LettersSound, TypeOK, HandlerInv, MailsInv, LogInv,
                LoggedInv, InLog, Letters
  <2> QED BY <2>1, <2>2
<1> QED BY <1>1, InitLetters, PTL DEF Spec

\* The log never has more SENT rows than letters were taken.
THEOREM LogAlwaysTruthful == Spec => []LogTruthful
<1>1. LettersSound => LogTruthful
  BY DEF LettersSound, LogInv, LogTruthful
<1> QED BY <1>1, LettersAlwaysSound, PTL

\* A message is acknowledged only when everybody it concerns is in the log.
THEOREM NobodyEverForgotten == Spec => []NobodyForgotten
<1>1. LettersSound => NobodyForgotten
  <2> SUFFICES ASSUME LettersSound, NEW m \in Messages, NEW u \in Concerns[m],
                      handler[m] = "acked"
               PROVE  InLog(<< m, u >>)
    BY DEF NobodyForgotten, InLog
  <2>1. u \in Users
    BY NotificationsAssumption
  <2>2. << m, u >> \in Letters
    BY <2>1 DEF Letters
  <2> QED BY <2>2 DEF LettersSound, LoggedInv
<1> QED BY <1>1, LettersAlwaysSound, PTL

\* Only a crash makes anybody get a letter twice.
THEOREM AlwaysMailedOnce == Spec => []MailedOnce
<1>1. LettersSound => MailedOnce
  BY DEF LettersSound, MailsInv, MailedOnce
<1> QED BY <1>1, LettersAlwaysSound, PTL
=============================================================================
