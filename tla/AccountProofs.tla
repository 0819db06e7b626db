---------------------------- MODULE AccountProofs ----------------------------
(***************************************************************************)
(* What TLAPS proves about an account and the browser in front of it.  A   *)
(* step of the portal is a step of user-auth, a request that reaches it,   *)
(* the passing of time, or none of its business; so the lemmas are about   *)
(* those, and the theorems about the account alone and about the portal.   *)
(***************************************************************************)
EXTENDS AccountProperties, PortalProperties, FiniteSetTheorems, TLAPS

-----------------------------------------------------------------------------
(***************************************************************************)
(* The use cases.                                                          *)
(***************************************************************************)
Reading == {"findCode", "count", "upload", "save"}

\* Which use case awaits what, and what comes after it.
LEMMA FlowTable ==
  ASSUME NEW k \in Kinds, NEW p \in DOMAIN Flow(k)
  PROVE  LET n == Flow(k)[p] IN
           /\ p \in Steps /\ n \in Steps \cup {"done"} /\ n # p
           /\ n # "done" => n \in DOMAIN Flow(k)
           /\ n \in Reading => p \in {"find", "findEmail"} \cup Reading
           /\ p = "find" => /\ k \notin {"register", "google", "login", "logout"}
                            /\ n = "token" <=> k = "refresh"
                            /\ n # "done" /\ n # "code"
           /\ p = "findEmail" => k \in {"register", "google", "login"}
           /\ p = "verify" => k = "login" /\ n = "token"
           /\ k = "login" /\ n = "token" => p = "verify"
           /\ p = "findGoogle" => /\ k = "google" /\ n = "findEmail"
                                  /\ {"token", "findEmail"} \subseteq DOMAIN Flow(k)
           /\ p = "findToken" => k \in Rotating /\ n = "revoke"
           /\ p = "revoke" => k \in Rotating /\ n = IF k = "refresh" THEN "find" ELSE "done"
           /\ p = "token" => k \in {"google", "login", "refresh"} /\ n = "done"
           /\ p = "count" => k = "requestCode" /\ n = "save"
           /\ p = "code" => k \in {"register", "requestCode"} /\ n = "publish"
           /\ p = "save" => /\ k \notin {"login", "refresh", "logout"}
                            /\ n \notin Reading
           /\ p = "use" => k \in Confirming
           /\ p \in {"findCode", "use"} => k \in Confirming
           /\ n = "revoke" => p = "findToken"
           /\ k = "requestCode" /\ n \in {"save", "code"} => p \in {"count", "save"}
           /\ k = "requestCode" /\ n = "save" => p = "count"
           /\ k = "refresh" => /\ p \in {"find", "findToken", "revoke", "token"}
                               /\ n = "find" <=> p = "revoke"
                               /\ n = "token" <=> p = "find"
<1>1. CASE k = "register"
  BY <1>1 DEF Flow, RegisterFlow, Steps, Reading, Rotating, Confirming
<1>2. CASE k \in {"verifyEmail", "verifyPhone"}
  <2>1. Flow(k) = VerifyFlow
    BY <1>2 DEF Flow
  <2> QED BY <1>2, <2>1 DEF VerifyFlow, Steps, Reading, Rotating, Confirming
<1>3. CASE k = "requestCode"
  BY <1>3 DEF Flow, RequestCodeFlow, Steps, Reading, Rotating, Confirming
<1>4. CASE k = "identity"
  BY <1>4 DEF Flow, IdentityFlow, Steps, Reading, Rotating, Confirming
<1>5. CASE k = "google"
  BY <1>5 DEF Flow, GoogleFlow, Steps, Reading, Rotating, Confirming
<1>6. CASE k = "login"
  BY <1>6 DEF Flow, LoginFlow, Steps, Reading, Rotating, Confirming
<1>7. CASE k = "refresh"
  BY <1>7 DEF Flow, RefreshFlow, Steps, Reading, Rotating, Confirming
<1>8. CASE k = "logout"
  BY <1>8 DEF Flow, LogoutFlow, Steps, Reading, Rotating, Confirming
<1>9. CASE k \in {"setPassword", "update", "suspend", "reinstate", "approve"}
  <2>1. Flow(k) = ChangeFlow
    BY <1>9 DEF Flow
  <2> QED BY <1>9, <2>1 DEF ChangeFlow, Steps, Reading, Rotating, Confirming
<1> QED BY <1>1, <1>2, <1>3, <1>4, <1>5, <1>6, <1>7, <1>8, <1>9 DEF Kinds

\* What the entity makes of a user is a user.
LEMMA ChangedType ==
  ASSUME NEW k \in Kinds, k \notin {"login", "refresh", "logout"}, NEW u \in User
  PROVE  Changed(k, u) \in User
BY DEF Changed, Kinds, User, UserStatus, Create, CreateFromGoogle, NoUser

LEMMA IdleCall == Idle \in CallState /\ CallInv(Idle)
BY AccountsAssumption DEF Idle, CallState, CallInv, User, NoUser, Rotating, Confirming

Known == Types /\ \A t \in Calls : CallInv(call[t])

\* A call under way.
LEMMA Underway ==
  ASSUME Known, NEW t \in Calls, call[t].pc # "idle"
  PROVE  /\ call[t] \in CallState /\ CallInv(call[t])
         /\ call[t].kind \in Kinds /\ call[t].pc \in DOMAIN Flow(call[t].kind)
         /\ After(t) = Flow(call[t].kind)[call[t].pc]
BY DEF Known, Types, CallInv, After

\* How a call may go on: it is over, or awaits the next thing.
GoesOn(t, r) ==
  /\ r \in CallState /\ CallInv(r)
  /\ \/ r = Idle
     \/ /\ r.kind = call[t].kind /\ r.code = call[t].code /\ r.token = call[t].token
        /\ \/ r.pc = After(t)
           \/ At(t, "findGoogle") /\ r.pc \in {"token", "findEmail"}

LEMMA GoesOnIdle ==
  ASSUME NEW t
  PROVE  GoesOn(t, Idle)
BY IdleCall DEF GoesOn

LEMMA GoesOnward ==
  ASSUME Known, NEW t \in Calls, call[t].pc # "idle", NEW u \in User,
         After(t) # "done",
         call[t].kind = "register" => u = NoUser,
         call[t].kind # "register" /\ After(t) \in Reading => May(call[t].kind, u)
  PROVE  GoesOn(t, [call[t] EXCEPT !.seen = u, !.pc = After(t)])
<1>1. After(t) \in Steps /\ After(t) \in DOMAIN Flow(call[t].kind)
  BY Underway, FlowTable
<1>2. /\ call[t] \in CallState /\ CallInv(call[t]) /\ call[t].kind \in Kinds
      /\ "idle" \notin Steps
  BY Underway DEF Steps
<1> DEFINE r == [call[t] EXCEPT !.seen = u, !.pc = After(t)]
<1>3. /\ r \in CallState /\ r.pc = After(t) /\ r.seen = u
      /\ r.kind = call[t].kind /\ r.code = call[t].code /\ r.token = call[t].token
  BY <1>1, <1>2 DEF CallState
<1> HIDE DEF r
<1>4. CallInv(r)
  BY <1>1, <1>2, <1>3 DEF CallInv, Reading
<1>5. GoesOn(t, r)
  BY <1>3, <1>4 DEF GoesOn
<1> QED BY <1>5 DEF r

LEMMA Proceeding ==
  ASSUME Known, NEW t \in Calls, call[t].pc # "idle", NEW u \in User,
         call[t].kind = "register" => u = NoUser,
         call[t].kind # "register" /\ After(t) \in Reading => May(call[t].kind, u),
         Proceed(t, [call[t] EXCEPT !.seen = u])
  PROVE  \E r : GoesOn(t, r) /\ Goes(t, r)
<1>1. CASE After(t) = "done"
  BY <1>1, GoesOnIdle DEF Proceed
<1>2. CASE After(t) # "done"
  <2> DEFINE r == [call[t] EXCEPT !.seen = u, !.pc = After(t)]
  <2>1. GoesOn(t, r)
    BY <1>2, GoesOnward
  <2>2. [[call[t] EXCEPT !.seen = u] EXCEPT !.pc = After(t)] = r
    BY Underway DEF CallState
  <2>3. Goes(t, r)
    BY <1>2, <2>2 DEF Proceed
  <2> QED BY <2>1, <2>3
<1> QED BY <1>1, <1>2

LEMMA Onwards ==
  ASSUME Known, NEW t \in Calls, call[t].pc # "idle", Onward(t),
         After(t) \in Reading => call[t].pc \in Reading \/ call[t].kind = "register"
  PROVE  \E r : GoesOn(t, r) /\ Goes(t, r)
<1>1. call[t] \in CallState /\ CallInv(call[t])
  BY Underway
<1>2. call[t].seen \in User /\ call[t] = [call[t] EXCEPT !.seen = call[t].seen]
  BY <1>1 DEF CallState
<1>3. Proceed(t, [call[t] EXCEPT !.seen = call[t].seen])
  BY <1>2 DEF Onward
<1>4. /\ call[t].kind = "register" => call[t].seen = NoUser
      /\ call[t].kind # "register" /\ After(t) \in Reading =>
           May(call[t].kind, call[t].seen)
  BY <1>1 DEF CallInv, Reading
<1> QED BY <1>2, <1>3, <1>4, Proceeding

LEMMA Answering ==
  ASSUME NEW t, Answer(t)
  PROVE  \E r : GoesOn(t, r) /\ Goes(t, r)
BY GoesOnIdle DEF Answer

LEMMA ReadingUser ==
  ASSUME Known, NEW t \in Calls, call[t].pc # "idle", call[t].kind # "register",
         Reads(t)
  PROVE  \E r : GoesOn(t, r) /\ Goes(t, r)
BY Answering, Proceeding DEF Reads, Known, Types

\* Whatever a call does, it is over or goes on to what is next in its use case.
LEMMA CallMoves ==
  ASSUME Known, NEW t \in Calls, CallStep(t)
  PROVE  /\ call[t].pc # "idle"
         /\ \E r : GoesOn(t, r) /\ Goes(t, r)
         /\ now' = now
<1>1. call[t].pc # "idle" /\ now' = now
  BY DEF CallStep, Find, FindGoogle, FindEmail, VerifyPassword, Upload, Save, Count, SaveCode,
     Publish, FindCode, MarkUsed, FindToken, Revoke, SaveToken, At
<1>2. /\ call[t] \in CallState /\ CallInv(call[t]) /\ call[t].kind \in Kinds
      /\ call[t].pc \in DOMAIN Flow(call[t].kind)
      /\ After(t) = Flow(call[t].kind)[call[t].pc]
  BY <1>1, Underway
<1>3. CASE Find(t)
  <2>1. call[t].pc = "find" /\ Reads(t)
    BY <1>3 DEF Find, At
  <2> QED BY <1>1, <1>2, <2>1, FlowTable, ReadingUser
<1>4. CASE FindGoogle(t)
  <2> DEFINE pc == IF user.google THEN "token" ELSE "findEmail"
             r == [call[t] EXCEPT !.pc = pc]
  <2>1. /\ call[t].pc = "findGoogle" /\ Goes(t, r)
        /\ pc \in {"token", "findEmail"}
    BY <1>4 DEF FindGoogle, At
  <2>2. pc \in Steps /\ pc \in DOMAIN Flow(call[t].kind) /\ call[t].kind = "google"
    BY <1>2, <2>1, FlowTable DEF Steps
  <2> HIDE DEF pc
  <2>3. /\ r \in CallState /\ r.pc = pc /\ r.seen = call[t].seen
        /\ r.kind = call[t].kind /\ r.code = call[t].code /\ r.token = call[t].token
    BY <1>2, <2>1, <2>2 DEF CallState
  <2>4. CallInv(r)
    BY <1>2, <2>1, <2>2, <2>3 DEF CallInv
  <2>5. GoesOn(t, r)
    BY <2>1, <2>3, <2>4 DEF GoesOn, At
  <2> QED BY <1>1, <2>1, <2>5
<1>5. CASE FindEmail(t)
  <2>1. call[t].pc = "findEmail"
    BY <1>5 DEF FindEmail, At
  <2>2. call[t].kind \in {"register", "google", "login"}
    BY <1>2, <2>1, FlowTable
  <2>3. CASE call[t].kind = "register"
    BY <1>1, <1>5, <2>3, Onwards, Answering DEF FindEmail
  <2>4. CASE call[t].kind \in {"login", "google"}
    BY <1>1, <1>5, <2>4, ReadingUser, Answering DEF FindEmail
  <2> QED BY <2>2, <2>3, <2>4
<1>6. CASE Save(t)
  <2>1. call[t].pc = "save" /\ NoUser \in User
    BY <1>6 DEF Save, At, NoUser, User
  <2>2. After(t) \notin Reading
    BY <1>2, <2>1, FlowTable
  <2> QED BY <1>1, <1>6, <2>1, <2>2, Answering, Proceeding DEF Save
<1>7. ASSUME call[t].pc \notin {"find", "findEmail"}, Onward(t) \/ Answer(t)
      PROVE  \E r : GoesOn(t, r) /\ Goes(t, r)
  <2>1. After(t) \in Reading => call[t].pc \in Reading
    BY <1>2, <1>7, FlowTable
  <2> QED BY <1>1, <1>7, <2>1, Onwards, Answering
<1>8. CASE \/ Upload(t) \/ Count(t) \/ SaveCode(t) \/ Publish(t) \/ FindCode(t)
           \/ MarkUsed(t) \/ FindToken(t) \/ Revoke(t) \/ SaveToken(t)
  <2>1. /\ call[t].pc \notin {"find", "findEmail"}
        /\ Onward(t) \/ Answer(t)
    BY <1>8 DEF Upload, Count, SaveCode, Publish, FindCode, MarkUsed, FindToken,
       Revoke, SaveToken, At
  <2> QED BY <1>1, <1>7, <2>1
<1>9. CASE VerifyPassword(t)
  <2>1. call[t].pc = "verify" /\ NoUser \in User
    BY <1>9 DEF VerifyPassword, At, NoUser, User
  <2>2. After(t) \notin Reading
    BY <1>2, <2>1, FlowTable DEF Reading
  <2> QED BY <1>1, <1>9, <2>1, <2>2, Answering, Proceeding DEF VerifyPassword
<1> QED BY <1>1, <1>3, <1>4, <1>5, <1>6, <1>8, <1>9 DEF CallStep

-----------------------------------------------------------------------------
(***************************************************************************)
(* The steps of the account.                                               *)
(***************************************************************************)

\* A request that the routes let through, from any page or from none.
Entrance(r) ==
  \/ \E kind \in {"register", "login"} : r = [Idle EXCEPT !.kind = kind, !.pc = "findEmail"]
  \/ r = [Idle EXCEPT !.kind = "google", !.pc = "findGoogle"]
  \/ \E kind \in {"requestCode", "setPassword", "identity", "update", "suspend",
                  "reinstate", "approve"} :
       r = [Idle EXCEPT !.kind = kind, !.pc = "find"]
  \/ \E kind \in Confirming, k \in Codes :
       r = [Idle EXCEPT !.kind = kind, !.pc = "find", !.code = k]
  \/ \E kind \in Rotating, k \in Tokens :
       /\ tokens[k] # NoToken
       /\ r = [Idle EXCEPT !.kind = kind, !.pc = "findToken", !.token = k]

Enters(t) ==
  /\ At(t, "idle")
  /\ \E r : Entrance(r) /\ Goes(t, r)
  /\ UNCHANGED << user, codes, tokens, forked, now >>

AccountStep ==
  \/ \E t \in Calls : Enters(t) \/ CallStep(t) \/ Fail(t)
  \/ Pass
  \/ UNCHANGED vars

LEMMA EntranceType ==
  ASSUME NEW r, Entrance(r)
  PROVE  /\ r \in CallState /\ CallInv(r)
         /\ r.kind \in Kinds /\ r.pc \in {"findEmail", "findGoogle", "find", "findToken"}
         /\ r.token # None => r.token \in Tokens /\ tokens[r.token] # NoToken
         /\ r.kind = "refresh" => r.pc = "findToken"
<1> DEFINE Entered(kind, pc, k, n) ==
             [kind |-> kind, pc |-> pc, seen |-> NoUser, code |-> k, token |-> n]
<1>1. ASSUME NEW kind \in Kinds, NEW pc \in DOMAIN Flow(kind),
             NEW k \in Codes \cup {None}, NEW n \in Tokens \cup {None},
             pc \notin Reading, n # None <=> kind \in Rotating,
             kind \in Confirming => k # None,
             r = Entered(kind, pc, k, n)
      PROVE  r \in CallState /\ CallInv(r)
  <2>1. pc \in Steps /\ NoUser \in User
    BY FlowTable DEF NoUser, User
  <2> QED BY <1>1, <2>1 DEF CallState, CallInv, Reading
<1>2. CASE \E kind \in {"register", "login"} :
             r = [Idle EXCEPT !.kind = kind, !.pc = "findEmail"]
  <2>1. PICK kind \in {"register", "login"} : r = Entered(kind, "findEmail", None, None)
    BY <1>2 DEF Idle
  <2>2. kind \in Kinds /\ "findEmail" \in DOMAIN Flow(kind)
    BY DEF Flow, RegisterFlow, LoginFlow, Kinds
  <2> QED BY <1>1, <2>1, <2>2 DEF Reading, Rotating, Confirming
<1>3. CASE r = [Idle EXCEPT !.kind = "google", !.pc = "findGoogle"]
  <2>1. r = Entered("google", "findGoogle", None, None)
    BY <1>3 DEF Idle
  <2>2. "google" \in Kinds /\ "findGoogle" \in DOMAIN Flow("google")
    BY DEF Flow, GoogleFlow, Kinds
  <2> QED BY <1>1, <2>1, <2>2 DEF Reading, Rotating, Confirming
<1>4. CASE \E kind \in {"requestCode", "setPassword", "identity", "update", "suspend",
                        "reinstate", "approve"} :
             r = [Idle EXCEPT !.kind = kind, !.pc = "find"]
  <2>1. PICK kind \in {"requestCode", "setPassword", "identity", "update", "suspend",
                       "reinstate", "approve"} : r = Entered(kind, "find", None, None)
    BY <1>4 DEF Idle
  <2>2. kind \in Kinds /\ "find" \in DOMAIN Flow(kind)
    BY DEF Flow, RequestCodeFlow, IdentityFlow, ChangeFlow, Kinds
  <2> QED BY <1>1, <2>1, <2>2 DEF Reading, Rotating, Confirming
<1>5. CASE \E kind \in Confirming, k \in Codes :
             r = [Idle EXCEPT !.kind = kind, !.pc = "find", !.code = k]
  <2>1. PICK kind \in Confirming, k \in Codes : r = Entered(kind, "find", k, None)
    BY <1>5 DEF Idle
  <2>2. kind \in Kinds /\ "find" \in DOMAIN Flow(kind)
    BY DEF Flow, VerifyFlow, Kinds, Confirming
  <2> QED BY <1>1, <2>1, <2>2, AccountsAssumption DEF Reading, Rotating, Confirming
<1>6. CASE \E kind \in Rotating, k \in Tokens :
             /\ tokens[k] # NoToken
             /\ r = [Idle EXCEPT !.kind = kind, !.pc = "findToken", !.token = k]
  <2>1. PICK kind \in Rotating, k \in Tokens :
          tokens[k] # NoToken /\ r = Entered(kind, "findToken", None, k)
    BY <1>6 DEF Idle
  <2>2. kind \in Kinds /\ "findToken" \in DOMAIN Flow(kind)
    BY DEF Flow, RefreshFlow, LogoutFlow, Kinds, Rotating
  <2> QED BY <1>1, <2>1, <2>2, AccountsAssumption DEF Reading, Rotating, Confirming
<1> QED BY <1>2, <1>3, <1>4, <1>5, <1>6 DEF Entrance

\* The others keep what they were doing.
LEMMA OneGoes ==
  ASSUME Types, NEW t \in Calls, NEW r \in CallState, Goes(t, r)
  PROVE  /\ call' \in [Calls -> CallState] /\ call'[t] = r
         /\ \A s \in Calls : s # t => call'[s] = call[s]
BY DEF Types, Goes

\* A call that fails is forgotten.
LEMMA Failing ==
  ASSUME Types, NEW t \in Calls, Fail(t)
  PROVE  /\ call[t].pc # "idle" /\ call'[t] = Idle
         /\ call' \in [Calls -> CallState]
         /\ \A s \in Calls : s # t => call'[s] = call[s]
         /\ UNCHANGED << user, codes, tokens, forked, now >>
BY IdleCall, OneGoes DEF Fail, Answer, At

\* Who writes the user's row, and what.
LEMMA UserMoves ==
  ASSUME Known, NEW t \in Calls, CallStep(t)
  PROVE  /\ user' \in User
         /\ \/ user' = user
            \/ /\ At(t, "save") /\ call[t].kind \in Kinds
               /\ user' = Changed(call[t].kind, call[t].seen)
<1>1. /\ call[t] \in CallState /\ call[t].pc # "idle" /\ call[t].kind \in Kinds
      /\ call[t].pc \in DOMAIN Flow(call[t].kind)
  BY CallMoves, Underway
<1>2. CASE Save(t)
  <2>1. /\ At(t, "save")
        /\ \/ user' = user
           \/ user' = Changed(call[t].kind, call[t].seen)
    BY <1>2 DEF Save
  <2>2. call[t].kind \notin {"login", "refresh", "logout"}
    BY <1>1, <2>1, FlowTable DEF At
  <2>3. Changed(call[t].kind, call[t].seen) \in User
    BY <1>1, <2>2, ChangedType DEF CallState
  <2> QED BY <1>1, <2>1, <2>3 DEF Known, Types
<1>3. CASE ~Save(t)
  BY <1>3 DEF CallStep, Find, FindGoogle, FindEmail, VerifyPassword, Upload, Count, SaveCode,
     Publish, FindCode, MarkUsed, FindToken, Revoke, SaveToken, Known, Types
<1> QED BY <1>2, <1>3

\* What becomes of the codes: one is added, or one is used.
LEMMA CodesMove ==
  ASSUME Known, NEW t \in Calls, CallStep(t)
  PROVE  /\ codes' \in [Codes -> Code]
         /\ \/ codes' = codes
            \/ /\ At(t, "code")
               /\ \E k \in Codes : codes' = [codes EXCEPT ![k] =
                    [type |-> TypeOf(call[t].kind), used |-> FALSE, expires |-> now + CodeTtl]]
            \/ codes' = [codes EXCEPT ![call[t].code].used = TRUE]
<1>1. codes \in [Codes -> Code] /\ now + CodeTtl \in Nat
  BY AccountsAssumption DEF Known, Types
<1>2. CASE SaveCode(t)
  <2>1. Fresh(codes, NoCode) \in Codes
    BY <1>1, <1>2 DEF SaveCode, Fresh, Unused
  <2>2. [type |-> TypeOf(call[t].kind), used |-> FALSE, expires |-> now + CodeTtl] \in Code
    BY <1>1 DEF TypeOf, Code
  <2> QED BY <1>1, <1>2, <2>1, <2>2 DEF SaveCode
<1>3. CASE MarkUsed(t)
  BY <1>1, <1>3 DEF MarkUsed, Code
<1>4. CASE ~SaveCode(t) /\ ~MarkUsed(t)
  BY <1>1, <1>4 DEF CallStep, Find, FindGoogle, FindEmail, VerifyPassword, Upload, Save, Count,
     Publish, FindCode, FindToken, Revoke, SaveToken
<1> QED BY <1>2, <1>3, <1>4

\* What becomes of the tokens: one is revoked, or one is issued.
LEMMA TokensMove ==
  ASSUME Known, TokensInv, NEW t \in Calls, CallStep(t)
  PROVE  \/ tokens' = tokens /\ ~At(t, "revoke") /\ ~At(t, "token")
         \/ /\ At(t, "revoke") /\ call[t].token \in Tokens
            /\ tokens' = [tokens EXCEPT ![call[t].token].state = "revoked"]
         \/ /\ At(t, "token")
            /\ \E n \in Tokens :
                 /\ tokens[n] = NoToken
                 /\ tokens' = [tokens EXCEPT ![n] =
                      [state |-> "live",
                       login |-> IF call[t].token = None THEN n
                                 ELSE tokens[call[t].token].login]]
<1>1. /\ call[t] \in CallState /\ CallInv(call[t]) /\ call[t].kind \in Kinds
      /\ call[t].pc \in DOMAIN Flow(call[t].kind)
  BY CallMoves, Underway
<1>2. CASE Revoke(t)
  <2>1. call[t].pc = "revoke" /\ call[t].kind \in Rotating
    BY <1>1, <1>2, FlowTable DEF Revoke, At
  <2> QED BY <1>1, <1>2, <2>1 DEF Revoke, CallState, CallInv
<1>3. CASE SaveToken(t)
  <2> DEFINE n == Fresh(tokens, NoToken)
  <2>1. n \in Tokens /\ tokens[n] = NoToken
    BY <1>3 DEF SaveToken, Fresh, Unused, Known, Types
  <2> QED BY <1>3, <2>1 DEF SaveToken
<1>4. CASE ~Revoke(t) /\ ~SaveToken(t)
  BY <1>4 DEF CallStep, Find, FindGoogle, FindEmail, VerifyPassword, Upload, Save, Count, SaveCode,
     Publish, FindCode, MarkUsed, FindToken, At
<1> QED BY <1>2, <1>3, <1>4

-----------------------------------------------------------------------------
(***************************************************************************)
(* Types, and what a call knows of the row it read and of its token.       *)
(***************************************************************************)

LEMMA TokenKinds == NoToken \in Token /\ \A n \in Token : n.state # "none" => n # NoToken
BY DEF Token, NoToken

LEMMA TokensType ==
  ASSUME Known, TokensInv, NEW t \in Calls, CallStep(t)
  PROVE  /\ tokens' \in [Tokens -> Token]
         /\ \A n \in Tokens : tokens[n] # NoToken =>
              tokens'[n] # NoToken /\ tokens'[n].login = tokens[n].login
         /\ \A n \in Tokens : tokens'[n] # NoToken =>
              tokens'[n].login # None /\ tokens'[tokens'[n].login] # NoToken
<1>1. /\ tokens \in [Tokens -> Token] /\ call[t] \in CallState
      /\ call[t].token # None => call[t].token \in Tokens /\ tokens[call[t].token] # NoToken
  BY DEF Known, Types, CallState, TokensInv
<1>2. ASSUME NEW n \in Tokens, tokens[n] # NoToken
      PROVE  /\ tokens[n].login \in Tokens /\ tokens[tokens[n].login] # NoToken
  BY <1>1, <1>2 DEF TokensInv, Token
<1>3. CASE tokens' = tokens
  BY <1>1, <1>2, <1>3, AccountsAssumption
<1>4. CASE /\ call[t].token \in Tokens
           /\ tokens' = [tokens EXCEPT ![call[t].token].state = "revoked"]
  <2>1. tokens' \in [Tokens -> Token]
    BY <1>1, <1>4 DEF Token
  <2>2. ASSUME NEW n \in Tokens
        PROVE  /\ tokens'[n].login = tokens[n].login
               /\ tokens[n] # NoToken => tokens'[n] # NoToken
    BY <1>1, <1>4 DEF NoToken, Token
  <2>3. call[t].token # None
    BY <1>4, AccountsAssumption
  <2>4. ASSUME NEW n \in Tokens, tokens'[n] # NoToken
        PROVE  tokens[n] # NoToken
    BY <1>1, <1>4, <2>3, <2>4
  <2> QED BY <1>2, <2>1, <2>2, <2>4, AccountsAssumption
<1>5. ASSUME NEW n \in Tokens, tokens[n] = NoToken,
             tokens' = [tokens EXCEPT ![n] =
               [state |-> "live", login |-> IF call[t].token = None THEN n
                                            ELSE tokens[call[t].token].login]]
      PROVE  /\ tokens' \in [Tokens -> Token]
             /\ \A m \in Tokens : tokens[m] # NoToken =>
                  tokens'[m] # NoToken /\ tokens'[m].login = tokens[m].login
             /\ \A m \in Tokens : tokens'[m] # NoToken =>
                  tokens'[m].login # None /\ tokens'[tokens'[m].login] # NoToken
  <2> DEFINE l == IF call[t].token = None THEN n ELSE tokens[call[t].token].login
  <2>1. l \in Tokens /\ (l = n \/ tokens[l] # NoToken)
    BY <1>1, <1>2
  <2>2. [state |-> "live", login |-> l] \in Token /\ [state |-> "live", login |-> l] # NoToken
    BY <2>1 DEF Token, NoToken
  <2>3. /\ tokens'[n] = [state |-> "live", login |-> l]
        /\ \A m \in Tokens : m # n => tokens'[m] = tokens[m]
        /\ tokens' \in [Tokens -> Token]
    BY <1>1, <1>5, <2>2
  <2> HIDE DEF l
  <2>4. tokens'[l] # NoToken /\ tokens'[n].login = l
    BY <2>1, <2>2, <2>3
  <2>5. ASSUME NEW m \in Tokens, tokens[m] # NoToken PROVE m # n
    BY <1>5, <2>5
  <2>6. ASSUME NEW m \in Tokens, tokens'[m] # NoToken
        PROVE  tokens'[m].login # None /\ tokens'[tokens'[m].login] # NoToken
    <3>1. CASE m = n
      BY <2>1, <2>4, <3>1, AccountsAssumption
    <3>2. CASE m # n
      <4>1. tokens[m] # NoToken /\ tokens'[m] = tokens[m]
        BY <2>3, <2>6, <3>2
      <4>2. tokens[m].login \in Tokens /\ tokens[tokens[m].login] # NoToken
        BY <1>2, <4>1
      <4> QED BY <2>3, <2>5, <4>1, <4>2, AccountsAssumption
    <3> QED BY <3>1, <3>2
  <2> QED BY <2>3, <2>5, <2>6
<1> QED BY <1>3, <1>4, <1>5, TokensMove

LEMMA KnownKept ==
  ASSUME Known, TokensInv, AccountStep
  PROVE  Known' /\ TokensInv'
<1>1. ASSUME NEW t \in Calls, NEW r \in CallState, CallInv(r), Goes(t, r),
             r.token # None => r.token \in Tokens /\ tokens'[r.token] # NoToken,
             \A n \in Tokens : tokens[n] # NoToken => tokens'[n] # NoToken
      PROVE  /\ call' \in [Calls -> CallState] /\ \A s \in Calls : CallInv(call'[s])
             /\ \A s \in Calls : call'[s].token # None => tokens'[call'[s].token] # NoToken
  <2>1. /\ call' \in [Calls -> CallState] /\ call'[t] = r
        /\ \A s \in Calls : s # t => call'[s] = call[s]
    BY <1>1, OneGoes DEF Known
  <2>2. ASSUME NEW s \in Calls, call[s].token # None
        PROVE  tokens'[call[s].token] # NoToken
    BY <1>1, <2>2 DEF Known, Types, CallState, TokensInv
  <2> QED BY <1>1, <2>1, <2>2 DEF Known
<1>2. ASSUME NEW t \in Calls, Enters(t) PROVE Known' /\ TokensInv'
  <2>1. PICK r : Entrance(r) /\ Goes(t, r)
    BY <1>2 DEF Enters
  <2>2. tokens' = tokens
    BY <1>2 DEF Enters
  <2>3. /\ call' \in [Calls -> CallState] /\ \A s \in Calls : CallInv(call'[s])
        /\ \A s \in Calls : call'[s].token # None => tokens'[call'[s].token] # NoToken
    BY <1>1, <2>1, <2>2, EntranceType
  <2> QED BY <1>2, <2>2, <2>3 DEF Known, Types, TokensInv, Enters
<1>3. ASSUME NEW t \in Calls, CallStep(t) PROVE Known' /\ TokensInv'
  <2>1. PICK r : GoesOn(t, r) /\ Goes(t, r)
    BY <1>3, CallMoves
  <2>2. /\ tokens' \in [Tokens -> Token]
        /\ \A n \in Tokens : tokens[n] # NoToken => tokens'[n] # NoToken
        /\ \A n \in Tokens : tokens'[n] # NoToken =>
             tokens'[n].login # None /\ tokens'[tokens'[n].login] # NoToken
    BY <1>3, TokensType
  <2>3. /\ r \in CallState /\ CallInv(r)
        /\ r.token # None => r.token \in Tokens /\ tokens'[r.token] # NoToken
    BY <2>1, <2>2 DEF GoesOn, Idle, Known, Types, CallState, TokensInv
  <2>4. /\ call' \in [Calls -> CallState] /\ \A s \in Calls : CallInv(call'[s])
        /\ \A s \in Calls : call'[s].token # None => tokens'[call'[s].token] # NoToken
    BY <1>1, <2>1, <2>2, <2>3
  <2>5. user' \in User /\ codes' \in [Codes -> Code] /\ now' \in Nat
    BY <1>3, UserMoves, CodesMove, CallMoves DEF Known, Types
  <2> QED BY <2>2, <2>4, <2>5 DEF Known, Types, TokensInv
<1>4. CASE Pass
  BY <1>4 DEF Pass, Known, Types, TokensInv
<1>5. CASE UNCHANGED vars
  BY <1>5 DEF vars, Known, Types, TokensInv
<1>6. ASSUME NEW t \in Calls, Fail(t) PROVE Known' /\ TokensInv'
  <2>1. /\ call' \in [Calls -> CallState] /\ call'[t] = Idle
        /\ \A s \in Calls : s # t => call'[s] = call[s]
        /\ UNCHANGED << user, codes, tokens, now >>
    BY <1>6, Failing DEF Known
  <2>2. \A s \in Calls : /\ CallInv(call'[s])
                         /\ call'[s].token # None => tokens[call'[s].token] # NoToken
    BY <2>1, IdleCall DEF Known, TokensInv, Idle
  <2> QED BY <2>1, <2>2 DEF Known, Types, TokensInv
<1> QED BY <1>2, <1>3, <1>4, <1>5, <1>6 DEF AccountStep

-----------------------------------------------------------------------------
(***************************************************************************)
(* One session for a login.                                                *)
(***************************************************************************)

\* Nothing is added to what a login goes on with.
LEMMA NothingAdded ==
  ASSUME NEW k, LoginInv(k), Sessions(k)' = Sessions(k),
         Issuing(k)' \subseteq Issuing(k), Holding(k)' \subseteq Holding(k),
         \A t \in Holding(k)' : call'[t].token = call[t].token
  PROVE  LoginInv(k)'
<1>1. /\ \A m, n \in Sessions(k)' : m = n
      /\ \A s, t \in Issuing(k)' : s = t
      /\ Sessions(k)' = {} \/ Issuing(k)' = {}
      /\ \A s, t \in Holding(k)' : s = t
  BY DEF LoginInv
<1>2. \A t \in Holding(k)' : call'[t].token \in Sessions(k)'
  BY DEF LoginInv
<1> QED BY <1>1, <1>2 DEF LoginInv

\* A call and the others, before and after.
LEMMA TokenHeld ==
  ASSUME Known, TokensInv, NEW s \in Calls, call[s].kind \in Rotating
  PROVE  call[s].token \in Tokens /\ tokens[call[s].token] # NoToken
BY DEF Known, CallInv, Types, CallState, TokensInv

LEMMA HoldingKinds ==
  ASSUME Known, TokensInv, NEW s \in Calls, call[s].pc = "revoke"
  PROVE  /\ call[s].kind \in Rotating
         /\ call[s].token \in Tokens /\ tokens[call[s].token] # NoToken
BY Underway, FlowTable, TokenHeld

LEMMA LoginKept ==
  ASSUME Known, TokensInv, NEW t \in Calls, CallStep(t),
         NEW k \in Tokens \ forked', LoginInv(k)
  PROVE  LoginInv(k)'
<1>1. /\ call[t] \in CallState /\ CallInv(call[t]) /\ call[t].kind \in Kinds
      /\ call[t].pc \in DOMAIN Flow(call[t].kind)
      /\ After(t) = Flow(call[t].kind)[call[t].pc]
  BY CallMoves, Underway
<1>2. PICK r : GoesOn(t, r) /\ Goes(t, r)
  BY CallMoves
<1>3. /\ call'[t] = r /\ r \in CallState
      /\ \A s \in Calls : s # t => call'[s] = call[s]
  BY <1>2, OneGoes DEF GoesOn, Known
<1>4. /\ \A n \in Tokens : tokens[n] # NoToken => tokens'[n].login = tokens[n].login
      /\ \A s \in Calls : call[s].kind \in Rotating =>
           call[s].token \in Tokens /\ tokens[call[s].token] # NoToken
      /\ \A s \in Calls : call[s].pc = "revoke" => call[s].kind \in Rotating
  BY TokensType, TokenHeld, HoldingKinds
<1>5. /\ r.pc = "idle" \/ (r.kind = call[t].kind /\ r.token = call[t].token)
      /\ r.pc = "revoke" => call[t].pc = "findToken"
      /\ r.pc \in {"find", "token"} /\ r.kind = "refresh" => call[t].pc \in {"find", "revoke"}
  BY <1>1, <1>2, FlowTable DEF GoesOn, Idle, At
<1>6. Issuing(k)' \subseteq Issuing(k) \cup {t} /\ Holding(k)' \subseteq Holding(k) \cup {t}
  BY <1>3, <1>4 DEF Issuing, Holding, At, Rotating
<1>7. t \in Issuing(k)' => t \in Issuing(k) \/ At(t, "revoke")
  BY <1>3, <1>4, <1>5 DEF Issuing, At, Rotating
<1>8. \A s \in Holding(k)' : call'[s].token = call[s].token
  BY <1>3, <1>5 DEF Holding, At
<1>9. CASE /\ At(t, "revoke") /\ call[t].token \in Tokens
           /\ tokens' = [tokens EXCEPT ![call[t].token].state = "revoked"]
  <2>1. r.pc \in {"find", "idle"} /\ call[t].kind \in Rotating
    <3>1. After(t) \in {"find", "done"} /\ call[t].kind \in Rotating
      BY <1>1, <1>9, FlowTable DEF At
    <3>2. r.pc \in {"idle", After(t)}
      BY <1>2, <1>9 DEF GoesOn, Idle, At
    <3> QED BY <1>3, <3>1, <3>2 DEF CallState, Steps
  <2>2. t \notin Holding(k)'
    BY <1>3, <2>1 DEF Holding, At
  <2>3. tokens \in [Tokens -> Token]
    BY DEF Known, Types
  <2>4. CASE tokens[call[t].token].login = k
    <3>1. t \in Holding(k)
      BY <1>9, <2>4 DEF Holding
    <3>2. Holding(k) = {t} /\ Sessions(k) = {call[t].token} /\ Issuing(k) = {}
      BY <3>1 DEF LoginInv
    <3>3. Sessions(k)' = {}
      <4>1. SUFFICES ASSUME NEW n \in Sessions(k)' PROVE FALSE
        OBVIOUS
      <4>2. n \in Tokens /\ tokens'[n].login = k /\ tokens'[n].state = "live"
        BY <4>1 DEF Sessions
      <4>3. n # call[t].token
        BY <1>9, <2>3, <4>2 DEF Token
      <4>4. n \in Sessions(k)
        BY <1>9, <2>3, <4>2, <4>3 DEF Sessions
      <4> QED BY <3>2, <4>3, <4>4
    <3>4. Holding(k)' = {} /\ Issuing(k)' \subseteq {t}
      BY <1>6, <2>2, <3>2
    <3> QED BY <3>3, <3>4 DEF LoginInv
  <2>5. CASE tokens[call[t].token].login # k
    <3>1. Sessions(k)' = Sessions(k)
      BY <1>9, <2>3, <2>5 DEF Sessions, Token
    <3>2. t \notin Issuing(k)'
      BY <1>3, <1>4, <1>5, <2>1, <2>5 DEF Issuing
    <3> QED BY <1>6, <1>8, <2>2, <3>1, <3>2, NothingAdded
  <2> QED BY <2>4, <2>5
<1>10. ASSUME At(t, "token"), NEW n \in Tokens, tokens[n] = NoToken,
              tokens' = [tokens EXCEPT ![n] =
                [state |-> "live", login |-> IF call[t].token = None THEN n
                                             ELSE tokens[call[t].token].login]]
       PROVE  LoginInv(k)'
  <2> DEFINE l == IF call[t].token = None THEN n ELSE tokens[call[t].token].login
  <2>1. r.pc = "idle" /\ call[t].kind \in {"google", "login", "refresh"}
    <3>1. After(t) = "done" /\ call[t].kind \in {"google", "login", "refresh"}
      BY <1>1, <1>10, FlowTable DEF At
    <3>2. r.pc \in {"idle", After(t)}
      BY <1>2, <1>10 DEF GoesOn, Idle, At
    <3> QED BY <1>3, <3>1, <3>2 DEF CallState, Steps
  <2>2. /\ tokens'[n] = [state |-> "live", login |-> l]
        /\ \A m \in Tokens : m # n => tokens'[m] = tokens[m]
    BY <1>10 DEF Known, Types
  <2>3. t \notin Issuing(k)' /\ t \notin Holding(k)'
    BY <1>3, <2>1 DEF Issuing, Holding, At
  <2>4. Issuing(k)' \subseteq Issuing(k) /\ Holding(k)' \subseteq Holding(k)
    BY <1>6, <2>3
  <2>5. call[t].token # None <=> call[t].kind = "refresh"
    BY <1>1, <2>1 DEF CallInv, Rotating
  <2> HIDE DEF l
  <2>6. n \notin Sessions(k)
    BY <1>10 DEF Sessions, NoToken
  <2>7. CASE l # k
    <3>1. Sessions(k)' = Sessions(k)
      BY <2>2, <2>6, <2>7 DEF Sessions
    <3> QED BY <1>8, <2>4, <3>1, NothingAdded
  <2>8. CASE l = k
    <3>1. Sessions(k)' \subseteq Sessions(k) \cup {n}
      BY <2>2 DEF Sessions
    <3>2. Sessions(k) = {} /\ Issuing(k)' = {} /\ Holding(k)' = {}
      <4>1. CASE call[t].kind = "refresh"
        <5>1. t \in Issuing(k)
          BY <1>10, <2>5, <2>8, <4>1 DEF Issuing, At, l
        <5>2. Issuing(k) = {t} /\ Sessions(k) = {}
          BY <5>1 DEF LoginInv
        <5>3. Holding(k) = {}
          BY <5>2 DEF LoginInv
        <5> QED BY <2>3, <2>4, <5>2, <5>3
      <4>2. CASE call[t].kind # "refresh"
        <5>1. k = n
          BY <2>5, <2>8, <4>2 DEF l
        <5>2. \A m \in Tokens : tokens[m] # NoToken => tokens[m].login # n
          BY <1>10 DEF TokensInv
        <5>3. Sessions(k) = {}
          BY <1>10, <5>1, <5>2 DEF Sessions, NoToken
        <5>4. Issuing(k) = {} /\ Holding(k) = {}
          BY <1>4, <5>1, <5>2 DEF Issuing, Holding, Rotating, At
        <5> QED BY <2>4, <5>3, <5>4
      <4> QED BY <4>1, <4>2
    <3> QED BY <3>1, <3>2 DEF LoginInv
  <2> QED BY <2>7, <2>8
<1>11. CASE tokens' = tokens /\ ~At(t, "revoke") /\ ~At(t, "token")
  <2>1. Sessions(k)' = Sessions(k) /\ Issuing(k)' \subseteq Issuing(k)
    BY <1>6, <1>7, <1>11 DEF Sessions
  <2>2. CASE t \notin Holding(k)'
    BY <1>6, <1>8, <2>1, <2>2, NothingAdded
  <2>3. CASE t \in Holding(k)'
    <3>1. /\ r.pc = "revoke" /\ call[t].pc = "findToken" /\ r.token = call[t].token
          /\ tokens[call[t].token].login = k
      BY <1>3, <1>5, <1>11, <2>3 DEF Holding, At
    <3>2. FindToken(t)
      BY <3>1 DEF CallStep, Find, FindGoogle, FindEmail, VerifyPassword, Upload, Save, Count,
         SaveCode, Publish, FindCode, MarkUsed, Revoke, SaveToken, At
    <3>3. IsLive(call[t].token) /\ ~Overlaps(t)
      <4>1. IsLive(call[t].token)
        <5>1. ASSUME Answer(t) PROVE FALSE
          <6>1. call'[t] = Idle
            BY <5>1, IdleCall, OneGoes DEF Answer, Known
          <6> QED BY <1>3, <3>1, <6>1 DEF Idle
        <5> QED BY <3>2, <5>1 DEF FindToken
      <4>2. forked' = IF Overlaps(t) THEN forked \cup {k} ELSE forked
        BY <3>1, <3>2, <4>1 DEF FindToken
      <4> QED BY <4>1, <4>2
    <3>4. call[t].kind \in Rotating /\ call[t].token \in Tokens
      BY <1>1, <1>4, <3>1, FlowTable
    <3>5. call[t].token \in Sessions(k)
      BY <3>1, <3>3, <3>4 DEF IsLive, Sessions
    <3>6. Holding(k) \subseteq {t}
      BY <3>3, <3>5 DEF LoginInv, Overlaps, Holding
    <3>7. Holding(k)' = {t} /\ call'[t].token \in Sessions(k)'
      BY <1>3, <1>6, <2>1, <2>3, <3>1, <3>5, <3>6
    <3>8. /\ \A m, n \in Sessions(k)' : m = n
          /\ \A s, u \in Issuing(k)' : s = u
          /\ Sessions(k)' = {} \/ Issuing(k)' = {}
      BY <2>1 DEF LoginInv
    <3> QED BY <3>7, <3>8 DEF LoginInv
  <2> QED BY <2>2, <2>3
<1> QED BY <1>9, <1>10, <1>11, TokensMove

\* Histories only grow.
LEMMA ForkedGrows ==
  ASSUME AccountStep
  PROVE  forked \subseteq forked'
BY DEF AccountStep, Enters, Fail, CallStep, Find, FindGoogle, FindEmail, VerifyPassword, Upload, Save,
   Count, SaveCode, Publish, FindCode, MarkUsed, FindToken, Revoke, SaveToken,
   Pass, vars

LEMMA LoginsKept ==
  ASSUME Known, TokensInv, \A k \in Tokens \ forked : LoginInv(k), AccountStep
  PROVE  \A k \in Tokens \ forked' : LoginInv(k)'
<1> SUFFICES ASSUME NEW k \in Tokens \ forked' PROVE LoginInv(k)'
  OBVIOUS
<1>1. k \in Tokens \ forked /\ LoginInv(k)
  BY ForkedGrows
<1>2. ASSUME NEW t \in Calls, Enters(t) PROVE LoginInv(k)'
  <2>1. PICK r : Entrance(r) /\ Goes(t, r)
    BY <1>2 DEF Enters
  <2>2. /\ r.kind = "refresh" => r.pc = "findToken"
        /\ r.pc \in {"findEmail", "findGoogle", "find", "findToken"}
        /\ \A s \in Calls : s # t => call'[s] = call[s]
        /\ tokens' = tokens
    BY <1>2, <2>1, EntranceType, OneGoes DEF Known, Enters
  <2>3. call'[t] = r
    BY <2>1, EntranceType, OneGoes DEF Known
  <2>4. /\ Sessions(k)' = Sessions(k)
        /\ Issuing(k)' \subseteq Issuing(k) /\ Holding(k)' \subseteq Holding(k)
        /\ \A s \in Holding(k)' : call'[s].token = call[s].token
    BY <2>2, <2>3 DEF Sessions, Issuing, Holding, At
  <2> QED BY <1>1, <2>4, NothingAdded
<1>3. CASE Pass \/ UNCHANGED vars
  <2>1. tokens' = tokens /\ call' = call
    BY <1>3 DEF Pass, vars
  <2> QED BY <1>1, <2>1 DEF LoginInv, Sessions, Issuing, Holding, At
<1>4. ASSUME NEW t \in Calls, Fail(t) PROVE LoginInv(k)'
  <2>1. /\ call'[t] = Idle /\ \A s \in Calls : s # t => call'[s] = call[s]
        /\ tokens' = tokens
    BY <1>4, Failing DEF Known
  <2>2. /\ Sessions(k)' = Sessions(k)
        /\ Issuing(k)' \subseteq Issuing(k) /\ Holding(k)' \subseteq Holding(k)
        /\ \A s \in Holding(k)' : call'[s].token = call[s].token
    BY <2>1 DEF Sessions, Issuing, Holding, At, Idle
  <2> QED BY <1>1, <2>2, NothingAdded
<1> QED BY <1>1, <1>2, <1>3, <1>4, LoginKept DEF AccountStep

-----------------------------------------------------------------------------
(***************************************************************************)
(* The codes texted in a window.                                           *)
(***************************************************************************)

\* A code joins the recent ones in exchange for the call that counted before.
RecentMove(t) ==
  \/ Recent' \subseteq Recent /\ Counted' \subseteq Counted
  \/ /\ Cardinality(Recent) < MaxAttempts /\ Recent' = Recent
  \/ /\ t \in Counted /\ Counted' \subseteq Counted \ {t}
     /\ \E k \in Codes : Recent' \subseteq Recent \cup {k}

LEMMA RecentBound ==
  ASSUME RecentInv, NEW t, RecentMove(t)
  PROVE  RecentInv'
<1> DEFINE c == Cardinality(Recent)
           d == Cardinality(Counted)
           c1 == Cardinality(Recent')
           d1 == Cardinality(Counted')
           all == Cardinality(Calls)
<1>1. /\ IsFiniteSet(Recent) /\ IsFiniteSet(Counted) /\ IsFiniteSet(Calls)
      /\ Counted' \subseteq Calls /\ IsFiniteSet(Counted')
      /\ c \in Nat /\ d \in Nat /\ all \in Nat /\ MaxAttempts \in Nat
      /\ c + d < MaxAttempts + all
  BY AccountsAssumption, FS_Subset, FS_CardinalityType DEF RecentInv, Counted
<1>2. d1 \in Nat /\ d1 <= all
  BY <1>1, FS_Subset, FS_CardinalityType
<1>3. CASE Recent' \subseteq Recent /\ Counted' \subseteq Counted
  <2>1. IsFiniteSet(Recent') /\ c1 \in Nat /\ c1 <= c /\ d1 <= d
    BY <1>1, <1>3, FS_Subset, FS_CardinalityType
  <2> HIDE DEF c, d, c1, d1, all
  <2>2. c1 + d1 < MaxAttempts + all
    BY <1>1, <1>2, <2>1
  <2> QED BY <2>1, <2>2 DEF RecentInv, c1, d1, all
<1>4. CASE Cardinality(Recent) < MaxAttempts /\ Recent' = Recent
  <2>1. IsFiniteSet(Recent') /\ c1 \in Nat /\ c1 < MaxAttempts
    BY <1>1, <1>4
  <2> HIDE DEF c, d, c1, d1, all
  <2>2. c1 + d1 < MaxAttempts + all
    BY <1>1, <1>2, <2>1
  <2> QED BY <2>1, <2>2 DEF RecentInv, c1, d1, all
<1>5. CASE /\ t \in Counted /\ Counted' \subseteq Counted \ {t}
           /\ \E k \in Codes : Recent' \subseteq Recent \cup {k}
  <2>1. PICK k \in Codes : Recent' \subseteq Recent \cup {k}
    BY <1>5
  <2>2. /\ IsFiniteSet(Recent \cup {k})
        /\ Cardinality(Recent \cup {k}) = IF k \in Recent THEN c ELSE c + 1
    BY <1>1, FS_AddElement
  <2>3. /\ IsFiniteSet(Recent') /\ c1 \in Nat /\ c1 <= Cardinality(Recent \cup {k})
    BY <2>1, <2>2, FS_Subset, FS_CardinalityType
  <2>4. IsFiniteSet(Counted \ {t}) /\ Cardinality(Counted \ {t}) = d - 1
    BY <1>1, <1>5, FS_RemoveElement
  <2>5. d1 <= Cardinality(Counted \ {t})
    BY <1>5, <2>4, FS_Subset
  <2> HIDE DEF c, d, c1, d1, all
  <2>6. c1 <= c + 1 /\ d1 <= d - 1
    BY <1>1, <2>2, <2>3, <2>4, <2>5
  <2>7. c1 + d1 < MaxAttempts + all
    BY <1>1, <1>2, <2>3, <2>6
  <2> QED BY <2>3, <2>7 DEF RecentInv, c1, d1, all
<1> QED BY <1>3, <1>4, <1>5 DEF RecentMove

LEMMA RecentKept ==
  ASSUME Known, RecentInv, AccountStep
  PROVE  RecentInv'
<1>1. codes \in [Codes -> Code] /\ now \in Nat /\ Lockout \in Nat /\ CodeTtl \in Nat
  BY AccountsAssumption DEF Known, Types
<1>2. ASSUME NEW t \in Calls, Enters(t) PROVE RecentInv'
  <2>1. PICK r : Entrance(r) /\ Goes(t, r)
    BY <1>2 DEF Enters
  <2>2. /\ call'[t] = r /\ \A s \in Calls : s # t => call'[s] = call[s]
        /\ r.pc \notin {"save", "code"}
    BY <2>1, EntranceType, OneGoes DEF Known
  <2>3. Counted' \subseteq Counted /\ Recent' = Recent
    BY <1>2, <2>2 DEF Counted, Recent, Enters
  <2> QED BY <2>3, RecentBound DEF RecentMove
<1>3. ASSUME NEW t \in Calls, CallStep(t) PROVE RecentInv'
  <2>1. /\ call[t] \in CallState /\ call[t].kind \in Kinds
        /\ call[t].pc \in DOMAIN Flow(call[t].kind)
        /\ After(t) = Flow(call[t].kind)[call[t].pc] /\ now' = now
    BY <1>3, CallMoves, Underway
  <2>2. PICK r : GoesOn(t, r) /\ Goes(t, r)
    BY <1>3, CallMoves
  <2>3. /\ call'[t] = r /\ r \in CallState
        /\ \A s \in Calls : s # t => call'[s] = call[s]
    BY <2>2, OneGoes DEF GoesOn, Known
  <2>4. Counted' \subseteq Counted \cup {t}
    BY <2>3 DEF Counted
  <2>5. CASE t \in Counted' /\ t \notin Counted
    <3>1. r.kind = "requestCode" /\ r.pc \in {"save", "code"}
      BY <2>3, <2>5 DEF Counted
    <3>2. call[t].kind = "requestCode" /\ call[t].pc \notin {"save", "code"}
      BY <2>2, <2>5, <3>1 DEF GoesOn, Idle, Counted
    <3>3. call[t].pc # "findGoogle"
      BY <2>1, <3>2, FlowTable
    <3>4. call[t].pc = "count"
      BY <2>1, <2>2, <3>1, <3>2, <3>3, FlowTable DEF GoesOn, Idle, At
    <3>5. Count(t)
      BY <1>3, <3>4 DEF CallStep, Find, FindGoogle, FindEmail, VerifyPassword, Upload, Save,
         SaveCode, Publish, FindCode, MarkUsed, FindToken, Revoke, SaveToken, At
    <3>6. Admits(Cardinality(Recent))
      <4>1. ASSUME Answer(t) PROVE FALSE
        <5>1. call'[t] = Idle
          BY <4>1, IdleCall, OneGoes DEF Answer, Known
        <5> QED BY <2>3, <3>1, <5>1 DEF Idle
      <4> QED BY <3>5, <4>1 DEF Count
    <3>7. Recent' = Recent
      BY <3>5 DEF Count, Recent
    <3> QED BY <3>6, <3>7, RecentBound DEF RecentMove, Admits
  <2>6. CASE Counted' \subseteq Counted
    <3>1. CASE codes' = codes
      <4>1. Recent' = Recent
        BY <2>1, <3>1 DEF Recent
      <4> QED BY <2>6, <4>1, RecentBound DEF RecentMove
    <3>2. CASE codes' = [codes EXCEPT ![call[t].code].used = TRUE]
      <4>1. \A k \in Codes : codes'[k].type = codes[k].type /\ codes'[k].expires = codes[k].expires
        BY <1>1, <3>2 DEF Code
      <4>2. Recent' = Recent
        BY <2>1, <4>1 DEF Recent
      <4> QED BY <2>6, <4>2, RecentBound DEF RecentMove
    <3>3. ASSUME At(t, "code"), NEW k \in Codes,
                 codes' = [codes EXCEPT ![k] =
                   [type |-> TypeOf(call[t].kind), used |-> FALSE, expires |-> now + CodeTtl]]
          PROVE  RecentInv'
      <4>1. /\ \A j \in Codes : j # k => codes'[j] = codes[j]
            /\ codes'[k].type = TypeOf(call[t].kind)
        BY <1>1, <3>3
      <4>2. call[t].kind \in {"register", "requestCode"} /\ After(t) = "publish"
        BY <2>1, <3>3, FlowTable DEF At
      <4>3. CASE call[t].kind = "register"
        <5>1. Recent' \subseteq Recent
          BY <2>1, <4>1, <4>3 DEF Recent, TypeOf
        <5> QED BY <2>6, <5>1, RecentBound DEF RecentMove
      <4>4. CASE call[t].kind = "requestCode"
        <5>1. t \in Counted
          BY <3>3, <4>4 DEF Counted, At
        <5>2. r.pc \notin {"save", "code"}
          BY <2>2, <3>3, <4>2 DEF GoesOn, Idle, At
        <5>3. Counted' \subseteq Counted \ {t}
          BY <2>3, <2>6, <5>2 DEF Counted
        <5>4. Recent' \subseteq Recent \cup {k}
          BY <2>1, <4>1 DEF Recent
        <5> QED BY <5>1, <5>3, <5>4, RecentBound DEF RecentMove
      <4> QED BY <4>2, <4>3, <4>4
    <3> QED BY <1>3, <3>1, <3>2, <3>3, CodesMove
  <2> QED BY <2>4, <2>5, <2>6
<1>4. CASE Pass
  <2>1. \A k \in Codes : codes[k].expires \in Nat
    BY <1>1 DEF Code
  <2>2. Recent' \subseteq Recent /\ Counted' = Counted
    BY <1>1, <1>4, <2>1 DEF Pass, Recent, Counted
  <2> QED BY <2>2, RecentBound DEF RecentMove
<1>5. CASE UNCHANGED vars
  <2>1. Recent' = Recent /\ Counted' = Counted
    BY <1>5 DEF vars, Recent, Counted
  <2> QED BY <2>1, RecentBound DEF RecentMove
<1>6. ASSUME NEW t \in Calls, Fail(t) PROVE RecentInv'
  <2>1. /\ call'[t] = Idle /\ \A s \in Calls : s # t => call'[s] = call[s]
        /\ UNCHANGED << codes, now >>
    BY <1>6, Failing DEF Known
  <2>2. Recent' = Recent /\ Counted' \subseteq Counted
    BY <2>1 DEF Recent, Counted, Idle
  <2> QED BY <2>2, RecentBound DEF RecentMove
<1> QED BY <1>2, <1>3, <1>4, <1>5, <1>6 DEF AccountStep

-----------------------------------------------------------------------------
(***************************************************************************)
(* The account by itself.                                                  *)
(***************************************************************************)
LEMMA AccountKept ==
  ASSUME AccountSound, AccountStep
  PROVE  AccountSound'
<1>1. Known /\ TokensInv /\ RecentInv /\ \A k \in Tokens \ forked : LoginInv(k)
  BY DEF AccountSound, Known
<1>2. Known' /\ TokensInv' /\ RecentInv' /\ \A k \in Tokens \ forked' : LoginInv(k)'
  BY <1>1, KnownKept, LoginsKept, RecentKept
<1> QED BY <1>2 DEF AccountSound, Known

\* What a request presents, and the call it becomes.
Presents(kind, r) ==
  \/ kind \in {"register", "login"} /\ r = [Idle EXCEPT !.pc = "findEmail"]
  \/ kind = "google" /\ r = [Idle EXCEPT !.pc = "findGoogle"]
  \/ /\ kind \in {"requestCode", "setPassword", "identity", "update", "suspend",
                  "reinstate", "approve"}
     /\ r = [Idle EXCEPT !.pc = "find"]
  \/ /\ kind \in Confirming
     /\ \E k \in Codes : r = [Idle EXCEPT !.pc = "find", !.code = k]
  \/ /\ kind \in Rotating
     /\ \E k \in Tokens : /\ tokens[k] # NoToken
                          /\ r = [Idle EXCEPT !.pc = "findToken", !.token = k]

LEMMA Presented ==
  ASSUME NEW kind, NEW r, Presents(kind, r)
  PROVE  Entrance([r EXCEPT !.kind = kind])
<1>1. CASE kind \in {"register", "login"} /\ r = [Idle EXCEPT !.pc = "findEmail"]
  BY <1>1 DEF Entrance, Idle
<1>2. CASE kind = "google" /\ r = [Idle EXCEPT !.pc = "findGoogle"]
  BY <1>2 DEF Entrance, Idle
<1>3. CASE /\ kind \in {"requestCode", "setPassword", "identity", "update", "suspend",
                        "reinstate", "approve"}
           /\ r = [Idle EXCEPT !.pc = "find"]
  BY <1>3 DEF Entrance, Idle
<1>4. CASE /\ kind \in Confirming
           /\ \E k \in Codes : r = [Idle EXCEPT !.pc = "find", !.code = k]
  <2>1. PICK k \in Codes : r = [Idle EXCEPT !.pc = "find", !.code = k]
    BY <1>4
  <2>2. [r EXCEPT !.kind = kind] = [Idle EXCEPT !.kind = kind, !.pc = "find", !.code = k]
    BY <2>1 DEF Idle
  <2> QED BY <1>4, <2>2 DEF Entrance
<1>5. CASE /\ kind \in Rotating
           /\ \E k \in Tokens : /\ tokens[k] # NoToken
                                /\ r = [Idle EXCEPT !.pc = "findToken", !.token = k]
  <2>1. PICK k \in Tokens : /\ tokens[k] # NoToken
                            /\ r = [Idle EXCEPT !.pc = "findToken", !.token = k]
    BY <1>5
  <2>2. [r EXCEPT !.kind = kind]
          = [Idle EXCEPT !.kind = kind, !.pc = "findToken", !.token = k]
    BY <2>1 DEF Idle
  <2> QED BY <1>5, <2>1, <2>2 DEF Entrance
<1> QED BY <1>1, <1>2, <1>3, <1>4, <1>5 DEF Presents

\* Every route takes what some request presents.
LEMMA RequestAsks ==
  ASSUME NEW t \in Calls, Request(t)
  PROVE  \E kind, r : Asks(t, kind, r) /\ Presents(kind, r)
<1>1. CASE RegisterRoute(t) \/ CreateUserRoute(t) \/ LoginRoute(t) \/ GoogleRoute(t)
  BY <1>1 DEF RegisterRoute, CreateUserRoute, LoginRoute, GoogleRoute, Presents
<1>2. CASE RefreshRoute(t) \/ LogoutRoute(t)
  BY <1>2 DEF RefreshRoute, LogoutRoute, WithCookie, Presents, Rotating
<1>3. CASE VerifyEmailRoute(t) \/ VerifyPhoneRoute(t)
  BY <1>3 DEF VerifyEmailRoute, VerifyPhoneRoute, WithCode, Presents, Confirming
<1>4. CASE RequestCodeRoute(t) \/ PasswordRoute(t) \/ IdentityRoute(t) \/ UpdateRoute(t)
  BY <1>4 DEF RequestCodeRoute, PasswordRoute, IdentityRoute, UpdateRoute, ForUser,
     Presents
<1>5. CASE AdminRoute(t)
  BY <1>5 DEF AdminRoute, ForUser, Presents
<1> QED BY <1>1, <1>2, <1>3, <1>4, <1>5 DEF Request

LEMMA RequestEnters ==
  ASSUME NEW t \in Calls, Request(t)
  PROVE  Enters(t)
<1>1. ASSUME NEW kind, NEW r, Asks(t, kind, r), Presents(kind, r)
      PROVE  \E e : Entrance(e) /\ Goes(t, e)
  BY <1>1, Presented DEF Asks
<1> QED BY <1>1, RequestAsks DEF Enters, Request

\* What the account begins with: nobody is signed in, or one browser is.
LEMMA AccountBegins ==
  ASSUME NEW someone \in User, Start(someone), tokens \in [Tokens -> Token],
         NEW n, \A m \in Tokens : tokens[m] # NoToken => m = n /\ tokens[m].login = n
  PROVE  AccountSound
<1>1. /\ call = [t \in Calls |-> Idle] /\ codes = [k \in Codes |-> NoCode]
      /\ now = 0 /\ user = someone
  BY DEF Start
<1>2. Types
  BY <1>1, IdleCall DEF Types, NoCode, Code
<1>3. \A t \in Calls : CallInv(call[t]) /\ call[t].token = None
                       /\ call[t].kind = "none" /\ call[t].pc = "idle"
  BY <1>1, IdleCall DEF Idle
<1>4. TokensInv
  BY <1>3, AccountsAssumption DEF TokensInv
<1>5. ASSUME NEW k \in Tokens PROVE LoginInv(k)
  <2>1. Issuing(k) = {} /\ Holding(k) = {}
    BY <1>3 DEF Issuing, Holding, At
  <2>2. \A m \in Sessions(k) : m = n
    BY DEF Sessions, NoToken
  <2> QED BY <2>1, <2>2 DEF LoginInv
<1>6. Recent = {} /\ Counted = {}
  BY <1>1, <1>3 DEF Recent, Counted, NoCode
<1>7. RecentInv
  <2>1. /\ IsFiniteSet({}) /\ Cardinality({}) = 0
        /\ Cardinality(Calls) \in Nat /\ MaxAttempts \in Nat \ {0}
    BY FS_EmptySet, FS_CardinalityType, AccountsAssumption
  <2> QED BY <1>6, <2>1 DEF RecentInv
<1> QED BY <1>2, <1>3, <1>4, <1>5, <1>7 DEF AccountSound

LEMMA SignedOutTokens ==
  ASSUME SignedOut
  PROVE  /\ tokens \in [Tokens -> Token]
         /\ \A m \in Tokens : tokens[m] = NoToken
BY TokenKinds DEF SignedOut

LEMMA People == {NoUser, Member, Bidder, CreateFromGoogle} \subseteq User
<1>1. NoUser \in User /\ Create \in User /\ CreateFromGoogle \in User
  BY DEF NoUser, Create, CreateFromGoogle, User, UserStatus
<1>2. Member \in User
  BY <1>1 DEF Member, User, UserStatus
<1>3. Bidder \in User
  BY <1>2 DEF Bidder, User, UserStatus
<1> QED BY <1>1, <1>2, <1>3

\* The inductive invariant of one person's account, whoever calls.
THEOREM AccountAlwaysSound == Spec => []AccountSound
<1>1. Init => AccountSound
  BY AccountBegins, SignedOutTokens, People DEF Init
<1>2. AccountSound /\ [Next]_vars => AccountSound'
  BY AccountKept, RequestEnters DEF Next, Tick, AccountStep
<1> QED BY <1>1, <1>2, PTL DEF Spec

\* Nothing is lost and nobody freed but as the property says.
LEMMA NothingLostStep ==
  ASSUME AccountSound, AccountStep
  PROVE  (Lost => WritesOld) /\ (Freed => WritesOld \/ Frees)
<1> SUFFICES ASSUME ~WritesOld
             PROVE  ~Lost /\ (Freed => Frees)
  OBVIOUS
<1>1. Known
  BY DEF AccountSound, Known
<1>2. ASSUME user' = user PROVE ~Lost /\ ~Freed
  BY <1>2 DEF Lost, Freed
<1>3. ASSUME NEW t \in Calls, CallStep(t), user' # user PROVE ~Lost /\ (Freed => Frees)
  <2>1. /\ At(t, "save") /\ call[t].kind \in Kinds
        /\ user' = Changed(call[t].kind, call[t].seen)
    BY <1>1, <1>3, UserMoves
  <2>2. call[t].seen = user /\ user \in User
    BY <1>1, <2>1 DEF WritesOld, Known, Types
  <2>3. /\ call[t].pc \in DOMAIN Flow(call[t].kind) /\ CallInv(call[t])
    BY <1>1, <1>3, CallMoves, Underway
  <2>4. call[t].kind \notin {"login", "refresh", "logout"}
    BY <2>1, <2>3, FlowTable DEF At
  <2>5. IF call[t].kind = "register" THEN user = NoUser ELSE May(call[t].kind, user)
    BY <2>1, <2>2, <2>3 DEF CallInv, At
  <2> DEFINE k == call[t].kind
  <2>6. user' = Changed(k, user)
    BY <2>1, <2>2
  <2>7. k \in {"reinstate", "verifyPhone", "identity"} => Frees
    BY <2>1 DEF Frees
  <2> HIDE DEF k
  <2>8. k \in Kinds \ {"login", "refresh", "logout"}
    BY <2>1, <2>4 DEF k
  <2>9. IF k = "register" THEN user = NoUser ELSE May(k, user)
    BY <2>5 DEF k
  <2>10. ~Lost
    BY <2>2, <2>6, <2>8, <2>9 DEF Lost, Settings, Changed, Kinds, User, Create,
       CreateFromGoogle, NoUser
  <2>11. Freed => k \in {"reinstate", "verifyPhone", "identity"}
    BY <2>2, <2>6, <2>8, <2>9 DEF Freed, Changed, Kinds, User, Create,
       CreateFromGoogle, NoUser, May, MayApprove
  <2> QED BY <2>7, <2>10, <2>11
<1>4. CASE user' # user
  BY <1>3, <1>4 DEF AccountStep, Enters, Fail, Pass, vars
<1> QED BY <1>2, <1>4

LEMMA SessionOfLogin ==
  ASSUME AccountSound
  PROVE  OneSession
<1> SUFFICES ASSUME NEW k \in Tokens \ forked
             PROVE  Cardinality(Sessions(k)) + Cardinality(Issuing(k)) <= 1
  BY DEF OneSession
<1>1. LoginInv(k)
  BY DEF AccountSound
<1>2. ASSUME NEW S, \A m, n \in S : m = n
      PROVE  Cardinality(S) \in {0, 1} /\ (S = {} => Cardinality(S) = 0)
  <2>1. CASE S = {}
    BY <2>1, FS_EmptySet
  <2>2. CASE S # {}
    <3>1. PICK m \in S : TRUE
      BY <2>2
    <3>2. S = {m}
      BY <1>2, <3>1
    <3> QED BY <2>2, <3>2, FS_Singleton
  <2> QED BY <2>1, <2>2
<1>3. /\ Cardinality(Sessions(k)) \in {0, 1} /\ (Sessions(k) = {} => Cardinality(Sessions(k)) = 0)
      /\ Cardinality(Issuing(k)) \in {0, 1} /\ (Issuing(k) = {} => Cardinality(Issuing(k)) = 0)
  BY <1>1, <1>2 DEF LoginInv
<1>4. Sessions(k) = {} \/ Issuing(k) = {}
  BY <1>1 DEF LoginInv
<1> QED BY <1>3, <1>4

LEMMA CodesOfWindow ==
  ASSUME AccountSound
  PROVE  CodesBounded
<1>1. /\ IsFiniteSet(Recent) /\ IsFiniteSet(Counted)
      /\ Cardinality(Recent) + Cardinality(Counted) < MaxAttempts + Cardinality(Calls)
  BY AccountsAssumption, FS_Subset DEF AccountSound, RecentInv, Counted
<1>2. /\ Cardinality(Recent) \in Nat /\ Cardinality(Counted) \in Nat
      /\ Cardinality(Calls) \in Nat /\ MaxAttempts \in Nat
  BY <1>1, FS_CardinalityType, AccountsAssumption
<1> QED BY <1>1, <1>2 DEF CodesBounded

-----------------------------------------------------------------------------
(***************************************************************************)
(* The browser: what its windows send is what the routes let through.      *)
(***************************************************************************)
LEMMA TokensStay ==
  ASSUME AccountSound, AccountStep, NEW n \in Tokens, tokens[n] # NoToken
  PROVE  tokens'[n] # NoToken
<1>1. Known /\ TokensInv
  BY DEF AccountSound, Known
<1>2. ASSUME NEW t \in Calls, CallStep(t) PROVE tokens'[n] # NoToken
  BY <1>1, <1>2, TokensType
<1> QED BY <1>2 DEF AccountStep, Enters, Fail, Pass, vars

\* What the browser knows of tokens it was told, or forgot.
LEMMA BrowserSame ==
  ASSUME AccountSound, BrowserInv, AccountStep,
         asked' \in [Calls -> Question],
         \A t \in Calls : asked'[t].token \in {None, asked[t].token},
         \/ cookie' \in {None, cookie}
         \/ \E t \in Calls : cookie' = asked[t].token
  PROVE  BrowserInv'
<1>1. \A t \in Calls : asked[t].token \in Tokens \cup {None}
  BY DEF BrowserInv, Question
<1>2. ASSUME NEW n \in Tokens \cup {None}, n # None => tokens[n] # NoToken
      PROVE  n # None => tokens'[n] # NoToken
  BY <1>2, TokensStay
<1>3. cookie' \in Tokens \cup {None} /\ (cookie' # None => tokens'[cookie'] # NoToken)
  BY <1>1, <1>2 DEF BrowserInv
<1>4. \A t \in Calls : asked'[t].token # None => tokens'[asked'[t].token] # NoToken
  BY <1>1, <1>2 DEF BrowserInv
<1> QED BY <1>3, <1>4 DEF BrowserInv

LEMMA UnaskedType == Unasked \in Question /\ Unasked.token = None
BY DEF Unasked, Question, NoClaims, Claim

\* A request of a window.
LEMMA SendsEnters ==
  ASSUME AccountSound, BrowserInv, NEW w \in Windows, NEW kind, NEW r,
         Presents(kind, r), Sends(w, kind, r), UNCHANGED << InService, cookie >>
  PROVE  AccountStep /\ BrowserInv'
<1>1. PICK t \in Calls :
        /\ At(t, "idle") /\ Goes(t, [r EXCEPT !.kind = kind])
        /\ asked' = [asked EXCEPT ![t] = [Unasked EXCEPT !.tab = w, !.what = kind,
                                                         !.presented = r.token]]
  BY DEF Sends
<1>2. Enters(t)
  BY <1>1, Presented DEF Enters, InService
<1>3. kind \in Kinds /\ r.token \in Tokens \cup {None}
  BY DEF Presents, Kinds, Confirming, Rotating, Idle
<1> DEFINE q == [Unasked EXCEPT !.tab = w, !.what = kind, !.presented = r.token]
<1>4. q \in Question /\ q.token = None
  BY <1>3, UnaskedType DEF Question
<1> HIDE DEF q
<1>5. asked' = [asked EXCEPT ![t] = q] /\ asked \in [Calls -> Question]
  BY <1>1 DEF q, BrowserInv
<1>6. /\ asked' \in [Calls -> Question]
      /\ \A s \in Calls : asked'[s].token \in {None, asked[s].token}
  BY <1>4, <1>5
<1>7. AccountStep /\ cookie' = cookie
  BY <1>2 DEF AccountStep
<1> QED BY <1>6, <1>7, BrowserSame

\* A window does something of its own.
LEMMA WindowAlone ==
  ASSUME AccountSound, BrowserInv, UNCHANGED << vars, asked >>, cookie' \in {None, cookie}
  PROVE  AccountStep /\ BrowserInv'
<1>1. AccountStep /\ asked' = asked
  BY DEF AccountStep
<1>2. asked' \in [Calls -> Question] /\ \A t \in Calls : asked'[t].token = asked[t].token
  BY <1>1 DEF BrowserInv
<1> QED BY <1>1, <1>2, BrowserSame

\* What the page is told is of the kind it asked for.
LEMMA QuestionTold ==
  ASSUME AccountSound, AccountSound', BrowserInv, NEW t \in Calls, now' = now,
         NEW answer \in {"none", "ok", "error"}, Tells(t, answer),
         At(t, "verify") => call[t].seen \in User,
         At(t, "token") /\ answer # "error" => SaveToken(t)
  PROVE  /\ asked' \in [Calls -> Question]
         /\ \A s \in Calls \ {t} : asked'[s] = asked[s]
         /\ \/ asked'[t].token \in {None, asked[t].token}
            \/ tokens'[asked'[t].token] # NoToken
<1> DEFINE q == Served(t, answer)
           n == Fresh(tokens, NoToken)
           c == [status |-> SignedStatus(t), expires |-> now + AccessTtl]
<1>1. asked \in [Calls -> Question]
  BY DEF BrowserInv
<1>2. c \in Claim
  <2>1. now \in Nat /\ user' \in User /\ AccessTtl \in Nat
    BY PortalAssumption DEF AccountSound, Types
  <2>2. SignedStatus(t) \in UserStatus \cup {"ABSENT"}
    BY <2>1 DEF SignedStatus, User
  <2> QED BY <2>1, <2>2 DEF Claim
<1>3. At(t, "token") /\ answer # "error" => n \in Tokens /\ tokens'[n] # NoToken
  <2> SUFFICES ASSUME SaveToken(t) PROVE n \in Tokens /\ tokens'[n] # NoToken
    OBVIOUS
  <2>1. tokens \in [Tokens -> Token]
    BY DEF AccountSound, Types
  <2>2. n \in Tokens
    BY <2>1 DEF SaveToken, Fresh, Unused
  <2>3. tokens'[n].state = "live"
    BY <2>1, <2>2 DEF SaveToken
  <2> QED BY <2>2, <2>3 DEF NoToken
<1>4. q.token = IF answer = "error" THEN None
                ELSE IF At(t, "token") THEN n ELSE asked[t].token
  BY <1>1 DEF Served, Question
<1>5. q \in Question
  <2>1. NoClaims \in Claim
    BY DEF NoClaims, Claim
  <2> QED BY <1>1, <1>2, <1>3, <2>1 DEF Served, Question
<1> HIDE DEF q, n, c
<1>6. /\ asked' \in [Calls -> Question] /\ asked'[t] = q
      /\ \A s \in Calls \ {t} : asked'[s] = asked[s]
  BY <1>1, <1>5 DEF Tells, q
<1> QED BY <1>3, <1>4, <1>6

LEMMA CallsServed ==
  ASSUME AccountSound, BrowserInv, NEW t \in Calls, Serve(t)
  PROVE  AccountStep /\ BrowserInv'
<1>1. (CallStep(t) \/ Fail(t)) /\ cookie' = cookie /\ AccountStep
  BY DEF Serve, Upset, AccountStep
<1>2. Known /\ TokensInv /\ AccountSound' /\ now' = now
  BY <1>1, AccountKept, CallMoves DEF AccountSound, Known, Fail
<1>3. CASE asked' = asked
  <2>1. /\ asked' \in [Calls -> Question]
        /\ \A s \in Calls : asked'[s].token = asked[s].token
    BY <1>3 DEF BrowserInv
  <2> QED BY <1>1, <2>1, BrowserSame
<1>4. ASSUME NEW answer \in {"none", "ok", "error"}, Tells(t, answer),
             At(t, "token") /\ answer # "error" => SaveToken(t)
      PROVE  BrowserInv'
  <2>1. At(t, "verify") => call[t].seen \in User
    BY <1>2 DEF Known, Types, CallState
  <2>2. /\ asked' \in [Calls -> Question]
        /\ \A s \in Calls \ {t} : asked'[s] = asked[s]
        /\ \/ asked'[t].token \in {None, asked[t].token}
           \/ tokens'[asked'[t].token] # NoToken
    BY <1>2, <1>4, <2>1, QuestionTold
  <2>3. asked \in [Calls -> Question] /\ cookie \in Tokens \cup {None}
    BY DEF BrowserInv
  <2>4. ASSUME NEW s \in Calls, asked[s].token # None
        PROVE  tokens'[asked[s].token] # NoToken
    <3>1. asked[s].token \in Tokens /\ tokens[asked[s].token] # NoToken
      BY <2>3, <2>4 DEF BrowserInv, Question
    <3> QED BY <1>1, <3>1, TokensStay
  <2>5. \A s \in Calls : asked'[s].token # None => tokens'[asked'[s].token] # NoToken
    BY <2>2, <2>4
  <2>6. cookie # None => tokens'[cookie] # NoToken
    BY <1>1, <2>3, TokensStay DEF BrowserInv
  <2> QED BY <1>1, <2>2, <2>3, <2>5, <2>6 DEF BrowserInv
<1>5. ASSUME CallStep(t), At(t, "token") PROVE SaveToken(t)
  BY <1>5 DEF CallStep, Find, FindGoogle, FindEmail, VerifyPassword, Upload, Save, Count,
     SaveCode, Publish, FindCode, MarkUsed, FindToken, Revoke, At
<1>6. CASE asked[t] # Unasked /\ CallStep(t) /\ Tells(t, Told(t))
  <2>1. Told(t) \in {"none", "ok", "error"}
    BY DEF Told
  <2> QED BY <1>1, <1>4, <1>5, <1>6, <2>1
<1>7. CASE asked[t] # Unasked /\ Upset(t)
  <2>1. CASE asked' = [asked EXCEPT ![t].answer = "ok"]
    <3>1. /\ asked' \in [Calls -> Question]
          /\ \A s \in Calls : asked'[s].token = asked[s].token
      BY <2>1 DEF BrowserInv, Question
    <3> QED BY <1>1, <3>1, BrowserSame
  <2> QED BY <1>1, <1>4, <1>7, <2>1 DEF Upset
<1> QED BY <1>1, <1>3, <1>6, <1>7 DEF Serve

\* The pages' own requests, each with what it presents.
PageRequest(w) ==
  \/ SignOut(w) \/ HandleLogin(w) \/ HandleRegister(w) \/ Callback(w) \/ Refresh(w)
  \/ VerifyEmail(w) \/ RequestCode(w) \/ VerifyCode(w) \/ SetPassword(w)
  \/ SubmitIdentity(w)

LEMMA WindowPresents ==
  ASSUME BrowserInv, NEW w \in Windows, PageRequest(w)
  PROVE  /\ UNCHANGED << InService, cookie >>
         /\ \/ UNCHANGED << call, asked >>
            \/ \E kind, r : Presents(kind, r) /\ Sends(w, kind, r)
<1>1. UNCHANGED << InService, cookie >>
  BY DEF PageRequest, SignOut, HandleLogin, HandleRegister, Callback, Refresh, VerifyEmail,
     RequestCode, VerifyCode, SetPassword, SubmitIdentity, Submit
<1> DEFINE Moves == \/ UNCHANGED << call, asked >>
                    \/ \E kind, r : Presents(kind, r) /\ Sends(w, kind, r)
<1>2. UNCHANGED << call, asked >> => Moves
  OBVIOUS
<1>3. ASSUME NEW kind, NEW r, Presents(kind, r), Sends(w, kind, r)
      PROVE  Moves
  BY <1>3
<1> HIDE DEF Moves
<1>4. cookie # None => cookie \in Tokens /\ tokens[cookie] # NoToken
  BY DEF BrowserInv
<1>5. CASE SignOut(w) \/ Refresh(w)
  <2>1. ASSUME cookie # None, NEW kind \in Rotating
        PROVE  Presents(kind, [Idle EXCEPT !.pc = "findToken", !.token = cookie])
    BY <1>4, <2>1 DEF Presents
  <2> QED BY <1>2, <1>3, <1>5, <2>1 DEF SignOut, Refresh, Rotating
<1>6. CASE HandleLogin(w) \/ HandleRegister(w) \/ Callback(w)
  BY <1>2, <1>3, <1>6 DEF HandleLogin, HandleRegister, Callback, Submit, Presents
<1>7. CASE VerifyEmail(w) \/ VerifyCode(w)
  <2>1. ASSUME NEW kind \in Confirming, NEW k \in Codes
        PROVE  Presents(kind, [Idle EXCEPT !.pc = "find", !.code = k])
    BY DEF Presents
  <2> QED BY <1>2, <1>3, <1>7, <2>1
          DEF VerifyEmail, VerifyCode, Submit, SubmitAuthorized, SendsAuthorized, Confirming
<1>8. CASE RequestCode(w) \/ SetPassword(w) \/ SubmitIdentity(w)
  BY <1>2, <1>3, <1>8 DEF RequestCode, SetPassword, SubmitIdentity,
     SubmitAuthorized, SendsAuthorized, Presents
<1> QED BY <1>1, <1>5, <1>6, <1>7, <1>8 DEF Moves, PageRequest

LEMMA WindowSends ==
  ASSUME AccountSound, BrowserInv, NEW w \in Windows, PageRequest(w)
  PROVE  AccountStep /\ BrowserInv'
<1>1. UNCHANGED << InService, cookie >>
  BY WindowPresents
<1>2. CASE UNCHANGED << call, asked >>
  BY <1>1, <1>2, WindowAlone DEF InService, vars
<1>3. ASSUME NEW kind, NEW r, Presents(kind, r), Sends(w, kind, r)
      PROVE  AccountStep /\ BrowserInv'
  BY <1>1, <1>3, SendsEnters
<1> QED BY <1>2, <1>3, WindowPresents

LEMMA PortalStep ==
  ASSUME AccountSound, BrowserInv, [PortalNext]_allVars
  PROVE  AccountStep /\ BrowserInv'
<1>1. ASSUME NEW w \in Windows, WindowStep(w) PROVE AccountStep /\ BrowserInv'
  <2>1. CASE \/ Follow(w) \/ OpenGoogle(w) \/ RefreshRefused(w) \/ EmailVerified(w)
             \/ PhoneAside(w) \/ ReadSettings(w) \/ Poll(w) \/ AuthoriseCard(w)
             \/ CardStep(w) \/ CardSaved(w) \/ Bid(w)
    <3>1. UNCHANGED << vars, asked, cookie >>
      BY <2>1 DEF Follow, OpenGoogle, RefreshRefused, EmailVerified, PhoneAside,
         ReadSettings, Poll, AuthoriseCard, CardStep, CardSaved, Bid, PlaceBid,
         CheckCard, BidArrives, CloseDialog, browserVars
    <3> QED BY <3>1, WindowAlone
  <2>2. CASE Load(w)
    <3>1. /\ UNCHANGED << vars, cookie >> /\ AccountStep
          /\ asked' = [t \in Calls |-> IF t \in Dropped(w) THEN Unasked ELSE asked[t]]
      BY <2>2 DEF Load, AccountStep
    <3>2. /\ asked' \in [Calls -> Question]
          /\ \A t \in Calls : asked'[t].token \in {None, asked[t].token}
      BY <3>1, UnaskedType DEF BrowserInv
    <3> QED BY <3>1, <3>2, BrowserSame
  <2>3. CASE Hear(w)
    <3>1. PICK t \in Calls : /\ cookie' = CookieOf(asked[t])
                             /\ asked' = [asked EXCEPT ![t] = Unasked]
                             /\ UNCHANGED vars
      BY <2>3 DEF Hear
    <3>2. /\ asked' \in [Calls -> Question]
          /\ \A s \in Calls : asked'[s].token \in {None, asked[s].token}
      BY <3>1, UnaskedType DEF BrowserInv
    <3>3. cookie' \in {None, cookie} \/ cookie' = asked[t].token
      <4>1. CASE asked[t].what = "logout" /\ asked[t].answer = "ok"
        BY <3>1, <4>1 DEF CookieOf
      <4>2. CASE ~(asked[t].what = "logout" /\ asked[t].answer = "ok")
        BY <3>1, <4>2 DEF CookieOf
      <4> QED BY <4>1, <4>2
    <3> QED BY <3>1, <3>2, <3>3, BrowserSame DEF AccountStep
  <2>4. CASE PageRequest(w)
    BY <2>4, WindowSends
  <2> QED BY <1>1, <2>1, <2>2, <2>3, <2>4 DEF WindowStep, SignIn, Verify, PageRequest
<1>2. ASSUME NEW t \in Calls, Others(t) PROVE AccountStep /\ BrowserInv'
  <2>1. AccountStep /\ UNCHANGED << asked, cookie >>
    BY <1>2, RequestEnters DEF Others, AccountStep, browserVars
  <2>2. asked' \in [Calls -> Question] /\ \A s \in Calls : asked'[s].token = asked[s].token
    BY <2>1 DEF BrowserInv
  <2> QED BY <2>1, <2>2, BrowserSame
<1>3. CASE TimePasses \/ UNCHANGED allVars
  <2>1. AccountStep /\ UNCHANGED << asked, cookie >>
    BY <1>3 DEF TimePasses, Tick, AccountStep, allVars, browserVars
  <2>2. asked' \in [Calls -> Question] /\ \A s \in Calls : asked'[s].token = asked[s].token
    BY <2>1 DEF BrowserInv
  <2> QED BY <2>1, <2>2, BrowserSame
<1> QED BY <1>1, <1>2, <1>3, CallsServed DEF PortalNext

-----------------------------------------------------------------------------
(***************************************************************************)
(* The card on file.                                                       *)
(***************************************************************************)

\* A window that asks, fails, or is loaded again knows no customer.
LEMMA SetupForgotten ==
  ASSUME CardInv, NEW w \in Windows, NEW pc \in {"idle", "stuck", "findProfile", "saved"},
         setup' = [setup EXCEPT ![w] = [NoSetup EXCEPT !.pc = pc]],
         UNCHANGED << profile, overlapped >>
  PROVE  CardInv'
<1>1. /\ setup'[w].pc = pc /\ \A v \in Windows : v # w => setup'[v] = setup[v]
      /\ setup' \in [Windows -> SetupState]
  BY DEF CardInv, NoSetup, SetupState
<1>2. ASSUME ~overlapped, NEW v \in Windows PROVE SetupInv(v)'
  <2>1. CASE v = w
    BY <1>1, <2>1 DEF SetupInv, MakesCustomer, HasIntent
  <2>2. CASE v # w
    BY <1>1, <1>2, <2>2 DEF CardInv, SetupInv, MakesCustomer, HasIntent
  <2> QED BY <2>1, <2>2
<1> QED BY <1>1, <1>2 DEF CardInv

LEMMA CardSteps ==
  ASSUME CardInv, NEW w \in Windows, SetupStep(w)
  PROVE  CardInv'
<1> DEFINE s == setup[w]
<1>1. /\ setup \in [Windows -> SetupState]
      /\ profile \in Profile
      /\ NoSetup \in SetupState
  BY DEF CardInv, NoSetup, SetupState
<1>2. overlapped => overlapped'
  BY DEF SetupStep, FindProfile, CreateCustomer, SaveCustomer, CreateIntent,
     ConfirmCard, RetrieveIntent, FindAgain, SaveCard
<1>3. ASSUME NEW r \in SetupState,
             SetupGoes(w, r), profile' = profile,
             ~overlapped' => \A v \in Windows : SetupInv(v)'
      PROVE  CardInv'
  BY <1>1, <1>2, <1>3 DEF CardInv, SetupGoes
<1>4. ASSUME NEW r, SetupGoes(w, r)
      PROVE  setup'[w] = r /\ \A v \in Windows : v # w => setup'[v] = setup[v]
  BY <1>1, <1>4 DEF SetupGoes
<1>5. ASSUME NEW r \in SetupState,
             SetupGoes(w, r), profile' = profile, overlapped' = overlapped,
             r.pc \in {"createCustomer", "saveCustomer"} => MakesCustomer(w),
             r.pc = "saveCustomer" => r.customer # Nobody,
             r.pc = "createIntent" /\ ~overlapped =>
               profile.customer # Nobody /\ r.customer = profile.customer,
             r.pc \in {"confirmCard", "retrieveIntent", "findAgain", "saveCard"} /\ ~overlapped =>
               profile.customer # Nobody /\ r.intent = profile.customer,
             r.pc = "saveCard" /\ ~overlapped => r.customer = profile.customer
      PROVE  CardInv'
  <2>1. ASSUME ~overlapped, NEW v \in Windows PROVE SetupInv(v)'
    <3>1. SetupInv(v) /\ SetupInv(w)
      BY <2>1 DEF CardInv
    <3>2. /\ setup'[w] = r /\ \A u \in Windows : u # w => setup'[u] = setup[u]
      BY <1>4, <1>5
    <3>3. CASE v = w
      BY <1>5, <2>1, <3>1, <3>2, <3>3 DEF SetupInv, MakesCustomer, HasIntent
    <3>4. CASE v # w
      BY <1>5, <2>1, <3>1, <3>2, <3>4 DEF SetupInv, MakesCustomer, HasIntent
    <3> QED BY <3>3, <3>4
  <2> QED BY <1>3, <1>5, <2>1
<1>6. CASE FindProfile(w)
  <2>1. CASE HasCustomer(profile)
    <3>1. /\ ~overlapped => profile.customer # Nobody
          /\ SetupGoes(w, [s EXCEPT !.pc = "createIntent", !.customer = profile.customer])
          /\ profile' = profile /\ overlapped' = overlapped
      BY <1>6, <2>1 DEF FindProfile, HasCustomer, CardInv
    <3>2. /\ [s EXCEPT !.pc = "createIntent", !.customer = profile.customer] \in SetupState
          /\ [s EXCEPT !.pc = "createIntent", !.customer = profile.customer].pc = "createIntent"
          /\ [s EXCEPT !.pc = "createIntent", !.customer = profile.customer].customer = profile.customer
      BY <1>1 DEF SetupState, Profile
    <3> QED BY <1>5, <3>1, <3>2
  <2>2. CASE ~HasCustomer(profile)
    <3> DEFINE r == [s EXCEPT !.pc = "createCustomer"]
    <3>1. /\ profile = NoProfile /\ profile' = profile /\ SetupGoes(w, r)
          /\ overlapped' <=> overlapped \/ Meets(w)
      BY <1>6, <2>2 DEF FindProfile, HasCustomer
    <3>2. /\ r.pc = "createCustomer"
          /\ r \in SetupState
      BY <1>1 DEF SetupState
    <3> HIDE DEF r
    <3>3. setup'[w] = r /\ \A u \in Windows : u # w => setup'[u] = setup[u]
      BY <1>4, <3>1
    <3>4. ASSUME ~overlapped', NEW v \in Windows PROVE SetupInv(v)'
      <4>1. ~overlapped /\ SetupInv(v) /\ \A u \in Windows \ {w} : ~MakesCustomer(u)
        BY <3>1, <3>4 DEF CardInv, Meets, MakesCustomer
      <4>2. CASE v = w
        BY <3>1, <3>2, <3>3, <4>1, <4>2 DEF SetupInv, MakesCustomer, HasIntent
      <4>3. CASE v # w
        BY <3>1, <3>2, <3>3, <4>1, <4>3 DEF SetupInv, MakesCustomer, HasIntent
      <4> QED BY <4>2, <4>3
    <3> QED BY <1>3, <3>1, <3>2, <3>4
  <2> QED BY <2>1, <2>2
<1>7. ASSUME SetupHangs(w) \/ SetupFails(w), UNCHANGED << profile, overlapped >>
      PROVE  CardInv'
  <2>1. NoSetup = [NoSetup EXCEPT !.pc = "idle"]
    BY DEF NoSetup
  <2> QED BY <1>7, <2>1, SetupForgotten DEF SetupHangs, SetupFails, SetupGoes
<1>8. CASE CreateCustomer(w)
  <2>1. ASSUME NEW c \in Customers, UNCHANGED << profile, overlapped >>,
               SetupGoes(w, [s EXCEPT !.pc = "saveCustomer", !.customer = c])
        PROVE  CardInv'
    <3> DEFINE r == [s EXCEPT !.pc = "saveCustomer", !.customer = c]
    <3>1. /\ r \in SetupState
          /\ r.pc = "saveCustomer" /\ r.customer = c /\ c # Nobody
      BY <1>1, SavedCardsAssumption DEF SetupState
    <3>2. MakesCustomer(w)
      BY <1>8 DEF CreateCustomer, Awaits, MakesCustomer
    <3> HIDE DEF r
    <3>3. SetupGoes(w, r)
      BY <2>1 DEF r
    <3> QED BY <1>5, <2>1, <3>1, <3>2, <3>3
  <2> QED BY <1>7, <1>8, <2>1 DEF CreateCustomer
<1>9. CASE SaveCustomer(w)
  <2> DEFINE r == [s EXCEPT !.pc = "createIntent"]
  <2>1. /\ profile' = [customer |-> s.customer, card |-> Nobody] /\ s.pc = "saveCustomer"
        /\ setup' = [setup EXCEPT ![w] = r] /\ overlapped' = overlapped
    BY <1>9 DEF SaveCustomer, NoProfile, SetupGoes, Awaits
  <2>2. /\ r \in SetupState
        /\ r.pc = "createIntent" /\ r.customer = s.customer
    BY <1>1 DEF SetupState
  <2> HIDE DEF r
  <2>3. /\ setup' \in [Windows -> SetupState]
        /\ setup'[w] = r /\ \A u \in Windows : u # w => setup'[u] = setup[u]
        /\ profile' \in Profile
        /\ profile'.customer = s.customer /\ profile'.card = Nobody
    BY <1>1, <2>1, <2>2 DEF Profile, SetupState
  <2>4. ASSUME ~overlapped
        PROVE  profile'.customer # Nobody /\ \A v \in Windows : SetupInv(v)'
    <3>1. /\ profile = NoProfile /\ s.customer # Nobody
          /\ \A v \in Windows \ {w} : ~MakesCustomer(v)
          /\ \A v \in Windows : SetupInv(v)
      BY <2>1, <2>4 DEF CardInv, SetupInv, MakesCustomer
    <3>2. profile.customer = Nobody
      BY <3>1 DEF NoProfile
    <3>3. ASSUME NEW v \in Windows PROVE SetupInv(v)'
      <4>1. CASE v = w
        BY <2>2, <2>3, <3>1, <4>1 DEF SetupInv, MakesCustomer, HasIntent
      <4>2. CASE v # w
        BY <2>2, <2>3, <3>1, <3>2, <4>2 DEF SetupInv, MakesCustomer, HasIntent
      <4> QED BY <4>1, <4>2
    <3> QED BY <2>3, <3>1, <3>3
  <2> QED BY <2>1, <2>3, <2>4 DEF CardInv
<1>10. CASE CreateIntent(w)
  <2>1. ASSUME SetupGoes(w, [NoSetup EXCEPT !.pc = "confirmCard", !.intent = s.customer]),
               UNCHANGED << profile, overlapped >>
        PROVE  CardInv'
    <3> DEFINE r == [NoSetup EXCEPT !.pc = "confirmCard", !.intent = s.customer]
    <3>1. /\ r \in SetupState
          /\ r.pc = "confirmCard" /\ r.intent = s.customer
      BY <1>1 DEF NoSetup, SetupState
    <3>2. ~overlapped => profile.customer # Nobody /\ s.customer = profile.customer
      BY <1>10 DEF CreateIntent, Awaits, CardInv, SetupInv
    <3> HIDE DEF r
    <3>3. SetupGoes(w, r)
      BY <2>1 DEF r
    <3> QED BY <1>5, <2>1, <3>1, <3>2, <3>3
  <2> QED BY <1>7, <1>10, <2>1 DEF CreateIntent
<1>11. ASSUME HasIntent(w) => s.intent = profile.customer \/ overlapped,
              NEW pc \in {"retrieveIntent", "findAgain"},
              s.pc \in {"confirmCard", "retrieveIntent"},
              SetupGoes(w, [s EXCEPT !.pc = pc]), UNCHANGED << profile, overlapped >>
       PROVE  CardInv'
  <2> DEFINE r == [s EXCEPT !.pc = pc]
  <2>1. /\ r \in SetupState
        /\ r.pc = pc /\ r.intent = s.intent
    BY <1>1 DEF SetupState
  <2>2. ~overlapped => profile.customer # Nobody /\ s.intent = profile.customer
    BY <1>11 DEF CardInv, SetupInv, HasIntent
  <2> HIDE DEF r
  <2>3. SetupGoes(w, r)
    BY <1>11 DEF r
  <2> QED BY <1>5, <1>11, <2>1, <2>2, <2>3
<1>12. HasIntent(w) => (s.intent = profile.customer /\ profile.customer # Nobody) \/ overlapped
  BY DEF CardInv, SetupInv
<1>13. CASE ConfirmCard(w)
  BY <1>7, <1>11, <1>12, <1>13 DEF ConfirmCard, Awaits
<1>14. CASE RetrieveIntent(w)
  BY <1>7, <1>11, <1>12, <1>14 DEF RetrieveIntent, Awaits
<1>15. CASE FindAgain(w)
  <2> DEFINE c == IF profile = NoProfile THEN s.intent ELSE profile.customer
             r == [s EXCEPT !.pc = "saveCard", !.customer = c]
  <2>1. SetupGoes(w, r) /\ UNCHANGED << profile, overlapped >> /\ HasIntent(w)
    BY <1>15 DEF FindAgain, Awaits, HasIntent
  <2>2. /\ r \in SetupState
        /\ r.pc = "saveCard" /\ r.intent = s.intent /\ r.customer = c
    BY <1>1 DEF SetupState, Profile
  <2>3. ~overlapped => c = profile.customer
    BY <1>12, <2>1 DEF NoProfile
  <2> HIDE DEF r, c
  <2> QED BY <1>5, <1>12, <2>1, <2>2, <2>3
<1>16. CASE SaveCard(w)
  <2> DEFINE r == [NoSetup EXCEPT !.pc = "saved"]
  <2>1. /\ profile' = [customer |-> s.customer, card |-> s.intent] /\ s.pc = "saveCard"
        /\ setup' = [setup EXCEPT ![w] = r] /\ overlapped' = overlapped
    BY <1>16 DEF SaveCard, SetupGoes, Awaits
  <2>2. /\ r \in SetupState
        /\ r.pc = "saved"
    BY <1>1 DEF NoSetup, SetupState
  <2> HIDE DEF r
  <2>3. /\ setup' \in [Windows -> SetupState]
        /\ setup'[w] = r /\ \A u \in Windows : u # w => setup'[u] = setup[u]
        /\ profile' \in Profile
        /\ profile'.customer = s.customer /\ profile'.card = s.intent
    BY <1>1, <2>1, <2>2 DEF Profile, SetupState
  <2>4. ASSUME ~overlapped
        PROVE  /\ profile'.card = profile'.customer /\ profile'.customer # Nobody
               /\ \A v \in Windows : SetupInv(v)'
    <3>1. /\ s.customer = profile.customer /\ s.intent = profile.customer
          /\ profile.customer # Nobody /\ \A v \in Windows : SetupInv(v)
      BY <1>12, <2>1, <2>4 DEF CardInv, SetupInv, HasIntent
    <3>2. profile # NoProfile
      BY <3>1 DEF NoProfile
    <3>3. ASSUME NEW v \in Windows PROVE SetupInv(v)'
      <4>1. CASE v = w
        BY <2>2, <2>3, <4>1 DEF SetupInv, MakesCustomer, HasIntent
      <4>2. CASE v # w
        BY <2>3, <3>1, <3>2, <4>2 DEF SetupInv, MakesCustomer, HasIntent
      <4> QED BY <4>1, <4>2
    <3> QED BY <2>3, <3>1, <3>3
  <2> QED BY <2>1, <2>3, <2>4 DEF CardInv
<1> QED BY <1>6, <1>8, <1>9, <1>10, <1>13, <1>14, <1>15, <1>16 DEF SetupStep

LEMMA CardKept ==
  ASSUME CardInv, [PortalNext]_allVars
  PROVE  CardInv'
<1>1. ASSUME UNCHANGED << profile, setup, overlapped >> PROVE CardInv'
  BY <1>1 DEF CardInv, SetupInv, MakesCustomer, HasIntent
<1>2. NoSetup = [NoSetup EXCEPT !.pc = "idle"]
  BY DEF NoSetup
<1>3. ASSUME NEW w \in Windows, WindowStep(w) PROVE CardInv'
  <2>1. CASE AuthoriseCard(w)
    BY <2>1, SetupForgotten DEF AuthoriseCard, SetupGoes
  <2>2. CASE CardSaved(w) \/ Load(w)
    BY <1>2, <2>2, SetupForgotten DEF CardSaved, Load, SetupFails, SetupGoes
  <2>3. CASE CardStep(w)
    BY <2>3, CardSteps DEF CardStep
  <2>4. CASE ~(AuthoriseCard(w) \/ CardSaved(w) \/ Load(w) \/ CardStep(w))
    <3>1. UNCHANGED cardVars
      BY <1>3, <2>4 DEF WindowStep, Follow, SignOut, Hear, SignIn, Verify, Bid,
         HandleLogin, HandleRegister, OpenGoogle, Callback, Refresh, RefreshRefused,
         VerifyEmail, EmailVerified, RequestCode, VerifyCode, PhoneAside,
         ReadSettings, SetPassword, SubmitIdentity, Poll, PlaceBid, CheckCard,
         BidArrives, CloseDialog, Submit
    <3> QED BY <1>1, <3>1 DEF cardVars
  <2> QED BY <2>1, <2>2, <2>3, <2>4
<1>4. CASE \/ \E t \in Calls : Others(t) \/ Serve(t)
           \/ TimePasses \/ UNCHANGED allVars
  BY <1>1, <1>4 DEF Others, Serve, TimePasses, allVars, cardVars
<1> QED BY <1>3, <1>4 DEF PortalNext

-----------------------------------------------------------------------------
(***************************************************************************)
(* The portal, with the account, the browser and the card.                 *)
(***************************************************************************)
PortalSound == AccountSound /\ BrowserInv /\ CardInv

\* The inductive invariant of the account, of the card and of the browser that
\* is in front of both.
THEOREM PortalAlwaysSound == PortalSpec => []PortalSound
<1>1. PortalInit => PortalSound
  <2> SUFFICES ASSUME PortalInit PROVE PortalSound
    OBVIOUS
  <2>1. PICK someone \in User : Start(someone)
    BY People DEF PortalInit
  <2>2. asked = [t \in Calls |-> Unasked]
    BY DEF PortalInit
  <2>3. AccountSound /\ cookie \in Tokens \cup {None} /\ (cookie # None => tokens[cookie] # NoToken)
    <3>1. CASE SignedOut /\ cookie = None
      BY <2>1, <3>1, AccountBegins, SignedOutTokens
    <3>2. CASE /\ cookie = (CHOOSE k \in Tokens : TRUE)
               /\ tokens = [k \in Tokens |-> IF k = cookie THEN [state |-> "live", login |-> k]
                                             ELSE NoToken]
      <4>1. cookie \in Tokens
        BY <3>2, PortalAssumption
      <4>2. /\ tokens \in [Tokens -> Token]
            /\ \A m \in Tokens : tokens[m] # NoToken => m = cookie /\ tokens[m].login = cookie
            /\ tokens[cookie] # NoToken
        BY <3>2, <4>1, TokenKinds DEF Token, NoToken
      <4> QED BY <2>1, <4>1, <4>2, AccountBegins
    <3> QED BY <3>1, <3>2 DEF PortalInit
  <2>4. BrowserInv
    BY <2>2, <2>3, UnaskedType DEF BrowserInv
  <2>5. CardInv
    <3>1. /\ profile \in {NoProfile} \cup {[customer |-> c, card |-> c] : c \in Customers}
          /\ setup = [w \in Windows |-> NoSetup] /\ overlapped = FALSE
      BY DEF PortalInit, CardsInit
    <3>2. /\ profile \in Profile
          /\ profile.card \in {Nobody, profile.customer}
          /\ profile = NoProfile \/ profile.customer # Nobody
      BY <3>1, SavedCardsAssumption DEF NoProfile, Profile
    <3>3. \A w \in Windows : SetupInv(w)
      BY <3>1 DEF SetupInv, MakesCustomer, HasIntent, NoSetup
    <3>4. setup \in [Windows -> SetupState]
      BY <3>1 DEF NoSetup, SetupState
    <3> QED BY <3>1, <3>2, <3>3, <3>4 DEF CardInv
  <2> QED BY <2>3, <2>4, <2>5 DEF PortalSound
<1>2. PortalSound /\ [PortalNext]_allVars => PortalSound'
  BY PortalStep, AccountKept, CardKept DEF PortalSound
<1> QED BY <1>1, <1>2, PTL DEF PortalSpec

\* A login is one token that rotates, whatever the windows and other browsers do.
THEOREM AlwaysOneSession == PortalSpec => []OneSession
<1>1. PortalSound => OneSession
  BY SessionOfLogin DEF PortalSound
<1> QED BY <1>1, PortalAlwaysSound, PTL

\* No more codes are texted in a window than the limit, but for those that had
\* counted already.
THEOREM AlwaysCodesBounded == PortalSpec => []CodesBounded
<1>1. PortalSound => CodesBounded
  BY CodesOfWindow DEF PortalSound
<1> QED BY <1>1, PortalAlwaysSound, PTL

\* The card on file belongs to the customer on file, unless two windows raced.
THEOREM AlwaysCardOfCustomer == PortalSpec => []CardOfCustomer
<1>1. PortalSound => CardOfCustomer
  BY DEF PortalSound, CardInv, CardOfCustomer
<1> QED BY <1>1, PortalAlwaysSound, PTL

\* No call makes another's change of the user disappear, nor frees a suspended
\* user, but where it had read the row before or sets the status again.
THEOREM AlwaysNothingLost == PortalSpec => NothingLost
<1>1. PortalSound /\ [PortalNext]_allVars
        => [(Lost => WritesOld) /\ (Freed => WritesOld \/ Frees)]_vars
  BY PortalStep, NothingLostStep DEF PortalSound
<1> QED BY <1>1, PortalAlwaysSound, PTL DEF PortalSpec, NothingLost

-----------------------------------------------------------------------------
(***************************************************************************)
(* Who is let in to bid.                                                   *)
(***************************************************************************)
LEMMA NoClaimsStand == NoClaims \in Claim /\ Standing(NoClaims)
BY DEF NoClaims, Claim, Standing

\* The window on a page, as a record of its own.
LEMMA OpenedIs ==
  ASSUME NEW page \in Pages, NEW back \in Pages, NEW claims \in Claim, NEW crumb,
         "/lots" \in {page, back} => "/lots" \in group,
         "/lots" \in group => Standing(claims)
  PROVE  LET r == Opened(page, back, claims, crumb) IN
           Fits(r) /\ r.step # "confirmed" /\ (page # "/oauth-complete" => ~Occupied(r))
<1> DEFINE turned == page \in Guarded /\ crumb = None
           shown  == IF turned THEN "/login" ELSE page
           step   == FirstStep(shown, claims)
           from   == IF turned THEN page ELSE back
           doing  == IF page = "/oauth-complete" THEN "refresh" ELSE "none"
           r      == Opened(page, back, claims, crumb)
<1>1. shown \in Pages /\ (shown = "/lots" => page = "/lots")
  BY DEF Pages
<1>2. step \in PageSteps /\ step # "confirmed"
  <2>1. CASE shown = "/login"
    BY <2>1 DEF FirstStep, PageSteps
  <2>2. CASE shown = "/register-to-bid"
    BY <2>2 DEF FirstStep, PageSteps
  <2>3. CASE shown = "/verify-phone"
    BY <2>3 DEF FirstStep, PageSteps
  <2>4. CASE shown \in {"/verify-email", "/settings"}
    BY <2>4 DEF FirstStep, PageSteps
  <2>5. CASE shown \notin {"/login", "/register-to-bid", "/verify-phone",
                           "/verify-email", "/settings"}
    BY <2>5 DEF FirstStep, PageSteps
  <2> QED BY <2>1, <2>2, <2>3, <2>4, <2>5
<1>3. from \in Pages /\ (from = "/lots" => "/lots" \in group)
  BY DEF Guarded
<1>4. doing \in {"none", "refresh"} /\ (page # "/oauth-complete" => doing = "none")
  OBVIOUS
<1>5. r = [Away EXCEPT !.page = shown, !.step = step, !.back = from, !.claims = claims,
                       !.doing = doing]
  BY DEF Opened
<1> HIDE DEF step, from, shown, doing, r
<1>6. r = [page |-> shown, step |-> step, back |-> from, claims |-> claims,
           doing |-> doing, seen |-> NoClaims, wrong |-> 0]
  BY <1>5 DEF Away
<1>7. r \in TabState
  BY <1>1, <1>2, <1>3, <1>4, <1>6, NoClaimsStand DEF TabState
<1>8. Fits(r)
  BY <1>1, <1>2, <1>3, <1>4, <1>6, <1>7, NoClaimsStand DEF Fits
<1> QED BY <1>2, <1>4, <1>6, <1>8 DEF Occupied, r

LEMMA AwayFits == Fits(Away) /\ ~Occupied(Away)
BY NoClaimsStand DEF Away, Fits, TabState, PageSteps, Occupied, Pages, Guarded

LEMMA BiddingFits ==
  ASSUME NEW r, Fits(r), r.doing = "none", r.page = "/lots", r.step # "confirmed",
         NEW c \in Claim, Standing(c)
  PROVE  Fits(Bidding(r, c))
<1>1. CASE c = NoClaims
  <2>1. Fits(Loaded("/login", "/lots"))
    BY OpenedIs, NoClaimsStand DEF Loaded, Pages, Guarded, Fits
  <2>2. Bidding(r, c) = Loaded("/login", "/lots")
    BY <1>1 DEF Bidding, NoClaims
  <2> QED BY <2>1, <2>2
<1>2. CASE c # NoClaims
  <2>1. /\ Fits([r EXCEPT !.step = "phone"])
        /\ Fits([r EXCEPT !.doing = "profile", !.seen = c])
        /\ Fits([r EXCEPT !.doing = "bid", !.seen = c])
    BY DEF Fits, TabState, PageSteps
  <2>2. CASE c.status = "EMAIL_VERIFIED"
    BY <1>2, <2>1, <2>2 DEF Bidding
  <2>3. CASE c.status = "PENDING_REVIEW"
    BY <1>2, <2>3 DEF Bidding
  <2>4. CASE c.status = "APPROVED_BIDDER"
    BY <1>2, <2>1, <2>4 DEF Bidding
  <2>5. CASE c.status \notin {"EMAIL_VERIFIED", "PENDING_REVIEW", "APPROVED_BIDDER"}
    BY <1>2, <2>1, <2>5 DEF Bidding
  <2> QED BY <2>2, <2>3, <2>4, <2>5
<1> QED BY <1>1, <1>2

\* No login has come to read an approved bidder in this step.
NothingCompared == \A t \in Calls : Compares(t)' => Compares(t)

LEMMA CallsCompareSame ==
  ASSUME call' = call
  PROVE  NothingCompared
BY DEF NothingCompared, Compares, At

\* What becomes of the invariant when one window does something.
LEMMA WindowBecomes ==
  ASSUME ApprovalInv, NEW w \in Windows, NEW r, Fits(r), Becomes(w, r),
         UNCHANGED << user, group, now, approvedAt >>, NothingCompared,
         \A v \in Windows \ {w} : Asking(v)' \subseteq Asking(v),
         \A s, t \in Asking(w)' : s = t,
         Occupied(r) => Asking(w)' = {},
         "/lots" \in group => \A t \in Calls : Standing(asked'[t].access)
  PROVE  ApprovalInv'
<1>1. /\ tab' \in [Windows -> TabState] /\ tab'[w] = r
      /\ \A v \in Windows \ {w} : tab'[v] = tab[v]
  BY DEF ApprovalInv, Becomes, Fits
<1>2. \A q : Fits(q)' = Fits(q)
  BY DEF Fits, Standing
<1>3. ASSUME NEW v \in Windows PROVE WindowInv(v)'
  <2>1. CASE v = w
    BY <1>1, <1>2, <2>1 DEF WindowInv, Occupied
  <2>2. CASE v # w
    BY <1>1, <1>2, <2>2 DEF WindowInv, Occupied, ApprovalInv
  <2> QED BY <2>1, <2>2
<1>4. "/lots" \in group => \A t \in Calls : Standing(asked[t].access)'
  BY DEF Standing
<1> QED BY <1>1, <1>3, <1>4 DEF ApprovalInv, NothingCompared

LEMMA AskingSame ==
  ASSUME asked' = asked
  PROVE  \A v : Asking(v)' = Asking(v)
BY DEF Asking

\* A window waits for nothing while it is ready, or at something of its own.
LEMMA NobodyAsked ==
  ASSUME ApprovalInv, NEW w \in Windows, Ready(w) \/ Occupied(tab[w])
  PROVE  Asking(w) = {}
BY DEF ApprovalInv, WindowInv, Ready, Waits, Asking

LEMMA WindowTurns ==
  ASSUME ApprovalInv, NEW w \in Windows, NEW r, Fits(r), Becomes(w, r),
         UNCHANGED << user, group, now, approvedAt, asked >>, NothingCompared,
         Occupied(r) => Asking(w) = {}
  PROVE  ApprovalInv'
<1>1. \A v : Asking(v)' = Asking(v)
  BY AskingSame
<1>2. \A s, t \in Asking(w) : s = t
  BY DEF ApprovalInv, WindowInv
<1>3. "/lots" \in group => \A t \in Calls : Standing(asked'[t].access)
  BY DEF ApprovalInv
<1> QED BY <1>1, <1>2, <1>3, WindowBecomes

LEMMA WindowSame ==
  ASSUME ApprovalInv, UNCHANGED << user, group, now, approvedAt, asked, tab >>, NothingCompared
  PROVE  ApprovalInv'
BY DEF ApprovalInv, WindowInv, Fits, Asking, Standing, Occupied, NothingCompared

\* A call that begins has not read the user.
LEMMA EntersComparesNothing ==
  ASSUME Types, NEW t \in Calls, Enters(t)
  PROVE  NothingCompared
<1>1. PICK r : Entrance(r) /\ Goes(t, r)
  BY DEF Enters
<1>2. r.pc # "verify"
  BY <1>1 DEF Entrance, Idle
<1>3. call'[t] = r /\ \A s \in Calls \ {t} : call'[s] = call[s]
  BY <1>1, EntranceType, OneGoes
<1> QED BY <1>2, <1>3 DEF NothingCompared, Compares, At

LEMMA RequestsCompareNothing ==
  ASSUME PortalSound, NEW w \in Windows, PageRequest(w)
  PROVE  NothingCompared
<1>1. Types /\ BrowserInv
  BY DEF PortalSound, AccountSound
<1>2. UNCHANGED InService
  BY <1>1, WindowPresents
<1>3. ASSUME NEW kind, NEW r, Presents(kind, r), Sends(w, kind, r)
      PROVE  NothingCompared
  <2>1. PICK t \in Calls : Enters(t)
    BY <1>2, <1>3, Presented DEF Sends, Enters, InService
  <2> QED BY <1>1, <2>1, EntersComparesNothing
<1> QED BY <1>1, <1>3, WindowPresents, CallsCompareSame

LEMMA WindowAsks ==
  ASSUME ApprovalInv, BrowserInv, NEW w \in Windows, NEW kind, NEW r, Sends(w, kind, r),
         NEW q, Fits(q), Becomes(w, q), UNCHANGED << user, group, now, approvedAt >>,
         NothingCompared,
         \/ kind = "logout" /\ (Occupied(q) => Asking(w) = {})
         \/ ~Occupied(q) /\ Asking(w) = {}
  PROVE  ApprovalInv'
<1>1. PICK t \in Calls :
        /\ asked[t] = Unasked
        /\ asked' = [asked EXCEPT ![t] = [Unasked EXCEPT !.tab = w, !.what = kind,
                                                         !.presented = r.token]]
  BY DEF Sends
<1>2. /\ asked'[t].tab = w /\ asked'[t].what = kind /\ asked'[t].access = NoClaims
      /\ \A s \in Calls \ {t} : asked'[s] = asked[s]
  BY <1>1 DEF BrowserInv, Unasked
<1>3. \A v \in Windows \ {w} : Asking(v)' \subseteq Asking(v)
  BY <1>2 DEF Asking
<1>4. Asking(w)' \subseteq Asking(w) \cup {t} /\ (kind = "logout" => Asking(w)' \subseteq Asking(w))
  BY <1>2 DEF Asking
<1>5. \A s, u \in Asking(w) : s = u
  BY DEF ApprovalInv, WindowInv
<1>6. "/lots" \in group => \A s \in Calls : Standing(asked'[s].access)
  BY <1>2, NoClaimsStand DEF ApprovalInv
<1> QED BY <1>3, <1>4, <1>5, <1>6, WindowBecomes

LEMMA TurnsFits ==
  ASSUME ApprovalInv, NEW w \in Windows, NEW s \in PageSteps \ {"confirmed"}
  PROVE  Fits([tab[w] EXCEPT !.step = s])
BY DEF ApprovalInv, WindowInv, Fits, TabState

LEMMA StepTurns ==
  ASSUME ApprovalInv, NEW w \in Windows, NEW s \in PageSteps \ {"confirmed"}, Turns(w, s),
         UNCHANGED << user, group, now, approvedAt, asked >>, NothingCompared
  PROVE  ApprovalInv'
<1>1. tab[w] \in TabState /\ (Occupied(tab[w]) => Asking(w) = {})
  BY DEF ApprovalInv, WindowInv, Fits
<1> DEFINE r == [tab[w] EXCEPT !.step = s]
<1>2. r.doing = tab[w].doing /\ r.step = s
  BY <1>1 DEF TabState
<1>3. Fits(r) /\ Becomes(w, r)
  BY TurnsFits DEF Turns
<1>4. Occupied(r) => Asking(w) = {}
  BY <1>1, <1>2 DEF Occupied
<1> HIDE DEF r
<1> QED BY <1>3, <1>4, WindowTurns

\* Another page, of which the window knows no more than it did.
LEMMA PageOpens ==
  ASSUME ApprovalInv, NEW w \in Windows, NEW page \in Pages \ {"/oauth-complete"},
         NEW crumb, page = "/lots" => "/lots" \in group, Becomes(w, Pushed(w, page, crumb)),
         UNCHANGED << user, group, now, approvedAt, asked >>, NothingCompared
  PROVE  ApprovalInv'
<1>1. tab[w].claims \in Claim /\ ("/lots" \in group => Standing(tab[w].claims))
  BY DEF ApprovalInv, WindowInv, Fits, TabState
<1>2. "/dashboard" \in Pages /\ "/dashboard" # "/lots"
  BY DEF Pages, Guarded
<1>3. Fits(Pushed(w, page, crumb)) /\ ~Occupied(Pushed(w, page, crumb))
  BY <1>1, <1>2, OpenedIs DEF Pushed
<1> QED BY <1>3, WindowTurns

LEMMA PagesTurn ==
  ASSUME ApprovalInv, NEW w \in Windows,
         \/ Follow(w) \/ OpenGoogle(w) \/ EmailVerified(w) \/ PhoneAside(w)
         \/ ReadSettings(w) \/ Poll(w) \/ AuthoriseCard(w) \/ CardStep(w) \/ CardSaved(w)
         \/ CloseDialog(w)
  PROVE  ApprovalInv'
<1>1. UNCHANGED << user, call, group, now, approvedAt, asked >>
  BY DEF Follow, OpenGoogle, EmailVerified, PhoneAside, ReadSettings, Poll, AuthoriseCard,
     CardStep, CardSaved, CloseDialog, vars, browserVars, history
<1>0. NothingCompared
  BY <1>1, CallsCompareSame
<1>2. CASE Follow(w)
  BY <1>1, <1>2, <1>0, PageOpens DEF Follow, Pages, Guarded
<1>3. CASE OpenGoogle(w)
  <2>1. Fits(tab[w])
    BY DEF ApprovalInv, WindowInv
  <2> DEFINE r == [Away EXCEPT !.page = "google", !.back = tab[w].back]
  <2>2. Fits(r) /\ ~Occupied(r)
    BY <2>1, AwayFits DEF Fits, TabState, Away, Occupied
  <2>3. Becomes(w, r)
    BY <1>3 DEF OpenGoogle
  <2> HIDE DEF r
  <2> QED BY <1>1, <2>2, <2>3, <1>0, WindowTurns
<1>4. CASE EmailVerified(w)
  BY <1>1, <1>4, <1>0, PageOpens DEF EmailVerified, Pages
<1>5. CASE PhoneAside(w)
  <2>1. CASE Turns(w, "phone") \/ Turns(w, "none")
    BY <1>1, <2>1, <1>0, StepTurns DEF PageSteps
  <2>2. CASE /\ Shows(w, "/verify-phone", "locked")
             /\ Becomes(w, [tab[w] EXCEPT !.step = "otp", !.wrong = 0])
    <3> DEFINE r == [tab[w] EXCEPT !.step = "otp", !.wrong = 0]
    <3>1. Fits(tab[w]) /\ (Occupied(tab[w]) => Asking(w) = {})
      BY DEF ApprovalInv, WindowInv
    <3>2. Fits(r) /\ (Occupied(r) => Occupied(tab[w]))
      BY <3>1 DEF Fits, TabState, PageSteps, Occupied
    <3> HIDE DEF r
    <3> QED BY <1>1, <2>2, <3>1, <3>2, <1>0, WindowTurns DEF r
  <2> QED BY <1>5, <2>1, <2>2 DEF PhoneAside
<1>6. CASE ReadSettings(w)
  BY <1>1, <1>6, <1>0, StepTurns DEF ReadSettings, PageSteps
<1>7. CASE Poll(w)
  BY <1>1, <1>7, <1>0, StepTurns DEF Poll, PageSteps
<1>8. CASE AuthoriseCard(w) \/ CardStep(w)
  BY <1>1, <1>8, <1>0, WindowSame DEF AuthoriseCard, CardStep, browserVars
<1>9. CASE CardSaved(w)
  BY <1>1, <1>9, <1>0, StepTurns DEF CardSaved, PageSteps
<1>10. CASE CloseDialog(w)
  BY <1>1, <1>10, <1>0, StepTurns DEF CloseDialog, PageSteps
<1> QED BY <1>2, <1>3, <1>4, <1>5, <1>6, <1>7, <1>8, <1>9, <1>10

\* The way to a bid: which claims it goes by was settled on the way.
LEMMA BidsTurn ==
  ASSUME ApprovalInv, NEW w \in Windows,
         PlaceBid(w) \/ CheckCard(w) \/ BidArrives(w) \/ RefreshRefused(w)
  PROVE  ApprovalInv'
<1>1. UNCHANGED << user, call, group, now, approvedAt, asked >>
  BY DEF PlaceBid, CheckCard, BidArrives, RefreshRefused, vars, history
<1>0. NothingCompared
  BY <1>1, CallsCompareSame
<1>2. Fits(tab[w])
  BY DEF ApprovalInv, WindowInv
<1>3. tab[w] \in TabState /\ (tab[w].page = "/lots" => Standing(tab[w].claims) /\ Standing(tab[w].seen))
  BY <1>2 DEF Fits
<1>4. CASE PlaceBid(w)
  <2>1. /\ Ready(w) /\ tab[w].page = "/lots" /\ tab[w].step = "none" /\ tab[w].doing = "none"
        /\ Becomes(w, Bidding(tab[w], tab[w].claims))
    BY <1>4 DEF PlaceBid, Shows, Ready
  <2>2. tab[w].claims \in Claim
    BY <1>3 DEF TabState
  <2>3. Fits(Bidding(tab[w], tab[w].claims))
    BY <1>2, <1>3, <2>1, <2>2, BiddingFits
  <2> QED BY <1>1, <2>1, <2>3, NobodyAsked, <1>0, WindowTurns
<1>5. CASE CheckCard(w)
  <2>1. Asking(w) = {} /\ tab[w].doing = "profile"
    BY <1>5, NobodyAsked DEF CheckCard, Occupied
  <2>2. PICK r : /\ Becomes(w, r)
                 /\ r \in {[tab[w] EXCEPT !.doing = "none"],
                           Loaded("/register-to-bid", "/dashboard"),
                           [tab[w] EXCEPT !.doing = "bid"]}
    BY <1>5 DEF CheckCard
  <2>3. Fits([tab[w] EXCEPT !.doing = "none"]) /\ Fits([tab[w] EXCEPT !.doing = "bid"])
    BY <1>2, <2>1 DEF Fits, TabState
  <2>4. Fits(Loaded("/register-to-bid", "/dashboard"))
    BY OpenedIs, NoClaimsStand DEF Loaded, Pages, Guarded
  <2> QED BY <1>1, <2>1, <2>2, <2>3, <2>4, <1>0, WindowTurns
<1>6. CASE BidArrives(w)
  <2>1. Asking(w) = {} /\ tab[w].doing = "bid"
    BY <1>6, NobodyAsked DEF BidArrives, Occupied
  <2>2. PICK r : /\ Becomes(w, r)
                 /\ r \in {[tab[w] EXCEPT !.doing = "none"],
                           [tab[w] EXCEPT !.doing = "none", !.step = "confirmed"]}
    BY <1>6 DEF BidArrives
  <2>3. /\ Fits([tab[w] EXCEPT !.doing = "none"])
        /\ Fits([tab[w] EXCEPT !.doing = "none", !.step = "confirmed"])
    BY <1>2, <2>1 DEF Fits, TabState, PageSteps
  <2> QED BY <1>1, <2>1, <2>2, <2>3, <1>0, WindowTurns
<1>7. CASE RefreshRefused(w)
  <2> DEFINE q == [tab[w] EXCEPT !.doing = "none"]
             r == Resumed(w, q, FALSE, None)
  <2>1. Asking(w) = {} /\ tab[w].doing = "refresh" /\ Becomes(w, r)
    BY <1>7, NobodyAsked DEF RefreshRefused, Occupied
  <2>2. /\ Fits(q) /\ q.doing = "none" /\ q.step # "confirmed"
        /\ q.page = tab[w].page /\ q.seen = tab[w].seen /\ q.claims = tab[w].claims
    BY <1>2, <2>1 DEF Fits, TabState
  <2>3. q.claims \in Claim /\ q.seen \in Claim
    BY <2>2 DEF Fits, TabState
  <2> HIDE DEF q
  <2>4. ASSUME q.page = "/lots" PROVE Fits(r)
    BY <1>3, <2>2, <2>3, <2>4, BiddingFits DEF Resumed
  <2>5. ASSUME q.page # "/lots" PROVE Fits(r)
    <3>1. r = Opened("/login", "/dashboard", q.claims, None)
      BY <2>5 DEF Resumed
    <3>2. "/lots" \in group => Standing(q.claims)
      BY <2>2 DEF Fits
    <3> QED BY <2>3, <3>1, <3>2, OpenedIs DEF Pages, Guarded
  <2> HIDE DEF r
  <2> QED BY <1>1, <2>1, <2>4, <2>5, <1>0, WindowTurns DEF r
<1> QED BY <1>4, <1>5, <1>6, <1>7

\* A code is refused.
LEMMA RefusedFits ==
  ASSUME NEW w, Fits(tab[w])
  PROVE  /\ Fits(Refused(w)) /\ Refused(w).doing = tab[w].doing
         /\ Refused(w).step = "confirmed" => tab[w].step = "confirmed"
<1> DEFINE wrong == tab[w].wrong + 1
           step  == IF wrong >= MaxWrong THEN "locked" ELSE tab[w].step
<1>1. tab[w] \in TabState /\ wrong \in Nat
  BY DEF Fits, TabState
<1>2. step \in PageSteps /\ (step = "confirmed" => tab[w].step = "confirmed")
  BY <1>1 DEF TabState, PageSteps
<1>3. Refused(w) \in {tab[w], [tab[w] EXCEPT !.wrong = wrong, !.step = step]}
  BY <1>1 DEF Refused, TabState
<1> HIDE DEF wrong, step
<1>4. CASE Refused(w) = [tab[w] EXCEPT !.wrong = wrong, !.step = step]
  BY <1>1, <1>2, <1>4 DEF Fits, TabState
<1> QED BY <1>3, <1>4

\* A page asks; it does nothing else until it is answered.
LEMMA PagesAsk ==
  ASSUME ApprovalInv, PortalSound, NEW w \in Windows, PageRequest(w)
  PROVE  ApprovalInv'
<1>0. NothingCompared /\ BrowserInv
  BY RequestsCompareNothing DEF PortalSound
<1>1. UNCHANGED << user, group, now, approvedAt >>
  BY DEF PageRequest, SignOut, HandleLogin, HandleRegister, Callback, Refresh, VerifyEmail,
     RequestCode, VerifyCode, SetPassword, SubmitIdentity, Submit, InService, history
<1>2. Fits(tab[w]) /\ tab[w] \in TabState /\ tab \in [Windows -> TabState]
  BY DEF ApprovalInv, WindowInv, Fits
<1>3. ASSUME Ready(w), NEW q, Fits(q), ~Occupied(q), Becomes(w, q),
             \/ asked' = asked
             \/ \E kind, r : Sends(w, kind, r)
      PROVE  ApprovalInv'
  <2>1. Asking(w) = {}
    BY <1>3, NobodyAsked
  <2>2. CASE asked' = asked
    BY <1>1, <1>3, <2>1, <2>2, <1>0, WindowTurns
  <2>3. ASSUME NEW kind, NEW r, Sends(w, kind, r) PROVE ApprovalInv'
    BY <1>1, <1>3, <2>1, <2>3, <1>0, WindowAsks
  <2> QED BY <1>3, <2>2, <2>3
<1>4. ASSUME Ready(w), tab[w].step # "confirmed", tab' = tab, \E kind, r : Sends(w, kind, r)
      PROVE  ApprovalInv'
  <2>1. Becomes(w, tab[w]) /\ ~Occupied(tab[w])
    BY <1>2, <1>4 DEF Becomes, Ready, Occupied
  <2> QED BY <1>2, <1>3, <1>4, <2>1
<1>5. CASE SignOut(w)
  <2> DEFINE q == [tab[w] EXCEPT !.claims = NoClaims]
  <2>1. Fits(q) /\ (Occupied(q) => Occupied(tab[w])) /\ Becomes(w, q)
    BY <1>2, <1>5, NoClaimsStand DEF SignOut, Fits, TabState, Occupied
  <2>2. Occupied(q) => Asking(w) = {}
    BY <2>1, NobodyAsked
  <2> HIDE DEF q
  <2>3. CASE asked' = asked
    BY <1>1, <2>1, <2>2, <2>3, <1>0, WindowTurns
  <2>4. ASSUME NEW r, Sends(w, "logout", r) PROVE ApprovalInv'
    BY <1>1, <2>1, <2>2, <2>4, <1>0, WindowAsks
  <2> QED BY <1>5, <2>3, <2>4 DEF SignOut
<1>6. CASE HandleLogin(w) \/ HandleRegister(w)
  BY <1>4, <1>6 DEF HandleLogin, HandleRegister, SignsIn, Submit, Shows
<1>7. CASE VerifyEmail(w)
  BY <1>4, <1>7 DEF VerifyEmail, Submit, Shows
<1>8. CASE Callback(w)
  <2>1. Ready(w) /\ tab[w].step # "confirmed"
    BY <1>2, <1>8 DEF Callback, Fits
  <2>2. Fits(Loaded("/login", "/dashboard")) /\ ~Occupied(Loaded("/login", "/dashboard"))
    BY OpenedIs, NoClaimsStand DEF Loaded, Pages, Guarded
  <2> QED BY <1>3, <1>4, <1>8, <2>1, <2>2 DEF Callback
<1>9. CASE Refresh(w)
  <2> DEFINE q == [tab[w] EXCEPT !.doing = "none"]
  <2>1. tab[w].doing = "refresh" /\ Asking(w) = {}
    BY <1>9, NobodyAsked DEF Refresh, Occupied
  <2>2. Fits(q) /\ ~Occupied(q) /\ Becomes(w, q)
    BY <1>2, <1>9, <2>1 DEF Refresh, Fits, TabState, Occupied
  <2> HIDE DEF q
  <2>3. PICK kind, r : Sends(w, kind, r)
    BY <1>9 DEF Refresh
  <2> QED BY <1>1, <2>1, <2>2, <2>3, <1>0, WindowAsks
<1>10. CASE RequestCode(w) \/ VerifyCode(w) \/ SetPassword(w) \/ SubmitIdentity(w)
  <2>1. Ready(w) /\ tab[w].doing = "none" /\ tab[w].step # "confirmed"
    BY <1>10 DEF RequestCode, VerifyCode, SetPassword, SubmitIdentity, Shows, Ready
  <2>2. PICK q \in {[tab[w] EXCEPT !.seen = tab[w].claims], Refused(w)} :
          /\ Becomes(w, q)
          /\ asked' = asked \/ \E kind, r : Sends(w, kind, r)
    BY <1>10 DEF RequestCode, VerifyCode, SetPassword, SubmitIdentity, SubmitAuthorized,
       SendsAuthorized
  <2>3. /\ Fits([tab[w] EXCEPT !.seen = tab[w].claims])
        /\ ~Occupied([tab[w] EXCEPT !.seen = tab[w].claims])
    BY <1>2, <2>1 DEF Fits, TabState, Occupied
  <2>4. Fits(Refused(w)) /\ ~Occupied(Refused(w))
    BY <1>2, <2>1, RefusedFits DEF Occupied
  <2> QED BY <1>3, <2>1, <2>2, <2>3, <2>4
<1> QED BY <1>5, <1>6, <1>7, <1>8, <1>9, <1>10 DEF PageRequest

\* The answers on their way to a window that is loaded again are lost.
LEMMA PageLoads ==
  ASSUME ApprovalInv, BrowserInv, NEW w \in Windows, Load(w)
  PROVE  ApprovalInv'
<1>1. PICK page \in Pages \cap group :
        /\ page # "/oauth-complete" /\ Becomes(w, Loaded(page, "/dashboard"))
        /\ asked' = [t \in Calls |-> IF t \in Dropped(w) THEN Unasked ELSE asked[t]]
        /\ UNCHANGED << vars, approvedAt >>
  BY DEF Load
<1>2. UNCHANGED << user, group, now, approvedAt >> /\ NothingCompared
  BY <1>1, CallsCompareSame DEF vars
<1>3. Fits(Loaded(page, "/dashboard")) /\ ~Occupied(Loaded(page, "/dashboard"))
  BY <1>1, OpenedIs, NoClaimsStand DEF Loaded, Pages, Guarded
<1>4. Unasked.tab = Nobody /\ Unasked.access = NoClaims
  BY DEF Unasked
<1>5. \A v \in Windows : Asking(v)' \subseteq Asking(v)
  BY <1>1, <1>4, SavedCardsAssumption DEF Asking
<1>6. \A s, t \in Asking(w)' : s = t
  BY <1>5 DEF ApprovalInv, WindowInv
<1>7. "/lots" \in group => \A t \in Calls : Standing(asked'[t].access)
  BY <1>1, <1>4, NoClaimsStand DEF ApprovalInv
<1> QED BY <1>1, <1>2, <1>3, <1>5, <1>6, <1>7, WindowBecomes

\* What a page makes of an answer to it.
LEMMA ReactionFits ==
  ASSUME ApprovalInv, BrowserInv, NEW w \in Windows, NEW t \in Calls,
         asked[t].tab = w
  PROVE  /\ Fits(Reaction(w, asked[t]))
         /\ asked[t].what = "logout" => Reaction(w, asked[t]) = tab[w]
<1> DEFINE a  == asked[t]
           ok == a.answer = "ok"
           signed == [tab[w] EXCEPT !.claims = a.access]
<1>1. Fits(tab[w]) /\ tab[w] \in TabState /\ a \in Question
  BY DEF ApprovalInv, WindowInv, Fits, BrowserInv
<1>2. a.access \in Claim /\ ("/lots" \in group => Standing(a.access))
  BY <1>1 DEF ApprovalInv, Question
<1>3. tab[w].back \in Pages /\ tab[w].claims \in Claim /\ tab[w].seen \in Claim
  BY <1>1 DEF TabState
<1>4. a.what # "logout" => tab[w].doing = "none" /\ tab[w].step # "confirmed"
  BY DEF ApprovalInv, WindowInv, Asking, Occupied
<1>5. Fits(signed) /\ signed.doing = tab[w].doing /\ signed.step = tab[w].step
      /\ signed.page = tab[w].page /\ signed.seen = tab[w].seen /\ signed.back = tab[w].back
      /\ signed.claims = a.access
  BY <1>1, <1>2 DEF Fits, TabState
<1>6. \A s \in PageSteps \ {"confirmed"} : Fits([tab[w] EXCEPT !.step = s])
  BY TurnsFits
<1>7. \A p, b \in Pages : /\ "/lots" \in {p, b} => "/lots" \in group
                         => Fits(Loaded(p, b))
  BY OpenedIs, NoClaimsStand DEF Loaded
<1>8. {"/dashboard", "/login", "/register-to-bid", "/oauth-complete"} \subseteq Pages
  BY DEF Pages, Guarded
<1>9. ("/lots" \in group => Standing(tab[w].claims)) /\ (tab[w].back = "/lots" => "/lots" \in group)
      /\ (tab[w].page = "/lots" => Standing(tab[w].seen))
  BY <1>1 DEF Fits
<1>10. CASE a.what = "login" /\ ok
  <2>1. Reaction(w, a) = Opened(tab[w].back, "/dashboard", a.access, a.token)
    BY <1>10 DEF Reaction
  <2> QED BY <1>2, <1>3, <1>8, <1>9, <1>10, <2>1, OpenedIs
<1>11. CASE a.what = "register" /\ ok
  BY <1>6, <1>11 DEF Reaction, PageSteps
<1>12. CASE a.what = "google"
  <2>1. Reaction(w, a) \in {Loaded("/oauth-complete", tab[w].back), Loaded("/login", "/dashboard")}
    BY <1>12 DEF Reaction
  <2> QED BY <1>3, <1>7, <1>8, <1>9, <1>12, <2>1
<1>13. CASE a.what = "refresh"
  <2> DEFINE r == IF ok THEN signed ELSE tab[w]
  <2>1. Reaction(w, a) = Resumed(w, r, ok, CookieOf(a))
    BY <1>13 DEF Reaction
  <2>2. /\ Fits(r) /\ r.doing = "none" /\ r.step # "confirmed" /\ r.page = tab[w].page
        /\ r.seen = tab[w].seen /\ r.back = tab[w].back
        /\ r.claims \in Claim /\ ("/lots" \in group => Standing(r.claims))
    BY <1>1, <1>2, <1>3, <1>4, <1>5, <1>9, <1>13
  <2> HIDE DEF r
  <2>3. CASE r.page = "/lots"
    <3>1. Reaction(w, a) = Bidding(r, r.seen)
      BY <2>1, <2>3 DEF Resumed
    <3> QED BY <1>3, <1>9, <1>13, <2>2, <2>3, <3>1, BiddingFits
  <2>4. CASE r.page # "/lots"
    <3> DEFINE p == IF ok THEN r.back ELSE "/login"
    <3>1. Reaction(w, a) = Opened(p, "/dashboard", r.claims, CookieOf(a))
      BY <2>1, <2>4 DEF Resumed
    <3>2. p \in Pages /\ (p = "/lots" => "/lots" \in group)
      BY <1>3, <1>8, <1>9, <2>2
    <3> HIDE DEF p
    <3> QED BY <1>8, <1>13, <2>2, <3>1, <3>2, OpenedIs
  <2> QED BY <2>3, <2>4
<1>14. CASE a.what = "verifyEmail"
  BY <1>6, <1>14 DEF Reaction, PageSteps
<1>15. CASE a.what = "requestCode" /\ ok
  BY <1>6, <1>15 DEF Reaction, PageSteps
<1>16. CASE a.what = "verifyPhone" /\ ok
  <2>1. CASE tab[w].page = "/lots"
    <3>1. Reaction(w, a) = [tab[w] EXCEPT !.step = "none", !.doing = "refresh"]
      BY <1>16, <2>1 DEF Reaction
    <3>2. Fits([tab[w] EXCEPT !.step = "none", !.doing = "refresh"])
      BY <1>1 DEF Fits, TabState, PageSteps
    <3> QED BY <1>16, <3>1, <3>2
  <2>2. CASE tab[w].page # "/lots"
    <3>1. Reaction(w, a) = Opened("/register-to-bid", "/dashboard", tab[w].claims, cookie)
      BY <1>16, <2>2 DEF Reaction, Pushed
    <3> QED BY <1>3, <1>8, <1>9, <1>16, <3>1, OpenedIs
  <2> QED BY <2>1, <2>2
<1>17. CASE a.what = "verifyPhone" /\ ~ok
  BY <1>1, <1>17, RefusedFits DEF Reaction
<1>18. CASE a.what = "identity" /\ ok
  BY <1>6, <1>18 DEF Reaction, PageSteps
<1>19. CASE a.what = "setPassword" /\ ok
  BY <1>6, <1>19 DEF Reaction, PageSteps
<1>20. CASE /\ a.what \notin {"google", "refresh", "verifyEmail", "verifyPhone"}
            /\ ~(ok /\ a.what \in {"login", "register", "requestCode", "identity", "setPassword"})
  BY <1>1, <1>20 DEF Reaction
<1> QED BY <1>10, <1>11, <1>12, <1>13, <1>14, <1>15, <1>16, <1>17, <1>18, <1>19, <1>20

LEMMA PageHears ==
  ASSUME ApprovalInv, BrowserInv, NEW w \in Windows, Hear(w)
  PROVE  ApprovalInv'
<1>1. PICK t \in Calls :
        /\ asked[t].tab = w /\ (Becomes(w, Reaction(w, asked[t])) \/ tab' = tab)
        /\ asked' = [asked EXCEPT ![t] = Unasked]
        /\ UNCHANGED << vars, history >>
  BY DEF Hear
<1>2. UNCHANGED << user, group, now, approvedAt >> /\ NothingCompared
  BY <1>1, CallsCompareSame DEF vars, history
<1>3. PICK r : /\ Fits(r) /\ Becomes(w, r)
               /\ asked[t].what = "logout" => r = tab[w]
               /\ r = tab[w] \/ r = Reaction(w, asked[t])
  <2>1. CASE Becomes(w, Reaction(w, asked[t]))
    BY <1>1, <2>1, ReactionFits
  <2>2. CASE tab' = tab
    <3>1. Fits(tab[w]) /\ Becomes(w, tab[w])
      BY <2>2 DEF ApprovalInv, WindowInv, Becomes
    <3> QED BY <3>1
  <2> QED BY <1>1, <2>1, <2>2
<1>4. Unasked.tab = Nobody /\ Unasked.access = NoClaims
  BY DEF Unasked
<1>5. \A v \in Windows : Asking(v)' = Asking(v) \ {t}
  BY <1>1, <1>4, SavedCardsAssumption DEF Asking, BrowserInv
<1>6. /\ \A s, u \in Asking(w) : s = u
      /\ Occupied(tab[w]) => Asking(w) = {}
      /\ asked[t].what # "logout" => t \in Asking(w)
  BY <1>1 DEF ApprovalInv, WindowInv, Asking
<1>7. Occupied(r) => Asking(w)' = {}
  BY <1>3, <1>5, <1>6
<1>8. "/lots" \in group => \A s \in Calls : Standing(asked'[s].access)
  BY <1>1, <1>4, NoClaimsStand DEF ApprovalInv, BrowserInv
<1> QED BY <1>2, <1>3, <1>5, <1>6, <1>7, <1>8, WindowBecomes

\* Claims as they are signed in this step: of the user as they are, or as a login
\* had read them before it compared the password.
Signed(c) ==
  /\ c.expires = now + AccessTtl /\ now' = now
  /\ c.status = user'.status \/ \E t \in Calls : At(t, "verify") /\ c.status = call[t].seen.status

\* The service or the clock goes on: an approval may be renewed, never withdrawn.
LEMMA WorldMoves ==
  ASSUME ApprovalInv, BrowserInv, UNCHANGED << tab, group >>,
         now \in Nat, now' \in Nat, now <= now', Approved,
         \A v \in Windows : Asking(v)' = Asking(v),
         \A t \in Calls : \/ asked'[t].access \in {asked[t].access, NoClaims}
                          \/ Signed(asked'[t].access)
  PROVE  ApprovalInv'
<1>1. /\ approvedAt' \in Int /\ approvedAt <= approvedAt' /\ approvedAt' <= now'
      /\ "/lots" \in group => /\ user'.status = "APPROVED_BIDDER" => approvedAt' = now'
                              /\ \A t \in Calls : Compares(t)' => approvedAt' = now'
  BY DEF ApprovalInv, Approved
<1>2. AccessTtl \in Nat /\ approvedAt \in Int
  BY PortalAssumption DEF ApprovalInv
<1>3. \A c \in Claim : Standing(c) => Standing(c)'
  BY <1>1, <1>2 DEF Standing, Claim
<1>4. ASSUME NEW w \in Windows PROVE WindowInv(w)'
  <2>1. Fits(tab[w]) /\ tab[w].claims \in Claim /\ tab[w].seen \in Claim
    BY DEF ApprovalInv, WindowInv, Fits, TabState
  <2>2. Fits(tab[w])'
    BY <1>3, <2>1 DEF Fits
  <2> QED BY <2>2 DEF ApprovalInv, WindowInv
<1>5. ASSUME NEW t \in Calls, "/lots" \in group PROVE Standing(asked[t].access)'
  <2>1. asked[t].access \in Claim /\ Standing(asked[t].access)
    BY <1>5 DEF ApprovalInv, BrowserInv, Question
  <2>2. CASE asked'[t].access \in {asked[t].access, NoClaims}
    BY <1>1, <1>2, <2>1, <2>2, NoClaimsStand DEF Standing, Claim
  <2>3. CASE Signed(asked'[t].access)
    <3>1. SUFFICES ASSUME asked'[t].access.status = "APPROVED_BIDDER"
                   PROVE  asked'[t].access.expires <= approvedAt' + AccessTtl
      BY DEF Standing
    <3>2. approvedAt' = now' \/ approvedAt = now
      BY <1>1, <1>5, <2>3, <3>1 DEF Signed, Compares, ApprovalInv
    <3>3. approvedAt' = now
      BY <1>1, <1>2, <2>3, <3>2 DEF Signed
    <3> QED BY <1>1, <1>2, <2>3, <3>3 DEF Signed
  <2> QED BY <2>2, <2>3
<1>6. tab' \in [Windows -> TabState]
  BY DEF ApprovalInv
<1>7. "/lots" \in group' => \A t \in Calls : Compares(t)' => approvedAt' = now'
  BY <1>1
<1> QED BY <1>1, <1>4, <1>5, <1>6, <1>7 DEF ApprovalInv

LEMMA ServiceGoesOn ==
  ASSUME PortalSound, ApprovalInv, NEW t \in Calls, Serve(t)
  PROVE  ApprovalInv'
<1>1. (CallStep(t) \/ Fail(t)) /\ Approved /\ UNCHANGED << tab >> /\ BrowserInv
  BY DEF Serve, Upset, PortalSound
<1>2. now' = now /\ now \in Nat /\ group' = group
  BY <1>1 DEF PortalSound, AccountSound, Types, CallStep, Find, FindGoogle, FindEmail,
     VerifyPassword, Upload, Save, Count, SaveCode, Publish, FindCode, MarkUsed, FindToken,
     Revoke, SaveToken, Fail
<1>3. CASE asked' = asked
  BY <1>1, <1>2, <1>3, WorldMoves, AskingSame
<1>4. ASSUME NEW answer, Tells(t, answer)
      PROVE  ApprovalInv'
  <2>1. /\ Served(t, answer).tab = asked[t].tab /\ Served(t, answer).what = asked[t].what
        /\ \/ Served(t, answer).access \in {asked[t].access, NoClaims}
           \/ Served(t, answer).access
                = [status |-> SignedStatus(t), expires |-> now + AccessTtl]
    BY <1>1 DEF Served, BrowserInv, Question
  <2>2. \/ Served(t, answer).access \in {asked[t].access, NoClaims}
        \/ Signed(Served(t, answer).access)
    BY <1>2, <2>1 DEF Signed, SignedStatus
  <2>3. /\ asked'[t] = Served(t, answer)
        /\ \A s \in Calls \ {t} : asked'[s] = asked[s]
    BY <1>1, <1>4 DEF Tells, BrowserInv
  <2>4. \A v \in Windows : Asking(v)' = Asking(v)
    BY <2>1, <2>3 DEF Asking
  <2> QED BY <1>1, <1>2, <2>2, <2>3, <2>4, WorldMoves
<1>5. CASE asked' = [asked EXCEPT ![t].answer = "ok"]
  <2>1. \A s \in Calls : /\ asked'[s].tab = asked[s].tab /\ asked'[s].what = asked[s].what
                         /\ asked'[s].access = asked[s].access
    BY <1>1, <1>5 DEF BrowserInv, Question
  <2>2. \A v \in Windows : Asking(v)' = Asking(v)
    BY <2>1 DEF Asking
  <2> QED BY <1>1, <1>2, <2>1, <2>2, WorldMoves
<1> QED BY <1>3, <1>4, <1>5 DEF Serve, Upset

LEMMA ApprovalKept ==
  ASSUME PortalSound, ApprovalInv, [PortalNext]_allVars
  PROVE  ApprovalInv'
<1>1. ASSUME NEW w \in Windows, WindowStep(w) PROVE ApprovalInv'
  BY <1>1, PagesTurn, BidsTurn, PagesAsk, PageLoads, PageHears
  DEF PortalSound, WindowStep, SignIn, Verify, Bid, PageRequest
<1>2. ASSUME NEW t \in Calls, Others(t) PROVE ApprovalInv'
  <2>1. NothingCompared
    BY <1>2, RequestEnters, EntersComparesNothing DEF Others, PortalSound, AccountSound
  <2> QED BY <1>2, <2>1, WindowSame DEF Others, Request, browserVars, history
<1>3. CASE TimePasses
  <2>1. /\ Approved /\ now' = now + 1 /\ now \in Nat
        /\ UNCHANGED << tab, group, asked >> /\ BrowserInv
    BY <1>3 DEF TimePasses, Tick, Pass, PortalSound, AccountSound, Types
  <2> QED BY <2>1, WorldMoves, AskingSame
<1>4. CASE UNCHANGED allVars
  BY <1>4, CallsCompareSame, WindowSame DEF allVars, vars, browserVars, history
<1> QED BY <1>1, <1>2, <1>3, <1>4, ServiceGoesOn DEF PortalNext

LEMMA ApprovalBegins ==
  ASSUME PortalInit, PortalSound
  PROVE  ApprovalInv
<1>1. PICK someone \in {NoUser, Member, Bidder, CreateFromGoogle} : Start(someone)
  BY DEF PortalInit
<1>2. /\ user = someone /\ now = 0 /\ asked = [t \in Calls |-> Unasked]
      /\ approvedAt = IF user = Bidder THEN now ELSE -AccessTtl
  BY <1>1 DEF Start, PortalInit
<1>3. AccessTtl \in Nat /\ Unasked.tab = Nobody /\ Unasked.access = NoClaims
  BY PortalAssumption DEF Unasked
<1>4. /\ approvedAt \in Int /\ approvedAt <= now
      /\ user.status = "APPROVED_BIDDER" => approvedAt = now
  <2>1. CASE user = Bidder
    BY <1>2, <2>1
  <2>2. CASE user # Bidder
    <3>1. NoUser.status = "ABSENT"
      BY DEF NoUser
    <3>2. Member.status = "EMAIL_VERIFIED" /\ CreateFromGoogle.status = "EMAIL_VERIFIED"
      BY DEF NoUser, Member, Create, CreateFromGoogle
    <3>3. user.status # "APPROVED_BIDDER"
      BY <1>1, <1>2, <2>2, <3>1, <3>2
    <3> QED BY <1>2, <1>3, <2>2, <3>3
  <2> QED BY <2>1, <2>2
<1>5. \A w \in Windows : Asking(w) = {}
  BY <1>2, <1>3, SavedCardsAssumption DEF Asking
<1>6. user # NoUser => Claims \in Claim /\ Standing(Claims)
  <2>1. user \in User
    BY DEF PortalSound, AccountSound, Types
  <2> QED BY <1>2, <1>3, <1>4, <2>1 DEF Claims, Claim, Standing, User
<1>7. ASSUME NEW claims \in Claim, Standing(claims), NEW crumb, tab \in First(claims, crumb)
      PROVE  tab \in [Windows -> TabState] /\ \A w \in Windows : Fits(tab[w])
  <2> DEFINE shown == {Opened(page, "/dashboard", claims, crumb) :
                         page \in (Pages \ {"/oauth-complete"}) \cap group}
  <2>1. \A r \in shown \cup {Away} : Fits(r)
    BY <1>7, OpenedIs, AwayFits DEF Pages, Guarded
  <2>2. tab \in [Windows -> shown \cup {Away}]
    BY <1>7 DEF First
  <2> HIDE DEF shown
  <2>3. \A w \in Windows : tab[w] \in shown \cup {Away}
    BY <2>2
  <2> QED BY <2>1, <2>2, <2>3 DEF Fits
<1>8. tab \in [Windows -> TabState] /\ \A w \in Windows : Fits(tab[w])
  <2>1. \/ tab \in First(NoClaims, None)
        \/ user # NoUser /\ tab \in First(Claims, cookie)
    BY DEF PortalInit
  <2> QED BY <1>6, <1>7, <2>1, NoClaimsStand
<1>9. \A t \in Calls : ~Compares(t)
  BY <1>1 DEF Start, Compares, At, Idle
<1> QED BY <1>2, <1>3, <1>4, <1>5, <1>8, <1>9, NoClaimsStand DEF ApprovalInv, WindowInv

\* Only a bid that is let in is confirmed.
LEMMA BidderApprovedStep ==
  ASSUME PortalSound, ApprovalInv, [PortalNext]_allVars, NEW w \in Windows,
         tab[w].doing = "bid", tab'[w].step = "confirmed"
  PROVE  now < approvedAt + AccessTtl
<1>1. /\ tab \in [Windows -> TabState] /\ Fits(tab[w]) /\ Asking(w) = {}
      /\ tab[w].step # "confirmed" /\ tab[w].page = "/lots" /\ Standing(tab[w].seen)
      /\ tab[w].seen \in Claim
  BY DEF ApprovalInv, WindowInv, Fits, Occupied, TabState
<1>2. tab'[w] # tab[w]
  BY <1>1
<1>3. ~Ready(w)
  BY DEF Ready
<1>4. PICK v \in Windows : WindowStep(v)
  BY <1>2 DEF PortalNext, Others, Serve, TimePasses, allVars, browserVars
<1>5. CASE v # w
  <2>1. ASSUME NEW r, Becomes(v, r) PROVE FALSE
    BY <1>1, <1>2, <1>5, <2>1 DEF Becomes
  <2>2. CASE \/ Load(v) \/ Follow(v) \/ SignOut(v) \/ Hear(v)
    BY <1>2, <2>1, <2>2 DEF Load, Follow, SignOut, Hear
  <2>3. CASE SignIn(v)
    BY <1>2, <2>1, <2>3 DEF SignIn, HandleLogin, HandleRegister, OpenGoogle, Callback, Refresh,
       RefreshRefused, Submit
  <2>4. CASE Verify(v)
    BY <1>2, <2>1, <2>4 DEF Verify, VerifyEmail, EmailVerified, RequestCode, VerifyCode,
       PhoneAside, ReadSettings, SetPassword, SubmitIdentity, Poll, Submit,
       SubmitAuthorized, Turns
  <2>5. CASE AuthoriseCard(v) \/ CardStep(v) \/ CardSaved(v)
    BY <1>2, <2>1, <2>5 DEF AuthoriseCard, CardStep, CardSaved, Turns, browserVars
  <2>6. CASE Bid(v)
    BY <2>1, <2>6 DEF Bid, PlaceBid, CheckCard, BidArrives, CloseDialog, Turns
  <2> QED BY <1>4, <2>2, <2>3, <2>4, <2>5, <2>6 DEF WindowStep
<1>6. CASE v = w
  <2>1. ASSUME NEW r, Becomes(w, r) PROVE tab'[w] = r
    BY <1>1, <2>1 DEF Becomes
  <2>2. CASE Load(w)
    <3>1. PICK page \in Pages \cap group : tab'[w] = Loaded(page, "/dashboard")
      BY <2>1, <2>2 DEF Load
    <3> QED BY <3>1, OpenedIs, NoClaimsStand DEF Loaded, Pages, Guarded
  <2>3. CASE SignOut(w)
    <3>1. tab'[w] = [tab[w] EXCEPT !.claims = NoClaims]
      BY <2>1, <2>3 DEF SignOut
    <3> QED BY <1>1, <3>1 DEF TabState
  <2>4. CASE Hear(w)
    <3>1. PICK t \in Calls : asked[t].tab = w /\ tab'[w] = Reaction(w, asked[t])
      BY <1>2, <2>1, <2>4 DEF Hear
    <3>2. asked[t].what = "logout"
      BY <1>1, <3>1 DEF Asking
    <3> QED BY <1>2, <3>1, <3>2, ReactionFits DEF PortalSound
  <2>5. CASE BidArrives(w)
    <3>1. tab'[w] = [tab[w] EXCEPT !.doing = "none"] \/ MayBid(tab[w].seen)
      BY <2>1, <2>5 DEF BidArrives
    <3>2. MayBid(tab[w].seen)
      BY <1>1, <3>1 DEF TabState
    <3>3. now \in Nat /\ approvedAt \in Int /\ AccessTtl \in Nat
      BY PortalAssumption DEF PortalSound, AccountSound, Types, ApprovalInv
    <3> QED BY <1>1, <3>2, <3>3 DEF MayBid, Valid, Standing, Claim
  <2>6. ASSUME Turns(w, "review") \/ Turns(w, "none") PROVE FALSE
    BY <1>1, <2>1, <2>6 DEF Turns, TabState
  <2>7. CASE CardStep(w) \/ CardSaved(w) \/ CloseDialog(w)
    BY <1>2, <2>6, <2>7 DEF CardStep, CardSaved, CloseDialog, browserVars
  <2>8. ~(Refresh(w) \/ RefreshRefused(w) \/ CheckCard(w))
    BY DEF Refresh, RefreshRefused, CheckCard
  <2>9. ~(\/ HandleLogin(w) \/ HandleRegister(w) \/ OpenGoogle(w) \/ Callback(w)
          \/ VerifyEmail(w) \/ Follow(w) \/ RequestCode(w) \/ VerifyCode(w) \/ SetPassword(w)
          \/ SubmitIdentity(w) \/ AuthoriseCard(w) \/ PlaceBid(w))
    BY <1>3 DEF HandleLogin, HandleRegister, OpenGoogle, Callback, SignsIn, VerifyEmail,
       Submit, Follow, RequestCode, VerifyCode, SetPassword, SubmitIdentity, AuthoriseCard,
       PlaceBid
  <2>10. ~(EmailVerified(w) \/ PhoneAside(w) \/ ReadSettings(w) \/ Poll(w))
    BY <1>1, <1>3 DEF EmailVerified, PhoneAside, ReadSettings, Poll, Shows
  <2> QED BY <1>4, <1>6, <2>2, <2>3, <2>4, <2>5, <2>7, <2>8, <2>9, <2>10
          DEF WindowStep, SignIn, Verify, Bid
<1> QED BY <1>4, <1>5, <1>6

\* The browser's memory of who the person was is never better than the truth a
\* token's life ago, or what a login had read that compared a password then.
THEOREM ApprovalsKept == PortalSpec => []ApprovalInv
<1>1. PortalInit /\ PortalSound => ApprovalInv
  BY ApprovalBegins
<1>2. PortalSound /\ ApprovalInv /\ [PortalNext]_allVars => ApprovalInv'
  BY ApprovalKept
<1> QED BY <1>1, <1>2, PortalAlwaysSound, PTL DEF PortalSpec

\* A bid is let in only of somebody who less than a token's life ago was an
\* approved bidder, or was signing in and had been read as one before the
\* password was compared, on whatever page it began.
THEOREM AlwaysBidderApproved == PortalSpec => BidderApproved
<1>1. PortalSound /\ ApprovalInv /\ [PortalNext]_allVars
        => [\A w \in Windows :
              tab[w].doing = "bid" /\ tab'[w].step = "confirmed" => now < approvedAt + AccessTtl]_allVars
  BY BidderApprovedStep
<1> QED BY <1>1, PortalAlwaysSound, ApprovalsKept, PTL DEF PortalSpec, BidderApproved

-----------------------------------------------------------------------------
(***************************************************************************)
(* The token that the browser keeps.                                       *)
(***************************************************************************)

\* In a browser without a page nothing happens.
LEMMA NothingOpens ==
  ASSUME Unopened, NEW w \in Windows, WindowStep(w)
  PROVE  FALSE
<1>1. /\ tab[w] = Away /\ setup[w].pc = "idle" /\ \A t \in Calls : asked[t] = Unasked
  BY DEF Unopened
<1>2. /\ tab[w].page = "away" /\ tab[w].step = "none" /\ tab[w].doing = "none"
      /\ \A t \in Calls : asked[t].tab = Nobody
  BY <1>1 DEF Away, Unasked
<1>3. ~(Load(w) \/ Follow(w) \/ SignOut(w) \/ Hear(w))
  BY <1>2, SavedCardsAssumption DEF Load, Follow, SignOut, Hear
<1>4. ~SignIn(w)
  BY <1>2 DEF SignIn, HandleLogin, HandleRegister, OpenGoogle, Callback, Refresh,
     RefreshRefused, SignsIn, Shows
<1>5. ~Verify(w)
  BY <1>2 DEF Verify, VerifyEmail, EmailVerified, RequestCode, VerifyCode, PhoneAside,
     ReadSettings, SetPassword, SubmitIdentity, Poll, Shows
<1>6. ~(AuthoriseCard(w) \/ CardStep(w) \/ CardSaved(w))
  BY <1>1, <1>2 DEF AuthoriseCard, CardStep, CardSaved, Shows, Awaits, SetupStep, FindProfile,
     CreateCustomer, SaveCustomer, CreateIntent, ConfirmCard, RetrieveIntent, FindAgain, SaveCard
<1>7. ~Bid(w)
  BY <1>2 DEF Bid, PlaceBid, CheckCard, BidArrives, CloseDialog, Shows
<1> QED BY <1>3, <1>4, <1>5, <1>6, <1>7 DEF WindowStep

LEMMA StaysUnopened ==
  ASSUME Unopened, [PortalNext]_allVars
  PROVE  Unopened'
<1>1. \A w \in Windows : ~WindowStep(w)
  BY NothingOpens
<1>2. UNCHANGED << cookie, tab, asked, setup >>
  BY <1>1 DEF PortalNext, Others, Serve, TimePasses, Unopened, allVars, browserVars, cardVars
<1> QED BY <1>2 DEF Unopened

LEMMA CookieSame ==
  ASSUME InUse, UNCHANGED << group, call, tokens, asked, cookie, abandoned >>
  PROVE  InUse'
BY DEF InUse, CookieKept, Minded, Unheard, Replaces

\* A page asks: what it presents is what the browser keeps.
LEMMA CookieAsks ==
  ASSUME PortalSound, InUse, NEW w \in Windows, NEW kind, NEW r,
         Sends(w, kind, r), Presents(kind, r), kind \in Rotating => r.token = cookie,
         UNCHANGED << tokens, group, cookie, abandoned >>
  PROVE  InUse'
<1>1. PICK t \in Calls :
        /\ At(t, "idle") /\ asked[t] = Unasked /\ Goes(t, [r EXCEPT !.kind = kind])
        /\ asked' = [asked EXCEPT ![t] = [Unasked EXCEPT !.tab = w, !.what = kind,
                                                         !.presented = r.token]]
  BY DEF Sends
<1> DEFINE q == [Unasked EXCEPT !.tab = w, !.what = kind, !.presented = r.token]
           e == [r EXCEPT !.kind = kind]
<1>2. /\ q.tab = w /\ q.what = kind /\ q.presented = r.token /\ q.answer = "none" /\ q.token = None
      /\ kind # "none"
  BY DEF Unasked, Presents, Confirming, Rotating
<1>3. /\ e.kind = kind /\ e.token = r.token /\ (r.token # None => r.token = cookie)
      /\ e \in CallState
  <2>1. Entrance(e)
    BY Presented
  <2>2. /\ e \in CallState /\ CallInv(e)
    BY <2>1, EntranceType
  <2>3. e.kind = kind /\ e.token = r.token
    BY DEF Presents, Idle
  <2> QED BY <2>2, <2>3 DEF CallInv
<1>4. Types /\ asked \in [Calls -> Question]
  BY DEF PortalSound, AccountSound, BrowserInv
<1> HIDE DEF q, e
<1>5. /\ asked'[t] = q /\ call'[t] = e
      /\ \A s \in Calls \ {t} : asked'[s] = asked[s] /\ call'[s] = call[s]
  BY <1>1, <1>3, <1>4, OneGoes DEF q, e
<1>6. asked[t].token = None /\ asked[t].what = "none"
  BY <1>1 DEF Unasked
<1>7. ASSUME NEW s \in Calls PROVE Minded(s)' /\ Unheard(s)'
  <2>1. Minded(s)'
    BY <1>2, <1>3, <1>5 DEF InUse, Minded
  <2>2. ASSUME asked'[s].token # None
        PROVE  /\ s # t /\ asked'[s].token = asked[s].token /\ tokens'[asked'[s].token].state = "live"
               /\ asked'[s].token # cookie
    BY <1>2, <1>5, <2>2 DEF InUse, Unheard
  <2>3. ASSUME asked'[s].token # None, NEW u \in Calls
        PROVE  /\ call'[u].pc # "idle" => call'[u].token # asked'[s].token
               /\ u # s => asked'[u].token # asked'[s].token
    <3>1. CASE u = t
      BY <1>2, <1>3, <1>5, <2>2, <2>3, <3>1
    <3>2. CASE u # t
      BY <1>5, <2>2, <2>3, <3>2 DEF InUse, Unheard
    <3> QED BY <3>1, <3>2
  <2> QED BY <2>1, <2>2, <2>3 DEF Unheard
<1>8. CookieKept'
  <2>1. ASSUME NEW s \in Calls, Replaces(s), asked[s].presented = cookie
        PROVE  Replaces(s)' /\ asked'[s].presented = cookie'
    BY <1>5, <1>6, <2>1 DEF Replaces
  <2> QED BY <2>1 DEF InUse, CookieKept
<1> QED BY <1>7, <1>8 DEF InUse

\* A page load gives up what the window had presented.
LEMMA CookieGivenUp ==
  ASSUME PortalSound, InUse, NEW w \in Windows, Load(w)
  PROVE  InUse'
<1>1. /\ asked' = [t \in Calls |-> IF t \in Dropped(w) THEN Unasked ELSE asked[t]]
      /\ abandoned' = abandoned \cup ({asked[t].presented : t \in Dropped(w)} \ {None})
      /\ UNCHANGED << user, codes, tokens, call, forked, group, now, cookie >>
  BY DEF Load, vars
<1>2. Unasked.answer = "none" /\ Unasked.token = None /\ Unasked.what = "none"
  BY DEF Unasked
<1>3. ASSUME NEW s \in Calls PROVE Minded(s)' /\ Unheard(s)'
  <2>1. CASE s \in Dropped(w)
    <3>1. asked'[s] = Unasked
      BY <1>1, <2>1
    <3>2. ASSUME call[s].pc # "idle", call[s].kind \in Rotating PROVE call[s].token \in abandoned'
      <4>1. CASE asked[s].what = "none"
        BY <1>1, <3>2, <4>1 DEF InUse, Minded
      <4>2. CASE asked[s].what # "none"
        <5>1. call[s].token = asked[s].presented /\ call[s].token # None
          BY <3>2, <4>2 DEF InUse, Minded, PortalSound, AccountSound, CallInv
        <5> QED BY <1>1, <2>1, <5>1
      <4> QED BY <4>1, <4>2
    <3> QED BY <1>1, <1>2, <3>1, <3>2 DEF Minded, Unheard
  <2>2. CASE s \notin Dropped(w)
    <3>1. asked'[s] = asked[s]
      BY <1>1, <2>2
    <3>2. Minded(s)'
      BY <1>1, <3>1 DEF InUse, Minded
    <3>3. \A u \in Calls : asked'[u].token \in {None, asked[u].token}
      BY <1>1, <1>2
    <3>4. Unheard(s)'
      BY <1>1, <3>1, <3>3 DEF InUse, Unheard
    <3> QED BY <3>2, <3>4
  <2> QED BY <2>1, <2>2
<1>4. CookieKept'
  <2>1. ASSUME NEW s \in Calls, Replaces(s), asked[s].presented = cookie, cookie # None
        PROVE  CookieKept'
    <3>1. CASE s \in Dropped(w)
      <4>1. cookie' \in abandoned'
        BY <1>1, <2>1, <3>1
      <4> QED BY <4>1 DEF CookieKept
    <3>2. CASE s \notin Dropped(w)
      <4>1. Replaces(s)' /\ asked'[s].presented = cookie'
        BY <1>1, <2>1, <3>2 DEF Replaces
      <4> QED BY <4>1 DEF CookieKept
    <3> QED BY <3>1, <3>2
  <2>2. ASSUME cookie = None \/ cookie \in abandoned \/ tokens[cookie].state = "live"
        PROVE  CookieKept'
    BY <1>1, <2>2 DEF CookieKept
  <2> QED BY <2>1, <2>2 DEF InUse, CookieKept
<1> QED BY <1>1, <1>3, <1>4 DEF InUse

\* The browser hears of a token, or that there is none any more, or of nothing.
LEMMA CookieHears ==
  ASSUME PortalSound, InUse, NEW w \in Windows, Hear(w)
  PROVE  InUse'
<1>1. PICK t \in Calls :
        /\ asked[t].tab = w /\ asked[t].answer # "none" /\ cookie' = CookieOf(asked[t])
        /\ asked' = [asked EXCEPT ![t] = Unasked]
        /\ UNCHANGED << user, codes, tokens, call, forked, group, now, abandoned >>
  BY DEF Hear, vars, history
<1>2. Unasked.answer = "none" /\ Unasked.token = None /\ Unasked.what = "none"
  BY DEF Unasked
<1>3. /\ asked'[t] = Unasked /\ \A s \in Calls \ {t} : asked'[s] = asked[s]
  BY <1>1 DEF PortalSound, BrowserInv
<1>4. call[t].pc = "idle"
  BY <1>1 DEF InUse, Minded
<1> DEFINE over == asked[t].what = "logout" /\ asked[t].answer = "ok"
<1>5. \/ cookie' = None
      \/ cookie' = asked[t].token /\ asked[t].token # None
      \/ cookie' = cookie /\ ~over /\ asked[t].token = None
  <2>1. CASE over
    BY <1>1, <2>1 DEF CookieOf
  <2>2. CASE ~over /\ asked[t].token # None
    BY <1>1, <2>2 DEF CookieOf
  <2>3. CASE ~over /\ asked[t].token = None
    BY <1>1, <2>3 DEF CookieOf
  <2> QED BY <2>1, <2>2, <2>3
<1>6. ASSUME NEW s \in Calls PROVE Minded(s)' /\ Unheard(s)'
  <2>1. CASE s = t
    BY <1>1, <1>2, <1>3, <1>4, <2>1 DEF Minded, Unheard
  <2>2. CASE s # t
    <3>1. Minded(s)'
      BY <1>1, <1>3, <2>2 DEF InUse, Minded
    <3>2. ASSUME asked[s].token # None PROVE asked[s].token # cookie'
      BY <1>5, <2>2, <3>2 DEF InUse, Unheard
    <3>3. \A u \in Calls : asked'[u].token \in {None, asked[u].token}
      BY <1>2, <1>3
    <3>4. Unheard(s)'
      BY <1>1, <1>3, <2>2, <3>2, <3>3 DEF InUse, Unheard
    <3> QED BY <3>1, <3>4
  <2> QED BY <2>1, <2>2
<1>7. CookieKept'
  <2>1. CASE cookie' = None
    BY <2>1 DEF CookieKept
  <2>2. CASE cookie' = asked[t].token /\ asked[t].token # None
    <3>1. tokens'[cookie'].state = "live"
      BY <1>1, <2>2 DEF InUse, Unheard
    <3> QED BY <3>1 DEF CookieKept
  <2>3. CASE cookie' = cookie /\ ~over /\ asked[t].token = None
    <3>1. ASSUME NEW s \in Calls, Replaces(s), asked[s].presented = cookie
          PROVE  CookieKept'
      <4>1. s # t
        BY <1>4, <2>3, <3>1 DEF Replaces
      <4>2. Replaces(s)' /\ asked'[s].presented = cookie'
        BY <1>1, <1>3, <2>3, <3>1, <4>1 DEF Replaces
      <4> QED BY <4>2 DEF CookieKept
    <3>2. ASSUME cookie = None \/ cookie \in abandoned \/ tokens[cookie].state = "live"
          PROVE  CookieKept'
      BY <1>1, <2>3, <3>2 DEF CookieKept
    <3> QED BY <3>1, <3>2 DEF InUse, CookieKept
  <2> QED BY <1>5, <2>1, <2>2, <2>3
<1> QED BY <1>1, <1>6, <1>7 DEF InUse

\* A refresh that has found its token live and does not fail goes on.
LEMMA RefreshMoves ==
  ASSUME Known, NEW t \in Calls, CallStep(t), call[t].kind = "refresh",
         call[t].pc \in {"revoke", "find"}
  PROVE  call'[t].pc = IF At(t, "revoke") THEN "find" ELSE "token"
<1>1. /\ call \in [Calls -> CallState] /\ call[t] \in CallState
      /\ After(t) = IF At(t, "revoke") THEN "find" ELSE "token"
  BY Underway DEF Known, Types, After, At, Flow, RefreshFlow
<1>2. CASE At(t, "revoke")
  <2>1. Onward(t)
    BY <1>2 DEF At, CallStep, Find, FindGoogle, FindEmail, VerifyPassword, Upload, Save, Count, SaveCode,
       Publish, FindCode, MarkUsed, FindToken, Revoke, SaveToken
  <2>2. call' = [call EXCEPT ![t] = [call[t] EXCEPT !.pc = "find"]]
    BY <1>1, <1>2, <2>1 DEF Onward, Proceed, Goes
  <2> QED BY <1>1, <1>2, <2>2 DEF CallState
<1>3. CASE At(t, "find")
  <2>1. Reads(t)
    BY <1>3 DEF At, CallStep, Find, FindGoogle, FindEmail, VerifyPassword, Upload, Save, Count, SaveCode,
       Publish, FindCode, MarkUsed, FindToken, Revoke, SaveToken
  <2>2. May("refresh", user)
    BY DEF May
  <2>3. call' = [call EXCEPT ![t] = [[call[t] EXCEPT !.seen = user] EXCEPT !.pc = "token"]]
    BY <1>1, <1>3, <2>1, <2>2 DEF Reads, Proceed, Goes, At
  <2>4. call'[t].pc = "token"
    BY <1>1, <2>3 DEF CallState
  <2> QED BY <1>3, <2>4 DEF At
<1> QED BY <1>2, <1>3 DEF At

\* What ends a call that does not fail: its new token, or the end of a session.
LEMMA LastSteps ==
  ASSUME Known, NEW t \in Calls, CallStep(t),
         At(t, "token") \/ (At(t, "revoke") /\ call[t].kind = "logout")
  PROVE  call'[t] = Idle /\ After(t) = "done"
<1>1. After(t) = "done" /\ call \in [Calls -> CallState]
  BY Underway, FlowTable DEF At, Known, Types
<1>2. Onward(t)
  BY DEF At, CallStep, Find, FindGoogle, FindEmail, VerifyPassword, Upload, Save, Count,
     SaveCode, Publish, FindCode, MarkUsed, FindToken, Revoke, SaveToken
<1> QED BY <1>1, <1>2 DEF Onward, Proceed, Goes

\* What a page comes to know of its call.
LEMMA AnswerTold ==
  ASSUME asked \in [Calls -> Question], NEW t \in Calls, NEW answer, Tells(t, answer)
  PROVE  /\ asked'[t].what = asked[t].what /\ asked'[t].presented = asked[t].presented
         /\ asked'[t].answer = answer
         /\ asked'[t].token = IF answer = "error" THEN None
                              ELSE IF At(t, "token") THEN Fresh(tokens, NoToken)
                              ELSE asked[t].token
         /\ \A s \in Calls \ {t} : asked'[s] = asked[s]
         /\ abandoned \subseteq abandoned'
         /\ answer = "error" /\ Spent(t) /\ asked[t].presented # None =>
              asked[t].presented \in abandoned'
BY DEF Tells, Served, Question

\* Nobody asked, or the page is told how the call goes on, or that it failed; or
\* a sign-out fails and nobody notices.
LEMMA ServiceTells ==
  ASSUME Types, NEW t \in Calls, Serve(t)
  PROVE  /\ CallStep(t) \/ (Fail(t) /\ UNCHANGED tokens /\ call'[t] = Idle)
         /\ \/ asked[t] = Unasked /\ UNCHANGED << asked, abandoned >>
            \/ asked[t] # Unasked /\ CallStep(t) /\ Tells(t, Told(t))
            \/ Tells(t, "error") /\ call'[t] = Idle
            \/ /\ Fail(t) /\ asked[t].what = "logout" /\ UNCHANGED abandoned
               /\ asked' = [asked EXCEPT ![t].answer = "ok"]
         /\ UNCHANGED << cookie, group >>
<1>1. CallStep(t) \/ Fail(t)
  BY DEF Serve, Upset
<1>2. UNCHANGED << cookie, group >>
  BY <1>1 DEF Serve, CallStep, Find, FindGoogle, FindEmail, VerifyPassword, Upload, Save,
     Count, SaveCode, Publish, FindCode, MarkUsed, FindToken, Revoke, SaveToken, Fail
<1>3. Fail(t) => UNCHANGED tokens /\ call'[t] = Idle
  BY Failing
<1> QED BY <1>1, <1>2, <1>3 DEF Serve, Upset

\* A call goes on: what it does to a token it does to its own, and what it tells
\* is over with it.
LEMMA ServiceMinded ==
  ASSUME PortalSound, InUse, NEW t \in Calls, Serve(t)
  PROVE  /\ call[t].pc # "idle" /\ asked[t].answer = "none" /\ asked[t].token = None
         /\ call'[t].pc = "idle" \/ (call'[t].kind = call[t].kind /\ call'[t].token = call[t].token)
         /\ \A s \in Calls \ {t} : call'[s] = call[s] /\ asked'[s] = asked[s]
         /\ asked'[t].what = asked[t].what /\ asked'[t].presented = asked[t].presented
         /\ asked'[t].answer # "none" \/ asked'[t].token # None => call'[t].pc = "idle"
         /\ asked'[t].token # None => CallStep(t) /\ At(t, "token")
                                      /\ asked'[t].token = Fresh(tokens, NoToken)
         /\ abandoned \subseteq abandoned'
<1>1. /\ Known /\ Types /\ asked \in [Calls -> Question] /\ asked[t] \in Question
  BY DEF PortalSound, AccountSound, Known, BrowserInv
<1>2. /\ CallStep(t) \/ (Fail(t) /\ call'[t] = Idle)
      /\ \/ asked[t] = Unasked /\ UNCHANGED << asked, abandoned >>
         \/ asked[t] # Unasked /\ CallStep(t) /\ Tells(t, Told(t))
         \/ Tells(t, "error") /\ call'[t] = Idle
         \/ /\ Fail(t) /\ asked[t].what = "logout" /\ UNCHANGED abandoned
            /\ asked' = [asked EXCEPT ![t].answer = "ok"]
  BY <1>1, ServiceTells
<1>3. call[t].pc # "idle" /\ asked[t].answer = "none" /\ asked[t].token = None
  <2>1. call[t].pc # "idle"
    BY <1>1, <1>2, CallMoves, Failing
  <2> QED BY <2>1 DEF InUse, Minded
<1>4. PICK r : GoesOn(t, r) /\ Goes(t, r)
  BY <1>1, <1>2, CallMoves, Answering DEF Fail
<1>5. /\ call'[t] = r /\ \A s \in Calls \ {t} : call'[s] = call[s]
  BY <1>1, <1>4, OneGoes DEF GoesOn
<1>6. r.pc = "idle" \/ (r.kind = call[t].kind /\ r.token = call[t].token)
  BY <1>4 DEF GoesOn, Idle
<1>7. Idle.pc = "idle" /\ "idle" # "token"
  BY DEF Idle
<1> DEFINE Heard ==
      /\ \A s \in Calls \ {t} : asked'[s] = asked[s]
      /\ asked'[t].what = asked[t].what /\ asked'[t].presented = asked[t].presented
      /\ asked'[t].answer # "none" \/ asked'[t].token # None => call'[t].pc = "idle"
      /\ asked'[t].token # None => CallStep(t) /\ At(t, "token")
                                   /\ asked'[t].token = Fresh(tokens, NoToken)
      /\ abandoned \subseteq abandoned'
<1>8. CASE asked[t] = Unasked /\ UNCHANGED << asked, abandoned >>
  BY <1>3, <1>5, <1>6, <1>8
<1>9. CASE CallStep(t) /\ Tells(t, Told(t))
  <2>1. Told(t) # "none" => call'[t].pc = "idle"
    BY <1>7 DEF Told
  <2>2. At(t, "token") => call'[t].pc = "idle"
    BY <1>1, <1>7, <1>9, LastSteps
  <2>3. /\ asked'[t].answer = Told(t)
        /\ asked'[t].token # None => At(t, "token") /\ asked'[t].token = Fresh(tokens, NoToken)
    BY <1>1, <1>3, <1>9, AnswerTold
  <2>4. Heard
    BY <1>1, <1>9, <2>1, <2>2, <2>3, AnswerTold
  <2> QED BY <1>3, <1>5, <1>6, <2>4
<1>10. CASE Tells(t, "error") /\ call'[t] = Idle
  <2>1. Heard
    BY <1>1, <1>7, <1>10, AnswerTold
  <2> QED BY <1>3, <1>5, <1>6, <2>1
<1>11. CASE Fail(t) /\ UNCHANGED abandoned /\ asked' = [asked EXCEPT ![t].answer = "ok"]
  <2>1. /\ asked'[t].what = asked[t].what /\ asked'[t].presented = asked[t].presented
        /\ asked'[t].token = asked[t].token /\ \A s \in Calls \ {t} : asked'[s] = asked[s]
    BY <1>1, <1>11 DEF Question
  <2>2. call'[t].pc = "idle"
    BY <1>1, <1>7, <1>11, Failing
  <2> QED BY <1>3, <1>5, <1>6, <1>11, <2>1, <2>2
<1> QED BY <1>2, <1>3, <1>5, <1>6, <1>8, <1>9, <1>10, <1>11

\* The table of tokens, when a call goes on or fails.
LEMMA ServiceTokens ==
  ASSUME PortalSound, NEW t \in Calls, Serve(t)
  PROVE  /\ CallStep(t) /\ At(t, "token") =>
              LET n == Fresh(tokens, NoToken) IN
                n \in Tokens /\ tokens[n] = NoToken /\ tokens'[n].state = "live"
         /\ \A n \in Tokens : tokens[n].state = "live" =>
              tokens'[n].state = "live" \/ (CallStep(t) /\ At(t, "revoke") /\ n = call[t].token)
<1>1. /\ Known /\ TokensInv /\ Types /\ tokens \in [Tokens -> Token]
  BY DEF PortalSound, AccountSound, Known, Types
<1>2. CallStep(t) \/ (Fail(t) /\ UNCHANGED tokens)
  BY <1>1, ServiceTells
<1>3. ASSUME CallStep(t), At(t, "token")
      PROVE  LET n == Fresh(tokens, NoToken) IN
               /\ n \in Tokens /\ tokens[n] = NoToken /\ tokens'[n].state = "live"
               /\ \A m \in Tokens \ {n} : tokens'[m] = tokens[m]
  <2> DEFINE n == Fresh(tokens, NoToken)
  <2>1. SaveToken(t)
    BY <1>3 DEF At, CallStep, Find, FindGoogle, FindEmail, VerifyPassword, Upload, Save, Count,
       SaveCode, Publish, FindCode, MarkUsed, FindToken, Revoke, SaveToken
  <2>2. n \in Tokens /\ tokens[n] = NoToken
    BY <1>1, <2>1 DEF SaveToken, Fresh, Unused
  <2> QED BY <1>1, <2>1, <2>2 DEF SaveToken
<1>4. ASSUME NEW n \in Tokens, tokens[n].state = "live"
      PROVE  tokens'[n].state = "live" \/ (CallStep(t) /\ At(t, "revoke") /\ n = call[t].token)
  <2>1. tokens[n] # NoToken
    BY <1>4 DEF NoToken
  <2>2. CASE CallStep(t) /\ At(t, "token")
    BY <1>3, <1>4, <2>1, <2>2
  <2>3. CASE CallStep(t) /\ ~At(t, "token")
    BY <1>1, <1>4, <2>3, TokensMove DEF Token
  <2>4. CASE UNCHANGED tokens
    BY <1>4, <2>4
  <2> QED BY <1>2, <2>2, <2>3, <2>4
<1> QED BY <1>3, <1>4

\* A token is revoked on the way: it will be replaced, or is given up.
LEMMA CookieSpent ==
  ASSUME PortalSound, InUse, NEW t \in Calls, Serve(t), asked[t].what # "none",
         asked[t].presented = cookie, cookie # None,
         \/ asked[t].what = "refresh" /\ call[t].pc \in {"find", "token"}
         \/ CallStep(t) /\ At(t, "revoke") /\ tokens' # tokens
  PROVE  CookieKept'
<1>1. /\ Known /\ Types /\ TokensInv /\ asked \in [Calls -> Question] /\ cookie' = cookie
  BY ServiceTells DEF PortalSound, AccountSound, Known, BrowserInv
<1>2. /\ call[t].pc # "idle" /\ asked'[t].what = asked[t].what
      /\ asked'[t].presented = asked[t].presented
      /\ call[t].kind = asked[t].what
  BY ServiceMinded DEF InUse, Minded
<1>3. Spent(t)
  BY DEF Spent
<1>4. asked[t] # Unasked
  BY DEF Unasked
<1>5. CASE Tells(t, "error")
  <2>1. cookie' \in abandoned'
    BY <1>1, <1>3, <1>5, AnswerTold
  <2> QED BY <2>1 DEF CookieKept
<1>6. CASE CallStep(t) /\ Tells(t, Told(t))
  <2>1. SUFFICES Replaces(t)'
    BY <1>1, <1>2 DEF CookieKept
  <2>2. CASE asked[t].what = "refresh" /\ At(t, "token")
    <3>1. Told(t) = "ok"
      BY <1>1, <1>6, <2>2, LastSteps DEF Told
    <3>2. Fresh(tokens, NoToken) # None
      BY <1>6, <2>2, ServiceTokens, AccountsAssumption
    <3>3. asked'[t].token # None
      BY <1>1, <1>6, <2>2, <3>1, <3>2, AnswerTold
    <3> QED BY <1>2, <2>2, <3>3 DEF Replaces
  <2>3. CASE asked[t].what = "refresh" /\ call[t].pc \in {"revoke", "find"}
    <3>1. call'[t].pc \in {"find", "token"}
      BY <1>1, <1>2, <1>6, <2>3, RefreshMoves
    <3> QED BY <1>2, <2>3, <3>1 DEF Replaces
  <2>4. CASE At(t, "revoke") /\ asked[t].what = "logout"
    <3>1. Told(t) = "ok"
      BY <1>1, <1>2, <1>6, <2>4, LastSteps DEF Told
    <3> QED BY <1>1, <1>2, <1>6, <2>4, <3>1, AnswerTold DEF Replaces
  <2>5. At(t, "revoke") => asked[t].what \in {"refresh", "logout"}
    BY <1>1, <1>2, HoldingKinds DEF At, Rotating
  <2> QED BY <2>2, <2>3, <2>4, <2>5 DEF At
<1>7. ~(Fail(t) /\ asked[t].what = "logout")
  <2>1. ASSUME Fail(t) PROVE tokens' = tokens
    BY <1>1, <2>1, Failing
  <2> QED BY <2>1
<1> QED BY <1>1, <1>4, <1>5, <1>6, <1>7, ServiceTells

LEMMA CookieServed ==
  ASSUME PortalSound, InUse, NEW t \in Calls, Serve(t)
  PROVE  InUse'
<1> DEFINE F == Fresh(tokens, NoToken)
<1>1. /\ Known /\ TokensInv /\ Types /\ tokens \in [Tokens -> Token]
      /\ asked \in [Calls -> Question] /\ asked[t] \in Question
      /\ cookie # None => cookie \in Tokens /\ tokens[cookie] # NoToken
      /\ \A s \in Calls : asked[s].token # None =>
           asked[s].token \in Tokens /\ tokens[asked[s].token] # NoToken
      /\ \A s \in Calls : call[s].token # None =>
           call[s].token \in Tokens /\ tokens[call[s].token] # NoToken
  BY DEF PortalSound, AccountSound, Known, Types, BrowserInv, Question, TokensInv, CallState
<1>2. UNCHANGED << cookie, group >>
  BY <1>1, ServiceTells
<1>3. /\ call[t].pc # "idle" /\ asked[t].answer = "none" /\ asked[t].token = None
      /\ call'[t].pc = "idle" \/ (call'[t].kind = call[t].kind /\ call'[t].token = call[t].token)
      /\ \A s \in Calls \ {t} : call'[s] = call[s] /\ asked'[s] = asked[s]
      /\ asked'[t].what = asked[t].what /\ asked'[t].presented = asked[t].presented
      /\ asked'[t].answer # "none" \/ asked'[t].token # None => call'[t].pc = "idle"
      /\ asked'[t].token # None => CallStep(t) /\ At(t, "token") /\ asked'[t].token = F
      /\ abandoned \subseteq abandoned'
  BY ServiceMinded
<1>4. CallStep(t) /\ At(t, "token") =>
        F \in Tokens /\ tokens[F] = NoToken /\ tokens'[F].state = "live"
  BY ServiceTokens
<1> HIDE DEF F
<1>5. ASSUME NEW n \in Tokens, tokens[n].state = "live"
      PROVE  tokens'[n].state = "live" \/ (CallStep(t) /\ At(t, "revoke") /\ n = call[t].token)
  BY <1>5, ServiceTokens
<1>6. ASSUME NEW s \in Calls PROVE Minded(s)' /\ Unheard(s)'
  <2>1. Minded(s)'
    <3>1. CASE s = t
      BY <1>3, <3>1 DEF InUse, Minded
    <3>2. CASE s # t
      BY <1>3, <3>2 DEF InUse, Minded
    <3> QED BY <3>1, <3>2
  <2>2. ASSUME NEW u \in Calls, call'[u].pc # "idle"
        PROVE  call[u].pc # "idle" /\ call'[u].token = call[u].token
    BY <1>3, <2>2
  <2>3. CASE s = t /\ asked'[t].token # None
    <3>1. /\ asked'[s].token = F /\ F # cookie /\ F \in Tokens /\ tokens[F] = NoToken
          /\ tokens'[F].state = "live"
      BY <1>1, <1>3, <1>4, <2>3, AccountsAssumption
    <3>2. ASSUME NEW u \in Calls
          PROVE  /\ call'[u].pc # "idle" => call'[u].token # F
                 /\ u # s => asked'[u].token # F
      BY <1>1, <1>3, <2>2, <2>3, <3>1, AccountsAssumption
    <3> QED BY <1>2, <2>1, <3>1, <3>2 DEF Unheard
  <2>4. CASE s = t /\ asked'[t].token = None
    BY <2>1, <2>4 DEF Unheard
  <2>5. CASE s # t
    <3>1. asked'[s].token = asked[s].token
      BY <1>3, <2>5
    <3>2. ASSUME asked[s].token # None
          PROVE  /\ tokens'[asked[s].token].state = "live" /\ asked[s].token # cookie
                 /\ asked[s].token \in Tokens /\ tokens[asked[s].token] # NoToken
      BY <1>1, <1>3, <1>5, <3>2 DEF InUse, Unheard
    <3>3. ASSUME asked[s].token # None, NEW u \in Calls
          PROVE  /\ call'[u].pc # "idle" => call'[u].token # asked[s].token
                 /\ u # s => asked'[u].token # asked[s].token
      BY <1>3, <1>4, <2>2, <3>2, <3>3 DEF InUse, Unheard
    <3> QED BY <1>2, <2>1, <3>1, <3>2, <3>3 DEF Unheard
  <2> QED BY <2>1, <2>3, <2>4, <2>5 DEF Unheard
<1>7. ASSUME NEW s \in Calls, cookie # None, asked[s].presented = cookie, Replaces(s)
      PROVE  CookieKept'
  <2>1. CASE s # t
    <3>1. Replaces(s)' /\ asked'[s].presented = cookie'
      BY <1>2, <1>3, <1>7, <2>1 DEF Replaces
    <3> QED BY <3>1 DEF CookieKept
  <2>2. CASE s = t
    <3>1. asked[t].what = "refresh" /\ call[t].pc \in {"find", "token"}
      BY <1>3, <1>7, <2>2 DEF Replaces
    <3> QED BY <1>7, <2>2, <3>1, CookieSpent
  <2> QED BY <2>1, <2>2
<1>8. ASSUME cookie # None, tokens[cookie].state = "live"
      PROVE  CookieKept'
  <2>1. CASE tokens'[cookie].state = "live"
    BY <1>2, <2>1 DEF CookieKept
  <2>2. CASE tokens'[cookie].state # "live"
    <3>1. /\ CallStep(t) /\ At(t, "revoke") /\ cookie = call[t].token /\ tokens' # tokens
      BY <1>1, <1>5, <1>8, <2>2
    <3>2. call[t].kind \in Rotating
      BY <1>1, <3>1, HoldingKinds DEF At
    <3>3. CASE asked[t].what = "none"
      BY <1>2, <1>3, <3>1, <3>2, <3>3 DEF InUse, Minded, CookieKept
    <3>4. CASE asked[t].what # "none"
      <4>1. asked[t].presented = cookie
        BY <1>3, <3>1, <3>4 DEF InUse, Minded
      <4> QED BY <1>8, <3>1, <3>4, <4>1, CookieSpent
    <3> QED BY <3>3, <3>4
  <2> QED BY <2>1, <2>2
<1>9. CookieKept'
  <2>1. CASE cookie = None \/ cookie \in abandoned
    BY <1>2, <1>3, <2>1 DEF CookieKept
  <2> QED BY <1>7, <1>8, <2>1 DEF InUse, CookieKept
<1> QED BY <1>2, <1>6, <1>9 DEF InUse

\* The pages' requests, and everybody else's.
LEMMA CookieAskedFor ==
  ASSUME PortalSound, InUse, NEW w \in Windows, PageRequest(w)
  PROVE  InUse'
<1>1. UNCHANGED << tokens, group, cookie, abandoned >>
  BY DEF PageRequest, SignOut, HandleLogin, HandleRegister, Callback, Refresh, VerifyEmail,
     RequestCode, VerifyCode, SetPassword, SubmitIdentity, Submit, InService, history
<1>2. ASSUME UNCHANGED << call, asked >> PROVE InUse'
  BY <1>1, <1>2, CookieSame
<1>3. ASSUME NEW kind, NEW r, Presents(kind, r), Sends(w, kind, r),
             kind \in Rotating => r.token = cookie
      PROVE  InUse'
  BY <1>1, <1>3, CookieAsks
<1>4. cookie # None => cookie \in Tokens /\ tokens[cookie] # NoToken
  BY DEF PortalSound, BrowserInv
<1>5. CASE SignOut(w) \/ Refresh(w)
  <2>1. ASSUME cookie # None, NEW kind \in Rotating
        PROVE  /\ Presents(kind, [Idle EXCEPT !.pc = "findToken", !.token = cookie])
               /\ [Idle EXCEPT !.pc = "findToken", !.token = cookie].token = cookie
    BY <1>4, <2>1 DEF Presents, Idle
  <2> QED BY <1>2, <1>3, <1>5, <2>1 DEF SignOut, Refresh, Rotating
<1>6. CASE HandleLogin(w) \/ HandleRegister(w) \/ Callback(w)
  BY <1>2, <1>3, <1>6 DEF HandleLogin, HandleRegister, Callback, Submit, Presents, Rotating
<1>7. CASE VerifyEmail(w) \/ VerifyCode(w)
  <2>1. ASSUME NEW kind \in Confirming, NEW k \in Codes
        PROVE  Presents(kind, [Idle EXCEPT !.pc = "find", !.code = k]) /\ kind \notin Rotating
    BY DEF Presents, Confirming, Rotating
  <2> QED BY <1>2, <1>3, <1>7, <2>1
          DEF VerifyEmail, VerifyCode, Submit, SubmitAuthorized, SendsAuthorized, Confirming
<1>8. CASE RequestCode(w) \/ SetPassword(w) \/ SubmitIdentity(w)
  BY <1>2, <1>3, <1>8 DEF RequestCode, SetPassword, SubmitIdentity,
     SubmitAuthorized, SendsAuthorized, Presents, Rotating
<1> QED BY <1>5, <1>6, <1>7, <1>8 DEF PageRequest

LEMMA CookieElsewhere ==
  ASSUME PortalSound, InUse, NEW t \in Calls, Others(t)
  PROVE  InUse'
<1>1. /\ UNCHANGED << tokens, group, asked, cookie, abandoned >> /\ asked[t] = Unasked
      /\ Request(t) /\ At(t, "idle")
  BY DEF Others, Request, browserVars, history
<1>2. PICK kind, e : Asks(t, kind, e) /\ Presents(kind, e)
  BY <1>1, RequestAsks
<1> DEFINE r == [e EXCEPT !.kind = kind]
<1>3. r \in CallState /\ CallInv(r) /\ Goes(t, r) /\ r.kind = kind /\ kind \in group
  <2>1. r \in CallState /\ CallInv(r)
    BY <1>2, Presented, EntranceType
  <2>2. r.kind = kind
    BY <1>2 DEF Presents, Idle
  <2> QED BY <1>2, <2>1, <2>2 DEF Asks
<1> HIDE DEF r
<1>4. /\ call'[t] = r /\ \A s \in Calls \ {t} : call'[s] = call[s]
  BY <1>3, OneGoes DEF PortalSound, AccountSound
<1>5. r.kind \notin Rotating
  BY <1>3 DEF InUse
<1>6. r.token = None
  BY <1>3, <1>5 DEF CallInv
<1>7. ASSUME NEW s \in Calls PROVE Minded(s)' /\ Unheard(s)'
  <2>1. Minded(s)'
    BY <1>1, <1>4, <1>5 DEF InUse, Minded, Unasked
  <2>2. Unheard(s)'
    BY <1>1, <1>4, <1>6 DEF InUse, Unheard
  <2> QED BY <2>1, <2>2
<1>8. CookieKept'
  <2>1. asked[t].token = None /\ asked[t].what = "none"
    BY <1>1 DEF Unasked
  <2> QED BY <1>1, <1>4, <2>1 DEF InUse, CookieKept, Replaces
<1> QED BY <1>1, <1>7, <1>8 DEF InUse

LEMMA CookieStays ==
  ASSUME PortalSound, CookieInv, [PortalNext]_allVars
  PROVE  CookieInv'
<1>1. CASE Unopened
  BY <1>1, StaysUnopened DEF CookieInv
<1>2. CASE ~Unopened
  <2>1. InUse
    BY <1>2 DEF CookieInv
  <2>2. InUse'
    <3>1. ASSUME NEW w \in Windows, WindowStep(w) PROVE InUse'
      <4>1. CASE \/ Follow(w) \/ OpenGoogle(w) \/ RefreshRefused(w) \/ EmailVerified(w)
                 \/ PhoneAside(w) \/ ReadSettings(w) \/ Poll(w) \/ AuthoriseCard(w)
                 \/ CardStep(w) \/ CardSaved(w) \/ Bid(w)
        <5>1. UNCHANGED << group, call, tokens, asked, cookie, abandoned >>
          BY <4>1 DEF Follow, OpenGoogle, RefreshRefused, EmailVerified, PhoneAside,
             ReadSettings, Poll, AuthoriseCard, CardStep, CardSaved, Bid, PlaceBid,
             CheckCard, BidArrives, CloseDialog, vars, browserVars, history
        <5> QED BY <2>1, <5>1, CookieSame
      <4>2. CASE Load(w)
        BY <2>1, <4>2, CookieGivenUp
      <4>3. CASE Hear(w)
        BY <2>1, <4>3, CookieHears
      <4>4. CASE PageRequest(w)
        BY <2>1, <4>4, CookieAskedFor
      <4> QED BY <3>1, <4>1, <4>2, <4>3, <4>4 DEF WindowStep, SignIn, Verify, PageRequest
    <3>2. ASSUME NEW t \in Calls, Others(t) PROVE InUse'
      BY <2>1, <3>2, CookieElsewhere
    <3>3. ASSUME NEW t \in Calls, Serve(t) PROVE InUse'
      BY <2>1, <3>3, CookieServed
    <3>4. CASE TimePasses \/ UNCHANGED allVars
      BY <2>1, <3>4, CookieSame DEF TimePasses, Tick, Pass, allVars, vars, browserVars, history
    <3> QED BY <3>1, <3>2, <3>3, <3>4 DEF PortalNext
  <2> QED BY <2>2 DEF CookieInv
<1> QED BY <1>1, <1>2

LEMMA CookieBegins ==
  ASSUME PortalInit
  PROVE  CookieInv
<1>1. PICK someone : Start(someone)
  BY DEF PortalInit
<1>2. /\ group \in Groups /\ call = [t \in Calls |-> Idle] /\ asked = [t \in Calls |-> Unasked]
      /\ \A w \in Windows : setup[w].pc = "idle"
  BY <1>1 DEF Start, PortalInit, CardsInit, NoSetup
<1>3. CASE group \cap Pages = {}
  <2>1. cookie = None /\ tab \in First(NoClaims, None)
    BY <1>3 DEF PortalInit
  <2>2. tab = [w \in Windows |-> Away]
    BY <1>3, <2>1 DEF First
  <2> QED BY <1>2, <2>1, <2>2 DEF CookieInv, Unopened
<1>4. CASE group \cap Pages # {}
  <2>1. group \cap Rotating = {}
    BY <1>2, <1>4, CookieAssumption DEF Rotating
  <2>2. \A t \in Calls : Minded(t) /\ Unheard(t)
    BY <1>2 DEF Minded, Unheard, Unasked, Idle
  <2>3. cookie = None \/ tokens[cookie].state = "live"
    <3>1. CASE cookie = None
      BY <3>1
    <3>2. CASE /\ cookie = (CHOOSE k \in Tokens : TRUE)
               /\ tokens = [k \in Tokens |-> IF k = cookie THEN [state |-> "live", login |-> k]
                                             ELSE NoToken]
      BY <3>2, PortalAssumption
    <3> QED BY <3>1, <3>2 DEF PortalInit
  <2> QED BY <2>1, <2>2, <2>3 DEF CookieInv, InUse, CookieKept
<1> QED BY <1>3, <1>4

\* What the browser keeps is live, or about to be replaced by the answer to a
\* call under way, or given up: by a page load, or by a call that had revoked it
\* and then failed, or whose answer was lost.
THEOREM CookieAlwaysKept == PortalSpec => []CookieInv
<1>1. PortalInit => CookieInv
  BY CookieBegins
<1>2. PortalSound /\ CookieInv /\ [PortalNext]_allVars => CookieInv'
  BY CookieStays
<1> QED BY <1>1, <1>2, PortalAlwaysSound, PTL DEF PortalSpec

\* While no refresh and no sign-out is under way the cookie names a live token,
\* whichever window was answered last, unless a page load or a failure after the
\* token was revoked gave it up.
THEOREM AlwaysCookieLive == PortalSpec => []CookieLive
<1>1. CookieInv => CookieLive
  BY DEF CookieInv, Unopened, InUse, CookieKept, CookieLive, Replaces
<1> QED BY <1>1, CookieAlwaysKept, PTL
=============================================================================
