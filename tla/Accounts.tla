------------------------------ MODULE Accounts ------------------------------
(***************************************************************************)
(* apps/user-auth: one person's account, the codes mailed or texted to     *)
(* them and their refresh tokens.                                          *)
(*                                                                         *)
(* A use case reads the user, awaits, and saves the whole row but for the  *)
(* email address, which never changes.  A step is one await and the code   *)
(* after it; calls interleave between their awaits.                        *)
(***************************************************************************)
EXTENDS Integers, FiniteSets

CONSTANTS
  Calls,         \* the HTTP calls that can be under way at one time
  Codes,         \* bound: the verification codes ever made
  Tokens,        \* bound: the refresh tokens ever issued
  None,
  Groups,        \* bound: the sets of calls of which a behaviour makes one
  MaxAttempts,   \* MAX_ATTEMPTS
  Lockout,       \* LOCKOUT_MS
  CodeTtl,       \* OTP_TTL_MS, EMAIL_TOKEN_TTL_MS
  MaxTime        \* bound: the clock stops here

VARIABLES
  user,      \* the row of users with the person's address, which is unique
  codes,     \* the table verification_tokens
  tokens,    \* the table refresh_tokens
  call,      \* what each call is doing, with its locals
  forked,    \* history: logins one token of which two calls held at a time
  group,     \* which calls this behaviour makes
  now        \* the clock

vars == << user, codes, tokens, call, forked, group, now >>

-----------------------------------------------------------------------------
(***************************************************************************)
(* The user.  Country and document are data; `phone', `google' and         *)
(* `password' say whether there is one.                                    *)
(***************************************************************************)
UserStatus == {"REGISTERED", "EMAIL_VERIFIED", "PHONE_VERIFIED",
               "PENDING_REVIEW", "APPROVED_BIDDER", "SUSPENDED"}

User == [status : UserStatus \cup {"ABSENT"}, phone : BOOLEAN,
         google : BOOLEAN, password : BOOLEAN]

NoUser == [status |-> "ABSENT", phone |-> FALSE, google |-> FALSE,
           password |-> FALSE]

Create           == [NoUser EXCEPT !.status = "REGISTERED", !.password = TRUE]
CreateFromGoogle == [NoUser EXCEPT !.status = "EMAIL_VERIFIED", !.google = TRUE]

\* Fault: a suspended user may be approved.
MayApprove_Suspended(u) == u.status # "APPROVED_BIDDER"

MayApprove(u) == u.status \notin {"SUSPENDED", "APPROVED_BIDDER"}

\* The conditions under which the entity does not throw.
May(kind, u) ==
  CASE kind = "suspend"     -> u.status # "SUSPENDED"
    [] kind = "reinstate"   -> u.status = "SUSPENDED"
    [] kind = "approve"     -> MayApprove(u)
    [] kind = "verifyEmail" -> u.status = "REGISTERED"
    [] kind = "requestCode" -> u.status # "REGISTERED"
    [] kind = "verifyPhone" -> u.phone
    [] kind = "identity"    -> u.status # "REGISTERED"
    [] kind = "setPassword" -> ~u.password
    [] kind = "google"      -> u = NoUser \/ ~u.google
    [] OTHER                -> TRUE

\* verifyPhone and submitIdentityDocument take any status but the one above.
Changed(kind, u) ==
  CASE kind = "suspend"     -> [u EXCEPT !.status = "SUSPENDED"]
    [] kind \in {"reinstate", "approve"}
                            -> [u EXCEPT !.status = "APPROVED_BIDDER"]
    [] kind = "verifyEmail" -> [u EXCEPT !.status = "EMAIL_VERIFIED"]
    [] kind = "requestCode" -> [u EXCEPT !.phone = TRUE]
    [] kind = "verifyPhone" -> [u EXCEPT !.status = "PHONE_VERIFIED"]
    [] kind = "identity"    -> [u EXCEPT !.status = "PENDING_REVIEW"]
    [] kind = "setPassword" -> [u EXCEPT !.password = TRUE]
    [] kind = "update"      -> u
    [] kind = "register"    -> Create
    [] kind = "google"      -> IF u = NoUser THEN CreateFromGoogle
                               ELSE [u EXCEPT !.google = TRUE]

-----------------------------------------------------------------------------
(***************************************************************************)
(* The use cases: what each awaits, in order.  `register' is the admin's   *)
(* creation of a user too, `update' both profile changes.                  *)
(***************************************************************************)
RegisterFlow    == [findEmail |-> "save", save |-> "code", code |-> "publish",
                    publish |-> "done"]
VerifyFlow      == [find |-> "findCode", findCode |-> "save", save |-> "use",
                    use |-> "done"]
RequestCodeFlow == [find |-> "count", count |-> "save", save |-> "code",
                    code |-> "publish", publish |-> "done"]
ChangeFlow      == [find |-> "save", save |-> "done"]
IdentityFlow    == [find |-> "upload", upload |-> "save", save |-> "done"]
GoogleFlow      == [findGoogle |-> "findEmail", findEmail |-> "save",
                    save |-> "token", token |-> "done"]
LoginFlow       == [findEmail |-> "verify", verify |-> "token", token |-> "done"]
RefreshFlow     == [findToken |-> "revoke", revoke |-> "find", find |-> "token",
                    token |-> "done"]
LogoutFlow      == [findToken |-> "revoke", revoke |-> "done"]

Flow(kind) ==
  CASE kind = "register"                     -> RegisterFlow
    [] kind \in {"verifyEmail", "verifyPhone"} -> VerifyFlow
    [] kind = "requestCode"                  -> RequestCodeFlow
    [] kind = "identity"                     -> IdentityFlow
    [] kind = "google"                       -> GoogleFlow
    [] kind = "login"                        -> LoginFlow
    [] kind = "refresh"                      -> RefreshFlow
    [] kind = "logout"                       -> LogoutFlow
    [] OTHER                                 -> ChangeFlow

Kinds == {"register", "google", "login", "refresh", "logout", "verifyEmail",
          "verifyPhone", "requestCode", "identity", "setPassword", "update",
          "suspend", "reinstate", "approve"}

ASSUME AccountsAssumption ==
  /\ None \notin Codes \cup Tokens
  /\ Groups \subseteq SUBSET STRING
  /\ IsFiniteSet(Calls)
  /\ MaxAttempts \in Nat \ {0} /\ {Lockout, CodeTtl, MaxTime} \subseteq Nat

Idle == [kind |-> "none", pc |-> "idle", seen |-> NoUser,
         code |-> None, token |-> None]

NoCode  == [type |-> "none", used |-> FALSE, expires |-> 0]
NoToken == [state |-> "none", login |-> None]

Goes(t, r) == call' = [call EXCEPT ![t] = r]

\* The use case returns or throws, and the router answers.
Answer(t) == Goes(t, Idle)

After(t) == Flow(call[t].kind)[call[t].pc]

\* The call goes on after its current await, with locals r.
Proceed(t, r) ==
  Goes(t, IF After(t) = "done" THEN Idle ELSE [r EXCEPT !.pc = After(t)])

Onward(t) == Proceed(t, call[t])

\* uuidv4(): which of the unused ids it draws makes no difference.
Unused(table, none) == {k \in DOMAIN table : table[k] = none}
Fresh(table, none)  == CHOOSE k \in Unused(table, none) : TRUE

At(t, pc) == call[t].pc = pc

-----------------------------------------------------------------------------
(***************************************************************************)
(* The routes, with what they let through.                                 *)
(***************************************************************************)
\* Only the calls of the behaviour's group are made.
Asks(t, kind, r) == kind \in group /\ Goes(t, [r EXCEPT !.kind = kind])

\* With a valid access token: the person themselves, or an admin.
ForUser(t, kind) ==
  user # NoUser /\ Asks(t, kind, [Idle EXCEPT !.pc = "find"])

\* With a code that was made for somebody.
WithCode(t, kind) ==
  \E k \in Codes :
    codes[k] # NoCode /\ Asks(t, kind, [Idle EXCEPT !.pc = "find", !.code = k])

\* With a cookie the browser was given, which need not be the last one.
WithCookie(t, kind) ==
  \E k \in Tokens :
    /\ tokens[k] # NoToken
    /\ Asks(t, kind, [Idle EXCEPT !.pc = "findToken", !.token = k])

RegisterRoute(t)    == Asks(t, "register", [Idle EXCEPT !.pc = "findEmail"])
\* An admin makes the account: the role and the password are data.
CreateUserRoute(t)  == Asks(t, "register", [Idle EXCEPT !.pc = "findEmail"])
LoginRoute(t)       == Asks(t, "login", [Idle EXCEPT !.pc = "findEmail"])
GoogleRoute(t)      == Asks(t, "google", [Idle EXCEPT !.pc = "findGoogle"])
RefreshRoute(t)     == WithCookie(t, "refresh")
LogoutRoute(t)      == WithCookie(t, "logout")
VerifyEmailRoute(t) == WithCode(t, "verifyEmail")
VerifyPhoneRoute(t) == WithCode(t, "verifyPhone")
RequestCodeRoute(t) == ForUser(t, "requestCode")
PasswordRoute(t)    == ForUser(t, "setPassword")
IdentityRoute(t)    == ForUser(t, "identity")
UpdateRoute(t)      == ForUser(t, "update")

AdminRoute(t) ==
  \E kind \in {"suspend", "reinstate", "approve"} : ForUser(t, kind)

Request(t) ==
  /\ At(t, "idle")
  /\ \/ RegisterRoute(t)    \/ CreateUserRoute(t)
     \/ LoginRoute(t)       \/ GoogleRoute(t)
     \/ RefreshRoute(t)     \/ LogoutRoute(t)      \/ VerifyEmailRoute(t)
     \/ VerifyPhoneRoute(t) \/ RequestCodeRoute(t) \/ PasswordRoute(t)
     \/ IdentityRoute(t)    \/ UpdateRoute(t)      \/ AdminRoute(t)
  /\ UNCHANGED << user, codes, tokens, forked, group, now >>

-----------------------------------------------------------------------------
(***************************************************************************)
(* The user's row.                                                         *)
(***************************************************************************)
\* The entity's check is made here, on the row that was read; the code makes
\* it some awaits later, with nothing but an object in R2 written before.
Reads(t) ==
  IF May(call[t].kind, user) THEN Proceed(t, [call[t] EXCEPT !.seen = user])
  ELSE Answer(t)

Find(t) ==
  /\ At(t, "find")
  /\ Reads(t)
  /\ UNCHANGED << user, codes, tokens, forked, group, now >>

\* A known Google account needs no linking.
FindGoogle(t) ==
  /\ At(t, "findGoogle")
  /\ Goes(t, [call[t] EXCEPT !.pc = IF user.google THEN "token" ELSE "findEmail"])
  /\ UNCHANGED << user, codes, tokens, forked, group, now >>

\* Is the address taken; is there a password?
FindEmail(t) ==
  /\ At(t, "findEmail")
  /\ CASE call[t].kind = "register" -> IF user = NoUser THEN Onward(t) ELSE Answer(t)
       [] call[t].kind = "login"    -> IF user.password THEN Reads(t) ELSE Answer(t)
       [] call[t].kind = "google"   -> Reads(t)
  /\ UNCHANGED << user, codes, tokens, forked, group, now >>

\* Is the password this one?  The access token is signed after the hash, with
\* the status that was read before it.
VerifyPassword(t) ==
  /\ At(t, "verify")
  /\ Proceed(t, [call[t] EXCEPT !.seen = NoUser]) \/ Answer(t)
  /\ UNCHANGED << user, codes, tokens, forked, group, now >>

\* R2 takes the document or throws.
Upload(t) ==
  /\ At(t, "upload")
  /\ Onward(t) \/ Answer(t)
  /\ UNCHANGED << user, codes, tokens, forked, group, now >>

\* An INSERT fails on the unique address; an UPDATE writes the row as it was
\* read, changed, whatever it has become.
Save(t) ==
  /\ At(t, "save")
  /\ IF call[t].seen = NoUser /\ user # NoUser
     THEN Answer(t) /\ UNCHANGED user
     ELSE /\ user' = Changed(call[t].kind, call[t].seen)
          /\ Proceed(t, [call[t] EXCEPT !.seen = NoUser])
  /\ UNCHANGED << codes, tokens, forked, group, now >>

-----------------------------------------------------------------------------
(***************************************************************************)
(* Verification codes.                                                     *)
(***************************************************************************)
TypeOf(kind) == IF kind \in {"register", "verifyEmail"} THEN "EMAIL" ELSE "PHONE"

\* The expiry, not the making, is compared with the start of the window.
Recent == {k \in Codes : /\ codes[k].type = "PHONE"
                         /\ codes[k].expires > now - Lockout}

\* Fault: one attempt more.
Admits_OneMore(attempts) == attempts <= MaxAttempts

Admits(attempts) == attempts < MaxAttempts

Count(t) ==
  /\ At(t, "count")
  /\ IF Admits(Cardinality(Recent)) THEN Onward(t) ELSE Answer(t)
  /\ UNCHANGED << user, codes, tokens, forked, group, now >>

SaveCode(t) ==
  /\ At(t, "code")
  /\ Unused(codes, NoCode) # {}
  /\ codes' = [codes EXCEPT ![Fresh(codes, NoCode)] =
                 [type |-> TypeOf(call[t].kind), used |-> FALSE,
                  expires |-> now + CodeTtl]]
  /\ Onward(t)
  /\ UNCHANGED << user, tokens, forked, group, now >>

\* The mail or text goes out, or publish throws; either way the call is over.
Publish(t) ==
  /\ At(t, "publish")
  /\ Onward(t)
  /\ UNCHANGED << user, codes, tokens, forked, group, now >>

Usable(k, kind) ==
  codes[k].type = TypeOf(kind) /\ ~codes[k].used /\ codes[k].expires >= now

FindCode(t) ==
  /\ At(t, "findCode")
  /\ IF Usable(call[t].code, call[t].kind) THEN Onward(t) ELSE Answer(t)
  /\ UNCHANGED << user, codes, tokens, forked, group, now >>

MarkUsed(t) ==
  /\ At(t, "use")
  /\ codes' = [codes EXCEPT ![call[t].code].used = TRUE]
  /\ Onward(t)
  /\ UNCHANGED << user, tokens, forked, group, now >>

-----------------------------------------------------------------------------
(***************************************************************************)
(* Refresh tokens.  `login' names the first token of a login; that they    *)
(* expire after 30 days is left out.                                       *)
(***************************************************************************)
\* Another call has found the same token and is about to revoke it.
Overlaps(t) ==
  \E s \in Calls \ {t} : At(s, "revoke") /\ call[s].token = call[t].token

\* Fault: that the token was revoked is not looked at.
IsLive_Any(k) == tokens[k] # NoToken

IsLive(k) == tokens[k].state = "live"

FindToken(t) ==
  /\ At(t, "findToken")
  /\ IF IsLive(call[t].token)
     THEN /\ Onward(t)
          /\ forked' = IF Overlaps(t) THEN forked \cup {tokens[call[t].token].login}
                       ELSE forked
     ELSE Answer(t) /\ UNCHANGED forked
  /\ UNCHANGED << user, codes, tokens, group, now >>

\* UPDATE ... WHERE id, revoked or not.
Revoke(t) ==
  /\ At(t, "revoke")
  /\ tokens' = [tokens EXCEPT ![call[t].token].state = "revoked"]
  /\ Onward(t)
  /\ UNCHANGED << user, codes, forked, group, now >>

\* The row of a new login, or of the one that is refreshed.
SaveToken(t) ==
  /\ At(t, "token")
  /\ Unused(tokens, NoToken) # {}
  /\ LET k == Fresh(tokens, NoToken)
     IN  tokens' = [tokens EXCEPT ![k] =
           [state |-> "live",
            login |-> IF call[t].token = None THEN k ELSE tokens[call[t].token].login]]
  /\ Onward(t)
  /\ UNCHANGED << user, codes, forked, group, now >>

Pass ==
  /\ now < MaxTime
  /\ now' = now + 1
  /\ UNCHANGED << user, codes, tokens, call, forked, group >>

\* Before the first code no date is compared with the clock.
Tick == codes # [k \in Codes |-> NoCode] /\ Pass

-----------------------------------------------------------------------------
Start(someone) ==
  /\ user = someone
  /\ codes = [k \in Codes |-> NoCode]
  /\ call = [t \in Calls |-> Idle]
  /\ forked = {}
  /\ group \in Groups
  /\ now = 0

SignedOut == tokens = [k \in Tokens |-> NoToken]

\* The person has no account yet, or one whose address was verified long ago.
Member == [Create EXCEPT !.status = "EMAIL_VERIFIED"]

Init == SignedOut /\ \E someone \in {NoUser, Member} : Start(someone)

CallStep(t) ==
  \/ Find(t) \/ FindGoogle(t) \/ FindEmail(t) \/ VerifyPassword(t) \/ Upload(t) \/ Save(t)
  \/ Count(t) \/ SaveCode(t) \/ Publish(t) \/ FindCode(t) \/ MarkUsed(t)
  \/ FindToken(t) \/ Revoke(t) \/ SaveToken(t)

\* A statement throws, or the process dies: what the call wrote before stays.
Fail(t) ==
  /\ ~At(t, "idle")
  /\ Answer(t)
  /\ UNCHANGED << user, codes, tokens, forked, group, now >>

Next ==
  \/ \E t \in Calls : Request(t) \/ CallStep(t) \/ Fail(t)
  \/ Tick

Spec == Init /\ [][Next]_vars
=============================================================================
