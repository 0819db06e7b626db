-------------------------- MODULE AccountProperties --------------------------
(***************************************************************************)
(* What a person, and the admin who suspends one, may rely on.             *)
(***************************************************************************)
EXTENDS Accounts

\* What a person has acquired: it is given up by no call.
Settings == {"phone", "google", "password"}

Lost == \E s \in Settings : user[s] /\ ~user'[s]

Freed == user.status = "SUSPENDED" /\ user'.status # "SUSPENDED"

\* The call that saves had read the user before somebody else's change.
WritesOld == \E t \in Calls : At(t, "save") /\ call[t].seen # user

\* The calls that set the status of a suspended user: the admin's own, and,
\* because the entity does not look, the proof of a phone or an identity.
Frees ==
  \E t \in Calls : /\ At(t, "save")
                   /\ call[t].kind \in {"reinstate", "verifyPhone", "identity"}

\* Every call writes the whole row, and yet a linked Google account, a phone, a
\* password or a suspension disappears only in the overlap of two calls, or
\* when the status is set again.
NothingLost ==
  [][(Lost => WritesOld) /\ (Freed => WritesOld \/ Frees)]_vars

\* "max 3 attempts": however the requests interleave, no more codes than that
\* are texted in a window, but for the calls that had counted already.
CodesBounded == Cardinality(Recent) < MaxAttempts + Cardinality(Calls)

\* The tokens with which a login can go on, and the calls about to issue one.
Sessions(k) ==
  {n \in Tokens : tokens[n].login = k /\ tokens[n].state = "live"}

Issuing(k) ==
  {t \in Calls : /\ call[t].kind = "refresh" /\ call[t].pc \in {"find", "token"}
                 /\ tokens[call[t].token].login = k}

\* A login is one token that rotates: an old one refreshes nothing, and after
\* logout there is none, unless two calls held the same token at a time.
OneSession ==
  \A k \in Tokens \ forked :
    Cardinality(Sessions(k)) + Cardinality(Issuing(k)) <= 1

-----------------------------------------------------------------------------
\* The inductive invariant behind them.

Code  == [type : {"none", "EMAIL", "PHONE"}, used : BOOLEAN, expires : Nat]
Token == [state : {"none", "live", "revoked"}, login : Tokens \cup {None}]

Steps == {"find", "findEmail", "findGoogle", "findToken", "findCode", "count",
          "verify", "upload", "save", "code", "publish", "use", "revoke", "token"}

CallState == [kind : Kinds \cup {"none"}, pc : Steps \cup {"idle"}, seen : User,
              code : Codes \cup {None}, token : Tokens \cup {None}]

Types ==
  /\ user \in User
  /\ codes \in [Codes -> Code]
  /\ tokens \in [Tokens -> Token]
  /\ call \in [Calls -> CallState]
  /\ now \in Nat

Confirming == {"verifyEmail", "verifyPhone"}
Rotating   == {"refresh", "logout"}

\* The conditions that the entity checked on the row that was read hold of it
\* until it is written; a new row is made of none.
CallInv(r) ==
  /\ r.pc # "idle" => r.kind \in Kinds /\ r.pc \in DOMAIN Flow(r.kind)
  /\ r.kind = "register" => r.seen = NoUser
  /\ r.kind # "register" /\ r.pc \in {"findCode", "count", "upload", "save"} =>
       May(r.kind, r.seen)
  /\ r.token # None <=> r.kind \in Rotating
  /\ r.kind \in Confirming => r.code # None

\* A call works on a token that exists, and a login on its first token.
TokensInv ==
  /\ \A t \in Calls : call[t].token # None => tokens[call[t].token] # NoToken
  /\ \A n \in Tokens : LET k == tokens[n].login IN
       tokens[n] # NoToken => k # None /\ tokens[k] # NoToken

\* Who holds a token of the login, about to revoke it.
Holding(k) == {t \in Calls : At(t, "revoke") /\ tokens[call[t].token].login = k}

\* A login goes on with one token or one call; who is about to revoke its token
\* is alone with it, and the token is live.
LoginInv(k) ==
  /\ \A m, n \in Sessions(k) : m = n
  /\ \A s, t \in Issuing(k) : s = t
  /\ Sessions(k) = {} \/ Issuing(k) = {}
  /\ \A t \in Holding(k) : call[t].token \in Sessions(k)
  /\ \A s, t \in Holding(k) : s = t

\* The calls that have been let through and have not made their code yet.
Counted ==
  {t \in Calls : call[t].kind = "requestCode" /\ call[t].pc \in {"save", "code"}}

RecentInv ==
  /\ IsFiniteSet(Recent)
  /\ Cardinality(Recent) + Cardinality(Counted) < MaxAttempts + Cardinality(Calls)

AccountSound ==
  /\ Types
  /\ \A t \in Calls : CallInv(call[t])
  /\ TokensInv
  /\ \A k \in Tokens \ forked : LoginInv(k)
  /\ RecentInv
=============================================================================
