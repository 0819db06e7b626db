--------------------------- MODULE PortalProperties ---------------------------
(***************************************************************************)
(* What the services may rely on about a browser, and the person about     *)
(* both.                                                                   *)
(***************************************************************************)
EXTENDS Portal, AccountProperties

\* The claims travel in a token that nobody can call back, and a login signs
\* what it had read before it compared the password: a bid is let in only of
\* somebody who less than a token's life ago was an approved bidder, or was
\* signing in and had been read as one, whatever page it comes from and however
\* often the admin has changed his mind since.
BidderApproved ==
  [][\A w \in Windows :
       tab[w].doing = "bid" /\ tab'[w].step = "confirmed" => now < approvedAt + AccessTtl]_allVars

\* The browser keeps the one token that still works: while no refresh and no
\* sign-out is under way, the cookie names a live token, whichever of two
\* windows was answered last.  Only a call that had revoked the token and then
\* failed, or whose answer was lost, and a page load that drops one leave the
\* cookie behind with a token that works no more.
CookieLive ==
  (\A t \in Calls : asked[t].what \notin {"refresh", "logout"}) =>
     cookie = None \/ cookie \in abandoned \/ tokens[cookie].state = "live"

\* Stripe charges a card for the customer it was attached to, and no other: the
\* row names that one, unless two windows had both found no row to begin with.
CardOfCustomer ==
  profile.card = Nobody \/ profile.card = profile.customer \/ overlapped

-----------------------------------------------------------------------------
\* The inductive invariants behind them.

Claim == [status : UserStatus \cup {"ABSENT"}, expires : Nat]

Question == [tab : Windows \cup {Nobody}, what : Kinds \cup {"none"},
             presented : Tokens \cup {None}, answer : {"none", "ok", "error"},
             access : Claim, token : Tokens \cup {None}]

\* The browser presents no token but one that was issued.
BrowserInv ==
  /\ asked \in [Calls -> Question]
  /\ cookie \in Tokens \cup {None}
  /\ cookie # None => tokens[cookie] # NoToken
  /\ \A t \in Calls : asked[t].token # None => tokens[asked[t].token] # NoToken

SetupState ==
  [pc : {"idle", "stuck", "findProfile", "createCustomer", "saveCustomer",
         "createIntent", "confirmCard", "retrieveIntent", "findAgain", "saveCard",
         "saved"},
   customer : Customers \cup {Nobody}, intent : Customers \cup {Nobody}]

Profile == [customer : Customers \cup {Nobody}, card : Customers \cup {Nobody}]

\* Who has found no row, and will make a customer and save one.
MakesCustomer(w) == setup[w].pc \in {"createCustomer", "saveCustomer"}

\* Who has an intent for the customer of the row.
HasIntent(w) == setup[w].pc \in {"confirmCard", "retrieveIntent", "findAgain", "saveCard"}

SetupInv(w) ==
  /\ MakesCustomer(w) => /\ profile = NoProfile
                         /\ \A v \in Windows \ {w} : ~MakesCustomer(v)
  /\ setup[w].pc = "saveCustomer" => setup[w].customer # Nobody
  /\ setup[w].pc = "createIntent" => /\ profile.customer # Nobody
                                     /\ setup[w].customer = profile.customer
  /\ HasIntent(w) => /\ profile.customer # Nobody
                     /\ setup[w].intent = profile.customer
  /\ setup[w].pc = "saveCard" => setup[w].customer = profile.customer

\* Unless two windows had found no row at a time, the row is made once, and what
\* the windows know of its customer stays true.
CardInv ==
  /\ profile \in Profile /\ setup \in [Windows -> SetupState]
  /\ ~overlapped => /\ profile.card \in {Nobody, profile.customer}
                    /\ profile = NoProfile \/ profile.customer # Nobody
                    /\ \A w \in Windows : SetupInv(w)

PageSteps == {"none", "form", "registered", "loading", "success", "error", "phone", "otp",
              "locked", "has", "set", "account", "identity", "payment", "review",
              "approved", "confirmed"}

\* What a window shows, remembers and does.
TabState ==
  [page : Pages \cup {"away", "google"}, step : PageSteps, back : Pages, claims : Claim,
   doing : {"none", "refresh", "profile", "bid"}, seen : Claim, wrong : Nat]

\* An approved bidder's claims were signed when the person last was one, or before.
Standing(c) == c.status = "APPROVED_BIDDER" => c.expires <= approvedAt + AccessTtl

\* What a window may be: lots are shown, and claims looked after, in some groups.
Fits(r) ==
  /\ r \in TabState
  /\ "/lots" \in group => Standing(r.claims) /\ Standing(r.seen)
  /\ "/lots" \in {r.page, r.back} => "/lots" \in group
  /\ r.step = "confirmed" => r.doing = "none" /\ r.page = "/lots"
  /\ r.doing \in {"profile", "bid"} => r.page = "/lots"

\* The calls of which a window's page waits for the answer.
Asking(w) == {t \in Calls : asked[t].tab = w /\ asked[t].what # "logout"}

Occupied(r) == r.doing # "none" \/ r.step = "confirmed"

\* A page does one thing at a time; so no late answer tells of another bid.
WindowInv(w) ==
  /\ Fits(tab[w])
  /\ \A s, t \in Asking(w) : s = t
  /\ Occupied(tab[w]) => Asking(w) = {}

ApprovalInv ==
  /\ tab \in [Windows -> TabState]
  /\ \A w \in Windows : WindowInv(w)
  /\ approvedAt \in Int /\ approvedAt <= now
  /\ "/lots" \in group => /\ user.status = "APPROVED_BIDDER" => approvedAt = now
                          /\ \A t \in Calls : Compares(t) => approvedAt = now
                          /\ \A t \in Calls : Standing(asked[t].access)

\* A browser in which no page is ever opened.
Unopened ==
  /\ cookie = None /\ tab = [w \in Windows |-> Away]
  /\ asked = [t \in Calls |-> Unasked] /\ \A w \in Windows : setup[w].pc = "idle"

\* The answer will take the place of the token that was presented.
Replaces(t) ==
  \/ asked[t].what = "logout" /\ asked[t].answer = "ok"
  \/ /\ asked[t].what = "refresh"
     /\ call[t].pc \in {"find", "token"} \/ asked[t].token # None

\* A call works on the token that its page presented, or on one given up, until
\* it is answered.
Minded(t) ==
  /\ asked[t].answer # "none" \/ asked[t].token # None => call[t].pc = "idle"
  /\ call[t].pc # "idle" =>
       IF asked[t].what = "none" THEN call[t].kind \in Rotating => call[t].token \in abandoned
       ELSE call[t].kind = asked[t].what /\ call[t].token = asked[t].presented

\* A token on its way to the browser works, and nobody else has it.
Unheard(t) ==
  asked[t].token # None =>
    /\ tokens[asked[t].token].state = "live" /\ asked[t].token # cookie
    /\ \A s \in Calls : /\ call[s].pc # "idle" => call[s].token # asked[t].token
                        /\ s # t => asked[s].token # asked[t].token

\* The cookie names a live token, unless it was given up or will be replaced.
CookieKept ==
  \/ cookie = None \/ cookie \in abandoned \/ tokens[cookie].state = "live"
  \/ \E t \in Calls : asked[t].presented = cookie /\ Replaces(t)

InUse ==
  /\ group \cap Rotating = {}
  /\ \A t \in Calls : Minded(t) /\ Unheard(t)
  /\ CookieKept

CookieInv == Unopened \/ InUse
=============================================================================
