-------------------------------- MODULE Portal --------------------------------
(***************************************************************************)
(* apps/user-portal: one person's browser, from signing in to a bid, with  *)
(* the services it calls.                                                  *)
(*                                                                         *)
(* A tab keeps the access token and its claims in memory only: a full page *)
(* load forgets them, and nothing but two pages asks for new ones.  The    *)
(* refresh token is a cookie of the whole browser.  A page runs one of its *)
(* handlers at a time; signing out does not wait for it.                   *)
(***************************************************************************)
EXTENDS Accounts, SavedCards

CONSTANTS
  AccessTtl,    \* ACCESS_TOKEN_TTL
  MaxWrong,     \* the wrong codes after which the page stops asking
  MaxMishaps,   \* bound: the pages loaded again, and the pages' calls that fail
  Crowded       \* bound: the groups in which two windows are open, not one

VARIABLES
  tab,          \* what each window shows, remembers and waits for
  cookie,       \* carat_refresh
  oauth,        \* carat_google_oauth_state: the window whose state it holds
  asked,        \* the pages' calls to user-auth, by the call that serves each
  mishaps,      \* how many pages were loaded again, and calls failed
  abandoned,    \* history: tokens given up by a page load, or by a failure after
                \* they were revoked, before the browser had another
  approvedAt    \* history: when the person last was an approved bidder, or a
                \* login that had read it so compared the password

history == << abandoned, approvedAt >>

browserVars == << tab, cookie, oauth, asked, mishaps, history >>

allVars == << vars, cardVars, browserVars >>

-----------------------------------------------------------------------------
\* A page's address stands for the page in `group', too.
Guarded == {"/dashboard", "/register-to-bid"}

Pages == Guarded \cup {"/login", "/oauth-complete", "/verify-email",
                       "/verify-phone", "/settings", "/lots"}

\* bound: the pages on which time passes by itself.
Aging == {"/register-to-bid", "/settings", "/lots"}

ASSUME PortalAssumption ==
  /\ {AccessTtl, MaxWrong} \subseteq Nat \ {0} /\ MaxMishaps \in Nat
  /\ Pages \cap Kinds = {} /\ Crowded \subseteq Groups /\ Tokens # {}

\* The cookie is HttpOnly: where pages are open, nobody else presents its token.
ASSUME CookieAssumption ==
  \A g \in Groups : g \cap Pages = {} \/ g \cap {"refresh", "logout"} = {}

NoClaims == [status |-> "ABSENT", expires |-> 0]

Away == [page |-> "away", step |-> "none", back |-> "/dashboard", claims |-> NoClaims,
         doing |-> "none", seen |-> NoClaims, wrong |-> 0]

Unasked == [tab |-> Nobody, what |-> "none", presented |-> None, answer |-> "none",
            access |-> NoClaims, token |-> None]

FirstStep(page, claims) ==
  CASE page = "/login"           -> "form"
    [] page = "/register-to-bid" -> IF claims = NoClaims THEN "account" ELSE "identity"
    [] page = "/verify-phone"    -> "phone"
    [] page \in {"/verify-email", "/settings"} -> "loading"
    [] OTHER                     -> "none"

\* proxy(): without the cookie the account's pages send one to sign in.
Opened(page, back, claims, crumb) ==
  LET turned == page \in Guarded /\ crumb = None
      shown  == IF turned THEN "/login" ELSE page
  IN  [Away EXCEPT !.page = shown, !.step = FirstStep(shown, claims),
                   !.back = IF turned THEN page ELSE back, !.claims = claims,
                   !.doing = IF page = "/oauth-complete" THEN "refresh" ELSE "none"]

\* A full page load; a change of page within the portal, which keeps memory.
Loaded(page, back)     == Opened(page, back, NoClaims, cookie)
Pushed(w, page, crumb) == Opened(page, "/dashboard", tab[w].claims, crumb)

Shows(w, page, step) == tab[w].page = page /\ tab[w].step = step

Becomes(w, r) == tab' = [tab EXCEPT ![w] = r]

Turns(w, step) == Becomes(w, [tab[w] EXCEPT !.step = step])

-----------------------------------------------------------------------------
(***************************************************************************)
(* authMiddleware, and the engine's gate on the route of bids.             *)
(***************************************************************************)
\* Fault: an expired token is as good as any.
Valid_Expired(claims) == claims # NoClaims

Valid(claims) == claims # NoClaims /\ claims.expires > now

MayBid(claims) == Valid(claims) /\ claims.status = "APPROVED_BIDDER"

-----------------------------------------------------------------------------
(***************************************************************************)
(* Calls to user-auth through the portal's own routes.                     *)
(***************************************************************************)
Waits(w) ==
  \E t \in Calls : asked[t].tab = w /\ asked[t].what # "logout"

Ready(w) ==
  ~Waits(w) /\ tab[w].doing = "none" /\ setup[w].pc = "idle"

\* The request of window w is served by call t, from where `r' starts.
Sends(w, kind, r) ==
  \E t \in Calls :
    /\ At(t, "idle") /\ asked[t] = Unasked
    /\ Goes(t, [r EXCEPT !.kind = kind])
    /\ asked' = [asked EXCEPT ![t] = [Unasked EXCEPT !.tab = w, !.what = kind,
                                                   !.presented = r.token]]

\* A request with the access token; with a bad one the page shows an error.
SendsAuthorized(w, kind, r) ==
  Valid(tab[w].claims) /\ user # NoUser /\ Sends(w, kind, r)

\* The token is about the user just read or saved, or read before the hash.
Signs(t) == call[t].pc # "token" /\ call'[t].pc = "token"

SignedStatus(t) == IF At(t, "verify") THEN call[t].seen.status ELSE user'.status

\* What the page hears of a call that came to its end, if it hears: whatever
\* user-auth says of a sign-out, the portal's route deletes the cookie.
Told(t) ==
  IF call'[t] # Idle THEN "none"
  ELSE IF After(t) = "done" \/ asked[t].what = "logout" THEN "ok" ELSE "error"

Served(t, answer) ==
  [asked[t] EXCEPT
     !.access = IF answer = "error" THEN NoClaims
                ELSE IF Signs(t) THEN [status |-> SignedStatus(t), expires |-> now + AccessTtl]
                ELSE @,
     !.token  = IF answer = "error" THEN None
                ELSE IF At(t, "token") THEN Fresh(tokens, NoToken) ELSE @,
     !.answer = answer]

\* The call had revoked the token that its page presented.
Spent(t) == call[t].pc \in {"find", "token"} \/ (At(t, "revoke") /\ tokens' # tokens)

Tells(t, answer) ==
  /\ asked' = [asked EXCEPT ![t] = Served(t, answer)]
  /\ abandoned' = IF answer = "error" /\ Spent(t)
                  THEN abandoned \cup ({asked[t].presented} \ {None}) ELSE abandoned

Mishap == mishaps < MaxMishaps /\ mishaps' = mishaps + 1

\* The answer is lost, or the call fails; of a sign-out that may go unnoticed.
Upset(t) ==
  /\ Mishap
  /\ \/ CallStep(t) /\ call'[t] = Idle /\ Tells(t, "error")
     \/ Fail(t) /\ Tells(t, "error")
     \/ /\ Fail(t) /\ asked[t].what = "logout"
        /\ asked' = [asked EXCEPT ![t].answer = "ok"] /\ UNCHANGED abandoned

\* A login that has read an approved bidder, and has yet to sign that.
Compares(t) == At(t, "verify") /\ call[t].seen.status = "APPROVED_BIDDER"

\* Kept up to date only where somebody may bid.
Approved ==
  approvedAt' = IF /\ "/lots" \in group
                   /\ user'.status = "APPROVED_BIDDER" \/ \E t \in Calls : Compares(t)'
                THEN now' ELSE approvedAt

\* A call goes on or fails; the answer to a page that asked is then on its way.
Serve(t) ==
  /\ IF asked[t] = Unasked
     THEN (CallStep(t) \/ Fail(t)) /\ UNCHANGED << asked, abandoned, mishaps >>
     ELSE (CallStep(t) /\ Tells(t, Told(t)) /\ UNCHANGED mishaps) \/ Upset(t)
  /\ Approved
  /\ UNCHANGED << cardVars, tab, cookie, oauth >>

\* Somebody else's calls: the admin's, or the person's from another browser.
Others(t) ==
  /\ asked[t] = Unasked
  /\ Request(t)
  /\ UNCHANGED << cardVars, browserVars >>

-----------------------------------------------------------------------------
(***************************************************************************)
(* Going from page to page.                                                *)
(***************************************************************************)
InService == << user, codes, tokens, forked, group, now >>

\* The answers on their way to a window that loads another page are dropped.
Dropped(w) == {t \in Calls : asked[t].tab = w}

\* An address is entered, or a page reloaded, whatever the window is doing.
Load(w) ==
  \E page \in Pages \cap group :
    /\ tab[w].page # "away" /\ page # "/oauth-complete" /\ setup[w].pc \in {"idle", "stuck"}
    /\ Becomes(w, Loaded(page, "/dashboard"))
    /\ setup' = [setup EXCEPT ![w] = NoSetup]
    /\ asked' = [t \in Calls |-> IF t \in Dropped(w) THEN Unasked ELSE asked[t]]
    /\ Mishap
    /\ abandoned' = abandoned \cup ({asked[t].presented : t \in Dropped(w)} \ {None})
    /\ UNCHANGED << vars, profile, known, overlapped, cookie, oauth, approvedAt >>

\* The links of the header and of the account's menu.
Follow(w) ==
  \E page \in {"/login", "/settings", "/lots"} \cap group :
    /\ tab[w].page \in {"/dashboard", "/lots"} /\ tab[w].step = "none" /\ Ready(w)
    /\ Becomes(w, Pushed(w, page, cookie))
    /\ UNCHANGED << vars, cardVars, cookie, oauth, asked, mishaps, history >>

\* logout(): the memory first, and then the cookie's token, if there is one.
SignOut(w) ==
  /\ tab[w].page \in {"/dashboard", "/lots"} /\ tab[w].claims # NoClaims
  /\ Becomes(w, [tab[w] EXCEPT !.claims = NoClaims])
  /\ IF cookie = None THEN UNCHANGED << call, asked >>
     ELSE Sends(w, "logout", [Idle EXCEPT !.pc = "findToken", !.token = cookie])
  /\ UNCHANGED << InService, cardVars, cookie, oauth, mishaps, history >>

-----------------------------------------------------------------------------
(***************************************************************************)
(* Signing in.                                                             *)
(***************************************************************************)
Submit(w, kind, r) ==
  /\ Ready(w) /\ Sends(w, kind, r)
  /\ UNCHANGED << InService, cardVars, tab, cookie, oauth, mishaps, history >>

\* A group without the page is one in which nobody signs in again.
SignsIn(w) == "/login" \in group /\ Shows(w, "/login", "form") /\ Ready(w)

HandleLogin(w) ==
  SignsIn(w) /\ Submit(w, "login", [Idle EXCEPT !.pc = "findEmail"])

HandleRegister(w) ==
  "/verify-email" \in group /\ SignsIn(w) /\ Submit(w, "register", [Idle EXCEPT !.pc = "findEmail"])

\* The portal's route keeps the state in a cookie and sends the window away.
OpenGoogle(w) ==
  /\ "/oauth-complete" \in group /\ SignsIn(w)
  /\ Becomes(w, [Away EXCEPT !.page = "google", !.back = tab[w].back])
  /\ oauth' = w
  /\ UNCHANGED << vars, cardVars, cookie, asked, mishaps, history >>

\* Google sends it back; the state must be that of the last window to leave.
Callback(w) ==
  /\ tab[w].page = "google" /\ Ready(w)
  /\ \/ /\ oauth = w
        /\ Sends(w, "google", [Idle EXCEPT !.pc = "findGoogle"])
        /\ UNCHANGED << tab, oauth >>
     \/ /\ Becomes(w, Loaded("/login", "/dashboard"))
        /\ oauth' = Nobody
        /\ UNCHANGED << call, asked >>
  /\ UNCHANGED << InService, cardVars, cookie, mishaps, history >>

\* refreshAccessToken(), which without the cookie is refused by the route.
Refresh(w) ==
  /\ tab[w].doing = "refresh" /\ cookie # None
  /\ Sends(w, "refresh", [Idle EXCEPT !.pc = "findToken", !.token = cookie])
  /\ Becomes(w, [tab[w] EXCEPT !.doing = "none"])
  /\ UNCHANGED << InService, cardVars, cookie, oauth, mishaps, history >>

-----------------------------------------------------------------------------
(***************************************************************************)
(* The address, the phone, the password and the identity.                  *)
(***************************************************************************)
VerifyEmail(w) ==
  /\ Shows(w, "/verify-email", "loading")
  /\ \E k \in Codes :
       codes[k] # NoCode /\ Submit(w, "verifyEmail", [Idle EXCEPT !.pc = "find", !.code = k])

\* Three seconds later the page goes to sign in.
EmailVerified(w) ==
  /\ Shows(w, "/verify-email", "success")
  /\ Becomes(w, Pushed(w, "/login", cookie))
  /\ UNCHANGED << vars, cardVars, cookie, oauth, asked, mishaps, history >>

\* The page for it and the dialog on the lot's page: a number, then a code.
\* The page counts what is refused; the dialog does not.
Refused(w) ==
  LET wrong == tab[w].wrong + 1
  IN  IF Shows(w, "/verify-phone", "otp")
      THEN [tab[w] EXCEPT !.wrong = wrong,
                          !.step = IF wrong >= MaxWrong THEN "locked" ELSE @]
      ELSE tab[w]

SubmitAuthorized(w, kind, r) ==
  \/ /\ SendsAuthorized(w, kind, r)
     /\ Becomes(w, [tab[w] EXCEPT !.seen = tab[w].claims])
  \/ /\ ~Valid(tab[w].claims)
     /\ Becomes(w, Refused(w))
     /\ UNCHANGED << call, asked >>

RequestCode(w) ==
  /\ tab[w].step = "phone" /\ Ready(w)
  /\ SubmitAuthorized(w, "requestCode", [Idle EXCEPT !.pc = "find"])
  /\ UNCHANGED << InService, cardVars, cookie, oauth, mishaps, history >>

VerifyCode(w) ==
  /\ tab[w].step = "otp" /\ Ready(w)
  /\ \E k \in Codes :
       /\ codes[k] # NoCode
       /\ SubmitAuthorized(w, "verifyPhone", [Idle EXCEPT !.pc = "find", !.code = k])
  /\ UNCHANGED << InService, cardVars, cookie, oauth, mishaps, history >>

\* Another number, or the dialog is closed, or the page's fifteen minutes pass.
PhoneAside(w) ==
  /\ \/ Shows(w, "/verify-phone", "otp") /\ Ready(w) /\ Turns(w, "phone")
     \/ tab[w].page = "/lots" /\ tab[w].step \in {"phone", "otp"} /\ Ready(w)
        /\ Turns(w, "none")
     \/ Shows(w, "/verify-phone", "locked")
        /\ Becomes(w, [tab[w] EXCEPT !.step = "otp", !.wrong = 0])
  /\ UNCHANGED << vars, cardVars, cookie, oauth, asked, mishaps, history >>

\* GET /me, on opening the page.
ReadSettings(w) ==
  /\ Shows(w, "/settings", "loading") /\ Valid(tab[w].claims)
  /\ Turns(w, IF user.password THEN "has" ELSE "form")
  /\ UNCHANGED << vars, cardVars, cookie, oauth, asked, mishaps, history >>

SetPassword(w) ==
  /\ Shows(w, "/settings", "form") /\ Ready(w)
  /\ SubmitAuthorized(w, "setPassword", [Idle EXCEPT !.pc = "find"])
  /\ UNCHANGED << InService, cardVars, cookie, oauth, mishaps, history >>

SubmitIdentity(w) ==
  /\ Shows(w, "/register-to-bid", "identity") /\ Ready(w)
  /\ SubmitAuthorized(w, "identity", [Idle EXCEPT !.pc = "find"])
  /\ UNCHANGED << InService, cardVars, cookie, oauth, mishaps, history >>

\* Step 4 asks every ten seconds, with the token the window has.
Poll(w) ==
  /\ tab[w].page = "/register-to-bid" /\ tab[w].step \in {"review", "approved"}
  /\ Turns(w, IF Valid(tab[w].claims) /\ user.status = "APPROVED_BIDDER"
              THEN "approved" ELSE "review")
  /\ UNCHANGED << vars, cardVars, cookie, oauth, asked, mishaps, history >>

-----------------------------------------------------------------------------
(***************************************************************************)
(* The card.                                                               *)
(***************************************************************************)
AuthoriseCard(w) ==
  /\ Shows(w, "/register-to-bid", "payment") /\ Ready(w) /\ Valid(tab[w].claims)
  /\ SetupGoes(w, [NoSetup EXCEPT !.pc = "findProfile"])
  /\ UNCHANGED << vars, profile, known, overlapped, browserVars >>

\* The second request is refused, if the token has expired meanwhile.
CardStep(w) ==
  /\ SetupStep(w)
  /\ (Awaits(w, "retrieveIntent") /\ ~Valid(tab[w].claims)) => SetupFails(w)
  /\ UNCHANGED << vars, browserVars >>

CardSaved(w) ==
  /\ Awaits(w, "saved")
  /\ SetupFails(w) /\ Turns(w, "review")
  /\ UNCHANGED << vars, profile, known, overlapped, cookie, oauth, asked, mishaps, history >>

-----------------------------------------------------------------------------
(***************************************************************************)
(* A bid.                                                                  *)
(***************************************************************************)
\* placeBid() of the render in which the person's claims were c.
Bidding(r, c) ==
  CASE c = NoClaims                  -> Loaded("/login", "/lots")
    [] c.status = "EMAIL_VERIFIED"   -> [r EXCEPT !.step = "phone"]
    [] c.status = "PENDING_REVIEW"   -> r
    [] c.status = "APPROVED_BIDDER"  -> [r EXCEPT !.doing = "profile", !.seen = c]
    [] OTHER                         -> [r EXCEPT !.doing = "bid", !.seen = c]

PlaceBid(w) ==
  /\ Shows(w, "/lots", "none") /\ Ready(w)
  /\ Becomes(w, Bidding(tab[w], tab[w].claims))
  /\ UNCHANGED << vars, cardVars, cookie, oauth, asked, mishaps, history >>

\* Without a card the person is sent to register, whose steps start anew.
CheckCard(w) ==
  /\ tab[w].doing = "profile"
  /\ Becomes(w,
       IF ~Valid(tab[w].seen) THEN [tab[w] EXCEPT !.doing = "none"]
       ELSE IF profile.card = Nobody THEN Loaded("/register-to-bid", "/dashboard")
       ELSE [tab[w] EXCEPT !.doing = "bid"])
  /\ UNCHANGED << vars, cardVars, cookie, oauth, asked, mishaps, history >>

\* The engine takes the bid of whom it lets in, or finds it too low or late.
BidArrives(w) ==
  /\ tab[w].doing = "bid"
  /\ \/ MayBid(tab[w].seen) /\ Becomes(w, [tab[w] EXCEPT !.doing = "none", !.step = "confirmed"])
     \/ Becomes(w, [tab[w] EXCEPT !.doing = "none"])
  /\ UNCHANGED << vars, cardVars, cookie, oauth, asked, mishaps, history >>

CloseDialog(w) ==
  /\ Shows(w, "/lots", "confirmed") /\ Turns(w, "none")
  /\ UNCHANGED << vars, cardVars, cookie, oauth, asked, mishaps, history >>

-----------------------------------------------------------------------------
(***************************************************************************)
(* What a page does with an answer.                                        *)
(***************************************************************************)
\* The window after a refresh that was answered or refused: a page that only
\* waits for it goes on or back to sign in; placeBid() is called again, as it
\* was when the code was sent, and with the claims of that time.
Resumed(w, r, ok, crumb) ==
  CASE r.page = "/lots" -> Bidding(r, r.seen)
    [] OTHER            -> Opened(IF ok THEN r.back ELSE "/login", "/dashboard",
                                  r.claims, crumb)

RefreshRefused(w) ==
  /\ tab[w].doing = "refresh" /\ cookie = None
  /\ Becomes(w, Resumed(w, [tab[w] EXCEPT !.doing = "none"], FALSE, None))
  /\ UNCHANGED << vars, cardVars, cookie, oauth, asked, mishaps, history >>

\* Fault: the rotated cookie is not handed on.
CookieOf_Unrotated(a) == IF a.what \in {"login", "google"} THEN a.token ELSE cookie

\* What the answer sets the cookie to: a new token, nothing, or no change.
CookieOf(a) ==
  CASE a.what = "logout" /\ a.answer = "ok" -> None
    [] a.token # None                       -> a.token
    [] OTHER                                -> cookie

Reaction(w, a) ==
  LET ok     == a.answer = "ok"
      signed == [tab[w] EXCEPT !.claims = a.access]
  IN  CASE a.what = "login" /\ ok       -> Opened(tab[w].back, "/dashboard", a.access, a.token)
        [] a.what = "register" /\ ok    -> [tab[w] EXCEPT !.step = "registered"]
        [] a.what = "google"            -> IF ok THEN Loaded("/oauth-complete", tab[w].back)
                                           ELSE Loaded("/login", "/dashboard")
        [] a.what = "refresh"           -> Resumed(w, IF ok THEN signed ELSE tab[w], ok,
                                                   CookieOf(a))
        [] a.what = "verifyEmail"       -> [tab[w] EXCEPT !.step = IF ok THEN "success"
                                                                   ELSE "error"]
        [] a.what = "requestCode" /\ ok -> [tab[w] EXCEPT !.step = "otp"]
        [] a.what = "verifyPhone" /\ ok ->
             IF tab[w].page = "/lots" THEN [tab[w] EXCEPT !.step = "none", !.doing = "refresh"]
             ELSE Pushed(w, "/register-to-bid", cookie)
        [] a.what = "verifyPhone" /\ ~ok -> Refused(w)
        [] a.what = "identity" /\ ok    -> [tab[w] EXCEPT !.step = "payment"]
        [] a.what = "setPassword" /\ ok -> [tab[w] EXCEPT !.step = "set"]
        [] OTHER                        -> tab[w]

\* On a lot's page nothing catches a refresh that throws: the bid is forgotten.
Hear(w) ==
  \E t \in Calls :
    /\ asked[t].tab = w /\ asked[t].answer # "none"
    /\ cookie' = CookieOf(asked[t])
    /\ \/ Becomes(w, Reaction(w, asked[t]))
       \/ asked[t].answer = "error" /\ tab[w].page = "/lots" /\ UNCHANGED tab
    /\ oauth' = IF asked[t].what = "google" THEN Nobody ELSE oauth
    /\ asked' = [asked EXCEPT ![t] = Unasked]
    /\ UNCHANGED << vars, cardVars, mishaps, history >>

-----------------------------------------------------------------------------
\* The first pages of a stranger, and of somebody who has signed in, wherever
\* that took them.
First(claims, crumb) ==
  LET shown  == {Opened(page, "/dashboard", claims, crumb) :
                   page \in (Pages \ {"/oauth-complete"}) \cap group}
      opened == IF group \in Crowded THEN {Windows} ELSE {{w} : w \in Windows}
  IN  IF shown = {} THEN {[w \in Windows |-> Away]}
      ELSE {f \in [Windows -> shown \cup {Away}] :
              {w \in Windows : f[w] # Away} \in opened}

Claims == [status |-> user.status, expires |-> AccessTtl]

\* Where it matters: somebody the admin has approved, or who came from Google.
Bidder == [Member EXCEPT !.status = "APPROVED_BIDDER", !.phone = TRUE]

PortalInit ==
  /\ \E someone \in {NoUser, Member, Bidder, CreateFromGoogle} :
       /\ Start(someone)
       /\ someone = Bidder => "/lots" \in group
       /\ someone = CreateFromGoogle => "/settings" \in group
  /\ CardsInit /\ (profile # NoProfile => "/lots" \in group)
  /\ {"/login", "/lots"} \subseteq group => user = Bidder /\ profile # NoProfile
  /\ \/ /\ SignedOut /\ cookie = None
        /\ tab \in First(NoClaims, None)
     \/ /\ user # NoUser /\ Pages \cap group # {} /\ cookie = (CHOOSE k \in Tokens : TRUE)
        /\ tokens = [k \in Tokens |-> IF k = cookie THEN [state |-> "live", login |-> k]
                                      ELSE NoToken]
        /\ tab \in First(Claims, cookie)
  /\ oauth = Nobody
  /\ asked = [t \in Calls |-> Unasked]
  /\ mishaps = 0
  /\ abandoned = {}
  /\ approvedAt = IF user = Bidder THEN now ELSE -AccessTtl

SignIn(w) ==
  \/ HandleLogin(w) \/ HandleRegister(w) \/ OpenGoogle(w) \/ Callback(w)
  \/ Refresh(w) \/ RefreshRefused(w)

Verify(w) ==
  \/ VerifyEmail(w) \/ EmailVerified(w) \/ RequestCode(w) \/ VerifyCode(w)
  \/ PhoneAside(w) \/ ReadSettings(w) \/ SetPassword(w) \/ SubmitIdentity(w) \/ Poll(w)

Bid(w) ==
  PlaceBid(w) \/ CheckCard(w) \/ BidArrives(w) \/ CloseDialog(w)

WindowStep(w) ==
  \/ Load(w) \/ Follow(w) \/ SignOut(w) \/ Hear(w) \/ SignIn(w) \/ Verify(w)
  \/ AuthoriseCard(w) \/ CardStep(w) \/ CardSaved(w) \/ Bid(w)

\* Time matters to codes, and to the tokens of the pages that use them.
TimePasses ==
  /\ Tick \/ (Aging \cap group # {} /\ Pass)
  /\ Approved
  /\ UNCHANGED << cardVars, tab, cookie, oauth, asked, mishaps, abandoned >>

PortalNext ==
  \/ \E t \in Calls : Others(t) \/ Serve(t)
  \/ \E w \in Windows : WindowStep(w)
  \/ TimePasses

PortalSpec == PortalInit /\ [][PortalNext]_allVars
=============================================================================
