----------------------------- MODULE MCAccounts -----------------------------
(***************************************************************************)
(* Small instances of Accounts and Portal for TLC: calls, windows and      *)
(* customers are interchangeable.  A behaviour makes the calls of one      *)
(* group: from the outside, the account's and the admin's, the proof of    *)
(* address and phone, or signing in and out; or from the pages in it.      *)
(***************************************************************************)
EXTENDS AccountProperties, PortalProperties, TLC

MCServed ==
  {{"suspend", "reinstate", "approve", "update", "identity", "setPassword"},
   {"suspend", "reinstate", "google"},
   {"suspend", "requestCode", "verifyPhone"},
   {"google", "requestCode", "verifyPhone"},
   {"register", "verifyEmail", "requestCode", "verifyPhone"},
   {"google", "login", "refresh", "logout"}}

\* Two windows race for the one cookie, the one profile or the one phone.
MCCrowded ==
  {{"/login", "/oauth-complete"}, {"/login", "/dashboard"},
   {"/register-to-bid", "approve"}, {"/verify-phone"}}

MCOpened ==
  MCCrowded \cup
  {{"/login", "/verify-email"}, {"/settings"}, {"/lots"}, {"/login", "/lots", "suspend"}}

MCGroups == MCServed \cup MCOpened

Symmetry == Permutations(Calls) \cup Permutations(Windows) \cup Permutations(Customers)
=============================================================================
