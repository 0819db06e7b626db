------------------------- MODULE LotPageProperties -------------------------
(***************************************************************************)
(* What the reader of a lot's page is to see without reloading it.         *)
(***************************************************************************)
EXTENDS LotPage

\* A page whose stream is open when the auction closes, and does not break,
\* comes to show that it has closed: what useLotSse, the broadcast in the close
\* job and the page's auction_closed branch are there for.
HearsVerdict ==
  \A p \in Pages :
    (stream[p] /\ lot.status \in {"LIVE", "CLOSING"})
      ~> (IF stream[p] THEN Panel(page[p]).banner ELSE TRUE)
=============================================================================
