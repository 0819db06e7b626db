------------------------ MODULE AuctionImplementsBook ------------------------
(***************************************************************************)
(* The refinement mapping under which AuctionEngine implements AuctionBook: *)
(* the book is what the stored events replay to.  Every INSERT into        *)
(* auction_events is a step of the book; everything else is a stutter.     *)
(***************************************************************************)
EXTENDS AuctionProperties

Last == Len(log)

\* A late bid is owed its extension while it is the last event stored.
OwedEnd ==
  IF Last > 0 /\ log[Last].type = "BidPlaced"
              /\ IsLate(replay[Last], log[Last].placedAt)
  THEN {log[Last].placedAt + replay[Last].duration}
  ELSE {}

Book == INSTANCE AuctionBook WITH
  Minutes <- 0..MaxTime,
  phase   <- Current.status,
  price   <- Current.highestAmount,
  leader  <- Current.highestUser,
  ends    <- Current.endAt,
  rules   <- [reserve |-> Current.reserve, increment |-> Current.increment,
              window |-> Current.window, duration |-> Current.duration],
  owed    <- OwedEnd

\* Every handler's INSERT is one indivisible step of the auction, taken on
\* the state that is stored: the handlers' copies are never out of date when
\* it counts, however they interleave and whatever becomes of the lock.
ImplementsBook == Book!Spec
=============================================================================
