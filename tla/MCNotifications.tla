-------------------------- MODULE MCNotifications --------------------------
(***************************************************************************)
(* A small instance of Notifications for TLC: a lot about to close with    *)
(* two bidders, a bid that outbids one of them, and a one-time code.       *)
(***************************************************************************)
EXTENDS NotificationProperties

MCMessages == {"soon", "outbid", "otp"}

MCKind == [soon |-> "auction.closing.soon", outbid |-> "auction.bid.placed",
           otp |-> "user.phone.verification.requested"]

MCConcerns == [soon |-> {"u1", "u2"}, outbid |-> {"u2"}, otp |-> {"u2"}]
=============================================================================
