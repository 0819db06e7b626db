------------------------------ MODULE MCPayment ------------------------------
(***************************************************************************)
(* Small instances of Payment for TLC.                                     *)
(***************************************************************************)
EXTENDS PaymentProperties, TLC

Symmetry == Permutations(Invoices) \cup Permutations(Requests)
=============================================================================
