----------------------------- MODULE MCShipping -----------------------------
(***************************************************************************)
(* A small instance of Shipping for TLC: ids, calls and winners are        *)
(* interchangeable.                                                        *)
(***************************************************************************)
EXTENDS ShippingProperties, TLC

Symmetry == Permutations(Fulfilments) \cup Permutations(Calls) \cup Permutations(Winners)
=============================================================================
