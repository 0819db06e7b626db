---------------------------- MODULE MCCatalogue ----------------------------
(***************************************************************************)
(* A small instance of LotEditor for TLC.                                  *)
(***************************************************************************)
EXTENDS CatalogueInvariant, TLC

\* The uploads, and the calls, are interchangeable.
Symmetry == Permutations(Images) \cup Permutations(Calls)

\* Bound: the run ends at the first save of images that were out of date, after
\* which the invariants promise nothing.
UntilOutdated == ~overlapped

\* Bound: no page shows an image, or has missed an answer, while there is a
\* category.
PageOrCategory == (page.shown = {} /\ unheard = {}) \/ categories = {}
=============================================================================
