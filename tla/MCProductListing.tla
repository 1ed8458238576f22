-------------------------- MODULE MCProductListing --------------------------
(* Three products on pages of two, ranked against the order of their ids,    *)
(* two categories, one request and two writes while it is under way.         *)
EXTENDS ProductListing, TLC

CONSTANTS c1, c2, r1

MCCategories == {c1, c2}
MCRequests == {r1}
MCProducts == {1, 2, 3}
MCRank == 1 :> 3 @@ 2 :> 1 @@ 3 :> 2
MCPages == {1, 2}
SameCategories == Permutations(MCCategories)
=============================================================================
