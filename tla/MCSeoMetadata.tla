---------------------------- MODULE MCSeoMetadata ----------------------------
(* Two rows and two slugs, with words at the start or without, and two       *)
(* writers, of whom one may wait for the other while he deletes or changes    *)
(* them.                                                                      *)
EXTENDS SeoMetadata, TLC

CONSTANTS r1, r2, w1, w2, p1, s1, s2

MCRows == {r1, r2}
MCSlugs == {s1, s2}
MCWriters == {w1, w2}
MCPages == {p1}
Interchangeable ==
    Permutations(MCRows) \cup Permutations(MCSlugs) \cup Permutations(MCWriters)
=============================================================================
