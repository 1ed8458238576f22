--------------------------- MODULE MCCategoryTree ---------------------------
(* Three categories, two commands and one query, from every forest.         *)
EXTENDS CategoryTree, TLC

CONSTANTS c1, c2, c3, r1, r2, q1

MCThree == {c1, c2, c3}
MCOne == {r1}
MCCommands == {r1, r2}
MCQueries == {q1}
=============================================================================
