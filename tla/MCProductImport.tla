--------------------------- MODULE MCProductImport ---------------------------
(* Files for the product import: one, and the same after somebody changed  *)
(* its second product.  The first product, with more rows than the pool has *)
(* workers, is in both: a retry, or two administrators at once.  The second *)
(* ones want one sourceId and the same attributes.                          *)
EXTENDS ProductImport, TLC

CONSTANTS i1, i2, a, b, s1

Row(attrs, source) == [attrs |-> attrs, sourceId |-> source]

Oak == [slug |-> "oak", params |-> <<a>>,
        rows |-> <<Row(<<b>>, NoSource), Row(<<>>, NoSource), Row(<<a>>, NoSource)>>]
Ash == [slug |-> "ash", params |-> <<>>, rows |-> <<Row(<<b>>, s1), Row(<<>>, NoSource)>>]
Elm == [slug |-> "elm", params |-> <<b>>, rows |-> <<Row(<<a>>, NoSource), Row(<<>>, s1)>>]

MCImports == {i1, i2}
MCAttributes == {a, b}
MCFiles == [i \in MCImports |-> IF i = i1 THEN <<Oak, Ash>> ELSE <<Oak, Elm>>]
=============================================================================
