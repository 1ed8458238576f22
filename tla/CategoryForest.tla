--------------------------- MODULE CategoryForest ---------------------------
(***************************************************************************)
(* The parentCategoryId column of the Category table as a function from    *)
(* the categories there are to their parents, what one statement of        *)
(* CategoriesService does to it, and what the recursive queries ask of it. *)
(***************************************************************************)
CONSTANTS
    Categories,   \* the ids that may be given out
    NoCategory    \* a parentCategoryId that is null

ASSUME NoCategoryAssumption == NoCategory \notin Categories

\* Every row's parent is a row (the foreign key) or null.  Nothing else is
\* asked of the column: it may hold a cycle.
Trees == UNION {[L -> L \cup {NoCategory}] : L \in SUBSET Categories}

Parents(t) == DOMAIN t \cup {NoCategory}

InsertRow(t, c, p) == [x \in DOMAIN t \cup {c} |-> IF x = c THEN p ELSE t[x]]
MoveRow(t, c, p) == [x \in DOMAIN t |-> IF x = c THEN p ELSE t[x]]

\* onDelete: SetNull - the subcategories of a deleted category become roots.
DeleteRow(t, c) == [x \in DOMAIN t \ {c} |-> IF t[x] = c THEN NoCategory ELSE t[x]]

Children(t, S) == {x \in DOMAIN t : t[x] \in S}
ClosedBelow(t, S) == Children(t, S) \subseteq S

\* c and everything below it: what getDescendantCategoryIdsBySlug is for.
Subtree(t, c) ==
    {x \in DOMAIN t : \A S \in SUBSET DOMAIN t :
                          c \in S /\ ClosedBelow(t, S) => x \in S}

\* In every set of categories, one has its parent outside.
Acyclic(t) == \A S \in SUBSET DOMAIN t : S # {} => \E x \in S : t[x] \notin S

OnCycle(t, c) == c \in DOMAIN t /\ t[c] \in Subtree(t, c)
BelowCycle(t, c) == \E x \in DOMAIN t : OnCycle(t, x) /\ c \in Subtree(t, x)
=============================================================================
