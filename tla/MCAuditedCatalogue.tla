------------------------- MODULE MCAuditedCatalogue -------------------------
(* A product with a variant, a second one of another slug, room for a third  *)
(* that takes the first one's slug and for two more variants; of the other   *)
(* kinds of rows, one and room for another; and the commands about them.     *)
EXTENDS AuditedCatalogue, TLC

CONSTANTS p1, p2, p3, v1, v2, v3, a1, a2, part, k1, k2, c1, c2, t1, t2, m1, m2,
          alice, bob, r1, r2

MCProducts == {p1, p2, p3}
MCVariants == {v1, v2, v3}
MCAttributes == {a1, a2}
MCAttributeParts == {part}
MCCategories == {k1, k2}
MCCollections == {c1, c2}
MCTags == {t1, t2}
MCTemplates == {m1, m2}
MCRows == UNION {MCProducts, MCVariants, MCAttributes, MCAttributeParts, MCCategories,
                 MCCollections, MCTags, MCTemplates}
MCInitialRows == {p1, p2, v1, part, k1, c1, t1, m1}

\* p3 may take the slug of p1; a1 and a2 are of one key and value.
MCNameOf ==
    [x \in MCRows |-> CASE x = p3 -> <<p1>> [] x = a2 -> <<a1>> [] OTHER -> <<x>>]
MCNames == {<<x>> : x \in MCRows}
MCOwnerOf == [x \in MCRows |-> IF x \in MCVariants THEN p1 ELSE NoRow]
MCAdmins == {alice, bob}
TwoRequests == {r1, r2}
OneEach == r1 :> alice @@ r2 :> bob

One(o, x) == <<[op |-> o, row |-> x, price |-> FALSE]>>
Two(o, x, y) == One(o, x) \o One(o, y)
Priced(x) == [op |-> "update", row |-> x, price |-> TRUE]
PriceOnly(x) == [op |-> "touch", row |-> x, price |-> TRUE]

\* Every kind of command.
FullMenu ==
    {One("create", p3), One("delete", p1), One("delete", v1), One("update", part),
     One("create", a1), One("delete", a1),
     One("delete", p2), <<Priced(p1), Priced(p2)>>, <<PriceOnly(p1), PriceOnly(p2)>>,
     One("touch", v1), One("touch", c1), Two("create", v2, v3), Two("update", v1, v2)}
    \cup {One("create", x) : x \in {k2, c2, t2, m2}}
    \cup {One(o, x) : o \in {"update", "delete"}, x \in {k1, c1, t1, m1}}
=============================================================================
