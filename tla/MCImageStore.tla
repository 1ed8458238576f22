---------------------------- MODULE MCImageStore ----------------------------
(* Product oak-12, which is there, and variant 12 of product oak, which an   *)
(* import or an administrator creates: their main images share a key.        *)
EXTENDS ImageStore

CONSTANTS q1, q2, product, variant, k1, k2, d1, plain

MCRequests == {q1, q2}
MCRows == {product, variant}
MCOldRows == {product}
MCFieldsOf == [r \in MCRows |-> IF r = variant THEN {"img", "front"} ELSE {"img"}]
MCCustomKeys == [r \in MCRows |-> [f \in Fields |->
    CASE f = "img" -> {k1} [] r = variant /\ f = "front" -> {k2} [] OTHER -> {}]]
MCBodyFields == {"img"}
MCDoorKeys == {d1}
MCPlainKeys == {plain}
=============================================================================
