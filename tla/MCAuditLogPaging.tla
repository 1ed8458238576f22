-------------------------- MODULE MCAuditLogPaging --------------------------
(* Three events the filters let through, two of them about one row, and     *)
(* pages of one, so that every boundary is crossed.                         *)
EXTENDS AuditLogPaging, TLC

CONSTANTS e1, e2, e3, door, handle

MCEvents == {e1, e2, e3}
MCEntityOf == e1 :> door @@ e2 :> door @@ e3 :> handle
SameRow == Permutations({e1, e2})
=============================================================================
