---------------------------- MODULE MCOrderDelivery ----------------------------
(* One order sent up to twice to three chats: orders do not meet one     *)
(* another, attempts at the same order do.                                   *)
EXTENDS OrderDelivery, TLC

CONSTANTS o1, c1, c2, c3

MCOrders == {o1}
MCChats == {c1, c2, c3}
Interchangeable == Permutations(MCChats)
=============================================================================
