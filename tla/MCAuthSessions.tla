--------------------------- MODULE MCAuthSessions ---------------------------
(* An administrator who has a row and a user who may be signed up, two       *)
(* browsers, and requests that may all be in flight at once.                *)
EXTENDS AuthSessions, TLC

CONSTANTS admin, guest, c1, c2, r1, r2, r3, r4

MCUsers == {admin, guest}
MCAdmins == {admin}
MCClients == {c1, c2}
FourRequests == {r1, r2, r3, r4}
Interchangeable == Permutations(MCClients) \cup Permutations(FourRequests)
=============================================================================
