---------------------------- MODULE MCFlockInit -----------------------------
(* Three processes that create a shared memory at the same time. *)
EXTENDS FlockInit

CONSTANTS p1, p2, p3
=============================================================================
