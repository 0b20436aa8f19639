----------------------------- MODULE MCSession ------------------------------
(* Model-checking instances of Session: two or three processes, each of      *)
(* which may be master, asset or command, over both back ends.               *)
EXTENDS Session, TLC

CONSTANTS p1, p2, p3

TwoProcs == {p1, p2}
ThreeProcs == {p1, p2, p3}
BothBackends == {"mmap", "shm"}
Mmap == {"mmap"}

Perms == Permutations(Procs)
=============================================================================
