---------------------------- MODULE MCWorldTime -----------------------------
(* Model-checking instances of WorldTime: two assets with different steps,   *)
(* one command process.                                                      *)
EXTENDS WorldTime

CONSTANTS a1, a2, c1

TwoAssets == {a1, a2}
OneCmd == {c1}
NoneSlow == {}
OnlyOk == {TRUE}
Steps == [a \in TwoAssets |-> IF a = a1 THEN 1 ELSE 2]
=============================================================================
