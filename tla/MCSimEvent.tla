----------------------------- MODULE MCSimEvent -----------------------------
(* Model-checking instances of SimEvent: two assets, one or two     *)
(* command processes.                                                        *)
EXTENDS SimEvent

CONSTANTS a1, a2, c1, c2

TwoAssets == {a1, a2}
OneCmd == {c1}
TwoCmds == {c1, c2}

NoneSlow == {}
OneSlow == {a1}
AllSlow == {a1, a2}

OnlyOk == {TRUE}
AnyAnswer == BOOLEAN
=============================================================================
