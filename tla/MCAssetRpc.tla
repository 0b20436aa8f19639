----------------------------- MODULE MCAssetRpc -----------------------------
(* Model-checking instances of AssetRpc: an asset with a process of its own  *)
(* and one in the master's process; one command.                             *)
EXTENDS AssetRpc

CONSTANTS a1, a2, c1

TwoAssets == {a1, a2}
OneCmd == {c1}
OneInMaster == {a2}
None == {}
OnlyOk == {TRUE}
AnyAnswer == BOOLEAN
=============================================================================
