---------------------------- MODULE MCPduChannel ----------------------------
(* Model-checking instances of PduChannel: an asset that reads, with or      *)
(* without an external reader.                                               *)
EXTENDS PduChannel

CONSTANTS r1, ext

OneReader == {r1}
TwoReaders == {r1, ext}
NoExternal == {}
OneExternal == {ext}
=============================================================================
