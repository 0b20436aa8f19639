----------------------------- MODULE MCPduTable -----------------------------
(* Two assets that declare the same two channels, and one conductor. *)
EXTENDS PduTable, TLC

CONSTANTS a1, a2, k1, k2

\* Two sizes, so that a layout computed from the wrong entry shows.
MCSizeOf == k1 :> 2 @@ k2 :> 1

Perms == Permutations(Assets)
=============================================================================
