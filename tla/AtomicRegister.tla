--------------------------- MODULE AtomicRegister ---------------------------
(***************************************************************************)
(* What a PDU channel promises, with no flags, no versions and no words    *)
(* copied one by one: writes take effect one after the other, and a read   *)
(* gets, at one moment of its call, the PDU of the latest write.  The      *)
(* promise ends with the first disturbance; anything may happen then.      *)
(***************************************************************************)
EXTENDS Naturals

CONSTANT Readers

VARIABLES
  count,   \* number of writes that have taken effect
  held,    \* held[r]: the PDU that reader r got last
  intact   \* has there been no disturbance so far?

registerVars == <<count, held, intact>>

\* The PDU of the n-th write.
PDU(n) == [lo |-> n, hi |-> n]

RegisterInit ==
  /\ count = 0
  /\ held = [r \in Readers |-> PDU(0)]
  /\ intact = TRUE

Write ==
  /\ intact
  /\ count' = count + 1
  /\ UNCHANGED <<held, intact>>

Read(r) ==
  /\ intact
  /\ held' = [held EXCEPT ![r] = PDU(count)]
  /\ UNCHANGED <<count, intact>>

Disturb == intact' = FALSE

RegisterNext == Write \/ (\E r \in Readers : Read(r)) \/ Disturb

RegisterSpec == RegisterInit /\ [][RegisterNext]_registerVars
=============================================================================
