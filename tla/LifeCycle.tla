------------------------------ MODULE LifeCycle ------------------------------
(***************************************************************************)
(* What start, stop and reset promise, with no slots, no events, no        *)
(* publication and no polling: a transition is requested, every member     *)
(* confirms it once, and only then is it over.  Whatever was confirmed     *)
(* before the request does not count.                                      *)
(***************************************************************************)
CONSTANT Assets  \* who may take part

VARIABLES
  state,     \* the state of the simulation
  members,   \* the assets that take part
  confirmed  \* the members that have confirmed the last request

lifeVars == <<state, members, confirmed>>

LifeInit ==
  /\ state = "Stopped"
  /\ members = {}
  /\ confirmed = {}

Join(a) ==
  /\ state = "Stopped"
  /\ a \notin members
  /\ members' = members \cup {a}
  /\ UNCHANGED <<state, confirmed>>

Leave(a) ==
  /\ state = "Stopped"
  /\ members' = members \ {a}
  /\ confirmed' = confirmed \ {a}
  /\ UNCHANGED state

\* start, stop or reset is accepted.
Request ==
  /\ <<state, state'>> \in {<<"Stopped", "Runnable">>, <<"Running", "Stopping">>,
                            <<"Stopped", "Resetting">>}
  /\ confirmed' = {}
  /\ UNCHANGED members

Confirm(a) ==
  /\ state \in {"Runnable", "Stopping", "Resetting"}
  /\ a \in members
  /\ confirmed' = confirmed \cup {a}
  /\ UNCHANGED <<state, members>>

\* The transition ends when all have confirmed it.
Complete ==
  /\ <<state, state'>> \in {<<"Runnable", "Running">>, <<"Stopping", "Stopped">>,
                            <<"Resetting", "Stopped">>}
  /\ members \subseteq confirmed
  /\ UNCHANGED <<members, confirmed>>

LifeNext ==
  \/ \E a \in Assets : Join(a) \/ Leave(a) \/ Confirm(a)
  \/ Request
  \/ Complete

LifeSpec == LifeInit /\ [][LifeNext]_lifeVars
=============================================================================
