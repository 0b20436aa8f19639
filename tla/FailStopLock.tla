---------------------------- MODULE FailStopLock ----------------------------
(***************************************************************************)
(* What the master lock promises, with no file, no OS lock and no polling: *)
(* a lock that has at most one holder, that numbers its grants, and that   *)
(* stops for good when a holder disappears in the middle of its work.      *)
(* "Once jammed, never granted again" is the fail-stop contract of         *)
(* docs/master-lock-fail-stop.md.                                          *)
(***************************************************************************)
EXTENDS Naturals

CONSTANTS
  Clients,   \* who may hold the lock
  NoClient   \* nobody: not one of the clients

VARIABLES
  holder,   \* the client that holds the lock, or NoClient
  grants,   \* how often the lock was granted
  jammed    \* the lock is out of service

lockVars == <<holder, grants, jammed>>

LockInit ==
  /\ holder = NoClient
  /\ grants = 0
  /\ jammed = FALSE

Grant(c) ==
  /\ holder = NoClient
  /\ ~jammed
  /\ holder' = c
  /\ grants' = grants + 1
  /\ UNCHANGED jammed

Release ==
  /\ holder # NoClient
  /\ holder' = NoClient
  /\ UNCHANGED <<grants, jammed>>

\* A holder vanishes, or a caller damages the record: nobody holds the lock
\* and nobody ever will.
Jam ==
  /\ ~jammed
  /\ jammed' = TRUE
  /\ holder' = NoClient
  /\ UNCHANGED grants

LockNext == (\E c \in Clients : Grant(c)) \/ Release \/ Jam

LockSpec == LockInit /\ [][LockNext]_lockVars
=============================================================================
