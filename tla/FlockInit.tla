----------------------------- MODULE FlockInit ------------------------------
(***************************************************************************)
(* The birth of flock.bin: hako::utils::sem::flock::create of              *)
(* hako_sem_flock.cpp over hako_flock_create of hako_flock.cpp, called by  *)
(* every process that creates a shared memory.                             *)
(*                                                                         *)
(* The file appears under its name before its metadata is committed.  One  *)
(* process creates and fills it; the others wait for the metadata, for a   *)
(* bounded time, and leave a file alone that never gets any.  The first    *)
(* memory of a session (key 0) also clears the asset semaphores that an    *)
(* earlier session left behind.  A process may be killed between any two   *)
(* steps; the operating system then drops its file lock and nothing else.  *)
(* The semaphores and the master lock in use meanwhile are the             *)
(* environment of the module; MasterLock has the lock itself.              *)
(***************************************************************************)
EXTENDS Naturals

CONSTANTS
  Procs,     \* processes that call create()
  NoProc,    \* nobody
  Keys,      \* subset of {"first", "second"}: HAKO_SHARED_MEMORY_ID_0 and _1
  Origins,   \* the files a session may begin with
  MayDie,    \* processes that may be killed
  Impatient, \* processes whose deadline may pass before a slow creator is done
  MaxUps     \* bound on an asset semaphore

ASSUME FlockInitAssumption ==
  /\ NoProc \notin Procs
  /\ Keys \subseteq {"first", "second"}
  /\ Origins \subseteq {"none", "legacy", "v1", "orphan"}
  /\ MayDie \subseteq Procs
  /\ Impatient \subseteq Procs
  /\ MaxUps \in Nat

VARIABLES
  file,    \* flock.bin: its size, the master counter, the metadata
  sem,     \* the asset semaphores, as one counter
  os,      \* holder of the operating system's lock on the file
  proc,    \* proc[p]: program point, key and HakoFlockObjectType.created
  owner,   \* the process that holds the master lock
  origin   \* history: what the session began with

vars == <<file, sem, os, proc, owner, origin>>

\* Sizes: MASTER_LOCK_METADATA_OFFSET is "legacy", MASTER_LOCK_FLOCK_SIZE "full".
File == [size : {"absent", "empty", "legacy", "full"}, counter : {0, 1},
         meta : {"zero", "unlocked", "locked"}]

Points == {"start", "truncate", "open", "i_lock", "i_counters", "i_meta",
           "i_release", "w_size", "w_try", "s_lock", "s_inspect", "s_clear",
           "s_release", "done", "dead"}

TypeOK ==
  /\ file \in File
  /\ sem \in 0 .. MaxUps
  /\ os \in Procs \cup {NoProc}
  /\ proc \in [Procs -> [pc : Points, key : Keys, created : BOOLEAN,
                         waited : BOOLEAN]]
  /\ owner \in Procs \cup {NoProc}
  /\ origin \in Origins

\* An earlier session leaves a file of its layout, with the semaphores as they
\* were and the master lock free, or held by a process that is gone.
Init ==
  /\ origin \in Origins
  /\ file = CASE origin = "none"   -> [size |-> "absent", counter |-> 0, meta |-> "zero"]
              [] origin = "legacy" -> [size |-> "legacy", counter |-> 1, meta |-> "zero"]
              [] origin = "v1"     -> [size |-> "full", counter |-> 1, meta |-> "unlocked"]
              [] origin = "orphan" -> [size |-> "full", counter |-> 0, meta |-> "locked"]
  /\ sem \in IF origin = "none" THEN {0} ELSE 0 .. MaxUps
  /\ os = NoProc
  /\ proc \in [Procs -> [pc : {"start"}, key : Keys, created : {FALSE},
                         waited : {FALSE}]]
  /\ owner = NoProc

At(p, pc) == proc[p].pc = pc
Goto(p, pc) == proc' = [proc EXCEPT ![p].pc = pc]
Free == os = NoProc

\* Metadata as wait_for_existing_flock_initialization accepts it.
Initialized == file.size = "full" /\ file.meta # "zero"

-----------------------------------------------------------------------------
(* hako_flock_create *)

\* Mutant: without O_EXCL every process takes itself for the creator.
CreateExclusiveNot(p) ==
  /\ At(p, "start")
  /\ file' = [file EXCEPT !.size = IF @ = "absent" THEN "empty" ELSE @]
  /\ proc' = [proc EXCEPT ![p].pc = "truncate", ![p].created = TRUE]
  /\ UNCHANGED <<sem, os, owner, origin>>

\* Mutant: a file without metadata is taken over by the next process.
CreateExclusiveTakesOver(p) ==
  /\ At(p, "start")
  /\ IF file.size = "absent" \/ (file.size = "full" /\ file.meta = "zero")
     THEN /\ file' = [file EXCEPT !.size = IF @ = "absent" THEN "empty" ELSE @]
          /\ proc' = [proc EXCEPT ![p].pc = "truncate", ![p].created = TRUE]
     ELSE /\ UNCHANGED file
          /\ Goto(p, "open")
  /\ UNCHANGED <<sem, os, owner, origin>>

\* open(O_CREAT | O_EXCL): one process creates the file.
CreateExclusive(p) ==
  /\ At(p, "start")
  /\ IF file.size = "absent"
     THEN /\ file' = [file EXCEPT !.size = "empty"]
          /\ proc' = [proc EXCEPT ![p].pc = "truncate", ![p].created = TRUE]
     ELSE /\ UNCHANGED file
          /\ Goto(p, "open")
  /\ UNCHANGED <<sem, os, owner, origin>>

\* ftruncate extends the file with zeros.
Truncate(p) ==
  /\ At(p, "truncate")
  /\ file' = [file EXCEPT !.size = "full"]
  /\ Goto(p, "open")
  /\ UNCHANGED <<sem, os, owner, origin>>

Open(p) ==
  /\ At(p, "open")
  /\ Goto(p, IF proc[p].created THEN "i_lock" ELSE "w_size")
  /\ UNCHANGED <<file, sem, os, owner, origin>>

-----------------------------------------------------------------------------
(* initialize_new_flock *)

InitLock(p) ==
  /\ At(p, "i_lock")
  /\ Free /\ os' = p
  /\ Goto(p, "i_counters")
  /\ UNCHANGED <<file, sem, owner, origin>>

InitCounters(p) ==
  /\ At(p, "i_counters")
  /\ file' = [file EXCEPT !.counter = 1]
  /\ sem' = 0
  /\ Goto(p, "i_meta")
  /\ UNCHANGED <<os, owner, origin>>

InitMetadata(p) ==
  /\ At(p, "i_meta")
  /\ file' = [file EXCEPT !.meta = "unlocked"]
  /\ Goto(p, "i_release")
  /\ UNCHANGED <<sem, os, owner, origin>>

\* A write that fails, here or in the sweep below, releases the file and throws.
WriteFails(p) ==
  /\ proc[p].pc \in {"i_counters", "i_meta", "s_clear"}
  /\ p \in MayDie
  /\ os' = NoProc
  /\ Goto(p, "dead")
  /\ UNCHANGED <<file, sem, owner, origin>>

InitRelease(p) ==
  /\ At(p, "i_release")
  /\ os' = NoProc
  /\ Goto(p, "done")
  /\ UNCHANGED <<file, sem, owner, origin>>

-----------------------------------------------------------------------------
(* wait_for_existing_flock_initialization *)

AfterWait(p) == IF proc[p].key = "first" THEN "s_lock" ELSE "done"

\* Mutant: every file without metadata is taken for a legacy file.
WaitSizeShort(p) ==
  /\ At(p, "w_size")
  /\ Goto(p, IF file.size # "full" THEN AfterWait(p) ELSE "w_try")
  /\ UNCHANGED <<file, sem, os, owner, origin>>

\* The exact legacy size is not waited for.
WaitSize(p) ==
  /\ At(p, "w_size")
  /\ Goto(p, IF file.size = "legacy" THEN AfterWait(p) ELSE "w_try")
  /\ UNCHANGED <<file, sem, os, owner, origin>>

\* hako_flock_try_acquire, the metadata, the release: nobody else writes while
\* the lock is held.  A busy lock or missing metadata: sleep and try again.
WaitTry(p) ==
  /\ At(p, "w_try")
  /\ Free
  /\ Initialized
  /\ Goto(p, AfterWait(p))
  /\ UNCHANGED <<file, sem, os, owner, origin>>

Creating(q) ==
  proc[q].created /\ proc[q].pc \in {"truncate", "open", "i_lock", "i_counters",
                                     "i_meta", "i_release"}

\* Mutant: the wait has no deadline.
WaitTimeoutNever(p) ==
  /\ At(p, "w_try")
  /\ FALSE
  /\ UNCHANGED vars

\* Mutant: after the deadline the waiter initializes the file itself.
WaitTimeoutRepairs(p) ==
  /\ At(p, "w_try")
  /\ ~(Free /\ Initialized)
  /\ Goto(p, "i_lock")
  /\ UNCHANGED <<file, sem, os, owner, origin>>

\* The deadline passes: when nobody is creating the file any more, or when the
\* creator is slower than FLOCK_INITIALIZATION_WAIT_MS.  The file is left alone.  (A flock() call that
\* fails for another reason than a busy lock ends the wait in the same way.)
WaitTimeout(p) ==
  /\ At(p, "w_try")
  /\ ~(Free /\ Initialized)
  /\ (\E q \in Procs : Creating(q)) => p \in Impatient
  /\ proc' = [proc EXCEPT ![p].pc = AfterWait(p), ![p].waited = TRUE]
  /\ UNCHANGED <<file, sem, os, owner, origin>>

-----------------------------------------------------------------------------
(* reset_asset_semaphores_for_clean_master_start *)

SweepLock(p) ==
  /\ At(p, "s_lock")
  /\ Free /\ os' = p
  /\ Goto(p, "s_inspect")
  /\ UNCHANGED <<file, sem, owner, origin>>

\* inspect_locked finds the lock healthy, unlocked and available.
Clean == file.size = "full" /\ file.meta = "unlocked" /\ file.counter = 1

\* Mutant: the file lock is given up between the inspection and the sweep.
SweepInspectUnlocks(p) ==
  /\ At(p, "s_inspect")
  /\ Goto(p, IF Clean THEN "s_clear" ELSE "s_release")
  /\ os' = NoProc
  /\ UNCHANGED <<file, sem, owner, origin>>

SweepInspect(p) ==
  /\ At(p, "s_inspect")
  /\ Goto(p, IF Clean THEN "s_clear" ELSE "s_release")
  /\ UNCHANGED <<file, sem, os, owner, origin>>

SweepClear(p) ==
  /\ At(p, "s_clear")
  /\ sem' = 0
  /\ Goto(p, "s_release")
  /\ UNCHANGED <<file, os, owner, origin>>

SweepRelease(p) ==
  /\ At(p, "s_release")
  /\ os' = NoProc
  /\ Goto(p, "done")
  /\ UNCHANGED <<file, sem, owner, origin>>

-----------------------------------------------------------------------------
(* The file in use, and death *)

\* master_lock and master_unlock of a process that is done, as one step each:
\* the counter and the metadata change under the file lock.
MasterLock(p) ==
  /\ At(p, "done") /\ Free
  /\ Clean
  /\ file' = [file EXCEPT !.counter = 0, !.meta = "locked"]
  /\ owner' = p
  /\ UNCHANGED <<sem, os, proc, origin>>

MasterUnlock(p) ==
  /\ At(p, "done") /\ Free
  /\ owner = p
  /\ file' = [file EXCEPT !.counter = 1, !.meta = "unlocked"]
  /\ owner' = NoProc
  /\ UNCHANGED <<sem, os, proc, origin>>

\* asset_up, without asking for the health of the master lock.
AssetUp(p) ==
  /\ At(p, "done") /\ Free
  /\ sem < MaxUps
  /\ sem' = sem + 1
  /\ UNCHANGED <<file, os, proc, owner, origin>>

\* asset_down: the round of the polling loop that finds the semaphore up.
AssetDown(p) ==
  /\ At(p, "done") /\ Free
  /\ sem > 0
  /\ sem' = sem - 1
  /\ UNCHANGED <<file, os, proc, owner, origin>>

Die(p) ==
  /\ p \in MayDie
  /\ proc[p].pc # "dead"
  /\ os' = IF os = p THEN NoProc ELSE os
  /\ Goto(p, "dead")
  /\ UNCHANGED <<file, sem, owner, origin>>

CreateStep(p) ==
  \/ CreateExclusive(p) \/ Truncate(p) \/ Open(p)
  \/ InitLock(p) \/ InitCounters(p) \/ InitMetadata(p) \/ InitRelease(p)
  \/ WaitSize(p) \/ WaitTry(p) \/ WaitTimeout(p)
  \/ SweepLock(p) \/ SweepInspect(p) \/ SweepClear(p) \/ SweepRelease(p)

Use(p) == MasterLock(p) \/ MasterUnlock(p) \/ AssetUp(p) \/ AssetDown(p)

Next == \E p \in Procs : CreateStep(p) \/ WriteFails(p) \/ Use(p) \/ Die(p)

Spec == Init /\ [][Next]_vars

\* Nothing obliges a process to use the file or to die; create() goes on, and
\* flock(LOCK_EX) is granted to every waiter in the end.
FairSpec == Spec /\ \A p \in Procs : SF_vars(CreateStep(p))

-----------------------------------------------------------------------------
(* Properties *)

\* A process that comes back from create() before its deadline finds the
\* metadata committed, however late the creator is: the window between the
\* appearance of the file and its initialization is never mistaken for a
\* broken session (wait_for_existing_flock_initialization).
ReturnsInitialized ==
  \A p \in Procs :
    At(p, "done") /\ ~proc[p].waited /\ origin # "legacy" => Initialized

\* A file of the legacy layout is never modified by create(), whatever the
\* processes do (wait_for_existing_flock_initialization, create).
LegacyUntouched ==
  origin = "legacy" => file = [size |-> "legacy", counter |-> 1, meta |-> "zero"]

\* A master lock that a process holds stays recorded in the file: no creation
\* initializes the counter or the metadata under a holder
\* (hako_flock_create's O_EXCL, initialize_new_flock).
HeldLockIsRecorded ==
  owner # NoProc => file.counter = 0 /\ file.meta = "locked"

\* The asset semaphores are cleared only while the master lock is healthy and
\* free, and it stays so until they are cleared
\* (reset_asset_semaphores_for_clean_master_start).
SweepExcludesHolder ==
  \A p \in Procs : At(p, "s_clear") => owner = NoProc /\ Clean

\* A file whose creator is gone before the metadata was written stays without:
\* no other process completes or repairs it
\* (the last comment of wait_for_existing_flock_initialization).
InterruptedStaysUntouched ==
  [][file.size # "absent" /\ ~Initialized /\ (\A p \in Procs : ~Creating(p))
     => UNCHANGED file]_vars

\* create() returns, or its process dies, even if the creator dies half way
\* through (FLOCK_INITIALIZATION_WAIT_MS).
CreateReturns == \A p \in Procs : <>(proc[p].pc \in {"done", "dead"})
=============================================================================
