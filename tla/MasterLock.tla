----------------------------- MODULE MasterLock -----------------------------
(***************************************************************************)
(* The file-backed master lock of hako_sem_flock.cpp.                      *)
(*                                                                         *)
(* Threads of several processes take one logical lock that is kept in      *)
(* flock.bin: a counter (1 = free, 0 = taken) followed by an owner record  *)
(* (transition state, owner identity, generation, checksum).  The file is  *)
(* only read or written under the OS file lock, which the kernel drops     *)
(* when its holder dies; the record survives and is the evidence from      *)
(* which later callers conclude that the owner is gone.                    *)
(*                                                                         *)
(* Every write to the file is a step of its own, so that a crash or a      *)
(* failed write can fall between any two of them.                          *)
(***************************************************************************)
EXTENDS Naturals, FiniteSets

CONSTANTS
  Procs,          \* process slots (a slot is a PID: it is reused after a crash)
  Threads,        \* threads that may call the lock
  ProcOf,         \* ProcOf[t] is the process thread t runs in
  NoProc,         \* owner_pid = 0
  NoThread,       \* nobody holds a mutex or the OS file lock
  WaitModes,      \* subset of BOOLEAN: may callers open a HakoFlockWaitScope?
  LookupMayFail,  \* may /proc be unreadable when an identity is looked up?
  MaxCalls,       \* bound: API calls per thread
  MaxStarts,      \* bound: incarnations per process slot
  MaxFaults       \* bound: failing pread(), pwrite() and flock() calls

ASSUME ProcAssumption ==
  /\ NoProc \notin Procs
  /\ NoThread \notin Threads
  /\ ProcOf \in [Threads -> Procs]

ASSUME BoundAssumption ==
  /\ WaitModes \subseteq BOOLEAN
  /\ LookupMayFail \in BOOLEAN
  /\ MaxCalls \in Nat
  /\ MaxStarts \in Nat
  /\ MaxFaults \in Nat

VARIABLES
  pc,       \* pc[t]: where thread t is
  mutex,    \* mutex[p]: holder of the process-wide local_mutex
  osLock,   \* holder of the OS lock on flock.bin
  meta,     \* the owner record in flock.bin
  counter,  \* counter zero of flock.bin
  alive,    \* alive[p]: process slot p runs
  token,    \* token[p]: start token of the last incarnation of slot p
  bounded,  \* bounded[t]: t runs inside a HakoFlockWaitScope
  outcome,  \* outcome[t]: how the last call of t ended
  calls,    \* calls[t]: calls made so far (bounded by MaxCalls)
  faults    \* failed system calls so far (bounded by MaxFaults)

vars == <<pc, mutex, osLock, meta, counter, alive, token, bounded, outcome,
          calls, faults>>

MasterLockState == {"Unlocked", "Acquiring", "Locked", "Releasing"}

\* A process identity: a PID and the start token of its incarnation.
Identity == [pid : Procs \cup {NoProc}, token : Nat]

NoOwner == [pid |-> NoProc, token |-> 0]

\* checksum: whether it matches the record (not after a short write).
Metadata == [state : MasterLockState, owner : Identity, generation : Nat,
             checksum : {"valid", "invalid"}]

\* Unreadable: the file could not be read (the code's causes Corrupt and
\* Format, without any damage to the file).
Outcome == {"None", "Ok", "Abort", "Corrupt", "Identity", "System",
            "Contention", "Timeout", "Unreadable"}

LockPC == {"l_mutex", "l_os", "l_inspect", "l_acquiring", "l_counter",
           "l_locked", "l_release", "l_sleep"}

UnlockPC == {"u_mutex", "u_os", "u_inspect", "u_releasing", "u_counter",
             "u_unlocked", "u_release"}

CheckPC == {"c_os", "c_inspect"}

PC == {"idle", "critical", "dead"} \cup LockPC \cup UnlockPC \cup CheckPC

\* Program points at which a thread owns the OS file lock.
InOsPC == {"l_inspect", "l_acquiring", "l_counter", "l_locked", "l_release",
           "u_inspect", "u_releasing", "u_counter", "u_unlocked", "u_release",
           "c_inspect"}

\* Program points at which a thread owns its process's local_mutex.
InMutexPC == (InOsPC \ {"c_inspect"}) \cup {"l_os", "u_os"}

TypeOK ==
  /\ pc \in [Threads -> PC]
  /\ mutex \in [Procs -> Threads \cup {NoThread}]
  /\ osLock \in Threads \cup {NoThread}
  /\ meta \in Metadata
  /\ counter \in {0, 1}
  /\ alive \in [Procs -> BOOLEAN]
  /\ token \in [Procs -> Nat]
  /\ bounded \in [Threads -> BOOLEAN]
  /\ outcome \in [Threads -> Outcome]
  /\ calls \in [Threads -> Nat]
  /\ faults \in Nat

-----------------------------------------------------------------------------
(* Process identity and inspection *)

Self(t) == [pid |-> ProcOf[t], token |-> token[ProcOf[t]]]

\* The incarnation that an identity names is still running.
Running(id) ==
  /\ id.pid \in Procs
  /\ alive[id.pid]
  /\ token[id.pid] = id.token

\* Mutant: the lookup compares PIDs and forgets the start token.
check_pid_only(id) ==
  (IF id = NoOwner THEN {"Unknown"}
   ELSE IF alive[id.pid] THEN {"Alive"} ELSE {"Dead"})
  \cup (IF LookupMayFail THEN {"Unknown"} ELSE {})

\* hako_check_process_identity: what a lookup of id may report.
check_process_identity(id) ==
  (IF id = NoOwner THEN {"Unknown"}
   ELSE IF Running(id) THEN {"Alive"} ELSE {"Dead"})
  \cup (IF LookupMayFail THEN {"Unknown"} ELSE {})

\* The verdict on a record that names an owner whose status is s.
OwnedVerdict(s) ==
  CASE s = "Dead"    -> "Abort"
    [] s = "Unknown" -> "Identity"
    [] s = "Alive"   -> IF meta.state = "Locked" /\ counter = 0
                        THEN "Held" ELSE "Corrupt"

\* Mutant: a counter of 1 is taken for a free lock, whatever the record says.
VerdictByCounter(s) ==
  IF meta.checksum = "invalid" THEN "Corrupt"
  ELSE IF counter = 1 THEN "Free" ELSE OwnedVerdict(s)

\* inspect_locked: the verdict on the file when the owner's status is s.
\* "Free" and "Held" are the two Ok verdicts.
Verdict(s) ==
  IF meta.checksum = "invalid" THEN "Corrupt"
  ELSE IF meta.state # "Unlocked" THEN OwnedVerdict(s)
  ELSE IF counter = 1 /\ meta.owner = NoOwner THEN "Free" ELSE "Corrupt"

inspect_locked == {Verdict(s) : s \in check_process_identity(meta.owner)}

\* The file is in the one state from which a caller may take the lock.
Grantable ==
  /\ meta.checksum = "valid"
  /\ meta.state = "Unlocked"
  /\ meta.owner = NoOwner
  /\ counter = 1

-----------------------------------------------------------------------------
(* Building blocks of the actions *)

Goto(t, l) == pc' = [pc EXCEPT ![t] = l]

UnlockMutex(t) == mutex' = [mutex EXCEPT ![ProcOf[t]] = NoThread]

\* release_on_error / hako_flock_release followed by the return or the throw
\* that unwinds local_lock.
LeaveFile(t, l, o) ==
  /\ osLock' = NoThread
  /\ UnlockMutex(t)
  /\ Goto(t, l)
  /\ outcome' = [outcome EXCEPT ![t] = o]

FileUnchanged == UNCHANGED <<meta, counter>>
ProcsUnchanged == UNCHANGED <<alive, token>>
CallUnchanged == UNCHANGED <<bounded, calls>>

\* write_metadata succeeds: the record goes out with a fresh checksum.
WriteMetadata(state, owner, generation) ==
  /\ meta' = [state |-> state, owner |-> owner, generation |-> generation,
              checksum |-> "valid"]
  /\ UNCHANGED <<counter, faults>>

\* write_metadata fails: pwrite() wrote nothing or only a prefix.
WriteMetadataFails ==
  /\ faults < MaxFaults
  /\ faults' = faults + 1
  /\ meta' \in {meta, [meta EXCEPT !.checksum = "invalid"]}
  /\ UNCHANGED counter

\* The pwrite() of the four-byte counter fails and changes nothing.
WriteCounterFails ==
  /\ faults < MaxFaults
  /\ faults' = faults + 1
  /\ FileUnchanged

\* A system call that leaves the file alone fails: pread() or flock().
SystemCallFails ==
  /\ faults < MaxFaults
  /\ faults' = faults + 1

\* hako_flock_wait_checkpoint throws (deadline passed, or interrupted): only
\* inside a HakoFlockWaitScope.
CheckpointThrows(t) == bounded[t]

-----------------------------------------------------------------------------
(* master_lock *)

\* Entry of master_lock, with or without a HakoFlockWaitScope around it.
LockCall(t) ==
  /\ pc[t] = "idle"
  /\ calls[t] < MaxCalls
  /\ calls' = [calls EXCEPT ![t] = @ + 1]
  /\ \E b \in WaitModes : bounded' = [bounded EXCEPT ![t] = b]
  /\ \/ /\ Goto(t, "l_mutex")
        /\ outcome' = [outcome EXCEPT ![t] = "None"]
     \/ /\ LookupMayFail
        /\ outcome' = [outcome EXCEPT ![t] = "Identity"]
        /\ UNCHANGED pc
  /\ UNCHANGED <<mutex, osLock, faults>>
  /\ FileUnchanged /\ ProcsUnchanged

\* local_lock.lock() at the top of the loop, then the loop's checkpoint.
LockMutex(t) ==
  /\ pc[t] = "l_mutex"
  /\ mutex[ProcOf[t]] = NoThread
  /\ \/ /\ mutex' = [mutex EXCEPT ![ProcOf[t]] = t]
        /\ Goto(t, "l_os")
        /\ UNCHANGED outcome
     \/ /\ CheckpointThrows(t)
        /\ Goto(t, "idle")
        /\ outcome' = [outcome EXCEPT ![t] = "Timeout"]
        /\ UNCHANGED mutex
  /\ UNCHANGED <<osLock, faults>>
  /\ FileUnchanged /\ ProcsUnchanged /\ CallUnchanged

\* Mutant: the OS lock is not exclusive.
LockOsShared(t) ==
  /\ pc[t] = "l_os"
  /\ osLock' = t
  /\ Goto(t, "l_inspect")
  /\ UNCHANGED <<mutex, outcome, faults>>
  /\ FileUnchanged /\ ProcsUnchanged /\ CallUnchanged

\* hako_flock_acquire gets the OS lock.
LockOs(t) ==
  /\ pc[t] = "l_os"
  /\ osLock = NoThread
  /\ osLock' = t
  /\ Goto(t, "l_inspect")
  /\ UNCHANGED <<mutex, outcome, faults>>
  /\ FileUnchanged /\ ProcsUnchanged /\ CallUnchanged

\* hako_flock_acquire throws: at its own checkpoint, or because flock() failed.
AcquireThrows(t) ==
  /\ \/ /\ CheckpointThrows(t)
        /\ outcome' = [outcome EXCEPT ![t] = "Timeout"]
        /\ UNCHANGED faults
     \/ /\ SystemCallFails
        /\ outcome' = [outcome EXCEPT ![t] = "System"]
  /\ UnlockMutex(t)
  /\ Goto(t, "idle")
  /\ UNCHANGED osLock

LockOsThrows(t) ==
  /\ pc[t] = "l_os"
  /\ AcquireThrows(t)
  /\ FileUnchanged /\ ProcsUnchanged /\ CallUnchanged

\* Mutant: every Ok verdict is taken for a free lock.
LockInspectAnyOk(t) ==
  /\ pc[t] = "l_inspect"
  /\ \E v \in inspect_locked :
       \/ /\ v \in {"Free", "Held"}
          /\ Goto(t, "l_acquiring")
          /\ UNCHANGED <<mutex, osLock, outcome>>
       \/ /\ v \in {"Abort", "Corrupt", "Identity"}
          /\ LeaveFile(t, "idle", v)
  /\ UNCHANGED faults
  /\ FileUnchanged /\ ProcsUnchanged /\ CallUnchanged

\* inspect_locked and the branches on its result: take the lock, poll again,
\* or report that the file can no longer be trusted.
LockInspect(t) ==
  /\ pc[t] = "l_inspect"
  /\ \/ /\ \E v \in inspect_locked :
             \/ /\ v = "Free"
                /\ Goto(t, "l_acquiring")
                /\ UNCHANGED <<mutex, osLock, outcome>>
             \/ /\ v = "Held" \/ (v = "Identity" /\ bounded[t])
                /\ LeaveFile(t, "l_sleep", "None")
             \/ /\ v \in {"Abort", "Corrupt"} \/ (v = "Identity" /\ ~bounded[t])
                /\ LeaveFile(t, "idle", v)
        /\ UNCHANGED faults
     \/ /\ SystemCallFails
        /\ LeaveFile(t, "idle", "Unreadable")
  /\ FileUnchanged /\ ProcsUnchanged /\ CallUnchanged

\* The 20 ms sleep between two attempts and the checkpoint after it.
LockSleep(t) ==
  /\ pc[t] = "l_sleep"
  /\ \/ Goto(t, "l_mutex") /\ UNCHANGED outcome
     \/ /\ CheckpointThrows(t)
        /\ Goto(t, "idle")
        /\ outcome' = [outcome EXCEPT ![t] = "Timeout"]
  /\ UNCHANGED <<mutex, osLock, faults>>
  /\ FileUnchanged /\ ProcsUnchanged /\ CallUnchanged

\* Mutant: the generation is not advanced.
LockWriteAcquiringSame(t) ==
  /\ pc[t] = "l_acquiring"
  /\ \/ /\ WriteMetadata("Acquiring", Self(t), meta.generation)
        /\ Goto(t, "l_counter")
        /\ UNCHANGED <<mutex, osLock, outcome>>
     \/ /\ WriteMetadataFails
        /\ LeaveFile(t, "idle", "System")
  /\ ProcsUnchanged /\ CallUnchanged

\* Mutant: a first write that fails is reported as an aborted protocol.
LockWriteAcquiringAborts(t) ==
  /\ pc[t] = "l_acquiring"
  /\ \/ /\ WriteMetadata("Acquiring", Self(t), meta.generation + 1)
        /\ Goto(t, "l_counter")
        /\ UNCHANGED <<mutex, osLock, outcome>>
     \/ /\ WriteMetadataFails
        /\ LeaveFile(t, "idle", "Abort")
  /\ ProcsUnchanged /\ CallUnchanged

\* Record ACQUIRING, the owner and the next generation.
LockWriteAcquiring(t) ==
  /\ pc[t] = "l_acquiring"
  /\ \/ /\ WriteMetadata("Acquiring", Self(t), meta.generation + 1)
        /\ Goto(t, "l_counter")
        /\ UNCHANGED <<mutex, osLock, outcome>>
     \/ /\ WriteMetadataFails
        /\ LeaveFile(t, "idle", "System")
  /\ ProcsUnchanged /\ CallUnchanged

\* Set the counter to 0.
LockWriteCounter(t) ==
  /\ pc[t] = "l_counter"
  /\ \/ /\ counter' = 0
        /\ Goto(t, "l_locked")
        /\ UNCHANGED <<meta, faults, mutex, osLock, outcome>>
     \/ /\ WriteCounterFails
        /\ LeaveFile(t, "idle", "Abort")
  /\ ProcsUnchanged /\ CallUnchanged

\* Commit LOCKED.
LockWriteLocked(t) ==
  /\ pc[t] = "l_locked"
  /\ \/ /\ WriteMetadata("Locked", meta.owner, meta.generation)
        /\ Goto(t, "l_release")
        /\ UNCHANGED <<mutex, osLock, outcome>>
     \/ /\ WriteMetadataFails
        /\ LeaveFile(t, "idle", "Abort")
  /\ ProcsUnchanged /\ CallUnchanged

\* Release the OS lock and return: the caller now holds the master lock.
LockReturn(t) ==
  /\ pc[t] = "l_release"
  /\ LeaveFile(t, "critical", "Ok")
  /\ UNCHANGED faults
  /\ FileUnchanged /\ ProcsUnchanged /\ CallUnchanged

-----------------------------------------------------------------------------
(* master_unlock *)

\* Entry of master_unlock.  When the caller's own identity cannot be read the
\* call throws at once and the lock stays taken.
UnlockCall(t) ==
  /\ pc[t] = "critical"
  /\ \/ Goto(t, "u_mutex") /\ UNCHANGED outcome
     \/ /\ LookupMayFail
        /\ Goto(t, "idle")
        /\ outcome' = [outcome EXCEPT ![t] = "Identity"]
  /\ UNCHANGED <<mutex, osLock, faults>>
  /\ FileUnchanged /\ ProcsUnchanged /\ CallUnchanged

UnlockMutexTake(t) ==
  /\ pc[t] = "u_mutex"
  /\ mutex[ProcOf[t]] = NoThread
  /\ mutex' = [mutex EXCEPT ![ProcOf[t]] = t]
  /\ Goto(t, "u_os")
  /\ UNCHANGED <<osLock, outcome, faults>>
  /\ FileUnchanged /\ ProcsUnchanged /\ CallUnchanged

UnlockOs(t) ==
  /\ pc[t] = "u_os"
  /\ osLock = NoThread
  /\ osLock' = t
  /\ Goto(t, "u_inspect")
  /\ UNCHANGED <<mutex, outcome, faults>>
  /\ FileUnchanged /\ ProcsUnchanged /\ CallUnchanged

\* The scope that bounds master_lock also bounds the acquisition inside
\* master_unlock, and flock() may fail: it throws and the logical lock stays taken.
UnlockOsThrows(t) ==
  /\ pc[t] = "u_os"
  /\ AcquireThrows(t)
  /\ FileUnchanged /\ ProcsUnchanged /\ CallUnchanged

\* Only the recorded owner of a LOCKED file may release it.
UnlockInspect(t) ==
  /\ pc[t] = "u_inspect"
  /\ \/ /\ \E v \in inspect_locked :
             \/ /\ v = "Held" /\ meta.owner = Self(t)
                /\ Goto(t, "u_releasing")
                /\ UNCHANGED <<mutex, osLock, outcome>>
             \/ /\ v = "Free" \/ (v = "Held" /\ meta.owner # Self(t))
                /\ LeaveFile(t, "idle", "Identity")
             \/ /\ v \in {"Abort", "Corrupt", "Identity"}
                /\ LeaveFile(t, "idle", v)
        /\ UNCHANGED faults
     \/ /\ SystemCallFails
        /\ LeaveFile(t, "idle", "Unreadable")
  /\ FileUnchanged /\ ProcsUnchanged /\ CallUnchanged

UnlockWriteReleasing(t) ==
  /\ pc[t] = "u_releasing"
  /\ \/ /\ WriteMetadata("Releasing", meta.owner, meta.generation)
        /\ Goto(t, "u_counter")
        /\ UNCHANGED <<mutex, osLock, outcome>>
     \/ /\ WriteMetadataFails
        /\ LeaveFile(t, "idle", "Abort")
  /\ ProcsUnchanged /\ CallUnchanged

UnlockWriteCounter(t) ==
  /\ pc[t] = "u_counter"
  /\ \/ /\ counter' = 1
        /\ Goto(t, "u_unlocked")
        /\ UNCHANGED <<meta, faults, mutex, osLock, outcome>>
     \/ /\ WriteCounterFails
        /\ LeaveFile(t, "idle", "Abort")
  /\ ProcsUnchanged /\ CallUnchanged

UnlockWriteUnlocked(t) ==
  /\ pc[t] = "u_unlocked"
  /\ \/ /\ WriteMetadata("Unlocked", NoOwner, meta.generation)
        /\ Goto(t, "u_release")
        /\ UNCHANGED <<mutex, osLock, outcome>>
     \/ /\ WriteMetadataFails
        /\ LeaveFile(t, "idle", "Abort")
  /\ ProcsUnchanged /\ CallUnchanged

UnlockReturn(t) ==
  /\ pc[t] = "u_release"
  /\ LeaveFile(t, "idle", "Ok")
  /\ UNCHANGED faults
  /\ FileUnchanged /\ ProcsUnchanged /\ CallUnchanged

-----------------------------------------------------------------------------
(* inspect_master_lock, the diagnostic check; it opens a handle of its own   *)
(* and does not take local_mutex.                                           *)

\* force_wait = true waits for the OS lock under a deadline; otherwise the
\* lock is tried once and a busy lock is reported as contention.
CheckCall(t) ==
  /\ pc[t] = "idle"
  /\ calls[t] < MaxCalls
  /\ calls' = [calls EXCEPT ![t] = @ + 1]
  /\ \/ /\ osLock = NoThread
        /\ osLock' = t
        /\ Goto(t, "c_inspect")
        /\ outcome' = [outcome EXCEPT ![t] = "None"]
        /\ UNCHANGED faults
     \/ /\ osLock # NoThread
        /\ outcome' = [outcome EXCEPT ![t] = "Contention"]
        /\ UNCHANGED <<osLock, pc, faults>>
     \/ /\ SystemCallFails
        /\ outcome' = [outcome EXCEPT ![t] = "System"]
        /\ UNCHANGED <<osLock, pc>>
     \/ /\ Goto(t, "c_os")
        /\ outcome' = [outcome EXCEPT ![t] = "None"]
        /\ UNCHANGED <<osLock, faults>>
  /\ UNCHANGED <<mutex, bounded>>
  /\ FileUnchanged /\ ProcsUnchanged

CheckOs(t) ==
  /\ pc[t] = "c_os"
  /\ \/ /\ osLock = NoThread
        /\ osLock' = t
        /\ Goto(t, "c_inspect")
        /\ UNCHANGED outcome
     \/ /\ Goto(t, "idle")
        /\ outcome' = [outcome EXCEPT ![t] = "Contention"]
        /\ UNCHANGED osLock
  /\ UNCHANGED <<mutex, faults>>
  /\ FileUnchanged /\ ProcsUnchanged /\ CallUnchanged

\* The verdict is reported; the file is left as it is.
CheckInspect(t) ==
  /\ pc[t] = "c_inspect"
  /\ osLock' = NoThread
  /\ Goto(t, "idle")
  /\ \/ /\ \E v \in inspect_locked :
             outcome' = [outcome EXCEPT ![t] =
                           IF v \in {"Free", "Held"} THEN "Ok" ELSE v]
        /\ UNCHANGED faults
     \/ /\ SystemCallFails
        /\ outcome' = [outcome EXCEPT ![t] = "Unreadable"]
  /\ UNCHANGED mutex
  /\ FileUnchanged /\ ProcsUnchanged /\ CallUnchanged

-----------------------------------------------------------------------------
(* Processes *)

\* A process dies (or becomes a zombie): the kernel drops its OS lock, the
\* file keeps whatever was written.
Crash(p) ==
  /\ alive[p]
  /\ alive' = [alive EXCEPT ![p] = FALSE]
  /\ pc' = [t \in Threads |-> IF ProcOf[t] = p THEN "dead" ELSE pc[t]]
  /\ outcome' = [t \in Threads |->
                   IF ProcOf[t] = p THEN "None" ELSE outcome[t]]
  /\ mutex' = [mutex EXCEPT ![p] = NoThread]
  /\ osLock' = IF osLock # NoThread /\ ProcOf[osLock] = p
               THEN NoThread ELSE osLock
  /\ UNCHANGED <<meta, counter, token, bounded, calls, faults>>

\* The PID is reused by a new process with a new start token.
Restart(p) ==
  /\ ~alive[p]
  /\ token[p] < MaxStarts
  /\ alive' = [alive EXCEPT ![p] = TRUE]
  /\ token' = [token EXCEPT ![p] = @ + 1]
  /\ pc' = [t \in Threads |-> IF ProcOf[t] = p THEN "idle" ELSE pc[t]]
  /\ UNCHANGED <<mutex, osLock, meta, counter, bounded, outcome, calls, faults>>

-----------------------------------------------------------------------------

\* initialize_new_flock: counter 1, an UNLOCKED record of generation 0.
Init ==
  /\ pc = [t \in Threads |-> "idle"]
  /\ mutex = [p \in Procs |-> NoThread]
  /\ osLock = NoThread
  /\ meta = [state |-> "Unlocked", owner |-> NoOwner, generation |-> 0,
             checksum |-> "valid"]
  /\ counter = 1
  /\ alive = [p \in Procs |-> TRUE]
  /\ token = [p \in Procs |-> 1]
  /\ bounded = [t \in Threads |-> FALSE]
  /\ outcome = [t \in Threads |-> "None"]
  /\ calls = [t \in Threads |-> 0]
  /\ faults = 0

\* The steps of thread t that its own code takes once a call is under way.
master_lock(t) ==
  \/ LockMutex(t) \/ LockOs(t) \/ LockOsThrows(t) \/ LockInspect(t)
  \/ LockSleep(t) \/ LockWriteAcquiring(t) \/ LockWriteCounter(t)
  \/ LockWriteLocked(t) \/ LockReturn(t)

master_unlock(t) ==
  \/ UnlockCall(t) \/ UnlockMutexTake(t) \/ UnlockOs(t) \/ UnlockOsThrows(t)
  \/ UnlockInspect(t) \/ UnlockWriteReleasing(t) \/ UnlockWriteCounter(t)
  \/ UnlockWriteUnlocked(t) \/ UnlockReturn(t)

inspect_master_lock(t) == CheckOs(t) \/ CheckInspect(t)

ThreadStep(t) ==
  \/ LockCall(t) \/ CheckCall(t)
  \/ master_lock(t) \/ master_unlock(t) \/ inspect_master_lock(t)

Next ==
  \/ \E t \in Threads : ThreadStep(t)
  \/ \E p \in Procs : Crash(p) \/ Restart(p)

Spec == Init /\ [][Next]_vars

(***************************************************************************)
(* Fairness: a started call keeps running, and a holder eventually calls   *)
(* master_unlock (every API function of the core pairs the two calls).     *)
(* Strong fairness only matters where a thread waits for the OS lock or    *)
(* for local_mutex while others poll: they sleep 20 ms between attempts,   *)
(* and the kernel wakes the blocked thread when the lock is released.      *)
(* Nothing forces calls, crashes or restarts.                              *)
(***************************************************************************)
Fairness ==
  \A t \in Threads :
    SF_vars(master_lock(t) \/ master_unlock(t) \/ inspect_master_lock(t))

FairSpec == Spec /\ Fairness
-----------------------------------------------------------------------------
(* Properties *)

\* Program points of a thread that has begun to take the lock and has not
\* given it back: from the ACQUIRING record to the UNLOCKED one.
AcquiringPC == {"l_counter", "l_locked"}
HoldingPC == {"l_release", "critical", "u_mutex", "u_os", "u_inspect",
              "u_releasing"}
ReleasingPC == {"u_counter", "u_unlocked"}
EngagedPC == AcquiringPC \cup HoldingPC \cup ReleasingPC

Engaged(t) == pc[t] \in EngagedPC

\* The record a thread at program point l has left in the file.
RecordedState(l) ==
  IF l \in AcquiringPC THEN "Acquiring"
  ELSE IF l \in HoldingPC THEN "Locked" ELSE "Releasing"

\* The file names a running owner, yet no thread is going to release it.
Stranded ==
  /\ meta.checksum = "valid"
  /\ meta.state = "Locked"
  /\ Running(meta.owner)
  /\ \A t \in Threads : ~Engaged(t)

\* Between the return of master_lock and the return of master_unlock no other
\* thread of any process is in that interval, whatever crashes, PID reuses,
\* failed writes and expired waits happened before, and the file says so: it
\* is LOCKED with counter 0 by the holder's own incarnation.
MutualExclusion ==
  \A t \in Threads : pc[t] \in HoldingPC =>
    /\ meta.state = "Locked" /\ meta.checksum = "valid" /\ counter = 0
    /\ meta.owner = Self(t)
    /\ \A u \in Threads \ {t} : ~Engaged(u)

\* The OS file lock covers every access: a thread that is about to write the
\* file is its only user, and the record it is about to replace is exactly
\* the one its own previous step left (no lost or overwritten transition).
FileProtocol ==
  \A t \in Threads :
    /\ pc[t] \in InOsPC => osLock = t
    /\ pc[t] = "l_acquiring" => Grantable
    /\ Engaged(t) => /\ meta.checksum = "valid"
                     /\ meta.owner = Self(t)
                     /\ meta.state = RecordedState(pc[t])
                     /\ (counter = 1 <=> pc[t] \in {"l_counter", "u_unlocked"})

\* A caller that was told Abort or Corrupt may rely on it: from then on the
\* lock cannot be granted to anybody, so stopping every process is right.
VerdictIsFinal ==
  (\E t \in Threads : outcome[t] \in {"Abort", "Corrupt"}) => ~Grantable

\* Fail-stop: while the file names an owner that is no longer running, no
\* step of anybody changes the evidence in the file.
EvidenceKept ==
  [][(meta.state # "Unlocked" /\ ~Running(meta.owner))
       => UNCHANGED <<meta, counter>>]_vars

\* An interrupted or expired wait never leaves the lock taken behind a caller
\* that has already given up (docs/FILE_LOCK_WAIT.md: "interruption cannot
\* leave an acquired file lock behind").
InterruptionLeavesNoLock ==
  \A t \in Threads : outcome[t] = "Timeout" => ~Stranded

\* The file, seen through the abstract lock: the holder is the engaged
\* thread, and the lock is jammed once the record is damaged or names an
\* owner while no thread is engaged.
Holder ==
  IF \E t \in Threads : Engaged(t)
  THEN CHOOSE t \in Threads : Engaged(t) ELSE NoThread
Jammed ==
  \/ meta.checksum = "invalid"
  \/ meta.state # "Unlocked" /\ \A t \in Threads : ~Engaged(t)
Abstract == INSTANCE FailStopLock WITH
  Clients <- Threads, NoClient <- NoThread,
  holder <- Holder, grants <- meta.generation, jammed <- Jammed

\* The step-by-step protocol on flock.bin implements the fail-stop lock: one
\* numbered grant at a time, and none after a holder is lost.
ImplementsFailStopLock == Abstract!LockSpec

\* A caller of master_lock or master_unlock without a wait scope does not wait
\* for ever: it gets the lock or an error, because a live holder releases and a
\* dead one is detected.  The one exception is a stranded lock, whose owner
\* runs on after its master_unlock failed.  (A caller with a wait scope chooses
\* itself how long to wait.)
CallsReturn ==
  \A t \in Threads :
    ~bounded[t] /\ pc[t] \in {"l_mutex", "l_os", "l_sleep", "u_mutex", "u_os"}
      ~> (pc[t] \in {"idle", "critical", "dead"} \/ Stranded)
=============================================================================
