--------------------------- MODULE MasterLockProofs ---------------------------
(***************************************************************************)
(* Proofs about MasterLock for every set of processes and threads and      *)
(* every value of the bounds.                                              *)
(***************************************************************************)
EXTENDS MasterLock, TLAPS

\* At most one thread is between the ACQUIRING and the UNLOCKED record.
OneEngaged == \A t, u \in Threads : Engaged(t) /\ Engaged(u) => t = u

\* Only threads of running processes are at a program point.
ThreadsAlive == \A t \in Threads : pc[t] # "dead" => alive[ProcOf[t]]

\* The inductive invariant.  MutualExclusion alone is not inductive: it has to
\* know who owns the OS lock and what every engaged thread left in the file.
LockInv == TypeOK /\ FileProtocol /\ OneEngaged /\ ThreadsAlive

USE ProcAssumption, BoundAssumption

\* The inductive invariant holds of a freshly initialised flock.bin.
LEMMA InitLockInv == Init => LockInv
  BY DEF Init, LockInv, TypeOK, FileProtocol, OneEngaged, ThreadsAlive, Engaged,
         EngagedPC, AcquiringPC, HoldingPC, ReleasingPC, InOsPC, PC, LockPC,
         UnlockPC, CheckPC, Metadata, Identity, NoOwner, Outcome,
         MasterLockState

\* What the verdicts of inspect_locked say about the file.
LEMMA VerdictMeaning ==
  ASSUME LockInv, NEW v \in inspect_locked
  PROVE  /\ v \in {"Free", "Held", "Abort", "Corrupt", "Identity"}
         /\ v = "Free" => Grantable
         /\ v = "Held" => meta.state = "Locked" /\ counter = 0 /\ meta.checksum = "valid"
  BY DEF inspect_locked, check_process_identity, Verdict, OwnedVerdict,
         Grantable, LockInv, TypeOK, Metadata, MasterLockState

\* Every step of every thread and process keeps the types.
LEMMA TypeStep == LockInv /\ [Next]_vars => TypeOK'
<1> SUFFICES ASSUME LockInv, [Next]_vars PROVE TypeOK'
  OBVIOUS
<1> USE DEF LockInv, TypeOK, PC, LockPC, UnlockPC, CheckPC, Outcome,
        FileUnchanged, ProcsUnchanged, CallUnchanged, Goto, UnlockMutex,
        LeaveFile, AcquireThrows, SystemCallFails
<1>1. ASSUME NEW t \in Threads, LockCall(t) PROVE TypeOK'
  BY <1>1 DEF LockCall
<1>2. ASSUME NEW t \in Threads, CheckCall(t) PROVE TypeOK'
  BY <1>2 DEF CheckCall
<1>3. ASSUME NEW t \in Threads, master_lock(t) PROVE TypeOK'
  <2>1. CASE LockMutex(t) BY <2>1 DEF LockMutex
  <2>2. CASE LockOs(t) BY <2>2 DEF LockOs
  <2>3. CASE LockOsThrows(t) BY <2>3 DEF LockOsThrows
  <2>4. CASE LockInspect(t) BY <2>4, VerdictMeaning DEF LockInspect
  <2>5. CASE LockSleep(t) BY <2>5 DEF LockSleep
  <2>6. CASE LockWriteAcquiring(t)
    BY <2>6 DEF LockWriteAcquiring, WriteMetadata, WriteMetadataFails, Metadata,
                MasterLockState, Identity, Self
  <2>7. CASE LockWriteCounter(t)
    BY <2>7 DEF LockWriteCounter, WriteCounterFails
  <2>8. CASE LockWriteLocked(t)
    BY <2>8 DEF LockWriteLocked, WriteMetadata, WriteMetadataFails, Metadata,
                MasterLockState
  <2>9. CASE LockReturn(t) BY <2>9 DEF LockReturn
  <2> QED BY <1>3, <2>1, <2>2, <2>3, <2>4, <2>5, <2>6, <2>7, <2>8, <2>9
          DEF master_lock
<1>4. ASSUME NEW t \in Threads, master_unlock(t) PROVE TypeOK'
  <2>1. CASE UnlockCall(t) BY <2>1 DEF UnlockCall
  <2>2. CASE UnlockMutexTake(t) BY <2>2 DEF UnlockMutexTake
  <2>3. CASE UnlockOs(t) BY <2>3 DEF UnlockOs
  <2>4. CASE UnlockOsThrows(t) BY <2>4 DEF UnlockOsThrows
  <2>5. CASE UnlockInspect(t) BY <2>5, VerdictMeaning DEF UnlockInspect
  <2>6. CASE UnlockWriteReleasing(t)
    BY <2>6 DEF UnlockWriteReleasing, WriteMetadata, WriteMetadataFails,
                Metadata, MasterLockState
  <2>7. CASE UnlockWriteCounter(t)
    BY <2>7 DEF UnlockWriteCounter, WriteCounterFails
  <2>8. CASE UnlockWriteUnlocked(t)
    BY <2>8 DEF UnlockWriteUnlocked, WriteMetadata, WriteMetadataFails,
                Metadata, MasterLockState, Identity, NoOwner
  <2>9. CASE UnlockReturn(t) BY <2>9 DEF UnlockReturn
  <2> QED BY <1>4, <2>1, <2>2, <2>3, <2>4, <2>5, <2>6, <2>7, <2>8, <2>9
          DEF master_unlock
<1>5. ASSUME NEW t \in Threads, inspect_master_lock(t) PROVE TypeOK'
  BY <1>5, VerdictMeaning DEF inspect_master_lock, CheckOs, CheckInspect
<1>6. ASSUME NEW p \in Procs, Crash(p) PROVE TypeOK'
  BY <1>6 DEF Crash
<1>7. ASSUME NEW p \in Procs, Restart(p) PROVE TypeOK'
  BY <1>7 DEF Restart
<1>8. CASE UNCHANGED vars
  BY <1>8 DEF vars
<1> QED BY <1>1, <1>2, <1>3, <1>4, <1>5, <1>6, <1>7, <1>8 DEF Next, ThreadStep

\* A thread that gives up the OS lock without having written the file, and is
\* not engaged afterwards, leaves the protocol intact.
LEMMA LeaveKeepsProtocol ==
  ASSUME LockInv, NEW t \in Threads, NEW l \in {"idle", "l_sleep"},
         pc[t] \in InOsPC, osLock' = NoThread, pc' = [pc EXCEPT ![t] = l],
         UNCHANGED <<meta, counter, alive, token>>
  PROVE  FileProtocol' /\ OneEngaged' /\ ThreadsAlive'
<1>1. /\ pc'[t] = l
      /\ \A u \in Threads \ {t} : pc'[u] = pc[u]
      /\ l \notin EngagedPC /\ l \notin InOsPC /\ l # "l_acquiring"
  BY DEF LockInv, TypeOK, EngagedPC, AcquiringPC, HoldingPC, ReleasingPC, InOsPC
<1>2. \A u \in Threads \ {t} : pc[u] \notin InOsPC
  BY DEF LockInv, FileProtocol
<1>3. FileProtocol'
  <2> SUFFICES ASSUME NEW u \in Threads
               PROVE  /\ pc'[u] \in InOsPC => osLock' = u
                      /\ pc'[u] = "l_acquiring" => Grantable'
                      /\ Engaged(u)' =>
                           /\ meta'.checksum = "valid"
                           /\ meta'.owner = Self(u)'
                           /\ meta'.state = RecordedState(pc'[u])
                           /\ (counter' = 1
                                 <=> pc'[u] \in {"l_counter", "u_unlocked"})
    BY DEF FileProtocol
  <2>1. CASE u = t
    BY <1>1, <2>1 DEF Engaged
  <2>2. CASE u # t
    BY <1>1, <1>2, <2>2 DEF Engaged, LockInv, FileProtocol, Grantable, Self
  <2> QED BY <2>1, <2>2
<1>4. OneEngaged'
  BY <1>1 DEF OneEngaged, Engaged, LockInv
<1>5. ThreadsAlive'
  BY <1>1 DEF ThreadsAlive, LockInv, FileProtocol, InOsPC
<1> QED BY <1>3, <1>4, <1>5

\* Every step keeps the OS lock, the file and the program points in agreement.
LEMMA ProtocolStep ==
  LockInv /\ [Next]_vars => FileProtocol' /\ OneEngaged' /\ ThreadsAlive'
<1> DEFINE Goal == FileProtocol' /\ OneEngaged' /\ ThreadsAlive'
<1> SUFFICES ASSUME LockInv, [Next]_vars PROVE Goal
  OBVIOUS
<1> USE DEF LockInv, TypeOK, FileProtocol, OneEngaged, ThreadsAlive, Engaged,
        EngagedPC, AcquiringPC, HoldingPC, ReleasingPC, InOsPC, RecordedState,
        FileUnchanged, ProcsUnchanged, CallUnchanged, Goto, LeaveFile, Self,
        Grantable, UnlockMutex, AcquireThrows, SystemCallFails
<1>1. ASSUME NEW t \in Threads, LockCall(t) PROVE Goal
  BY <1>1 DEF LockCall
<1>2. ASSUME NEW t \in Threads, CheckCall(t) PROVE Goal
  BY <1>2 DEF CheckCall
<1>3. ASSUME NEW t \in Threads, master_lock(t) PROVE Goal
  <2>1. CASE LockMutex(t) BY <2>1 DEF LockMutex
  <2>2. CASE LockOs(t) BY <2>2 DEF LockOs
  <2>3. CASE LockOsThrows(t) BY <2>3 DEF LockOsThrows
  <2>4. CASE LockInspect(t)
    <3>1. UNCHANGED <<meta, counter, alive, token>> /\ pc[t] = "l_inspect"
      BY <2>4 DEF LockInspect
    <3>2. CASE pc' = [pc EXCEPT ![t] = "l_acquiring"] /\ osLock' = osLock
      <4>1. Grantable
        BY <2>4, <3>2, VerdictMeaning DEF LockInspect
      <4> QED BY <3>1, <3>2, <4>1
    <3>3. CASE osLock' = NoThread /\ (\/ pc' = [pc EXCEPT ![t] = "l_sleep"]
                                     \/ pc' = [pc EXCEPT ![t] = "idle"])
      BY <3>1, <3>3, LeaveKeepsProtocol
    <3> QED BY <2>4, <3>2, <3>3 DEF LockInspect
  <2>5. CASE LockSleep(t) BY <2>5 DEF LockSleep
  <2>6. CASE LockWriteAcquiring(t)
    BY <2>6 DEF LockWriteAcquiring, WriteMetadata, WriteMetadataFails, Metadata
  <2>7. CASE LockWriteCounter(t)
    <3>1. CASE WriteCounterFails /\ LeaveFile(t, "idle", "Abort")
      BY <2>7, <3>1, LeaveKeepsProtocol DEF LockWriteCounter, WriteCounterFails
    <3>2. CASE Goto(t, "l_locked") /\ UNCHANGED <<meta, osLock>>
      <4>1. counter' = 0 /\ UNCHANGED <<alive, token>> /\ pc[t] = "l_counter"
        BY <2>7, <3>2 DEF LockWriteCounter
      <4>2. OneEngaged' BY <3>2, <4>1
      <4>3. ThreadsAlive' BY <3>2, <4>1
      <4>4. \A u \in Threads \ {t} : pc'[u] = pc[u] /\ pc[u] \notin EngagedPC
                                   /\ pc[u] \notin InOsPC
        BY <3>2, <4>1
      <4>5. FileProtocol'
        BY <3>2, <4>1, <4>4
      <4> QED BY <4>2, <4>3, <4>5
    <3> QED BY <2>7, <3>1, <3>2 DEF LockWriteCounter
  <2>8. CASE LockWriteLocked(t)
    BY <2>8 DEF LockWriteLocked, WriteMetadata, WriteMetadataFails, Metadata
  <2>9. CASE LockReturn(t)
    <3>0. /\ pc[t] = "l_release" /\ pc'[t] = "critical"
          /\ UNCHANGED <<meta, counter, alive, token>>
          /\ \A u \in Threads \ {t} : pc'[u] = pc[u] /\ pc[u] \notin InOsPC
      BY <2>9 DEF LockReturn
    <3>1. FileProtocol' BY <3>0
    <3>2. OneEngaged' /\ ThreadsAlive' BY <3>0
    <3> QED BY <3>1, <3>2
  <2> QED BY <1>3, <2>1, <2>2, <2>3, <2>4, <2>5, <2>6, <2>7, <2>8, <2>9
          DEF master_lock
<1>4. ASSUME NEW t \in Threads, master_unlock(t) PROVE Goal
  <2>1. CASE UnlockCall(t) BY <2>1 DEF UnlockCall
  <2>2. CASE UnlockMutexTake(t) BY <2>2 DEF UnlockMutexTake
  <2>3. CASE UnlockOs(t) BY <2>3 DEF UnlockOs
  <2>4. CASE UnlockOsThrows(t) BY <2>4 DEF UnlockOsThrows
  <2>5. CASE UnlockInspect(t) BY <2>5, VerdictMeaning DEF UnlockInspect
  <2>6. CASE UnlockWriteReleasing(t)
    BY <2>6 DEF UnlockWriteReleasing, WriteMetadata, WriteMetadataFails,
                Metadata
  <2>7. CASE UnlockWriteCounter(t)
    <3>1. CASE WriteCounterFails /\ LeaveFile(t, "idle", "Abort")
      BY <2>7, <3>1, LeaveKeepsProtocol DEF UnlockWriteCounter, WriteCounterFails
    <3>2. CASE Goto(t, "u_unlocked") /\ UNCHANGED <<meta, osLock>>
      <4>0. /\ pc[t] = "u_counter" /\ pc'[t] = "u_unlocked" /\ counter' = 1
            /\ UNCHANGED <<meta, osLock, alive, token>>
            /\ \A u \in Threads \ {t} : pc'[u] = pc[u] /\ pc[u] \notin InOsPC
        BY <2>7, <3>2 DEF UnlockWriteCounter
      <4>1. \A u \in Threads \ {t} : pc[u] \notin EngagedPC
        BY <4>0
      <4>2. FileProtocol'
        BY <4>0, <4>1
      <4>3. OneEngaged' /\ ThreadsAlive' BY <4>0, <4>1
      <4> QED BY <4>2, <4>3
    <3> QED BY <2>7, <3>1, <3>2 DEF UnlockWriteCounter
  <2>8. CASE UnlockWriteUnlocked(t)
    BY <2>8 DEF UnlockWriteUnlocked, WriteMetadata, WriteMetadataFails,
                Metadata
  <2>9. CASE UnlockReturn(t)
    <3>1. /\ pc[t] \in InOsPC /\ osLock' = NoThread /\ pc' = [pc EXCEPT ![t] = "idle"]
          /\ UNCHANGED <<meta, counter, alive, token>>
      BY <2>9 DEF UnlockReturn
    <3> QED BY <3>1, LeaveKeepsProtocol
  <2> QED BY <1>4, <2>1, <2>2, <2>3, <2>4, <2>5, <2>6, <2>7, <2>8, <2>9
          DEF master_unlock
<1>5. ASSUME NEW t \in Threads, inspect_master_lock(t) PROVE Goal
  <2>1. CASE CheckOs(t) BY <2>1 DEF CheckOs
  <2>2. CASE CheckInspect(t)
    <3>1. /\ pc[t] \in InOsPC /\ osLock' = NoThread /\ pc' = [pc EXCEPT ![t] = "idle"]
          /\ UNCHANGED <<meta, counter, alive, token>>
      BY <2>2 DEF CheckInspect
    <3> QED BY <3>1, LeaveKeepsProtocol
  <2> QED BY <1>5, <2>1, <2>2 DEF inspect_master_lock
<1>6. ASSUME NEW p \in Procs, Crash(p) PROVE Goal
  BY <1>6 DEF Crash
<1>7. ASSUME NEW p \in Procs, Restart(p) PROVE Goal
  BY <1>7 DEF Restart
<1>8. CASE UNCHANGED vars
  BY <1>8 DEF vars
<1> QED BY <1>1, <1>2, <1>3, <1>4, <1>5, <1>6, <1>7, <1>8 DEF Next, ThreadStep

\* The inductive invariant is preserved by every step and by stuttering.
THEOREM LockInvariance == Spec => []LockInv
<1>1. Init => LockInv
  BY InitLockInv
<1>2. LockInv /\ [Next]_vars => LockInv'
  BY TypeStep, ProtocolStep DEF LockInv
<1> QED BY <1>1, <1>2, PTL DEF Spec

\* Type correctness: the program points, the owner record and the counter of
\* flock.bin only take the values the code can write.
THEOREM TypeCorrectness == Spec => []TypeOK
  BY LockInvariance, PTL DEF LockInv

\* Mutual exclusion of master_lock / master_unlock for any number of processes
\* and threads, under crashes, PID reuse, failed writes and expired waits.
THEOREM LockIsExclusive == Spec => []MutualExclusion
<1>1. LockInv => MutualExclusion
  BY DEF LockInv, MutualExclusion, FileProtocol, OneEngaged, Engaged, EngagedPC,
         AcquiringPC, HoldingPC, ReleasingPC, RecordedState, TypeOK
<1> QED BY <1>1, LockInvariance, PTL

\* The file is only written under the OS lock, each write on top of the record
\* the same thread left.
THEOREM FileProtocolHolds == Spec => []FileProtocol
  BY LockInvariance, PTL DEF LockInv

\* The evidence a dead owner leaves in flock.bin is never overwritten: a step
\* that changes the file is one of a running thread that owns the record, or
\* starts from an UNLOCKED record.
THEOREM EvidenceIsKept == Spec => EvidenceKept
<1> DEFINE Lost == meta.state # "Unlocked" /\ ~Running(meta.owner)
<1>1. ASSUME LockInv, Lost, NEW t \in Threads
      PROVE  pc[t] \notin EngagedPC /\ pc[t] # "l_acquiring"
  <2>1. pc[t] # "l_acquiring"
    BY <1>1 DEF LockInv, FileProtocol, Grantable
  <2>2. ASSUME pc[t] \in EngagedPC PROVE FALSE
    <3>1. meta.owner = Self(t)
      BY <1>1, <2>2 DEF LockInv, FileProtocol, Engaged
    <3>2. alive[ProcOf[t]]
      BY <1>1, <2>2 DEF LockInv, ThreadsAlive, EngagedPC, AcquiringPC, HoldingPC,
                        ReleasingPC
    <3>3. ProcOf[t] \in Procs
      OBVIOUS
    <3>4. Self(t).pid = ProcOf[t] /\ Self(t).token = token[ProcOf[t]]
      BY DEF Self
    <3>5. Running(Self(t))
      BY <3>2, <3>3, <3>4, Zenon DEF Running
    <3> QED BY <1>1, <3>1, <3>5
  <2> QED BY <2>1, <2>2
<1>2. ASSUME LockInv, [Next]_vars, Lost
      PROVE  UNCHANGED <<meta, counter>>
  <2>1. ASSUME NEW t \in Threads, master_lock(t) PROVE UNCHANGED <<meta, counter>>
    BY <1>1, <1>2, <2>1
       DEF master_lock, LockMutex, LockOs, LockOsThrows, LockInspect, LockSleep,
           LockWriteAcquiring, LockWriteCounter, LockWriteLocked, LockReturn,
           FileUnchanged, EngagedPC, AcquiringPC
  <2>2. ASSUME NEW t \in Threads, master_unlock(t)
        PROVE  UNCHANGED <<meta, counter>>
    BY <1>1, <1>2, <2>2
       DEF master_unlock, UnlockCall, UnlockMutexTake, UnlockOs, UnlockOsThrows,
           UnlockInspect, UnlockWriteReleasing, UnlockWriteCounter,
           UnlockWriteUnlocked, UnlockReturn, FileUnchanged, EngagedPC,
           HoldingPC, ReleasingPC
  <2>3. ASSUME NEW t \in Threads,
               LockCall(t) \/ CheckCall(t) \/ inspect_master_lock(t)
        PROVE  UNCHANGED <<meta, counter>>
    BY <2>3 DEF LockCall, CheckCall, inspect_master_lock, CheckOs, CheckInspect,
                FileUnchanged
  <2>4. ASSUME NEW p \in Procs, Crash(p) \/ Restart(p)
        PROVE  UNCHANGED <<meta, counter>>
    BY <2>4 DEF Crash, Restart
  <2> QED BY <1>2, <2>1, <2>2, <2>3, <2>4 DEF Next, ThreadStep, vars
<1>3. LockInv /\ [Next]_vars => [Lost => UNCHANGED <<meta, counter>>]_vars
  BY <1>2
<1> QED BY <1>3, LockInvariance, PTL DEF Spec, EvidenceKept

-----------------------------------------------------------------------------
(* The file as a fail-stop lock *)

\* An undamaged UNLOCKED record is one from which the lock can be taken.
UnlockedIsFree ==
  meta.checksum = "valid" /\ meta.state = "Unlocked" => Grantable

\* The invariant under which every step is one of the abstract lock.
ServiceInv == LockInv /\ UnlockedIsFree

\* What a step may do to the lock as its callers see it.
SameEngaged == \A u \in Threads : Engaged(u)' <=> Engaged(u)
NobodyEngaged == \A u \in Threads : ~Engaged(u)

Keeps == SameEngaged /\ (Jammed' <=> Jammed) /\ meta'.generation = meta.generation
Jams == ~Jammed /\ Jammed' /\ NobodyEngaged' /\ meta'.generation = meta.generation
Frees == /\ ~NobodyEngaged /\ NobodyEngaged' /\ ~Jammed /\ ~Jammed'
         /\ meta'.generation = meta.generation
Grants(t) == /\ NobodyEngaged /\ Engaged(t)' /\ ~Jammed /\ ~Jammed'
             /\ meta'.generation = meta.generation + 1

\* An undamaged UNLOCKED record stays the only one without an owner.
LEMMA UnlockedStep == ServiceInv /\ [Next]_vars => UnlockedIsFree'
<1> SUFFICES ASSUME ServiceInv, [Next]_vars PROVE UnlockedIsFree'
  OBVIOUS
<1> USE DEF ServiceInv, LockInv, TypeOK, UnlockedIsFree, Grantable, Metadata
<1>1. ASSUME NEW t \in Threads, master_lock(t) PROVE UnlockedIsFree'
  <2>1. CASE LockMutex(t) \/ LockOs(t) \/ LockOsThrows(t) \/ LockSleep(t) \/ LockReturn(t)
    BY <2>1 DEF LockMutex, LockOs, LockOsThrows, LockSleep, LockReturn, FileUnchanged
  <2>2. CASE LockInspect(t)
    BY <2>2 DEF LockInspect, FileUnchanged
  <2>3. CASE LockWriteAcquiring(t)
    BY <2>3 DEF LockWriteAcquiring, WriteMetadata, WriteMetadataFails
  <2>4. CASE LockWriteCounter(t)
    <3>1. meta.state = "Acquiring"
      BY <2>4 DEF LockWriteCounter, FileProtocol, Engaged, EngagedPC, AcquiringPC,
                  RecordedState
    <3> QED BY <2>4, <3>1 DEF LockWriteCounter, WriteCounterFails, FileUnchanged
  <2>5. CASE LockWriteLocked(t)
    BY <2>5 DEF LockWriteLocked, WriteMetadata, WriteMetadataFails
  <2> QED BY <1>1, <2>1, <2>2, <2>3, <2>4, <2>5 DEF master_lock
<1>2. ASSUME NEW t \in Threads, master_unlock(t) PROVE UnlockedIsFree'
  <2>1. CASE \/ UnlockCall(t) \/ UnlockMutexTake(t) \/ UnlockOs(t)
             \/ UnlockOsThrows(t) \/ UnlockInspect(t) \/ UnlockReturn(t)
    BY <2>1 DEF UnlockCall, UnlockMutexTake, UnlockOs, UnlockOsThrows, UnlockInspect,
                UnlockReturn, FileUnchanged
  <2>2. CASE UnlockWriteReleasing(t)
    BY <2>2 DEF UnlockWriteReleasing, WriteMetadata, WriteMetadataFails
  <2>3. CASE UnlockWriteCounter(t)
    BY <2>3 DEF UnlockWriteCounter, WriteCounterFails, FileUnchanged
  <2>4. CASE UnlockWriteUnlocked(t)
    <3>1. counter = 1
      BY <2>4 DEF UnlockWriteUnlocked, FileProtocol, Engaged, EngagedPC, ReleasingPC
    <3> QED BY <2>4, <3>1 DEF UnlockWriteUnlocked, WriteMetadata, WriteMetadataFails
  <2> QED BY <1>2, <2>1, <2>2, <2>3, <2>4 DEF master_unlock
<1>3. ASSUME NEW t \in Threads,
             LockCall(t) \/ CheckCall(t) \/ inspect_master_lock(t)
      PROVE  UnlockedIsFree'
  BY <1>3 DEF LockCall, CheckCall, inspect_master_lock, CheckOs, CheckInspect,
              FileUnchanged
<1>4. ASSUME NEW p \in Procs, Crash(p) \/ Restart(p) PROVE UnlockedIsFree'
  BY <1>4 DEF Crash, Restart
<1>5. CASE UNCHANGED vars
  BY <1>5 DEF vars
<1> QED BY <1>1, <1>2, <1>3, <1>4, <1>5 DEF Next, ThreadStep

\* A step that leaves the record and everybody's engagement alone.
LEMMA QuietStep ==
  ASSUME SameEngaged, UNCHANGED meta PROVE Keeps
  BY DEF Keeps, SameEngaged, Jammed

\* A thread that was not engaged moves and is not engaged afterwards.
LEMMA OutsiderMoves ==
  ASSUME LockInv, NEW t \in Threads, NEW l, pc[t] \notin EngagedPC, l \notin EngagedPC,
         pc' = [pc EXCEPT ![t] = l]
  PROVE  SameEngaged
  BY DEF SameEngaged, Engaged, LockInv, TypeOK

\* An engaged thread moves on and leaves an undamaged record.
LEMMA EngagedMoves ==
  ASSUME LockInv, NEW t \in Threads, NEW l \in EngagedPC, Engaged(t),
         pc' = [pc EXCEPT ![t] = l], meta'.checksum = "valid",
         meta'.generation = meta.generation
  PROVE  Keeps
<1>1. SameEngaged /\ Engaged(t)'
  BY DEF SameEngaged, Engaged, LockInv, TypeOK
<1>2. ~Jammed /\ ~Jammed'
  BY <1>1 DEF Jammed, LockInv, FileProtocol
<1> QED BY <1>1, <1>2 DEF Keeps

\* An engaged thread gives up, whatever became of its last write.
LEMMA EngagedGivesUp ==
  ASSUME LockInv, NEW t \in Threads, Engaged(t), pc' = [pc EXCEPT ![t] = "idle"],
         meta' \in {meta, [meta EXCEPT !.checksum = "invalid"]}
  PROVE  Jams
<1>1. ~Jammed /\ meta.state # "Unlocked"
  BY DEF Jammed, LockInv, FileProtocol, RecordedState
<1>2. NobodyEngaged'
  BY DEF NobodyEngaged, Engaged, LockInv, OneEngaged, TypeOK, EngagedPC, AcquiringPC,
         HoldingPC, ReleasingPC
<1>3. meta'.state = meta.state /\ meta'.generation = meta.generation
  BY DEF LockInv, TypeOK, Metadata
<1>4. Jammed'
  BY <1>1, <1>2, <1>3 DEF Jammed, NobodyEngaged
<1> QED BY <1>1, <1>2, <1>3, <1>4 DEF Jams

\* Every step of the file protocol is one of the four.
LEMMA StepKinds ==
  ServiceInv /\ [Next]_vars =>
    Keeps \/ Jams \/ Frees \/ (\E t \in Threads : Grants(t))
<1> DEFINE Goal == Keeps \/ Jams \/ Frees \/ (\E t \in Threads : Grants(t))
<1> SUFFICES ASSUME ServiceInv, [Next]_vars PROVE Goal
  OBVIOUS
<1> USE DEF ServiceInv, Goto, LeaveFile, EngagedPC, AcquiringPC, HoldingPC, ReleasingPC,
        FileUnchanged
<1>1. ASSUME NEW t \in Threads, master_lock(t) PROVE Goal
  <2>1. CASE LockMutex(t)
    BY <2>1, QuietStep, OutsiderMoves DEF LockMutex
  <2>2. CASE LockOs(t)
    BY <2>2, QuietStep, OutsiderMoves DEF LockOs
  <2>3. CASE LockOsThrows(t)
    BY <2>3, QuietStep, OutsiderMoves DEF LockOsThrows, AcquireThrows
  <2>4. CASE LockInspect(t)
    BY <2>4, QuietStep, OutsiderMoves DEF LockInspect
  <2>5. CASE LockSleep(t)
    BY <2>5, QuietStep, OutsiderMoves DEF LockSleep
  <2>6. CASE LockWriteAcquiring(t)
    <3>1. Grantable /\ pc[t] = "l_acquiring"
      BY <2>6 DEF LockWriteAcquiring, LockInv, FileProtocol
    <3>2. NobodyEngaged /\ ~Jammed
      BY <3>1 DEF NobodyEngaged, Jammed, Grantable, LockInv, FileProtocol, Engaged,
                  RecordedState
    <3>3. CASE WriteMetadata("Acquiring", Self(t), meta.generation + 1)
               /\ Goto(t, "l_counter")
      <4>1. Engaged(t)'
        BY <3>3 DEF Engaged, LockInv, TypeOK
      <4>2. meta'.generation = meta.generation + 1 /\ meta'.checksum = "valid"
        BY <3>3 DEF WriteMetadata
      <4>3. ~Jammed'
        BY <4>1, <4>2 DEF Jammed
      <4> QED BY <3>2, <4>1, <4>2, <4>3 DEF Grants
    <3>4. CASE WriteMetadataFails /\ LeaveFile(t, "idle", "System")
      <4>1. SameEngaged
        BY <3>1, <3>4, OutsiderMoves
      <4>2. CASE meta' = meta
        BY <4>1, <4>2, QuietStep
      <4>3. CASE meta' = [meta EXCEPT !.checksum = "invalid"]
        <5>1. Jammed' /\ meta'.generation = meta.generation
          BY <4>3 DEF Jammed, LockInv, TypeOK, Metadata
        <5>2. NobodyEngaged'
          BY <3>2, <4>1 DEF NobodyEngaged, SameEngaged
        <5> QED BY <3>2, <5>1, <5>2 DEF Jams
      <4> QED BY <3>4, <4>2, <4>3 DEF WriteMetadataFails
    <3> QED BY <2>6, <3>3, <3>4 DEF LockWriteAcquiring
  <2>7. CASE LockWriteCounter(t)
    <3>1. Engaged(t) /\ meta' = meta /\ meta.checksum = "valid"
      BY <2>7 DEF LockWriteCounter, WriteCounterFails, Engaged, LockInv, FileProtocol
    <3> QED BY <2>7, <3>1, EngagedMoves, EngagedGivesUp DEF LockWriteCounter
  <2>8. CASE LockWriteLocked(t)
    <3>1. Engaged(t)
      BY <2>8 DEF LockWriteLocked, Engaged
    <3> QED BY <2>8, <3>1, EngagedMoves, EngagedGivesUp
            DEF LockWriteLocked, WriteMetadata, WriteMetadataFails
  <2>9. CASE LockReturn(t)
    <3>1. Engaged(t) /\ meta' = meta /\ meta.checksum = "valid"
      BY <2>9 DEF LockReturn, Engaged, LockInv, FileProtocol
    <3> QED BY <2>9, <3>1, EngagedMoves DEF LockReturn
  <2> QED BY <1>1, <2>1, <2>2, <2>3, <2>4, <2>5, <2>6, <2>7, <2>8, <2>9
          DEF master_lock
<1>2. ASSUME NEW t \in Threads, master_unlock(t) PROVE Goal
  <2>0. ASSUME Engaged(t) PROVE meta.checksum = "valid"
    BY <2>0 DEF LockInv, FileProtocol
  <2>1. CASE UnlockCall(t)
    <3>1. Engaged(t) BY <2>1 DEF UnlockCall, Engaged
    <3> QED BY <2>0, <2>1, <3>1, EngagedMoves, EngagedGivesUp DEF UnlockCall
  <2>2. CASE UnlockMutexTake(t)
    <3>1. Engaged(t) BY <2>2 DEF UnlockMutexTake, Engaged
    <3> QED BY <2>0, <2>2, <3>1, EngagedMoves DEF UnlockMutexTake
  <2>3. CASE UnlockOs(t)
    <3>1. Engaged(t) BY <2>3 DEF UnlockOs, Engaged
    <3> QED BY <2>0, <2>3, <3>1, EngagedMoves DEF UnlockOs
  <2>4. CASE UnlockOsThrows(t)
    <3>1. Engaged(t) BY <2>4 DEF UnlockOsThrows, Engaged
    <3> QED BY <2>4, <3>1, EngagedGivesUp DEF UnlockOsThrows, AcquireThrows
  <2>5. CASE UnlockInspect(t)
    <3>1. Engaged(t) BY <2>5 DEF UnlockInspect, Engaged
    <3> QED BY <2>0, <2>5, <3>1, EngagedMoves, EngagedGivesUp DEF UnlockInspect
  <2>6. CASE UnlockWriteReleasing(t)
    <3>1. Engaged(t) BY <2>6 DEF UnlockWriteReleasing, Engaged
    <3> QED BY <2>6, <3>1, EngagedMoves, EngagedGivesUp
            DEF UnlockWriteReleasing, WriteMetadata, WriteMetadataFails
  <2>7. CASE UnlockWriteCounter(t)
    <3>1. Engaged(t) /\ meta' = meta
      BY <2>7 DEF UnlockWriteCounter, WriteCounterFails, Engaged
    <3> QED BY <2>0, <2>7, <3>1, EngagedMoves, EngagedGivesUp DEF UnlockWriteCounter
  <2>8. CASE UnlockWriteUnlocked(t)
    <3>1. Engaged(t) BY <2>8 DEF UnlockWriteUnlocked, Engaged
    <3>2. CASE WriteMetadata("Unlocked", NoOwner, meta.generation)
               /\ Goto(t, "u_release")
      <4>1. ~NobodyEngaged /\ ~Jammed
        BY <2>0, <3>1 DEF NobodyEngaged, Jammed
      <4>2. NobodyEngaged'
        BY <3>1, <3>2 DEF NobodyEngaged, Engaged, LockInv, OneEngaged, TypeOK
      <4>3. ~Jammed' /\ meta'.generation = meta.generation
        BY <3>2 DEF Jammed, WriteMetadata
      <4> QED BY <4>1, <4>2, <4>3 DEF Frees
    <3>3. CASE WriteMetadataFails /\ LeaveFile(t, "idle", "Abort")
      BY <3>1, <3>3, EngagedGivesUp DEF WriteMetadataFails
    <3> QED BY <2>8, <3>2, <3>3 DEF UnlockWriteUnlocked
  <2>9. CASE UnlockReturn(t)
    BY <2>9, QuietStep, OutsiderMoves DEF UnlockReturn
  <2> QED BY <1>2, <2>1, <2>2, <2>3, <2>4, <2>5, <2>6, <2>7, <2>8, <2>9
          DEF master_unlock
<1>3. ASSUME NEW t \in Threads, LockCall(t) \/ CheckCall(t) PROVE Goal
  <2>1. CASE pc' = pc /\ meta' = meta
    BY <2>1, QuietStep DEF SameEngaged, Engaged
  <2>2. CASE pc' # pc /\ meta' = meta
    BY <1>3, <2>2, QuietStep, OutsiderMoves DEF LockCall, CheckCall
  <2> QED BY <1>3, <2>1, <2>2 DEF LockCall, CheckCall
<1>4. ASSUME NEW t \in Threads, inspect_master_lock(t) PROVE Goal
  BY <1>4, QuietStep, OutsiderMoves DEF inspect_master_lock, CheckOs, CheckInspect
<1>5. ASSUME NEW p \in Procs, Crash(p) PROVE Goal
  <2>1. /\ \A u \in Threads : Engaged(u)' <=> Engaged(u) /\ ProcOf[u] # p
        /\ meta' = meta
    BY <1>5 DEF Crash, Engaged, LockInv, TypeOK
  <2>2. CASE \E t \in Threads : Engaged(t) /\ ProcOf[t] = p
    <3>1. PICK t \in Threads : Engaged(t) /\ ProcOf[t] = p
      BY <2>2
    <3>2. ~Jammed /\ meta.state # "Unlocked"
      BY <3>1 DEF Jammed, LockInv, FileProtocol, RecordedState
    <3>3. NobodyEngaged'
      BY <2>1, <3>1 DEF NobodyEngaged, LockInv, OneEngaged
    <3> QED BY <2>1, <3>2, <3>3 DEF Jams, Jammed, NobodyEngaged
  <2>3. CASE \A t \in Threads : ~(Engaged(t) /\ ProcOf[t] = p)
    BY <2>1, <2>3, QuietStep DEF SameEngaged
  <2> QED BY <2>2, <2>3
<1>6. ASSUME NEW p \in Procs, Restart(p) PROVE Goal
  <2>1. SameEngaged /\ meta' = meta
    <3>1. \A u \in Threads : ProcOf[u] = p => pc[u] = "dead"
      BY <1>6 DEF Restart, LockInv, ThreadsAlive
    <3> QED BY <1>6, <3>1 DEF Restart, SameEngaged, Engaged, LockInv, TypeOK
  <2> QED BY <2>1, QuietStep
<1>7. CASE UNCHANGED vars
  BY <1>7, QuietStep DEF vars, SameEngaged, Engaged
<1> QED BY <1>1, <1>2, <1>3, <1>4, <1>5, <1>6, <1>7 DEF Next, ThreadStep

\* The invariant of the service: the file protocol and the meaning of UNLOCKED.
LEMMA ServiceInvariance == Spec => []ServiceInv
<1>1. Init => ServiceInv
  BY InitLockInv DEF ServiceInv, UnlockedIsFree, Grantable, Init
<1>2. ServiceInv /\ [Next]_vars => ServiceInv'
  BY TypeStep, ProtocolStep, UnlockedStep DEF ServiceInv, LockInv
<1> QED BY <1>1, <1>2, PTL DEF Spec

\* The abstract holder is the engaged thread, of which there is at most one.
LEMMA HolderIsEngaged ==
  LockInv => /\ \A t \in Threads : Engaged(t) => Holder = t
             /\ NobodyEngaged => Holder = NoThread
             /\ Holder = NoThread => NobodyEngaged
  BY DEF Holder, NobodyEngaged, LockInv, OneEngaged

\* Each kind of step is a step of the fail-stop lock, or a stutter.
LEMMA KindsAreAbstract ==
  ASSUME LockInv, LockInv',
         Keeps \/ Jams \/ Frees \/ (\E t \in Threads : Grants(t))
  PROVE  [Abstract!LockNext]_(Abstract!lockVars)
<1>1. /\ \A t \in Threads : Engaged(t) => Holder = t
      /\ NobodyEngaged => Holder = NoThread
      /\ Holder = NoThread => NobodyEngaged
  BY HolderIsEngaged
<1>2. /\ \A t \in Threads : Engaged(t)' => Holder' = t
      /\ NobodyEngaged' => Holder' = NoThread
  BY DEF Holder, NobodyEngaged, LockInv, OneEngaged
<1>3. CASE Keeps
  <2>1. Holder' = Holder
    BY <1>1, <1>2, <1>3 DEF Keeps, SameEngaged, NobodyEngaged
  <2>2. Jammed' = Jammed
    BY <1>3 DEF Keeps, Jammed
  <2> QED BY <1>3, <2>1, <2>2 DEF Keeps, Abstract!lockVars
<1>4. CASE Jams
  BY <1>2, <1>4 DEF Jams, Abstract!LockNext, Abstract!Jam, Jammed
<1>5. CASE Frees
  <2>1. Jammed' = Jammed
    BY <1>5 DEF Frees, Jammed
  <2> QED BY <1>1, <1>2, <1>5, <2>1 DEF Frees, Abstract!LockNext, Abstract!Release
<1>6. ASSUME NEW t \in Threads, Grants(t)
      PROVE  Abstract!LockNext
  <2>1. Jammed' = Jammed
    BY <1>6 DEF Grants, Jammed
  <2> QED BY <1>1, <1>2, <1>6, <2>1 DEF Grants, Abstract!LockNext, Abstract!Grant
<1> QED BY <1>3, <1>4, <1>5, <1>6

\* The protocol on flock.bin implements the fail-stop lock: for any number of
\* processes and threads, crashes, PID reuses and failed writes, one numbered
\* grant at a time, and none after a holder is lost.
THEOREM FileIsFailStopLock == Spec => ImplementsFailStopLock
<1>1. Init => Abstract!LockInit
  <2> SUFFICES ASSUME Init PROVE Abstract!LockInit
    OBVIOUS
  <2>1. NobodyEngaged
    BY DEF Init, NobodyEngaged, Engaged, EngagedPC, AcquiringPC, HoldingPC, ReleasingPC
  <2>2. Holder = NoThread
    BY <2>1, InitLockInv, HolderIsEngaged
  <2>3. Jammed = FALSE
    BY DEF Init, Jammed
  <2> QED BY <2>2, <2>3 DEF Init, Abstract!LockInit
<1>2. ServiceInv /\ ServiceInv' /\ [Next]_vars
        => [Abstract!LockNext]_(Abstract!lockVars)
  BY StepKinds, KindsAreAbstract DEF ServiceInv
<1> QED BY <1>1, <1>2, ServiceInvariance, PTL
        DEF Spec, ImplementsFailStopLock, Abstract!LockSpec

\* Who was told Abort or Corrupt was told of a lock that is out of service.
VerdictMeansJammed ==
  \A t \in Threads : outcome[t] \in {"Abort", "Corrupt"} => Jammed

\* inspect_locked says Abort or Corrupt only of a jammed lock: it runs under the
\* OS lock, when no thread can be between two writes.
LEMMA BadVerdictMeansJammed ==
  ASSUME ServiceInv, NEW t \in Threads, pc[t] \in {"l_inspect", "u_inspect", "c_inspect"},
         NEW v \in inspect_locked, v \in {"Abort", "Corrupt"}
  PROVE  Jammed
<1> SUFFICES ASSUME ~Jammed PROVE FALSE
  OBVIOUS
<1>1. meta.checksum = "valid"
  BY DEF Jammed, ServiceInv, LockInv, TypeOK, Metadata
<1>2. PICK s \in check_process_identity(meta.owner) : v = Verdict(s)
  BY DEF inspect_locked
<1>3. CASE meta.state = "Unlocked"
  BY <1>1, <1>2, <1>3 DEF Verdict, ServiceInv, UnlockedIsFree, Grantable
<1>4. CASE meta.state # "Unlocked"
  <2>1. PICK u \in Threads : Engaged(u)
    BY <1>4 DEF Jammed
  <2>2. pc[u] \notin AcquiringPC \cup ReleasingPC
    BY <2>1 DEF ServiceInv, LockInv, FileProtocol, AcquiringPC, ReleasingPC, InOsPC
  <2>3. meta.state = "Locked" /\ counter = 0 /\ meta.owner = Self(u)
    BY <2>1, <2>2 DEF ServiceInv, LockInv, FileProtocol, Engaged, RecordedState,
                      EngagedPC, AcquiringPC, ReleasingPC, HoldingPC, TypeOK
  <2>4. s \in {"Alive", "Unknown"}
    <3>1. alive[ProcOf[u]]
      BY <2>1 DEF ServiceInv, LockInv, ThreadsAlive, Engaged, EngagedPC, AcquiringPC,
                  HoldingPC, ReleasingPC
    <3>2. Self(u).pid = ProcOf[u] /\ Self(u).token = token[ProcOf[u]] /\ ProcOf[u] \in Procs
      BY DEF Self
    <3>3. Running(Self(u))
      BY <3>1, <3>2, Zenon DEF Running
    <3> QED BY <1>2, <2>3, <3>3 DEF check_process_identity
  <2> QED BY <1>1, <1>2, <1>4, <2>3, <2>4 DEF Verdict, OwnedVerdict
<1> QED BY <1>3, <1>4

\* A bad verdict that is given, or was given before, is one on a jammed lock.
LEMMA VerdictStep ==
  ServiceInv /\ VerdictMeansJammed /\ [Next]_vars => VerdictMeansJammed'
<1> DEFINE Bad == {"Abort", "Corrupt"}
<1> SUFFICES ASSUME ServiceInv, VerdictMeansJammed, [Next]_vars,
                    NEW u \in Threads, outcome'[u] \in Bad
             PROVE  Jammed'
  BY DEF VerdictMeansJammed
<1>1. Jammed => Jammed'
  BY StepKinds DEF Keeps, Jams, Frees, Grants
<1>2. outcome[u] \in Bad => Jammed'
  BY <1>1 DEF VerdictMeansJammed
<1>3. ASSUME Jams PROVE Jammed'
  BY <1>3 DEF Jams
<1>4. ASSUME NEW t \in Threads, Engaged(t), pc' = [pc EXCEPT ![t] = "idle"],
             meta' \in {meta, [meta EXCEPT !.checksum = "invalid"]}
      PROVE  Jammed'
  BY <1>3, <1>4, EngagedGivesUp DEF ServiceInv
<1>5. ASSUME NEW t \in Threads, NEW v \in inspect_locked, v \in Bad,
             pc[t] \in {"l_inspect", "u_inspect", "c_inspect"}
      PROVE  Jammed'
  BY <1>1, <1>5, BadVerdictMeansJammed
<1> USE DEF ServiceInv, LockInv, TypeOK, Outcome, Goto, LeaveFile, Engaged, EngagedPC,
        AcquiringPC, HoldingPC, ReleasingPC, FileUnchanged
<1> HIDE DEF Jammed
<1>6. ASSUME NEW t \in Threads, master_lock(t) PROVE Jammed'
  <2>1. CASE LockMutex(t) \/ LockOs(t) \/ LockOsThrows(t) \/ LockSleep(t) \/ LockReturn(t)
    BY <1>2, <2>1 DEF LockMutex, LockOs, LockOsThrows, AcquireThrows, LockSleep,
                      LockReturn
  <2>2. CASE LockInspect(t)
    BY <1>2, <1>5, <2>2 DEF LockInspect
  <2>3. CASE LockWriteAcquiring(t)
    BY <1>2, <2>3 DEF LockWriteAcquiring
  <2>4. CASE LockWriteCounter(t)
    BY <1>2, <1>4, <2>4 DEF LockWriteCounter, WriteCounterFails
  <2>5. CASE LockWriteLocked(t)
    BY <1>2, <1>4, <2>5 DEF LockWriteLocked, WriteMetadataFails
  <2> QED BY <1>6, <2>1, <2>2, <2>3, <2>4, <2>5 DEF master_lock
<1>7. ASSUME NEW t \in Threads, master_unlock(t) PROVE Jammed'
  <2>1. CASE \/ UnlockCall(t) \/ UnlockMutexTake(t) \/ UnlockOs(t)
             \/ UnlockOsThrows(t) \/ UnlockReturn(t)
    BY <1>2, <2>1 DEF UnlockCall, UnlockMutexTake, UnlockOs, UnlockOsThrows,
                      AcquireThrows, UnlockReturn
  <2>2. CASE UnlockInspect(t)
    BY <1>2, <1>5, <2>2 DEF UnlockInspect
  <2>3. CASE UnlockWriteReleasing(t)
    BY <1>2, <1>4, <2>3 DEF UnlockWriteReleasing, WriteMetadataFails
  <2>4. CASE UnlockWriteCounter(t)
    BY <1>2, <1>4, <2>4 DEF UnlockWriteCounter, WriteCounterFails
  <2>5. CASE UnlockWriteUnlocked(t)
    BY <1>2, <1>4, <2>5 DEF UnlockWriteUnlocked, WriteMetadataFails
  <2> QED BY <1>7, <2>1, <2>2, <2>3, <2>4, <2>5 DEF master_unlock
<1>8. ASSUME NEW t \in Threads, LockCall(t) \/ CheckCall(t) PROVE Jammed'
  BY <1>2, <1>8 DEF LockCall, CheckCall
<1>9. ASSUME NEW t \in Threads, inspect_master_lock(t) PROVE Jammed'
  BY <1>2, <1>5, <1>9 DEF inspect_master_lock, CheckOs, CheckInspect
<1>10. ASSUME NEW p \in Procs, Crash(p) \/ Restart(p) PROVE Jammed'
  BY <1>2, <1>10 DEF Crash, Restart
<1>11. CASE UNCHANGED vars
  BY <1>2, <1>11 DEF vars
<1> QED BY <1>6, <1>7, <1>8, <1>9, <1>10, <1>11 DEF Next, ThreadStep

\* A caller that was told Abort or Corrupt may stop the system: from then on
\* nobody is granted the lock, whatever crashes, reuses and failures follow.
THEOREM VerdictsAreFinal == Spec => []VerdictIsFinal
<1>1. Init => VerdictMeansJammed
  BY DEF Init, VerdictMeansJammed
<1>2. ServiceInv /\ VerdictMeansJammed /\ [Next]_vars => VerdictMeansJammed'
  BY VerdictStep
<1>3. VerdictMeansJammed => VerdictIsFinal
  BY DEF VerdictMeansJammed, VerdictIsFinal, Jammed, Grantable
<1> QED BY <1>1, <1>2, <1>3, ServiceInvariance, PTL DEF Spec
=============================================================================
