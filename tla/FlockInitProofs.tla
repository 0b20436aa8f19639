--------------------------- MODULE FlockInitProofs ----------------------------
(***************************************************************************)
(* Proofs about FlockInit for any number of processes, any of which may be *)
(* killed, and any file that the session may begin with.                   *)
(***************************************************************************)
EXTENDS FlockInit, TLAPS

CreatorPC == {"truncate", "i_lock", "i_counters", "i_meta", "i_release"}
WaiterPC == {"start", "w_size", "w_try", "s_lock", "s_inspect", "s_clear", "s_release"}
InOsPC == {"i_counters", "i_meta", "i_release", "s_inspect", "s_clear", "s_release"}

\* O_EXCL: at most one process takes itself for the creator, and only in a
\* session that began without a file.
OneCreator ==
  /\ \A p, q \in Procs : proc[p].created /\ proc[q].created => p = q
  /\ \A p \in Procs : proc[p].created => origin = "none"
  /\ \A p \in Procs : proc[p].pc \in CreatorPC => proc[p].created
  /\ \A p \in Procs : proc[p].pc \in WaiterPC => ~proc[p].created

\* Who inspects or writes the file owns the operating system's lock.
UnderOsLock == \A p \in Procs : proc[p].pc \in InOsPC => os = p

\* How far the file is, by the program point of its creator.
CreatorAndFile ==
  /\ file.size = "absent" => \A p \in Procs : ~proc[p].created
  /\ \A p \in Procs : proc[p].created =>
       /\ At(p, "truncate") => file.size = "empty"
       /\ proc[p].pc \in {"open", "i_lock", "i_counters", "i_meta"} => file.size = "full"
       /\ proc[p].pc \in {"truncate", "open", "i_lock", "i_counters", "i_meta"}
            => file.meta = "zero"
       /\ proc[p].pc \in {"i_release", "done"} => Initialized

\* What the file owes to its origin.
FileAndOrigin ==
  /\ file.meta # "zero" => file.size = "full"
  /\ file.size = "legacy" => origin = "legacy"
  /\ origin \in {"v1", "orphan"} => Initialized

\* A process that did not wait in vain has found the metadata.
WaitedFor ==
  \A p \in Procs :
    proc[p].pc \in {"s_lock", "s_inspect", "s_clear", "s_release", "done"}
      /\ ~proc[p].waited /\ origin # "legacy" => Initialized

\* The inductive invariant.
FlockInv ==
  /\ TypeOK /\ OneCreator /\ UnderOsLock /\ CreatorAndFile /\ FileAndOrigin
  /\ WaitedFor /\ LegacyUntouched /\ HeldLockIsRecorded /\ SweepExcludesHolder

USE FlockInitAssumption

\* The invariant holds of every file that a session may begin with.
LEMMA InitFlockInv == Init => FlockInv
<1> SUFFICES ASSUME Init PROVE FlockInv
  OBVIOUS
<1>1. /\ \A p \in Procs : proc[p].pc = "start" /\ ~proc[p].created
      /\ owner = NoProc
  BY DEF Init
<1>2. file \in File /\ FileAndOrigin /\ LegacyUntouched
  BY DEF Init, FileAndOrigin, LegacyUntouched, Initialized, File
<1>3. TypeOK
  <2>1. sem \in 0 .. MaxUps
    BY DEF Init
  <2>2. proc \in [Procs -> [pc : Points, key : Keys, created : BOOLEAN, waited : BOOLEAN]]
    BY DEF Init, Points
  <2> QED BY <1>2, <2>1, <2>2 DEF Init, TypeOK
<1>4. OneCreator /\ UnderOsLock /\ CreatorAndFile /\ WaitedFor
  BY <1>1 DEF OneCreator, UnderOsLock, CreatorAndFile, WaitedFor, CreatorPC,
              WaiterPC, InOsPC
<1>5. HeldLockIsRecorded /\ SweepExcludesHolder
  BY <1>1 DEF HeldLockIsRecorded, SweepExcludesHolder, At
<1> QED BY <1>2, <1>3, <1>4, <1>5 DEF FlockInv

\* Every step of every process keeps the types.
LEMMA TypeStep == TypeOK /\ [Next]_vars => TypeOK'
<1> SUFFICES ASSUME TypeOK, [Next]_vars PROVE TypeOK'
  OBVIOUS
<1> USE DEF TypeOK, File, Points, Goto, At, AfterWait
<1>1. ASSUME NEW p \in Procs, CreateStep(p) PROVE TypeOK'
  <2>1. CASE CreateExclusive(p) BY <2>1 DEF CreateExclusive
  <2>2. CASE Truncate(p) \/ Open(p) BY <2>2 DEF Truncate, Open
  <2>3. CASE InitLock(p) \/ InitCounters(p) BY <2>3 DEF InitLock, InitCounters
  <2>4. CASE InitMetadata(p) \/ InitRelease(p) BY <2>4 DEF InitMetadata, InitRelease
  <2>5. CASE WaitSize(p) \/ WaitTry(p) BY <2>5 DEF WaitSize, WaitTry
  <2>6. CASE WaitTimeout(p)
    <3>1. PICK l \in Points : l = AfterWait(p)
      OBVIOUS
    <3>2. proc' = [proc EXCEPT ![p].pc = l, ![p].waited = TRUE]
      BY <2>6, <3>1 DEF WaitTimeout
    <3> DEFINE Proc == [pc : Points, key : Keys, created : BOOLEAN, waited : BOOLEAN]
    <3>3. proc \in [Procs -> Proc]
      OBVIOUS
    <3> HIDE DEF Points
    <3>4. proc' \in [Procs -> Proc]
      BY ONLY <3>2, <3>3, l \in Points, p \in Procs
    <3> QED BY <2>6, <3>4 DEF WaitTimeout
  <2>7. CASE SweepLock(p) \/ SweepInspect(p) BY <2>7 DEF SweepLock, SweepInspect
  <2>8. CASE SweepClear(p) \/ SweepRelease(p) BY <2>8 DEF SweepClear, SweepRelease
  <2> QED BY <1>1, <2>1, <2>2, <2>3, <2>4, <2>5, <2>6, <2>7, <2>8 DEF CreateStep
<1>2. ASSUME NEW p \in Procs, WriteFails(p) \/ Die(p) PROVE TypeOK'
  BY <1>2 DEF WriteFails, Die
<1>3. ASSUME NEW p \in Procs, Use(p) PROVE TypeOK'
  <2>1. CASE MasterLock(p) BY <2>1 DEF MasterLock
  <2>2. CASE MasterUnlock(p) BY <2>2 DEF MasterUnlock
  <2>3. CASE AssetUp(p) BY <2>3 DEF AssetUp
  <2>4. CASE AssetDown(p) BY <2>4 DEF AssetDown
  <2> QED BY <1>3, <2>1, <2>2, <2>3, <2>4 DEF Use
<1>4. CASE UNCHANGED vars
  BY <1>4 DEF vars
<1> QED BY <1>1, <1>2, <1>3, <1>4 DEF Next

\* Every step of every process keeps the invariant.
LEMMA ProtocolStep == FlockInv /\ [Next]_vars => FlockInv'
<1> SUFFICES ASSUME FlockInv, [Next]_vars PROVE FlockInv'
  OBVIOUS
<1> DEFINE Rest == /\ OneCreator /\ UnderOsLock /\ CreatorAndFile /\ FileAndOrigin
                   /\ WaitedFor /\ LegacyUntouched /\ HeldLockIsRecorded
                   /\ SweepExcludesHolder
<1>1. TypeOK'
  BY TypeStep DEF FlockInv
<1> USE DEF FlockInv, TypeOK, File, OneCreator, UnderOsLock, CreatorAndFile,
        FileAndOrigin, WaitedFor, LegacyUntouched, HeldLockIsRecorded,
        SweepExcludesHolder, CreatorPC, WaiterPC, InOsPC, At, Goto, Free,
        Initialized, Clean, AfterWait
<1>2. ASSUME NEW p \in Procs, CreateStep(p) PROVE Rest'
  <2>1. CASE CreateExclusive(p) BY <2>1 DEF CreateExclusive
  <2>2. CASE Truncate(p) BY <2>2 DEF Truncate
  <2>3. CASE Open(p) BY <2>3 DEF Open
  <2>4. CASE InitLock(p) BY <2>4 DEF InitLock
  <2>5. CASE InitCounters(p) BY <2>5 DEF InitCounters
  <2>6. CASE InitMetadata(p) BY <2>6 DEF InitMetadata
  <2>7. CASE InitRelease(p) BY <2>7 DEF InitRelease
  <2>8. CASE WaitSize(p) BY <2>8 DEF WaitSize
  <2>9. CASE WaitTry(p) BY <2>9 DEF WaitTry
  <2>10. CASE WaitTimeout(p) BY <2>10 DEF WaitTimeout
  <2>11. CASE SweepLock(p) BY <2>11 DEF SweepLock
  <2>12. CASE SweepInspect(p) BY <2>12 DEF SweepInspect
  <2>13. CASE SweepClear(p) BY <2>13 DEF SweepClear
  <2>14. CASE SweepRelease(p) BY <2>14 DEF SweepRelease
  <2> QED BY <1>2, <2>1, <2>2, <2>3, <2>4, <2>5, <2>6, <2>7, <2>8, <2>9, <2>10,
             <2>11, <2>12, <2>13, <2>14 DEF CreateStep
<1>3. ASSUME NEW p \in Procs, WriteFails(p) PROVE Rest'
  BY <1>3 DEF WriteFails
<1>4. ASSUME NEW p \in Procs, Die(p) PROVE Rest'
  BY <1>4 DEF Die
<1>5. ASSUME NEW p \in Procs, Use(p) PROVE Rest'
  <2>1. CASE MasterLock(p) BY <2>1 DEF MasterLock
  <2>2. CASE MasterUnlock(p) BY <2>2 DEF MasterUnlock
  <2>3. CASE AssetUp(p) \/ AssetDown(p) BY <2>3 DEF AssetUp, AssetDown
  <2> QED BY <1>5, <2>1, <2>2, <2>3 DEF Use
<1>6. CASE UNCHANGED vars
  BY <1>6 DEF vars
<1> QED BY <1>1, <1>2, <1>3, <1>4, <1>5, <1>6 DEF Next

\* The inductive invariant of the creation of flock.bin.
THEOREM FlockInvariance == Spec => []FlockInv
<1>1. Init => FlockInv
  BY InitFlockInv
<1>2. FlockInv /\ [Next]_vars => FlockInv'
  BY ProtocolStep
<1> QED BY <1>1, <1>2, PTL DEF Spec

\* Type correctness: the sizes, counters and metadata of flock.bin and the
\* program points of create() only take the values the code can produce.
THEOREM TypeCorrectness == Spec => []TypeOK
  BY FlockInvariance, PTL DEF FlockInv

\* Whoever comes back from create() in time finds the metadata, for any number
\* of processes and any deaths (wait_for_existing_flock_initialization).
THEOREM ReturnedIsInitialized == Spec => []ReturnsInitialized
<1>1. FlockInv => ReturnsInitialized
  BY DEF FlockInv, WaitedFor, ReturnsInitialized, At
<1> QED BY <1>1, FlockInvariance, PTL

\* create() never writes to a file of the legacy layout.
THEOREM LegacyIsUntouched == Spec => []LegacyUntouched
  BY FlockInvariance, PTL DEF FlockInv

\* No creation overwrites the record of a master lock that is held.
THEOREM HeldLockStays == Spec => []HeldLockIsRecorded
  BY FlockInvariance, PTL DEF FlockInv

\* The asset semaphores are cleared only while nobody holds the master lock.
THEOREM SweepIsExclusive == Spec => []SweepExcludesHolder
  BY FlockInvariance, PTL DEF FlockInv

\* A file whose creator is gone before it wrote the metadata is changed by
\* nobody: not by those who wait for it, and not by those who use the lock.
THEOREM InterruptedIsKept == Spec => InterruptedStaysUntouched
<1> DEFINE Interrupted == /\ file.size # "absent" /\ ~Initialized
                          /\ \A p \in Procs : ~Creating(p)
<1>1. ASSUME FlockInv, [Next]_vars, Interrupted
      PROVE  UNCHANGED file
  <2>1. ~Clean /\ owner = NoProc
    BY <1>1 DEF Clean, Initialized, FlockInv, HeldLockIsRecorded, FileAndOrigin
  <2>2. ASSUME NEW p \in Procs, CreateStep(p) PROVE UNCHANGED file
    <3>1. proc[p].pc \notin {"truncate", "i_counters", "i_meta"}
      BY <1>1 DEF FlockInv, OneCreator, CreatorPC, Creating
    <3> QED BY <1>1, <2>2, <3>1
            DEF CreateStep, CreateExclusive, Truncate, Open, InitLock,
                InitCounters, InitMetadata, InitRelease, WaitSize, WaitTry,
                WaitTimeout, SweepLock, SweepInspect, SweepClear, SweepRelease, At
  <2>3. ASSUME NEW p \in Procs, WriteFails(p) \/ Use(p) \/ Die(p)
        PROVE  UNCHANGED file
    BY <2>1, <2>3 DEF WriteFails, Use, MasterLock, MasterUnlock, AssetUp,
                      AssetDown, Die
  <2> QED BY <1>1, <2>2, <2>3 DEF Next, vars
<1>2. FlockInv /\ [Next]_vars => [Interrupted => UNCHANGED file]_vars
  BY <1>1
<1> QED BY <1>2, FlockInvariance, PTL DEF Spec, InterruptedStaysUntouched
=============================================================================
