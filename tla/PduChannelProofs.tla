-------------------------- MODULE PduChannelProofs --------------------------
(***************************************************************************)
(* The busy-flag protocol of a PDU channel keeps the writer and any number *)
(* of readers apart, and no read is torn, as long as no flag store has     *)
(* been delayed, the master has not reset the channel and no command has   *)
(* written past the flags.  MCPduChannelTso and MCPduChannelReset show     *)
(* that the first two conditions cannot be dropped.                        *)
(***************************************************************************)
EXTENDS PduChannel, TLAPS

\* Nothing is buffered, nothing is being wiped or written without a flag, and
\* every flag says what its owner is doing.
FlagsTrue ==
  /\ \A p \in Procs : pending[p] = "none"
  /\ wipe = "off"
  /\ raw = "off"
  /\ flag[Writer] = "busy" <=> wpc # "idle"
  /\ \A r \in Readers : flag[r] = "busy" <=> rpc[r] \notin {"idle", "retry"}

\* The writer has passed reader r: its scan found r idle, or is over.
Passed(r) == Writing \/ (wpc = "scan" /\ r \notin unseen)

\* A reader the writer has passed is not copying, and will not start to.
PassedStayOut == \A r \in Readers : Passed(r) => ~Reading(r)

\* The two words differ only while one of the two sides is between them.
WordsAgree ==
  /\ IF wpc = "hi" THEN data.lo = writes ELSE data.lo = data.hi
  /\ \A r \in Readers : IF rpc[r] = "hi" THEN got[r].lo = data.lo
                                         ELSE got[r].lo = got[r].hi

Protocol == FlagsTrue /\ PassedStayOut /\ WordsAgree

ChannelInv == TypeOK /\ (Undisturbed => Protocol)

-----------------------------------------------------------------------------

\* Initially every flag is free, nobody copies and all words are zero.
LEMMA InitChannelInv == Init => ChannelInv
  <1> SUFFICES ASSUME Init PROVE ChannelInv
    OBVIOUS
  <1> USE PduChannelAssumption DEF Init
  <1>1. TypeOK
    BY DEF TypeOK, Procs, Words, Version
  <1>2. FlagsTrue
    BY DEF FlagsTrue, Procs
  <1>3. PassedStayOut
    BY DEF PassedStayOut, Reading
  <1>4. WordsAgree
    BY DEF WordsAgree
  <1> QED
    BY <1>1, <1>2, <1>3, <1>4 DEF ChannelInv, Protocol

\* A flag store has a place in memory or in the buffer.
LEMMA StoreFlagType ==
  ASSUME TypeOK, NEW p \in Procs, NEW value \in {"free", "busy"},
         StoreFlag(p, value)
  PROVE  /\ flag' \in [Procs -> {"free", "busy"}]
         /\ pending' \in [Procs -> {"none", "free", "busy"}]
         /\ delays' \in Nat
  BY DEF TypeOK, StoreFlag

\* The type invariant needs no other fact about the protocol.
LEMMA TypeStep == TypeOK /\ [Next]_vars => TypeOK'
  <1> SUFFICES ASSUME TypeOK, [Next]_vars PROVE TypeOK'
    OBVIOUS
  <1> USE PduChannelAssumption DEF TypeOK, Procs, Words, Version
  <1>1. CASE write_pdu
    <2>1. CASE WriteCall
      BY <2>1, StoreFlagType DEF WriteCall, WriterUnchanged
    <2>2. CASE \E r \in Readers : ScanFree(r) \/ ScanBusy(r)
      BY <2>2 DEF ScanFree, ScanBusy, WriterUnchanged
    <2>3. CASE ScanDone
      BY <2>3 DEF ScanDone, WriterUnchanged
    <2>4. CASE WriteLo
      BY <2>4 DEF WriteLo, WriterUnchanged
    <2>5. CASE WriteHi
      BY <2>5 DEF WriteHi, WriterUnchanged
    <2>6. CASE WriteVersion
      <3>1. version' \in Version
        BY <2>6 DEF WriteVersion
      <3> QED
        BY <2>6, <3>1 DEF WriteVersion, WriterUnchanged
    <2>7. CASE WriteReturn
      BY <2>7, StoreFlagType DEF WriteReturn, WriterUnchanged
    <2> QED
      BY <1>1, <2>1, <2>2, <2>3, <2>4, <2>5, <2>6, <2>7 DEF write_pdu
  <1>2. CASE \E r \in Readers : read_pdu(r)
    <2> PICK r \in Readers : read_pdu(r)
      BY <1>2
    <2>1. CASE ReadCall(r)
      BY <2>1, StoreFlagType DEF ReadCall, ReaderGoto, ReaderUnchanged
    <2>2. CASE ReadCheck(r)
      BY <2>2 DEF ReadCheck, ReaderGoto, ReaderUnchanged
    <2>3. CASE ReadBack(r)
      BY <2>3, StoreFlagType DEF ReadBack, ReaderGoto, ReaderUnchanged
    <2>4. CASE ReadRetry(r)
      BY <2>4, StoreFlagType DEF ReadRetry, ReaderGoto, ReaderUnchanged
    <2>5. CASE ReadLo(r)
      BY <2>5 DEF ReadLo, ReaderGoto, ReaderUnchanged
    <2>6. CASE ReadHi(r)
      BY <2>6 DEF ReadHi, ReaderGoto, ReaderUnchanged
    <2>7. CASE ReadVersion(r)
      BY <2>7 DEF ReadVersion, ReaderGoto, ReaderUnchanged
    <2>8. CASE ReadReturn(r)
      BY <2>8, StoreFlagType DEF ReadReturn, ReaderGoto, ReaderUnchanged
    <2> QED
      BY <2>1, <2>2, <2>3, <2>4, <2>5, <2>6, <2>7, <2>8 DEF read_pdu
  <1>3. CASE \E p \in Procs : Commit(p)
    BY <1>3 DEF Commit
  <1>4. CASE ResetReaders
    BY <1>4 DEF ResetReaders, ResetUnchanged
  <1>5. CASE ResetChannel
    BY <1>5 DEF ResetChannel, ResetUnchanged
  <1>6. CASE ResetData
    BY <1>6 DEF ResetData, ResetUnchanged
  <1>7. CASE \E p \in Procs : Die(p)
    BY <1>7 DEF Die
  <1>8. CASE write_pdu_nolock
    BY <1>8 DEF write_pdu_nolock, RawWriteLo, RawWriteHi, RawUnchanged
  <1>9. CASE UNCHANGED vars
    BY <1>9 DEF vars
  <1> QED
    BY <1>1, <1>2, <1>3, <1>4, <1>5, <1>6, <1>7, <1>8, <1>9 DEF Next

\* Delayed stores, resets and writes past the flags are counted and never forgotten.
LEMMA CountersGrow ==
  ASSUME TypeOK, [Next]_vars 
  PROVE  delays' >= delays /\ resets' >= resets /\ raws' >= raws
  <1> USE DEF TypeOK, StoreFlag
  <1>1. CASE write_pdu
    <2>1. CASE WriteCall \/ WriteReturn
      BY <2>1 DEF WriteCall, WriteReturn, WriterUnchanged
    <2>2. CASE \E r \in Readers : ScanFree(r) \/ ScanBusy(r)
      BY <2>2 DEF ScanFree, ScanBusy, WriterUnchanged
    <2>3. CASE ScanDone \/ WriteLo \/ WriteHi \/ WriteVersion
      BY <2>3 DEF ScanDone, WriteLo, WriteHi, WriteVersion, WriterUnchanged
    <2> QED
      BY <1>1, <2>1, <2>2, <2>3 DEF write_pdu
  <1>2. CASE \E r \in Readers : read_pdu(r)
    <2> PICK r \in Readers : read_pdu(r)
      BY <1>2
    <2> USE DEF ReaderUnchanged
    <2>1. CASE ReadCall(r) \/ ReadBack(r) \/ ReadRetry(r) \/ ReadReturn(r)
      BY <2>1 DEF ReadCall, ReadBack, ReadRetry, ReadReturn
    <2>2. CASE ReadCheck(r) \/ ReadLo(r) \/ ReadHi(r) \/ ReadVersion(r)
      BY <2>2 DEF ReadCheck, ReadLo, ReadHi, ReadVersion
    <2> QED
      BY <2>1, <2>2 DEF read_pdu
  <1>3. CASE \E p \in Procs : Commit(p)
    BY <1>3 DEF Commit
  <1>4. CASE ResetReaders \/ ResetChannel \/ ResetData
    BY <1>4 DEF ResetReaders, ResetChannel, ResetData, ResetUnchanged
  <1>5. CASE \E p \in Procs : Die(p)
    BY <1>5 DEF Die
  <1>6. CASE write_pdu_nolock
    BY <1>6 DEF write_pdu_nolock, RawWriteLo, RawWriteHi, RawUnchanged
  <1>7. CASE UNCHANGED vars
    BY <1>7 DEF vars
  <1> QED
    BY <1>1, <1>2, <1>3, <1>4, <1>5, <1>6, <1>7 DEF Next

\* What is undisturbed after a step was undisturbed before it.
LEMMA UndisturbedBefore ==
  ASSUME TypeOK, [Next]_vars, Undisturbed' PROVE Undisturbed
  BY CountersGrow DEF TypeOK, Undisturbed

\* Every step of the writer keeps the flags true, the passed readers out and
\* the words in agreement.
LEMMA WriterStep ==
  ASSUME TypeOK, Protocol, Undisturbed, Undisturbed', write_pdu
  PROVE  FlagsTrue' /\ PassedStayOut' /\ WordsAgree'
  <1> USE PduChannelAssumption
      DEF Undisturbed, Protocol, TypeOK, Procs, Words, StoreFlag, FlagsTrue,
          PassedStayOut, WordsAgree, Passed, Writing, Reading
  <1>1. CASE WriteCall
    BY <1>1 DEF WriteCall, WriterUnchanged
  <1>2. CASE \E r \in Readers : ScanFree(r)
    BY <1>2 DEF ScanFree, WriterUnchanged, is_pdu_rbusy
  <1>3. CASE \E r \in Readers : ScanBusy(r)
    BY <1>3 DEF ScanBusy, WriterUnchanged
  <1>4. CASE ScanDone
    BY <1>4 DEF ScanDone, WriterUnchanged
  <1>5. CASE WriteLo
    BY <1>5 DEF WriteLo, WriterUnchanged
  <1>6. CASE WriteHi
    BY <1>6 DEF WriteHi, WriterUnchanged
  <1>7. CASE WriteVersion
    BY <1>7 DEF WriteVersion, WriterUnchanged
  <1>8. CASE WriteReturn
    BY <1>8 DEF WriteReturn, WriterUnchanged
  <1> QED
    BY <1>1, <1>2, <1>3, <1>4, <1>5, <1>6, <1>7, <1>8 DEF write_pdu

\* Every step of a reader does the same: a reader the writer has passed finds
\* the writer's flag busy and steps back.
LEMMA ReaderStep ==
  ASSUME TypeOK, Protocol, Undisturbed, Undisturbed', NEW r \in Readers, read_pdu(r)
  PROVE  FlagsTrue' /\ PassedStayOut' /\ WordsAgree'
  <1> USE PduChannelAssumption
      DEF Undisturbed, Protocol, TypeOK, Procs, Words, StoreFlag, FlagsTrue,
          PassedStayOut, WordsAgree, Passed, Writing, Reading, ReaderGoto,
          ReaderUnchanged
  <1>1. CASE ReadCall(r)
    BY <1>1 DEF ReadCall
  <1>2. CASE ReadCheck(r)
    BY <1>2 DEF ReadCheck, is_pdu_wbusy
  <1>3. CASE ReadBack(r)
    BY <1>3 DEF ReadBack
  <1>4. CASE ReadRetry(r)
    BY <1>4 DEF ReadRetry
  <1>5. CASE ReadLo(r)
    BY <1>5 DEF ReadLo
  <1>6. CASE ReadHi(r)
    BY <1>6 DEF ReadHi
  <1>7. CASE ReadVersion(r)
    BY <1>7 DEF ReadVersion
  <1>8. CASE ReadReturn(r)
    BY <1>8 DEF ReadReturn
  <1> QED
    BY <1>1, <1>2, <1>3, <1>4, <1>5, <1>6, <1>7, <1>8 DEF read_pdu

\* ChannelInv is inductive.
LEMMA ChannelInvStep == ChannelInv /\ [Next]_vars => ChannelInv'
  <1> SUFFICES ASSUME ChannelInv, [Next]_vars PROVE ChannelInv'
    OBVIOUS
  <1>1. TypeOK /\ TypeOK'
    BY TypeStep DEF ChannelInv
  <1>2. ASSUME Undisturbed' PROVE Protocol'
    <2>1. Undisturbed /\ Protocol
      BY <1>1, <1>2, UndisturbedBefore DEF ChannelInv
    <2>2. CASE write_pdu
      BY <1>1, <1>2, <2>1, <2>2, WriterStep DEF Protocol
    <2>3. CASE \E r \in Readers : read_pdu(r)
      BY <1>1, <1>2, <2>1, <2>3, ReaderStep DEF Protocol
    <2>4. CASE \E p \in Procs : Commit(p)
      BY <2>1, <2>4 DEF Commit, Protocol, FlagsTrue
    <2>5. CASE ResetReaders
      BY <1>1, <1>2, <2>1, <2>5 DEF ResetReaders, Undisturbed, TypeOK
    <2>6. CASE ResetChannel
      BY <2>1, <2>6 DEF ResetChannel, Protocol, FlagsTrue
    <2>7. CASE ResetData
      BY <2>1, <2>7 DEF ResetData, Protocol, FlagsTrue
    <2>8. CASE \E p \in Procs : Die(p)
      BY <2>1, <2>8 DEF Die, Protocol, FlagsTrue, PassedStayOut, WordsAgree,
                        Passed, Writing, Reading
    <2>9. CASE write_pdu_nolock
      <3>1. CASE RawWriteLo
        BY <1>1, <1>2, <2>1, <3>1 DEF RawWriteLo, Undisturbed, TypeOK
      <3>2. CASE RawWriteHi
        BY <2>1, <3>2 DEF RawWriteHi, Protocol, FlagsTrue
      <3> QED
        BY <2>9, <3>1, <3>2 DEF write_pdu_nolock
    <2>10. CASE UNCHANGED vars
      BY <2>1, <2>10 DEF vars, Protocol, FlagsTrue, PassedStayOut, WordsAgree,
                         Passed, Writing, Reading
    <2> QED
      BY <2>2, <2>3, <2>4, <2>5, <2>6, <2>7, <2>8, <2>9, <2>10 DEF Next
  <1> QED
    BY <1>1, <1>2 DEF ChannelInv

\* The variables of a channel keep their types on any memory, reset or not.
THEOREM TypeCorrectness == Spec => []TypeOK
  <1>1. Init => TypeOK
    BY InitChannelInv DEF ChannelInv
  <1> QED
    BY <1>1, TypeStep, PTL DEF Spec

\* Until a flag store is delayed, the channel is reset or written past the
\* flags, the busy flags exclude the writer and the readers from each other.
THEOREM FlagsExcludeHolds == Spec => []FlagsExclude
  <1>1. ChannelInv => FlagsExclude
    BY DEF ChannelInv, Protocol, PassedStayOut, Passed, FlagsExclude, MutualExclusion
  <1> QED
    BY <1>1, InitChannelInv, ChannelInvStep, PTL DEF Spec

\* Until then a completed read has copied one PDU, never halves of two.
THEOREM ReadsAreWhole == Spec => []NoTornRead
  <1>1. ChannelInv => NoTornRead
    BY DEF ChannelInv, Protocol, WordsAgree, NoTornRead
  <1> QED
    BY <1>1, InitChannelInv, ChannelInvStep, PTL DEF Spec

-----------------------------------------------------------------------------
(* Versions *)

\* Undisturbed, and the version has not wrapped around: fewer writes than
\* version numbers.
Countable == Undisturbed /\ writes < VersionModulus

\* The version is the number of the newest complete write, the PDU carries
\* that number except in the middle of a write, and a reader's version is the
\* number of the PDU it has copied.
VersionInv ==
  /\ writes = IF wpc \in {"idle", "clear"} THEN version ELSE version + 1
  /\ wpc \notin {"hi", "version"} => data.lo = version /\ data.hi = version
  /\ wpc = "version" => data.lo = writes /\ data.hi = writes
  /\ \A r \in Readers \ External :
       IF rpc[r] = "version" THEN got[r].lo = data.lo
       ELSE rpc[r] # "hi" => got[r].lo = seen[r]

\* A number below the modulus is its own remainder.
LEMMA SmallRemainder ==
  ASSUME NEW m \in Nat \ {0}, NEW k \in 0 .. m - 1 PROVE k % m = k
  BY SMT

\* VersionInv is inductive relative to ChannelInv: while a reader is between
\* its copy and its version, the writer is not Writing.
LEMMA VersionStep ==
  ASSUME TypeOK, Protocol, VersionInv, Countable, Countable', [Next]_vars
  PROVE  VersionInv'
  <1> USE PduChannelAssumption
      DEF Countable, Undisturbed, Protocol, TypeOK, Procs, Words, StoreFlag,
          PassedStayOut, WordsAgree, Passed, Writing, Reading, VersionInv,
          Version
  <1>1. CASE write_pdu
    <2> USE DEF WriterUnchanged
    <2>1. CASE WriteCall
      BY <2>1 DEF WriteCall
    <2>2. CASE \E r \in Readers : ScanFree(r) \/ ScanBusy(r)
      BY <2>2 DEF ScanFree, ScanBusy
    <2>3. CASE ScanDone
      BY <2>3 DEF ScanDone
    <2>4. CASE WriteLo
      BY <2>4 DEF WriteLo
    <2>5. CASE WriteHi
      BY <2>5 DEF WriteHi
    <2>6. CASE WriteVersion
      <3>1. version + 1 \in 0 .. VersionModulus - 1
        BY <2>6 DEF WriteVersion
      <3>2. version' = (version + 1) % VersionModulus
        BY <2>6 DEF WriteVersion
      <3>3. version' = version + 1
        <4> HIDE DEF Version, VersionInv, TypeOK, Protocol
        <4> QED
          BY <3>1, <3>2, SmallRemainder, PduChannelAssumption
      <3> QED
        BY <2>6, <3>3 DEF WriteVersion
    <2>7. CASE WriteReturn
      BY <2>7 DEF WriteReturn
    <2> QED
      BY <1>1, <2>1, <2>2, <2>3, <2>4, <2>5, <2>6, <2>7 DEF write_pdu
  <1>2. CASE \E r \in Readers : read_pdu(r)
    <2> PICK r \in Readers : read_pdu(r)
      BY <1>2
    <2> USE DEF ReaderGoto, ReaderUnchanged
    <2>1. CASE ReadCall(r)
      BY <2>1 DEF ReadCall
    <2>2. CASE ReadCheck(r)
      BY <2>2 DEF ReadCheck
    <2>3. CASE ReadBack(r)
      BY <2>3 DEF ReadBack
    <2>4. CASE ReadRetry(r)
      BY <2>4 DEF ReadRetry
    <2>5. CASE ReadLo(r)
      BY <2>5 DEF ReadLo
    <2>6. CASE ReadHi(r)
      BY <2>6 DEF ReadHi
    <2>7. CASE ReadVersion(r)
      BY <2>7 DEF ReadVersion
    <2>8. CASE ReadReturn(r)
      BY <2>8 DEF ReadReturn
    <2> QED
      BY <2>1, <2>2, <2>3, <2>4, <2>5, <2>6, <2>7, <2>8 DEF read_pdu
  <1>3. CASE \E p \in Procs : Commit(p)
    BY <1>3 DEF Commit, FlagsTrue
  <1>4. CASE ResetReaders
    BY <1>4 DEF ResetReaders
  <1>5. CASE ResetChannel
    BY <1>5 DEF ResetChannel, FlagsTrue
  <1>6. CASE ResetData
    BY <1>6 DEF ResetData, FlagsTrue
  <1>7. CASE \E p \in Procs : Die(p)
    BY <1>7 DEF Die
  <1>8. CASE write_pdu_nolock
    BY <1>8 DEF write_pdu_nolock, RawWriteLo, RawWriteHi, RawUnchanged, FlagsTrue
  <1>9. CASE UNCHANGED vars
    BY <1>9 DEF vars
  <1> QED
    BY <1>1, <1>2, <1>3, <1>4, <1>5, <1>6, <1>7, <1>8, <1>9 DEF Next

\* What can be counted after a step could be counted before it.
LEMMA CountableBefore ==
  ASSUME TypeOK, [Next]_vars, Countable' PROVE Countable
  <1>1. writes' >= writes
    <2> USE DEF TypeOK
    <2>1. CASE write_pdu
      BY <2>1 DEF write_pdu, WriteCall, ScanFree, ScanBusy, ScanDone, WriteLo,
                  WriteHi, WriteVersion, WriteReturn
    <2>2. CASE \E r \in Readers : read_pdu(r)
      BY <2>2 DEF read_pdu, ReadCall, ReadCheck, ReadBack, ReadRetry, ReadLo,
                  ReadHi, ReadVersion, ReadReturn, ReaderUnchanged
    <2>3. CASE \E p \in Procs : Commit(p)
      BY <2>3 DEF Commit
    <2>4. CASE ResetReaders \/ ResetChannel \/ ResetData
      BY <2>4 DEF ResetReaders, ResetChannel, ResetData, ResetUnchanged
    <2>5. CASE \E p \in Procs : Die(p)
      BY <2>5 DEF Die
    <2>6. CASE write_pdu_nolock
      BY <2>6 DEF write_pdu_nolock, RawWriteLo, RawWriteHi, RawUnchanged
    <2>7. CASE UNCHANGED vars
      BY <2>7 DEF vars
    <2> QED
      BY <2>1, <2>2, <2>3, <2>4, <2>5, <2>6, <2>7 DEF Next
  <1>2. Undisturbed
    BY UndisturbedBefore DEF Countable
  <1>3. writes \in Nat /\ writes' \in Nat
    BY TypeStep DEF TypeOK
  <1> QED
    BY <1>1, <1>2, <1>3, PduChannelAssumption DEF Countable

\* What the steps preserve about the version.
DirtyInv == ChannelInv /\ (Countable => VersionInv)

LEMMA DirtyInvStep ==
  ASSUME DirtyInv, [Next]_vars PROVE DirtyInv'
  <1>1. ChannelInv /\ (Countable => VersionInv)
    BY DEF DirtyInv
  <1>2. ChannelInv'
    BY <1>1, ChannelInvStep
  <1>3. ASSUME Countable' PROVE VersionInv'
    <2>1. TypeOK
      BY <1>1 DEF ChannelInv
    <2>2. Countable
      BY <1>3, <2>1, CountableBefore
    <2>3. Protocol /\ VersionInv
      BY <1>1, <2>2 DEF Countable, ChannelInv
    <2> QED
      BY <1>3, <2>1, <2>2, <2>3, VersionStep
  <1> QED
    BY <1>2, <1>3 DEF DirtyInv

\* As long as no store has been delayed, no reset has run and nobody has
\* written past the flags, and while the
\* version has not wrapped around, a reader that is told that the channel is
\* not dirty has the newest PDU.
THEOREM DirtyIsReliable == Spec => []NotDirtyMeansNewest
  <1>1. Init => DirtyInv
    BY InitChannelInv, PduChannelAssumption DEF Init, VersionInv, DirtyInv
  <1>2. DirtyInv /\ [Next]_vars => DirtyInv'
    BY DirtyInvStep
  <1>3. DirtyInv => NotDirtyMeansNewest
    BY DEF DirtyInv, ChannelInv, Protocol, TypeOK, Words, Version, WordsAgree,
           Countable, VersionInv, NotDirtyMeansNewest, is_pdu_dirty
  <1> QED
    BY <1>1, <1>2, <1>3, PTL DEF Spec

-----------------------------------------------------------------------------
(* The channel as an atomic register *)

\* The last word of the PDU is that of the latest complete write.
LatestInPlace == data.hi = Completed

RegisterInv == ChannelInv /\ (Undisturbed => LatestInPlace)

\* What a step on an undisturbed channel looks like from outside: a write takes
\* effect, a read does, or nothing happens.
Shows ==
  \/ Register!Write
  \/ \E r \in Readers : Register!Read(r)
  \/ UNCHANGED Register!registerVars

LEMMA WriterShows ==
  ASSUME TypeOK, Protocol, LatestInPlace, Undisturbed, Undisturbed', write_pdu
  PROVE  LatestInPlace' /\ Shows
  <1>1. \A r \in Readers : Held(r)' = Held(r)
    <2>1. UNCHANGED <<rpc, got>>
      BY DEF write_pdu, WriteCall, ScanFree, ScanBusy, ScanDone, WriteLo, WriteHi,
             WriteVersion, WriteReturn, WriterUnchanged
    <2> QED
      BY <2>1 DEF Held
  <1>2. [r \in Readers |-> Held(r)]' = [r \in Readers |-> Held(r)]
    BY <1>1
  <1>3. Undisturbed' = Undisturbed
    OBVIOUS
  <1>4. data \in Words /\ writes \in Nat
    BY DEF TypeOK
  <1>5. CASE WriteHi
    <2>1. /\ wpc = "hi" /\ wpc' = "version" /\ UNCHANGED writes
          /\ data' = [lo |-> data.lo, hi |-> writes]
      BY <1>5 DEF WriteHi
    <2>2. data'.hi = writes /\ Completed = writes - 1 /\ Completed' = writes
      BY <2>1 DEF Completed
    <2>3. Completed' = Completed + 1
      BY <1>4, <2>2
    <2> QED
      BY <1>2, <1>3, <2>2, <2>3 DEF LatestInPlace, Shows, Register!Write
  <1>6. CASE write_pdu /\ ~WriteHi
    <2>1. WriteCall => Completed' = Completed
      BY <1>4 DEF WriteCall, Completed
    <2>2. Completed' = Completed
      BY <1>4, <1>6, <2>1 DEF write_pdu, ScanFree, ScanBusy, ScanDone, WriteLo,
                        WriteVersion, WriteReturn, Completed
    <2>3. data'.hi = data.hi
      BY <1>4, <1>6 DEF write_pdu, WriteCall, ScanFree, ScanBusy, ScanDone, WriteLo,
                        WriteVersion, WriteReturn, Words
    <2> QED
      BY <1>2, <1>3, <2>2, <2>3 DEF LatestInPlace, Shows, Register!registerVars
  <1> QED
    BY <1>5, <1>6

LEMMA ReaderShows ==
  ASSUME TypeOK, Protocol, LatestInPlace, Undisturbed, Undisturbed',
         NEW r \in Readers, read_pdu(r)
  PROVE  LatestInPlace' /\ Shows
  <1>1. UNCHANGED <<data, wpc, writes>>
    BY DEF read_pdu, ReadCall, ReadCheck, ReadBack, ReadRetry, ReadLo, ReadHi,
           ReadVersion, ReadReturn, ReaderUnchanged
  <1>2. LatestInPlace' /\ Completed' = Completed
    BY <1>1 DEF LatestInPlace, Completed
  <1>3. Undisturbed' = Undisturbed
    OBVIOUS
  <1>4. got \in [Readers -> Words] /\ data \in Words /\ DOMAIN rpc = Readers
    BY DEF TypeOK
  <1>5. got[r] \in Words
    BY <1>4
  <1>6. \A s \in Readers \ {r} : rpc'[s] = rpc[s] /\ got'[s] = got[s]
    BY <1>4 DEF read_pdu, ReadCall, ReadCheck, ReadBack, ReadRetry, ReadLo, ReadHi,
                ReadVersion, ReadReturn, ReaderGoto
  <1>7. \A s \in Readers \ {r} : Held(s)' = Held(s)
    BY <1>6 DEF Held
  <1>8. CASE ReadHi(r)
    <2>1. /\ rpc[r] = "hi" /\ rpc'[r] # "hi"
          /\ got'[r] = [lo |-> got[r].lo, hi |-> data.hi]
      BY <1>4, <1>8 DEF ReadHi, ReaderGoto
    <2>2. got[r].lo = data.lo /\ data.lo = data.hi
      BY <2>1 DEF Protocol, WordsAgree, PassedStayOut, Passed, Writing, Reading
    <2>3. Held(r)' = Register!PDU(Completed)
      BY <2>1, <2>2 DEF Held, LatestInPlace, Register!PDU
    <2>4. [s \in Readers |-> Held(s)]'
            = [[s \in Readers |-> Held(s)] EXCEPT ![r] = Register!PDU(Completed)]
      BY <1>7, <2>3
    <2> QED
      BY <1>2, <1>3, <2>4 DEF Shows, Register!Read
  <1>9. CASE ~ReadHi(r)
    <2>1. Held(r)' = Held(r)
      <3>1. CASE ReadLo(r)
        <4>1. /\ rpc[r] = "lo" /\ rpc'[r] = "hi"
              /\ got'[r] = [lo |-> data.lo, hi |-> got[r].hi]
          BY <1>4, <3>1 DEF ReadLo, ReaderGoto
        <4>2. got[r].lo = got[r].hi
          BY <4>1 DEF Protocol, WordsAgree
        <4>3. got[r] = [lo |-> got[r].hi, hi |-> got[r].hi]
          BY <1>5, <4>2 DEF Words
        <4> QED
          BY <4>1, <4>3 DEF Held
      <3>2. CASE ~ReadLo(r)
        <4>1. UNCHANGED got /\ rpc[r] # "hi" /\ rpc'[r] # "hi"
          BY <1>4, <1>9, <3>2 DEF read_pdu, ReadCall, ReadCheck, ReadBack, ReadRetry,
                ReadVersion, ReadReturn, ReaderGoto
        <4> QED
          BY <4>1 DEF Held
      <3> QED
        BY <3>1, <3>2
    <2>2. [s \in Readers |-> Held(s)]' = [s \in Readers |-> Held(s)]
      BY <1>7, <2>1
    <2> QED
      BY <1>2, <1>3, <2>2 DEF Shows, Register!registerVars
  <1> QED
    BY <1>8, <1>9

LEMMA RegisterStep ==
  ASSUME RegisterInv, [Next]_vars
  PROVE  /\ RegisterInv'
         /\ [Register!RegisterNext]_(Register!registerVars)
  <1>1. ChannelInv' /\ TypeOK
    BY ChannelInvStep DEF RegisterInv, ChannelInv
  <1>2. CASE ~Undisturbed'
    <2>1. Undisturbed' = FALSE
      BY <1>2
    <2> QED
      BY <1>1, <1>2, <2>1 DEF RegisterInv, Register!RegisterNext, Register!Disturb
  <1>3. CASE Undisturbed'
    <2>1. Undisturbed /\ Protocol /\ LatestInPlace
      BY <1>1, <1>3, UndisturbedBefore DEF RegisterInv, ChannelInv
    <2>2. LatestInPlace' /\ Shows
      <3>1. CASE write_pdu
        BY <1>1, <1>3, <2>1, <3>1, WriterShows
      <3>2. CASE \E r \in Readers : read_pdu(r)
        BY <1>1, <1>3, <2>1, <3>2, ReaderShows
      <3>3. CASE (\E p \in Procs : Die(p)) \/ UNCHANGED vars
        <4>1. UNCHANGED <<data, wpc, writes, rpc, got>>
          BY <3>3 DEF Die, vars
        <4>2. Completed' = Completed /\ LatestInPlace'
          BY <2>1, <4>1 DEF Completed, LatestInPlace
        <4>3. [r \in Readers |-> Held(r)]' = [r \in Readers |-> Held(r)]
          BY <4>1 DEF Held
        <4>4. Undisturbed' = Undisturbed
          BY <1>3, <2>1
        <4> QED
          BY <4>2, <4>3, <4>4 DEF Shows, Register!registerVars
      <3>4. ~\E p \in Procs : Commit(p)
        BY <2>1 DEF Commit, Protocol, FlagsTrue
      <3>5. ~ResetReaders
        BY <1>1, <1>3, <2>1 DEF ResetReaders, Undisturbed, TypeOK
      <3>6. ~ResetChannel /\ ~ResetData
        BY <2>1 DEF ResetChannel, ResetData, Protocol, FlagsTrue
      <3>7. ~write_pdu_nolock
        BY <1>1, <1>3, <2>1 DEF write_pdu_nolock, RawWriteLo, RawWriteHi, Undisturbed,
                                TypeOK, Protocol, FlagsTrue
      <3> QED
        BY <3>1, <3>2, <3>3, <3>4, <3>5, <3>6, <3>7 DEF Next
    <2> QED
      BY <1>1, <2>2 DEF RegisterInv, Shows, Register!RegisterNext
  <1> QED
    BY <1>2, <1>3

\* A PDU channel is an atomic register until a flag store is delayed, the
\* channel is reset or written past the flags: for any number of readers, of
\* reads and writes, whatever the interleaving of the word-by-word copies and
\* whoever is killed in the middle, a read has the PDU of the latest write at
\* one moment of its call.  Versions play no part in this, so it holds across
\* their wrap-around too.
THEOREM ChannelIsRegister == Spec => ImplementsRegister
  <1>1. Init => RegisterInv
    BY InitChannelInv DEF RegisterInv, Init, LatestInPlace, Completed
  <1>2. Init => Register!RegisterInit
    <2> SUFFICES ASSUME Init PROVE Register!RegisterInit
      OBVIOUS
    <2>1. Completed = 0 /\ Undisturbed = TRUE
      BY DEF Init, Completed, Undisturbed
    <2>2. [r \in Readers |-> Held(r)] = [r \in Readers |-> [lo |-> 0, hi |-> 0]]
      BY DEF Init, Held
    <2> QED
      BY <2>1, <2>2 DEF Register!RegisterInit, Register!PDU
  <1> QED
    BY <1>1, <1>2, RegisterStep, PTL
    DEF Spec, ImplementsRegister, Register!RegisterSpec
=============================================================================
