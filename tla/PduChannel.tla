---------------------------- MODULE PduChannel ------------------------------
(***************************************************************************)
(* One PDU channel in shared memory: write_pdu, read_pdu,                  *)
(* read_pdu_for_external, write_pdu_nolock, is_pdu_dirty and the part of   *)
(* reset() that touches a channel (hako_pdu_data.hpp); read_pdu_nolock     *)
(* changes nothing.  There is one writer and one                           *)
(* reader per asset, plus the external readers' common flag: the comments  *)
(* "writers: only one!" and "readers: only one!" put that on the callers.  *)
(*                                                                         *)
(* The busy flags are stored with release and loaded with acquire order.   *)
(* Neither keeps a store ahead of a later load of another location: a flag *)
(* store may first wait in the process's store buffer (pending), invisible *)
(* to the others, while its loads go on.  The buffer is first in, first    *)
(* out, so a later store waits for it, and the atomic addition drains it.  *)
(* Delayed stores are counted: as long as there was none, memory has been  *)
(* sequentially consistent.                                                *)
(*                                                                         *)
(* A process may be killed at any point.  Its flag stays as it is, and only *)
(* reset() lowers it.                                                      *)
(*                                                                         *)
(* A PDU is two words, which memcpy copies one after the other; a word     *)
(* holds the number of the write that stored it.                           *)
(***************************************************************************)
EXTENDS Naturals, FiniteSets

CONSTANTS
  Readers,         \* the readers of the channel, each with an rbusy flag
  External,        \* the readers among them that keep no version
  Writer,          \* its writer
  VersionModulus,  \* versions are uint32_t: 2^32
  MaxWrites,       \* bound on the calls of write_pdu
  MaxReads,        \* bound on the calls of read_pdu by each reader
  StoresDelay,     \* may a flag store be delayed past later loads?
  MaxDisturbances, \* bound on delayed stores and calls of reset() and
                   \*   write_pdu_nolock, together
  MaxDeaths        \* bound on the processes that are killed

ASSUME PduChannelAssumption ==
  /\ Writer \notin Readers
  /\ External \subseteq Readers
  /\ VersionModulus \in Nat \ {0}
  /\ MaxWrites \in Nat
  /\ MaxReads \in Nat
  /\ StoresDelay \in BOOLEAN
  /\ MaxDisturbances \in Nat
  /\ MaxDeaths \in Nat

VARIABLES
  flag,     \* atomic_is_wbusy for Writer, atomic_is_rbusy for a reader
  pending,  \* pending[p]: the flag store in p's store buffer, if any
  data,     \* the two words of the PDU
  version,  \* atomic_pdu_write_version
  seen,     \* seen[r]: atomic_pdu_read_version of r
  wpc,      \* the writer's program point
  unseen,   \* the writer: readers not yet found idle in its current scan
  rpc,      \* the readers' program points
  got,      \* got[r]: the words r has copied
  wipe,     \* which part reset() clears next
  writes,   \* number of calls of write_pdu
  reads,    \* number of calls of read_pdu by each reader
  delays,   \* number of delayed flag stores
  resets,   \* number of calls of reset()
  raw,      \* the word that write_pdu_nolock copies next, "off" outside of it
  raws,     \* number of calls of write_pdu_nolock
  dead      \* processes that were killed

vars == <<flag, pending, data, version, seen, wpc, unseen, rpc, got, wipe,
          writes, reads, delays, resets, raw, raws, dead>>

Procs == Readers \cup {Writer}
Words == [lo : Nat, hi : Nat]
Version == 0 .. (VersionModulus - 1)

TypeOK ==
  /\ flag \in [Procs -> {"free", "busy"}]
  /\ pending \in [Procs -> {"none", "free", "busy"}]
  /\ data \in Words
  /\ version \in Version
  /\ seen \in [Readers -> Version]
  /\ wpc \in {"idle", "scan", "lo", "hi", "version", "clear"}
  /\ unseen \subseteq Readers
  /\ rpc \in [Readers -> {"idle", "retry", "check", "back", "lo", "hi",
                          "version", "clear"}]
  /\ got \in [Readers -> Words]
  /\ wipe \in {"off", "channel", "data"}
  /\ writes \in Nat
  /\ reads \in [Readers -> Nat]
  /\ delays \in Nat
  /\ resets \in Nat
  /\ raw \in {"off", "hi"}
  /\ raws \in Nat
  /\ dead \subseteq Procs

-----------------------------------------------------------------------------
(* Memory *)

Disturbances == delays + resets + raws

\* hako_atomic_store_bool by p on its own flag: it reaches memory at once or
\* waits in the store buffer.
StoreFlag(p, value) ==
  /\ pending[p] = "none"
  /\ \/ /\ flag' = [flag EXCEPT ![p] = value]
        /\ UNCHANGED <<pending, delays>>
     \/ /\ StoresDelay
        /\ Disturbances < MaxDisturbances
        /\ pending' = [pending EXCEPT ![p] = value]
        /\ delays' = delays + 1
        /\ UNCHANGED flag

\* A store other than that of a flag: those before it have reached memory.
InOrder(p) == pending[p] = "none"

\* The flag store of p reaches memory.
Commit(p) ==
  /\ pending[p] # "none"
  /\ flag' = [flag EXCEPT ![p] = pending[p]]
  /\ pending' = [pending EXCEPT ![p] = "none"]
  /\ UNCHANGED <<data, version, seen, wpc, unseen, rpc, got, wipe, writes,
                 reads, delays, resets, raw, raws, dead>>

is_pdu_wbusy == flag[Writer] = "busy"
is_pdu_rbusy(r) == flag[r] = "busy"

-----------------------------------------------------------------------------
(* write_pdu *)

WriterUnchanged == UNCHANGED <<seen, rpc, got, wipe, reads, resets, raw, raws, dead>>

\* Mutant: the writer does not announce itself.
WriteCallSilent ==
  /\ wpc = "idle"
  /\ writes < MaxWrites
  /\ wpc' = "scan"
  /\ unseen' = Readers
  /\ writes' = writes + 1
  /\ UNCHANGED <<flag, pending, delays, data, version>> /\ WriterUnchanged

WriteCall ==
  /\ wpc = "idle"
  /\ writes < MaxWrites
  /\ StoreFlag(Writer, "busy")
  /\ wpc' = "scan"
  /\ unseen' = Readers
  /\ writes' = writes + 1
  /\ UNCHANGED <<data, version>> /\ WriterUnchanged

\* One load of is_pdu_rbusy finds r idle; the order of the loads is left open.
ScanFree(r) ==
  /\ wpc = "scan"
  /\ r \in unseen
  /\ ~is_pdu_rbusy(r)
  /\ unseen' = unseen \ {r}
  /\ UNCHANGED <<flag, pending, delays, data, version, wpc, writes>> /\ WriterUnchanged

\* Mutant: a reader found busy is not looked at again.
ScanBusyOnce(r) ==
  /\ wpc = "scan"
  /\ r \in unseen
  /\ is_pdu_rbusy(r)
  /\ unseen' = unseen \ {r}
  /\ UNCHANGED <<flag, pending, delays, data, version, wpc, writes>> /\ WriterUnchanged

\* One load finds r busy: the scan starts again.
ScanBusy(r) ==
  /\ wpc = "scan"
  /\ r \in unseen
  /\ is_pdu_rbusy(r)
  /\ unseen' = Readers
  /\ UNCHANGED <<flag, pending, delays, data, version, wpc, writes>> /\ WriterUnchanged

ScanDone ==
  /\ wpc = "scan"
  /\ unseen = {}
  /\ wpc' = "lo"
  /\ UNCHANGED <<flag, pending, delays, data, version, unseen, writes>>
  /\ WriterUnchanged

WriteLo ==
  /\ wpc = "lo"
  /\ InOrder(Writer)
  /\ data' = [lo |-> writes, hi |-> data.hi]
  /\ wpc' = "hi"
  /\ UNCHANGED <<flag, pending, delays, version, unseen, writes>> /\ WriterUnchanged

WriteHi ==
  /\ wpc = "hi"
  /\ InOrder(Writer)
  /\ data' = [lo |-> data.lo, hi |-> writes]
  /\ wpc' = "version"
  /\ UNCHANGED <<flag, pending, delays, version, unseen, writes>> /\ WriterUnchanged

\* Mutant: the version stays as it is.
WriteVersionSame ==
  /\ wpc = "version"
  /\ InOrder(Writer)
  /\ wpc' = "clear"
  /\ UNCHANGED <<flag, pending, delays, data, version, unseen, writes>>
  /\ WriterUnchanged

WriteVersion ==
  /\ wpc = "version"
  /\ InOrder(Writer)
  /\ version' = (version + 1) % VersionModulus
  /\ wpc' = "clear"
  /\ UNCHANGED <<flag, pending, delays, data, unseen, writes>> /\ WriterUnchanged

WriteReturn ==
  /\ wpc = "clear"
  /\ StoreFlag(Writer, "free")
  /\ wpc' = "idle"
  /\ UNCHANGED <<data, version, unseen, writes>> /\ WriterUnchanged

write_pdu ==
  /\ Writer \notin dead
  /\ \/ WriteCall
     \/ \E r \in Readers : ScanFree(r) \/ ScanBusy(r)
     \/ ScanDone \/ WriteLo \/ WriteHi \/ WriteVersion \/ WriteReturn

\* What the writer does once it has called, apart from its loads.
WriteGoesOn ==
  /\ Writer \notin dead
  /\ ScanDone \/ WriteLo \/ WriteHi \/ WriteVersion \/ WriteReturn

-----------------------------------------------------------------------------
(* read_pdu and read_pdu_for_external *)

ReaderUnchanged ==
  UNCHANGED <<data, version, wpc, unseen, wipe, writes, resets, raw, raws, dead>>

ReaderGoto(r, l) == rpc' = [rpc EXCEPT ![r] = l]

ReadCall(r) ==
  /\ rpc[r] = "idle"
  /\ reads[r] < MaxReads
  /\ StoreFlag(r, "busy")
  /\ ReaderGoto(r, "check")
  /\ reads' = [reads EXCEPT ![r] = @ + 1]
  /\ UNCHANGED <<seen, got>> /\ ReaderUnchanged

\* Is the writer busy?  Then the reader must step back.
ReadCheck(r) ==
  /\ rpc[r] = "check"
  /\ ReaderGoto(r, IF is_pdu_wbusy THEN "back" ELSE "lo")
  /\ UNCHANGED <<flag, pending, delays, seen, got, reads>> /\ ReaderUnchanged

\* Mutant: the reader waits with its flag up.
ReadBackBusy(r) ==
  /\ rpc[r] = "back"
  /\ ReaderGoto(r, "retry")
  /\ UNCHANGED <<flag, pending, delays, seen, got, reads>> /\ ReaderUnchanged

ReadBack(r) ==
  /\ rpc[r] = "back"
  /\ StoreFlag(r, "free")
  /\ ReaderGoto(r, "retry")
  /\ UNCHANGED <<seen, got, reads>> /\ ReaderUnchanged

\* Mutant: the writer's flag is not looked at again.
ReadRetryBlind(r) ==
  /\ rpc[r] = "retry"
  /\ StoreFlag(r, "busy")
  /\ ReaderGoto(r, "lo")
  /\ UNCHANGED <<seen, got, reads>> /\ ReaderUnchanged

ReadRetry(r) ==
  /\ rpc[r] = "retry"
  /\ StoreFlag(r, "busy")
  /\ ReaderGoto(r, "check")
  /\ UNCHANGED <<seen, got, reads>> /\ ReaderUnchanged

ReadLo(r) ==
  /\ rpc[r] = "lo"
  /\ got' = [got EXCEPT ![r] = [lo |-> data.lo, hi |-> got[r].hi]]
  /\ ReaderGoto(r, "hi")
  /\ UNCHANGED <<flag, pending, delays, seen, reads>> /\ ReaderUnchanged

ReadHi(r) ==
  /\ rpc[r] = "hi"
  /\ got' = [got EXCEPT ![r] = [lo |-> got[r].lo, hi |-> data.hi]]
  /\ ReaderGoto(r, IF r \in External THEN "clear" ELSE "version")
  /\ UNCHANGED <<flag, pending, delays, seen, reads>> /\ ReaderUnchanged

\* The version the copy is taken to have: loaded after the copy.
ReadVersion(r) ==
  /\ rpc[r] = "version"
  /\ InOrder(r)
  /\ seen' = [seen EXCEPT ![r] = version]
  /\ ReaderGoto(r, "clear")
  /\ UNCHANGED <<flag, pending, delays, got, reads>> /\ ReaderUnchanged

ReadReturn(r) ==
  /\ rpc[r] = "clear"
  /\ StoreFlag(r, "free")
  /\ ReaderGoto(r, "idle")
  /\ UNCHANGED <<seen, got, reads>> /\ ReaderUnchanged

read_pdu(r) ==
  /\ r \notin dead
  /\ \/ ReadCall(r) \/ ReadCheck(r) \/ ReadBack(r) \/ ReadRetry(r) \/ ReadLo(r)
     \/ ReadHi(r) \/ ReadVersion(r) \/ ReadReturn(r)

\* What a reader does once it has called.
ReadGoesOn(r) ==
  /\ r \notin dead
  /\ \/ ReadCheck(r) \/ ReadBack(r) \/ ReadRetry(r) \/ ReadLo(r) \/ ReadHi(r)
     \/ ReadVersion(r) \/ ReadReturn(r)

is_pdu_dirty(r) == seen[r] # version

-----------------------------------------------------------------------------
(* reset() of the master, which takes no part in the flag protocol *)

ResetUnchanged ==
  UNCHANGED <<pending, delays, wpc, unseen, rpc, got, writes, reads, raw, raws, dead>>

\* The loop over the assets: their rbusy flags and read versions.
ResetReaders ==
  /\ wipe = "off"
  /\ Disturbances < MaxDisturbances
  /\ flag' = [p \in Procs |-> IF p \in Readers \ External THEN "free"
                                                         ELSE flag[p]]
  /\ seen' = [r \in Readers |-> IF r \in External THEN seen[r] ELSE 0]
  /\ wipe' = "channel"
  /\ resets' = resets + 1
  /\ UNCHANGED <<version, data>> /\ ResetUnchanged

\* The loop over the channels: the other flags and the write version.
ResetChannel ==
  /\ wipe = "channel"
  /\ flag' = [p \in Procs |-> IF p \in Readers \ External THEN flag[p]
                                                         ELSE "free"]
  /\ version' = 0
  /\ wipe' = "data"
  /\ UNCHANGED <<seen, resets, data>> /\ ResetUnchanged

ResetData ==
  /\ wipe = "data"
  /\ data' = [lo |-> 0, hi |-> 0]
  /\ wipe' = "off"
  /\ UNCHANGED <<flag, version, seen, resets>> /\ ResetUnchanged

-----------------------------------------------------------------------------
(* write_pdu_nolock, for commands: neither flag nor version *)

RawUnchanged ==
  UNCHANGED <<flag, pending, version, seen, wpc, unseen, rpc, got, wipe, writes,
              reads, delays, resets, dead>>

\* The words of such a write carry a number that no write_pdu has.
RawWriteLo ==
  /\ raw = "off"
  /\ Disturbances < MaxDisturbances
  /\ data' = [lo |-> MaxWrites + raws + 1, hi |-> data.hi]
  /\ raw' = "hi"
  /\ raws' = raws + 1
  /\ RawUnchanged

RawWriteHi ==
  /\ raw = "hi"
  /\ data' = [lo |-> data.lo, hi |-> MaxWrites + raws]
  /\ raw' = "off"
  /\ UNCHANGED raws /\ RawUnchanged

write_pdu_nolock == RawWriteLo \/ RawWriteHi

-----------------------------------------------------------------------------

\* A process is killed in its call; what it has stored stays, what is in its
\* store buffer still reaches memory.
Die(p) ==
  /\ p \notin dead
  /\ Cardinality(dead) < MaxDeaths
  /\ IF p = Writer THEN wpc # "idle" ELSE rpc[p] # "idle"
  /\ dead' = dead \cup {p}
  /\ UNCHANGED <<flag, pending, data, version, seen, wpc, unseen, rpc, got, wipe,
                 writes, reads, delays, resets, raw, raws>>

Init ==
  /\ flag = [p \in Procs |-> "free"]
  /\ pending = [p \in Procs |-> "none"]
  /\ data = [lo |-> 0, hi |-> 0]
  /\ version = 0
  /\ seen = [r \in Readers |-> 0]
  /\ wpc = "idle"
  /\ unseen = {}
  /\ rpc = [r \in Readers |-> "idle"]
  /\ got = [r \in Readers |-> [lo |-> 0, hi |-> 0]]
  /\ wipe = "off"
  /\ writes = 0
  /\ reads = [r \in Readers |-> 0]
  /\ delays = 0
  /\ resets = 0
  /\ raw = "off"
  /\ raws = 0
  /\ dead = {}

Next ==
  \/ write_pdu
  \/ \E r \in Readers : read_pdu(r)
  \/ \E p \in Procs : Commit(p)
  \/ \E p \in Procs : Die(p)
  \/ ResetReaders \/ ResetChannel \/ ResetData
  \/ write_pdu_nolock

Spec == Init /\ [][Next]_vars

(***************************************************************************)
(* Fairness: everybody in a call keeps running, store buffers drain, and a *)
(* writer that finds a reader idle again and again does see it once: the   *)
(* reader steps back for a whole pause (hako_cpu_relax_backoff) between    *)
(* two attempts.                                                           *)
(***************************************************************************)
Fairness ==
  /\ WF_vars(WriteGoesOn)
  /\ \A r \in Readers :
       /\ SF_vars(Writer \notin dead /\ ScanFree(r))
       /\ WF_vars(ReadGoesOn(r))
  /\ \A p \in Procs : WF_vars(Commit(p))

FairSpec == Spec /\ Fairness

-----------------------------------------------------------------------------
(* Properties *)

Writing == wpc \in {"lo", "hi", "version", "clear"}
Reading(r) == rpc[r] \in {"lo", "hi", "version", "clear"}

\* So far loads and stores took effect in program order, nobody has reset, and
\* nobody has written past the flags.
Undisturbed == delays = 0 /\ resets = 0 /\ raws = 0

\* The busy flags exclude the writer and the readers from each other
\* (docs/SHARED_MEMORY_SPEC_EN.md: the read/write APIs reference them "for
\* mutual exclusion").
MutualExclusion == Writing => \A r \in Readers : ~Reading(r)

\* The busy flags of write_pdu and read_pdu exclude the writer and the readers
\* from each other until a flag store is delayed or reset() or write_pdu_nolock
\* is called.
FlagsExclude == Undisturbed => MutualExclusion

\* Until then a completed read_pdu has copied one PDU, never halves of two.
NoTornRead ==
  Undisturbed =>
    \A r \in Readers : rpc[r] \in {"version", "clear", "idle"}
                           => got[r].lo = got[r].hi

\* Until then, and while the version has not wrapped around, a reader that
\* is_pdu_dirty tells that nothing is new has the newest PDU written.
NotDirtyMeansNewest ==
  Undisturbed /\ writes < VersionModulus =>
    \A r \in Readers \ External :
      (rpc[r] = "idle" /\ wpc = "idle" /\ ~is_pdu_dirty(r)) => got[r] = data

\* The writes that have taken effect: a write does when its last word is stored.
Completed == IF wpc \in {"scan", "lo", "hi"} THEN writes - 1 ELSE writes

\* What reader r got last: a read half done does not count.
Held(r) == IF rpc[r] = "hi" THEN [lo |-> got[r].hi, hi |-> got[r].hi] ELSE got[r]

Register == INSTANCE AtomicRegister WITH
  count <- Completed,
  held <- [r \in Readers |-> Held(r)],
  intact <- Undisturbed

\* Until the first disturbance the channel is an atomic register: every read_pdu,
\* copied word by word, has the PDU of the latest write_pdu at one moment of the call, and no
\* PDU of a write that is only half done, even if its writer was killed.
ImplementsRegister == Register!RegisterSpec

\* Two readers step back and try again in turn, so that the writer's scan always
\* finds one of them busy.  Only the timing of their pauses ends this.
Contention ==
  \E r, s \in Readers :
    r # s /\ rpc[r] \in {"retry", "check", "back"} /\ rpc[s] \in {"retry", "check", "back"}

\* A process was killed with its flag up, and nobody has reset the channel since.
Abandoned == \E p \in dead : flag[p] = "busy"

\* Writer and reader never wait for each other for ever: every call of
\* write_pdu and read_pdu returns, given that the calls of the other side do
\* not follow each other without end (the comment in read_pdu: "in order to
\* avoid deadlock situation for waiting each other"), unless two readers
\* contend for ever.  A process killed in its call blocks the others while its
\* flag is up; once reset() has lowered it, they return.
CallsReturn ==
  /\ []<>(wpc = "idle" \/ Writer \in dead \/ Contention \/ Abandoned)
  /\ \A r \in Readers :
       []<>(rpc[r] = "idle" \/ r \in dead \/ Contention \/ Abandoned)
=============================================================================
