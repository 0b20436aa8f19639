------------------------------ MODULE PduTable ------------------------------
(***************************************************************************)
(* The table of PDU channels and the data area laid out from it:           *)
(* create_channel, create_lchannel, get_pdu_channel, create, load and      *)
(* reset of HakoPduData (hako_pdu_data.hpp).                               *)
(*                                                                         *)
(* Every process has a HakoPduData of its own: the table is shared, the    *)
(* address of the data area and the cache of channel numbers are not.  The *)
(* table is guarded by a spin lock that only the two create functions      *)
(* take; create, load and reset are serialized by a lock file instead, and *)
(* a lookup takes neither.                                                 *)
(*                                                                         *)
(* The life cycle of the simulation (SimEvent) is reduced to what decides  *)
(* when the conductor calls create and reset: assets register while the    *)
(* simulation is stopped, and the area is created once all of them have    *)
(* answered the start event.                                               *)
(*                                                                         *)
(* A process may be killed at any point.  The kernel gives the lock file   *)
(* back; the spin lock stays taken until reset() clears it.                *)
(***************************************************************************)
EXTENDS Integers, FiniteSets, FiniteSetsExt

CONSTANTS
  Assets,      \* processes that declare and use channels
  Conductor,   \* the process that creates and resets the data area
  Keys,        \* pairs of a robot name and a logical channel number
  NoKey,       \* an entry of channel_map that was never written
  NoProc,      \* the lock file is free
  ChannelMax,  \* HAKO_PDU_CHANNEL_MAX
  SizeOf,      \* SizeOf[k]: the size k is declared with
  Direct,      \* channel numbers that are declared with create_channel
  InOrder,     \* TRUE: start is issued when no process is declaring, and no
               \*   channel is declared after the first start
  MaxStarts,   \* bound: number of starts
  MaxDeaths    \* bound: processes that are killed

ASSUME PduTableAssumption ==
  /\ Conductor \notin Assets
  /\ NoProc \notin Assets \cup {Conductor}
  /\ NoKey \notin Keys
  /\ ChannelMax \in Nat \ {0}
  /\ SizeOf \in [Keys -> Nat \ {0}]
  /\ Direct \subseteq 0 .. (ChannelMax - 1)
  /\ InOrder \in BOOLEAN
  /\ MaxStarts \in Nat
  /\ MaxDeaths \in Nat

VARIABLES
  channel,      \* channel[i] and channel_map[i]
  channel_num,  \* HakoPduMetaDataType.channel_num
  busy,         \* atomic_is_channel_table_busy
  asset_num,    \* HakoPduMetaDataType.asset_num
  area,         \* data_size of the data area, NoArea before it exists
  init_lock,    \* holder of the lock file pdu_init.lock
  pdu,          \* pdu[p]: has process p the address of the area (pdu_)?
  cache,        \* cache[p]: pdu_channel_cache_
  proc,         \* proc[p]: program point and local variables
  sim,          \* the simulation, as far as it decides on create and reset
  told,         \* told[p][d]: what came of p's declaration of d
  dead          \* processes that were killed

vars == <<channel, channel_num, busy, asset_num, area, init_lock, pdu, cache,
          proc, sim, told, dead>>

Procs == Assets \cup {Conductor}
Ids == 0 .. (ChannelMax - 1)
Decls == Keys \cup Direct
NoId == -1
NoArea == -1

Entry == [size : Nat, offset : Nat, key : Keys \cup {NoKey}]
Local == [pc : {"idle", "l_lock", "l_find", "l_name", "l_size", "l_load", "l_store",
                "d_lock", "d_size", "d_load", "d_store", "unlock",
                "c_area", "c_num", "c_offset", "c_attach",
                "r_unlock", "load", "w_load", "write", "crashed"},
          key : Keys \cup {NoKey}, id : Ids \cup {ChannelMax},
          num : Nat, answer : BOOLEAN, total : Nat]

TypeOK ==
  /\ channel \in [Ids -> Entry]
  /\ channel_num \in 0 .. ChannelMax
  /\ busy \in BOOLEAN
  /\ asset_num \in Nat
  /\ area \in Nat \cup {NoArea}
  /\ init_lock \in Procs \cup {NoProc}
  /\ pdu \in [Procs -> BOOLEAN]
  /\ cache \in [Procs -> [Keys -> Ids \cup {NoId}]]
  /\ proc \in [Procs -> Local]
  /\ sim \in [state : {"Stopped", "Runnable", "Running"},
              members : SUBSET Assets, answered : SUBSET Assets, starts : Nat]
  /\ told \in [Assets -> [Decls -> {"unasked", "asked", "true", "false"}]]
  /\ dead \subseteq Procs

Idle == [pc |-> "idle", key |-> NoKey, id |-> 0, num |-> 0,
         answer |-> FALSE, total |-> 0]

Init ==
  /\ channel = [i \in Ids |-> [size |-> 0, offset |-> 0, key |-> NoKey]]
  /\ channel_num = 0
  /\ busy = FALSE
  /\ asset_num = 0
  /\ area = NoArea
  /\ init_lock = NoProc
  /\ pdu = [p \in Procs |-> FALSE]
  /\ cache = [p \in Procs |-> [k \in Keys |-> NoId]]
  /\ proc = [p \in Procs |-> Idle]
  /\ sim = [state |-> "Stopped", members |-> {}, answered |-> {}, starts |-> 0]
  /\ told = [a \in Assets |-> [d \in Decls |-> "unasked"]]
  /\ dead = {}

At(p, pc) == p \notin dead /\ proc[p].pc = pc
Goto(p, pc) == proc' = [proc EXCEPT ![p].pc = pc]
Return(p) == proc' = [proc EXCEPT ![p] = Idle]

-----------------------------------------------------------------------------
(* Looking a channel up *)

\* get_pdu_channel as process p sees it: the cache, else the first entry below
\* channel_num with that key.
Scan(k) == {i \in Ids : i < channel_num /\ channel[i].key = k}
get_pdu_channel(p, k) ==
  IF cache[p][k] # NoId THEN cache[p][k]
  ELSE IF Scan(k) # {} THEN Min(Scan(k)) ELSE NoId

\* rebuild_pdu_channel_index: emplace keeps the first entry of a key.
rebuild_pdu_channel_index(p) ==
  [k \in Keys |-> IF Scan(k) # {} THEN Min(Scan(k)) ELSE NoId]

\* A lookup by any process, at any time, under no lock.
Lookup(p, k) ==
  /\ At(p, "idle")
  /\ cache' = [cache EXCEPT ![p][k] = get_pdu_channel(p, k)]
  /\ UNCHANGED <<channel, channel_num, busy, asset_num, area, init_lock, pdu,
                 proc, sim, told, dead>>

-----------------------------------------------------------------------------
(* Declaring a channel, under the spin lock of the table *)

\* Every process declares a channel once (bound).
MayDeclare(p, d) ==
  /\ InOrder => sim.starts = 0
  /\ told[p][d] = "unasked"
  /\ told' = [told EXCEPT ![p][d] = "asked"]

\* Mutant: the spin lock is a test and a store.
lock_channel_table_racy(p, pc) == Goto(p, pc) /\ busy' = TRUE

\* lock_channel_table: the exchange that finds the flag clear.
lock_channel_table(p, pc) == ~busy /\ busy' = TRUE /\ Goto(p, pc)

\* unlock_channel_table, and the return of the caller.
unlock_channel_table(p) ==
  /\ At(p, "unlock")
  /\ busy' = FALSE
  /\ LET d == IF proc[p].key # NoKey THEN proc[p].key ELSE proc[p].id
     IN told' = [told EXCEPT ![p][d] = IF proc[p].answer THEN "true" ELSE "false"]
  /\ Return(p)
  /\ UNCHANGED <<channel, channel_num, asset_num, area, init_lock, pdu, cache,
                 sim, dead>>

AreaUnchanged == UNCHANGED <<asset_num, area, init_lock, pdu, sim, dead>>
TableOnly == AreaUnchanged /\ UNCHANGED told

LChannelCall(p, k) ==
  /\ At(p, "idle")
  /\ MayDeclare(p, k)
  /\ proc' = [proc EXCEPT ![p] = [Idle EXCEPT !.pc = "l_lock", !.key = k]]
  /\ UNCHANGED <<channel, channel_num, busy, cache>>
  /\ AreaUnchanged

LChannelLock(p) ==
  /\ At(p, "l_lock")
  /\ lock_channel_table(p, "l_find")
  /\ UNCHANGED <<channel, channel_num, cache>>
  /\ TableOnly

\* An existing channel is a success, a full table a failure; an entry that
\* create_channel has taken is skipped, and that is reported as a success.
LChannelFind(p) ==
  LET k == proc[p].key
      found == get_pdu_channel(p, k)
      full == channel_num >= ChannelMax
      taken == ~full /\ channel[channel_num].size # 0
  IN
  /\ At(p, "l_find")
  /\ cache' = [cache EXCEPT ![p][k] = found]
  /\ proc' = [proc EXCEPT ![p].id = channel_num,
                          ![p].answer = found # NoId \/ ~full,
                          ![p].pc = IF found # NoId \/ full \/ taken
                                    THEN "unlock" ELSE "l_name"]
  /\ UNCHANGED <<channel, channel_num, busy>>
  /\ TableOnly

\* Mutant: the key is left out.
LChannelNameNot(p) ==
  /\ At(p, "l_name")
  /\ Goto(p, "l_size")
  /\ UNCHANGED <<channel, channel_num, busy, cache>>
  /\ TableOnly

LChannelName(p) ==
  /\ At(p, "l_name")
  /\ channel' = [channel EXCEPT ![proc[p].id].key = proc[p].key]
  /\ Goto(p, "l_size")
  /\ UNCHANGED <<channel_num, busy, cache>>
  /\ TableOnly

\* The size, then the cache of the declaring process.
LChannelSize(p) ==
  /\ At(p, "l_size")
  /\ channel' = [channel EXCEPT ![proc[p].id].size = SizeOf[proc[p].key]]
  /\ cache' = [cache EXCEPT ![p][proc[p].key] = IF @ = NoId THEN proc[p].id ELSE @]
  /\ Goto(p, "l_load")
  /\ UNCHANGED <<channel_num, busy>>
  /\ TableOnly

DirectCall(p, i) ==
  /\ At(p, "idle")
  /\ MayDeclare(p, i)
  /\ proc' = [proc EXCEPT ![p] = [Idle EXCEPT !.pc = "d_lock", !.id = i]]
  /\ UNCHANGED <<channel, channel_num, busy, cache>>
  /\ AreaUnchanged

DirectLock(p) ==
  /\ At(p, "d_lock")
  /\ lock_channel_table(p, "d_size")
  /\ UNCHANGED <<channel, channel_num, cache>>
  /\ TableOnly

\* create_channel: only an entry without a size is taken.
DirectSize(p) ==
  LET i == proc[p].id IN
  /\ At(p, "d_size")
  /\ IF channel[i].size = 0
     THEN /\ channel' = [channel EXCEPT ![i].size = 1]
          /\ proc' = [proc EXCEPT ![p].pc = "d_load", ![p].answer = TRUE]
     ELSE UNCHANGED channel /\ Goto(p, "unlock")
  /\ UNCHANGED <<channel_num, busy, cache>>
  /\ TableOnly

\* channel_num++ is not atomic.
CountLoad(p) ==
  /\ At(p, "l_load") \/ At(p, "d_load")
  /\ proc' = [proc EXCEPT ![p].num = channel_num,
                          ![p].pc = IF @ = "l_load" THEN "l_store" ELSE "d_store"]
  /\ UNCHANGED <<channel, channel_num, busy, cache>>
  /\ TableOnly

CountStore(p) ==
  /\ At(p, "l_store") \/ At(p, "d_store")
  /\ channel_num' = proc[p].num + 1
  /\ Goto(p, "unlock")
  /\ UNCHANGED <<channel, busy, cache>>
  /\ TableOnly

-----------------------------------------------------------------------------
(* The data area, under the lock file *)

\* The loops over all channels of pdu_total_size and create: the running sums
\* of the sizes.
Sizes == [i \in Ids |-> channel[i].size]
Sums(size) ==
  LET sum[n \in 0 .. ChannelMax] == IF n = 0 THEN 0 ELSE sum[n - 1] + size[n - 1]
  IN  sum

pdu_total_size == Sums(Sizes)[ChannelMax]
SizeBelow(i) == Sums(Sizes)[i]

TakeInitLock(p) == init_lock = NoProc /\ init_lock' = p

\* The conductor finds that all registered assets have answered.
MayCreate == sim.state = "Runnable" /\ sim.members \subseteq sim.answered

\* create(): an area that exists is kept and only the number of assets stored.
CreateCall(p) ==
  /\ MayCreate
  /\ At(p, "idle")
  /\ TakeInitLock(p)
  /\ sim' = [sim EXCEPT !.state = "Running"]
  /\ proc' = [proc EXCEPT ![p] =
                [Idle EXCEPT !.pc = IF pdu[p] THEN "r_unlock" ELSE "c_area",
                             !.total = pdu_total_size]]
  /\ asset_num' = IF pdu[p] THEN Cardinality(sim.members) ELSE asset_num
  /\ UNCHANGED <<channel, channel_num, busy, area, pdu, cache, told, dead>>

\* Mutant: the size that is stored counts the header.
CreateAreaHeader(p) ==
  /\ At(p, "c_area")
  /\ area' = proc[p].total + 1
  /\ Goto(p, "c_num")
  /\ UNCHANGED <<channel, channel_num, busy, asset_num, init_lock, pdu, cache,
                 sim, told, dead>>

\* create_memory for the size added up before.
CreateArea(p) ==
  /\ At(p, "c_area")
  /\ area' = proc[p].total
  /\ Goto(p, "c_num")
  /\ UNCHANGED <<channel, channel_num, busy, asset_num, init_lock, pdu, cache,
                 sim, told, dead>>

\* The number of assets, which makes is_pdu_created answer true, is stored
\* before the offsets.
CreateNum(p) ==
  /\ At(p, "c_num")
  /\ asset_num' = Cardinality(sim.members)
  /\ Goto(p, "c_offset")
  /\ UNCHANGED <<channel, channel_num, busy, area, init_lock, pdu, cache, sim,
                 told, dead>>

\* Mutant: the first channel starts behind its own size.
CreateOffsetsShifted(p) ==
  /\ At(p, "c_offset")
  /\ channel' = [i \in Ids |-> [channel[i] EXCEPT !.offset = SizeBelow(i + 1)]]
  /\ Goto(p, "c_attach")
  /\ UNCHANGED <<channel_num, busy, asset_num, area, init_lock, pdu, cache,
                 sim, told, dead>>

CreateOffsets(p) ==
  /\ At(p, "c_offset")
  /\ channel' = [i \in Ids |-> [channel[i] EXCEPT !.offset = SizeBelow(i)]]
  /\ Goto(p, "c_attach")
  /\ UNCHANGED <<channel_num, busy, asset_num, area, init_lock, pdu, cache,
                 sim, told, dead>>

CreateAttach(p) ==
  /\ At(p, "c_attach")
  /\ pdu' = [pdu EXCEPT ![p] = TRUE]
  /\ cache' = [cache EXCEPT ![p] = rebuild_pdu_channel_index(p)]
  /\ Goto(p, "r_unlock")
  /\ UNCHANGED <<channel, channel_num, busy, asset_num, area, init_lock, sim,
                 told, dead>>

release_pdu_init_lock(p) ==
  /\ At(p, "r_unlock")
  /\ init_lock' = NoProc
  /\ Return(p)
  /\ UNCHANGED <<channel, channel_num, busy, asset_num, area, pdu, cache, sim,
                 told, dead>>

\* load_memory: refused when there is no area or its size is not the size
\* of the table.
Loadable == area # NoArea /\ area = pdu_total_size /\ area # 0

\* load(), while nobody holds the lock file.
load(p, next) ==
  /\ init_lock = NoProc
  /\ pdu' = [pdu EXCEPT ![p] = @ \/ Loadable]
  /\ cache' = [cache EXCEPT ![p] = IF ~pdu[p] /\ Loadable
                                   THEN rebuild_pdu_channel_index(p) ELSE @]
  /\ IF next = "idle" THEN Return(p) ELSE Goto(p, next)

\* is_pdu_created() of a process without the address: it loads the area if
\* the number of assets says that there is one.
IsPduCreated(p) ==
  /\ At(p, "idle")
  /\ ~pdu[p]
  /\ asset_num > 0
  /\ Goto(p, "load")
  /\ UNCHANGED <<channel, channel_num, busy, asset_num, area, init_lock, pdu,
                 cache, sim, told, dead>>

IsPduCreatedLoad(p) ==
  /\ At(p, "load")
  /\ load(p, "idle")
  /\ UNCHANGED <<channel, channel_num, busy, asset_num, area, init_lock, sim, told, dead>>

\* write_pdu by an asset that was told that the area exists: a channel that is
\* not found is refused, a missing address is loaded first.
WriteCall(p, k) ==
  LET found == get_pdu_channel(p, k) IN
  /\ At(p, "idle")
  /\ asset_num > 0
  /\ cache' = [cache EXCEPT ![p][k] = found]
  /\ found # NoId
  /\ proc' = [proc EXCEPT ![p] = [Idle EXCEPT !.pc = IF pdu[p] THEN "write"
                                                               ELSE "w_load",
                                              !.key = k, !.id = found]]
  /\ UNCHANGED <<channel, channel_num, busy, asset_num, area, init_lock, pdu,
                 sim, told, dead>>

WriteLoad(p) ==
  /\ At(p, "w_load")
  /\ load(p, "write")
  /\ UNCHANGED <<channel, channel_num, busy, asset_num, area, init_lock, sim, told, dead>>

\* The copy to pdu_[offset], whether load() succeeded or not.
Write(p) ==
  /\ At(p, "write")
  /\ IF pdu[p] THEN Return(p) ELSE Goto(p, "crashed")
  /\ UNCHANGED <<channel, channel_num, busy, asset_num, area, init_lock, pdu,
                 cache, sim, told, dead>>

\* reset() of the conductor clears the table's lock whoever holds it.
Reset(p) ==
  /\ sim.state = "Stopped"
  /\ At(p, "idle")
  /\ pdu[p]
  /\ TakeInitLock(p)
  /\ busy' = FALSE
  /\ cache' = [cache EXCEPT ![p] = rebuild_pdu_channel_index(p)]
  /\ Goto(p, "r_unlock")
  /\ UNCHANGED <<channel, channel_num, asset_num, area, pdu, sim, told, dead>>

-----------------------------------------------------------------------------
(* The simulation around it *)

SimOnly == UNCHANGED <<channel, channel_num, busy, asset_num, area, init_lock,
                       pdu, cache, proc, told, dead>>

Register(a) ==
  /\ sim.state = "Stopped"
  /\ a \notin sim.members \cup dead
  /\ sim' = [sim EXCEPT !.members = @ \cup {a}]
  /\ SimOnly

\* Between lock_channel_table and unlock_channel_table.
InTable(p) == proc[p].pc \in {"l_find", "l_name", "l_size", "l_load", "l_store",
                              "d_size", "d_load", "d_store", "unlock"}
Declaring(p) == InTable(p) \/ proc[p].pc \in {"l_lock", "d_lock"}

Start ==
  /\ sim.state = "Stopped"
  /\ sim.members # {}
  /\ sim.starts < MaxStarts
  /\ InOrder => \A p \in Procs \ dead : ~Declaring(p)
  /\ sim' = [sim EXCEPT !.state = "Runnable", !.answered = {}, !.starts = @ + 1]
  /\ SimOnly

\* An asset answers the start event when it is not busy with the table.
StartFeedback(a) ==
  /\ sim.state = "Runnable"
  /\ a \in sim.members \ (sim.answered \cup dead)
  /\ ~Declaring(a)
  /\ sim' = [sim EXCEPT !.answered = @ \cup {a}]
  /\ SimOnly

Stop ==
  /\ sim.state = "Running"
  /\ At(Conductor, "idle")
  /\ sim' = [sim EXCEPT !.state = "Stopped"]
  /\ SimOnly

\* The heartbeat of a dead asset: it is dropped from the table, and the error
\* state is left by a reset command.
DropDead(a) ==
  /\ sim.state \in {"Runnable", "Running"}
  /\ At(Conductor, "idle")
  /\ a \in sim.members \cap dead
  /\ sim' = [sim EXCEPT !.state = "Stopped", !.members = @ \ {a}]
  /\ SimOnly

\* A process is killed in a call.
Die(p) ==
  /\ p \notin dead
  /\ proc[p].pc # "idle"
  /\ Cardinality(dead) < MaxDeaths
  /\ dead' = dead \cup {p}
  /\ init_lock' = IF init_lock = p THEN NoProc ELSE init_lock
  /\ UNCHANGED <<channel, channel_num, busy, asset_num, area, pdu, cache, proc, sim,
                 told>>

Step(p) ==
  \/ LChannelLock(p) \/ LChannelFind(p) \/ LChannelName(p) \/ LChannelSize(p)
  \/ DirectLock(p) \/ DirectSize(p) \/ CountLoad(p) \/ CountStore(p)
  \/ unlock_channel_table(p)
  \/ CreateArea(p) \/ CreateNum(p) \/ CreateOffsets(p) \/ CreateAttach(p)
  \/ release_pdu_init_lock(p)
  \/ IsPduCreatedLoad(p) \/ WriteLoad(p) \/ Write(p)

Next ==
  \/ \E p \in Procs : Step(p)
  \/ CreateCall(Conductor) \/ Reset(Conductor)
  \/ \E a \in Assets : Register(a) \/ StartFeedback(a) \/ DropDead(a) \/ IsPduCreated(a)
  \/ \E a \in Assets, k \in Keys : LChannelCall(a, k) \/ WriteCall(a, k)
  \/ \E p \in Procs, k \in Keys : Lookup(p, k)
  \/ \E a \in Assets, i \in Direct : DirectCall(a, i)
  \/ \E p \in Procs : Die(p)
  \/ Start \/ Stop

Spec == Init /\ [][Next]_vars

-----------------------------------------------------------------------------
(* Properties *)

\* No channel is declared twice under two numbers, however the declarations of
\* several processes interleave, and a number that a process has cached is the
\* number of the entry with that key (lock_channel_table, create_lchannel,
\* get_pdu_channel, rebuild_pdu_channel_index).  The spin lock is given back on
\* every path: who finds it taken waits for a process in the table, or for one
\* that was killed there.
TableConsistent ==
  /\ \A i, j \in Ids : i # j /\ channel[i].key = channel[j].key
                         => channel[i].key = NoKey
  /\ \A p \in Procs, k \in Keys :
       cache[p][k] # NoId => channel[cache[p][k]].key = k
  /\ busy => \E p \in Procs : InTable(p)

\* The conductor was killed when is_pdu_created was true already and the offsets
\* were not stored yet: the next process to load the area finds no layout.
HalfCreated == Conductor \in dead /\ proc[Conductor].pc = "c_offset"

\* Once a process has the address of the data area, every channel lies inside
\* the area and no two channels overlap (create's offsets, load's check of the
\* size), unless the conductor was killed in the middle of create().
LayoutHolds ==
  (\E p \in Procs : pdu[p]) /\ ~HalfCreated =>
    \A i \in {n \in Ids : channel[n].size > 0} :
      /\ channel[i].offset + channel[i].size <= area
      /\ \A j \in {n \in Ids : channel[n].size > 0} :
           i < j => channel[i].offset + channel[i].size <= channel[j].offset

\* A write to a channel the process has found, after is_pdu_created said that
\* the area exists, never goes through a null address (write_pdu ignores what
\* load() returns).
NobodyCrashes == \A p \in Procs : proc[p].pc # "crashed"

\* A declaration by name that returned true has made the channel known: a
\* lookup by any process finds it (create_lchannel, get_pdu_channel), as long as
\* no channel was declared by number, whose entry create_lchannel would skip.
DeclaredIsFound ==
  (\A a \in Assets, i \in Direct : told[a][i] = "unasked") =>
    \A a \in Assets, k \in Keys :
      told[a][k] = "true" => \A p \in Procs : get_pdu_channel(p, k) # NoId
=============================================================================
