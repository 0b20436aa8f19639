------------------------------ MODULE Session -------------------------------
(***************************************************************************)
(* The life of the shared master data: the entry points of hako_impl.cpp   *)
(* (init, destroy, create_master, create_asset_controller,                 *)
(* get_simevent_controller, log::add), the creation, loading and removal   *)
(* of HakoMasterData, both back ends (mmap: a file that stays; shm: a      *)
(* System V segment and a semaphore set) and the log in the shared data.   *)
(*                                                                         *)
(* Every process may call any entry point in any order and die between any *)
(* two steps.  A section under the master lock is one step; MasterLock and *)
(* FlockInit model the lock of the mmap back end.  A segment's content is  *)
(* reduced to its header, the master's PID, the registered processes and   *)
(* the log; a PID is a process.  The PDU area, a second segment with the   *)
(* same life, is left out.                                                 *)
(***************************************************************************)
EXTENDS Naturals, FiniteSets

CONSTANTS
  Procs,      \* processes, by their PID
  NoProc,     \* PID of zeroed memory
  Backends,   \* shm_type of the configuration: subset of {"mmap", "shm"}
  LogNum,     \* HAKO_LOGGER_LOGNUM
  MaxCalls,   \* bound: calls of the library, by all processes together
  MaxSegs,    \* bound: segments that are ever created
  MaxDeaths,  \* bound: processes that are killed
  MaxLapses   \* bound: calls that break the rules below

ASSUME SessionAssumption ==
  /\ IsFiniteSet(Procs)
  /\ NoProc \notin Procs
  /\ Backends \subseteq {"mmap", "shm"}
  /\ LogNum \in Nat \ {0}
  /\ MaxCalls \in Nat
  /\ MaxSegs \in Nat \ {0}
  /\ MaxDeaths \in Nat
  /\ MaxLapses \in Nat

VARIABLES
  backend,  \* shm_type, the same for all processes
  key,      \* the segment or file that HAKO_SHARED_MEMORY_ID_0 names; 0: none
  made,     \* number of segments created so far
  mem,      \* mem[s]: content of segment s
  semKey,   \* the semaphore set that the key names; 0: none
  sems,     \* semaphore sets that exist (mmap: 1 once flock.bin exists)
  proc,     \* proc[p]: program point and static variables of process p
  calls,    \* number of calls made
  alive,    \* processes that have not been killed
  members,  \* history: processes registered with the master that is up
  lapses    \* history: number of calls that broke a rule

vars == <<backend, key, made, mem, semKey, sems, proc, calls, alive, members, lapses>>

Segs == 1 .. MaxSegs
Entries == 0 .. (LogNum - 1)

\* len: size of the file; hdr: which part of the header is written; sem: the
\* sem_id of the header; pid, table, index, entries: HakoMasterDataType.
Segment == [len : {"empty", "full"}, hdr : {"zero", "part", "full"},
            sem : 0 .. MaxSegs, pid : Procs \cup {NoProc}, table : SUBSET Procs,
            index : Nat, entries : SUBSET Entries]

Points == {"idle", "stat", "trunc", "size", "map", "shmget", "sem", "head",
           "data_size", "clear", "open", "check", "log", "take", "fill",
           "rmsem", "null", "bus", "overflow"}

\* obj: master_data_ptr is set; seg: what master_datap_ points into (0: null);
\* sem: sem_id; master, asset, sim: master_ptr, asset_ptr, simevent_ptr are
\* set; role: is this process building, or running, the session?
Process == [pc : Points, call : {"none", "init", "asset", "simevent"}, obj : BOOLEAN,
            seg : 0 .. MaxSegs, sem : 0 .. MaxSegs, master : BOOLEAN,
            asset : BOOLEAN, sim : BOOLEAN, role : {"none", "creating", "up"},
            entry : Nat]

TypeOK ==
  /\ backend \in Backends
  /\ key \in 0 .. MaxSegs
  /\ made \in 0 .. MaxSegs
  /\ mem \in [Segs -> Segment]
  /\ semKey \in 0 .. MaxSegs
  /\ sems \subseteq Segs
  /\ proc \in [Procs -> Process]
  /\ calls \in 0 .. MaxCalls
  /\ alive \subseteq Procs
  /\ members \subseteq Procs
  /\ lapses \in 0 .. MaxLapses

-----------------------------------------------------------------------------
(* Steps, memory and the lock *)

At(p, l) == p \in alive /\ proc[p].pc = l
Goto(p, l) == proc' = [proc EXCEPT ![p].pc = l]

\* A process between two calls of the library.
Ready(p) == At(p, "idle") /\ calls < MaxCalls

Zeroed(len) == [len |-> len, hdr |-> "zero", sem |-> 0, pid |-> NoProc,
                table |-> {}, index |-> 0, entries |-> {}]

Data(p) == mem[proc[p].seg]

\* The mapped file was cut by O_TRUNC: to touch the mapping is a bus error.
Cut(s) == mem[s].len = "empty"

\* The semaphore set p locks with exists.  Set 0 is what a header not yet
\* written names: some other program's set, or none.
Exclusive(p) == proc[p].sem \in sems

\* lock(): without a set semop fails, which is logged, for which the lock is
\* taken, and so on; only a full log ends this, and then nothing is locked.
CanLock(p) == Exclusive(p) \/ proc[p].sem = 0 \/ Data(p).index >= LogNum

\* The process calls lock(), in the library or through its asset controller.
Locking(p) ==
  \/ At(p, "clear") \/ At(p, "take")
  \/ Ready(p) /\ proc[p].asset /\ proc[p].seg # 0

LockOverflows(p) ==
  /\ Locking(p)
  /\ ~Cut(proc[p].seg)
  /\ ~Exclusive(p)
  /\ Data(p).index < LogNum
  /\ Goto(p, "overflow")
  /\ UNCHANGED <<backend, key, made, mem, semKey, sems, calls, alive, members, lapses>>

\* A process touches a mapping whose file was cut.
BusError(p) ==
  /\ p \in alive
  /\ \/ proc[p].pc = "check" /\ Cut(1)
     \/ /\ proc[p].pc \in {"head", "data_size", "clear", "log", "take", "fill"}
        /\ proc[p].seg # 0
        /\ Cut(proc[p].seg)
  /\ Goto(p, "bus")
  /\ UNCHANGED <<backend, key, made, mem, semKey, sems, calls, alive, members, lapses>>

-----------------------------------------------------------------------------
(* Calls *)

\* The process was given a null controller before.
Refused(p) == proc[p].obj /\ proc[p].seg = 0

\* A call is made; breaks says whether it breaks one of the rules that
\* the library leaves to its callers: a master starts only when no other one
\* lives, a caller that was refused gives up, and destroy() is for those who
\* have something to destroy.
Call(breaks) ==
  /\ breaks => lapses < MaxLapses
  /\ lapses' = IF breaks THEN lapses + 1 ELSE lapses
  /\ calls' = calls + 1

SharedUnchanged == UNCHANGED <<backend, key, made, mem, semKey, sems, alive>>

MasterElsewhere(p) == \E q \in alive \ {p} : proc[q].role # "none"

\* Mutant: init() builds the data anew although the process has them.
init_again(p) ==
  /\ Ready(p)
  /\ Call(Refused(p) \/ MasterElsewhere(p))
  /\ proc' = [proc EXCEPT
       ![p] = [@ EXCEPT !.call = "init", !.obj = TRUE, !.role = "creating",
                        !.pc = IF backend = "mmap" THEN "stat" ELSE "shmget"]]
  /\ members' = IF proc[p].obj THEN members ELSE {}
  /\ SharedUnchanged

\* init(): the data are built only if this process has none.
init(p) ==
  /\ Ready(p)
  /\ IF proc[p].obj
     THEN /\ Call(Refused(p))
          /\ proc' = [proc EXCEPT ![p].call = "init", ![p].pc = "log"]
          /\ UNCHANGED members
     ELSE /\ Call(MasterElsewhere(p))
          /\ proc' = [proc EXCEPT
               ![p] = [@ EXCEPT !.call = "init", !.obj = TRUE, !.role = "creating",
                                !.pc = IF backend = "mmap" THEN "stat" ELSE "shmget"]]
          /\ members' = {}
  /\ SharedUnchanged

create_master(p) ==
  /\ Ready(p)
  /\ proc[p].obj /\ ~proc[p].master
  /\ proc' = [proc EXCEPT ![p].master = TRUE]
  /\ Call(Refused(p))
  /\ UNCHANGED members /\ SharedUnchanged

\* create_asset_controller(): a process that has a master_data_ptr takes it
\* for loaded.
create_asset_controller(p) ==
  /\ Ready(p)
  /\ ~proc[p].asset
  /\ proc' = [proc EXCEPT
       ![p] = IF proc[p].obj
              THEN [@ EXCEPT !.call = "asset", !.asset = TRUE, !.pc = "log"]
              ELSE [@ EXCEPT !.call = "asset", !.obj = TRUE, !.pc = "open"]]
  /\ Call(Refused(p))
  /\ UNCHANGED members /\ SharedUnchanged

\* get_simevent_controller(): its constructor makes the asset controller, if
\* there is none, and logs that, before simevent_ptr is set.
get_simevent_controller(p) ==
  /\ Ready(p)
  /\ ~proc[p].sim
  /\ proc' = [proc EXCEPT
       ![p] = IF proc[p].obj
              THEN [@ EXCEPT !.call = "simevent", !.pc = "log",
                             !.asset = TRUE, !.sim = proc[p].asset]
              ELSE [@ EXCEPT !.call = "simevent", !.obj = TRUE, !.pc = "open"]]
  /\ Call(Refused(p))
  /\ UNCHANGED members /\ SharedUnchanged

Up == \E m \in alive : proc[m].role = "up"

\* asset_register and asset_unregister, reduced to the table and the message
\* they log.
asset_register(p) ==
  /\ Ready(p)
  /\ proc[p].asset /\ proc[p].seg # 0
  /\ ~Cut(proc[p].seg) /\ CanLock(p)
  /\ p \notin Data(p).table
  /\ mem' = [mem EXCEPT ![proc[p].seg].table = @ \cup {p}]
  /\ Goto(p, "log")
  /\ members' = IF Up /\ proc[p].seg = key THEN members \cup {p} ELSE members
  /\ Call(FALSE)
  /\ UNCHANGED <<backend, key, made, semKey, sems, alive>>

asset_unregister(p) ==
  /\ Ready(p)
  /\ proc[p].asset /\ proc[p].seg # 0
  /\ ~Cut(proc[p].seg) /\ CanLock(p)
  /\ p \in Data(p).table
  /\ mem' = [mem EXCEPT ![proc[p].seg].table = @ \ {p}]
  /\ Goto(p, "log")
  /\ members' = members \ {p}
  /\ Call(FALSE)
  /\ UNCHANGED <<backend, key, made, semKey, sems, alive>>

-----------------------------------------------------------------------------
(* Creation: HakoMasterData::init *)

\* Mutant: the file of an earlier session is cut as well.
CreateStatAlways(p) ==
  /\ At(p, "stat")
  /\ Goto(p, "trunc")
  /\ UNCHANGED <<calls, members, lapses>> /\ SharedUnchanged

\* hako_mmap_create: is there a file of the size wanted?
CreateStat(p) ==
  /\ At(p, "stat")
  /\ Goto(p, IF key = 0 \/ Cut(1) THEN "trunc" ELSE "map")
  /\ UNCHANGED <<calls, members, lapses>> /\ SharedUnchanged

\* open(O_CREAT | O_TRUNC): the file is there, and empty.
CreateTrunc(p) ==
  /\ At(p, "trunc")
  /\ key' = 1
  /\ mem' = [mem EXCEPT ![1] = Zeroed("empty")]
  /\ Goto(p, "size")
  /\ UNCHANGED <<backend, made, semKey, sems, calls, alive, members, lapses>>

\* truncate(): the file has its size, and holds zeros.
CreateSize(p) ==
  /\ At(p, "size")
  /\ mem' = [mem EXCEPT ![1].len = "full"]
  /\ Goto(p, "map")
  /\ UNCHANGED <<backend, key, made, semKey, sems, calls, alive, members, lapses>>

CreateMap(p) ==
  /\ At(p, "map")
  /\ proc' = [proc EXCEPT ![p].seg = 1, ![p].pc = "sem"]
  /\ UNCHANGED <<calls, members, lapses>> /\ SharedUnchanged

\* shmget(IPC_CREAT): the segment of the key, or a new one.
ShmGet(p) ==
  /\ At(p, "shmget")
  /\ IF key # 0
     THEN /\ proc' = [proc EXCEPT ![p].seg = key, ![p].pc = "sem"]
          /\ UNCHANGED <<key, made, mem>>
     ELSE /\ made < MaxSegs
          /\ made' = made + 1
          /\ key' = made'
          /\ mem' = [mem EXCEPT ![made'] = Zeroed("full")]
          /\ proc' = [proc EXCEPT ![p].seg = made', ![p].pc = "sem"]
  /\ UNCHANGED <<backend, semKey, sems, calls, alive, members, lapses>>

\* flock::create, or semget(IPC_CREAT) and SETALL: a set that exists is used.
SemCreate(p) ==
  LET s == IF semKey # 0 THEN semKey ELSE proc[p].seg IN
  /\ At(p, "sem")
  /\ semKey' = s
  /\ sems' = sems \cup {s}
  /\ proc' = [proc EXCEPT ![p].sem = s, ![p].pc = "head"]
  /\ UNCHANGED <<backend, key, made, mem, calls, alive, members, lapses>>

\* The header without its data_size: magic, version, sem_id and shm_id.
WriteHead(p) ==
  /\ At(p, "head")
  /\ ~Cut(proc[p].seg)
  /\ mem' = [mem EXCEPT ![proc[p].seg] =
               [@ EXCEPT !.sem = proc[p].sem,
                         !.hdr = IF Data(p).hdr = "full" THEN "full" ELSE "part"]]
  /\ Goto(p, "data_size")
  /\ UNCHANGED <<backend, key, made, semKey, sems, calls, alive, members, lapses>>

WriteDataSize(p) ==
  /\ At(p, "data_size")
  /\ ~Cut(proc[p].seg)
  /\ mem' = [mem EXCEPT ![proc[p].seg].hdr = "full"]
  /\ Goto(p, "clear")
  /\ UNCHANGED <<backend, key, made, semKey, sems, calls, alive, members, lapses>>

\* Under the lock: memset of the whole data and the PID of the master.
Clear(p) ==
  /\ At(p, "clear")
  /\ ~Cut(proc[p].seg) /\ CanLock(p)
  /\ mem' = [mem EXCEPT ![proc[p].seg] =
               [@ EXCEPT !.pid = p, !.table = {}, !.index = 0, !.entries = {}]]
  /\ proc' = [proc EXCEPT ![p].role = "up", ![p].pc = "log"]
  /\ UNCHANGED <<backend, key, made, semKey, sems, calls, alive, members, lapses>>

create(p) ==
  \/ CreateStat(p) \/ CreateTrunc(p) \/ CreateSize(p) \/ CreateMap(p)
  \/ ShmGet(p) \/ SemCreate(p) \/ WriteHead(p) \/ WriteDataSize(p) \/ Clear(p)

-----------------------------------------------------------------------------
(* HakoMasterData::load *)

\* load() found nothing: the caller gets a null controller, master_data_ptr
\* stays set.
LoadFails(p) == proc' = [proc EXCEPT ![p].pc = "idle", ![p].call = "none"]

Loaded(p, s) ==
  proc' = [proc EXCEPT ![p] = [@ EXCEPT !.seg = s, !.sem = mem[s].sem,
                                        !.asset = TRUE, !.pc = "log"]]

\* mmap: stat, open and mmap, which fails for an empty file.
LoadOpen(p) ==
  /\ At(p, "open")
  /\ backend = "mmap"
  /\ IF key = 0 \/ Cut(1) THEN LoadFails(p) ELSE Goto(p, "check")
  /\ UNCHANGED <<calls, members, lapses>> /\ SharedUnchanged

\* shm: shmget and shmat; the header is taken as it is.
ShmLoad(p) ==
  /\ At(p, "open")
  /\ backend = "shm"
  /\ IF key = 0 THEN LoadFails(p) ELSE Loaded(p, key)
  /\ UNCHANGED <<calls, members, lapses>> /\ SharedUnchanged

\* Mutant: only the magic and the version are looked at.
LoadCheckMagic(p) ==
  /\ At(p, "check")
  /\ ~Cut(1)
  /\ IF mem[1].hdr # "zero" THEN Loaded(p, 1) ELSE LoadFails(p)
  /\ UNCHANGED <<calls, members, lapses>> /\ SharedUnchanged

\* mmap: the header must have the magic, the version and the data_size.
LoadCheck(p) ==
  /\ At(p, "check")
  /\ ~Cut(1)
  /\ IF mem[1].hdr = "full" THEN Loaded(p, 1) ELSE LoadFails(p)
  /\ UNCHANGED <<calls, members, lapses>> /\ SharedUnchanged

-----------------------------------------------------------------------------
(* log::add and add_log, which end every entry point *)

\* The message is logged: get_simevent_controller logs a second one after it
\* has set simevent_ptr, every other call returns.
Logged(pr) ==
  IF pr.call = "simevent" /\ ~pr.sim
  THEN [pr EXCEPT !.sim = TRUE, !.pc = "log"]
  ELSE [pr EXCEPT !.pc = "idle", !.entry = 0, !.call = "none"]

\* Without the lock: is there room?
LogCheck(p) ==
  /\ At(p, "log")
  /\ proc[p].seg # 0 => ~Cut(proc[p].seg)
  /\ proc' = [proc EXCEPT
       ![p] = CASE proc[p].seg = 0 -> [@ EXCEPT !.pc = "null"]
                [] proc[p].seg # 0 /\ Data(p).index >= LogNum -> Logged(@)
                [] OTHER -> [@ EXCEPT !.pc = "take"]]
  /\ UNCHANGED <<calls, members, lapses>> /\ SharedUnchanged

\* Mutant: the entry is the index after the increment.
LogTakeNext(p) ==
  /\ At(p, "take")
  /\ ~Cut(proc[p].seg) /\ CanLock(p)
  /\ proc' = [proc EXCEPT ![p].entry = Data(p).index + 1, ![p].pc = "fill"]
  /\ mem' = [mem EXCEPT ![proc[p].seg].index = @ + 1]
  /\ UNCHANGED <<backend, key, made, semKey, sems, calls, alive, members, lapses>>

\* Under the lock: the entry is chosen.
LogTake(p) ==
  /\ At(p, "take")
  /\ ~Cut(proc[p].seg) /\ CanLock(p)
  /\ proc' = [proc EXCEPT ![p].entry = Data(p).index, ![p].pc = "fill"]
  /\ mem' = [mem EXCEPT ![proc[p].seg].index = @ + 1]
  /\ UNCHANGED <<backend, key, made, semKey, sems, calls, alive, members, lapses>>

\* After the lock: the text is written, wherever the entry is.
LogFill(p) ==
  /\ At(p, "fill")
  /\ ~Cut(proc[p].seg)
  /\ mem' = [mem EXCEPT ![proc[p].seg].entries =
               @ \cup ({proc[p].entry} \cap Entries)]
  /\ proc' = [proc EXCEPT ![p] = Logged(@)]
  /\ UNCHANGED <<backend, key, made, semKey, sems, calls, alive, members, lapses>>

-----------------------------------------------------------------------------
(* destroy() *)

\* The pointers that destroy() drops once the memory is gone.
Dropped(pr) == [pr EXCEPT !.obj = FALSE, !.seg = 0, !.sem = 0, !.asset = FALSE,
                          !.sim = FALSE, !.role = "none", !.pc = "idle"]

\* The file of the mmap back end is unmapped and stays; a segment is removed,
\* then its semaphores.  pr: the process as it enters.
destroy_memory(p, pr) ==
  IF backend = "mmap"
  THEN /\ proc' = [proc EXCEPT ![p] = Dropped(pr)]
       /\ UNCHANGED key
  ELSE /\ proc' = [proc EXCEPT ![p] = [pr EXCEPT !.role = "creating", !.pc = "rmsem"]]
       /\ key' = IF key = pr.seg THEN 0 ELSE key

\* Mutant: whoever has the data removes them.
destroy_any(p) ==
  LET s == proc[p].seg
      pr == [proc[p] EXCEPT !.master = FALSE]
  IN
  /\ Ready(p)
  /\ Call(s = 0)
  /\ s # 0 => ~Cut(s)
  /\ \/ /\ s = 0
        /\ proc' = [proc EXCEPT ![p] = [pr EXCEPT !.pc = "null"]]
        /\ UNCHANGED <<key, members>>
     \/ /\ s # 0
        /\ UNCHANGED members
        /\ destroy_memory(p, pr)
  /\ UNCHANGED <<backend, made, mem, semKey, sems, alive>>

\* destroy() asks for the master's PID before it asks whether there are data.
\* Only the master goes on.
destroy(p) ==
  LET s == proc[p].seg
      pr == [proc[p] EXCEPT !.master = FALSE]
  IN
  /\ Ready(p)
  /\ Call(s = 0)
  /\ s # 0 => ~Cut(s)
  /\ \/ /\ s = 0
        /\ proc' = [proc EXCEPT ![p] = [pr EXCEPT !.pc = "null"]]
        /\ UNCHANGED <<key, members>>
     \/ /\ s # 0
        /\ mem[s].pid # p
        /\ proc' = [proc EXCEPT ![p] = pr]
        /\ UNCHANGED <<key, members>>
     \/ /\ s # 0
        /\ mem[s].pid = p
        /\ members' = {}
        /\ destroy_memory(p, pr)
  /\ UNCHANGED <<backend, made, mem, semKey, sems, alive>>

\* sem::destroy: whoever waits for, or later uses, this set gets an error.
DestroySem(p) ==
  /\ At(p, "rmsem")
  /\ sems' = sems \ {proc[p].sem}
  /\ semKey' = IF semKey = proc[p].sem THEN 0 ELSE semKey
  /\ proc' = [proc EXCEPT ![p] = Dropped(@)]
  /\ UNCHANGED <<backend, key, made, mem, calls, alive, members, lapses>>

-----------------------------------------------------------------------------

\* A process is killed.  The session of a master ends with it.
Die(p) ==
  /\ p \in alive
  /\ Cardinality(Procs \ alive) < MaxDeaths
  /\ alive' = alive \ {p}
  /\ members' = IF proc[p].role = "up" THEN {} ELSE members
  /\ UNCHANGED <<backend, key, made, mem, semKey, sems, proc, calls, lapses>>

NewProcess == [pc |-> "idle", call |-> "none", obj |-> FALSE, seg |-> 0,
               sem |-> 0, master |-> FALSE, asset |-> FALSE, sim |-> FALSE,
               role |-> "none", entry |-> 0]

Init ==
  /\ backend \in Backends
  /\ key = 0
  /\ made = 0
  /\ mem = [s \in Segs |-> Zeroed("full")]
  /\ semKey = 0
  /\ sems = {}
  /\ proc = [p \in Procs |-> NewProcess]
  /\ calls = 0
  /\ alive = Procs
  /\ members = {}
  /\ lapses = 0

Next ==
  \E p \in Procs :
    \/ init(p) \/ create_master(p) \/ create_asset_controller(p)
    \/ get_simevent_controller(p) \/ asset_register(p) \/ asset_unregister(p)
    \/ create(p) \/ LoadOpen(p) \/ ShmLoad(p) \/ LoadCheck(p)
    \/ LogCheck(p) \/ LogTake(p) \/ LogFill(p)
    \/ destroy(p) \/ DestroySem(p)
    \/ LockOverflows(p) \/ BusError(p) \/ Die(p)

Spec == Init /\ [][Next]_vars

-----------------------------------------------------------------------------
(* Properties *)

\* While callers keep the rules, nobody reaches through a null master_datap_ or
\* into a file that was cut (hako_mmap_create cuts a file that is too short).
NoWildAccess ==
  lapses = 0 => \A p \in Procs : proc[p].pc \notin {"null", "bus"}

\* While callers keep the rules, who has loaded the data of the mmap back end
\* has a complete file and its lock, although the creator may be anywhere in
\* create_memory, or have died there.
LoadedIsBuilt ==
  lapses = 0 /\ backend = "mmap" =>
    \A p \in Procs :
      proc[p].seg # 0 /\ proc[p].role = "none" =>
        mem[1].len = "full" /\ mem[1].hdr = "full" /\ Exclusive(p)

\* While callers keep the rules, the session of a master that is up is its own
\* and can be found, whatever other processes create, load or destroy() (every
\* hako-cmd ends with destroy()).
MasterKeepsSession ==
  lapses = 0 =>
    \A m \in alive :
      proc[m].role = "up" => /\ key = proc[m].seg
                             /\ mem[key].pid = m
                             /\ mem[key].hdr = "full"
                             /\ Exclusive(m)

\* While callers keep the rules, an asset that registered with the master that
\* is up stays registered until it leaves or the session ends.
RegistrationKept ==
  lapses = 0 /\ key # 0 => members \subseteq mem[key].table

\* The log of any segment: print_log finds a message in every entry below the
\* index, except those that a process is filling or died before it had filled;
\* and the index passes the end of the array only by the calls that had found
\* room in the check, which is made without the lock.
LogHolds ==
  \A s \in Segs :
    /\ \A i \in Entries :
         i < mem[s].index =>
           \/ i \in mem[s].entries
           \/ \E p \in Procs : proc[p].pc = "fill" /\ proc[p].seg = s /\ proc[p].entry = i
    /\ mem[s].index < LogNum + Cardinality(Procs)

\* A controller is given only to a process that finds a master (hako_cmd.cpp
\* and hako_asset.cpp print "Not found hako-master on this PC" otherwise).
FoundMasterLives ==
  [][\A p \in Procs :
       ~proc[p].asset /\ proc'[p].asset => \E m \in alive : proc[m].role # "none"]_vars

\* The process-local data exist whenever a call uses them (HAKO_ASSERT in lock()
\* and add_log: master_datap_ is not null).
DataExist == \A p \in Procs : proc[p].pc # "null"
=============================================================================
