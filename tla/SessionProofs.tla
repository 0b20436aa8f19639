---------------------------- MODULE SessionProofs ----------------------------
(***************************************************************************)
(* Proofs about Session for any set of processes, any number of calls,     *)
(* segments and deaths, and both back ends.                                *)
(***************************************************************************)
EXTENDS Session, FiniteSetTheorems, TLAPS

-----------------------------------------------------------------------------
(* What holds whether or not callers keep the rules                          *)

Building == {"stat", "trunc", "size", "map", "shmget", "sem", "head", "data_size",
             "clear", "rmsem"}

\* Where a process can be with which pointers, in which role, on which back end.
Placed(pc, obj, seg, role) ==
  /\ pc \in {"sem", "head", "data_size", "clear", "take", "fill", "rmsem"} => seg # 0
  /\ ~obj => role = "none" /\ seg = 0
  /\ pc \in Building <=> (role = "creating" /\ pc \notin {"bus", "overflow"})
  /\ pc \in {"stat", "trunc", "size", "map", "check"} => backend = "mmap"
  /\ pc \in {"shmget", "rmsem"} => backend = "shm"
  /\ pc \in {"open", "check"} => obj /\ role = "none"

WellPlaced ==
  \A p \in Procs : Placed(proc[p].pc, proc[p].obj, proc[p].seg, proc[p].role)

\* The mmap back end has one file; a System V segment is never cut.
SegmentsInUse ==
  /\ backend = "mmap" => /\ key \in {0, 1}
                         /\ \A p \in Procs : proc[p].seg \in {0, 1}
                         /\ \A p \in Procs : proc[p].pc = "check" => key = 1
  /\ backend = "shm" => /\ key <= made
                        /\ \A p \in Procs : proc[p].seg <= made
                        /\ \A s \in Segs : mem[s].len = "full"

\* Processes that have found room in the log of s and not yet taken an entry.
Takers(s) == {p \in Procs : proc[p].pc = "take" /\ proc[p].seg = s}

\* The log, with the calls that may still take an entry counted in.
LogOf(s) ==
  /\ mem[s].len = "empty" => mem[s].index = 0
  /\ \A i \in Entries :
       i < mem[s].index =>
         \/ i \in mem[s].entries
         \/ \E p \in Procs : proc[p].pc = "fill" /\ proc[p].seg = s /\ proc[p].entry = i
  /\ mem[s].index + Cardinality(Takers(s)) < LogNum + Cardinality(Procs)

LogInv == \A s \in Segs : LogOf(s)

MembersHaveMaster == members # {} => Up

BaseInv ==
  /\ TypeOK
  /\ WellPlaced
  /\ SegmentsInUse
  /\ LogInv
  /\ MembersHaveMaster

-----------------------------------------------------------------------------
(* What holds while callers keep the rules                                   *)

OneMaster ==
  \A p, q \in alive : proc[p].role # "none" /\ proc[q].role # "none" => p = q

NobodyLost ==
  \A p \in Procs :
    /\ proc[p].pc \notin {"null", "bus"}
    /\ proc[p].pc = "log" => proc[p].seg # 0

\* The file of the mmap back end, once it has its size, is never cut again.
FileIsWhole ==
  backend = "mmap" =>
    /\ \A p \in Procs :
         /\ proc[p].seg # 0 \/ proc[p].pc \in {"map", "check"} => key = 1 /\ ~Cut(1)
         /\ proc[p].pc = "size" => key = 1
         /\ proc[p].seg # 0 /\ proc[p].role = "none"
              => mem[1].hdr = "full" /\ Exclusive(p)
         /\ proc[p].pc = "head" => Exclusive(p)
    /\ \A p \in alive : proc[p].pc = "trunc" => key = 0 \/ Cut(1)
    /\ mem[1].hdr # "zero" => mem[1].sem \in sems

\* The master, from the moment it has its segment.
MasterHasSegment ==
  \A m \in alive :
    /\ proc[m].pc \in {"sem", "head", "data_size", "clear"} \/ proc[m].role = "up"
         => proc[m].seg = key /\ key # 0
    /\ proc[m].pc \in {"head", "data_size", "clear"} \/ proc[m].role = "up"
         => Exclusive(m)
    /\ proc[m].pc = "data_size" => mem[key].hdr # "zero"
    /\ proc[m].pc = "clear" \/ proc[m].role = "up" => mem[key].hdr = "full"
    /\ proc[m].role = "up" => mem[key].pid = m
    /\ proc[m].pc = "rmsem" => key = 0

\* shm: who is not the master does not pass for it in destroy().
NoFalseMaster ==
  backend = "shm" =>
    \A p \in alive : proc[p].role = "none" =>
      /\ proc[p].seg # 0 => mem[proc[p].seg].pid # p
      /\ key # 0 => mem[key].pid # p

RulesInv ==
  lapses = 0 =>
    /\ OneMaster
    /\ NobodyLost
    /\ FileIsWhole
    /\ MasterHasSegment
    /\ NoFalseMaster
    /\ RegistrationKept

-----------------------------------------------------------------------------
(* What a step does to the process that takes it                             *)

\* Process p goes to pc with these pointers and this role, the others stay.
Becomes(p, pc, obj, seg, sem, role) ==
  /\ proc' \in [Procs -> Process]
  /\ \A q \in Procs : q # p => proc'[q] = proc[q]
  /\ proc'[p].pc = pc
  /\ proc'[p].obj = obj
  /\ proc'[p].seg = seg
  /\ proc'[p].sem = sem
  /\ proc'[p].role = role

Moves(p, pc) == Becomes(p, pc, proc[p].obj, proc[p].seg, proc[p].sem, proc[p].role)

LEMMA GotoMoves ==
  ASSUME proc \in [Procs -> Process], NEW p \in Procs, NEW l \in Points, Goto(p, l)
  PROVE  Moves(p, l)
<1>1. proc[p] \in Process /\ proc' = [proc EXCEPT ![p] = [proc[p] EXCEPT !.pc = l]]
  BY DEF Goto
<1> DEFINE r == [proc[p] EXCEPT !.pc = l]
<1>2. r \in Process /\ r.pc = l /\ r.obj = proc[p].obj /\ r.seg = proc[p].seg
      /\ r.sem = proc[p].sem /\ r.role = proc[p].role
  <2> HIDE DEF Points
  <2> QED BY <1>1 DEF Process
<1> HIDE DEF r
<1>3. proc' = [proc EXCEPT ![p] = r]
  BY <1>1 DEF r
<1> QED BY <1>2, <1>3 DEF Moves, Becomes

\* An update of the record of p.
LEMMA UpdateMoves ==
  ASSUME proc \in [Procs -> Process], NEW p \in Procs, NEW r \in Process,
         proc' = [proc EXCEPT ![p] = r]
  PROVE  Becomes(p, r.pc, r.obj, r.seg, r.sem, r.role)
BY DEF Becomes

LEMMA InitMoves ==
  ASSUME proc \in [Procs -> Process], NEW p \in Procs, init(p)
  PROVE  \/ proc[p].obj /\ Moves(p, "log")
         \/ /\ ~proc[p].obj
            /\ \E l \in {"stat", "shmget"} :
                 /\ Becomes(p, l, TRUE, proc[p].seg, proc[p].sem, "creating")
                 /\ l = IF backend = "mmap" THEN "stat" ELSE "shmget"
<1>0. proc[p] \in Process
  OBVIOUS
<1>1. CASE proc[p].obj
  <2> DEFINE r == [proc[p] EXCEPT !.call = "init", !.pc = "log"]
  <2>1. r \in Process /\ r.pc = "log" /\ r.obj = proc[p].obj /\ r.seg = proc[p].seg
        /\ r.sem = proc[p].sem /\ r.role = proc[p].role
    BY <1>0 DEF Process, Points
  <2>2. proc' = [proc EXCEPT ![p] = r]
    BY <1>1 DEF init
  <2> HIDE DEF r
  <2> QED BY <1>1, <2>1, <2>2, UpdateMoves DEF Moves
<1>2. CASE ~proc[p].obj
  <2>1. PICK l \in {"stat", "shmget"} : l = IF backend = "mmap" THEN "stat" ELSE "shmget"
    OBVIOUS
  <2> DEFINE r == [proc[p] EXCEPT !.call = "init", !.obj = TRUE, !.role = "creating",
                                  !.pc = l]
  <2>2. r \in Process /\ r.pc = l /\ r.obj = TRUE /\ r.seg = proc[p].seg
        /\ r.sem = proc[p].sem /\ r.role = "creating"
    BY <1>0, <2>1 DEF Process, Points
  <2>3. proc' = [proc EXCEPT ![p] = r]
    BY <1>2, <2>1 DEF init
  <2> HIDE DEF r
  <2> QED BY <1>2, <2>1, <2>2, <2>3, UpdateMoves
<1> QED BY <1>1, <1>2

LEMMA ControllerMoves ==
  ASSUME proc \in [Procs -> Process], NEW p \in Procs,
         create_asset_controller(p) \/ get_simevent_controller(p)
  PROVE  \/ proc[p].obj /\ Moves(p, "log")
         \/ ~proc[p].obj /\ Becomes(p, "open", TRUE, proc[p].seg, proc[p].sem, proc[p].role)
<1>0. proc[p] \in Process
  OBVIOUS
<1>1. CASE proc[p].obj
  <2>1. PICK c \in {"asset", "simevent"}, b \in BOOLEAN :
          proc' = [proc EXCEPT ![p] = [proc[p] EXCEPT !.call = c, !.asset = TRUE,
                                                      !.sim = b, !.pc = "log"]]
    <3>1. proc[p].sim \in BOOLEAN /\ proc[p].asset \in BOOLEAN
      BY <1>0 DEF Process
    <3>2. CASE create_asset_controller(p)
      <4>1. proc' = [proc EXCEPT ![p] = [proc[p] EXCEPT !.call = "asset", !.asset = TRUE,
                                                        !.pc = "log"]]
        BY <1>1, <3>2 DEF create_asset_controller
      <4>2. [proc[p] EXCEPT !.call = "asset", !.asset = TRUE, !.pc = "log"]
              = [proc[p] EXCEPT !.call = "asset", !.asset = TRUE, !.sim = proc[p].sim,
                                !.pc = "log"]
        BY <1>0 DEF Process
      <4> QED BY <3>1, <4>1, <4>2
    <3>3. CASE get_simevent_controller(p)
      <4>1. proc' = [proc EXCEPT ![p] = [proc[p] EXCEPT !.call = "simevent", !.pc = "log",
                                             !.asset = TRUE, !.sim = proc[p].asset]]
        BY <1>1, <3>3 DEF get_simevent_controller
      <4>2. [proc[p] EXCEPT !.call = "simevent", !.pc = "log",
                            !.asset = TRUE, !.sim = proc[p].asset]
              = [proc[p] EXCEPT !.call = "simevent", !.asset = TRUE,
                                !.sim = proc[p].asset, !.pc = "log"]
        BY <1>0 DEF Process
      <4> QED BY <3>1, <4>1, <4>2
    <3> QED BY <3>2, <3>3
  <2> DEFINE r == [proc[p] EXCEPT !.call = c, !.asset = TRUE, !.sim = b, !.pc = "log"]
  <2>2. r \in Process /\ r.pc = "log" /\ r.obj = proc[p].obj /\ r.seg = proc[p].seg
        /\ r.sem = proc[p].sem /\ r.role = proc[p].role
    BY <1>0, <2>1 DEF Process, Points
  <2>3. proc' = [proc EXCEPT ![p] = r]
    BY <2>1
  <2> HIDE DEF r
  <2> QED BY <1>1, <2>2, <2>3, UpdateMoves DEF Moves
<1>2. CASE ~proc[p].obj
  <2>1. PICK c \in {"asset", "simevent"} :
          proc' = [proc EXCEPT ![p] = [proc[p] EXCEPT !.call = c, !.obj = TRUE,
                                                      !.pc = "open"]]
    BY <1>2 DEF create_asset_controller, get_simevent_controller
  <2> DEFINE r == [proc[p] EXCEPT !.call = c, !.obj = TRUE, !.pc = "open"]
  <2>2. r \in Process /\ r.pc = "open" /\ r.obj = TRUE /\ r.seg = proc[p].seg
        /\ r.sem = proc[p].sem /\ r.role = proc[p].role
    BY <1>0, <2>1 DEF Process, Points
  <2>3. proc' = [proc EXCEPT ![p] = r]
    BY <2>1
  <2> HIDE DEF r
  <2> QED BY <1>2, <2>2, <2>3, UpdateMoves
<1> QED BY <1>1, <1>2

LEMMA CreateMasterMoves ==
  ASSUME proc \in [Procs -> Process], NEW p \in Procs, create_master(p)
  PROVE  Moves(p, proc[p].pc)
<1>0. proc[p] \in Process
  OBVIOUS
<1> DEFINE r == [proc[p] EXCEPT !.master = TRUE]
<1>1. r \in Process /\ r.pc = proc[p].pc /\ r.obj = proc[p].obj /\ r.seg = proc[p].seg
      /\ r.sem = proc[p].sem /\ r.role = proc[p].role
  BY <1>0 DEF Process, Points
<1>2. proc' = [proc EXCEPT ![p] = r]
  BY DEF create_master
<1> HIDE DEF r
<1> QED BY <1>1, <1>2, UpdateMoves DEF Moves

LEMMA SegMoves ==
  ASSUME proc \in [Procs -> Process], NEW p \in Procs, NEW s \in 0 .. MaxSegs,
         proc' = [proc EXCEPT ![p].seg = s, ![p].pc = "sem"]
  PROVE  Becomes(p, "sem", proc[p].obj, s, proc[p].sem, proc[p].role)
<1>0. proc[p] \in Process
  OBVIOUS
<1> DEFINE r == [proc[p] EXCEPT !.seg = s, !.pc = "sem"]
<1>1. r \in Process /\ r.pc = "sem" /\ r.obj = proc[p].obj /\ r.seg = s
      /\ r.sem = proc[p].sem /\ r.role = proc[p].role
  BY <1>0 DEF Process, Points
<1>2. proc' = [proc EXCEPT ![p] = r]
  OBVIOUS
<1> HIDE DEF r
<1>3. Becomes(p, r.pc, r.obj, r.seg, r.sem, r.role)
  BY <1>1, <1>2, UpdateMoves
<1> QED BY <1>1, <1>3

LEMMA SemMoves ==
  ASSUME proc \in [Procs -> Process], NEW p \in Procs, NEW s \in 0 .. MaxSegs,
         proc' = [proc EXCEPT ![p].sem = s, ![p].pc = "head"]
  PROVE  Becomes(p, "head", proc[p].obj, proc[p].seg, s, proc[p].role)
<1>0. proc[p] \in Process
  OBVIOUS
<1> DEFINE r == [proc[p] EXCEPT !.sem = s, !.pc = "head"]
<1>1. r \in Process /\ r.pc = "head" /\ r.obj = proc[p].obj /\ r.seg = proc[p].seg
      /\ r.sem = s /\ r.role = proc[p].role
  BY <1>0 DEF Process, Points
<1>2. proc' = [proc EXCEPT ![p] = r]
  OBVIOUS
<1> HIDE DEF r
<1>3. Becomes(p, r.pc, r.obj, r.seg, r.sem, r.role)
  BY <1>1, <1>2, UpdateMoves
<1> QED BY <1>1, <1>3

LEMMA ClearMoves ==
  ASSUME proc \in [Procs -> Process], NEW p \in Procs, Clear(p)
  PROVE  Becomes(p, "log", proc[p].obj, proc[p].seg, proc[p].sem, "up")
<1>0. proc[p] \in Process
  OBVIOUS
<1> DEFINE r == [proc[p] EXCEPT !.role = "up", !.pc = "log"]
<1>1. r \in Process /\ r.pc = "log" /\ r.obj = proc[p].obj /\ r.seg = proc[p].seg
      /\ r.sem = proc[p].sem /\ r.role = "up"
  BY <1>0 DEF Process, Points
<1>2. proc' = [proc EXCEPT ![p] = r]
  BY DEF Clear
<1> HIDE DEF r
<1> QED BY <1>1, <1>2, UpdateMoves

LEMMA LoadFailsMoves ==
  ASSUME proc \in [Procs -> Process], NEW p \in Procs, LoadFails(p)
  PROVE  Moves(p, "idle")
<1>0. proc[p] \in Process
  OBVIOUS
<1> DEFINE r == [proc[p] EXCEPT !.pc = "idle", !.call = "none"]
<1>1. r \in Process /\ r.pc = "idle" /\ r.obj = proc[p].obj /\ r.seg = proc[p].seg
      /\ r.sem = proc[p].sem /\ r.role = proc[p].role
  BY <1>0 DEF Process, Points
<1>2. proc' = [proc EXCEPT ![p] = r]
  BY DEF LoadFails
<1> HIDE DEF r
<1> QED BY <1>1, <1>2, UpdateMoves DEF Moves

LEMMA LoadedMoves ==
  ASSUME proc \in [Procs -> Process], NEW p \in Procs, NEW s \in 0 .. MaxSegs,
         mem[s].sem \in 0 .. MaxSegs, Loaded(p, s)
  PROVE  Becomes(p, "log", proc[p].obj, s, mem[s].sem, proc[p].role)
<1>0. proc[p] \in Process
  OBVIOUS
<1> DEFINE r == [proc[p] EXCEPT !.seg = s, !.sem = mem[s].sem, !.asset = TRUE, !.pc = "log"]
<1>1. r \in Process /\ r.pc = "log" /\ r.obj = proc[p].obj /\ r.seg = s
      /\ r.sem = mem[s].sem /\ r.role = proc[p].role
  BY <1>0 DEF Process, Points
<1>2. proc' = [proc EXCEPT ![p] = r]
  BY DEF Loaded
<1> HIDE DEF r
<1> QED BY <1>1, <1>2, UpdateMoves

\* Logged, as a record.
LEMMA LoggedFacts ==
  ASSUME NEW pr \in Process
  PROVE  /\ Logged(pr) \in Process
         /\ Logged(pr).pc \in {"log", "idle"}
         /\ Logged(pr).obj = pr.obj
         /\ Logged(pr).seg = pr.seg
         /\ Logged(pr).sem = pr.sem
         /\ Logged(pr).role = pr.role
<1>1. CASE pr.call = "simevent" /\ ~pr.sim
  BY <1>1 DEF Logged, Process, Points
<1>2. CASE ~(pr.call = "simevent" /\ ~pr.sim)
  BY <1>2 DEF Logged, Process, Points
<1> QED BY <1>1, <1>2

LEMMA LogCheckMoves ==
  ASSUME proc \in [Procs -> Process], NEW p \in Procs, LogCheck(p)
  PROVE  \/ proc[p].seg = 0 /\ Moves(p, "null")
         \/ /\ proc[p].seg # 0
            /\ \E l \in {"log", "idle"} : Moves(p, l)
         \/ proc[p].seg # 0 /\ ~(Data(p).index >= LogNum) /\ Moves(p, "take")
<1>1. CASE proc[p].seg = 0
  <2>1. proc' = [proc EXCEPT ![p] = [proc[p] EXCEPT !.pc = "null"]]
    BY <1>1 DEF LogCheck
  <2>2. Goto(p, "null")
    BY <2>1 DEF Goto
  <2> QED BY <1>1, <2>2, GotoMoves DEF Points
<1>2. CASE proc[p].seg # 0 /\ Data(p).index >= LogNum
  <2>1. proc' = [proc EXCEPT ![p] = Logged(proc[p])]
    BY <1>2 DEF LogCheck
  <2> QED BY <1>2, <2>1, LoggedFacts, UpdateMoves DEF Moves
<1>3. CASE proc[p].seg # 0 /\ ~(Data(p).index >= LogNum)
  <2>1. proc' = [proc EXCEPT ![p] = [proc[p] EXCEPT !.pc = "take"]]
    BY <1>3 DEF LogCheck
  <2>2. Goto(p, "take")
    BY <2>1 DEF Goto
  <2> QED BY <1>3, <2>2, GotoMoves DEF Points
<1> QED BY <1>1, <1>2, <1>3

LEMMA LogTakeMoves ==
  ASSUME proc \in [Procs -> Process], NEW p \in Procs, LogTake(p), Data(p).index \in Nat
  PROVE  Moves(p, "fill") /\ proc'[p].entry = Data(p).index
<1>0. proc[p] \in Process
  OBVIOUS
<1> DEFINE r == [proc[p] EXCEPT !.entry = Data(p).index, !.pc = "fill"]
<1>1. r \in Process /\ r.pc = "fill" /\ r.obj = proc[p].obj /\ r.seg = proc[p].seg
      /\ r.sem = proc[p].sem /\ r.role = proc[p].role /\ r.entry = Data(p).index
  BY <1>0 DEF Process, Points
<1>2. proc' = [proc EXCEPT ![p] = r]
  BY DEF LogTake
<1> HIDE DEF r
<1> QED BY <1>1, <1>2, UpdateMoves DEF Moves

LEMMA LogFillMoves ==
  ASSUME proc \in [Procs -> Process], NEW p \in Procs, LogFill(p)
  PROVE  \E l \in {"log", "idle"} : Moves(p, l)
<1>1. proc' = [proc EXCEPT ![p] = Logged(proc[p])]
  BY DEF LogFill
<1> QED BY <1>1, LoggedFacts, UpdateMoves DEF Moves

LEMMA DroppedFacts ==
  ASSUME NEW pr \in Process
  PROVE  /\ Dropped(pr) \in Process
         /\ Dropped(pr).pc = "idle"
         /\ Dropped(pr).obj = FALSE
         /\ Dropped(pr).seg = 0
         /\ Dropped(pr).sem = 0
         /\ Dropped(pr).role = "none"
<1>1. 0 \in 0 .. MaxSegs
  BY SessionAssumption
<1> QED BY <1>1 DEF Dropped, Process, Points

LEMMA DestroyMoves ==
  ASSUME proc \in [Procs -> Process], NEW p \in Procs, lapses \in Nat, destroy(p)
  PROVE  \/ /\ proc[p].seg = 0 /\ lapses' # 0 /\ UNCHANGED <<key, members>>
            /\ Moves(p, "null")
         \/ /\ proc[p].seg # 0 /\ UNCHANGED <<key, members>>
            /\ Moves(p, "idle")
         \/ /\ proc[p].seg # 0 /\ mem[proc[p].seg].pid = p /\ backend = "mmap"
            /\ UNCHANGED key /\ members' = {}
            /\ Becomes(p, "idle", FALSE, 0, 0, "none")
         \/ /\ proc[p].seg # 0 /\ mem[proc[p].seg].pid = p /\ backend # "mmap"
            /\ key' = (IF key = proc[p].seg THEN 0 ELSE key) /\ members' = {}
            /\ Becomes(p, "rmsem", proc[p].obj, proc[p].seg, proc[p].sem, "creating")
<1>0. proc[p] \in Process
  OBVIOUS
<1> DEFINE pr == [proc[p] EXCEPT !.master = FALSE]
<1>1. pr \in Process /\ pr.pc = proc[p].pc /\ pr.obj = proc[p].obj
      /\ pr.seg = proc[p].seg /\ pr.sem = proc[p].sem /\ pr.role = proc[p].role
  BY <1>0 DEF Process
<1>2. proc[p].pc = "idle"
  BY DEF destroy, Ready, At
<1>3. CASE proc[p].seg = 0
  <2> DEFINE r == [pr EXCEPT !.pc = "null"]
  <2>1. r \in Process /\ r.pc = "null" /\ r.obj = proc[p].obj /\ r.seg = proc[p].seg
        /\ r.sem = proc[p].sem /\ r.role = proc[p].role
    <3> HIDE DEF pr
    <3> QED BY <1>1 DEF Process, Points
  <2>2. proc' = [proc EXCEPT ![p] = r] /\ lapses' = lapses + 1 /\ UNCHANGED <<key, members>>
    BY <1>3 DEF destroy, Call
  <2>3. lapses' # 0
    BY <2>2, <1>3 DEF destroy, Call
  <2> HIDE DEF r
  <2> QED BY <1>3, <2>1, <2>2, <2>3, UpdateMoves DEF Moves
<1>4. CASE proc[p].seg # 0 /\ mem[proc[p].seg].pid # p
  <2>1. proc' = [proc EXCEPT ![p] = pr] /\ UNCHANGED <<key, members>>
    BY <1>4 DEF destroy
  <2> QED BY <1>1, <1>2, <1>4, <2>1, UpdateMoves DEF Moves
<1>5. CASE proc[p].seg # 0 /\ mem[proc[p].seg].pid = p /\ backend = "mmap"
  <2>1. proc' = [proc EXCEPT ![p] = Dropped(pr)] /\ UNCHANGED key /\ members' = {}
    BY <1>5 DEF destroy, destroy_memory
  <2> HIDE DEF pr
  <2> QED BY <1>1, <1>5, <2>1, DroppedFacts, UpdateMoves
<1>6. CASE proc[p].seg # 0 /\ mem[proc[p].seg].pid = p /\ backend # "mmap"
  <2> DEFINE r == [pr EXCEPT !.role = "creating", !.pc = "rmsem"]
  <2>1. r \in Process /\ r.pc = "rmsem" /\ r.obj = proc[p].obj /\ r.seg = proc[p].seg
        /\ r.sem = proc[p].sem /\ r.role = "creating"
    <3> HIDE DEF pr
    <3> QED BY <1>1 DEF Process, Points
  <2>2. proc' = [proc EXCEPT ![p] = r] /\ members' = {}
        /\ key' = (IF key = pr.seg THEN 0 ELSE key)
    BY <1>6 DEF destroy, destroy_memory
  <2> HIDE DEF r
  <2> QED BY <1>1, <1>6, <2>1, <2>2, UpdateMoves
<1> QED BY <1>3, <1>4, <1>5, <1>6

LEMMA DestroySemMoves ==
  ASSUME proc \in [Procs -> Process], NEW p \in Procs, DestroySem(p)
  PROVE  Becomes(p, "idle", FALSE, 0, 0, "none")
<1>1. proc' = [proc EXCEPT ![p] = Dropped(proc[p])]
  BY DEF DestroySem
<1> QED BY <1>1, DroppedFacts, UpdateMoves

\* Whatever p does, it ends up in a place that exists, and the others stay.
Settles(p) ==
  \E pc, obj, seg, sem, role :
    Becomes(p, pc, obj, seg, sem, role) /\ Placed(pc, obj, seg, role)

Calls(p) ==
  \/ init(p) \/ create_master(p) \/ create_asset_controller(p)
  \/ get_simevent_controller(p) \/ asset_register(p) \/ asset_unregister(p)
  \/ destroy(p)

Steps(p) ==
  \/ create(p) \/ LoadOpen(p) \/ ShmLoad(p) \/ LoadCheck(p)
  \/ LogCheck(p) \/ LogTake(p) \/ LogFill(p) \/ DestroySem(p)
  \/ LockOverflows(p) \/ BusError(p)

\* Placed follows from where the process was.
LEMMA Settling ==
  ASSUME NEW p \in Procs, NEW pc, NEW obj, NEW seg, NEW sem, NEW role,
         Becomes(p, pc, obj, seg, sem, role), Placed(pc, obj, seg, role)
  PROVE  Settles(p)
BY DEF Settles

LEMMA CallsSettle ==
  ASSUME TypeOK, WellPlaced, NEW p \in Procs, Calls(p)
  PROVE  Settles(p)
<1>0. /\ proc \in [Procs -> Process] /\ lapses \in Nat
      /\ Placed(proc[p].pc, proc[p].obj, proc[p].seg, proc[p].role)
      /\ backend \in {"mmap", "shm"}
  BY SessionAssumption DEF TypeOK, WellPlaced
<1>1. proc[p].pc = "idle"
  BY DEF Calls, init, create_master, create_asset_controller, get_simevent_controller,
         asset_register, asset_unregister, destroy, Ready, At
<1> USE DEF Placed, Building
<1>2. CASE init(p)
  <2>1. proc[p].obj => Placed("log", proc[p].obj, proc[p].seg, proc[p].role)
    BY <1>0, <1>1
  <2>2. ~proc[p].obj => \A l : l = (IF backend = "mmap" THEN "stat" ELSE "shmget")
                                => Placed(l, TRUE, proc[p].seg, "creating")
    BY <1>0, <1>1
  <2> HIDE DEF Placed
  <2> QED BY <1>0, <1>2, <2>1, <2>2, InitMoves, Settling DEF Moves
<1>3. CASE create_master(p)
  BY Settling, <1>0, <1>1, <1>3, CreateMasterMoves DEF Moves
<1>4. CASE create_asset_controller(p) \/ get_simevent_controller(p)
  <2>1. proc[p].obj => Placed("log", proc[p].obj, proc[p].seg, proc[p].role)
    BY <1>0, <1>1
  <2>2. ~proc[p].obj => Placed("open", TRUE, proc[p].seg, proc[p].role)
    BY <1>0, <1>1
  <2> HIDE DEF Placed
  <2> QED BY <1>0, <1>4, <2>1, <2>2, ControllerMoves, Settling DEF Moves
<1>5. CASE asset_register(p) \/ asset_unregister(p)
  <2>1. Moves(p, "log")
    BY <1>0, <1>5, GotoMoves DEF asset_register, asset_unregister, Points
  <2> QED BY Settling, <1>0, <1>1, <2>1 DEF Moves
<1>6. CASE destroy(p)
  <2>1. /\ proc[p].seg = 0 => Placed("null", proc[p].obj, proc[p].seg, proc[p].role)
        /\ Placed("idle", proc[p].obj, proc[p].seg, proc[p].role)
        /\ Placed("idle", FALSE, 0, "none")
        /\ backend # "mmap" /\ proc[p].seg # 0
             => Placed("rmsem", proc[p].obj, proc[p].seg, "creating")
    BY <1>0, <1>1
  <2> HIDE DEF Placed
  <2> QED BY <1>0, <1>6, <2>1, DestroyMoves, Settling DEF Moves
<1> QED BY <1>2, <1>3, <1>4, <1>5, <1>6 DEF Calls

LEMMA StepsSettle ==
  ASSUME TypeOK, WellPlaced, NEW p \in Procs, Steps(p)
  PROVE  Settles(p)
<1>0. /\ proc \in [Procs -> Process]
      /\ Placed(proc[p].pc, proc[p].obj, proc[p].seg, proc[p].role)
      /\ backend \in {"mmap", "shm"}
      /\ \A s \in Segs : mem[s].sem \in 0 .. MaxSegs /\ mem[s].index \in Nat
      /\ key \in 0 .. MaxSegs /\ made \in 0 .. MaxSegs /\ semKey \in 0 .. MaxSegs
      /\ proc[p].seg \in 0 .. MaxSegs
      /\ MaxSegs \in Nat \ {0}
  <2>1. mem \in [Segs -> Segment] /\ proc \in [Procs -> Process]
    BY DEF TypeOK
  <2>2. \A s \in Segs : mem[s].sem \in 0 .. MaxSegs /\ mem[s].index \in Nat
    BY ONLY <2>1 DEF Segment
  <2>3. proc[p].seg \in 0 .. MaxSegs
    BY <2>1 DEF Process
  <2> QED BY <2>1, <2>2, <2>3, SessionAssumption DEF TypeOK, WellPlaced
<1>1. Segs = 1 .. MaxSegs
  BY DEF Segs
<1> USE DEF Placed, Building
<1>2. ASSUME NEW l \in Points, Goto(p, l)
      PROVE  Becomes(p, l, proc[p].obj, proc[p].seg, proc[p].sem, proc[p].role)
  BY <1>0, <1>2, GotoMoves DEF Moves
<1>3. CASE CreateStat(p)
  BY Settling, <1>0, <1>2, <1>3 DEF CreateStat, At, Points
<1>4. CASE CreateTrunc(p) \/ CreateSize(p)
  BY Settling, <1>0, <1>2, <1>4 DEF CreateTrunc, CreateSize, At, Points
<1>5. CASE CreateMap(p)
  <2>1. proc' = [proc EXCEPT ![p].seg = 1, ![p].pc = "sem"] /\ proc[p].pc = "map"
    BY <1>5 DEF CreateMap, At
  <2>2. Placed("sem", proc[p].obj, 1, proc[p].role)
    BY <1>0, <2>1
  <2>3. 1 \in 0 .. MaxSegs
    BY <1>0
  <2>4. Becomes(p, "sem", proc[p].obj, 1, proc[p].sem, proc[p].role)
    BY <1>0, <2>1, <2>3, SegMoves
  <2> HIDE DEF Placed
  <2> QED BY <2>2, <2>4, Settling
<1>6. CASE ShmGet(p)
  <2>1. PICK s \in 0 .. MaxSegs : s # 0 /\ proc' = [proc EXCEPT ![p].seg = s, ![p].pc = "sem"]
    BY <1>0, <1>6 DEF ShmGet
  <2>2. proc[p].pc = "shmget"
    BY <1>6 DEF ShmGet, At
  <2> QED BY Settling, <1>0, <2>1, <2>2, SegMoves
<1>7. CASE SemCreate(p)
  <2>1. PICK s \in 0 .. MaxSegs : proc' = [proc EXCEPT ![p].sem = s, ![p].pc = "head"]
    BY <1>0, <1>7 DEF SemCreate
  <2>2. proc[p].pc = "sem"
    BY <1>7 DEF SemCreate, At
  <2>3. Placed("head", proc[p].obj, proc[p].seg, proc[p].role)
    BY <1>0, <2>2
  <2>4. Becomes(p, "head", proc[p].obj, proc[p].seg, s, proc[p].role)
    BY <1>0, <2>1, SemMoves
  <2> HIDE DEF Placed
  <2> QED BY <2>3, <2>4, Settling
<1>8. CASE WriteHead(p) \/ WriteDataSize(p)
  BY Settling, <1>0, <1>2, <1>8 DEF WriteHead, WriteDataSize, At, Points
<1>9. CASE Clear(p)
  BY Settling, <1>0, <1>9, ClearMoves DEF Clear, At
<1>10. CASE LoadOpen(p)
  <2>1. Moves(p, "idle") \/ Moves(p, "check")
    BY <1>0, <1>10, LoadFailsMoves, GotoMoves DEF LoadOpen, Points
  <2> QED BY Settling, <1>0, <1>10, <2>1 DEF LoadOpen, At, Moves
<1>11. CASE ShmLoad(p)
  <2>1. \/ Moves(p, "idle")
        \/ Becomes(p, "log", proc[p].obj, key, mem[key].sem, proc[p].role) /\ key # 0
    BY <1>0, <1>1, <1>11, LoadFailsMoves, LoadedMoves DEF ShmLoad
  <2>2. proc[p].pc = "open"
    BY <1>11 DEF ShmLoad, At
  <2>3. /\ Placed("idle", proc[p].obj, proc[p].seg, proc[p].role)
        /\ Placed("log", proc[p].obj, key, proc[p].role)
    BY <1>0, <2>2
  <2> HIDE DEF Placed
  <2> QED BY <2>1, <2>3, Settling DEF Moves
<1>12. CASE LoadCheck(p)
  <2>1. \/ Moves(p, "idle")
        \/ Becomes(p, "log", proc[p].obj, 1, mem[1].sem, proc[p].role)
    BY <1>0, <1>1, <1>12, LoadFailsMoves, LoadedMoves DEF LoadCheck
  <2>2. proc[p].pc = "check"
    BY <1>12 DEF LoadCheck, At
  <2>3. /\ Placed("idle", proc[p].obj, proc[p].seg, proc[p].role)
        /\ Placed("log", proc[p].obj, 1, proc[p].role)
    BY <1>0, <2>2
  <2> HIDE DEF Placed
  <2> QED BY <2>1, <2>3, Settling DEF Moves
<1>13. CASE LogCheck(p)
  <2>1. proc[p].pc = "log"
    BY <1>13 DEF LogCheck, At
  <2>2. \A l \in {"null", "log", "idle", "take"} : (l = "take" => proc[p].seg # 0)
          => Placed(l, proc[p].obj, proc[p].seg, proc[p].role)
    BY <1>0, <2>1
  <2> HIDE DEF Placed
  <2> QED BY <1>0, <1>13, <2>2, LogCheckMoves, Settling DEF Moves
<1>14. CASE LogTake(p)
  <2>1. proc[p].pc = "take" /\ Data(p).index \in Nat
    BY <1>0, <1>1, <1>14 DEF LogTake, At, Data
  <2> QED BY Settling, <1>0, <1>14, <2>1, LogTakeMoves DEF Moves
<1>15. CASE LogFill(p)
  BY Settling, <1>0, <1>15, LogFillMoves DEF LogFill, At, Moves
<1>16. CASE DestroySem(p)
  BY Settling, <1>0, <1>16, DestroySemMoves DEF DestroySem, At
<1>17. CASE LockOverflows(p) \/ BusError(p)
  BY Settling, <1>0, <1>2, <1>17 DEF LockOverflows, BusError, Locking, Ready, At, Points
<1> QED BY <1>3, <1>4, <1>5, <1>6, <1>7, <1>8, <1>9, <1>10, <1>11, <1>12, <1>13,
           <1>14, <1>15, <1>16, <1>17 DEF Steps, create

\* A step of p, from its place to its place.
LEMMA SettledIsWellPlaced ==
  ASSUME WellPlaced, NEW p \in Procs, Settles(p), UNCHANGED backend
  PROVE  WellPlaced' /\ proc' \in [Procs -> Process]
<1>1. PICK pc, obj, seg, sem, role :
        Becomes(p, pc, obj, seg, sem, role) /\ Placed(pc, obj, seg, role)
  BY DEF Settles
<1>2. \A a, b, c, d : Placed(a, b, c, d)' <=> Placed(a, b, c, d)
  BY DEF Placed
<1> QED BY <1>1, <1>2 DEF WellPlaced, Becomes

-----------------------------------------------------------------------------
(* Types *)

LEMMA SegmentFacts ==
  ASSUME mem \in [Segs -> Segment], NEW s \in Segs
  PROVE  /\ mem[s] \in Segment
         /\ mem[s].len \in {"empty", "full"} /\ mem[s].hdr \in {"zero", "part", "full"}
         /\ mem[s].sem \in 0 .. MaxSegs /\ mem[s].pid \in Procs \cup {NoProc}
         /\ mem[s].table \subseteq Procs /\ mem[s].index \in Nat
         /\ mem[s].entries \subseteq Entries
BY DEF Segment

\* Segment s gets this content, the others stay.
Holds(s, len, hdr, sem, pid, table, index, entries) ==
  /\ mem' \in [Segs -> Segment]
  /\ \A t \in Segs : t # s => mem'[t] = mem[t]
  /\ mem'[s].len = len
  /\ mem'[s].hdr = hdr
  /\ mem'[s].sem = sem
  /\ mem'[s].pid = pid
  /\ mem'[s].table = table
  /\ mem'[s].index = index
  /\ mem'[s].entries = entries

LEMMA WriteHolds ==
  ASSUME mem \in [Segs -> Segment], NEW s \in Segs, NEW r \in Segment,
         mem' = [mem EXCEPT ![s] = r]
  PROVE  Holds(s, r.len, r.hdr, r.sem, r.pid, r.table, r.index, r.entries)
BY DEF Holds

LEMMA ZeroedFacts ==
  ASSUME NEW len \in {"empty", "full"}
  PROVE  /\ Zeroed(len) \in Segment
         /\ Zeroed(len).len = len /\ Zeroed(len).hdr = "zero" /\ Zeroed(len).sem = 0
         /\ Zeroed(len).pid = NoProc /\ Zeroed(len).table = {}
         /\ Zeroed(len).index = 0 /\ Zeroed(len).entries = {}
<1>1. 0 \in 0 .. MaxSegs
  BY SessionAssumption
<1> QED BY <1>1 DEF Zeroed, Segment

LEMMA RegisterHolds ==
  ASSUME mem \in [Segs -> Segment], proc \in [Procs -> Process], NEW p \in Procs,
         NEW s \in Segs, s = proc[p].seg, asset_register(p)
  PROVE  Holds(s, mem[s].len, mem[s].hdr, mem[s].sem, mem[s].pid,
               mem[s].table \cup {p}, mem[s].index, mem[s].entries)
<1>1. mem[s] \in Segment /\ proc[p] \in Process
  OBVIOUS
<1> DEFINE r == [mem[s] EXCEPT !.table = mem[s].table \cup {p}]
<1>2. r \in Segment /\ r.len = mem[s].len /\ r.hdr = mem[s].hdr /\ r.sem = mem[s].sem /\ r.pid = mem[s].pid
      /\ r.table = mem[s].table \cup {p} /\ r.index = mem[s].index /\ r.entries = mem[s].entries
  BY <1>1 DEF Segment
<1>3. mem' = [mem EXCEPT ![s] = r]
  BY DEF asset_register
<1> HIDE DEF r
<1>4. Holds(s, r.len, r.hdr, r.sem, r.pid, r.table, r.index, r.entries)
  BY <1>2, <1>3, WriteHolds
<1> QED BY <1>2, <1>4

LEMMA UnregisterHolds ==
  ASSUME mem \in [Segs -> Segment], proc \in [Procs -> Process], NEW p \in Procs,
         NEW s \in Segs, s = proc[p].seg, asset_unregister(p)
  PROVE  Holds(s, mem[s].len, mem[s].hdr, mem[s].sem, mem[s].pid,
               mem[s].table \ {p}, mem[s].index, mem[s].entries)
<1>1. mem[s] \in Segment /\ proc[p] \in Process
  OBVIOUS
<1> DEFINE r == [mem[s] EXCEPT !.table = mem[s].table \ {p}]
<1>2. r \in Segment /\ r.len = mem[s].len /\ r.hdr = mem[s].hdr /\ r.sem = mem[s].sem /\ r.pid = mem[s].pid
      /\ r.table = mem[s].table \ {p} /\ r.index = mem[s].index /\ r.entries = mem[s].entries
  BY <1>1 DEF Segment
<1>3. mem' = [mem EXCEPT ![s] = r]
  BY DEF asset_unregister
<1> HIDE DEF r
<1>4. Holds(s, r.len, r.hdr, r.sem, r.pid, r.table, r.index, r.entries)
  BY <1>2, <1>3, WriteHolds
<1> QED BY <1>2, <1>4

LEMMA SizeHolds ==
  ASSUME mem \in [Segs -> Segment], proc \in [Procs -> Process], NEW p \in Procs,
         NEW s \in Segs, s = 1, CreateSize(p)
  PROVE  Holds(s, "full", mem[s].hdr, mem[s].sem, mem[s].pid,
               mem[s].table, mem[s].index, mem[s].entries)
<1>1. mem[s] \in Segment /\ proc[p] \in Process
  OBVIOUS
<1> DEFINE r == [mem[s] EXCEPT !.len = "full"]
<1>2. r \in Segment /\ r.len = "full" /\ r.hdr = mem[s].hdr /\ r.sem = mem[s].sem /\ r.pid = mem[s].pid
      /\ r.table = mem[s].table /\ r.index = mem[s].index /\ r.entries = mem[s].entries
  BY <1>1 DEF Segment
<1>3. mem' = [mem EXCEPT ![s] = r]
  BY DEF CreateSize
<1> HIDE DEF r
<1>4. Holds(s, r.len, r.hdr, r.sem, r.pid, r.table, r.index, r.entries)
  BY <1>2, <1>3, WriteHolds
<1> QED BY <1>2, <1>4

LEMMA DataSizeHolds ==
  ASSUME mem \in [Segs -> Segment], proc \in [Procs -> Process], NEW p \in Procs,
         NEW s \in Segs, s = proc[p].seg, WriteDataSize(p)
  PROVE  Holds(s, mem[s].len, "full", mem[s].sem, mem[s].pid,
               mem[s].table, mem[s].index, mem[s].entries)
<1>1. mem[s] \in Segment /\ proc[p] \in Process
  OBVIOUS
<1> DEFINE r == [mem[s] EXCEPT !.hdr = "full"]
<1>2. r \in Segment /\ r.len = mem[s].len /\ r.hdr = "full" /\ r.sem = mem[s].sem /\ r.pid = mem[s].pid
      /\ r.table = mem[s].table /\ r.index = mem[s].index /\ r.entries = mem[s].entries
  BY <1>1 DEF Segment
<1>3. mem' = [mem EXCEPT ![s] = r]
  BY DEF WriteDataSize
<1> HIDE DEF r
<1>4. Holds(s, r.len, r.hdr, r.sem, r.pid, r.table, r.index, r.entries)
  BY <1>2, <1>3, WriteHolds
<1> QED BY <1>2, <1>4

LEMMA ClearHolds ==
  ASSUME mem \in [Segs -> Segment], proc \in [Procs -> Process], NEW p \in Procs,
         NEW s \in Segs, s = proc[p].seg, Clear(p)
  PROVE  Holds(s, mem[s].len, mem[s].hdr, mem[s].sem, p,
               {}, 0, {})
<1>1. mem[s] \in Segment /\ proc[p] \in Process
  OBVIOUS
<1> DEFINE r == [mem[s] EXCEPT !.pid = p, !.table = {}, !.index = 0, !.entries = {}]
<1>2. r \in Segment /\ r.len = mem[s].len /\ r.hdr = mem[s].hdr /\ r.sem = mem[s].sem /\ r.pid = p
      /\ r.table = {} /\ r.index = 0 /\ r.entries = {}
  BY <1>1 DEF Segment
<1>3. mem' = [mem EXCEPT ![s] = r]
  BY DEF Clear
<1> HIDE DEF r
<1>4. Holds(s, r.len, r.hdr, r.sem, r.pid, r.table, r.index, r.entries)
  BY <1>2, <1>3, WriteHolds
<1> QED BY <1>2, <1>4

LEMMA TakeHolds ==
  ASSUME mem \in [Segs -> Segment], proc \in [Procs -> Process], NEW p \in Procs,
         NEW s \in Segs, s = proc[p].seg, LogTake(p)
  PROVE  Holds(s, mem[s].len, mem[s].hdr, mem[s].sem, mem[s].pid,
               mem[s].table, mem[s].index + 1, mem[s].entries)
<1>1. mem[s] \in Segment /\ proc[p] \in Process
  OBVIOUS
<1> DEFINE r == [mem[s] EXCEPT !.index = mem[s].index + 1]
<1>2. r \in Segment /\ r.len = mem[s].len /\ r.hdr = mem[s].hdr /\ r.sem = mem[s].sem /\ r.pid = mem[s].pid
      /\ r.table = mem[s].table /\ r.index = mem[s].index + 1 /\ r.entries = mem[s].entries
  BY <1>1 DEF Segment
<1>3. mem' = [mem EXCEPT ![s] = r]
  BY DEF LogTake
<1> HIDE DEF r
<1>4. Holds(s, r.len, r.hdr, r.sem, r.pid, r.table, r.index, r.entries)
  BY <1>2, <1>3, WriteHolds
<1> QED BY <1>2, <1>4

LEMMA FillHolds ==
  ASSUME mem \in [Segs -> Segment], proc \in [Procs -> Process], NEW p \in Procs,
         NEW s \in Segs, s = proc[p].seg, LogFill(p)
  PROVE  Holds(s, mem[s].len, mem[s].hdr, mem[s].sem, mem[s].pid,
               mem[s].table, mem[s].index, mem[s].entries \cup ({proc[p].entry} \cap Entries))
<1>1. mem[s] \in Segment /\ proc[p] \in Process
  OBVIOUS
<1> DEFINE r == [mem[s] EXCEPT !.entries = mem[s].entries \cup ({proc[p].entry} \cap Entries)]
<1>2. r \in Segment /\ r.len = mem[s].len /\ r.hdr = mem[s].hdr /\ r.sem = mem[s].sem /\ r.pid = mem[s].pid
      /\ r.table = mem[s].table /\ r.index = mem[s].index /\ r.entries = mem[s].entries \cup ({proc[p].entry} \cap Entries)
  BY <1>1 DEF Segment
<1>3. mem' = [mem EXCEPT ![s] = r]
  BY DEF LogFill
<1> HIDE DEF r
<1>4. Holds(s, r.len, r.hdr, r.sem, r.pid, r.table, r.index, r.entries)
  BY <1>2, <1>3, WriteHolds
<1> QED BY <1>2, <1>4

LEMMA HeadHolds ==
  ASSUME mem \in [Segs -> Segment], proc \in [Procs -> Process], NEW p \in Procs,
         NEW s \in Segs, s = proc[p].seg, WriteHead(p)
  PROVE  \E h \in {"part", "full"} :
           /\ Holds(s, mem[s].len, h, proc[p].sem, mem[s].pid,
                    mem[s].table, mem[s].index, mem[s].entries)
           /\ mem[s].hdr = "full" => h = "full"
<1>1. mem[s] \in Segment /\ proc[p].sem \in 0 .. MaxSegs
  BY DEF Process
<1>2. PICK h \in {"part", "full"} :
        h = IF mem[s].hdr = "full" THEN "full" ELSE "part"
  OBVIOUS
<1> DEFINE r == [mem[s] EXCEPT !.sem = proc[p].sem, !.hdr = h]
<1>3. r \in Segment /\ r.len = mem[s].len /\ r.hdr = h /\ r.sem = proc[p].sem
      /\ r.pid = mem[s].pid /\ r.table = mem[s].table /\ r.index = mem[s].index
      /\ r.entries = mem[s].entries
  BY <1>1, <1>2 DEF Segment
<1>4. mem' = [mem EXCEPT ![s] = r]
  BY <1>2 DEF WriteHead, Data
<1> HIDE DEF r
<1>5. Holds(s, r.len, r.hdr, r.sem, r.pid, r.table, r.index, r.entries)
  BY <1>3, <1>4, WriteHolds
<1>6. Holds(s, mem[s].len, h, proc[p].sem, mem[s].pid, mem[s].table, mem[s].index,
            mem[s].entries)
  BY <1>3, <1>5
<1> QED BY <1>2, <1>6

\* A process that touches a segment has one.
LEMMA SegOfProcess ==
  ASSUME TypeOK, WellPlaced, NEW p \in Procs, proc[p].seg # 0
  PROVE  proc[p].seg \in Segs
<1>1. proc[p].seg \in 0 .. MaxSegs
  <2>1. proc[p] \in Process
    BY DEF TypeOK
  <2> QED BY <2>1 DEF Process
<1> QED BY <1>1, SessionAssumption DEF Segs

LEMMA TypeStep ==
  ASSUME TypeOK, WellPlaced, [Next]_vars
  PROVE  TypeOK' /\ WellPlaced'
<1>0. CASE UNCHANGED vars
  BY <1>0 DEF vars, TypeOK, WellPlaced, Placed
<1> SUFFICES ASSUME NEW p \in Procs, Calls(p) \/ Steps(p) \/ Die(p)
             PROVE  TypeOK' /\ WellPlaced'
  BY <1>0 DEF Next, Calls, Steps
<1>1. CASE Die(p)
  BY <1>1 DEF Die, TypeOK, WellPlaced, Placed
<1> SUFFICES ASSUME Calls(p) \/ Steps(p) PROVE TypeOK' /\ WellPlaced'
  BY <1>1
<1>2. UNCHANGED <<backend, alive>>
  BY DEF Calls, Steps, init, create_master, create_asset_controller,
         get_simevent_controller, asset_register, asset_unregister, destroy, create,
         CreateStat, CreateTrunc, CreateSize, CreateMap, ShmGet, SemCreate, WriteHead,
         WriteDataSize, Clear, LoadOpen, ShmLoad, LoadCheck, LogCheck, LogTake, LogFill,
         DestroySem, LockOverflows, BusError, SharedUnchanged
<1>3. WellPlaced' /\ proc' \in [Procs -> Process]
  BY <1>2, CallsSettle, StepsSettle, SettledIsWellPlaced
<1>4. calls' \in 0 .. MaxCalls /\ lapses' \in 0 .. MaxLapses
  <2>1. CASE Calls(p)
    <3>1. calls < MaxCalls /\ \E b : Call(b)
      BY <2>1 DEF Calls, init, create_master, create_asset_controller,
         get_simevent_controller, asset_register, asset_unregister, destroy, Ready
    <3> QED BY <3>1, SessionAssumption DEF TypeOK, Call
  <2>2. CASE Steps(p)
    BY <2>2 DEF Steps, create,
         CreateStat, CreateTrunc, CreateSize, CreateMap, ShmGet, SemCreate, WriteHead,
         WriteDataSize, Clear, LoadOpen, ShmLoad, LoadCheck, LogCheck, LogTake, LogFill,
         DestroySem, LockOverflows, BusError, TypeOK
  <2> QED BY <2>1, <2>2
<1>5. members' \subseteq Procs
  BY DEF Calls, Steps, init, create_master, create_asset_controller,
         get_simevent_controller, asset_register, asset_unregister, destroy, create,
         CreateStat, CreateTrunc, CreateSize, CreateMap, ShmGet, SemCreate, WriteHead,
         WriteDataSize, Clear, LoadOpen, ShmLoad, LoadCheck, LogCheck, LogTake, LogFill,
         DestroySem, LockOverflows, BusError, TypeOK
<1>6. /\ proc \in [Procs -> Process]
      /\ mem \in [Segs -> Segment]
      /\ MaxSegs \in Nat \ {0}
      /\ 1 \in Segs
      /\ proc[p].seg \in 0 .. MaxSegs
      /\ proc[p].seg # 0 => proc[p].seg \in Segs
      /\ Placed(proc[p].pc, proc[p].obj, proc[p].seg, proc[p].role)
  <2>1. proc[p].seg \in 0 .. MaxSegs
    <3>1. proc[p] \in Process
      BY DEF TypeOK
    <3> QED BY <3>1 DEF Process
  <2> QED BY <2>1, SegOfProcess, SessionAssumption DEF TypeOK, Segs, WellPlaced
<1>7. /\ key' \in 0 .. MaxSegs /\ made' \in 0 .. MaxSegs /\ semKey' \in 0 .. MaxSegs
      /\ sems' \subseteq Segs
  <2>1. CASE ShmGet(p)
    BY <1>6, <2>1 DEF ShmGet, TypeOK
  <2>2. CASE SemCreate(p)
    <3>1. proc[p].seg \in Segs
      BY <1>6, <2>2 DEF SemCreate, At, Placed
    <3> QED BY <1>6, <2>2, <3>1 DEF SemCreate, TypeOK, Segs
  <2>3. CASE destroy(p)
    <3>1. key' \in {0, key}
      BY <2>3 DEF destroy, destroy_memory
    <3> QED BY <1>6, <2>3, <3>1 DEF destroy, TypeOK
  <2>4. CASE ~ShmGet(p) /\ ~SemCreate(p) /\ ~destroy(p)
    <3>1. /\ key' \in {key, 1} /\ UNCHANGED made
          /\ semKey' \in {semKey, 0} /\ sems' \subseteq sems
      BY <2>4 DEF Calls, Steps, init, create_master, create_asset_controller,
         get_simevent_controller, asset_register, asset_unregister, create,
         CreateStat, CreateTrunc, CreateSize, CreateMap, WriteHead,
         WriteDataSize, Clear, LoadOpen, ShmLoad, LoadCheck, LogCheck, LogTake, LogFill,
         DestroySem, LockOverflows, BusError, SharedUnchanged
    <3> QED BY <1>6, <3>1 DEF TypeOK, Segs
  <2> QED BY <2>1, <2>2, <2>3, <2>4
<1>8. mem' \in [Segs -> Segment]
  <2>1. CASE UNCHANGED mem
    BY <1>6, <2>1
  <2>2. CASE asset_register(p) \/ asset_unregister(p)
    BY <1>6, <2>2, RegisterHolds, UnregisterHolds DEF asset_register, asset_unregister, Holds
  <2>3. CASE CreateTrunc(p)
    BY <1>6, <2>3, ZeroedFacts DEF CreateTrunc
  <2>4. CASE CreateSize(p)
    BY <1>6, <2>4, SizeHolds DEF Holds
  <2>5. CASE ShmGet(p)
    BY <1>6, <2>5, ZeroedFacts DEF ShmGet
  <2>6. CASE WriteHead(p) \/ WriteDataSize(p) \/ Clear(p) \/ LogTake(p) \/ LogFill(p)
    <3>1. proc[p].seg \in Segs
      BY <1>6, <2>6 DEF WriteHead, WriteDataSize, Clear, LogTake, LogFill, At, Placed
    <3>2. CASE WriteHead(p)
      BY <1>6, <3>1, <3>2, HeadHolds DEF Holds
    <3>3. CASE WriteDataSize(p)
      BY <1>6, <3>1, <3>3, DataSizeHolds DEF Holds
    <3>4. CASE Clear(p)
      BY <1>6, <3>1, <3>4, ClearHolds DEF Holds
    <3>5. CASE LogTake(p) \/ LogFill(p)
      BY <1>6, <3>1, <3>5, TakeHolds, FillHolds DEF Holds
    <3> QED BY <2>6, <3>2, <3>3, <3>4, <3>5
  <2> QED BY <2>1, <2>2, <2>3, <2>4, <2>5, <2>6
          DEF Calls, Steps, init, create_master, create_asset_controller,
         get_simevent_controller, destroy, create,
         CreateStat, CreateMap, SemCreate, LoadOpen, ShmLoad, LoadCheck, LogCheck,
         DestroySem, LockOverflows, BusError, SharedUnchanged
<1> QED BY <1>2, <1>3, <1>4, <1>5, <1>7, <1>8 DEF TypeOK

-----------------------------------------------------------------------------
(* The log *)

LEMMA TakersFinite ==
  ASSUME NEW s
  PROVE  /\ IsFiniteSet(Takers(s)) /\ Cardinality(Takers(s)) \in Nat
         /\ Cardinality(Procs) \in Nat /\ Cardinality(Takers(s)) <= Cardinality(Procs)
BY SessionAssumption, FS_Subset, FS_CardinalityType DEF Takers

LEMMA TakersFiniteNext ==
  ASSUME NEW s
  PROVE  /\ IsFiniteSet(Takers(s)') /\ Cardinality(Takers(s)') \in Nat
         /\ Cardinality(Takers(s)') <= Cardinality(Procs)
BY SessionAssumption, FS_Subset, FS_CardinalityType DEF Takers

\* An empty log is in order, however many calls are about to write to it.
LEMMA LogReset ==
  ASSUME NEW s \in Segs, mem'[s].index = 0
  PROVE  LogOf(s)'
<1>1. \A i \in Entries : ~(i < 0)
  BY SessionAssumption DEF Entries
<1> QED BY <1>1, TakersFinite, TakersFiniteNext, SessionAssumption DEF LogOf

\* A step of p that takes no entry of s, and writes the one it had taken.
LEMMA LogSame ==
  ASSUME TypeOK, NEW s \in Segs, LogOf(s), NEW p \in Procs,
         NEW pc, NEW obj, NEW seg, NEW sem, NEW role,
         Becomes(p, pc, obj, seg, sem, role), pc # "take",
         mem'[s].index = mem[s].index,
         mem[s].entries \subseteq mem'[s].entries,
         mem'[s].len \in {mem[s].len, "full"},
         proc[p].pc = "fill" /\ proc[p].seg = s =>
           mem[s].index = 0 \/ {proc[p].entry} \cap Entries \subseteq mem'[s].entries
  PROVE  LogOf(s)'
<1>0. mem[s].index \in Nat
  BY SegmentFacts DEF TypeOK
<1>1. CASE mem[s].index = 0
  BY <1>1, LogReset
<1>2. CASE mem[s].index # 0
  <2>1. mem'[s].len # "empty"
    BY <1>2 DEF LogOf
  <2>2. ASSUME NEW i \in Entries, i < mem[s].index
        PROVE  \/ i \in mem'[s].entries
               \/ \E q \in Procs : /\ proc'[q].pc = "fill" /\ proc'[q].seg = s
                                   /\ proc'[q].entry = i
    <3>1. CASE i \in mem[s].entries
      BY <3>1
    <3>2. ASSUME NEW q \in Procs, proc[q].pc = "fill" /\ proc[q].seg = s /\ proc[q].entry = i
          PROVE  \/ i \in mem'[s].entries
                 \/ \E r \in Procs : /\ proc'[r].pc = "fill" /\ proc'[r].seg = s
                                     /\ proc'[r].entry = i
      <4>1. CASE q = p
        BY <1>2, <3>2, <4>1
      <4>2. CASE q # p
        BY <3>2, <4>2 DEF Becomes
      <4> QED BY <4>1, <4>2
    <3> QED BY <2>2, <3>1, <3>2 DEF LogOf
  <2>3. Cardinality(Takers(s)') <= Cardinality(Takers(s))
    <3>1. Takers(s)' \subseteq Takers(s)
      BY DEF Takers, Becomes
    <3> QED BY <3>1, TakersFinite, FS_Subset
  <2>4. mem'[s].index + Cardinality(Takers(s)') < LogNum + Cardinality(Procs)
    BY <1>0, <2>3, TakersFinite, TakersFiniteNext, SessionAssumption DEF LogOf
  <2> QED BY <2>1, <2>2, <2>4 DEF LogOf
<1> QED BY <1>1, <1>2

\* The same for a step that leaves the memory alone.
LEMMA LogUntouched ==
  ASSUME TypeOK, LogInv, NEW p \in Procs, UNCHANGED mem, proc[p].pc # "fill",
         NEW pc, NEW obj, NEW seg, NEW sem, NEW role,
         Becomes(p, pc, obj, seg, sem, role), pc # "take"
  PROVE  LogInv'
<1> SUFFICES ASSUME NEW s \in Segs PROVE LogOf(s)'
  BY DEF LogInv
<1> QED BY LogSame DEF LogInv

\* The check finds room: the entry p will take is counted in.
LEMMA LogRoom ==
  ASSUME TypeOK, LogInv, NEW p \in Procs, UNCHANGED mem, proc[p].pc = "log",
         proc[p].seg \in Segs, ~(mem[proc[p].seg].index >= LogNum), Moves(p, "take")
  PROVE  LogInv'
<1> SUFFICES ASSUME NEW s \in Segs PROVE LogOf(s)'
  BY DEF LogInv
<1>0. mem[s].index \in Nat
  BY SegmentFacts DEF TypeOK
<1>1. LogOf(s)
  BY DEF LogInv
<1>2. mem'[s].len = "empty" => mem'[s].index = 0
  BY <1>1 DEF LogOf
<1>3. ASSUME NEW i \in Entries, i < mem[s].index
      PROVE  \/ i \in mem'[s].entries
             \/ \E q \in Procs : /\ proc'[q].pc = "fill" /\ proc'[q].seg = s
                                 /\ proc'[q].entry = i
  BY <1>1, <1>3 DEF LogOf, Moves, Becomes
<1>4. mem'[s].index + Cardinality(Takers(s)') < LogNum + Cardinality(Procs)
  <2>1. CASE s = proc[p].seg
    <3>1. mem'[s].index = mem[s].index /\ ~(mem[s].index >= LogNum)
      BY <2>1
    <3>2. /\ Cardinality(Takers(s)') \in Nat /\ Cardinality(Procs) \in Nat
          /\ Cardinality(Takers(s)') <= Cardinality(Procs)
      BY TakersFinite, TakersFiniteNext
    <3>3. ASSUME NEW i \in Nat, NEW c \in Nat, NEW n \in Nat, ~(i >= LogNum), c <= n
          PROVE  i + c < LogNum + n
      BY <3>3, SessionAssumption
    <3> QED BY <1>0, <3>1, <3>2, <3>3
  <2>2. CASE s # proc[p].seg
    <3>1. Takers(s)' = Takers(s)
      BY <2>2 DEF Takers, Moves, Becomes
    <3> QED BY <1>1, <3>1 DEF LogOf
  <2> QED BY <2>1, <2>2
<1> QED BY <1>2, <1>3, <1>4 DEF LogOf

\* The entry is taken: it is counted in the index instead.
LEMMA LogTaken ==
  ASSUME TypeOK, LogInv, NEW p \in Procs, proc[p].pc = "take", NEW t \in Segs,
         t = proc[p].seg, mem[t].len = "full", Moves(p, "fill"),
         proc'[p].entry = mem[t].index,
         Holds(t, mem[t].len, mem[t].hdr, mem[t].sem, mem[t].pid,
               mem[t].table, mem[t].index + 1, mem[t].entries)
  PROVE  LogInv'
<1> SUFFICES ASSUME NEW s \in Segs PROVE LogOf(s)'
  BY DEF LogInv
<1>0. mem[s].index \in Nat
  BY SegmentFacts DEF TypeOK
<1>1. LogOf(s)
  BY DEF LogInv
<1>2. CASE s # t
  <2>1. mem'[s] = mem[s]
    BY <1>2 DEF Holds
  <2> QED BY <1>1, <2>1, LogSame DEF Moves
<1>3. CASE s = t
  <2>1. mem'[s].len = "full" /\ mem'[s].index = mem[s].index + 1
        /\ mem'[s].entries = mem[s].entries
    BY <1>3 DEF Holds
  <2>2. ASSUME NEW i \in Entries, i < mem'[s].index
        PROVE  \/ i \in mem'[s].entries
               \/ \E q \in Procs : /\ proc'[q].pc = "fill" /\ proc'[q].seg = s
                                   /\ proc'[q].entry = i
    <3>1. i \in Int
      BY SessionAssumption DEF Entries
    <3>2. CASE i = mem[s].index
      BY <1>3, <3>2 DEF Moves, Becomes
    <3>3. CASE i # mem[s].index
      <4>1. i < mem[s].index
        BY <1>0, <2>1, <2>2, <3>1, <3>3
      <4> QED BY <1>1, <2>1, <4>1 DEF LogOf, Moves, Becomes
    <3> QED BY <3>2, <3>3
  <2>3. Cardinality(Takers(s)') = Cardinality(Takers(s)) - 1
    <3>1. Takers(s)' = Takers(s) \ {p} /\ p \in Takers(s)
      BY <1>3 DEF Takers, Moves, Becomes
    <3> QED BY <3>1, TakersFinite, FS_RemoveElement
  <2>4. mem'[s].index + Cardinality(Takers(s)') < LogNum + Cardinality(Procs)
    BY <1>0, <1>1, <2>1, <2>3, TakersFinite, TakersFiniteNext, SessionAssumption DEF LogOf
  <2> QED BY <2>1, <2>2, <2>4 DEF LogOf
<1> QED BY <1>2, <1>3

\* A step of p that writes t, but not its log.
LEMMA LogBeside ==
  ASSUME TypeOK, LogInv, NEW p \in Procs, proc[p].pc # "fill",
         NEW t \in Segs, NEW len, NEW hdr, NEW hsem, NEW pid, NEW table,
         Holds(t, len, hdr, hsem, pid, table, mem[t].index, mem[t].entries),
         len \in {mem[t].len, "full"},
         NEW pc, NEW obj, NEW seg, NEW sem, NEW role,
         Becomes(p, pc, obj, seg, sem, role), pc # "take"
  PROVE  LogInv'
<1> SUFFICES ASSUME NEW s \in Segs PROVE LogOf(s)'
  BY DEF LogInv
<1>1. /\ mem'[s].index = mem[s].index /\ mem'[s].entries = mem[s].entries
      /\ mem'[s].len \in {mem[s].len, "full"}
  BY DEF Holds
<1> QED BY <1>1, LogSame DEF LogInv

\* A step of p that empties the log of t.
LEMMA LogEmptied ==
  ASSUME TypeOK, LogInv, NEW p \in Procs, proc[p].pc # "fill",
         NEW t \in Segs, mem'[t].index = 0, \A s \in Segs : s # t => mem'[s] = mem[s],
         NEW pc, NEW obj, NEW seg, NEW sem, NEW role,
         Becomes(p, pc, obj, seg, sem, role), pc # "take"
  PROVE  LogInv'
<1> SUFFICES ASSUME NEW s \in Segs PROVE LogOf(s)'
  BY DEF LogInv
<1>1. CASE s = t
  BY <1>1, LogReset
<1>2. CASE s # t
  BY <1>2, LogSame DEF LogInv
<1> QED BY <1>1, <1>2

\* What the provers need to know of a process before it moves.
LEMMA Standing ==
  ASSUME TypeOK, WellPlaced, NEW p \in Procs
  PROVE  /\ proc \in [Procs -> Process]
         /\ mem \in [Segs -> Segment]
         /\ lapses \in Nat
         /\ backend \in {"mmap", "shm"}
         /\ 1 \in Segs
         /\ Segs = 1 .. MaxSegs
         /\ 1 \in 0 .. MaxSegs
         /\ MaxSegs \in Nat \ {0}
         /\ key \in 0 .. MaxSegs /\ made \in 0 .. MaxSegs /\ semKey \in 0 .. MaxSegs
         /\ proc[p].seg \in 0 .. MaxSegs
         /\ proc[p].seg # 0 => proc[p].seg \in Segs
         /\ Placed(proc[p].pc, proc[p].obj, proc[p].seg, proc[p].role)
<1>1. proc[p].seg \in 0 .. MaxSegs
  <2>1. proc[p] \in Process
    BY DEF TypeOK
  <2> QED BY <2>1 DEF Process
<1> QED BY <1>1, SegOfProcess, SessionAssumption DEF TypeOK, Segs, WellPlaced

LEMMA LogStep ==
  ASSUME TypeOK, WellPlaced, LogInv, NEW p \in Procs, Calls(p) \/ Steps(p)
  PROVE  LogInv'
<1>0. /\ proc \in [Procs -> Process]
      /\ mem \in [Segs -> Segment]
      /\ lapses \in Nat
      /\ 1 \in Segs /\ MaxSegs \in Nat \ {0} /\ Segs = 1 .. MaxSegs
      /\ key \in 0 .. MaxSegs /\ made \in 0 .. MaxSegs /\ semKey \in 0 .. MaxSegs
      /\ proc[p].seg \in 0 .. MaxSegs
      /\ proc[p].seg # 0 => proc[p].seg \in Segs
      /\ proc[p].pc \in {"sem", "head", "data_size", "clear", "take", "fill", "rmsem"}
           => proc[p].seg # 0
  BY Standing DEF Placed
<1>1. ASSUME NEW l \in Points, Goto(p, l)
      PROVE  Becomes(p, l, proc[p].obj, proc[p].seg, proc[p].sem, proc[p].role)
  BY <1>0, <1>1, GotoMoves DEF Moves
<1>2. CASE init(p)
  <2>1. proc[p].pc # "fill" /\ UNCHANGED mem
    BY <1>2 DEF init, Ready, At, SharedUnchanged
  <2> QED BY <1>0, <1>2, <2>1, InitMoves, LogUntouched DEF Moves
<1>3. CASE create_master(p)
  <2>1. proc[p].pc = "idle" /\ UNCHANGED mem
    BY <1>3 DEF create_master, Ready, At, SharedUnchanged
  <2> QED BY <1>0, <1>3, <2>1, CreateMasterMoves, LogUntouched DEF Moves
<1>4. CASE create_asset_controller(p) \/ get_simevent_controller(p)
  <2>1. proc[p].pc # "fill" /\ UNCHANGED mem
    BY <1>4 DEF create_asset_controller, get_simevent_controller, Ready, At, SharedUnchanged
  <2> QED BY <1>0, <1>4, <2>1, ControllerMoves, LogUntouched DEF Moves
<1>5. CASE asset_register(p) \/ asset_unregister(p)
  <2>1. proc[p].pc # "fill" /\ proc[p].seg \in Segs /\ Goto(p, "log")
    BY <1>0, <1>5 DEF asset_register, asset_unregister, Ready, At
  <2>2. Becomes(p, "log", proc[p].obj, proc[p].seg, proc[p].sem, proc[p].role)
    BY <1>1, <2>1 DEF Points
  <2> QED BY <1>0, <1>5, <2>1, <2>2, RegisterHolds, UnregisterHolds, LogBeside
<1>6. CASE destroy(p)
  <2>1. proc[p].pc # "fill" /\ UNCHANGED mem
    BY <1>6 DEF destroy, Ready, At
  <2> QED BY <1>0, <1>6, <2>1, DestroyMoves, LogUntouched DEF Moves
<1>7. CASE CreateStat(p) \/ LoadOpen(p)
  <2>1. proc[p].pc # "fill" /\ UNCHANGED mem
    BY <1>7 DEF CreateStat, LoadOpen, At, SharedUnchanged
  <2>2. \E l \in {"trunc", "map", "idle", "check"} :
          Becomes(p, l, proc[p].obj, proc[p].seg, proc[p].sem, proc[p].role)
    BY <1>0, <1>1, <1>7, LoadFailsMoves DEF CreateStat, LoadOpen, Points, Moves
  <2> QED BY <2>1, <2>2, LogUntouched
<1>8. CASE CreateTrunc(p)
  <2>1. proc[p].pc # "fill" /\ Goto(p, "size") /\ mem' = [mem EXCEPT ![1] = Zeroed("empty")]
    BY <1>8 DEF CreateTrunc, At
  <2>2. mem'[1].index = 0 /\ \A s \in Segs : s # 1 => mem'[s] = mem[s]
    BY <1>0, <2>1, ZeroedFacts
  <2>3. Becomes(p, "size", proc[p].obj, proc[p].seg, proc[p].sem, proc[p].role)
    BY <1>1, <2>1 DEF Points
  <2> QED BY <1>0, <2>1, <2>2, <2>3, LogEmptied
<1>9. CASE CreateSize(p)
  <2>1. proc[p].pc # "fill" /\ Goto(p, "map")
    BY <1>9 DEF CreateSize, At
  <2>2. Becomes(p, "map", proc[p].obj, proc[p].seg, proc[p].sem, proc[p].role)
    BY <1>1, <2>1 DEF Points
  <2> QED BY <1>0, <1>9, <2>1, <2>2, SizeHolds, LogBeside
<1>10. CASE CreateMap(p)
  <2>1. proc[p].pc # "fill" /\ UNCHANGED mem
        /\ proc' = [proc EXCEPT ![p].seg = 1, ![p].pc = "sem"]
    BY <1>10 DEF CreateMap, At, SharedUnchanged
  <2>2. 1 \in 0 .. MaxSegs
    BY <1>0
  <2> QED BY <1>0, <2>1, <2>2, SegMoves, LogUntouched
<1>11. CASE ShmGet(p)
  <2>1. proc[p].pc # "fill"
    BY <1>11 DEF ShmGet, At
  <2>2. CASE key # 0
    BY <1>0, <1>11, <2>1, <2>2, SegMoves, LogUntouched DEF ShmGet
  <2>3. CASE key = 0
    <3> DEFINE t == made + 1
    <3>1. t \in Segs /\ t \in 0 .. MaxSegs /\ mem' = [mem EXCEPT ![t] = Zeroed("full")]
          /\ proc' = [proc EXCEPT ![p].seg = t, ![p].pc = "sem"]
      BY <1>0, <1>11, <2>3 DEF ShmGet
    <3> HIDE DEF t
    <3>2. mem'[t].index = 0 /\ \A s \in Segs : s # t => mem'[s] = mem[s]
      BY <1>0, <3>1, ZeroedFacts
    <3>3. Becomes(p, "sem", proc[p].obj, t, proc[p].sem, proc[p].role)
      BY <1>0, <3>1, SegMoves
    <3> QED BY <2>1, <3>1, <3>2, <3>3, LogEmptied
  <2> QED BY <2>2, <2>3
<1>12. CASE SemCreate(p)
  <2>1. PICK s \in 0 .. MaxSegs : proc' = [proc EXCEPT ![p].sem = s, ![p].pc = "head"]
    BY <1>0, <1>12 DEF SemCreate
  <2>2. proc[p].pc # "fill" /\ UNCHANGED mem
    BY <1>12 DEF SemCreate, At
  <2> QED BY <1>0, <2>1, <2>2, SemMoves, LogUntouched
<1>13. CASE WriteHead(p) \/ WriteDataSize(p)
  <2>1. proc[p].pc # "fill" /\ proc[p].seg \in Segs
    BY <1>0, <1>13 DEF WriteHead, WriteDataSize, At
  <2>2. PICK l \in {"data_size", "clear"} :
          Becomes(p, l, proc[p].obj, proc[p].seg, proc[p].sem, proc[p].role)
    BY <1>1, <1>13 DEF WriteHead, WriteDataSize, Points
  <2>3. PICK t \in Segs : t = proc[p].seg
    BY <2>1
  <2>4. \E h, hsem : Holds(t, mem[t].len, h, hsem, mem[t].pid, mem[t].table,
                          mem[t].index, mem[t].entries)
    <3>1. CASE WriteHead(p)
      BY <1>0, <2>3, <3>1, HeadHolds
    <3>2. CASE WriteDataSize(p)
      BY <1>0, <2>3, <3>2, DataSizeHolds
    <3> QED BY <1>13, <3>1, <3>2
  <2>5. l # "take"
    BY <2>2
  <2> QED BY <2>1, <2>2, <2>4, <2>5, LogBeside
<1>14. CASE Clear(p)
  <2>1. proc[p].pc # "fill" /\ proc[p].seg \in Segs
    BY <1>0, <1>14 DEF Clear, At
  <2>2. mem'[proc[p].seg].index = 0 /\ \A s \in Segs : s # proc[p].seg => mem'[s] = mem[s]
    BY <1>0, <1>14, <2>1, ClearHolds DEF Holds
  <2> QED BY <1>0, <1>14, <2>1, <2>2, ClearMoves, LogEmptied
<1>15. CASE ShmLoad(p)
  <2>1. proc[p].pc # "fill" /\ UNCHANGED mem
    BY <1>15 DEF ShmLoad, At, SharedUnchanged
  <2>2. Moves(p, "idle") \/ Becomes(p, "log", proc[p].obj, key, mem[key].sem, proc[p].role)
    <3>1. key # 0 => key \in Segs
      BY <1>0
    <3> QED BY <1>0, <1>15, <3>1, LoadFailsMoves, LoadedMoves, SegmentFacts DEF ShmLoad
  <2> QED BY <2>1, <2>2, LogUntouched DEF Moves
<1>16. CASE LoadCheck(p)
  <2>1. proc[p].pc # "fill" /\ UNCHANGED mem
    BY <1>16 DEF LoadCheck, At, SharedUnchanged
  <2>2. Moves(p, "idle") \/ Becomes(p, "log", proc[p].obj, 1, mem[1].sem, proc[p].role)
    <3>1. 1 \in 0 .. MaxSegs
      BY <1>0
    <3> QED BY <1>0, <1>16, <3>1, LoadFailsMoves, LoadedMoves, SegmentFacts DEF LoadCheck
  <2> QED BY <2>1, <2>2, LogUntouched DEF Moves
<1>17. CASE LogCheck(p)
  <2>1. proc[p].pc = "log" /\ UNCHANGED mem
    BY <1>17 DEF LogCheck, At, SharedUnchanged
  <2>2. CASE \E l \in {"null", "log", "idle"} : Moves(p, l)
    BY <2>1, <2>2, LogUntouched DEF Moves
  <2>3. CASE proc[p].seg # 0 /\ ~(Data(p).index >= LogNum) /\ Moves(p, "take")
    BY <1>0, <2>1, <2>3, LogRoom DEF Data
  <2> QED BY <1>0, <1>17, <2>2, <2>3, LogCheckMoves
<1>18. CASE LogTake(p)
  <2>1. proc[p].pc = "take" /\ proc[p].seg \in Segs /\ mem[proc[p].seg].len # "empty"
    BY <1>0, <1>18 DEF LogTake, At, Cut
  <2>2. mem[proc[p].seg].len = "full" /\ Data(p).index \in Nat
    BY <1>0, <2>1, SegmentFacts DEF Data
  <2>3. Moves(p, "fill") /\ proc'[p].entry = mem[proc[p].seg].index
    BY <1>0, <1>18, <2>2, LogTakeMoves DEF Data
  <2> QED BY <1>0, <1>18, <2>1, <2>2, <2>3, TakeHolds, LogTaken
<1>19. CASE LogFill(p)
  <2>1. proc[p].pc = "fill" /\ proc[p].seg \in Segs
    BY <1>0, <1>19 DEF LogFill, At
  <2>2. PICK l \in {"log", "idle"} : Moves(p, l)
    BY <1>0, <1>19, LogFillMoves
  <2> SUFFICES ASSUME NEW s \in Segs PROVE LogOf(s)'
    BY DEF LogInv
  <2>3. /\ mem'[s].index = mem[s].index /\ mem'[s].len = mem[s].len
        /\ mem[s].entries \subseteq mem'[s].entries
        /\ proc[p].seg = s => {proc[p].entry} \cap Entries \subseteq mem'[s].entries
    BY <1>0, <1>19, <2>1, FillHolds DEF Holds
  <2> QED BY <2>2, <2>3, LogSame DEF LogInv, Moves
<1>20. CASE DestroySem(p)
  <2>1. proc[p].pc # "fill" /\ UNCHANGED mem
    BY <1>20 DEF DestroySem, At
  <2> QED BY <1>0, <1>20, <2>1, DestroySemMoves, LogUntouched
<1>21. CASE LockOverflows(p)
  <2>1. proc[p].pc # "fill" /\ UNCHANGED mem /\ Goto(p, "overflow")
    BY <1>21 DEF LockOverflows, Locking, Ready, At
  <2> QED BY <1>1, <2>1, LogUntouched DEF Points
<1>22. CASE BusError(p)
  <2>1. UNCHANGED mem /\ Goto(p, "bus")
    BY <1>22 DEF BusError
  <2>2. proc[p].pc = "fill" => mem[proc[p].seg].len = "empty"
    BY <1>22 DEF BusError, Cut
  <2>3. Becomes(p, "bus", proc[p].obj, proc[p].seg, proc[p].sem, proc[p].role)
    BY <1>1, <2>1 DEF Points
  <2> SUFFICES ASSUME NEW s \in Segs PROVE LogOf(s)'
    BY DEF LogInv
  <2>4. proc[p].pc = "fill" /\ proc[p].seg = s => mem[s].index = 0
    BY <2>2 DEF LogInv, LogOf
  <2> QED BY <2>1, <2>3, <2>4, LogSame DEF LogInv
<1> QED BY <1>2, <1>3, <1>4, <1>5, <1>6, <1>7, <1>8, <1>9, <1>10, <1>11, <1>12, <1>13,
           <1>14, <1>15, <1>16, <1>17, <1>18, <1>19, <1>20, <1>21, <1>22
        DEF Calls, Steps, create

-----------------------------------------------------------------------------
(* The session while callers keep the rules *)

Sane == SegmentsInUse /\ MembersHaveMaster /\ RulesInv

\* The header and the owner of every segment stay, and what names them.
Kept ==
  /\ UNCHANGED <<backend, key, made, semKey, sems, alive>>
  /\ mem' \in [Segs -> Segment]
  /\ \A s \in Segs : /\ mem'[s].len = mem[s].len /\ mem'[s].hdr = mem[s].hdr
                     /\ mem'[s].sem = mem[s].sem /\ mem'[s].pid = mem[s].pid

\* A segment that a key or a pointer names is one of Segs.
LEMMA Named ==
  ASSUME TypeOK
  PROVE  /\ 1 \in Segs
         /\ key # 0 => key \in Segs
         /\ \A q \in Procs : proc[q].seg # 0 => proc[q].seg \in Segs
         /\ alive \subseteq Procs
         /\ backend \in {"mmap", "shm"}
<1>1. \A q \in Procs : proc[q].seg \in 0 .. MaxSegs
  <2>1. \A q \in Procs : proc[q] \in Process
    BY DEF TypeOK
  <2> QED BY <2>1 DEF Process
<1> QED BY <1>1, SessionAssumption DEF TypeOK, Segs

\* A step in which p moves within the library, and nothing else but tables and
\* logs changes.
LEMMA TalkIsSane ==
  ASSUME TypeOK, WellPlaced, Sane, NEW p \in alive, Kept,
         NEW l, NEW obj, Becomes(p, l, obj, proc[p].seg, proc[p].sem, proc[p].role),
         lapses' = 0 => lapses = 0,
         members' # {} => Up,
         lapses' = 0 /\ key # 0 => members' \subseteq mem'[key].table,
         lapses' = 0 => l \notin {"null", "bus"} /\ (l = "log" => proc[p].seg # 0),
         l \notin {"size", "sem", "head", "data_size", "clear", "rmsem"},
         l = "trunc" => key = 0 \/ Cut(1),
         l \in {"map", "check"} => key = 1 /\ ~Cut(1)
  PROVE  Sane'
<1>0. p \in Procs /\ 1 \in Segs /\ alive \subseteq Procs /\ (key # 0 => key \in Segs)
      /\ \A q \in Procs : proc[q].seg # 0 => proc[q].seg \in Segs
  BY Named
<1>1. \A q \in Procs : /\ proc'[q].seg = proc[q].seg /\ proc'[q].sem = proc[q].sem
                       /\ proc'[q].role = proc[q].role
                       /\ proc'[q].pc = proc[q].pc \/ (q = p /\ proc'[q].pc = l)
  BY <1>0 DEF Becomes
<1>2. SegmentsInUse'
  BY <1>0, <1>1 DEF Sane, SegmentsInUse, Kept
<1>3. MembersHaveMaster'
  BY <1>0, <1>1 DEF MembersHaveMaster, Up, Kept
<1>4. ASSUME lapses' = 0
      PROVE  /\ OneMaster' /\ NobodyLost' /\ FileIsWhole' /\ MasterHasSegment'
             /\ NoFalseMaster' /\ RegistrationKept'
  <2>1. /\ OneMaster /\ NobodyLost /\ FileIsWhole /\ MasterHasSegment
        /\ NoFalseMaster /\ RegistrationKept
    BY <1>4 DEF Sane, RulesInv
  <2>2. OneMaster'
    BY <1>0, <1>1, <2>1 DEF OneMaster, Kept
  <2>3. NobodyLost'
    BY <1>1, <1>4, <2>1 DEF NobodyLost
  <2>4. FileIsWhole'
    BY <1>0, <1>1, <2>1 DEF FileIsWhole, Kept, Cut, Exclusive
  <2>5. MasterHasSegment'
    BY <1>0, <1>1, <2>1 DEF MasterHasSegment, Kept, Exclusive
  <2>6. NoFalseMaster'
    BY <1>0, <1>1, <2>1 DEF NoFalseMaster, Kept
  <2>7. RegistrationKept'
    BY <1>4 DEF RegistrationKept, Kept
  <2> QED BY <2>2, <2>3, <2>4, <2>5, <2>6, <2>7
<1> QED BY <1>2, <1>3, <1>4 DEF Sane, RulesInv

\* p gets the data of a master.
LEMMA LoadIsSane ==
  ASSUME TypeOK, WellPlaced, Sane, NEW p \in alive, Kept, UNCHANGED <<mem, members, lapses>>,
         proc[p].role = "none", key # 0,
         Becomes(p, "log", proc[p].obj, key, mem[key].sem, proc[p].role),
         backend = "mmap" => mem[1].hdr = "full" /\ ~Cut(1)
  PROVE  Sane'
<1>0. p \in Procs /\ 1 \in Segs /\ alive \subseteq Procs /\ key \in Segs
      /\ backend \in {"mmap", "shm"}
      /\ \A q \in Procs : proc[q].seg # 0 => proc[q].seg \in Segs
  BY Named
<1>1. \A q \in Procs : /\ proc'[q].role = proc[q].role
                       /\ proc'[q] = proc[q] \/ (q = p /\ proc'[q].pc = "log" /\
                                                 proc'[q].seg = key /\ proc'[q].sem = mem[key].sem)
  BY <1>0 DEF Becomes
<1>2. SegmentsInUse'
  BY <1>0, <1>1 DEF Sane, SegmentsInUse, Kept
<1>3. MembersHaveMaster'
  BY <1>0, <1>1 DEF Sane, MembersHaveMaster, Up, Kept
<1>4. ASSUME lapses' = 0
      PROVE  /\ OneMaster' /\ NobodyLost' /\ FileIsWhole' /\ MasterHasSegment'
             /\ NoFalseMaster' /\ RegistrationKept'
  <2>1. /\ OneMaster /\ NobodyLost /\ FileIsWhole /\ MasterHasSegment
        /\ NoFalseMaster /\ RegistrationKept /\ (backend = "mmap" => key = 1)
    BY <1>4 DEF Sane, RulesInv, SegmentsInUse
  <2>2. OneMaster'
    BY <1>0, <1>1, <2>1 DEF OneMaster, Kept
  <2>3. NobodyLost'
    BY <1>1, <2>1 DEF NobodyLost
  <2>4. FileIsWhole'
    BY <1>0, <1>1, <2>1 DEF FileIsWhole, Kept, Cut, Exclusive
  <2>5. MasterHasSegment'
    BY <1>0, <1>1, <2>1 DEF MasterHasSegment, Kept, Exclusive
  <2>6. NoFalseMaster'
    BY <1>0, <1>1, <2>1 DEF NoFalseMaster, Kept
  <2>7. RegistrationKept'
    BY <1>4, <2>1 DEF RegistrationKept, Kept
  <2> QED BY <2>2, <2>3, <2>4, <2>5, <2>6, <2>7
<1> QED BY <1>2, <1>3, <1>4 DEF Sane, RulesInv

\* p starts to build a session: it is the only master, unless it broke a rule.
LEMMA StartIsSane ==
  ASSUME TypeOK, WellPlaced, Sane, NEW p \in alive, Kept, UNCHANGED mem,
         proc[p].role = "none", proc[p].seg = 0, members' = {},
         NEW l \in {"stat", "shmget"},
         Becomes(p, l, TRUE, proc[p].seg, proc[p].sem, "creating"),
         lapses' = 0 => lapses = 0 /\ ~MasterElsewhere(p)
  PROVE  Sane'
<1>0. p \in Procs /\ 1 \in Segs /\ alive \subseteq Procs
  BY Named
<1>1. \A q \in Procs : /\ proc'[q].seg = proc[q].seg /\ proc'[q].sem = proc[q].sem
                       /\ proc'[q] = proc[q] \/ (q = p /\ proc'[q].pc = l /\
                                                 proc'[q].role = "creating")
  BY <1>0 DEF Becomes
<1>2. SegmentsInUse'
  BY <1>0, <1>1 DEF Sane, SegmentsInUse, Kept
<1>3. MembersHaveMaster'
  BY DEF MembersHaveMaster
<1>4. ASSUME lapses' = 0
      PROVE  /\ OneMaster' /\ NobodyLost' /\ FileIsWhole' /\ MasterHasSegment'
             /\ NoFalseMaster' /\ RegistrationKept'
  <2>1. /\ OneMaster /\ NobodyLost /\ FileIsWhole /\ MasterHasSegment
        /\ NoFalseMaster /\ RegistrationKept
        /\ \A q \in alive : q # p => proc[q].role = "none"
    BY <1>4 DEF Sane, RulesInv, MasterElsewhere
  <2>2. OneMaster'
    BY <1>0, <1>1, <2>1 DEF OneMaster, Kept
  <2>3. NobodyLost'
    BY <1>1, <2>1 DEF NobodyLost
  <2>4. FileIsWhole'
    BY <1>0, <1>1, <2>1 DEF FileIsWhole, Kept, Cut, Exclusive
  <2>5. MasterHasSegment'
    BY <1>0, <1>1, <2>1 DEF MasterHasSegment, Kept, Exclusive
  <2>6. NoFalseMaster'
    BY <1>0, <1>1, <2>1 DEF NoFalseMaster, Kept
  <2>7. RegistrationKept'
    BY DEF RegistrationKept
  <2> QED BY <2>2, <2>3, <2>4, <2>5, <2>6, <2>7
<1> QED BY <1>2, <1>3, <1>4 DEF Sane, RulesInv

\* While p builds a session it is alone, and nobody is registered.
LEMMA BuilderIsAlone ==
  ASSUME TypeOK, WellPlaced, Sane, lapses = 0, NEW p \in alive, proc[p].pc \in Building
  PROVE  /\ proc[p].role = "creating"
         /\ \A q \in alive : q # p => proc[q].role = "none" /\ proc[q].pc \notin Building
         /\ members = {}
         /\ OneMaster /\ NobodyLost /\ FileIsWhole /\ MasterHasSegment
         /\ NoFalseMaster /\ RegistrationKept
<1>0. alive \subseteq Procs
  BY DEF TypeOK
<1>1. /\ OneMaster /\ NobodyLost /\ FileIsWhole /\ MasterHasSegment
      /\ NoFalseMaster /\ RegistrationKept /\ MembersHaveMaster
  BY DEF Sane, RulesInv
<1>2. \A q \in Procs : proc[q].pc \in Building => proc[q].role = "creating"
  BY DEF WellPlaced, Placed
<1> QED BY <1>0, <1>1, <1>2 DEF OneMaster, MembersHaveMaster, Up

\* open(O_TRUNC) cuts a file that nobody has mapped or is about to map.
LEMMA TruncIsSane ==
  ASSUME TypeOK, WellPlaced, Sane, NEW p \in Procs, CreateTrunc(p)
  PROVE  Sane'
<1>0. 1 \in Segs /\ alive \subseteq Procs /\ p \in alive /\ proc[p].pc = "trunc"
      /\ proc[p].pc \in Building /\ backend = "mmap"
      /\ proc \in [Procs -> Process] /\ mem \in [Segs -> Segment]
  BY Named, Standing DEF CreateTrunc, At, Building, Placed
<1>1. /\ key' = 1 /\ mem' = [mem EXCEPT ![1] = Zeroed("empty")] /\ Moves(p, "size")
      /\ UNCHANGED <<backend, made, semKey, sems, alive, members, lapses>>
  BY <1>0, GotoMoves DEF CreateTrunc, Points
<1>2. \A q \in Procs : /\ proc'[q].seg = proc[q].seg /\ proc'[q].sem = proc[q].sem
                       /\ proc'[q].role = proc[q].role
                       /\ proc'[q].pc = proc[q].pc \/ (q = p /\ proc'[q].pc = "size")
  BY <1>1 DEF Moves, Becomes
<1>3. mem'[1].len = "empty" /\ mem'[1].hdr = "zero"
  BY <1>0, <1>1, ZeroedFacts
<1>4. SegmentsInUse' /\ MembersHaveMaster'
  BY <1>0, <1>1, <1>2 DEF Sane, SegmentsInUse, MembersHaveMaster, Up
<1>5. ASSUME lapses' = 0
      PROVE  /\ OneMaster' /\ NobodyLost' /\ FileIsWhole' /\ MasterHasSegment'
             /\ NoFalseMaster' /\ RegistrationKept'
  <2>1. /\ proc[p].role = "creating"
        /\ \A q \in alive : q # p => proc[q].role = "none" /\ proc[q].pc \notin Building
        /\ members = {}
        /\ OneMaster /\ NobodyLost /\ FileIsWhole /\ MasterHasSegment
        /\ NoFalseMaster /\ RegistrationKept
    BY <1>0, <1>1, <1>5, BuilderIsAlone
  <2>2. \A q \in Procs : proc[q].seg = 0 /\ proc[q].pc \notin {"map", "check", "head"}
    <3>1. key = 0 \/ Cut(1)
      BY <1>0, <2>1 DEF FileIsWhole
    <3>2. \A q \in Procs : proc[q].seg = 0 /\ proc[q].pc \notin {"map", "check"}
      BY <1>0, <2>1, <3>1 DEF FileIsWhole
    <3> QED BY <3>2 DEF WellPlaced, Placed
  <2>3. OneMaster' /\ NobodyLost'
    BY <1>0, <1>1, <1>2, <2>1 DEF OneMaster, NobodyLost
  <2>4. FileIsWhole'
    <3>1. \A q \in Procs : proc'[q].seg = 0 /\ proc'[q].pc \notin {"map", "check", "head"}
      BY <1>2, <2>2
    <3>2. \A q \in alive' : proc'[q].pc # "trunc"
      BY <1>0, <1>1, <1>2, <2>1 DEF Moves, Becomes, Building
    <3> QED BY <1>1, <1>3, <3>1, <3>2 DEF FileIsWhole
  <2>5. MasterHasSegment' /\ NoFalseMaster'
    BY <1>0, <1>1, <1>2, <2>1 DEF MasterHasSegment, NoFalseMaster, Building
  <2>6. RegistrationKept'
    BY <1>1, <2>1 DEF RegistrationKept
  <2> QED BY <2>3, <2>4, <2>5, <2>6
<1> QED BY <1>4, <1>5 DEF Sane, RulesInv

LEMMA SizeIsSane ==
  ASSUME TypeOK, WellPlaced, Sane, NEW p \in Procs, CreateSize(p)
  PROVE  Sane'
<1>0. 1 \in Segs /\ alive \subseteq Procs /\ p \in alive /\ proc[p].pc = "size"
      /\ proc[p].pc \in Building /\ backend = "mmap"
      /\ proc \in [Procs -> Process] /\ mem \in [Segs -> Segment]
  BY Named, Standing DEF CreateSize, At, Building, Placed
<1>1. /\ Holds(1, "full", mem[1].hdr, mem[1].sem, mem[1].pid,
               mem[1].table, mem[1].index, mem[1].entries)
      /\ Moves(p, "map")
      /\ UNCHANGED <<backend, key, made, semKey, sems, alive, members, lapses>>
  BY <1>0, GotoMoves, SizeHolds DEF CreateSize, Points
<1>2. \A q \in Procs : /\ proc'[q].seg = proc[q].seg /\ proc'[q].sem = proc[q].sem
                       /\ proc'[q].role = proc[q].role
                       /\ proc'[q].pc = proc[q].pc \/ (q = p /\ proc'[q].pc = "map")
  BY <1>1 DEF Moves, Becomes
<1>3. mem'[1].len = "full" /\ mem'[1].hdr = mem[1].hdr /\ mem'[1].sem = mem[1].sem
  BY <1>1 DEF Holds
<1>4. SegmentsInUse' /\ MembersHaveMaster'
  BY <1>0, <1>1, <1>2 DEF Sane, SegmentsInUse, MembersHaveMaster, Up
<1>5. ASSUME lapses' = 0
      PROVE  /\ OneMaster' /\ NobodyLost' /\ FileIsWhole' /\ MasterHasSegment'
             /\ NoFalseMaster' /\ RegistrationKept'
  <2>1. /\ proc[p].role = "creating"
        /\ \A q \in alive : q # p => proc[q].role = "none" /\ proc[q].pc \notin Building
        /\ members = {}
        /\ OneMaster /\ NobodyLost /\ FileIsWhole /\ MasterHasSegment
        /\ NoFalseMaster /\ RegistrationKept
    BY <1>0, <1>1, <1>5, BuilderIsAlone
  <2>3. OneMaster' /\ NobodyLost'
    BY <1>0, <1>1, <1>2, <2>1 DEF OneMaster, NobodyLost
  <2>4. FileIsWhole'
    BY <1>0, <1>1, <1>2, <1>3, <2>1 DEF FileIsWhole, Cut, Exclusive, Building
  <2>5. MasterHasSegment' /\ NoFalseMaster'
    BY <1>0, <1>1, <1>2, <2>1 DEF MasterHasSegment, NoFalseMaster, Building
  <2>6. RegistrationKept'
    BY <1>1, <2>1 DEF RegistrationKept
  <2> QED BY <2>3, <2>4, <2>5, <2>6
<1> QED BY <1>4, <1>5 DEF Sane, RulesInv

LEMMA MapIsSane ==
  ASSUME TypeOK, WellPlaced, Sane, NEW p \in Procs, CreateMap(p)
  PROVE  Sane'
<1>0. 1 \in Segs /\ 1 \in 0 .. MaxSegs /\ alive \subseteq Procs /\ p \in alive
      /\ proc[p].pc = "map"
      /\ proc[p].pc \in Building /\ backend = "mmap"
      /\ proc \in [Procs -> Process] /\ mem \in [Segs -> Segment]
  BY Named, Standing DEF CreateMap, At, Building, Placed
<1>1. /\ Becomes(p, "sem", proc[p].obj, 1, proc[p].sem, proc[p].role)
      /\ UNCHANGED <<backend, key, made, mem, semKey, sems, alive, members, lapses>>
  BY <1>0, SegMoves DEF CreateMap, SharedUnchanged
<1>2. \A q \in Procs : /\ proc'[q].sem = proc[q].sem /\ proc'[q].role = proc[q].role
                       /\ proc'[q] = proc[q] \/ (q = p /\ proc'[q].pc = "sem" /\
                                                 proc'[q].seg = 1)
  BY <1>1 DEF Becomes
<1>4. SegmentsInUse' /\ MembersHaveMaster'
  BY <1>0, <1>1, <1>2 DEF Sane, SegmentsInUse, MembersHaveMaster, Up
<1>5. ASSUME lapses' = 0
      PROVE  /\ OneMaster' /\ NobodyLost' /\ FileIsWhole' /\ MasterHasSegment'
             /\ NoFalseMaster' /\ RegistrationKept'
  <2>1. /\ proc[p].role = "creating"
        /\ \A q \in alive : q # p => proc[q].role = "none" /\ proc[q].pc \notin Building
        /\ members = {}
        /\ OneMaster /\ NobodyLost /\ FileIsWhole /\ MasterHasSegment
        /\ NoFalseMaster /\ RegistrationKept
    BY <1>0, <1>1, <1>5, BuilderIsAlone
  <2>3. OneMaster' /\ NobodyLost'
    BY <1>0, <1>1, <1>2, <2>1 DEF OneMaster, NobodyLost
  <2>4. FileIsWhole'
    BY <1>0, <1>1, <1>2, <2>1 DEF FileIsWhole, Cut, Exclusive
  <2>5. MasterHasSegment' /\ NoFalseMaster'
    BY <1>0, <1>1, <1>2, <2>1 DEF MasterHasSegment, NoFalseMaster, FileIsWhole, Building
  <2>6. RegistrationKept'
    BY <1>1, <2>1 DEF RegistrationKept
  <2> QED BY <2>3, <2>4, <2>5, <2>6
<1> QED BY <1>4, <1>5 DEF Sane, RulesInv

LEMMA ShmGetIsSane ==
  ASSUME TypeOK, WellPlaced, Sane, NEW p \in Procs, ShmGet(p)
  PROVE  Sane'
<1>0. Segs = 1 .. MaxSegs /\ MaxSegs \in Nat \ {0} /\ alive \subseteq Procs /\ p \in alive
      /\ proc[p].pc = "shmget"
      /\ proc[p].pc \in Building /\ backend = "shm"
      /\ proc \in [Procs -> Process] /\ mem \in [Segs -> Segment]
      /\ key \in 0 .. MaxSegs /\ made \in 0 .. MaxSegs
      /\ \A q \in Procs : proc[q].seg # 0 => proc[q].seg \in Segs
  BY Named, Standing DEF ShmGet, At, Building, Placed
<1>1. PICK s \in Segs :
        /\ key' = s /\ Becomes(p, "sem", proc[p].obj, s, proc[p].sem, proc[p].role)
        /\ s <= made' /\ made <= made'
        /\ \A t \in Segs : t <= made => mem'[t] = mem[t]
        /\ \A t \in Segs : mem'[t].len = "full"
        /\ mem'[s].pid = NoProc \/ (key # 0 /\ s = key /\ mem'[s] = mem[s])
  <2>0. key <= made /\ \A t \in Segs : mem[t].len = "full"
    BY <1>0 DEF Sane, SegmentsInUse
  <2>1. CASE key # 0
    <3>1. key \in Segs
      BY <1>0, <2>1
    <3>2. UNCHANGED <<key, made, mem>>
          /\ Becomes(p, "sem", proc[p].obj, key, proc[p].sem, proc[p].role)
      BY <1>0, <2>1, SegMoves DEF ShmGet
    <3> QED BY <1>0, <2>0, <2>1, <3>1, <3>2
  <2>2. CASE key = 0
    <3> DEFINE t == made + 1
    <3>1. t \in Segs /\ t \in 0 .. MaxSegs /\ made' = t /\ key' = t
          /\ mem' = [mem EXCEPT ![t] = Zeroed("full")]
          /\ proc' = [proc EXCEPT ![p].seg = t, ![p].pc = "sem"]
          /\ made < t
      BY <1>0, <2>2 DEF ShmGet
    <3> HIDE DEF t
    <3>2. Becomes(p, "sem", proc[p].obj, t, proc[p].sem, proc[p].role)
      BY <1>0, <3>1, SegMoves
    <3>3. mem'[t] = Zeroed("full") /\ \A u \in Segs : u # t => mem'[u] = mem[u]
      BY <1>0, <3>1
    <3>4. mem'[t].len = "full" /\ mem'[t].pid = NoProc
      BY <3>3, ZeroedFacts
    <3>5. \A u \in Segs : u <= made => u # t
      BY <1>0, <3>1
    <3> QED BY <1>0, <2>0, <3>1, <3>2, <3>3, <3>4, <3>5
  <2> QED BY <2>1, <2>2
<1>2. UNCHANGED <<backend, semKey, sems, alive, members, lapses>>
  BY DEF ShmGet
<1>3. \A q \in Procs : /\ proc'[q].sem = proc[q].sem /\ proc'[q].role = proc[q].role
                       /\ proc'[q] = proc[q] \/ (q = p /\ proc'[q].pc = "sem" /\
                                                 proc'[q].seg = s)
  BY <1>1 DEF Becomes
<1>4. SegmentsInUse' /\ MembersHaveMaster'
  <2>1. \A q \in Procs : proc'[q].seg <= made'
    <3>1. \A q \in Procs : proc[q].seg <= made /\ proc[q].seg \in Int
      BY <1>0 DEF Sane, SegmentsInUse
    <3>2. made \in Int /\ made' \in Int
      BY <1>0 DEF ShmGet
    <3> QED BY <1>1, <1>3, <3>1, <3>2
  <2> QED BY <1>0, <1>1, <1>2, <1>3, <2>1 DEF Sane, SegmentsInUse, MembersHaveMaster, Up
<1>5. ASSUME lapses' = 0
      PROVE  /\ OneMaster' /\ NobodyLost' /\ FileIsWhole' /\ MasterHasSegment'
             /\ NoFalseMaster' /\ RegistrationKept'
  <2>1. /\ proc[p].role = "creating"
        /\ \A q \in alive : q # p => proc[q].role = "none" /\ proc[q].pc \notin Building
        /\ members = {}
        /\ OneMaster /\ NobodyLost /\ FileIsWhole /\ MasterHasSegment
        /\ NoFalseMaster /\ RegistrationKept
    BY <1>0, <1>2, <1>5, BuilderIsAlone
  <2>2. OneMaster' /\ NobodyLost' /\ FileIsWhole'
    BY <1>0, <1>2, <1>3, <2>1 DEF OneMaster, NobodyLost, FileIsWhole
  <2>3. MasterHasSegment'
    <3>1. s # 0
      BY <1>0, <1>1
    <3> QED BY <1>0, <1>1, <1>2, <1>3, <2>1, <3>1 DEF MasterHasSegment, Building
  <2>4. NoFalseMaster'
    <3> SUFFICES ASSUME NEW q \in alive, proc'[q].role = "none"
                 PROVE  /\ proc'[q].seg # 0 => mem'[proc'[q].seg].pid # q
                        /\ mem'[s].pid # q
      BY <1>1, <1>2 DEF NoFalseMaster
    <3>1. q # p /\ proc'[q] = proc[q] /\ q \in Procs /\ proc[q].role = "none"
      BY <1>0, <1>3, <2>1
    <3>2. proc[q].seg # 0 => mem'[proc[q].seg].pid # q
      <4>1. proc[q].seg <= made
        BY <1>0, <3>1 DEF Sane, SegmentsInUse
      <4> QED BY <1>0, <1>1, <2>1, <3>1, <4>1 DEF NoFalseMaster
    <3>3. mem'[s].pid # q
      BY <1>0, <1>1, <2>1, <3>1, SessionAssumption DEF NoFalseMaster
    <3> QED BY <3>1, <3>2, <3>3
  <2>5. RegistrationKept'
    BY <1>2, <2>1 DEF RegistrationKept
  <2> QED BY <2>2, <2>3, <2>4, <2>5
<1> QED BY <1>4, <1>5 DEF Sane, RulesInv

LEMMA SemIsSane ==
  ASSUME TypeOK, WellPlaced, Sane, NEW p \in Procs, SemCreate(p)
  PROVE  Sane'
<1>0. Segs = 1 .. MaxSegs /\ 1 \in Segs /\ alive \subseteq Procs /\ p \in alive
      /\ proc[p].pc = "sem" /\ proc[p].pc \in Building
      /\ proc \in [Procs -> Process] /\ mem \in [Segs -> Segment]
      /\ proc[p].seg \in 0 .. MaxSegs /\ semKey \in 0 .. MaxSegs
      /\ proc[p].seg # 0
  BY Named, Standing DEF SemCreate, At, Building, Placed
<1>1. PICK s \in 0 .. MaxSegs :
        /\ sems' = sems \cup {s}
        /\ Becomes(p, "head", proc[p].obj, proc[p].seg, s, proc[p].role)
  BY <1>0, SemMoves DEF SemCreate
<1>2. UNCHANGED <<backend, key, made, mem, alive, members, lapses>>
  BY DEF SemCreate
<1>3. \A q \in Procs : /\ proc'[q].seg = proc[q].seg /\ proc'[q].role = proc[q].role
                       /\ proc'[q] = proc[q] \/ (q = p /\ proc'[q].pc = "head" /\
                                                 proc'[q].sem = s)
  BY <1>1 DEF Becomes
<1>4. SegmentsInUse' /\ MembersHaveMaster'
  BY <1>0, <1>2, <1>3 DEF Sane, SegmentsInUse, MembersHaveMaster, Up
<1>5. ASSUME lapses' = 0
      PROVE  /\ OneMaster' /\ NobodyLost' /\ FileIsWhole' /\ MasterHasSegment'
             /\ NoFalseMaster' /\ RegistrationKept'
  <2>1. /\ proc[p].role = "creating"
        /\ \A q \in alive : q # p => proc[q].role = "none" /\ proc[q].pc \notin Building
        /\ members = {}
        /\ OneMaster /\ NobodyLost /\ FileIsWhole /\ MasterHasSegment
        /\ NoFalseMaster /\ RegistrationKept
    BY <1>0, <1>2, <1>5, BuilderIsAlone
  <2>2. OneMaster' /\ NobodyLost'
    BY <1>0, <1>2, <1>3, <2>1 DEF OneMaster, NobodyLost
  <2>3. FileIsWhole'
    BY <1>0, <1>1, <1>2, <1>3, <2>1 DEF FileIsWhole, Cut, Exclusive
  <2>4. MasterHasSegment'
    BY <1>0, <1>1, <1>2, <1>3, <2>1 DEF MasterHasSegment, Exclusive, Building
  <2>5. NoFalseMaster' /\ RegistrationKept'
    BY <1>0, <1>2, <1>3, <2>1 DEF NoFalseMaster, RegistrationKept
  <2> QED BY <2>2, <2>3, <2>4, <2>5
<1> QED BY <1>4, <1>5 DEF Sane, RulesInv

\* The header is written by the one who builds, with a lock that exists.
LEMMA HeadIsSane ==
  ASSUME TypeOK, WellPlaced, Sane, NEW p \in Procs, WriteHead(p) \/ WriteDataSize(p)
  PROVE  Sane'
<1>0. 1 \in Segs /\ alive \subseteq Procs /\ p \in alive
      /\ proc[p].pc \in {"head", "data_size"} /\ proc[p].pc \in Building
      /\ proc \in [Procs -> Process] /\ mem \in [Segs -> Segment]
      /\ proc[p].seg \in Segs /\ proc[p].seg # 0
      /\ (key # 0 => key \in Segs)
      /\ \A q \in Procs : proc[q].seg # 0 => proc[q].seg \in Segs
  BY Named, Standing DEF WriteHead, WriteDataSize, At, Building, Placed
<1> DEFINE t == proc[p].seg
<1>1. PICK h \in {"part", "full"}, s \in {mem[t].sem, proc[p].sem}, l \in {"data_size", "clear"} :
        /\ Holds(t, mem[t].len, h, s, mem[t].pid, mem[t].table, mem[t].index, mem[t].entries)
        /\ mem[t].hdr = "full" => h = "full"
        /\ Moves(p, l)
        /\ l = "clear" => h = "full"
        /\ s = proc[p].sem \/ proc[p].pc = "data_size"
  <2>1. CASE WriteHead(p)
    <3>1. Moves(p, "data_size") /\ proc[p].pc = "head"
      BY <1>0, <2>1, GotoMoves DEF WriteHead, At, Points
    <3>2. PICK h \in {"part", "full"} :
            /\ Holds(t, mem[t].len, h, proc[p].sem, mem[t].pid,
                     mem[t].table, mem[t].index, mem[t].entries)
            /\ mem[t].hdr = "full" => h = "full"
      BY <1>0, <2>1, HeadHolds
    <3> QED BY <3>1, <3>2
  <2>2. CASE WriteDataSize(p)
    <3>1. Moves(p, "clear") /\ proc[p].pc = "data_size"
      BY <1>0, <2>2, GotoMoves DEF WriteDataSize, At, Points
    <3> QED BY <1>0, <2>2, <3>1, DataSizeHolds
  <2> QED BY <2>1, <2>2
<1>2. UNCHANGED <<backend, key, made, semKey, sems, alive, members, lapses>>
  BY DEF WriteHead, WriteDataSize
<1>3. \A q \in Procs : /\ proc'[q].seg = proc[q].seg /\ proc'[q].sem = proc[q].sem
                       /\ proc'[q].role = proc[q].role
                       /\ proc'[q].pc = proc[q].pc \/ (q = p /\ proc'[q].pc = l)
  BY <1>1 DEF Moves, Becomes
<1>4. /\ \A u \in Segs : mem'[u].len = mem[u].len /\ mem'[u].pid = mem[u].pid
      /\ \A u \in Segs : mem[u].hdr = "full" => mem'[u].hdr = "full"
      /\ \A u \in Segs : u # t => mem'[u] = mem[u]
      /\ mem'[t].hdr = h /\ mem'[t].sem = s
  BY <1>1 DEF Holds
<1>5. SegmentsInUse' /\ MembersHaveMaster'
  BY <1>0, <1>2, <1>3, <1>4 DEF Sane, SegmentsInUse, MembersHaveMaster, Up
<1>6. ASSUME lapses' = 0
      PROVE  /\ OneMaster' /\ NobodyLost' /\ FileIsWhole' /\ MasterHasSegment'
             /\ NoFalseMaster' /\ RegistrationKept'
  <2>1. /\ proc[p].role = "creating"
        /\ \A q \in alive : q # p => proc[q].role = "none" /\ proc[q].pc \notin Building
        /\ members = {}
        /\ OneMaster /\ NobodyLost /\ FileIsWhole /\ MasterHasSegment
        /\ NoFalseMaster /\ RegistrationKept
    BY <1>0, <1>2, <1>6, BuilderIsAlone
  <2>2. t = key /\ key # 0 /\ Exclusive(p)
    BY <1>0, <2>1 DEF MasterHasSegment
  <2>3. OneMaster' /\ NobodyLost'
    BY <1>0, <1>1, <1>2, <1>3, <2>1 DEF OneMaster, NobodyLost
  <2>4. FileIsWhole'
    <3>1. backend = "mmap" => t = 1
      BY <1>0, <2>1, <2>2 DEF FileIsWhole
    <3>2. mem'[1].hdr # "zero" /\ backend = "mmap" => mem'[1].sem \in sems
      <4>1. backend = "mmap" /\ proc[p].pc = "data_size" => mem[1].sem \in sems
        BY <1>0, <2>1, <2>2, <3>1 DEF FileIsWhole, MasterHasSegment
      <4> QED BY <1>1, <1>4, <2>2, <3>1, <4>1 DEF Exclusive
    <3>3. CASE backend # "mmap"
      BY <1>2, <3>3 DEF FileIsWhole
    <3>4. CASE backend = "mmap"
      <4>1. ASSUME NEW q \in Procs
            PROVE  /\ proc'[q].seg # 0 \/ proc'[q].pc \in {"map", "check"}
                        => key' = 1 /\ ~Cut(1)'
                   /\ proc'[q].pc = "size" => key' = 1
        BY <1>0, <1>1, <1>2, <1>3, <1>4, <2>1, <3>4 DEF FileIsWhole, Cut
      <4>2. ASSUME NEW q \in Procs
            PROVE  /\ proc'[q].seg # 0 /\ proc'[q].role = "none"
                        => mem'[1].hdr = "full" /\ Exclusive(q)'
                   /\ proc'[q].pc = "head" => Exclusive(q)'
        BY <1>0, <1>1, <1>2, <1>3, <1>4, <2>1, <3>4 DEF FileIsWhole, Exclusive
      <4>3. ASSUME NEW q \in alive', proc'[q].pc = "trunc"
            PROVE  key' = 0 \/ Cut(1)'
        BY <1>0, <1>1, <1>2, <1>3, <1>4, <2>1, <3>4, <4>3 DEF FileIsWhole, Cut
      <4>4. mem'[1].hdr # "zero" => mem'[1].sem \in sems'
        BY <1>2, <3>2, <3>4
      <4> QED BY <4>1, <4>2, <4>3, <4>4 DEF FileIsWhole
    <3> QED BY <3>3, <3>4
  <2>5. MasterHasSegment'
    BY <1>0, <1>1, <1>2, <1>3, <1>4, <2>1, <2>2 DEF MasterHasSegment, Exclusive, Building
  <2>6. NoFalseMaster' /\ RegistrationKept'
    BY <1>0, <1>2, <1>3, <1>4, <2>1 DEF NoFalseMaster, RegistrationKept
  <2> QED BY <2>3, <2>4, <2>5, <2>6
<1> QED BY <1>5, <1>6 DEF Sane, RulesInv

\* The builder becomes the master.
LEMMA ClearIsSane ==
  ASSUME TypeOK, WellPlaced, Sane, NEW p \in Procs, Clear(p)
  PROVE  Sane'
<1>0. 1 \in Segs /\ alive \subseteq Procs /\ p \in alive
      /\ proc[p].pc = "clear" /\ proc[p].pc \in Building
      /\ proc \in [Procs -> Process] /\ mem \in [Segs -> Segment]
      /\ proc[p].seg \in Segs /\ proc[p].seg # 0
      /\ (key # 0 => key \in Segs)
      /\ \A q \in Procs : proc[q].seg # 0 => proc[q].seg \in Segs
  BY Named, Standing DEF Clear, At, Building, Placed
<1> DEFINE t == proc[p].seg
<1>1. /\ Holds(t, mem[t].len, mem[t].hdr, mem[t].sem, p, {}, 0, {})
      /\ Becomes(p, "log", proc[p].obj, proc[p].seg, proc[p].sem, "up")
  BY <1>0, ClearMoves, ClearHolds
<1>2. UNCHANGED <<backend, key, made, semKey, sems, alive, members, lapses>>
  BY DEF Clear
<1>3. \A q \in Procs : /\ proc'[q].seg = proc[q].seg /\ proc'[q].sem = proc[q].sem
                       /\ proc'[q] = proc[q] \/ (q = p /\ proc'[q].pc = "log" /\
                                                 proc'[q].role = "up")
  BY <1>1 DEF Becomes
<1>4. /\ \A u \in Segs : mem'[u].len = mem[u].len /\ mem'[u].hdr = mem[u].hdr
      /\ \A u \in Segs : mem'[u].sem = mem[u].sem
      /\ \A u \in Segs : u # t => mem'[u].pid = mem[u].pid
      /\ mem'[t].pid = p
  BY <1>1 DEF Holds
<1>5. SegmentsInUse' /\ MembersHaveMaster'
  <2>1. proc[p].role = "creating"
    BY <1>0 DEF WellPlaced, Placed, Building
  <2> QED BY <1>0, <1>2, <1>3, <1>4, <2>1 DEF Sane, SegmentsInUse, MembersHaveMaster, Up
<1>6. ASSUME lapses' = 0
      PROVE  /\ OneMaster' /\ NobodyLost' /\ FileIsWhole' /\ MasterHasSegment'
             /\ NoFalseMaster' /\ RegistrationKept'
  <2>1. /\ proc[p].role = "creating"
        /\ \A q \in alive : q # p => proc[q].role = "none" /\ proc[q].pc \notin Building
        /\ members = {}
        /\ OneMaster /\ NobodyLost /\ FileIsWhole /\ MasterHasSegment
        /\ NoFalseMaster /\ RegistrationKept
    BY <1>0, <1>2, <1>6, BuilderIsAlone
  <2>2. t = key /\ key # 0 /\ Exclusive(p) /\ mem[key].hdr = "full"
    BY <1>0, <2>1 DEF MasterHasSegment
  <2>3. OneMaster' /\ NobodyLost'
    BY <1>0, <1>2, <1>3, <2>1 DEF OneMaster, NobodyLost
  <2>4. FileIsWhole'
    BY <1>0, <1>2, <1>3, <1>4, <2>1 DEF FileIsWhole, Cut, Exclusive
  <2>5. MasterHasSegment'
    BY <1>0, <1>2, <1>3, <1>4, <2>1, <2>2 DEF MasterHasSegment, Exclusive, Building
  <2>6. NoFalseMaster' /\ RegistrationKept'
    BY <1>0, <1>2, <1>3, <1>4, <2>1 DEF NoFalseMaster, RegistrationKept
  <2> QED BY <2>3, <2>4, <2>5, <2>6
<1> QED BY <1>5, <1>6 DEF Sane, RulesInv

LEMMA DestroySemIsSane ==
  ASSUME TypeOK, WellPlaced, Sane, NEW p \in Procs, DestroySem(p)
  PROVE  Sane'
<1>0. 1 \in Segs /\ alive \subseteq Procs /\ p \in alive
      /\ proc[p].pc = "rmsem" /\ proc[p].pc \in Building /\ backend = "shm"
      /\ proc \in [Procs -> Process] /\ made \in 0 .. MaxSegs
  BY Named, Standing DEF DestroySem, At, Building, Placed
<1>1. Becomes(p, "idle", FALSE, 0, 0, "none")
  BY <1>0, DestroySemMoves
<1>2. UNCHANGED <<backend, key, made, mem, alive, members, lapses>>
  BY DEF DestroySem
<1>3. \A q \in Procs : proc'[q] = proc[q] \/ (q = p /\ proc'[q].pc = "idle" /\
                                              proc'[q].role = "none" /\ proc'[q].seg = 0)
  BY <1>1 DEF Becomes
<1>5. SegmentsInUse' /\ MembersHaveMaster'
  <2>1. proc[p].role = "creating"
    BY <1>0 DEF WellPlaced, Placed, Building
  <2>2. 0 <= made
    BY <1>0
  <2> QED BY <1>0, <1>2, <1>3, <2>1, <2>2 DEF Sane, SegmentsInUse, MembersHaveMaster, Up
<1>6. ASSUME lapses' = 0
      PROVE  /\ OneMaster' /\ NobodyLost' /\ FileIsWhole' /\ MasterHasSegment'
             /\ NoFalseMaster' /\ RegistrationKept'
  <2>1. /\ proc[p].role = "creating"
        /\ \A q \in alive : q # p => proc[q].role = "none" /\ proc[q].pc \notin Building
        /\ members = {}
        /\ OneMaster /\ NobodyLost /\ FileIsWhole /\ MasterHasSegment
        /\ NoFalseMaster /\ RegistrationKept
    BY <1>0, <1>2, <1>6, BuilderIsAlone
  <2>2. key = 0
    BY <1>0, <2>1 DEF MasterHasSegment
  <2>3. OneMaster' /\ NobodyLost' /\ FileIsWhole'
    BY <1>0, <1>2, <1>3, <2>1 DEF OneMaster, NobodyLost, FileIsWhole
  <2>5. MasterHasSegment'
    <3>1. \A q \in alive' : proc'[q].role = "none" /\ proc'[q].pc \notin Building
      <4>1. proc'[p].role = "none" /\ proc'[p].pc = "idle"
        BY <1>1 DEF Becomes
      <4> QED BY <1>0, <1>2, <1>3, <2>1, <4>1 DEF Building
    <3> QED BY <3>1 DEF MasterHasSegment, Building
  <2>6. NoFalseMaster' /\ RegistrationKept'
    BY <1>0, <1>2, <1>3, <2>1, <2>2 DEF NoFalseMaster, RegistrationKept
  <2> QED BY <2>3, <2>5, <2>6
<1> QED BY <1>5, <1>6 DEF Sane, RulesInv

\* The master leaves the file of the mmap back end, which stays.
LEMMA UnmapIsSane ==
  ASSUME TypeOK, WellPlaced, Sane, NEW p \in alive, backend = "mmap",
         UNCHANGED <<backend, key, made, mem, semKey, sems, alive>>, members' = {},
         lapses' = 0 => lapses = 0,
         Becomes(p, "idle", FALSE, 0, 0, "none")
  PROVE  Sane'
<1>0. 1 \in Segs /\ alive \subseteq Procs
  BY Named
<1>3. \A q \in Procs : proc'[q] = proc[q] \/ (q = p /\ proc'[q].pc = "idle" /\
                                              proc'[q].role = "none" /\ proc'[q].seg = 0)
  BY <1>0 DEF Becomes
<1>5. SegmentsInUse' /\ MembersHaveMaster'
  BY <1>0, <1>3 DEF Sane, SegmentsInUse, MembersHaveMaster
<1>6. ASSUME lapses' = 0
      PROVE  /\ OneMaster' /\ NobodyLost' /\ FileIsWhole' /\ MasterHasSegment'
             /\ NoFalseMaster' /\ RegistrationKept'
  <2>1. /\ OneMaster /\ NobodyLost /\ FileIsWhole /\ MasterHasSegment
    BY <1>6 DEF Sane, RulesInv
  <2>3. OneMaster' /\ NobodyLost'
    BY <1>0, <1>3, <2>1 DEF OneMaster, NobodyLost
  <2>4. FileIsWhole'
    BY <1>0, <1>3, <2>1 DEF FileIsWhole, Cut, Exclusive
  <2>5. MasterHasSegment'
    BY <1>0, <1>3, <2>1 DEF MasterHasSegment, Exclusive
  <2>6. NoFalseMaster' /\ RegistrationKept'
    BY DEF NoFalseMaster, RegistrationKept
  <2> QED BY <2>3, <2>4, <2>5, <2>6
<1> QED BY <1>5, <1>6 DEF Sane, RulesInv

\* Only the master removes a segment, and it removes its own.
LEMMA RemoveIsSane ==
  ASSUME TypeOK, WellPlaced, Sane, NEW p \in alive, backend = "shm",
         proc[p].pc = "idle", proc[p].seg # 0, mem[proc[p].seg].pid = p,
         UNCHANGED <<backend, made, mem, semKey, sems, alive>>, members' = {},
         key' = (IF key = proc[p].seg THEN 0 ELSE key),
         lapses' = 0 => lapses = 0,
         Becomes(p, "rmsem", proc[p].obj, proc[p].seg, proc[p].sem, "creating")
  PROVE  Sane'
<1>0. alive \subseteq Procs /\ p \in Procs /\ made \in 0 .. MaxSegs /\ key \in 0 .. MaxSegs
  BY Named DEF TypeOK
<1>3. \A q \in Procs : /\ proc'[q].seg = proc[q].seg
                       /\ proc'[q] = proc[q] \/ (q = p /\ proc'[q].pc = "rmsem" /\
                                                 proc'[q].role = "creating")
  BY <1>0 DEF Becomes
<1>5. SegmentsInUse' /\ MembersHaveMaster'
  <2>1. key' <= made'
    BY <1>0 DEF Sane, SegmentsInUse
  <2> QED BY <1>0, <1>3, <2>1 DEF Sane, SegmentsInUse, MembersHaveMaster
<1>6. ASSUME lapses' = 0
      PROVE  /\ OneMaster' /\ NobodyLost' /\ FileIsWhole' /\ MasterHasSegment'
             /\ NoFalseMaster' /\ RegistrationKept'
  <2>1. /\ OneMaster /\ NobodyLost /\ MasterHasSegment /\ NoFalseMaster
    BY <1>6 DEF Sane, RulesInv
  <2>2. proc[p].role = "up" /\ key = proc[p].seg /\ key' = 0
    <3>1. proc[p].role # "none"
      BY <2>1 DEF NoFalseMaster
    <3>2. proc[p].role \in {"none", "creating", "up"}
      <4>1. proc[p] \in Process
        BY <1>0 DEF TypeOK
      <4> QED BY <4>1 DEF Process
    <3>3. proc[p].role # "creating"
      BY <1>0 DEF WellPlaced, Placed, Building
    <3> QED BY <2>1, <3>1, <3>2, <3>3 DEF MasterHasSegment
  <2>3. \A q \in alive : q # p => proc[q].role = "none" /\ proc[q].pc \notin Building
    BY <1>0, <2>1, <2>2 DEF OneMaster, WellPlaced, Placed
  <2>4. OneMaster' /\ NobodyLost' /\ FileIsWhole'
    BY <1>0, <1>3, <2>1, <2>3 DEF OneMaster, NobodyLost, FileIsWhole
  <2>5. MasterHasSegment'
    <3>1. \A q \in alive' : q # p => proc'[q].role = "none" /\ proc'[q].pc \notin Building
      BY <1>0, <1>3, <2>3
    <3>2. proc'[p].pc = "rmsem" /\ proc'[p].role = "creating"
      BY DEF Becomes
    <3> QED BY <2>2, <3>1, <3>2 DEF MasterHasSegment, Building
  <2>6. NoFalseMaster' /\ RegistrationKept'
    BY <1>0, <1>3, <2>1, <2>2 DEF NoFalseMaster, RegistrationKept
  <2> QED BY <2>4, <2>5, <2>6
<1> QED BY <1>5, <1>6 DEF Sane, RulesInv

LEMMA DieIsSane ==
  ASSUME TypeOK, Sane, NEW p \in Procs, Die(p)
  PROVE  Sane'
<1>1. /\ alive' = alive \ {p} /\ members' \subseteq members
      /\ proc[p].role = "up" => members' = {}
      /\ UNCHANGED <<backend, key, made, mem, semKey, sems, proc, calls, lapses>>
  BY DEF Die
<1>2. SegmentsInUse' /\ MembersHaveMaster'
  BY <1>1 DEF Sane, SegmentsInUse, MembersHaveMaster, Up
<1>3. ASSUME lapses' = 0
      PROVE  /\ OneMaster' /\ NobodyLost' /\ FileIsWhole' /\ MasterHasSegment'
             /\ NoFalseMaster' /\ RegistrationKept'
  <2>1. /\ OneMaster /\ NobodyLost /\ FileIsWhole /\ MasterHasSegment
        /\ NoFalseMaster /\ RegistrationKept
    BY <1>1, <1>3 DEF Sane, RulesInv
  <2>2. OneMaster' /\ NobodyLost' /\ NoFalseMaster' /\ RegistrationKept'
    BY <1>1, <2>1 DEF OneMaster, NobodyLost, NoFalseMaster, RegistrationKept
  <2>3. FileIsWhole'
    BY <1>1, <2>1 DEF FileIsWhole, Cut, Exclusive
  <2>4. MasterHasSegment'
    BY <1>1, <2>1 DEF MasterHasSegment, Exclusive
  <2> QED BY <2>2, <2>3, <2>4
<1> QED BY <1>2, <1>3 DEF Sane, RulesInv

\* A step of the library that leaves all memory and the members alone.
LEMMA QuietIsSane ==
  ASSUME TypeOK, WellPlaced, Sane, NEW p \in alive, SharedUnchanged, UNCHANGED members,
         NEW l, NEW obj, Becomes(p, l, obj, proc[p].seg, proc[p].sem, proc[p].role),
         lapses' = 0 => lapses = 0,
         lapses' = 0 => l \notin {"null", "bus"} /\ (l = "log" => proc[p].seg # 0),
         l \notin {"size", "sem", "head", "data_size", "clear", "rmsem"},
         l = "trunc" => key = 0 \/ Cut(1),
         l \in {"map", "check"} => key = 1 /\ ~Cut(1)
  PROVE  Sane'
<1>1. Kept
  BY DEF Kept, SharedUnchanged, TypeOK
<1>2. members' # {} => Up
  BY DEF Sane, MembersHaveMaster
<1>3. lapses' = 0 /\ key # 0 => members' \subseteq mem'[key].table
  BY DEF Sane, RulesInv, RegistrationKept, SharedUnchanged
<1> QED BY <1>1, <1>2, <1>3, TalkIsSane

LEMMA CallsSane ==
  ASSUME TypeOK, WellPlaced, Sane, NEW p \in Procs, Calls(p)
  PROVE  Sane'
<1>0. /\ proc \in [Procs -> Process] /\ mem \in [Segs -> Segment]
      /\ lapses \in Nat
      /\ p \in alive /\ proc[p].pc = "idle"
      /\ proc[p].seg # 0 => proc[p].seg \in Segs
      /\ Placed(proc[p].pc, proc[p].obj, proc[p].seg, proc[p].role)
      /\ (key # 0 => key \in Segs)
      /\ backend \in {"mmap", "shm"}
  BY Standing, Named DEF Calls, init, create_master, create_asset_controller,
     get_simevent_controller, asset_register, asset_unregister, destroy, Ready, At
<1>1. \A b : Call(b) => (lapses' = 0 => lapses = 0 /\ ~b)
  BY <1>0 DEF Call
<1>2. CASE init(p)
  <2>1. CASE proc[p].obj
    <3>1. Moves(p, "log") /\ UNCHANGED members /\ SharedUnchanged /\ Call(Refused(p))
      BY <1>0, <1>2, <2>1, InitMoves DEF init
    <3>2. lapses' = 0 => lapses = 0 /\ proc[p].seg # 0
      BY <1>1, <2>1, <3>1 DEF Refused
    <3>3. Becomes(p, "log", proc[p].obj, proc[p].seg, proc[p].sem, proc[p].role)
      BY <3>1 DEF Moves
    <3> QED BY <1>0, <3>1, <3>2, <3>3, QuietIsSane
  <2>2. CASE ~proc[p].obj
    <3>1. members' = {} /\ SharedUnchanged /\ Call(MasterElsewhere(p))
      BY <1>2, <2>2 DEF init
    <3>2. Kept /\ UNCHANGED mem
      BY <1>0, <3>1 DEF Kept, SharedUnchanged
    <3>3. proc[p].role = "none" /\ proc[p].seg = 0
      BY <1>0, <2>2 DEF Placed
    <3>4. lapses' = 0 => lapses = 0 /\ ~MasterElsewhere(p)
      BY <1>1, <3>1
    <3>5. PICK l \in {"stat", "shmget"} :
            Becomes(p, l, TRUE, proc[p].seg, proc[p].sem, "creating")
      BY <1>0, <1>2, <2>2, InitMoves
    <3> QED BY <1>0, <3>1, <3>2, <3>3, <3>4, <3>5, StartIsSane
  <2> QED BY <2>1, <2>2
<1>3. CASE create_master(p)
  <2>1. Moves(p, "idle") /\ UNCHANGED members /\ SharedUnchanged /\ Call(Refused(p))
    BY <1>0, <1>3, CreateMasterMoves DEF create_master
  <2>2. lapses' = 0 => lapses = 0
    BY <1>1, <2>1
  <2>3. Becomes(p, "idle", proc[p].obj, proc[p].seg, proc[p].sem, proc[p].role)
    BY <2>1 DEF Moves
  <2> QED BY <1>0, <2>1, <2>2, <2>3, QuietIsSane
<1>4. CASE create_asset_controller(p) \/ get_simevent_controller(p)
  <2>1. UNCHANGED members /\ SharedUnchanged /\ Call(Refused(p))
    BY <1>4 DEF create_asset_controller, get_simevent_controller
  <2>2. lapses' = 0 => lapses = 0 /\ (proc[p].obj => proc[p].seg # 0)
    BY <1>1, <2>1 DEF Refused
  <2>3. CASE proc[p].obj /\ Moves(p, "log")
    <3>1. lapses' = 0 => proc[p].seg # 0
      BY <2>2, <2>3
    <3>2. lapses' = 0 => lapses = 0
      BY <2>2
    <3>3. Becomes(p, "log", proc[p].obj, proc[p].seg, proc[p].sem, proc[p].role)
      BY <2>3 DEF Moves
    <3> QED BY <1>0, <2>1, <3>1, <3>2, <3>3, QuietIsSane
  <2>4. CASE Becomes(p, "open", TRUE, proc[p].seg, proc[p].sem, proc[p].role)
    <3>1. lapses' = 0 => lapses = 0
      BY <2>2
    <3>2. Becomes(p, "open", proc'[p].obj, proc[p].seg, proc[p].sem, proc[p].role)
      BY <2>4 DEF Becomes
    <3>3. p \in alive
      BY <1>0
    <3> QED BY <2>1, <3>1, <3>2, <3>3, QuietIsSane
  <2> QED BY <1>0, <1>4, <2>3, <2>4, ControllerMoves
<1>5. CASE asset_register(p) \/ asset_unregister(p)
  <2>1. /\ Moves(p, "log") /\ Call(FALSE)
        /\ UNCHANGED <<backend, key, made, semKey, sems, alive>>
        /\ proc[p].seg \in Segs /\ proc[p].seg # 0
    BY <1>0, <1>5, GotoMoves DEF asset_register, asset_unregister, Points
  <2>2. lapses' = 0 => lapses = 0
    BY <1>1, <2>1
  <2>3. \A s \in Segs : s = proc[p].seg =>
          \/ /\ asset_register(p)
             /\ Holds(s, mem[s].len, mem[s].hdr, mem[s].sem, mem[s].pid,
                      mem[s].table \cup {p}, mem[s].index, mem[s].entries)
          \/ /\ asset_unregister(p)
             /\ Holds(s, mem[s].len, mem[s].hdr, mem[s].sem, mem[s].pid,
                      mem[s].table \ {p}, mem[s].index, mem[s].entries)
    <3>1. CASE asset_register(p)
      BY <1>0, <3>1, RegisterHolds
    <3>2. CASE asset_unregister(p)
      BY <1>0, <3>2, UnregisterHolds
    <3> QED BY <1>5, <3>1, <3>2
  <2>4. Kept
    BY <2>1, <2>3 DEF Kept, Holds
  <2>5. members' # {} => Up
    BY <1>5 DEF asset_register, asset_unregister, Sane, MembersHaveMaster
  <2>6. ASSUME lapses' = 0, key # 0
        PROVE  members' \subseteq mem'[key].table
    <3>1. members \subseteq mem[key].table
      BY <2>2, <2>6 DEF Sane, RulesInv, RegistrationKept
    <3>2. CASE key # proc[p].seg
      <4>1. members' \subseteq members
        BY <1>5, <3>2 DEF asset_register, asset_unregister
      <4>2. PICK t \in Segs : t = proc[p].seg
        BY <2>1
      <4>3. \A s \in Segs : s # t => mem'[s] = mem[s]
        BY <2>3, <4>2 DEF Holds
      <4>4. key \in Segs /\ key # t
        BY <1>0, <2>6, <3>2, <4>2
      <4> QED BY <3>1, <4>1, <4>3, <4>4
    <3>3. CASE key = proc[p].seg
      <4>1. CASE asset_unregister(p)
        <5>1. members' = members \ {p}
          BY <4>1 DEF asset_unregister
        <5>2. mem[key].table \ {p} \subseteq mem'[key].table
          <6>1. mem'[key].table \in {mem[key].table \cup {p}, mem[key].table \ {p}}
            BY <2>1, <2>3, <3>3 DEF Holds
          <6> QED BY <6>1
        <5> QED BY <3>1, <5>1, <5>2
      <4>2. CASE ~asset_unregister(p)
        <5>1. members' \subseteq members \cup {p}
          BY <1>5, <4>2 DEF asset_register
        <5>2. mem'[key].table = mem[key].table \cup {p}
          BY <2>1, <2>3, <3>3, <4>2 DEF Holds
        <5> QED BY <3>1, <5>1, <5>2
      <4> QED BY <4>1, <4>2
    <3> QED BY <3>2, <3>3
  <2>7. Becomes(p, "log", proc[p].obj, proc[p].seg, proc[p].sem, proc[p].role)
    BY <2>1 DEF Moves
  <2>8. p \in alive /\ proc[p].seg # 0
    BY <1>0, <2>1
  <2>9. lapses' = 0 /\ key # 0 => members' \subseteq mem'[key].table
    BY <2>6
  <2> QED BY <2>2, <2>4, <2>5, <2>7, <2>8, <2>9, TalkIsSane
<1>6. CASE destroy(p)
  <2>1. /\ UNCHANGED <<backend, made, mem, semKey, sems, alive>>
        /\ Call(proc[p].seg = 0)
    BY <1>6 DEF destroy
  <2>2. lapses' = 0 => lapses = 0 /\ proc[p].seg # 0
    BY <1>1, <2>1
  <2>3. CASE /\ proc[p].seg = 0 /\ lapses' # 0 /\ UNCHANGED <<key, members>>
             /\ Moves(p, "null")
    <3>1. SharedUnchanged
      BY <2>1, <2>3 DEF SharedUnchanged
    <3>2. Becomes(p, "null", proc[p].obj, proc[p].seg, proc[p].sem, proc[p].role)
      BY <2>3 DEF Moves
    <3> QED BY <1>0, <2>2, <2>3, <3>1, <3>2, QuietIsSane
  <2>4. CASE UNCHANGED <<key, members>> /\ Moves(p, "idle")
    <3>1. SharedUnchanged
      BY <2>1, <2>4 DEF SharedUnchanged
    <3>2. Becomes(p, "idle", proc[p].obj, proc[p].seg, proc[p].sem, proc[p].role)
      BY <2>4 DEF Moves
    <3> QED BY <1>0, <2>2, <2>4, <3>1, <3>2, QuietIsSane
  <2>5. CASE /\ backend = "mmap" /\ UNCHANGED key /\ members' = {}
             /\ Becomes(p, "idle", FALSE, 0, 0, "none")
    BY <1>0, <2>1, <2>2, <2>5, UnmapIsSane
  <2>6. CASE /\ proc[p].seg # 0 /\ mem[proc[p].seg].pid = p /\ backend # "mmap"
             /\ key' = (IF key = proc[p].seg THEN 0 ELSE key) /\ members' = {}
             /\ Becomes(p, "rmsem", proc[p].obj, proc[p].seg, proc[p].sem, "creating")
    BY <1>0, <2>1, <2>2, <2>6, RemoveIsSane
  <2> QED BY <1>0, <1>6, <2>3, <2>4, <2>5, <2>6, DestroyMoves
<1> QED BY <1>2, <1>3, <1>4, <1>5, <1>6 DEF Calls

LEMMA StepsSane ==
  ASSUME TypeOK, WellPlaced, Sane, NEW p \in Procs, Steps(p)
  PROVE  Sane'
<1>0. /\ proc \in [Procs -> Process] /\ mem \in [Segs -> Segment]
      /\ p \in alive
      /\ proc[p].seg # 0 => proc[p].seg \in Segs
      /\ Placed(proc[p].pc, proc[p].obj, proc[p].seg, proc[p].role)
      /\ (key # 0 => key \in Segs)
      /\ 1 \in Segs /\ key \in 0 .. MaxSegs /\ 1 \in 0 .. MaxSegs
      /\ backend = "mmap" => key \in {0, 1}
  BY Standing, Named DEF Steps, create,
         CreateStat, CreateTrunc, CreateSize, CreateMap, ShmGet, SemCreate, WriteHead,
         WriteDataSize, Clear, LoadOpen, ShmLoad, LoadCheck, LogCheck, LogTake, LogFill,
         DestroySem, LockOverflows, BusError, Locking, Ready, At, Sane, SegmentsInUse
<1>1. ASSUME NEW l \in Points, Goto(p, l)
      PROVE  Becomes(p, l, proc[p].obj, proc[p].seg, proc[p].sem, proc[p].role)
  BY <1>0, <1>1, GotoMoves DEF Moves
<1>2. lapses = 0 => NobodyLost /\ FileIsWhole
  BY DEF Sane, RulesInv
<1>3. CASE CreateStat(p)
  <2>1. PICK l \in {"trunc", "map"} :
          /\ Becomes(p, l, proc[p].obj, proc[p].seg, proc[p].sem, proc[p].role)
          /\ IF key = 0 \/ Cut(1) THEN l = "trunc" ELSE l = "map"
    BY <1>1, <1>3 DEF CreateStat, Points
  <2>2. backend = "mmap" /\ SharedUnchanged /\ UNCHANGED <<members, lapses>>
    BY <1>0, <1>3 DEF CreateStat, At, Placed
  <2> QED BY <1>0, <2>1, <2>2, QuietIsSane
<1>4. CASE LoadOpen(p)
  <2>1. PICK l \in {"idle", "check"} :
          /\ Becomes(p, l, proc[p].obj, proc[p].seg, proc[p].sem, proc[p].role)
          /\ l = "check" => key # 0 /\ ~Cut(1)
    BY <1>0, <1>1, <1>4, LoadFailsMoves DEF LoadOpen, Points, Moves
  <2>2. backend = "mmap" /\ SharedUnchanged /\ UNCHANGED <<members, lapses>>
    BY <1>4 DEF LoadOpen
  <2> QED BY <1>0, <2>1, <2>2, QuietIsSane
<1>5. CASE ShmLoad(p)
  <2>1. backend = "shm" /\ SharedUnchanged /\ UNCHANGED <<members, lapses>>
        /\ proc[p].pc = "open"
    BY <1>5 DEF ShmLoad, At
  <2>2. CASE key = 0
    <3>1. Moves(p, "idle")
      BY <1>0, <1>5, <2>2, LoadFailsMoves DEF ShmLoad
    <3>2. Becomes(p, "idle", proc[p].obj, proc[p].seg, proc[p].sem, proc[p].role)
      BY <3>1 DEF Moves
    <3> QED BY <1>0, <2>1, <3>2, QuietIsSane
  <2>3. CASE key # 0
    <3>1. Becomes(p, "log", proc[p].obj, key, mem[key].sem, proc[p].role)
      BY <1>0, <1>5, <2>3, LoadedMoves, SegmentFacts DEF ShmLoad
    <3>2. proc[p].role = "none" /\ Kept /\ UNCHANGED mem
      BY <1>0, <2>1 DEF Placed, Kept, SharedUnchanged
    <3> QED BY <1>0, <2>1, <2>3, <3>1, <3>2, LoadIsSane
  <2> QED BY <2>2, <2>3
<1>6. CASE LoadCheck(p)
  <2>1. backend = "mmap" /\ SharedUnchanged /\ UNCHANGED <<members, lapses>>
        /\ proc[p].pc = "check" /\ ~Cut(1)
    BY <1>0, <1>6 DEF LoadCheck, At, Placed
  <2>2. CASE mem[1].hdr # "full"
    <3>1. Moves(p, "idle")
      BY <1>0, <1>6, <2>2, LoadFailsMoves DEF LoadCheck
    <3>2. Becomes(p, "idle", proc[p].obj, proc[p].seg, proc[p].sem, proc[p].role)
      BY <3>1 DEF Moves
    <3> QED BY <1>0, <2>1, <3>2, QuietIsSane
  <2>3. CASE mem[1].hdr = "full"
    <3>1. Becomes(p, "log", proc[p].obj, 1, mem[1].sem, proc[p].role)
      BY <1>0, <1>6, <2>3, LoadedMoves, SegmentFacts DEF LoadCheck
    <3>2. proc[p].role = "none" /\ Kept /\ UNCHANGED mem
      BY <1>0, <2>1 DEF Placed, Kept, SharedUnchanged
    <3>3. key = 1
      BY <2>1 DEF Sane, SegmentsInUse
    <3> QED BY <1>0, <2>1, <2>3, <3>1, <3>2, <3>3, LoadIsSane
  <2> QED BY <2>2, <2>3
<1>7. CASE LogCheck(p)
  <2>1. SharedUnchanged /\ UNCHANGED <<members, lapses>> /\ proc[p].pc = "log"
    BY <1>7 DEF LogCheck, At
  <2>2. lapses = 0 => proc[p].seg # 0
    BY <1>2, <2>1 DEF NobodyLost
  <2>3. PICK l \in {"null", "log", "idle", "take"} :
          /\ Moves(p, l)
          /\ l = "null" => proc[p].seg = 0
    BY <1>0, <1>7, LogCheckMoves
  <2>4. Becomes(p, l, proc[p].obj, proc[p].seg, proc[p].sem, proc[p].role)
    BY <2>3 DEF Moves
  <2> QED BY <1>0, <2>1, <2>2, <2>3, <2>4, QuietIsSane
<1>8. CASE LogTake(p) \/ LogFill(p)
  <2>1. proc[p].seg \in Segs /\ proc[p].seg # 0
        /\ UNCHANGED <<backend, key, made, semKey, sems, alive, members, lapses>>
    BY <1>0, <1>8 DEF LogTake, LogFill, At, Placed
  <2>2. PICK l \in {"fill", "log", "idle"} : Moves(p, l)
    BY <1>0, <1>8, <2>1, LogTakeMoves, LogFillMoves, SegmentFacts DEF Data
  <2>3. \A s \in Segs : s = proc[p].seg =>
          \E i, e : Holds(s, mem[s].len, mem[s].hdr, mem[s].sem, mem[s].pid,
                          mem[s].table, i, e)
    BY <1>0, <1>8, TakeHolds, FillHolds
  <2>4. Kept /\ \A s \in Segs : mem'[s].table = mem[s].table
    BY <2>1, <2>3 DEF Kept, Holds
  <2>5. lapses' = 0 /\ key # 0 => members' \subseteq mem'[key].table
    BY <1>0, <2>1, <2>4 DEF Sane, RulesInv, RegistrationKept
  <2>6. members' # {} => Up
    BY <2>1 DEF Sane, MembersHaveMaster
  <2>7. Becomes(p, l, proc[p].obj, proc[p].seg, proc[p].sem, proc[p].role)
    BY <2>2 DEF Moves
  <2>8. p \in alive /\ proc[p].seg # 0 /\ (lapses' = 0 => lapses = 0)
    BY <1>0, <2>1
  <2> QED BY <2>2, <2>4, <2>5, <2>6, <2>7, <2>8, TalkIsSane
<1>9. CASE LockOverflows(p)
  <2>1. SharedUnchanged /\ UNCHANGED <<members, lapses>> /\ Goto(p, "overflow")
    BY <1>9 DEF LockOverflows, SharedUnchanged
  <2>2. Becomes(p, "overflow", proc[p].obj, proc[p].seg, proc[p].sem, proc[p].role)
    BY <1>1, <2>1 DEF Points
  <2>3. p \in alive
    BY <1>0
  <2> QED BY <2>1, <2>2, <2>3, QuietIsSane
<1>10. CASE BusError(p)
  <2>1. SharedUnchanged /\ UNCHANGED <<members, lapses>> /\ Goto(p, "bus")
    BY <1>10 DEF BusError, SharedUnchanged
  <2>2. Becomes(p, "bus", proc[p].obj, proc[p].seg, proc[p].sem, proc[p].role)
    BY <1>1, <2>1 DEF Points
  <2>3. lapses # 0
    <3>1. CASE proc[p].pc = "check" /\ Cut(1)
      BY <1>0, <1>2, <3>1 DEF FileIsWhole, Placed
    <3>2. CASE proc[p].seg # 0 /\ Cut(proc[p].seg)
      <4>1. CASE backend = "mmap"
        <5>1. proc[p].seg = 1
          BY <1>0, <3>2, <4>1 DEF Sane, SegmentsInUse
        <5> QED BY <1>0, <1>2, <3>2, <4>1, <5>1 DEF FileIsWhole
      <4>2. CASE backend = "shm"
        BY <1>0, <3>2, <4>2 DEF Sane, SegmentsInUse, Cut
      <4> QED BY <4>1, <4>2, Named
    <3> QED BY <1>10, <3>1, <3>2 DEF BusError
  <2> QED BY <1>0, <2>1, <2>2, <2>3, QuietIsSane
<1> QED BY <1>3, <1>4, <1>5, <1>6, <1>7, <1>8, <1>9, <1>10, TruncIsSane, SizeIsSane,
           MapIsSane, ShmGetIsSane, SemIsSane, HeadIsSane, ClearIsSane, DestroySemIsSane
        DEF Steps, create

-----------------------------------------------------------------------------
(* The theorems *)

SessionInv == BaseInv /\ RulesInv

LEMMA InitIsSane ==
  ASSUME Init
  PROVE  SessionInv
<1>0. MaxSegs \in Nat \ {0} /\ 0 \in 0 .. MaxSegs /\ 1 \in Segs /\ LogNum \in Nat \ {0}
  BY SessionAssumption DEF Segs
<1>1. NewProcess \in Process
  BY <1>0 DEF NewProcess, Process, Points
<1>2. proc \in [Procs -> Process] /\ mem \in [Segs -> Segment]
  BY <1>1, ZeroedFacts DEF Init
<1>3. \A p \in Procs : /\ proc[p].pc = "idle" /\ proc[p].obj = FALSE /\ proc[p].seg = 0
                       /\ proc[p].role = "none"
  BY DEF Init, NewProcess
<1>4. \A s \in Segs : /\ mem[s].len = "full" /\ mem[s].hdr = "zero" /\ mem[s].pid = NoProc
                      /\ mem[s].index = 0
  BY ZeroedFacts DEF Init
<1>5. TypeOK
  BY <1>0, <1>2, SessionAssumption DEF Init, TypeOK
<1>6. WellPlaced /\ SegmentsInUse /\ MembersHaveMaster
  BY <1>0, <1>3, <1>4 DEF Init, WellPlaced, Placed, Building, SegmentsInUse, MembersHaveMaster
<1>7. LogInv
  <2> SUFFICES ASSUME NEW s \in Segs PROVE LogOf(s)
    BY DEF LogInv
  <2>1. \A i \in Entries : ~(i < 0)
    BY <1>0 DEF Entries
  <2> QED BY <1>0, <1>4, <2>1, TakersFinite DEF LogOf
<1>8. RulesInv
  BY <1>0, <1>3, <1>4 DEF Init, RulesInv, OneMaster, NobodyLost, FileIsWhole,
     MasterHasSegment, NoFalseMaster, RegistrationKept
<1> QED BY <1>5, <1>6, <1>7, <1>8 DEF SessionInv, BaseInv

LEMMA NextIsSane ==
  ASSUME SessionInv, [Next]_vars
  PROVE  SessionInv'
<1>0. TypeOK /\ WellPlaced /\ LogInv /\ Sane
  BY DEF SessionInv, BaseInv, Sane
<1>1. TypeOK' /\ WellPlaced'
  BY <1>0, TypeStep
<1>2. LogInv' /\ Sane'
  <2>1. CASE UNCHANGED vars
    BY <1>0, <2>1 DEF vars, LogInv, LogOf, Takers, Sane, SegmentsInUse, MembersHaveMaster, Up,
       RulesInv, OneMaster, NobodyLost, FileIsWhole, MasterHasSegment, NoFalseMaster,
       RegistrationKept, Cut, Exclusive
  <2>2. ASSUME NEW p \in Procs, Die(p) PROVE LogInv' /\ Sane'
    <3>1. LogInv'
      BY <1>0, <2>2 DEF Die, LogInv, LogOf, Takers
    <3> QED BY <1>0, <2>2, <3>1, DieIsSane
  <2>3. ASSUME NEW p \in Procs, Calls(p) PROVE LogInv' /\ Sane'
    BY <1>0, <2>3, LogStep, CallsSane
  <2>4. ASSUME NEW p \in Procs, Steps(p) PROVE LogInv' /\ Sane'
    BY <1>0, <2>4, LogStep, StepsSane
  <2> QED BY <2>1, <2>2, <2>3, <2>4 DEF Next, Calls, Steps
<1> QED BY <1>1, <1>2 DEF SessionInv, BaseInv, Sane

\* The session invariant holds, in particular the types and the roles of the
\* processes.
THEOREM SessionInvariance == Spec => []SessionInv
BY InitIsSane, NextIsSane, PTL DEF Spec

\* Every variable of Session keeps its type.
THEOREM TypeCorrectness == Spec => []TypeOK
<1>1. SessionInv => TypeOK
  BY DEF SessionInv, BaseInv
<1> QED BY <1>1, SessionInvariance, PTL

\* add_log, whose check is made before the lock and whose text is written after
\* it: below the index no entry is lost, and the index passes the end of the
\* array by less than the number of processes.
THEOREM LogIsComplete == Spec => []LogHolds
<1>1. SessionInv => LogHolds
  <2> SUFFICES ASSUME SessionInv, NEW s \in Segs
               PROVE  /\ \A i \in Entries :
                           i < mem[s].index =>
                             \/ i \in mem[s].entries
                             \/ \E p \in Procs : /\ proc[p].pc = "fill" /\ proc[p].seg = s
                                                 /\ proc[p].entry = i
                      /\ mem[s].index < LogNum + Cardinality(Procs)
    BY DEF LogHolds
  <2>1. LogOf(s) /\ mem[s].index \in Nat
    BY SegmentFacts DEF SessionInv, BaseInv, LogInv, TypeOK
  <2>2. mem[s].index < LogNum + Cardinality(Procs)
    BY <2>1, TakersFinite, SessionAssumption DEF LogOf
  <2> QED BY <2>1, <2>2 DEF LogOf
<1> QED BY <1>1, SessionInvariance, PTL

\* While callers keep the rules, no call of the library goes through a null
\* pointer or into a file that was cut, for any interleaving of creations, loads,
\* destroys and deaths.
THEOREM AccessIsSafe == Spec => []NoWildAccess
<1>1. SessionInv => NoWildAccess
  BY DEF SessionInv, RulesInv, NobodyLost, NoWildAccess
<1> QED BY <1>1, SessionInvariance, PTL

\* While callers keep the rules, load() on the mmap back end gives a complete file
\* and its lock.
THEOREM LoadFindsBuilt == Spec => []LoadedIsBuilt
<1>1. SessionInv => LoadedIsBuilt
  <2> SUFFICES ASSUME SessionInv, lapses = 0, backend = "mmap", NEW p \in Procs,
                      proc[p].seg # 0, proc[p].role = "none"
               PROVE  mem[1].len = "full" /\ mem[1].hdr = "full" /\ Exclusive(p)
    BY DEF LoadedIsBuilt
  <2>1. FileIsWhole /\ TypeOK
    BY DEF SessionInv, BaseInv, RulesInv
  <2>2. ~Cut(1) /\ mem[1].hdr = "full" /\ Exclusive(p)
    BY <2>1 DEF FileIsWhole
  <2>3. mem[1].len \in {"empty", "full"}
    BY <2>1, Named, SegmentFacts DEF TypeOK
  <2> QED BY <2>2, <2>3 DEF Cut
<1> QED BY <1>1, SessionInvariance, PTL

\* While callers keep the rules, the session of a master that is up stays its own
\* and can be found.
THEOREM SessionIsKept == Spec => []MasterKeepsSession
<1>1. SessionInv => MasterKeepsSession
  BY DEF SessionInv, RulesInv, MasterHasSegment, MasterKeepsSession
<1> QED BY <1>1, SessionInvariance, PTL

\* While callers keep the rules, a registered asset stays in the master's table.
THEOREM MembersStay == Spec => []RegistrationKept
<1>1. SessionInv => RegistrationKept
  BY DEF SessionInv, RulesInv, RegistrationKept
<1> QED BY <1>1, SessionInvariance, PTL
=============================================================================
