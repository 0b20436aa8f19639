----------------------------- MODULE WorldTime ------------------------------
(***************************************************************************)
(* The world time and the PDU synchronisation on top of the life cycle of  *)
(* SimEvent: TheWorld (hako_time.cpp), the rest of                         *)
(* HakoMasterControllerImpl::execute, the synchronisation part of          *)
(* hako_pdu_data.hpp and the loop of the reference asset                   *)
(* (sample/base-procs/hako-asset).                                         *)
(*                                                                         *)
(* An asset runs two threads: the proxy thread of SimEvent, which reads    *)
(* events and calls the callbacks, and its main loop, which either reports *)
(* its time and follows the world time (simulation mode) or writes its     *)
(* PDUs and reports that (synchronisation mode).  None of the loop's       *)
(* accesses to shared memory is under the master lock, so each is a step.  *)
(*                                                                         *)
(* timeset.current is a copy of TheWorld's time that only the conductor    *)
(* writes, together with the original: one variable stands for both.       *)
(***************************************************************************)
EXTENDS SimEvent

CONSTANTS
  StepOf,    \* StepOf[a]: the delta_usec of asset a
  Delta,     \* delta_time_usec of the master
  MaxDelay,  \* max_delay_time_usec of the master
  MaxTime    \* bound: the world time does not move on from there

ASSUME WorldTimeAssumption ==
  /\ StepOf \in [Assets -> Nat \ {0}]
  /\ Delta \in Nat \ {0}
  /\ MaxDelay \in Nat
  /\ MaxTime \in Nat

VARIABLES
  world,  \* the world time
  ctime,  \* assets_ev[i].ctime: the time slot i last reported
  time,   \* hako_asset_time_usec of each asset
  loop,   \* the main loop of each asset: its program point, the time it holds
  pdu,    \* pdu_meta_data: mode, asset_num, the slots whose
          \*   asset_pdu_check_status is set; has the master created the area?
  wrote,  \* history: slots whose PDU write was reported since the last create
  halt    \* history: the world time when stop() was last accepted

timeVars == <<world, ctime, time, loop, pdu, wrote, halt>>
worldVars == <<simVars, timeVars>>

TimeTypeOK ==
  /\ world \in Nat
  /\ ctime \in [Slots -> Nat]
  /\ time \in [Assets -> Nat]
  /\ loop \in [Assets -> [pc : {"top", "notify", "compare", "add",
                                "sync", "count", "grant"},
                          arg : Nat]]
  /\ pdu \in [mode : {"Master", "Asset"}, asset_num : Nat,
              checked : SUBSET Slots, created : BOOLEAN]
  /\ wrote \subseteq Slots
  /\ halt \in Nat

-----------------------------------------------------------------------------
(* PDU synchronisation: hako_pdu_data.hpp *)

is_simulation_mode == pdu.mode = "Master"
is_pdu_sync_mode(i) == pdu.mode # "Master" /\ i \notin pdu.checked
is_pdu_created == pdu.asset_num > 0

\* create(asset_num): back to synchronisation.  The check status of the slots
\* is left as it is.
create ==
  /\ pdu' = [pdu EXCEPT !.mode = "Asset", !.asset_num = asset_num,
                        !.created = TRUE]
  /\ wrote' = {}

\* reset(): nothing before the first create.
reset ==
  pdu' = IF pdu.created
         THEN [pdu EXCEPT !.mode = "Asset", !.checked = {}]
         ELSE pdu

-----------------------------------------------------------------------------
(* The conductor *)

AssetTimes == {ctime[i] : i \in UsedSlots}

\* Mutant: an asset may be MaxDelay behind.
canStepLate == \A t \in AssetTimes : t + MaxDelay >= world

\* time_begins_to_move: no asset may be MaxDelay or more behind.
canStep == \A t \in AssetTimes : t + MaxDelay > world

time_begins_to_move ==
  world' = IF is_simulation_mode /\ canStep /\ world < MaxTime
           THEN world + Delta
           ELSE world

CreatePduArea ==
  /\ CreatePdu
  /\ create
  /\ UNCHANGED <<world, ctime, time, loop, halt>>

\* Under the lock: the world time and the times of all registered assets.
ResetTimes ==
  /\ ResetTime
  /\ world' = 0
  /\ ctime' = [i \in Slots |-> IF Registered(i) THEN 0 ELSE ctime[i]]
  /\ UNCHANGED <<time, loop, pdu, wrote, halt>>

ResetPduArea ==
  /\ ResetPdu
  /\ reset
  /\ UNCHANGED <<world, ctime, time, loop, wrote, halt>>

MoveWorldTime ==
  /\ MoveTime
  /\ time_begins_to_move
  /\ UNCHANGED <<ctime, time, loop, pdu, wrote, halt>>

-----------------------------------------------------------------------------
(* Commands and callbacks *)

StopAccepted(c) ==
  /\ stop(c)
  /\ halt' = world
  /\ UNCHANGED <<world, ctime, time, loop, pdu, wrote>>

\* alloc_asset also clears the slot's time; the asset starts at time 0.
Register(a) ==
  /\ asset_register(a)
  /\ ctime' = [ctime EXCEPT ![Min(FreeSlots)] = 0]
  /\ time' = [time EXCEPT ![a] = 0]
  /\ UNCHANGED <<world, loop, pdu, wrote, halt>>

\* The proxy thread reads an event and calls the callback: reset_callback
\* clears the asset's time before it gives its feedback.
Callback(a) ==
  /\ asset_get_event(a)
  /\ time' = IF seen'[a].event = "Reset" THEN [time EXCEPT ![a] = 0] ELSE time
  /\ UNCHANGED <<world, ctime, loop, pdu, wrote, halt>>

-----------------------------------------------------------------------------
(* The main loop of an asset *)

LoopUnchanged == UNCHANGED <<simVars, world, halt>>

LoopGoto(a, l) == loop' = [loop EXCEPT ![a].pc = l]

\* The head of the loop, in simulation mode: the time to report is read.
LoopSimulate(a) ==
  /\ loop[a].pc = "top"
  /\ a \in Members
  /\ is_pdu_created /\ is_simulation_mode
  /\ loop' = [loop EXCEPT ![a] = [pc |-> "notify", arg |-> time[a]]]
  /\ UNCHANGED <<ctime, time, pdu, wrote>> /\ LoopUnchanged

\* The head of the loop, in synchronisation mode: write_pdu comes next.
LoopSync(a) ==
  /\ loop[a].pc = "top"
  /\ a \in Members
  /\ is_pdu_created /\ is_pdu_sync_mode(SlotOf(a))
  /\ LoopGoto(a, "sync")
  /\ UNCHANGED <<ctime, time, pdu, wrote>> /\ LoopUnchanged

\* The time read earlier is reported, if the asset is still registered.
notify_simtime(a) ==
  /\ loop[a].pc = "notify"
  /\ ctime' = IF a \in Members THEN [ctime EXCEPT ![SlotOf(a)] = loop[a].arg]
                               ELSE ctime
  /\ LoopGoto(a, "compare")
  /\ UNCHANGED <<time, pdu, wrote>> /\ LoopUnchanged

\* get_worldtime, and the load half of hako_asset_time_usec += delta_usec.
LoopCompare(a) ==
  /\ loop[a].pc = "compare"
  /\ loop' = [loop EXCEPT ![a] =
                IF world >= time[a] THEN [pc |-> "add", arg |-> time[a]]
                                    ELSE [pc |-> "top", arg |-> 0]]
  /\ UNCHANGED <<ctime, time, pdu, wrote>> /\ LoopUnchanged

\* The store half: the addition races with reset_callback.
LoopAdd(a) ==
  /\ loop[a].pc = "add"
  /\ time' = [time EXCEPT ![a] = loop[a].arg + StepOf[a]]
  /\ loop' = [loop EXCEPT ![a] = [pc |-> "top", arg |-> 0]]
  /\ UNCHANGED <<ctime, pdu, wrote>> /\ LoopUnchanged

\* notify_write_pdu_done: mark the slot unless all have already written.
SyncMark(a) ==
  /\ loop[a].pc = "sync"
  /\ IF a \in Members /\ ~is_simulation_mode
     THEN /\ pdu' = [pdu EXCEPT !.checked = @ \cup {SlotOf(a)}]
          /\ wrote' = wrote \cup {SlotOf(a)}
          /\ LoopGoto(a, "count")
     ELSE LoopGoto(a, "top") /\ UNCHANGED <<pdu, wrote>>
  /\ UNCHANGED <<ctime, time>> /\ LoopUnchanged

\* Mutant: one asset is not waited for.
SyncCountEarly(a) ==
  /\ loop[a].pc = "count"
  /\ LoopGoto(a, IF Cardinality(pdu.checked) + 1 >= pdu.asset_num THEN "grant"
                                                                  ELSE "top")
  /\ UNCHANGED <<ctime, time, pdu, wrote>> /\ LoopUnchanged

\* Mutant: one asset too many is waited for.
SyncCountNever(a) ==
  /\ loop[a].pc = "count"
  /\ LoopGoto(a, IF Cardinality(pdu.checked) > pdu.asset_num THEN "grant"
                                                             ELSE "top")
  /\ UNCHANGED <<ctime, time, pdu, wrote>> /\ LoopUnchanged

\* notify_write_pdu_done: is everybody marked?
SyncCount(a) ==
  /\ loop[a].pc = "count"
  /\ LoopGoto(a, IF Cardinality(pdu.checked) >= pdu.asset_num THEN "grant"
                                                              ELSE "top")
  /\ UNCHANGED <<ctime, time, pdu, wrote>> /\ LoopUnchanged

\* notify_write_pdu_done: the time may move.
SyncGrant(a) ==
  /\ loop[a].pc = "grant"
  /\ pdu' = [pdu EXCEPT !.mode = "Master"]
  /\ LoopGoto(a, "top")
  /\ UNCHANGED <<ctime, time, wrote>> /\ LoopUnchanged

-----------------------------------------------------------------------------

TimeInit ==
  /\ SimInit
  /\ world = 0
  /\ ctime = [i \in Slots |-> 0]
  /\ time = [a \in Assets |-> 0]
  /\ loop = [a \in Assets |-> [pc |-> "top", arg |-> 0]]
  /\ pdu = [mode |-> "Master", asset_num |-> 0, checked |-> {},
            created |-> FALSE]
  /\ wrote = {}
  /\ halt = 0

\* The steps of SimEvent that do not touch the time or the PDU area.
UntimedCommand(c) == start(c) \/ ResetPeek(c) \/ ResetTrigger(c) \/ CmdDies(c)

UntimedConductor ==
  Peek \/ HandleAllFeedback \/ HandleWait \/ HandleTimeout \/ TriggerError
  \/ DropLate

Answer(a) == \E isOk \in Answers : feedback(a, isOk)

Untimed ==
  /\ \/ \E c \in Cmds : UntimedCommand(c)
     \/ \E p \in Publishers : publish_event(p)
     \/ UntimedConductor
     \/ \E a \in Assets : asset_unregister(a) \/ Answer(a)
  /\ UNCHANGED timeVars

MainLoop(a) ==
  \/ LoopSimulate(a) \/ LoopSync(a) \/ notify_simtime(a) \/ LoopCompare(a)
  \/ LoopAdd(a) \/ SyncMark(a) \/ SyncCount(a) \/ SyncGrant(a)

TimedConductor == CreatePduArea \/ ResetTimes \/ ResetPduArea \/ MoveWorldTime

TimeNext ==
  \/ Untimed
  \/ TimedConductor
  \/ \E c \in Cmds : StopAccepted(c)
  \/ \E a \in Assets : Register(a) \/ Callback(a) \/ MainLoop(a)

TimeSpec == TimeInit /\ [][TimeNext]_worldVars

(***************************************************************************)
(* Fairness: the conductor, every publication, both threads of every asset *)
(* keep running.                                                           *)
(***************************************************************************)
TimeFairness ==
  /\ WF_worldVars(TimedConductor \/ (UntimedConductor /\ UNCHANGED timeVars))
  /\ \A p \in Publishers :
       WF_worldVars(publish_event(p) /\ UNCHANGED timeVars)
  /\ \A a \in Assets :
       /\ WF_worldVars(Callback(a))
       /\ WF_worldVars(Answer(a) /\ UNCHANGED timeVars)
       /\ WF_worldVars(MainLoop(a))

FairTimeSpec == TimeSpec /\ TimeFairness

-----------------------------------------------------------------------------
(* Properties *)

\* While the simulation runs, world time and assets stay together: the world
\* is never MaxDelay + Delta or more ahead of what an asset has reported
\* (time_begins_to_move), and no asset is more than one step ahead of the
\* world (sample/README.md: "sync simulation time with other assets").
TimesInStep ==
  state = "Running" =>
    \A i \in UsedSlots :
      /\ world < ctime[i] + MaxDelay + Delta
      /\ time[assets[i]] <= world + StepOf[assets[i]]

\* The world time moves only after every registered asset has written its
\* PDUs since the area was created (notify_write_pdu_done counts them without
\* a lock).
WritesBeforeTime ==
  [][world' > world => \A i \in UsedSlots : i \in wrote]_worldVars

\* After stop() is accepted the world time moves at most once more, although
\* execute() read the state without the lock; it never moves while Stopped.
StopIsPrompt ==
  state \in {"Stopping", "Stopped"} => world <= halt + Delta

\* Time does not stand still while the simulation runs with some asset: the
\* conductor, which waits for slow assets, and the assets, which wait for the
\* world time, never wait for each other, so the world time reaches its bound
\* unless the simulation is stopped.
TimeGoesOn ==
  (state = "Running" /\ UsedSlots # {}) ~> (state # "Running" \/ world >= MaxTime)

\* While the simulation runs, every asset keeps reading or writing PDUs
\* (docs/README_EN.md: "loop while simulation running", read_pdu, write_pdu).
AssetsExchange ==
  \A a \in Assets :
    (state = "Running" /\ a \in Members)
      ~> (state # "Running" \/ loop[a].pc # "top")
=============================================================================
