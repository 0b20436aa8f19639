------------------------------ MODULE SimEvent ------------------------------
(***************************************************************************)
(* The life cycle of a simulation: hako_simevent_impl.cpp with the asset   *)
(* table of hako_master_data.hpp, the feedback calls of                    *)
(* hako_asset_impl.cpp, the notification of hako_internal_rpc.cpp and the  *)
(* control of HakoMasterControllerImpl::execute.                           *)
(*                                                                         *)
(* Three kinds of processes share the table: commands (start, stop,        *)
(* reset), the conductor (execute in a loop) and the assets.  A section    *)
(* under the master lock is one step (MasterLock shows the lock to be      *)
(* exclusive); everything the code does outside the lock is split into its *)
(* single reads and writes, in particular the publication of an event,     *)
(* which walks over the slots after the lock is released.                  *)
(*                                                                         *)
(* Epochs are history: they number the accepted events, so that an answer  *)
(* to something the asset read before the current event can be told from   *)
(* an answer to the current one.  No step depends on them.                 *)
(***************************************************************************)
EXTENDS Naturals, FiniteSets, FiniteSetsExt

CONSTANTS
  Assets,      \* names of the assets
  Cmds,        \* processes that issue start, stop and reset
  NoAsset,     \* HakoAsset_Unknown: the slot is free
  MaxAssets,   \* HAKO_DATA_MAX_ASSET_NUM
  MaxEvents,   \* bound: no command is issued after that many accepted events
  Slow,        \* assets whose heartbeat may be found expired
  Answers,     \* subset of BOOLEAN: the isOk values assets answer with
  JoinLate,    \* may assets register after the first event?
  AssetsLeave, \* may assets unregister?
  CmdsDie      \* may a command be killed before it is done?

ASSUME SimEventAssumption ==
  /\ NoAsset \notin Assets
  /\ MaxAssets \in Nat \ {0}
  /\ MaxEvents \in Nat
  /\ Slow \subseteq Assets
  /\ Answers \subseteq BOOLEAN
  /\ JoinLate \in BOOLEAN
  /\ AssetsLeave \in BOOLEAN
  /\ CmdsDie \in BOOLEAN
  /\ "conductor" \notin Cmds

VARIABLES
  state,      \* HakoMasterDataType.state
  assets,     \* assets[i]: the asset registered in slot i, or NoAsset
  ev,         \* assets_ev[i]: the event sent to slot i and its feedback
  asset_num,  \* HakoMasterDataType.asset_num
  cond,       \* the conductor: its program point and its local variables
  cmd,        \* cmd[c]: a reset() between its peek and its trigger
  pub,        \* pub[p]: a publication under way in process p
  seen,       \* seen[a]: the event asset a has read and not yet answered
  epoch,      \* history: number of accepted events
  ack         \* history: ack[a] is the epoch in which asset a read what it
              \*   last confirmed

simVars == <<state, assets, ev, asset_num, cond, cmd, pub, seen, epoch, ack>>

Slots == 0 .. (MaxAssets - 1)
SimState == {"Stopped", "Runnable", "Running", "Stopping", "Resetting", "Error"}
Event == {"None", "Start", "Stop", "Reset", "Error"}
Publishers == Cmds \cup {"conductor"}

SimTypeOK ==
  /\ state \in SimState
  /\ assets \in [Slots -> Assets \cup {NoAsset}]
  /\ ev \in [Slots -> [event : Event, feedback : BOOLEAN]]
  /\ asset_num \in Nat
  /\ cond \in [pc : {"peek", "handle", "publish", "drop", "create", "reset",
                     "reset_pdu", "time", "crashed"},
               late : SUBSET Slots]
  /\ cmd \in [Cmds -> {"idle", "reset_stopped", "reset_error", "crashed"}]
  /\ pub \in [Publishers ->
                [stage : {"off", "check", "write", "clear", "lookup"},
                 event : Event, slot : Slots]]
  /\ seen \in [Assets -> [event : Event, epoch : Nat]]
  /\ epoch \in Nat
  /\ ack \in [Assets -> Nat]

-----------------------------------------------------------------------------
(* The asset table *)

Registered(i) == assets[i] # NoAsset
UsedSlots == {i \in Slots : Registered(i)}
FreeSlots == Slots \ UsedSlots
Members == {assets[i] : i \in UsedSlots}
SlotOf(a) == CHOOSE i \in Slots : assets[i] = a

\* Mutant: one feedback is enough.
is_some_feedback == \E i \in UsedSlots : ev[i].feedback

is_all_feedback == \A i \in UsedSlots : ev[i].feedback

\* alloc_asset: only while Stopped, under an unused name, in the first free
\* slot.  The slot's event and feedback are left as they are.
alloc_asset(a) ==
  /\ state = "Stopped"
  /\ a \notin Members
  /\ asset_num < MaxAssets
  /\ FreeSlots # {}
  /\ assets' = [assets EXCEPT ![Min(FreeSlots)] = a]
  /\ asset_num' = asset_num + 1

\* Mutant: an asset may leave at any time.
CanFreeAnytime(a) == a \in Members

\* free_asset: only while Stopped or in Error.
CanFree(a) == state \in {"Stopped", "Error"} /\ a \in Members

\* Mutant: the number of assets is not adjusted.
free_asset_keeps_num(a) ==
  /\ CanFree(a)
  /\ assets' = [assets EXCEPT ![SlotOf(a)] = NoAsset]
  /\ UNCHANGED asset_num

free_asset(a) ==
  /\ CanFree(a)
  /\ assets' = [assets EXCEPT ![SlotOf(a)] = NoAsset]
  /\ asset_num' = asset_num - 1

-----------------------------------------------------------------------------
(* Events: a trigger under the lock, then a publication without it *)

NotPublishing == [stage |-> "off", event |-> "None", slot |-> 0]

StartPublication(p, e) ==
  pub' = [pub EXCEPT ![p] = [stage |-> "check", event |-> e, slot |-> 0]]

\* Mutant: the feedback of the previous event is not cleared.
trigger_event_keeps_feedback(p, curr, next, e) ==
  /\ state = curr \/ next = "Error"
  /\ state' = next
  /\ epoch' = epoch + 1
  /\ StartPublication(p, e)
  /\ UNCHANGED ev

\* trigger_event(curr, next, e), accepted: process p goes on to publish e.
trigger_event(p, curr, next, e) ==
  /\ \/ /\ state = curr
        /\ ev' = [i \in Slots |-> IF Registered(i)
                                  THEN [ev[i] EXCEPT !.feedback = FALSE]
                                  ELSE ev[i]]
     \/ /\ state # curr
        /\ next = "Error"
        /\ UNCHANGED ev
  /\ state' = next
  /\ epoch' = epoch + 1
  /\ StartPublication(p, e)

\* Go on with the next slot, or end the publication after the last one.
NextSlot(p) ==
  pub' = [pub EXCEPT ![p] = IF pub[p].slot + 1 < MaxAssets
                            THEN [stage |-> "check", event |-> pub[p].event,
                                  slot |-> pub[p].slot + 1]
                            ELSE NotPublishing]

Stage(p, s) == pub' = [pub EXCEPT ![p].stage = s]

TableUnchanged == UNCHANGED <<state, assets, asset_num, epoch, ack, seen>>

\* get_asset(i): a free slot is skipped.
PublishCheck(p) ==
  /\ pub[p].stage = "check"
  /\ IF Registered(pub[p].slot) THEN Stage(p, "write") ELSE NextSlot(p)
  /\ UNCHANGED <<ev, cond, cmd>>
  /\ TableUnchanged

\* A process dereferences the entry of a slot that was freed meanwhile.
Crashes(p) ==
  /\ pub' = [pub EXCEPT ![p] = NotPublishing]
  /\ IF p = "conductor"
     THEN cond' = [cond EXCEPT !.pc = "crashed"] /\ UNCHANGED cmd
     ELSE cmd' = [cmd EXCEPT ![p] = "crashed"] /\ UNCHANGED cond
  /\ UNCHANGED ev

\* The first write to the slot's event entry.  Error, and Reset for an asset
\* whose last event is Error, are confirmed on the asset's behalf, through a
\* pointer that outlives the registration.  An entry freed in time is skipped;
\* notify() dereferences one that is freed later.
PublishWrite(p) ==
  LET i == pub[p].slot
      e == pub[p].event
      confirmed == e = "Reset" /\ ev[i].event = "Error"
  IN
  /\ pub[p].stage = "write"
  /\ \/ /\ ~Registered(i)
        /\ NextSlot(p)
        /\ UNCHANGED <<ev, cond, cmd>>
     \/ /\ ~Registered(i) /\ e # "Error" /\ ~confirmed
        /\ Crashes(p)
     \/ /\ confirmed
        /\ ev' = [ev EXCEPT ![i].feedback = TRUE]
        /\ NextSlot(p)
        /\ UNCHANGED <<cond, cmd>>
     \/ /\ e = "Error" \/ (Registered(i) /\ ~confirmed)
        /\ ev' = [ev EXCEPT ![i].event = e]
        /\ Stage(p, "clear")
        /\ UNCHANGED <<cond, cmd>>
  /\ TableUnchanged

\* The second write: notify() clears the feedback that it waits for, an Error
\* is confirmed at once.  The pointer was taken before, so the write happens
\* even when the slot was freed meanwhile.
PublishClear(p) ==
  LET i == pub[p].slot IN
  /\ pub[p].stage = "clear"
  /\ IF pub[p].event = "Error"
     THEN ev' = [ev EXCEPT ![i].feedback = TRUE] /\ NextSlot(p)
     ELSE ev' = [ev EXCEPT ![i].feedback = FALSE] /\ Stage(p, "lookup")
  /\ UNCHANGED <<cond, cmd>>
  /\ TableUnchanged

\* notify() looks the asset up once more for its callbacks; a polling asset
\* has none and reads the event itself.
PublishLookup(p) ==
  /\ pub[p].stage = "lookup"
  /\ IF Registered(pub[p].slot)
     THEN NextSlot(p) /\ UNCHANGED <<ev, cond, cmd>>
     ELSE Crashes(p)
  /\ TableUnchanged

publish_event(p) ==
  PublishCheck(p) \/ PublishWrite(p) \/ PublishClear(p) \/ PublishLookup(p)

-----------------------------------------------------------------------------
(* Commands *)

Ready(c) ==
  /\ cmd[c] = "idle"
  /\ pub[c].stage = "off"
  /\ epoch < MaxEvents

CmdUnchanged == UNCHANGED <<assets, asset_num, cond, seen, ack>>

start(c) ==
  /\ Ready(c)
  /\ trigger_event(c, "Stopped", "Runnable", "Start")
  /\ UNCHANGED cmd /\ CmdUnchanged

stop(c) ==
  /\ Ready(c)
  /\ trigger_event(c, "Running", "Stopping", "Stop")
  /\ UNCHANGED cmd /\ CmdUnchanged

\* reset() looks at the state without the lock to choose its transition.
ResetPeek(c) ==
  /\ Ready(c)
  /\ \/ state = "Stopped" /\ cmd' = [cmd EXCEPT ![c] = "reset_stopped"]
     \/ state = "Error" /\ cmd' = [cmd EXCEPT ![c] = "reset_error"]
  /\ UNCHANGED <<state, ev, epoch, pub>> /\ CmdUnchanged

\* The trigger re-checks the state under the lock and may be refused.
ResetTrigger(c) ==
  /\ cmd[c] \in {"reset_stopped", "reset_error"}
  /\ LET curr == IF cmd[c] = "reset_stopped" THEN "Stopped" ELSE "Error"
         next == IF cmd[c] = "reset_stopped" THEN "Resetting" ELSE "Stopped"
     IN \/ trigger_event(c, curr, next, "Reset")
        \/ state # curr /\ UNCHANGED <<state, ev, epoch, pub>>
  /\ cmd' = [cmd EXCEPT ![c] = "idle"]
  /\ CmdUnchanged

\* The command's process is killed with its work half done.
CmdDies(c) ==
  /\ CmdsDie
  /\ cmd[c] # "crashed"
  /\ pub[c].stage # "off" \/ cmd[c] # "idle"
  /\ cmd' = [cmd EXCEPT ![c] = "crashed"]
  /\ pub' = [pub EXCEPT ![c] = NotPublishing]
  /\ UNCHANGED <<state, ev, epoch>> /\ CmdUnchanged

-----------------------------------------------------------------------------
(* The conductor: one execute() after another *)

sim_event_needs_handling(s) == s \in {"Runnable", "Stopping", "Resetting"}

CondGoto(l) == cond' = [cond EXCEPT !.pc = l]

CondUnchanged == UNCHANGED <<cmd, seen, ack>>

\* do_event_handling reads the state without the lock; outside the
\* transitional states there is nothing to handle.
Peek ==
  /\ cond.pc = "peek"
  /\ CondGoto(CASE sim_event_needs_handling(state) -> "handle"
                [] state = "Running" -> "time"
                [] OTHER -> "peek")
  /\ UNCHANGED <<state, assets, ev, asset_num, pub, epoch>> /\ CondUnchanged

\* Under the lock: every registered asset has confirmed, the state moves on.
HandleAllFeedback ==
  /\ cond.pc = "handle"
  /\ is_all_feedback
  /\ CASE state = "Runnable"  -> state' = "Running" /\ CondGoto("create")
       [] state = "Stopping"  -> state' = "Stopped" /\ CondGoto("peek")
       [] state = "Resetting" -> state' = "Stopped" /\ CondGoto("reset")
       [] OTHER               -> UNCHANGED state /\ CondGoto("peek")
  /\ UNCHANGED <<assets, ev, asset_num, pub, epoch>> /\ CondUnchanged

\* Under the lock: some feedback is missing and no heartbeat has expired.
HandleWait ==
  /\ cond.pc = "handle"
  /\ ~is_all_feedback
  /\ CondGoto("peek")
  /\ UNCHANGED <<state, assets, ev, asset_num, pub, epoch>> /\ CondUnchanged

\* Mutant: heartbeats are only looked at during a start.
HandleTimeoutOfStart ==
  /\ cond.pc = "handle"
  /\ ~is_all_feedback
  /\ state = "Runnable"
  /\ \E late \in SUBSET {i \in UsedSlots : assets[i] \in Slow} :
       /\ late # {}
       /\ cond' = [pc |-> "publish", late |-> late]
  /\ UNCHANGED <<state, assets, ev, asset_num, pub, epoch>> /\ CondUnchanged

\* Under the lock: some feedback is missing and heartbeats have expired (of
\* assets that have answered as well as of assets that have not).
HandleTimeout ==
  /\ cond.pc = "handle"
  /\ ~is_all_feedback
  /\ sim_event_needs_handling(state)
  /\ \E late \in SUBSET {i \in UsedSlots : assets[i] \in Slow} :
       /\ late # {}
       /\ cond' = [pc |-> "publish", late |-> late]
  /\ UNCHANGED <<state, assets, ev, asset_num, pub, epoch>> /\ CondUnchanged

\* trigger_event(Any, Error, Error): a section of its own.
TriggerError ==
  /\ cond.pc = "publish"
  /\ pub["conductor"].stage = "off"
  /\ trigger_event("conductor", "Any", "Error", "Error")
  /\ CondGoto("drop")
  /\ UNCHANGED <<assets, asset_num>> /\ CondUnchanged

\* The loop over the late assets after the publication: each is looked up by
\* its slot and unregistered by the name found there.
DropLate ==
  /\ cond.pc = "drop"
  /\ pub["conductor"].stage = "off"
  /\ IF cond.late = {}
     THEN /\ CondGoto("peek")
          /\ UNCHANGED <<assets, asset_num>>
     ELSE LET i == Min(cond.late) IN
          IF ~Registered(i)
          THEN /\ CondGoto("crashed")
               /\ UNCHANGED <<assets, asset_num>>
          ELSE /\ cond' = [cond EXCEPT !.late = @ \ {i}]
               /\ \/ free_asset(assets[i])
                  \/ ~CanFree(assets[i]) /\ UNCHANGED <<assets, asset_num>>
  /\ UNCHANGED <<state, ev, pub, epoch>> /\ CondUnchanged

\* create_pdu_data after Runnable -> Running; time may move at once.
CreatePdu ==
  /\ cond.pc = "create"
  /\ CondGoto("time")
  /\ UNCHANGED <<state, assets, ev, asset_num, pub, epoch>> /\ CondUnchanged

\* After Resetting -> Stopped: the times, then the PDU area.
ResetTime ==
  /\ cond.pc = "reset"
  /\ CondGoto("reset_pdu")
  /\ UNCHANGED <<state, assets, ev, asset_num, pub, epoch>> /\ CondUnchanged

ResetPdu ==
  /\ cond.pc = "reset_pdu"
  /\ CondGoto("peek")
  /\ UNCHANGED <<state, assets, ev, asset_num, pub, epoch>> /\ CondUnchanged

\* Mutant: the state is not looked at again between two moves.
MoveTimeAgain ==
  /\ cond.pc = "time"
  /\ UNCHANGED <<state, assets, ev, asset_num, cond, pub, epoch>>
  /\ CondUnchanged

\* The end of execute() for next = Running: the world time may move.
MoveTime ==
  /\ cond.pc = "time"
  /\ CondGoto("peek")
  /\ UNCHANGED <<state, assets, ev, asset_num, pub, epoch>> /\ CondUnchanged

-----------------------------------------------------------------------------
(* Assets *)

AssetUnchanged == UNCHANGED <<state, cond, cmd, pub, epoch>>

asset_register(a) ==
  /\ JoinLate \/ epoch = 0
  /\ alloc_asset(a)
  /\ seen' = [seen EXCEPT ![a] = [event |-> "None", epoch |-> 0]]
  /\ UNCHANGED <<ev, ack>> /\ AssetUnchanged

asset_unregister(a) ==
  /\ AssetsLeave
  /\ free_asset(a)
  /\ seen' = [seen EXCEPT ![a] = [event |-> "None", epoch |-> 0]]
  /\ UNCHANGED <<ev, ack>> /\ AssetUnchanged

\* asset_get_event returns an event that asks for an answer.
asset_get_event(a) ==
  /\ a \in Members
  /\ seen[a].event = "None"
  /\ LET e == ev[SlotOf(a)].event IN
       /\ e \in {"Start", "Stop", "Reset"}
       /\ seen' = [seen EXCEPT ![a] = [event |-> e, epoch |-> epoch]]
  /\ UNCHANGED <<assets, ev, asset_num, ack>> /\ AssetUnchanged

\* The state in which the answer to an event is expected.
ExpState(e) == CASE e = "Start" -> "Runnable"
                 [] e = "Stop"  -> "Stopping"
                 [] e = "Reset" -> "Resetting"

\* start_feedback, stop_feedback or reset_feedback, as the event read asks
\* for.  The slot's event is set to None whatever it was by now.
feedback(a, isOk) ==
  /\ seen[a].event # "None"
  /\ seen' = [seen EXCEPT ![a] = [event |-> "None", epoch |-> 0]]
  /\ IF a \in Members
     THEN LET ok == isOk /\ state = ExpState(seen[a].event) IN
          /\ ev' = [ev EXCEPT ![SlotOf(a)].feedback = ok,
                              ![SlotOf(a)].event = "None"]
          /\ ack' = IF ok THEN [ack EXCEPT ![a] = seen[a].epoch] ELSE ack
     ELSE UNCHANGED <<ev, ack>>
  /\ UNCHANGED <<assets, asset_num>> /\ AssetUnchanged

-----------------------------------------------------------------------------

SimInit ==
  /\ state = "Stopped"
  /\ assets = [i \in Slots |-> NoAsset]
  /\ ev = [i \in Slots |-> [event |-> "None", feedback |-> FALSE]]
  /\ asset_num = 0
  /\ cond = [pc |-> "peek", late |-> {}]
  /\ cmd = [c \in Cmds |-> "idle"]
  /\ pub = [p \in Publishers |-> NotPublishing]
  /\ seen = [a \in Assets |-> [event |-> "None", epoch |-> 0]]
  /\ epoch = 0
  /\ ack = [a \in Assets |-> 0]

CommandStep(c) == start(c) \/ stop(c) \/ ResetPeek(c) \/ ResetTrigger(c)
                  \/ CmdDies(c)

execute ==
  \/ Peek \/ HandleAllFeedback \/ HandleWait \/ HandleTimeout \/ TriggerError
  \/ DropLate \/ CreatePdu \/ ResetTime \/ ResetPdu \/ MoveTime

PollAndAnswer(a) == asset_get_event(a) \/ \E isOk \in Answers : feedback(a, isOk)

AssetStep(a) == asset_register(a) \/ asset_unregister(a) \/ PollAndAnswer(a)

SimNext ==
  \/ \E c \in Cmds : CommandStep(c)
  \/ \E p \in Publishers : publish_event(p)
  \/ execute
  \/ \E a \in Assets : AssetStep(a)

SimSpec == SimInit /\ [][SimNext]_simVars

(***************************************************************************)
(* Fairness: the conductor and every publication keep running, assets poll *)
(* and answer.  The heartbeat of an asset that stays silent expires, so a  *)
(* conductor that keeps looking eventually finds it expired.               *)
(***************************************************************************)
SimFairness ==
  /\ WF_simVars(execute)
  /\ SF_simVars(HandleTimeout)
  /\ \A p \in Publishers : WF_simVars(publish_event(p))
  /\ \A c \in Cmds : WF_simVars(ResetTrigger(c))
  /\ \A a \in Assets : WF_simVars(PollAndAnswer(a))

FairSimSpec == SimSpec /\ SimFairness

-----------------------------------------------------------------------------
(* Properties *)

\* The asset table stays consistent although assets unregister themselves
\* while the conductor unregisters late assets: asset_num is the number of
\* used slots (create_pdu_data sizes the PDU bookkeeping with it) and no name
\* occupies two slots.
TableConsistent ==
  /\ asset_num = Cardinality(UsedSlots)
  /\ \A i, j \in UsedSlots : assets[i] = assets[j] => i = j

\* The conductor leaves a transitional state only when every registered asset
\* has confirmed this very start, stop or reset: it read the event after the
\* command was accepted and answered it itself.
TransitionsConfirmed ==
  [][(sim_event_needs_handling(state) /\ state' \in {"Running", "Stopped"})
       => \A i \in UsedSlots : ack[assets[i]] = epoch]_simVars

\* While the simulation runs, every registered asset has confirmed the start
\* that led to it (docs/README_EN.md: start_callback, start_feedback, then
\* "loop while simulation running").
RunningIsConfirmed ==
  state = "Running" => \A i \in UsedSlots : ack[assets[i]] = epoch

\* No transitional state lasts for ever, even if the command that caused it
\* dies before it has told all assets, or an asset never answers: feedback
\* ends it or an expired heartbeat turns it into Error.
TransitionsEnd ==
  sim_event_needs_handling(state) ~> ~sim_event_needs_handling(state)

\* When every asset polls its events and confirms each, a start leads to
\* Running without the help of a timeout (docs/README_EN.md: start_callback,
\* start_feedback, then "loop while simulation running").
StartCompletes == state = "Runnable" ~> state = "Running"

\* The members that have confirmed the last accepted event.
Confirmed == {a \in Members : epoch > 0 /\ ack[a] = epoch}

Promise == INSTANCE LifeCycle WITH members <- Members, confirmed <- Confirmed

\* Triggers, publications slot by slot, polling and feedback implement the
\* request, confirm, complete of LifeCycle: no transition completes on an
\* answer to an earlier event, none is taken back, and nobody joins or leaves
\* in the middle of one.
ImplementsLifeCycle == Promise!LifeSpec
=============================================================================
