--------------------------- MODULE WorldTimeProofs ---------------------------
(***************************************************************************)
(* Proofs about WorldTime: every behaviour of the timed system is one of   *)
(* SimEvent, so what SimEventProofs proves carries over; the world time    *)
(* stops promptly, stays in step with the assets and waits for their PDUs. *)
(***************************************************************************)
EXTENDS WorldTime, SimEventProofs

\* Every step of the timed system is a step of the life cycle or leaves it
\* alone.
LEMMA TimedStepIsSimStep == [TimeNext]_worldVars => [SimNext]_simVars
<1> SUFFICES ASSUME [TimeNext]_worldVars PROVE [SimNext]_simVars
  OBVIOUS
<1>1. CASE UNCHANGED worldVars
  BY <1>1 DEF worldVars
<1>2. CASE Untimed
  BY <1>2 DEF Untimed, UntimedCommand, UntimedConductor, Answer, SimNext, CommandStep,
              execute, AssetStep, PollAndAnswer
<1>3. CASE TimedConductor
  BY <1>3 DEF TimedConductor, CreatePduArea, ResetTimes, ResetPduArea, MoveWorldTime,
              SimNext, execute
<1>4. CASE \E c \in Cmds : StopAccepted(c)
  BY <1>4 DEF StopAccepted, SimNext, CommandStep
<1>5. ASSUME NEW a \in Assets, Register(a) \/ Callback(a) PROVE SimNext
  BY <1>5 DEF Register, Callback, SimNext, AssetStep, PollAndAnswer
<1>6. ASSUME NEW a \in Assets, MainLoop(a) PROVE UNCHANGED simVars
  BY <1>6 DEF MainLoop, LoopSimulate, LoopSync, notify_simtime, LoopCompare, LoopAdd,
              SyncMark, SyncCount, SyncGrant, LoopUnchanged
<1> QED BY <1>1, <1>2, <1>3, <1>4, <1>5, <1>6 DEF TimeNext

\* Time and PDU synchronisation add nothing to the life cycle: the timed
\* system implements it.
THEOREM TimedImplementsLifeCycle == TimeSpec => SimSpec
<1>1. TimeInit => SimInit
  BY DEF TimeInit
<1> QED BY <1>1, TimedStepIsSimStep, PTL DEF TimeSpec, SimSpec

\* What SimEventProofs shows about the asset table holds here too: no two
\* slots share a name and asset_num, which create_pdu_data copies, counts them.
THEOREM TimedTableConsistent == TimeSpec => []TableConsistent
BY TimedImplementsLifeCycle, TableStaysConsistent, PTL

\* With time and PDU synchronisation on top, a running simulation still means
\* that every registered asset confirmed the start that led to it, provided
\* that no heartbeat expires and assets register before the first command.
THEOREM TimedRunningMeansConfirmed ==
  ASSUME Slow = {}, JoinLate = FALSE
  PROVE  TimeSpec => []RunningIsConfirmed
BY TimedImplementsLifeCycle, RunningMeansConfirmed, PTL

\* Under the same provisos the timed system, too, looks like the request,
\* confirm, complete of LifeCycle: execute() does more between two looks at the
\* state, and callbacks write the asset's time, but no transition ends earlier.
THEOREM TimedKeepsPromise ==
  ASSUME Slow = {}, JoinLate = FALSE
  PROVE  TimeSpec => ImplementsLifeCycle
BY TimedImplementsLifeCycle, LifeCycleKeepsPromise, PTL

-----------------------------------------------------------------------------
(* Types *)

LoopTypes == [pc : {"top", "notify", "compare", "add", "sync", "count", "grant"},
              arg : Nat]
PduTypes == [mode : {"Master", "Asset"}, asset_num : Nat,
             checked : SUBSET Slots, created : BOOLEAN]

LEMMA LoopTypesStep ==
  ASSUME SimTypeOK, TimeTypeOK, NEW a \in Assets, MainLoop(a)
  PROVE  TimeTypeOK'
<1>1. /\ loop \in [Assets -> LoopTypes]
      /\ pdu \in PduTypes
      /\ time \in [Assets -> Nat]
      /\ ctime \in [Slots -> Nat]
      /\ wrote \subseteq Slots
      /\ StepOf[a] \in Nat
  BY WorldTimeAssumption DEF TimeTypeOK, LoopTypes, PduTypes
<1>2. a \in Members => SlotOf(a) \in Slots
  BY SlotFacts
<1>3. loop[a].arg \in Nat /\ time[a] \in Nat
  BY <1>1 DEF LoopTypes
<1>4. loop' \in [Assets -> LoopTypes]
  <2>1. \/ \E l \in {"top", "compare", "sync", "count", "grant"} : LoopGoto(a, l)
        \/ \E l \in {"notify", "add", "top"}, t \in Nat :
             loop' = [loop EXCEPT ![a] = [pc |-> l, arg |-> t]]
    <3>1. CASE LoopCompare(a)
      <4>1. CASE world >= time[a]
        BY <1>3, <3>1, <4>1 DEF LoopCompare
      <4>2. CASE ~(world >= time[a])
        BY <3>1, <4>2 DEF LoopCompare
      <4> QED BY <4>1, <4>2
    <3>2. CASE SyncCount(a)
      <4>1. CASE Cardinality(pdu.checked) >= pdu.asset_num
        BY <3>2, <4>1 DEF SyncCount
      <4>2. CASE ~(Cardinality(pdu.checked) >= pdu.asset_num)
        BY <3>2, <4>2 DEF SyncCount
      <4> QED BY <4>1, <4>2
    <3> QED BY <1>3, <3>1, <3>2
            DEF MainLoop, LoopSimulate, LoopSync, notify_simtime, LoopAdd, SyncMark,
                SyncGrant
  <2>2. CASE \E l \in {"top", "compare", "sync", "count", "grant"} : LoopGoto(a, l)
    <3>1. PICK l \in {"top", "compare", "sync", "count", "grant"} : LoopGoto(a, l)
      BY <2>2
    <3>2. [loop[a] EXCEPT !.pc = l] \in LoopTypes
      BY <1>1, <3>1 DEF LoopTypes
    <3> QED BY <1>1, <3>1, <3>2 DEF LoopGoto
  <2>3. CASE \E l \in {"notify", "add", "top"}, t \in Nat :
               loop' = [loop EXCEPT ![a] = [pc |-> l, arg |-> t]]
    BY <1>1, <2>3 DEF LoopTypes
  <2> QED BY <2>1, <2>2, <2>3
<1>5. pdu' \in PduTypes
  <2>1. \/ pdu' = pdu
        \/ a \in Members /\ pdu' = [pdu EXCEPT !.checked = @ \cup {SlotOf(a)}]
        \/ pdu' = [pdu EXCEPT !.mode = "Master"]
    BY DEF MainLoop, LoopSimulate, LoopSync, notify_simtime, LoopCompare, LoopAdd,
           SyncMark, SyncCount, SyncGrant
  <2> QED BY <1>1, <1>2, <2>1 DEF PduTypes
<1>6. time' \in [Assets -> Nat]
  BY <1>1, <1>3
  DEF MainLoop, LoopSimulate, LoopSync, notify_simtime, LoopCompare, LoopAdd,
      SyncMark, SyncCount, SyncGrant
<1>7. ctime' \in [Slots -> Nat]
  BY <1>1, <1>2, <1>3
  DEF MainLoop, LoopSimulate, LoopSync, notify_simtime, LoopCompare, LoopAdd,
      SyncMark, SyncCount, SyncGrant
<1>8. wrote' \subseteq Slots
  BY <1>1, <1>2
  DEF MainLoop, LoopSimulate, LoopSync, notify_simtime, LoopCompare, LoopAdd,
      SyncMark, SyncCount, SyncGrant
<1>9. UNCHANGED <<world, halt>>
  BY DEF MainLoop, LoopSimulate, LoopSync, notify_simtime, LoopCompare, LoopAdd,
      SyncMark, SyncCount, SyncGrant, LoopUnchanged
<1> QED BY <1>4, <1>5, <1>6, <1>7, <1>8, <1>9 DEF TimeTypeOK, LoopTypes, PduTypes

LEMMA TimeTypesStep ==
  ASSUME SimTypeOK, TimeTypeOK, TimeNext
  PROVE  TimeTypeOK'
<1>1. CASE Untimed
  BY <1>1 DEF Untimed, timeVars, TimeTypeOK
<1>2. CASE CreatePduArea
  BY <1>2 DEF CreatePduArea, create, TimeTypeOK, SimTypeOK
<1>3. CASE ResetTimes
  BY <1>3 DEF ResetTimes, TimeTypeOK
<1>4. CASE ResetPduArea
  <2>1. pdu' \in PduTypes
    BY <1>4 DEF ResetPduArea, reset, TimeTypeOK, PduTypes
  <2> QED BY <1>4, <2>1 DEF ResetPduArea, TimeTypeOK, PduTypes
<1>5. CASE MoveWorldTime
  <2>1. world' \in {world, world + Delta}
    BY <1>5 DEF MoveWorldTime, time_begins_to_move
  <2>2. world' \in Nat
    BY <2>1, WorldTimeAssumption DEF TimeTypeOK
  <2> QED BY <1>5, <2>2 DEF MoveWorldTime, TimeTypeOK
<1>6. CASE \E c \in Cmds : StopAccepted(c)
  BY <1>6 DEF StopAccepted, TimeTypeOK
<1>7. ASSUME NEW a \in Assets, Register(a) PROVE TimeTypeOK'
  <2>1. Min(FreeSlots) \in Slots
    BY <1>7, AllocFacts DEF Register, asset_register, alloc_asset
  <2> QED BY <1>7, <2>1 DEF Register, TimeTypeOK
<1>8. ASSUME NEW a \in Assets, Callback(a) PROVE TimeTypeOK'
  BY <1>8 DEF Callback, TimeTypeOK
<1>9. ASSUME NEW a \in Assets, MainLoop(a) PROVE TimeTypeOK'
  BY <1>9, LoopTypesStep
<1> QED BY <1>1, <1>2, <1>3, <1>4, <1>5, <1>6, <1>7, <1>8, <1>9
        DEF TimeNext, TimedConductor

-----------------------------------------------------------------------------
(* The world time after a stop *)

\* What makes StopIsPrompt inductive.  The conductor decides to move the time
\* from a state that it read without the lock; as long as that decision is
\* pending outside Running, the time has not moved since the stop.  And the
\* Error transition, which knows no previous state, never starts from Running.
StopInv ==
  /\ state # "Running" => world <= halt + Delta
  /\ state # "Running" /\ cond.pc \in {"create", "time"} => world <= halt
  /\ cond.pc = "publish" => sim_event_needs_handling(state)

\* The life cycle's part: a state other than Running is entered from Running
\* by stop() only, and the time may move only if Running was seen.
LEMMA LeavingRunning ==
  ASSUME SimTypeOK, SimNext, ~\E c \in Cmds : stop(c),
         cond.pc = "publish" => sim_event_needs_handling(state)
  PROVE  /\ state = "Running" => state' = "Running"
         /\ cond'.pc = "publish" => sim_event_needs_handling(state')
         /\ state' # "Running" /\ cond'.pc \in {"create", "time"}
              => state # "Running" /\ cond.pc \in {"create", "time"}
<1> USE DEF sim_event_needs_handling
<1>1. ASSUME NEW c \in Cmds, CommandStep(c)
      PROVE  /\ UNCHANGED cond
             /\ state' = state \/ state \in {"Stopped", "Error"}
             /\ state = "Running" \/ state' # "Running"
  BY <1>1 DEF CommandStep, start, ResetPeek, ResetTrigger, CmdDies, CmdUnchanged,
              trigger_event
<1>2. ASSUME NEW p \in Publishers, publish_event(p)
      PROVE  UNCHANGED state /\ cond'.pc \in {cond.pc, "crashed"}
  BY <1>2 DEF publish_event, PublishCheck, PublishWrite, PublishClear, PublishLookup,
              TableUnchanged, Crashes, SimTypeOK
<1>3. ASSUME NEW a \in Assets, AssetStep(a) PROVE UNCHANGED <<state, cond>>
  BY <1>3 DEF AssetStep, asset_register, asset_unregister, PollAndAnswer,
              asset_get_event, feedback, AssetUnchanged
<1>4. CASE Peek
  <2>1. CASE state = "Running"
    BY <1>4, <2>1 DEF Peek, CondGoto, SimTypeOK
  <2>2. CASE state # "Running"
    BY <1>4, <2>2 DEF Peek, CondGoto, SimTypeOK
  <2> QED BY <2>1, <2>2
<1>5. CASE HandleAllFeedback
  BY <1>5 DEF HandleAllFeedback, CondGoto, SimTypeOK
<1>6. CASE HandleTimeout
  BY <1>6 DEF HandleTimeout
<1>7. CASE HandleWait \/ CreatePdu \/ ResetTime \/ ResetPdu \/ MoveTime
  BY <1>7 DEF HandleWait, CreatePdu, ResetTime, ResetPdu, MoveTime, CondGoto, SimTypeOK
<1>8. CASE TriggerError
  BY <1>8 DEF TriggerError, trigger_event, CondGoto, SimTypeOK
<1>9. CASE DropLate
  BY <1>9 DEF DropLate, CondGoto, SimTypeOK
<1>10. CASE execute
  BY <1>4, <1>5, <1>6, <1>7, <1>8, <1>9, <1>10 DEF execute
<1>11. CASE \E c \in Cmds : CommandStep(c)
  BY <1>1, <1>11 DEF SimTypeOK
<1> QED BY <1>2, <1>3, <1>10, <1>11 DEF SimNext

LEMMA StopStep ==
  ASSUME SimTypeOK, TimeTypeOK, StopInv, [TimeNext]_worldVars
  PROVE  StopInv'
<1>0. world \in Nat /\ halt \in Nat /\ Delta \in Nat
  BY WorldTimeAssumption DEF TimeTypeOK
<1>1. CASE \E c \in Cmds : StopAccepted(c)
  BY <1>0, <1>1 DEF StopAccepted, stop, trigger_event, CmdUnchanged, StopInv,
                    sim_event_needs_handling
<1>2. CASE UNCHANGED <<state, cond, world, halt>>
  BY <1>2 DEF StopInv
<1>3. CASE MoveWorldTime
  <2>1. /\ cond.pc = "time" /\ cond'.pc = "peek"
        /\ UNCHANGED <<state, halt>>
        /\ world' \in {world, world + Delta}
    BY <1>3 DEF MoveWorldTime, MoveTime, CondGoto, time_begins_to_move, SimTypeOK
  <2> QED BY <1>0, <2>1 DEF StopInv
<1>4. CASE /\ SimNext /\ ~\E c \in Cmds : stop(c)
           /\ UNCHANGED halt /\ world' \in {0, world}
  BY <1>0, <1>4, LeavingRunning DEF StopInv
<1>5. CASE Untimed \/ CreatePduArea \/ ResetTimes \/ ResetPduArea
           \/ \E a \in Assets : Register(a) \/ Callback(a)
  <2>1. UNCHANGED halt /\ world' \in {0, world}
    BY <1>5 DEF Untimed, timeVars, CreatePduArea, ResetTimes, ResetPduArea, Register,
                Callback
  <2>2. CASE UNCHANGED <<state, cond>>
    BY <1>0, <2>1, <2>2 DEF StopInv
  <2>3. CASE ~UNCHANGED <<state, cond>>
    <3>1. SimNext
      BY <1>5, <2>3, TimedStepIsSimStep DEF simVars
    <3>2. CASE \E c \in Cmds : stop(c)
      <4>1. UNCHANGED cond /\ state = "Running" /\ state' = "Stopping"
        BY <3>2 DEF stop, trigger_event, CmdUnchanged
      <4> QED BY <1>5, <4>1
              DEF Untimed, UntimedCommand, start, ResetPeek, ResetTrigger, CmdDies,
                  trigger_event, UntimedConductor, Peek, HandleAllFeedback, HandleWait,
                  HandleTimeout, TriggerError, DropLate, publish_event, PublishCheck,
                  PublishWrite, PublishClear, PublishLookup, TableUnchanged,
                  CreatePduArea, CreatePdu, ResetTimes, ResetTime, ResetPduArea,
                  ResetPdu, Register, Callback, Answer, asset_register,
                  asset_unregister, asset_get_event, feedback, AssetUnchanged
    <3> QED BY <1>4, <2>1, <3>1, <3>2
  <2> QED BY <2>2, <2>3
<1>6. CASE \E a \in Assets : MainLoop(a)
  BY <1>2, <1>6 DEF MainLoop, LoopSimulate, LoopSync, notify_simtime, LoopCompare,
                    LoopAdd, SyncMark, SyncCount, SyncGrant, LoopUnchanged, simVars
<1>7. CASE UNCHANGED worldVars
  BY <1>2, <1>7 DEF worldVars, simVars, timeVars
<1> QED BY <1>1, <1>3, <1>5, <1>6, <1>7 DEF TimeNext, TimedConductor

LEMMA TimeInvariance == TimeSpec => [](SimTypeOK /\ TimeTypeOK /\ StopInv)
<1>1. TimeInit => TimeTypeOK /\ StopInv
  BY WorldTimeAssumption DEF TimeInit, TimeTypeOK, StopInv, SimInit
<1>2. SimTypeOK /\ TimeTypeOK /\ [TimeNext]_worldVars => TimeTypeOK'
  <2>1. UNCHANGED worldVars /\ TimeTypeOK => TimeTypeOK'
    BY DEF worldVars, timeVars, TimeTypeOK
  <2> QED BY <2>1, TimeTypesStep
<1>3. SimTypeOK /\ TimeTypeOK /\ StopInv /\ [TimeNext]_worldVars => StopInv'
  BY StopStep
<1>4. TimeSpec => []SimTypeOK
  BY TimedImplementsLifeCycle, TypeCorrectness, PTL
<1> QED BY <1>1, <1>2, <1>3, <1>4, PTL DEF TimeSpec

\* The types of the timed system.
THEOREM TimeTypeCorrectness == TimeSpec => []TimeTypeOK
BY TimeInvariance, PTL

\* After stop() is accepted the world time moves at most once more, by Delta,
\* until the next start, for any number of assets and of events, with any
\* delays, heartbeats that expire, commands that die and assets that leave.
THEOREM StopTakesEffect == TimeSpec => []StopIsPrompt
<1>1. StopInv => StopIsPrompt
  BY DEF StopInv, StopIsPrompt
<1> QED BY <1>1, TimeInvariance, PTL

-----------------------------------------------------------------------------
(* The PDU area and the life cycle *)

\* The area is created on the way to the first Running state, after the first
\* event; before that the main loops stay at their head.  The conductor is
\* taken out of the middle of execute() only by a crash while it publishes.
AreaInv ==
  /\ cond.pc = "time" => pdu.created
  /\ state = "Running" => pdu.created \/ cond.pc = "create"
  /\ epoch = 0 => state = "Stopped" /\ ~pdu.created /\ cond.pc # "create"
  /\ pub["conductor"].stage # "off" => cond.pc \in {"drop", "crashed"}

LoopsWait ==
  ~pdu.created => /\ pdu.asset_num = 0
                  /\ pdu.checked = {}
                  /\ \A a \in Assets : loop[a].pc = "top"

\* The steps of the life cycle that leave the area alone.
LEMMA AreaLifeStep ==
  ASSUME SimTypeOK, AreaInv, SimNext, ~CreatePdu, pdu'.created = pdu.created
  PROVE  AreaInv'
<1>0. "conductor" \in Publishers /\ "conductor" \notin Cmds /\ epoch \in Nat
  BY SimEventAssumption DEF Publishers, SimTypeOK
<1>1. ASSUME NEW c \in Cmds, CommandStep(c)
      PROVE  /\ UNCHANGED cond
             /\ state' = state \/ (state' # "Running" /\ epoch' = epoch + 1)
             /\ epoch' \in {epoch, epoch + 1}
             /\ pub'["conductor"] = pub["conductor"]
  BY <1>0, <1>1 DEF CommandStep, start, stop, ResetPeek, ResetTrigger, CmdDies,
              CmdUnchanged, trigger_event, StartPublication, SimTypeOK
<1>2. ASSUME NEW p \in Publishers, publish_event(p)
      PROVE  /\ UNCHANGED <<state, epoch>>
             /\ p # "conductor" => UNCHANGED cond /\ pub'["conductor"] = pub["conductor"]
             /\ p = "conductor" => pub["conductor"].stage # "off"
             /\ cond'.pc \in {cond.pc, "crashed"}
  <2>1. /\ UNCHANGED <<state, epoch>>
        /\ pub[p].stage # "off"
        /\ UNCHANGED cond \/ (p = "conductor" /\ cond' = [cond EXCEPT !.pc = "crashed"])
    BY <1>2 DEF publish_event, PublishCheck, PublishWrite, PublishClear, PublishLookup,
                TableUnchanged, Crashes
  <2>2. \E x : pub' = [pub EXCEPT ![p] = x]
    BY <1>2 DEF publish_event, PublishCheck, PublishWrite, PublishClear, PublishLookup,
                Crashes, NextSlot, Stage
  <2> QED BY <1>0, <2>1, <2>2 DEF SimTypeOK
<1>3. ASSUME NEW a \in Assets, AssetStep(a) PROVE UNCHANGED <<state, cond, epoch, pub>>
  BY <1>3 DEF AssetStep, asset_register, asset_unregister, PollAndAnswer,
              asset_get_event, feedback, AssetUnchanged
<1>4. CASE Peek
  <2>1. UNCHANGED <<state, pub, epoch>> /\ cond.pc = "peek"
    BY <1>4 DEF Peek
  <2>2. cond'.pc \in {"peek", "handle", "time"} /\ (cond'.pc = "time" => state = "Running")
    <3>1. CASE sim_event_needs_handling(state)
      BY <1>4, <3>1 DEF Peek, CondGoto, SimTypeOK, sim_event_needs_handling
    <3>2. CASE state = "Running"
      BY <1>4, <3>2 DEF Peek, CondGoto, SimTypeOK, sim_event_needs_handling
    <3>3. CASE ~sim_event_needs_handling(state) /\ state # "Running"
      BY <1>4, <3>3 DEF Peek, CondGoto, SimTypeOK
    <3> QED BY <3>1, <3>2, <3>3
  <2> QED BY <2>1, <2>2 DEF AreaInv
<1>5. CASE HandleAllFeedback
  BY <1>5 DEF HandleAllFeedback, CondGoto, SimTypeOK, AreaInv
<1>6. CASE HandleTimeout \/ HandleWait \/ ResetTime \/ ResetPdu \/ MoveTime
  <2>1. UNCHANGED <<state, pub, epoch>>
    BY <1>6 DEF HandleTimeout, HandleWait, ResetTime, ResetPdu, MoveTime
  <2>2. /\ cond'.pc \in {"publish", "peek", "reset_pdu"}
        /\ cond.pc \in {"handle", "reset", "reset_pdu", "time"}
    BY <1>6 DEF HandleTimeout, HandleWait, ResetTime, ResetPdu, MoveTime, CondGoto, SimTypeOK
  <2> QED BY <2>1, <2>2 DEF AreaInv
<1>7. CASE TriggerError
  <2>1. state' = "Error" /\ epoch' = epoch + 1 /\ cond'.pc = "drop"
    BY <1>7 DEF TriggerError, trigger_event, CondGoto, SimTypeOK
  <2> QED BY <1>0, <2>1 DEF AreaInv
<1>8. CASE DropLate
  <2>1. UNCHANGED <<state, pub, epoch>> /\ pub["conductor"].stage = "off"
    BY <1>8 DEF DropLate
  <2>2. cond'.pc \in {"peek", "crashed", "drop"} /\ cond.pc = "drop"
    BY <1>8 DEF DropLate, CondGoto, SimTypeOK
  <2> QED BY <2>1, <2>2 DEF AreaInv
<1>9. CASE execute
  BY <1>4, <1>5, <1>6, <1>7, <1>8, <1>9 DEF execute
<1>10. CASE \E c \in Cmds : CommandStep(c)
  BY <1>0, <1>1, <1>10 DEF AreaInv
<1>11. CASE \E p \in Publishers : publish_event(p)
  BY <1>2, <1>11 DEF AreaInv
<1>12. CASE \E a \in Assets : AssetStep(a)
  BY <1>3, <1>12 DEF AreaInv
<1> QED BY <1>9, <1>10, <1>11, <1>12 DEF SimNext

\* A main loop that does anything finds the area created.
LEMMA LoopNeedsArea ==
  ASSUME TimeTypeOK, LoopsWait, NEW a \in Assets, MainLoop(a)
  PROVE  pdu.created
<1>1. ASSUME ~pdu.created PROVE FALSE
  <2>1. loop[a].pc = "top" /\ ~(pdu.asset_num > 0)
    BY <1>1 DEF LoopsWait
  <2> QED BY <2>1 DEF MainLoop, LoopSimulate, LoopSync, notify_simtime, LoopCompare, LoopAdd,
                      SyncMark, SyncCount, SyncGrant, is_pdu_created
<1> QED BY <1>1

\* Of the PDU area, every other step than create leaves created alone.
LEMMA AreaStep ==
  ASSUME SimTypeOK, TimeTypeOK, AreaInv, LoopsWait, [TimeNext]_worldVars
  PROVE  AreaInv' /\ LoopsWait'
<1>0. pdu \in PduTypes
  BY DEF TimeTypeOK, PduTypes
<1>1. CASE CreatePduArea
  <2>1. /\ cond.pc = "create" /\ cond'.pc = "time"
        /\ UNCHANGED <<state, pub, epoch>>
        /\ pdu'.created = TRUE
    BY <1>0, <1>1 DEF CreatePduArea, CreatePdu, CondGoto, create, SimTypeOK, PduTypes
  <2> QED BY <2>1 DEF AreaInv, LoopsWait
<1>2. CASE ResetPduArea
  <2>1. /\ pdu'.created = pdu.created
        /\ ~pdu.created => pdu' = pdu
        /\ UNCHANGED loop
    BY <1>0, <1>2 DEF ResetPduArea, reset, PduTypes
  <2>2. SimNext /\ ~CreatePdu
    BY <1>2 DEF ResetPduArea, ResetPdu, CreatePdu, SimNext, execute
  <2> QED BY <2>1, <2>2, AreaLifeStep DEF LoopsWait
<1>3. CASE \E a \in Assets : MainLoop(a)
  <2>1. PICK a \in Assets : MainLoop(a)
    BY <1>3
  <2>2. pdu.created
    BY <2>1, LoopNeedsArea
  <2>3. UNCHANGED simVars
    BY <2>1 DEF MainLoop, LoopSimulate, LoopSync, notify_simtime, LoopCompare, LoopAdd,
                SyncMark, SyncCount, SyncGrant, LoopUnchanged
  <2>4. \/ pdu' = pdu
        \/ pdu' = [pdu EXCEPT !.checked = @ \cup {SlotOf(a)}]
        \/ pdu' = [pdu EXCEPT !.mode = "Master"]
    BY <2>1 DEF MainLoop, LoopSimulate, LoopSync, notify_simtime, LoopCompare, LoopAdd,
           SyncMark, SyncCount, SyncGrant
  <2>5. pdu'.created = pdu.created
    BY <1>0, <2>4 DEF PduTypes
  <2> QED BY <2>2, <2>3, <2>5 DEF AreaInv, LoopsWait, simVars
<1>4. CASE \/ Untimed \/ ResetTimes \/ MoveWorldTime
           \/ \E c \in Cmds : StopAccepted(c)
           \/ \E a \in Assets : Register(a) \/ Callback(a)
           \/ UNCHANGED worldVars
  <2>1. UNCHANGED <<loop, pdu>>
    BY <1>4 DEF Untimed, timeVars, worldVars, ResetTimes, MoveWorldTime, StopAccepted,
                Register, Callback
  <2>2. CASE UNCHANGED simVars
    BY <2>1, <2>2 DEF AreaInv, LoopsWait, simVars
  <2>3. CASE SimNext /\ ~CreatePdu
    BY <2>1, <2>3, AreaLifeStep DEF LoopsWait
  <2>4. CASE SimNext /\ CreatePdu
    <3>1. /\ cond.pc = "create" /\ cond'.pc = "time" /\ UNCHANGED <<state, pub, epoch>>
      BY <2>4 DEF CreatePdu, CondGoto, SimTypeOK
    <3>2. FALSE
      BY <1>4, <3>1
      DEF Untimed, UntimedCommand, start, ResetPeek, ResetTrigger, CmdDies,
          CmdUnchanged, UntimedConductor, Peek, HandleAllFeedback, HandleWait, HandleTimeout,
          TriggerError, DropLate, publish_event, PublishCheck, PublishWrite, PublishClear,
          PublishLookup, Crashes, TableUnchanged, Answer, feedback, asset_unregister,
          AssetUnchanged, ResetTimes, ResetTime, MoveWorldTime, MoveTime, StopAccepted, stop,
          Register, asset_register, Callback, asset_get_event, worldVars, simVars, SimTypeOK
    <3> QED BY <3>2
  <2> QED BY <2>2, <2>3, <2>4, TimedStepIsSimStep
<1> QED BY <1>1, <1>2, <1>3, <1>4 DEF TimeNext, TimedConductor

LEMMA AreaInvariance == TimeSpec => [](AreaInv /\ LoopsWait)
<1>1. TimeInit => AreaInv /\ LoopsWait
  BY SimEventAssumption DEF TimeInit, SimInit, AreaInv, LoopsWait, NotPublishing, Publishers
<1> QED BY <1>1, AreaStep, TimeInvariance, PTL DEF TimeSpec

-----------------------------------------------------------------------------
(* World time and assets in step *)

\* No reset once the simulation has run: the reset of the times is not under
\* one lock with the main loops, and MCWorldTimeReset.cfg shows what it does to
\* a loop that is under way.
NoResetAfterRun == pdu.created => state # "Resetting"

\* All times are zero until the area is there.
ZeroBefore ==
  /\ ~pdu.created => /\ world = 0
                     /\ \A i \in Slots : ctime[i] = 0
                     /\ \A a \in Assets : time[a] = 0
  /\ cond.pc \in {"reset", "reset_pdu"} => ~pdu.created

\* What a slot reports is not ahead of its asset, nor of a report on its way.
SlotTimes ==
  \A i \in UsedSlots :
    /\ ctime[i] <= time[assets[i]]
    /\ loop[assets[i]].pc = "notify" => ctime[i] <= loop[assets[i]].arg
    /\ world < ctime[i] + MaxDelay + Delta

\* An asset is at most its step ahead; a report on its way is not ahead of the
\* asset, an addition half done is still about the asset's time.
OwnTimes ==
  \A a \in Assets :
    /\ time[a] <= world + StepOf[a]
    /\ loop[a].pc = "notify" => loop[a].arg <= time[a]
    /\ loop[a].pc = "add" => loop[a].arg = time[a] /\ loop[a].arg <= world

StepInv == ZeroBefore /\ SlotTimes /\ OwnTimes

\* As long as everything is zero and no loop is under way, all is well.
LEMMA AllZero ==
  SimTypeOK /\ TimeTypeOK /\ ~pdu.created /\ ZeroBefore /\ LoopsWait => StepInv
<1> SUFFICES ASSUME SimTypeOK, TimeTypeOK, ~pdu.created, ZeroBefore, LoopsWait
             PROVE  StepInv
  OBVIOUS
<1>1. /\ world = 0 /\ \A i \in Slots : ctime[i] = 0
      /\ \A a \in Assets : time[a] = 0 /\ loop[a].pc = "top"
  BY DEF ZeroBefore, LoopsWait
<1>2. \A i \in UsedSlots : i \in Slots /\ assets[i] \in Assets
  BY DEF SimTypeOK, UsedSlots, Registered
<1>3. MaxDelay \in Nat /\ Delta \in Nat \ {0} /\ \A a \in Assets : StepOf[a] \in Nat
  BY WorldTimeAssumption
<1>4. SlotTimes
  BY <1>1, <1>2, <1>3 DEF SlotTimes
<1>5. OwnTimes
  BY <1>1, <1>3 DEF OwnTimes
<1> QED BY <1>4, <1>5 DEF StepInv

\* The steps of a main loop.
LEMMA LoopInStep ==
  ASSUME TableInv, TimeTypeOK, LoopsWait, StepInv, NEW a \in Assets, MainLoop(a)
  PROVE  StepInv'
<1>1. pdu.created
  BY LoopNeedsArea DEF StepInv
<1>2. UNCHANGED <<state, assets, cond, world>> /\ UsedSlots' = UsedSlots
  BY DEF MainLoop, LoopSimulate, LoopSync, notify_simtime, LoopCompare, LoopAdd,
         SyncMark, SyncCount, SyncGrant, LoopUnchanged, simVars, UsedSlots, Registered
<1>3. pdu'.created
  <2>1. \/ pdu' = pdu
        \/ pdu' = [pdu EXCEPT !.checked = @ \cup {SlotOf(a)}]
        \/ pdu' = [pdu EXCEPT !.mode = "Master"]
    BY DEF MainLoop, LoopSimulate, LoopSync, notify_simtime, LoopCompare, LoopAdd,
           SyncMark, SyncCount, SyncGrant
  <2>2. pdu \in PduTypes
    BY DEF TimeTypeOK, PduTypes
  <2> QED BY <1>1, <2>1, <2>2 DEF PduTypes
<1>4. ZeroBefore'
  BY <1>1, <1>2, <1>3 DEF StepInv, ZeroBefore
<1>5. /\ \A i \in UsedSlots : i \in Slots /\ assets[i] \in Assets /\ ctime[i] \in Nat
      /\ \A b \in Assets : time[b] \in Nat /\ StepOf[b] \in Nat /\ loop[b].arg \in Nat
      /\ world \in Nat /\ MaxDelay \in Nat /\ Delta \in Nat
  BY WorldTimeAssumption
  DEF TableInv, SimTypeOK, TimeTypeOK, LoopTypes, UsedSlots, Registered
<1>6. /\ loop \in [Assets -> LoopTypes] /\ time \in [Assets -> Nat]
      /\ ctime \in [Slots -> Nat]
  BY DEF TimeTypeOK, LoopTypes
<1>7. SlotTimes /\ OwnTimes
  BY DEF StepInv
<1>8. CASE /\ UNCHANGED <<ctime, time>>
           /\ \A b \in Assets \ {a} : loop'[b] = loop[b]
           /\ loop'[a].pc \in {"top", "sync", "count", "grant", "compare"}
  BY <1>2, <1>4, <1>5, <1>7, <1>8 DEF StepInv, SlotTimes, OwnTimes
<1>9. CASE LoopSimulate(a)
  <2>1. /\ UNCHANGED <<ctime, time>>
        /\ \A b \in Assets \ {a} : loop'[b] = loop[b]
        /\ loop'[a].pc = "notify" /\ loop'[a].arg = time[a]
    BY <1>6, <1>9 DEF LoopSimulate
  <2>2. SlotTimes'
    BY <1>2, <1>5, <1>7, <2>1 DEF SlotTimes
  <2>3. OwnTimes'
    BY <1>2, <1>5, <1>7, <2>1 DEF OwnTimes
  <2> QED BY <1>4, <2>2, <2>3 DEF StepInv
<1>10. CASE notify_simtime(a)
  <2>1. /\ UNCHANGED time
        /\ \A b \in Assets \ {a} : loop'[b] = loop[b]
        /\ loop'[a].pc = "compare"
        /\ loop[a].pc = "notify"
    BY <1>6, <1>10 DEF notify_simtime, LoopGoto, LoopTypes
  <2>2. \A i \in UsedSlots :
          ctime'[i] = ctime[i] \/ (assets[i] = a /\ ctime'[i] = loop[a].arg)
    <3>1. CASE a \in Members
      <4>1. SlotOf(a) \in Slots /\ assets[SlotOf(a)] = a
        BY <3>1, SlotFacts DEF TableInv
      <4> QED BY <1>5, <1>6, <1>10, <3>1, <4>1 DEF notify_simtime
    <3>2. CASE a \notin Members
      BY <1>10, <3>2 DEF notify_simtime
    <3> QED BY <3>1, <3>2
  <2>3. \A i \in UsedSlots : ctime[i] <= ctime'[i] /\ ctime'[i] <= time[assets[i]]
                             /\ ctime'[i] \in Nat
    BY <1>5, <1>7, <2>1, <2>2 DEF SlotTimes, OwnTimes
  <2>4. \A i \in UsedSlots : loop'[assets[i]].pc = "notify" =>
          assets[i] # a /\ ctime'[i] = ctime[i] /\ loop'[assets[i]] = loop[assets[i]]
    BY <1>5, <2>1, <2>2
  <2>5. SlotTimes'
    <3> SUFFICES ASSUME NEW i \in UsedSlots
                 PROVE  /\ ctime'[i] <= time'[assets'[i]]
                        /\ loop'[assets'[i]].pc = "notify" =>
                             ctime'[i] <= loop'[assets'[i]].arg
                        /\ world' < ctime'[i] + MaxDelay + Delta
      BY <1>2 DEF SlotTimes
    <3>1. ctime'[i] <= time'[assets'[i]]
      BY <1>2, <2>1, <2>3
    <3>2. loop'[assets'[i]].pc = "notify" => ctime'[i] <= loop'[assets'[i]].arg
      BY <1>2, <1>7, <2>4 DEF SlotTimes
    <3>3. world' < ctime'[i] + MaxDelay + Delta
      BY <1>2, <1>5, <1>7, <2>3 DEF SlotTimes
    <3> QED BY <3>1, <3>2, <3>3
  <2>6. OwnTimes'
    BY <1>2, <1>5, <1>7, <2>1 DEF OwnTimes
  <2> QED BY <1>4, <2>5, <2>6 DEF StepInv
<1>11. CASE LoopCompare(a)
  <2>1. CASE world >= time[a]
    <3>1. /\ UNCHANGED <<ctime, time>>
          /\ \A b \in Assets \ {a} : loop'[b] = loop[b]
          /\ loop'[a].pc = "add" /\ loop'[a].arg = time[a]
      BY <1>6, <1>11, <2>1 DEF LoopCompare
    <3>2. SlotTimes'
      BY <1>2, <1>5, <1>7, <3>1 DEF SlotTimes
    <3>3. OwnTimes'
      BY <1>2, <1>5, <1>7, <2>1, <3>1 DEF OwnTimes
    <3> QED BY <1>4, <3>2, <3>3 DEF StepInv
  <2>2. CASE ~(world >= time[a])
    BY <1>6, <1>8, <1>11, <2>2 DEF LoopCompare
  <2> QED BY <2>1, <2>2
<1>12. CASE LoopAdd(a)
  <2>1. /\ UNCHANGED ctime
        /\ \A b \in Assets \ {a} : loop'[b] = loop[b] /\ time'[b] = time[b]
        /\ loop'[a].pc = "top"
        /\ time'[a] = loop[a].arg + StepOf[a]
        /\ loop[a].pc = "add"
    BY <1>6, <1>12 DEF LoopAdd
  <2>2. loop[a].arg = time[a] /\ loop[a].arg <= world
    BY <1>7, <2>1 DEF OwnTimes
  <2>3. time'[a] <= world + StepOf[a] /\ time[a] <= time'[a] /\ time'[a] \in Nat
    BY <1>5, <2>1, <2>2
  <2>4. \A b \in Assets : time[b] <= time'[b] /\ time'[b] \in Nat
    BY <1>5, <2>1, <2>3
  <2>5. \A i \in UsedSlots : ctime[i] <= time'[assets[i]]
    BY <1>5, <1>7, <2>4 DEF SlotTimes
  <2>6. SlotTimes'
    BY <1>2, <1>5, <1>7, <2>1, <2>5 DEF SlotTimes
  <2>7. OwnTimes'
    BY <1>2, <1>5, <1>7, <2>1, <2>3 DEF OwnTimes
  <2> QED BY <1>4, <2>6, <2>7 DEF StepInv
<1>13. CASE LoopSync(a)
  BY <1>6, <1>8, <1>13 DEF LoopSync, LoopGoto, LoopTypes
<1>14. CASE SyncMark(a)
  BY <1>6, <1>8, <1>14 DEF SyncMark, LoopGoto, LoopTypes
<1>15. CASE SyncCount(a)
  BY <1>6, <1>8, <1>15 DEF SyncCount, LoopGoto, LoopTypes
<1>16. CASE SyncGrant(a)
  BY <1>6, <1>8, <1>16 DEF SyncGrant, LoopGoto, LoopTypes
<1> QED BY <1>9, <1>10, <1>11, <1>12, <1>13, <1>14, <1>15, <1>16 DEF MainLoop

\* The steps of the life cycle: registration comes before the area exists, and
\* the slots in use become fewer afterwards.
LEMMA TableShrinks ==
  ASSUME JoinLate = FALSE, TableInv, [SimNext]_simVars, epoch # 0
  PROVE  /\ UsedSlots' \subseteq UsedSlots
         /\ \A i \in UsedSlots' : assets'[i] = assets[i]
<1>1. CASE UNCHANGED assets
  BY <1>1 DEF UsedSlots, Registered
<1>2. ASSUME NEW a, free_asset(a)
      PROVE  /\ UsedSlots' \subseteq UsedSlots
             /\ \A i \in UsedSlots' : assets'[i] = assets[i]
  <2>1. SlotOf(a) \in Slots /\ assets' = [assets EXCEPT ![SlotOf(a)] = NoAsset]
    BY <1>2, SlotFacts DEF free_asset, CanFree, TableInv
  <2> QED BY <2>1 DEF TableInv, SimTypeOK, UsedSlots, Registered
<1>3. CASE \E c \in Cmds : CommandStep(c)
  BY <1>1, <1>3 DEF CommandStep, start, stop, ResetPeek, ResetTrigger, CmdDies, CmdUnchanged
<1>4. CASE \E p \in Publishers : publish_event(p)
  BY <1>1, <1>4 DEF publish_event, PublishCheck, PublishWrite, PublishClear, PublishLookup,
                    TableUnchanged
<1>5. CASE execute
  BY <1>1, <1>2, <1>5
  DEF execute, Peek, HandleAllFeedback, HandleWait, HandleTimeout, TriggerError, DropLate,
      CreatePdu, ResetTime, ResetPdu, MoveTime
<1>6. CASE \E a \in Assets : AssetStep(a)
  BY <1>1, <1>2, <1>6 DEF AssetStep, asset_register, asset_unregister, PollAndAnswer,
                          asset_get_event, feedback
<1>7. CASE UNCHANGED simVars
  BY <1>1, <1>7 DEF simVars
<1> QED BY <1>3, <1>4, <1>5, <1>6, <1>7 DEF SimNext

\* Only the end of a reset leads to the reset of the times.
LEMMA ResetPoints ==
  ASSUME SimTypeOK, [SimNext]_simVars, ~ResetTime,
         cond'.pc \in {"reset", "reset_pdu"}
  PROVE  cond.pc \in {"reset", "reset_pdu"} \/ state = "Resetting"
<1>1. CASE UNCHANGED cond
  BY <1>1
<1>2. CASE \E c \in Cmds : CommandStep(c)
  BY <1>1, <1>2 DEF CommandStep, start, stop, ResetPeek, ResetTrigger, CmdDies, CmdUnchanged
<1>3. CASE \E p \in Publishers : publish_event(p)
  BY <1>1, <1>3 DEF publish_event, PublishCheck, PublishWrite, PublishClear, PublishLookup,
                    TableUnchanged, Crashes, SimTypeOK
<1>4. CASE Peek
  <2>1. \E l \in {"peek", "handle", "time"} : CondGoto(l)
    BY <1>4 DEF Peek, sim_event_needs_handling
  <2> QED BY <2>1 DEF CondGoto, SimTypeOK
<1>5. CASE HandleAllFeedback
  BY <1>5 DEF HandleAllFeedback, CondGoto, SimTypeOK
<1>6. CASE execute
  BY <1>1, <1>4, <1>5, <1>6
  DEF execute, HandleWait, HandleTimeout, TriggerError, DropLate,
      CreatePdu, ResetPdu, MoveTime, CondGoto, SimTypeOK
<1>7. CASE \E a \in Assets : AssetStep(a)
  BY <1>1, <1>7 DEF AssetStep, asset_register, asset_unregister, PollAndAnswer,
                    asset_get_event, feedback, AssetUnchanged
<1> QED BY <1>1, <1>2, <1>3, <1>6, <1>7 DEF SimNext, simVars

LEMMA InStepStep ==
  ASSUME JoinLate = FALSE, TableInv, EventsAreCurrent, TimeTypeOK, SimTypeOK', TimeTypeOK',
         AreaInv, LoopsWait, LoopsWait', NoResetAfterRun, StepInv, [TimeNext]_worldVars
  PROVE  StepInv'
<1>1. /\ ZeroBefore /\ SlotTimes /\ OwnTimes /\ SimTypeOK /\ [SimNext]_simVars
      /\ pdu \in PduTypes
  BY TimedStepIsSimStep DEF StepInv, TableInv, TimeTypeOK, PduTypes
<1>2. CASE CreatePduArea
  <2>1. UNCHANGED <<assets, world, ctime, time, loop>> /\ cond'.pc = "time" /\ pdu'.created
    BY <1>1, <1>2 DEF CreatePduArea, CreatePdu, CondGoto, create, SimTypeOK, PduTypes
  <2>2. ZeroBefore'
    BY <2>1 DEF ZeroBefore
  <2> QED BY <1>1, <2>1, <2>2 DEF StepInv, SlotTimes, OwnTimes, UsedSlots, Registered
<1>3. CASE ~pdu.created /\ ~CreatePduArea
  <2>1. pdu' = pdu
    <3>1. ~\E a \in Assets : MainLoop(a)
      BY <1>3, LoopNeedsArea
    <3> QED BY <1>3, <3>1
            DEF TimeNext, TimedConductor, Untimed, timeVars, worldVars, ResetTimes,
                MoveWorldTime, StopAccepted, Register, Callback, ResetPduArea, reset
  <2>2. world' = 0
    <3>1. ~MoveWorldTime
      BY <1>3 DEF MoveWorldTime, MoveTime, AreaInv
    <3>2. UNCHANGED world \/ world' = 0
      BY <1>3, <3>1, LoopNeedsArea
      DEF TimeNext, TimedConductor, Untimed, timeVars, worldVars, ResetTimes,
          StopAccepted, Register, Callback, ResetPduArea
    <3> QED BY <1>1, <1>3, <3>2 DEF ZeroBefore
  <2>3. \A i \in Slots : ctime'[i] = 0
    <3>1. \/ UNCHANGED ctime
          \/ ctime' = [i \in Slots |-> IF Registered(i) THEN 0 ELSE ctime[i]]
          \/ ctime' = [ctime EXCEPT ![Min(FreeSlots)] = 0]
      BY <1>3, LoopNeedsArea
      DEF TimeNext, TimedConductor, Untimed, timeVars, worldVars, ResetTimes, MoveWorldTime,
          StopAccepted, Register, Callback, ResetPduArea
    <3> QED BY <1>1, <1>3, <3>1 DEF ZeroBefore, TimeTypeOK
  <2>4. \A a \in Assets : time'[a] = 0
    <3>1. \/ UNCHANGED time
          \/ \E a \in Assets : time' = [time EXCEPT ![a] = 0]
      BY <1>3, LoopNeedsArea
      DEF TimeNext, TimedConductor, Untimed, timeVars, worldVars, ResetTimes, MoveWorldTime,
          StopAccepted, Register, Callback, ResetPduArea
    <3> QED BY <1>1, <1>3, <3>1 DEF ZeroBefore, TimeTypeOK
  <2>5. ZeroBefore'
    BY <1>3, <2>1, <2>2, <2>3, <2>4 DEF ZeroBefore
  <2>6. (SimTypeOK /\ TimeTypeOK /\ ~pdu.created /\ ZeroBefore /\ LoopsWait => StepInv)'
    BY AllZero, PTL
  <2> QED BY <1>3, <2>1, <2>5, <2>6
<1>4. CASE pdu.created /\ \E a \in Assets : MainLoop(a)
  BY <1>4, LoopInStep
<1>5. CASE /\ pdu.created /\ ~CreatePduArea
           /\ ~\E a \in Assets : MainLoop(a)
  <2>1. epoch # 0 /\ cond.pc \notin {"reset", "reset_pdu"} /\ state # "Resetting"
    BY <1>1, <1>5 DEF AreaInv, ZeroBefore, NoResetAfterRun
  <2>2. ~ResetTimes /\ ~ResetPduArea /\ ~ResetTime
    BY <2>1 DEF ResetTimes, ResetTime, ResetPduArea, ResetPdu
  <2>3. ~\E a \in Assets : Register(a)
    BY <2>1 DEF Register, asset_register
  <2>4. ASSUME NEW a \in Assets, Callback(a) PROVE UNCHANGED time
    <3>1. /\ SlotOf(a) \in Slots
          /\ seen' = [seen EXCEPT ![a] = [event |-> ev[SlotOf(a)].event, epoch |-> epoch]]
          /\ seen \in [Assets -> [event : Event, epoch : Nat]]
      BY <1>1, <2>4, SlotFacts DEF Callback, asset_get_event, SimTypeOK
    <3>2. seen'[a].event = ev[SlotOf(a)].event
      BY <3>1
    <3>3. seen'[a].event # "Reset"
      BY <2>1, <3>1, <3>2 DEF EventsAreCurrent, Expected, ExpState
    <3> QED BY <2>4, <3>3 DEF Callback
  <2>5. UNCHANGED <<ctime, time, loop, pdu>>
    BY <1>5, <2>2, <2>3, <2>4
    DEF TimeNext, TimedConductor, Untimed, timeVars, worldVars, MoveWorldTime,
        StopAccepted, Callback
  <2>6. ZeroBefore'
    BY <1>1, <1>5, <2>1, <2>2, <2>5, ResetPoints DEF ZeroBefore
  <2>7. UsedSlots' \subseteq UsedSlots /\ \A i \in UsedSlots' : assets'[i] = assets[i]
    BY <1>1, <2>1, TableShrinks
  <2>8. CASE UNCHANGED world
    BY <1>1, <2>5, <2>6, <2>7, <2>8 DEF StepInv, SlotTimes, OwnTimes
  <2>9. CASE world' # world
    <3>1. MoveWorldTime
      BY <1>5, <2>2, <2>3, <2>9
      DEF TimeNext, TimedConductor, Untimed, timeVars, worldVars, StopAccepted, Callback
    <3>2. world' = world + Delta /\ \A i \in UsedSlots : ctime[i] + MaxDelay > world
      BY <2>9, <3>1 DEF MoveWorldTime, time_begins_to_move, canStep, AssetTimes
    <3>3. /\ world \in Nat /\ Delta \in Nat /\ MaxDelay \in Nat
          /\ \A i \in UsedSlots : i \in Slots /\ ctime[i] \in Nat
          /\ \A a \in Assets : time[a] \in Nat /\ StepOf[a] \in Nat
      BY WorldTimeAssumption DEF TimeTypeOK, UsedSlots
    <3>4. \A i \in UsedSlots : world' < ctime[i] + MaxDelay + Delta
      BY <3>2, <3>3
    <3>5. SlotTimes'
      BY <1>1, <2>5, <2>7, <3>4 DEF SlotTimes
    <3>6. \A a \in Assets : loop[a].pc = "add" => loop[a].arg \in Nat
      BY DEF TimeTypeOK
    <3>7. OwnTimes'
      BY <1>1, <2>5, <3>2, <3>3, <3>6 DEF OwnTimes
    <3> QED BY <2>6, <3>5, <3>7 DEF StepInv
  <2> QED BY <2>8, <2>9
<1> QED BY <1>2, <1>3, <1>4, <1>5

\* While the simulation runs the world time is never MaxDelay + Delta or more
\* ahead of what an asset has reported, and no asset is more than its own step
\* ahead of the world, although neither side takes a lock: for any number of
\* assets, steps, delays, starts and stops, with assets that leave and commands
\* that die.  Provided that no heartbeat expires, that assets register before
\* the first command, and that nobody resets a simulation that has run: with
\* such a reset it fails (MCWorldTimeReset.cfg).
THEOREM TimesStayInStep ==
  ASSUME Slow = {}, JoinLate = FALSE
  PROVE  TimeSpec /\ []NoResetAfterRun => []TimesInStep
<1> DEFINE Base == /\ TableInv /\ EventsAreCurrent /\ SimTypeOK /\ TimeTypeOK
                   /\ AreaInv /\ LoopsWait
<1>1. TimeInit => StepInv
  BY WorldTimeAssumption
  DEF TimeInit, SimInit, StepInv, ZeroBefore, SlotTimes, OwnTimes, UsedSlots, Registered
<1>2. Base /\ Base' /\ NoResetAfterRun /\ StepInv /\ [TimeNext]_worldVars => StepInv'
  BY InStepStep
<1>3. TableInv /\ LifeCycleInv => EventsAreCurrent
  BY DEF LifeCycleInv
<1>4. TimeSpec => []Base
  BY <1>3, TimedImplementsLifeCycle, LifeCycleInvariance, TimeInvariance, AreaInvariance, PTL
<1>5. Base /\ StepInv => TimesInStep
  <2> SUFFICES ASSUME StepInv, SimTypeOK PROVE TimesInStep
    OBVIOUS
  <2>1. \A i \in UsedSlots : assets[i] \in Assets
    BY DEF SimTypeOK, UsedSlots, Registered
  <2> QED BY <2>1 DEF StepInv, SlotTimes, OwnTimes, TimesInStep
<1> QED BY <1>1, <1>2, <1>4, <1>5, PTL DEF TimeSpec

-----------------------------------------------------------------------------
(* PDUs before time *)

\* The area is created once: a second create leaves the marks of the first
\* round behind.
CreatedOnce == cond.pc = "create" => ~pdu.created

\* Marked slots have written; slots marked or in use are no more than create
\* counted, so that the marks, once as many, cover every slot in use.
MarksWrote ==
  pdu.created => /\ pdu.checked \subseteq wrote
                 /\ Cardinality(pdu.checked \cup UsedSlots) <= pdu.asset_num
                 /\ pdu.mode = "Master" => UsedSlots \subseteq wrote

\* Whoever is about to let the time move has counted everybody.
GrantsWrote ==
  \A a \in Assets : loop[a].pc = "grant" => UsedSlots \subseteq wrote

WriteInv == MarksWrote /\ GrantsWrote

\* Marks as many as counted are marks of all.
LEMMA CountedAll ==
  ASSUME NEW C \in SUBSET Slots, NEW U \in SUBSET Slots, NEW n \in Nat,
         Cardinality(C \cup U) <= n, Cardinality(C) >= n
  PROVE  U \subseteq C
<1>1. IsFiniteSet(C \cup U) /\ C \subseteq C \cup U
  BY ConstantFacts, FS_Subset
<1>2. /\ IsFiniteSet(C) /\ Cardinality(C) <= Cardinality(C \cup U)
      /\ Cardinality(C) = Cardinality(C \cup U) => C = C \cup U
  BY <1>1, FS_Subset
<1>3. Cardinality(C) \in Nat /\ Cardinality(C \cup U) \in Nat
  BY <1>1, <1>2, FS_CardinalityType
<1>4. Cardinality(C) = Cardinality(C \cup U)
  BY <1>2, <1>3
<1> QED BY <1>2, <1>4

\* Fewer slots in use or marked are fewer to count.
LEMMA FewerToCount ==
  ASSUME NEW S \in SUBSET Slots, NEW T \in SUBSET S, NEW n \in Nat, Cardinality(S) <= n
  PROVE  Cardinality(T) <= n
<1>1. IsFiniteSet(S)
  BY ConstantFacts, FS_Subset
<1>2. IsFiniteSet(T) /\ Cardinality(T) <= Cardinality(S)
  BY <1>1, FS_Subset
<1>3. Cardinality(S) \in Nat /\ Cardinality(T) \in Nat
  BY <1>1, <1>2, FS_CardinalityType
<1> QED BY <1>2, <1>3

\* The steps of a main loop: mark, count, grant.
LEMMA LoopWrites ==
  ASSUME TableInv, TimeTypeOK, LoopsWait, WriteInv, NEW a \in Assets, MainLoop(a)
  PROVE  WriteInv'
<1>0. pdu.created /\ MarksWrote /\ GrantsWrote
  BY LoopNeedsArea DEF WriteInv
<1>1. UNCHANGED assets /\ UsedSlots' = UsedSlots /\ UsedSlots \subseteq Slots
  BY DEF MainLoop, LoopSimulate, LoopSync, notify_simtime, LoopCompare, LoopAdd,
         SyncMark, SyncCount, SyncGrant, LoopUnchanged, simVars, UsedSlots, Registered
<1>2. pdu \in PduTypes /\ loop \in [Assets -> LoopTypes]
  BY DEF TimeTypeOK, PduTypes, LoopTypes
<1>3. CASE /\ UNCHANGED <<pdu, wrote>>
           /\ \A b \in Assets \ {a} : loop'[b] = loop[b]
           /\ loop'[a].pc # "grant"
  BY <1>0, <1>1, <1>3 DEF WriteInv, MarksWrote, GrantsWrote
<1>4. CASE LoopSimulate(a) \/ LoopSync(a) \/ notify_simtime(a) \/ LoopCompare(a) \/ LoopAdd(a)
  <2>1. UNCHANGED <<pdu, wrote>>
    BY <1>4 DEF LoopSimulate, LoopSync, notify_simtime, LoopCompare, LoopAdd
  <2>2. /\ \A b \in Assets \ {a} : loop'[b] = loop[b]
        /\ loop'[a].pc # "grant"
    BY <1>2, <1>4 DEF LoopSimulate, LoopSync, notify_simtime, LoopCompare, LoopAdd,
                      LoopGoto, LoopTypes
  <2> QED BY <1>3, <2>1, <2>2
<1>5. CASE SyncMark(a)
  <2>1. CASE a \in Members /\ ~is_simulation_mode
    <3> DEFINE i == SlotOf(a)
    <3>1. i \in UsedSlots
      BY <2>1, SlotFacts DEF TableInv
    <3>2. /\ pdu' = [pdu EXCEPT !.checked = @ \cup {i}]
          /\ wrote' = wrote \cup {i}
          /\ loop' = [loop EXCEPT ![a].pc = "count"]
      BY <1>5, <2>1 DEF SyncMark, LoopGoto
    <3> HIDE DEF i
    <3>3. /\ pdu'.checked = pdu.checked \cup {i} /\ pdu'.mode = pdu.mode
          /\ pdu'.asset_num = pdu.asset_num
          /\ \A b \in Assets \ {a} : loop'[b] = loop[b]
          /\ loop'[a].pc = "count"
      BY <1>2, <3>2 DEF PduTypes, LoopTypes
    <3>4. pdu'.checked \cup UsedSlots = pdu.checked \cup UsedSlots
      BY <3>1, <3>3
    <3>5. MarksWrote'
      BY <1>0, <1>1, <3>2, <3>3, <3>4 DEF MarksWrote
    <3>6. GrantsWrote'
      BY <1>0, <1>1, <3>2, <3>3 DEF GrantsWrote
    <3> QED BY <3>5, <3>6 DEF WriteInv
  <2>2. CASE ~(a \in Members /\ ~is_simulation_mode)
    <3>1. UNCHANGED <<pdu, wrote>> /\ loop' = [loop EXCEPT ![a].pc = "top"]
      BY <1>5, <2>2 DEF SyncMark, LoopGoto
    <3> QED BY <1>2, <1>3, <3>1 DEF LoopTypes
  <2> QED BY <2>1, <2>2
<1>6. CASE SyncCount(a)
  <2>1. UNCHANGED <<pdu, wrote>> /\ \A b \in Assets \ {a} : loop'[b] = loop[b]
    BY <1>2, <1>6 DEF SyncCount, LoopGoto, LoopTypes
  <2>2. CASE Cardinality(pdu.checked) >= pdu.asset_num
    <3>1. /\ pdu.checked \in SUBSET Slots /\ pdu.asset_num \in Nat
          /\ pdu.checked \subseteq wrote
          /\ Cardinality(pdu.checked \cup UsedSlots) <= pdu.asset_num
      BY <1>0, <1>2 DEF PduTypes, MarksWrote
    <3>2. UsedSlots \subseteq wrote
      BY <1>1, <2>2, <3>1, CountedAll
    <3> QED BY <1>0, <1>1, <2>1, <3>2 DEF WriteInv, MarksWrote, GrantsWrote
  <2>3. CASE ~(Cardinality(pdu.checked) >= pdu.asset_num)
    <3>1. loop'[a].pc = "top"
      BY <1>2, <1>6, <2>3 DEF SyncCount, LoopGoto, LoopTypes
    <3> QED BY <1>3, <2>1, <3>1
  <2> QED BY <2>2, <2>3
<1>7. CASE SyncGrant(a)
  <2>1. /\ pdu'.checked = pdu.checked /\ pdu'.asset_num = pdu.asset_num
        /\ UNCHANGED wrote
        /\ \A b \in Assets \ {a} : loop'[b] = loop[b]
        /\ loop'[a].pc = "top" /\ loop[a].pc = "grant"
    BY <1>2, <1>7 DEF SyncGrant, LoopGoto, LoopTypes, PduTypes
  <2> QED BY <1>0, <1>1, <2>1 DEF WriteInv, MarksWrote, GrantsWrote
<1> QED BY <1>4, <1>5, <1>6, <1>7 DEF MainLoop

LEMMA WriteStep ==
  ASSUME JoinLate = FALSE, TableInv, TimeTypeOK, AreaInv, LoopsWait,
         CreatedOnce, WriteInv, [TimeNext]_worldVars
  PROVE  WriteInv'
<1>1. [SimNext]_simVars /\ pdu \in PduTypes /\ SimTypeOK /\ TableConsistent
  BY TimedStepIsSimStep DEF TableInv, TimeTypeOK, PduTypes
<1>2. CASE \E a \in Assets : MainLoop(a)
  BY <1>2, LoopWrites
<1>3. CASE CreatePduArea
  <2>1. ~pdu.created
    BY <1>3 DEF CreatePduArea, CreatePdu, CreatedOnce
  <2>2. pdu.checked = {} /\ \A a \in Assets : loop[a].pc = "top"
    BY <2>1 DEF LoopsWait
  <2>3. /\ UNCHANGED <<assets, loop>>
        /\ pdu'.mode = "Asset" /\ pdu'.asset_num = asset_num /\ pdu'.checked = {}
        /\ wrote' = {}
    BY <1>1, <1>3, <2>2 DEF CreatePduArea, CreatePdu, create, PduTypes
  <2>4. UsedSlots' = UsedSlots
    BY <2>3 DEF UsedSlots, Registered
  <2>5. Cardinality(pdu'.checked \cup UsedSlots') <= pdu'.asset_num
    <3>1. pdu'.checked \cup UsedSlots' = UsedSlots
      BY <2>3, <2>4
    <3>2. asset_num = Cardinality(UsedSlots) /\ asset_num \in Nat
      BY <1>1 DEF TableConsistent, SimTypeOK
    <3> QED BY <2>3, <3>1, <3>2
  <2> QED BY <2>2, <2>3, <2>5 DEF WriteInv, MarksWrote, GrantsWrote
<1>4. CASE ~CreatePduArea /\ ~\E a \in Assets : MainLoop(a)
  <2>1. /\ UNCHANGED <<loop, wrote>>
        /\ \/ UNCHANGED pdu
           \/ pdu' = [pdu EXCEPT !.mode = "Asset", !.checked = {}]
    BY <1>4 DEF TimeNext, TimedConductor, Untimed, timeVars, worldVars, ResetTimes,
                MoveWorldTime, StopAccepted, Register, Callback, ResetPduArea, reset
  <2>2. /\ pdu'.created = pdu.created /\ pdu'.asset_num = pdu.asset_num
        /\ pdu'.checked \in {pdu.checked, {}}
        /\ pdu'.mode = "Master" => pdu.mode = "Master"
    BY <1>1, <2>1 DEF PduTypes
  <2>3. CASE ~pdu.created
    <3>1. \A a \in Assets : loop[a].pc = "top"
      BY <2>3 DEF LoopsWait
    <3> QED BY <2>1, <2>2, <2>3, <3>1 DEF WriteInv, MarksWrote, GrantsWrote
  <2>4. CASE pdu.created
    <3>1. UsedSlots' \subseteq UsedSlots
      BY <1>1, <2>4, TableShrinks DEF AreaInv
    <3>2. /\ pdu.checked \cup UsedSlots \in SUBSET Slots
          /\ pdu'.checked \cup UsedSlots' \in SUBSET (pdu.checked \cup UsedSlots)
          /\ pdu.asset_num \in Nat
      BY <1>1, <2>2, <3>1 DEF PduTypes, UsedSlots
    <3>3. Cardinality(pdu'.checked \cup UsedSlots') <= pdu.asset_num
      BY <2>4, <3>2, FewerToCount DEF WriteInv, MarksWrote
    <3>4. MarksWrote'
      BY <2>1, <2>2, <2>4, <3>1, <3>3 DEF WriteInv, MarksWrote
    <3>5. GrantsWrote'
      BY <2>1, <3>1 DEF WriteInv, GrantsWrote
    <3> QED BY <3>4, <3>5 DEF WriteInv
  <2> QED BY <2>3, <2>4
<1> QED BY <1>2, <1>3, <1>4

\* The world time moves only after every registered asset has written its PDUs
\* since the area was created, although notify_write_pdu_done marks, counts and
\* switches the mode in three steps without a lock: for any number of assets,
\* with resets, heartbeats that expire, commands that die and assets that
\* leave.  Provided that assets register before the first command and that the
\* area is created once: with MaxEvents = 3 in MCWorldTime.cfg TLC finds a loop
\* that counts the marks of the first round after the second create.
THEOREM WritesComeFirst ==
  ASSUME JoinLate = FALSE
  PROVE  TimeSpec /\ []CreatedOnce => WritesBeforeTime
<1> DEFINE Base == TableInv /\ TimeTypeOK /\ AreaInv /\ LoopsWait
<1>1. TimeInit => WriteInv
  BY DEF TimeInit, WriteInv, MarksWrote, GrantsWrote
<1>2. Base /\ CreatedOnce /\ WriteInv /\ [TimeNext]_worldVars => WriteInv'
  BY WriteStep
<1>3. TimeSpec => []Base
  BY TimedImplementsLifeCycle, TableInvariance, TimeInvariance, AreaInvariance, PTL
<1>4. Base /\ WriteInv /\ [TimeNext]_worldVars =>
        [world' > world => \A i \in UsedSlots : i \in wrote]_worldVars
  <2> SUFFICES ASSUME Base, WriteInv, [TimeNext]_worldVars, world' > world
               PROVE  UsedSlots \subseteq wrote
    OBVIOUS
  <2>1. world \in Nat
    BY DEF TimeTypeOK
  <2>2. MoveWorldTime
    BY <2>1 DEF TimeNext, TimedConductor, Untimed, timeVars, worldVars, ResetTimes,
                StopAccepted, Register, Callback, ResetPduArea, CreatePduArea, MainLoop,
                LoopSimulate, LoopSync, notify_simtime, LoopCompare, LoopAdd, SyncMark,
                SyncCount, SyncGrant, LoopUnchanged
  <2>3. is_simulation_mode /\ cond.pc = "time"
    BY <2>1, <2>2 DEF MoveWorldTime, MoveTime, time_begins_to_move
  <2> QED BY <2>3 DEF AreaInv, WriteInv, MarksWrote, is_simulation_mode
<1> QED BY <1>1, <1>2, <1>3, <1>4, PTL DEF TimeSpec, WritesBeforeTime
=============================================================================
