---------------------------- MODULE SimEventProofs ----------------------------
(***************************************************************************)
(* Proofs about SimEvent for any number of assets, slots, commands and     *)
(* events.                                                                 *)
(***************************************************************************)
EXTENDS SimEvent, FiniteSetTheorems, TLAPS

\* Every set of slots that is not empty has a first slot: alloc_asset and the
\* loop over the late assets look for it.
LEMMA FirstSlot ==
  ASSUME NEW S \in SUBSET Nat, S # {}
  PROVE  Min(S) \in S /\ \A i \in S : Min(S) <= i
<1> DEFINE R == OpToRel(<, Nat)
<1>1. PICK x \in S : \A y \in S : ~(<<y, x>> \in R)
  <2>1. IsWellFoundedOn(R, Nat)
    BY NatLessThanWellFounded
  <2> HIDE DEF R
  <2> QED BY <2>1, WFMin
<1>2. \A y \in S : x <= y
  <2> SUFFICES ASSUME NEW y \in S, y < x PROVE FALSE
    OBVIOUS
  <2>1. <<y, x>> \in R
    BY DEF OpToRel
  <2> QED BY <1>1, <2>1
<1> QED BY <1>1, <1>2 DEF Min

-----------------------------------------------------------------------------
(* The asset table and the types                                             *)

TableInv == SimTypeOK /\ TableConsistent

LEMMA ConstantFacts ==
  /\ Slots \subseteq Nat
  /\ 0 \in Slots
  /\ IsFiniteSet(Slots)
  /\ NoAsset \notin Assets
  /\ Cmds \subseteq Publishers
  /\ "conductor" \in Publishers
<1>1. MaxAssets \in Nat \ {0}
  BY SimEventAssumption
<1>2. IsFiniteSet(0 .. (MaxAssets - 1))
  BY <1>1, FS_Interval
<1> QED BY <1>1, <1>2, SimEventAssumption DEF Slots, Publishers

\* SlotOf finds the slot of a registered asset.
LEMMA SlotFacts ==
  ASSUME SimTypeOK, NEW a, a \in Members
  PROVE  /\ SlotOf(a) \in UsedSlots
         /\ SlotOf(a) \in Slots
         /\ assets[SlotOf(a)] = a
         /\ a \in Assets
BY ConstantFacts DEF SimTypeOK, Members, SlotOf, UsedSlots, Registered

\* alloc_asset fills a slot that was free.
LEMMA AllocFacts ==
  ASSUME FreeSlots # {}
  PROVE  Min(FreeSlots) \in Slots /\ ~Registered(Min(FreeSlots))
<1>1. FreeSlots \in SUBSET Nat
  BY ConstantFacts DEF FreeSlots
<1> QED BY <1>1, FirstSlot DEF FreeSlots, UsedSlots

\* A registration adds a slot and the name is new in the table.
LEMMA AllocStep ==
  ASSUME TableInv, NEW a \in Assets, alloc_asset(a)
  PROVE  TableConsistent' /\ asset_num' \in Nat
                          /\ assets' \in [Slots -> Assets \cup {NoAsset}]
<1> DEFINE m == Min(FreeSlots)
<1>1. m \in Slots /\ ~Registered(m)
  BY AllocFacts DEF alloc_asset
<1> HIDE DEF m
<1>2. assets' = [assets EXCEPT ![m] = a]
  BY DEF alloc_asset, m
<1>3. UsedSlots' = UsedSlots \cup {m}
  BY <1>1, <1>2, ConstantFacts DEF TableInv, SimTypeOK, UsedSlots, Registered
<1>4. m \notin UsedSlots
  BY <1>1 DEF UsedSlots
<1>5. IsFiniteSet(UsedSlots)
  BY ConstantFacts, FS_Subset DEF UsedSlots
<1>6. Cardinality(UsedSlots') = Cardinality(UsedSlots) + 1
  BY <1>3, <1>4, <1>5, FS_AddElement
<1>7. \A i \in UsedSlots : assets[i] # a
  BY DEF alloc_asset, Members
<1>8. \A i, j \in UsedSlots' : assets'[i] = assets'[j] => i = j
  <2>1. assets \in [Slots -> Assets \cup {NoAsset}]
    BY DEF TableInv, SimTypeOK
  <2>2. \A i, j \in UsedSlots : assets[i] = assets[j] => i = j
    BY DEF TableInv, TableConsistent
  <2>3. UsedSlots \subseteq Slots
    BY DEF UsedSlots
  <2> QED BY ONLY <2>1, <2>2, <2>3, <1>1, <1>2, <1>3, <1>4, <1>7
<1>9. asset_num = Cardinality(UsedSlots) /\ asset_num' = asset_num + 1
  BY DEF TableInv, TableConsistent, alloc_asset
<1>10. assets \in [Slots -> Assets \cup {NoAsset}] /\ asset_num \in Nat
  BY DEF TableInv, SimTypeOK
<1>11. TableConsistent'
  BY <1>6, <1>8, <1>9 DEF TableConsistent
<1>12. assets' \in [Slots -> Assets \cup {NoAsset}]
  BY <1>1, <1>2, <1>10
<1> QED BY <1>9, <1>10, <1>11, <1>12

\* An unregistration frees the one slot of the asset.
LEMMA FreeStep ==
  ASSUME TableInv, NEW a, free_asset(a)
  PROVE  TableConsistent' /\ asset_num' \in Nat
                          /\ assets' \in [Slots -> Assets \cup {NoAsset}]
<1> DEFINE m == SlotOf(a)
<1>1. m \in Slots /\ m \in UsedSlots
  BY SlotFacts DEF free_asset, CanFree, TableInv
<1> HIDE DEF m
<1>2. assets' = [assets EXCEPT ![m] = NoAsset]
  BY DEF free_asset, m
<1>3. UsedSlots' = UsedSlots \ {m}
  BY <1>1, <1>2, ConstantFacts DEF TableInv, SimTypeOK, UsedSlots, Registered
<1>5. IsFiniteSet(UsedSlots)
  BY ConstantFacts, FS_Subset DEF UsedSlots
<1>6. Cardinality(UsedSlots') = Cardinality(UsedSlots) - 1
  BY <1>1, <1>3, <1>5, FS_RemoveElement
<1>7. Cardinality(UsedSlots) \in Nat /\ Cardinality(UsedSlots) # 0
  BY <1>1, <1>5, FS_CardinalityType, FS_EmptySet
<1>8. \A i, j \in UsedSlots' : assets'[i] = assets'[j] => i = j
  <2>1. assets \in [Slots -> Assets \cup {NoAsset}]
    BY DEF TableInv, SimTypeOK
  <2>2. \A i, j \in UsedSlots : assets[i] = assets[j] => i = j
    BY DEF TableInv, TableConsistent
  <2>3. UsedSlots \subseteq Slots
    BY DEF UsedSlots
  <2> QED BY ONLY <2>1, <2>2, <2>3, <1>1, <1>2, <1>3
<1>9. asset_num = Cardinality(UsedSlots) /\ asset_num' = asset_num - 1
  BY DEF TableInv, TableConsistent, free_asset
<1>10. assets \in [Slots -> Assets \cup {NoAsset}]
  BY DEF TableInv, SimTypeOK
<1>11. TableConsistent'
  BY <1>6, <1>8, <1>9 DEF TableConsistent
<1>12. assets' \in [Slots -> Assets \cup {NoAsset}]
  BY ONLY <1>1, <1>2, <1>10
<1> QED BY <1>7, <1>9, <1>11, <1>12

\* The types of what the steps write, one variable at a time.
PubTypes == [stage : {"off", "check", "write", "clear", "lookup"},
             event : Event, slot : Slots]
EvTypes == [event : Event, feedback : BOOLEAN]

LEMMA PubStep ==
  ASSUME pub \in [Publishers -> PubTypes], NEW p \in Publishers,
         \/ NextSlot(p)
         \/ \E e \in Event : StartPublication(p, e)
         \/ \E s \in {"write", "clear", "lookup"} : Stage(p, s)
         \/ pub' = [pub EXCEPT ![p] = NotPublishing]
         \/ pub' = pub
  PROVE  pub' \in [Publishers -> PubTypes]
<1>1. MaxAssets \in Nat \ {0} /\ 0 \in Slots
  BY SimEventAssumption DEF Slots
<1>2. NotPublishing \in PubTypes
  BY <1>1 DEF NotPublishing, PubTypes, Event
<1>3. CASE NextSlot(p)
  <2>1. PICK r : r = pub[p]
    OBVIOUS
  <2>2. r \in PubTypes
    BY <2>1
  <2>3. r.slot + 1 < MaxAssets
          => [stage |-> "check", event |-> r.event, slot |-> r.slot + 1]
               \in PubTypes
    BY <2>2, <1>1 DEF PubTypes, Slots
  <2> QED BY <1>2, <1>3, <2>1, <2>3 DEF NextSlot
<1>4. CASE \E e \in Event : StartPublication(p, e)
  <2>1. PICK e \in Event : StartPublication(p, e)
    BY <1>4
  <2>2. [stage |-> "check", event |-> e, slot |-> 0] \in PubTypes
    BY <1>1, <2>1 DEF PubTypes
  <2> QED BY <2>1, <2>2 DEF StartPublication
<1>5. CASE \E s \in {"write", "clear", "lookup"} : Stage(p, s)
  BY <1>5 DEF Stage, PubTypes
<1> QED BY <1>2, <1>3, <1>4, <1>5

LEMMA EvStep ==
  ASSUME ev \in [Slots -> EvTypes],
         \/ \E i \in Slots, b \in BOOLEAN : ev' = [ev EXCEPT ![i].feedback = b]
         \/ \E i \in Slots, e \in Event : ev' = [ev EXCEPT ![i].event = e]
         \/ \E i \in Slots, b \in BOOLEAN :
              ev' = [ev EXCEPT ![i].feedback = b, ![i].event = "None"]
         \/ ev' = [i \in Slots |-> IF Registered(i)
                                   THEN [ev[i] EXCEPT !.feedback = FALSE]
                                   ELSE ev[i]]
         \/ ev' = ev
  PROVE  ev' \in [Slots -> EvTypes]
<1>1. CASE \E i \in Slots, b \in BOOLEAN : ev' = [ev EXCEPT ![i].feedback = b]
  <2>1. PICK i \in Slots, b \in BOOLEAN : ev' = [ev EXCEPT ![i].feedback = b]
    BY <1>1
  <2>2. [ev[i] EXCEPT !.feedback = b] \in EvTypes
    BY <2>1 DEF EvTypes
  <2> QED BY <2>1, <2>2
<1>2. CASE \E i \in Slots, e \in Event : ev' = [ev EXCEPT ![i].event = e]
  <2>1. PICK i \in Slots, e \in Event : ev' = [ev EXCEPT ![i].event = e]
    BY <1>2
  <2>2. [ev[i] EXCEPT !.event = e] \in EvTypes
    BY <2>1 DEF EvTypes
  <2> QED BY <2>1, <2>2
<1>3. CASE \E i \in Slots, b \in BOOLEAN :
             ev' = [ev EXCEPT ![i].feedback = b, ![i].event = "None"]
  <2>1. PICK i \in Slots, b \in BOOLEAN :
               ev' = [ev EXCEPT ![i].feedback = b, ![i].event = "None"]
    BY <1>3
  <2>2. [ev[i] EXCEPT !.feedback = b] \in EvTypes
    BY <2>1 DEF EvTypes
  <2>3. PICK f : f = [ev EXCEPT ![i].feedback = b]
    OBVIOUS
  <2>4. f \in [Slots -> EvTypes] /\ ev' = [f EXCEPT ![i].event = "None"]
    BY <2>1, <2>2, <2>3
  <2>5. [f[i] EXCEPT !.event = "None"] \in EvTypes
    BY <2>1, <2>4 DEF EvTypes, Event
  <2> QED BY <2>1, <2>4, <2>5
<1>4. CASE ev' = [i \in Slots |-> IF Registered(i)
                                 THEN [ev[i] EXCEPT !.feedback = FALSE]
                                 ELSE ev[i]]
  <2>1. \A i \in Slots : [ev[i] EXCEPT !.feedback = FALSE] \in EvTypes
    BY DEF EvTypes
  <2> QED BY <1>4, <2>1
<1> QED BY <1>1, <1>2, <1>3, <1>4

LEMMA TriggerTypes ==
  ASSUME SimTypeOK, NEW p \in Publishers, NEW curr, NEW next \in SimState,
         NEW e \in Event, trigger_event(p, curr, next, e)
  PROVE  /\ state' \in SimState
         /\ ev' \in [Slots -> EvTypes]
         /\ pub' \in [Publishers -> PubTypes]
         /\ epoch' \in Nat
<1>1. ev' \in [Slots -> EvTypes]
  BY EvStep DEF SimTypeOK, trigger_event, EvTypes
<1>2. pub' \in [Publishers -> PubTypes]
  BY PubStep DEF SimTypeOK, trigger_event, PubTypes
<1> QED BY <1>1, <1>2 DEF SimTypeOK, trigger_event

LEMMA CommandTypes ==
  ASSUME TableInv, NEW c \in Cmds, CommandStep(c)
  PROVE  SimTypeOK'
<1>0. c \in Publishers /\ SimTypeOK
  BY ConstantFacts DEF TableInv
<1>1. CASE start(c)
  BY <1>0, <1>1, TriggerTypes
  DEF start, CmdUnchanged, SimTypeOK, SimState, Event, PubTypes, EvTypes
<1>2. CASE stop(c)
  BY <1>0, <1>2, TriggerTypes
  DEF stop, CmdUnchanged, SimTypeOK, SimState, Event, PubTypes, EvTypes
<1>3. CASE ResetPeek(c)
  BY <1>0, <1>3 DEF ResetPeek, CmdUnchanged, SimTypeOK
<1>4. CASE ResetTrigger(c)
  <2>1. PICK curr \in SimState, next \in SimState :
          \/ trigger_event(c, curr, next, "Reset")
          \/ UNCHANGED <<state, ev, epoch, pub>>
    <3>1. CASE cmd[c] = "reset_stopped"
      BY <1>4, <3>1 DEF ResetTrigger, SimState
    <3>2. CASE cmd[c] # "reset_stopped"
      BY <1>4, <3>2 DEF ResetTrigger, SimState
    <3> QED BY <3>1, <3>2
  <2>2. /\ state' \in SimState
        /\ ev' \in [Slots -> EvTypes]
        /\ pub' \in [Publishers -> PubTypes]
        /\ epoch' \in Nat
    BY <1>0, <2>1, TriggerTypes DEF SimTypeOK, SimState, Event, PubTypes, EvTypes
  <2> QED BY <1>0, <1>4, <2>2
          DEF ResetTrigger, CmdUnchanged, SimTypeOK, PubTypes, EvTypes
<1>5. CASE CmdDies(c)
  <2>1. pub' \in [Publishers -> PubTypes]
    BY <1>0, <1>5, PubStep DEF CmdDies, SimTypeOK, PubTypes
  <2> QED BY <1>0, <1>5, <2>1 DEF CmdDies, CmdUnchanged, SimTypeOK, PubTypes
<1> QED BY <1>1, <1>2, <1>3, <1>4, <1>5 DEF CommandStep

LEMMA PublishTypes ==
  ASSUME TableInv, NEW p \in Publishers, publish_event(p)
  PROVE  SimTypeOK'
<1>1. /\ pub \in [Publishers -> PubTypes]
      /\ ev \in [Slots -> EvTypes]
  BY DEF TableInv, SimTypeOK, PubTypes, EvTypes
<1>2. /\ pub[p].slot \in Slots
      /\ pub[p].event \in Event
  BY <1>1 DEF PubTypes
<1>3. pub' \in [Publishers -> PubTypes]
  BY <1>1, PubStep
  DEF publish_event, PublishCheck, PublishWrite, PublishClear, PublishLookup, Crashes
<1>4. ev' \in [Slots -> EvTypes]
  BY <1>1, <1>2, EvStep
  DEF publish_event, PublishCheck, PublishWrite, PublishClear, PublishLookup, Crashes
<1>5. TableUnchanged
  BY DEF publish_event, PublishCheck, PublishWrite, PublishClear, PublishLookup
<1>6. \/ UNCHANGED <<cond, cmd>>
      \/ cond' = [cond EXCEPT !.pc = "crashed"] /\ UNCHANGED cmd
      \/ p \in Cmds /\ cmd' = [cmd EXCEPT ![p] = "crashed"] /\ UNCHANGED cond
  BY DEF publish_event, PublishCheck, PublishWrite, PublishClear, PublishLookup,
         Crashes, Publishers
<1>7. /\ cond' \in [pc : {"peek", "handle", "publish", "drop", "create", "reset",
                         "reset_pdu", "time", "crashed"},
                   late : SUBSET Slots]
      /\ cmd' \in [Cmds -> {"idle", "reset_stopped", "reset_error", "crashed"}]
  BY <1>6 DEF TableInv, SimTypeOK
<1> QED BY <1>3, <1>4, <1>5, <1>7
        DEF TableInv, SimTypeOK, TableUnchanged, PubTypes, EvTypes

LEMMA ConductorTypes ==
  ASSUME TableInv, execute
  PROVE  SimTypeOK'
<1> USE DEF TableInv
<1>1. CASE Peek
  <2>1. PICK l \in {"handle", "time", "peek"} : cond' = [cond EXCEPT !.pc = l]
    BY <1>1 DEF Peek, CondGoto
  <2> QED BY <1>1, <2>1 DEF Peek, CondUnchanged, SimTypeOK
<1>2. CASE HandleAllFeedback
  <2>1. PICK l \in {"create", "peek", "reset"}, s \in {"Running", "Stopped", state} :
          cond' = [cond EXCEPT !.pc = l] /\ state' = s
    BY <1>2 DEF HandleAllFeedback, CondGoto
  <2>2. state' \in SimState
    BY <2>1 DEF SimTypeOK, SimState
  <2> QED BY <1>2, <2>1, <2>2 DEF HandleAllFeedback, CondUnchanged, SimTypeOK
<1>3. CASE HandleWait
  BY <1>3 DEF HandleWait, CondGoto, CondUnchanged, SimTypeOK
<1>4. CASE HandleTimeout
  <2>1. PICK late \in SUBSET Slots : cond' = [pc |-> "publish", late |-> late]
    BY <1>4 DEF HandleTimeout, UsedSlots
  <2> QED BY <1>4, <2>1 DEF HandleTimeout, CondUnchanged, SimTypeOK
<1>5. CASE TriggerError
  BY <1>5, TriggerTypes, ConstantFacts
  DEF TriggerError, CondGoto, CondUnchanged, SimTypeOK, SimState, Event, PubTypes, EvTypes
<1>6. CASE DropLate
  <2>1. /\ assets' \in [Slots -> Assets \cup {NoAsset}]
        /\ asset_num' \in Nat
    BY <1>6, FreeStep DEF DropLate, SimTypeOK
  <2>2. \/ \E l \in {"peek", "crashed"} : cond' = [cond EXCEPT !.pc = l]
        \/ \E i : cond' = [cond EXCEPT !.late = @ \ {i}]
    BY <1>6 DEF DropLate, CondGoto
  <2> QED BY <1>6, <2>1, <2>2 DEF DropLate, CondUnchanged, SimTypeOK
<1>7. CASE CreatePdu
  BY <1>7 DEF CreatePdu, CondGoto, CondUnchanged, SimTypeOK
<1>8. CASE ResetTime
  BY <1>8 DEF ResetTime, CondGoto, CondUnchanged, SimTypeOK
<1>9. CASE ResetPdu
  BY <1>9 DEF ResetPdu, CondGoto, CondUnchanged, SimTypeOK
<1>10. CASE MoveTime
  BY <1>10 DEF MoveTime, CondGoto, CondUnchanged, SimTypeOK
<1> QED BY <1>1, <1>2, <1>3, <1>4, <1>5, <1>6, <1>7, <1>8, <1>9, <1>10 DEF execute

LEMMA AssetTypes ==
  ASSUME TableInv, NEW a \in Assets, AssetStep(a)
  PROVE  SimTypeOK'
<1> USE DEF TableInv
<1>1. CASE asset_register(a)
  BY <1>1, AllocStep DEF asset_register, AssetUnchanged, SimTypeOK, Event
<1>2. CASE asset_unregister(a)
  BY <1>2, FreeStep DEF asset_unregister, AssetUnchanged, SimTypeOK, Event
<1>3. CASE asset_get_event(a)
  BY <1>3 DEF asset_get_event, AssetUnchanged, SimTypeOK, Event
<1>4. ASSUME NEW isOk \in Answers, feedback(a, isOk) PROVE SimTypeOK'
  <2>1. seen' \in [Assets -> [event : Event, epoch : Nat]]
    BY <1>4 DEF feedback, SimTypeOK, Event
  <2>2. ack' \in [Assets -> Nat]
    <3>1. ack \in [Assets -> Nat] /\ seen[a].epoch \in Nat
      BY DEF SimTypeOK
    <3>2. ack' = ack \/ ack' = [ack EXCEPT ![a] = seen[a].epoch]
      BY <1>4 DEF feedback
    <3> QED BY <3>1, <3>2
  <2>3. ev' \in [Slots -> EvTypes]
    <3>1. CASE a \in Members
      <4>1. SlotOf(a) \in Slots
        BY <3>1, SlotFacts
      <4>2. PICK b \in BOOLEAN : ev' = [ev EXCEPT ![SlotOf(a)].feedback = b,
                                                 ![SlotOf(a)].event = "None"]
        BY <1>4, <3>1, SimEventAssumption DEF feedback
      <4> QED BY <4>1, <4>2, EvStep DEF SimTypeOK, EvTypes
    <3>2. CASE a \notin Members
      BY <1>4, <3>2 DEF feedback, SimTypeOK, EvTypes
    <3> QED BY <3>1, <3>2
  <2> QED BY <1>4, <2>1, <2>2, <2>3 DEF feedback, AssetUnchanged, SimTypeOK, EvTypes
<1> QED BY <1>1, <1>2, <1>3, <1>4 DEF AssetStep, PollAndAnswer

\* Only registration and unregistration change the table.
LEMMA TableSteps ==
  ASSUME TableInv, SimNext
  PROVE  TableConsistent'
<1>1. \/ UNCHANGED <<assets, asset_num>>
      \/ \E a \in Assets : alloc_asset(a)
      \/ \E a : free_asset(a)
  BY DEF SimNext, CommandStep, start, stop, ResetPeek, ResetTrigger, CmdDies,
         CmdUnchanged, publish_event, PublishCheck, PublishWrite, PublishClear,
         PublishLookup, TableUnchanged, execute, Peek, HandleAllFeedback, HandleWait,
         HandleTimeout, TriggerError, DropLate, CreatePdu, ResetTime, ResetPdu,
         MoveTime, AssetStep, asset_register, asset_unregister, PollAndAnswer,
         asset_get_event, feedback
<1>2. CASE UNCHANGED <<assets, asset_num>>
  BY <1>2 DEF TableInv, TableConsistent, UsedSlots, Registered
<1> QED BY <1>1, <1>2, AllocStep, FreeStep

\* The fresh table is empty and asset_num is zero.
LEMMA TableInit == SimInit => TableInv
<1> SUFFICES ASSUME SimInit PROVE TableInv
  OBVIOUS
<1>1. SimTypeOK
  BY ConstantFacts
  DEF SimInit, SimTypeOK, SimState, Event, NotPublishing
<1>2. UsedSlots = {}
  BY DEF SimInit, UsedSlots, Registered
<1> QED BY <1>1, <1>2, FS_EmptySet DEF TableInv, TableConsistent, SimInit

\* Types and table together: that asset_num stays a natural number rests on
\* its counting the used slots.
LEMMA TableInvariance == SimSpec => []TableInv
<1>1. SimInit => TableInv
  BY TableInit
<1>2. TableInv /\ [SimNext]_simVars => TableInv'
  <2>1. CASE UNCHANGED simVars
    BY <2>1 DEF TableInv, TableConsistent, UsedSlots, Registered, simVars, SimTypeOK
  <2>2. CASE SimNext
    BY <2>2, CommandTypes, PublishTypes, ConductorTypes, AssetTypes, TableSteps
    DEF SimNext, TableInv
  <2> QED BY <2>1, <2>2
<1> QED BY <1>1, <1>2, PTL DEF SimSpec

\* The types of the shared memory and of every process hold in every
\* reachable state.
THEOREM TypeCorrectness == SimSpec => []SimTypeOK
<1>1. TableInv => SimTypeOK
  BY DEF TableInv
<1> QED BY <1>1, TableInvariance, PTL

\* asset_num is the number of used slots and no name occupies two, although
\* assets unregister themselves while the conductor unregisters late ones.
THEOREM TableStaysConsistent == SimSpec => []TableConsistent
<1>1. TableInv => TableConsistent
  BY DEF TableInv
<1> QED BY <1>1, TableInvariance, PTL

-----------------------------------------------------------------------------
(* What is true of an instance in which no heartbeat expires and assets      *)
(* register before the first command                                         *)

\* Publication p has still to write its event to slot j.
Pending(p, j) ==
  /\ Registered(j)
  /\ pub[p].stage # "off"
  /\ \/ j > pub[p].slot
     \/ j = pub[p].slot /\ pub[p].stage \in {"check", "write"}

\* The event that the state waits to be confirmed.
Expected(e) == e \in {"Start", "Stop", "Reset"} /\ state = ExpState(e)

\* Without an expired heartbeat nothing turns into Error.
NoError ==
  /\ state # "Error"
  /\ cond.pc \notin {"publish", "drop"}
  /\ pub["conductor"].stage = "off"
  /\ \A p \in Publishers : pub[p].event # "Error"
  /\ \A c \in Cmds : cmd[c] # "reset_error"

\* An event, once published, stays in its slot and with its reader no longer
\* than the transition that it belongs to.
EventsAreCurrent ==
  /\ \A j \in Slots : ev[j].event # "None" =>
       Registered(j) /\ ~ev[j].feedback /\ Expected(ev[j].event)
  /\ \A a \in Assets : seen[a].event # "None" =>
       /\ a \in Members
       /\ Expected(seen[a].event)
       /\ seen[a].epoch = epoch
  /\ \A j \in UsedSlots : seen[assets[j]].event # "None" => ~ev[j].feedback

\* A slot that a publication has not reached is untouched by the transition.
PendingIsUntouched ==
  /\ \A p \in Publishers, j \in Slots : Pending(p, j) =>
       /\ Expected(pub[p].event)
       /\ ev[j].event = "None"
       /\ ~ev[j].feedback
       /\ seen[assets[j]].event = "None"
  /\ \A p, q \in Publishers, j \in Slots :
       Pending(p, j) /\ Pending(q, j) => p = q

\* What has been confirmed was confirmed in this transition.
ConfirmedIsCurrent ==
  /\ sim_event_needs_handling(state) =>
       \A j \in UsedSlots : ev[j].feedback => ack[assets[j]] = epoch
  /\ RunningIsConfirmed

BeforeFirstEvent ==
  epoch = 0 =>
    /\ state = "Stopped"
    /\ \A p \in Publishers : pub[p].stage = "off"

LifeCycleInv ==
  /\ NoError
  /\ EventsAreCurrent
  /\ PendingIsUntouched
  /\ ConfirmedIsCurrent
  /\ BeforeFirstEvent

LEMMA EventOfState ==
  ASSUME NEW e, Expected(e)
  PROVE  sim_event_needs_handling(state)
BY DEF Expected, ExpState, sim_event_needs_handling

\* A step that only lets publications advance, and takes feedback back at
\* most, keeps the invariant.
LEMMA CalmStep ==
  ASSUME TableInv, LifeCycleInv, NoError',
         UNCHANGED <<state, assets, seen, epoch, ack>>,
         \A q \in Publishers : pub[q].stage = "off" => pub'[q].stage = "off",
         \A q \in Publishers, j \in Slots :
           Pending(q, j)' => Pending(q, j) /\ pub'[q].event = pub[q].event,
         \A j \in Slots : /\ ev'[j].event = ev[j].event
                          /\ ev'[j].feedback => ev[j].feedback
  PROVE  LifeCycleInv'
<1>1. \A e : Expected(e)' <=> Expected(e)
  BY DEF Expected
<1>2. \A j : Registered(j)' <=> Registered(j)
  BY DEF Registered
<1>3. UsedSlots' = UsedSlots /\ Members' = Members /\ UsedSlots \subseteq Slots
  BY DEF UsedSlots, Members, Registered
<1>4. EventsAreCurrent'
  BY <1>1, <1>2, <1>3 DEF LifeCycleInv, EventsAreCurrent
<1>5. PendingIsUntouched'
  BY <1>1 DEF LifeCycleInv, PendingIsUntouched
<1>6. ConfirmedIsCurrent'
  BY <1>3 DEF LifeCycleInv, ConfirmedIsCurrent, RunningIsConfirmed
<1>7. BeforeFirstEvent'
  BY DEF LifeCycleInv, BeforeFirstEvent
<1> QED BY <1>4, <1>5, <1>6, <1>7 DEF LifeCycleInv

\* A publication that goes on leaves fewer slots behind.
LEMMA PendingStep ==
  ASSUME TableInv, NEW p \in Publishers, UNCHANGED assets, pub[p].stage # "off",
         \/ NextSlot(p)
         \/ Stage(p, "write") /\ pub[p].stage = "check"
         \/ Stage(p, "clear") /\ pub[p].stage = "write"
         \/ Stage(p, "lookup") /\ pub[p].stage = "clear"
         \/ pub' = [pub EXCEPT ![p] = NotPublishing]
  PROVE  /\ \A q \in Publishers : pub[q].stage = "off" => pub'[q].stage = "off"
         /\ \A q \in Publishers : q # p => pub'[q] = pub[q]
         /\ pub'[p].event \in {pub[p].event, "None"}
         /\ \A q \in Publishers, j \in Slots :
              Pending(q, j)' => Pending(q, j) /\ pub'[q].event = pub[q].event
         /\ \A j \in Slots :
              Stage(p, "clear") /\ j = pub[p].slot => ~Pending(p, j)'
<1>1. /\ pub \in [Publishers -> PubTypes]
      /\ pub[p].slot \in Nat
      /\ Slots \subseteq Nat
  BY ConstantFacts DEF TableInv, SimTypeOK, PubTypes
<1>2. CASE NextSlot(p)
  <2>1. \/ pub'[p] = NotPublishing
        \/ pub'[p] = [stage |-> "check", event |-> pub[p].event,
                      slot |-> pub[p].slot + 1]
    BY <1>1, <1>2 DEF NextSlot
  <2>2. \A q \in Publishers : q # p => pub'[q] = pub[q]
    BY <1>1, <1>2 DEF NextSlot
  <2>3. CASE pub'[p] = NotPublishing
    BY <2>2, <2>3 DEF Pending, Registered, NotPublishing
  <2>4. CASE pub'[p] = [stage |-> "check", event |-> pub[p].event,
                        slot |-> pub[p].slot + 1]
    <3>1. /\ pub'[p].stage = "check"
          /\ pub'[p].event = pub[p].event
          /\ pub'[p].slot = pub[p].slot + 1
      BY <2>4
    <3>2. \A q \in Publishers, j \in Slots :
            Pending(q, j)' => Pending(q, j) /\ pub'[q].event = pub[q].event
      BY <1>1, <2>2, <3>1 DEF Pending, Registered
    <3>3. \A j \in Slots : j = pub[p].slot => ~Pending(p, j)'
      BY <1>1, <3>1 DEF Pending
    <3> QED BY <2>2, <3>1, <3>2, <3>3
  <2> QED BY <2>1, <2>3, <2>4
<1>3. CASE \E s : /\ Stage(p, s)
                 /\ <<pub[p].stage, s>> \in {<<"check", "write">>,
                                            <<"write", "clear">>,
                                            <<"clear", "lookup">>}
  <2>1. PICK s : /\ Stage(p, s)
                 /\ <<pub[p].stage, s>> \in {<<"check", "write">>,
                                            <<"write", "clear">>,
                                            <<"clear", "lookup">>}
    BY <1>3
  <2>2. /\ pub'[p].stage = s
        /\ pub'[p].slot = pub[p].slot
        /\ pub'[p].event = pub[p].event
        /\ \A q \in Publishers : q # p => pub'[q] = pub[q]
    BY <1>1, <2>1 DEF Stage, PubTypes
  <2>3. Stage(p, "clear") => pub'[p].stage = "clear"
    BY <1>1 DEF Stage, PubTypes
  <2>4. \A q \in Publishers, j \in Slots :
          Pending(q, j)' => Pending(q, j) /\ pub'[q].event = pub[q].event
    BY <1>1, <2>1, <2>2 DEF Pending, Registered
  <2> QED BY <1>1, <2>1, <2>2, <2>3, <2>4 DEF Pending
<1>4. CASE pub' = [pub EXCEPT ![p] = NotPublishing]
  <2>1. /\ pub'[p] = NotPublishing
        /\ \A q \in Publishers : q # p => pub'[q] = pub[q]
    BY <1>1, <1>4
  <2> QED BY <2>1 DEF Pending, Registered, NotPublishing
<1> QED BY <1>2, <1>3, <1>4

\* Publications: the event is written to a slot that waits for it, and after
\* that feedback is only taken back.
LEMMA PublishLife ==
  ASSUME TableInv, LifeCycleInv, NEW p \in Publishers, publish_event(p)
  PROVE  LifeCycleInv'
<1> DEFINE i == pub[p].slot
           e == pub[p].event
<1>1. /\ i \in Slots
      /\ ev \in [Slots -> EvTypes]
      /\ pub \in [Publishers -> PubTypes]
  BY DEF TableInv, SimTypeOK, PubTypes, EvTypes
<1>2. \A j \in Slots : ev[j].event # "Error"
  BY DEF LifeCycleInv, EventsAreCurrent, Expected
<1>3. e # "Error" /\ p # "conductor" /\ pub[p].stage # "off" /\ p \in Cmds
  BY DEF LifeCycleInv, NoError, publish_event, PublishCheck, PublishWrite,
         PublishClear, PublishLookup, Publishers
<1>4. UNCHANGED <<state, assets, seen, epoch, ack>>
  BY DEF publish_event, PublishCheck, PublishWrite, PublishClear, PublishLookup,
         TableUnchanged
<1>5. \/ NextSlot(p)
      \/ Stage(p, "write") /\ pub[p].stage = "check"
      \/ Stage(p, "clear") /\ pub[p].stage = "write"
      \/ Stage(p, "lookup") /\ pub[p].stage = "clear"
      \/ pub' = [pub EXCEPT ![p] = NotPublishing]
  BY DEF publish_event, PublishCheck, PublishWrite, PublishClear, PublishLookup,
         Crashes
<1>6. UNCHANGED cond /\ \A c \in Cmds : cmd'[c] \in {cmd[c], "crashed"}
  BY <1>3 DEF publish_event, PublishCheck, PublishWrite, PublishClear, PublishLookup,
              Crashes, TableInv, SimTypeOK
<1>7. /\ \A q \in Publishers : pub[q].stage = "off" => pub'[q].stage = "off"
      /\ \A q \in Publishers : q # p => pub'[q] = pub[q]
      /\ pub'[p].event \in {pub[p].event, "None"}
      /\ \A q \in Publishers, j \in Slots :
           Pending(q, j)' => Pending(q, j) /\ pub'[q].event = pub[q].event
      /\ \A j \in Slots : Stage(p, "clear") /\ j = pub[p].slot => ~Pending(p, j)'
  BY <1>3, <1>4, <1>5, PendingStep
<1>8. NoError'
  BY <1>3, <1>4, <1>6, <1>7, ConstantFacts DEF LifeCycleInv, NoError
<1>9. \/ ev' = ev
      \/ ev' = [ev EXCEPT ![i].feedback = FALSE]
      \/ /\ pub[p].stage = "write" /\ Registered(i)
         /\ ev' = [ev EXCEPT ![i].event = e]
         /\ Stage(p, "clear")
  BY <1>1, <1>2, <1>3 DEF publish_event, PublishCheck, PublishWrite, PublishClear,
              PublishLookup, Crashes
<1>10. CASE ev' = ev
  BY <1>4, <1>7, <1>8, <1>10, CalmStep
<1>11. CASE ev' = [ev EXCEPT ![i].feedback = FALSE]
  <2>1. \A j \in Slots : /\ ev'[j].event = ev[j].event
                         /\ ev'[j].feedback => ev[j].feedback
    BY <1>1, <1>11 DEF EvTypes
  <2> QED BY <1>4, <1>7, <1>8, <2>1, CalmStep
<1>12. CASE /\ pub[p].stage = "write" /\ Registered(i)
            /\ ev' = [ev EXCEPT ![i].event = e]
            /\ Stage(p, "clear")
  <2>1. Pending(p, i)
    BY <1>12 DEF Pending
  <2>2. /\ Expected(e)
        /\ ~ev[i].feedback
        /\ \A q \in Publishers : Pending(q, i) => q = p
    BY <1>1, <2>1 DEF LifeCycleInv, PendingIsUntouched
  <2>3. \A j \in Slots : /\ ev'[j].feedback = ev[j].feedback
                         /\ ev'[j].event = IF j = i THEN e ELSE ev[j].event
    BY <1>1, <1>12 DEF EvTypes
  <2>4. \A q \in Publishers, j \in Slots : Pending(q, j)' => j # i
    BY <1>1, <1>7, <1>12, <2>2
  <2>5. \A x : Expected(x)' <=> Expected(x)
    BY <1>4 DEF Expected
  <2>6. \A j : Registered(j)' <=> Registered(j)
    BY <1>4 DEF Registered
  <2>7. UsedSlots' = UsedSlots /\ Members' = Members /\ UsedSlots \subseteq Slots
    BY <1>4 DEF UsedSlots, Members, Registered
  <2> HIDE DEF i, e
  <2>8. EventsAreCurrent'
    BY <1>4, <1>12, <2>2, <2>3, <2>5, <2>6, <2>7 DEF LifeCycleInv, EventsAreCurrent
  <2>9. PendingIsUntouched'
    BY <1>4, <1>7, <2>3, <2>4, <2>5 DEF LifeCycleInv, PendingIsUntouched
  <2>10. ConfirmedIsCurrent'
    BY <1>4, <2>3, <2>7 DEF LifeCycleInv, ConfirmedIsCurrent, RunningIsConfirmed
  <2>11. BeforeFirstEvent'
    BY <1>4, <1>7 DEF LifeCycleInv, BeforeFirstEvent
  <2> QED BY <1>8, <2>8, <2>9, <2>10, <2>11 DEF LifeCycleInv
<1> QED BY <1>9, <1>10, <1>11, <1>12

\* A command that is accepted finds a state in which nothing is under way.
LEMMA TriggerLife ==
  ASSUME TableInv, LifeCycleInv, NoError', NEW c \in Cmds,
         NEW curr, NEW next, NEW e,
         <<curr, next, e>> \in {<<"Stopped", "Runnable", "Start">>,
                               <<"Running", "Stopping", "Stop">>,
                               <<"Stopped", "Resetting", "Reset">>},
         trigger_event(c, curr, next, e),
         UNCHANGED <<assets, seen, ack>>
  PROVE  LifeCycleInv'
<1>1. /\ c \in Publishers
      /\ ev \in [Slots -> EvTypes]
      /\ pub \in [Publishers -> PubTypes]
      /\ epoch \in Nat
  BY ConstantFacts DEF TableInv, SimTypeOK, PubTypes, EvTypes
<1>2. /\ state = curr
      /\ ~sim_event_needs_handling(state)
      /\ e \in {"Start", "Stop", "Reset"} /\ next = ExpState(e)
      /\ next # "Running"
  BY DEF trigger_event, sim_event_needs_handling, ExpState
<1>3. state' = next /\ epoch' = epoch + 1 /\ Expected(e)'
  BY <1>2 DEF trigger_event, Expected, ExpState
<1>4. /\ pub'[c] = [stage |-> "check", event |-> e, slot |-> 0]
      /\ \A q \in Publishers : q # c => pub'[q] = pub[q]
  BY <1>1 DEF trigger_event, StartPublication
<1>5. \A x : ~Expected(x)
  BY <1>2, EventOfState
<1>6. \A j \in Slots : ev[j].event = "None"
  BY <1>5 DEF LifeCycleInv, EventsAreCurrent
<1>7. \A a \in Assets : seen[a].event = "None"
  BY <1>5 DEF LifeCycleInv, EventsAreCurrent
<1>8. \A q \in Publishers, j \in Slots : ~Pending(q, j)
  BY <1>5 DEF LifeCycleInv, PendingIsUntouched
<1>9. /\ \A j \in Slots : ev'[j].event = "None"
      /\ \A j \in Slots : Registered(j) => ~ev'[j].feedback
  <2>1. ev' = [i \in Slots |-> IF Registered(i)
                              THEN [ev[i] EXCEPT !.feedback = FALSE]
                              ELSE ev[i]]
    BY <1>2 DEF trigger_event
  <2> QED BY <1>1, <1>6, <2>1 DEF EvTypes
<1>10. \A q \in Publishers, j \in Slots : Pending(q, j)' => q = c /\ Registered(j)
  BY <1>4, <1>8 DEF Pending, Registered
<1>11. \A j : Registered(j)' <=> Registered(j)
  BY DEF Registered
<1>12. /\ \A j \in UsedSlots : Registered(j) /\ assets[j] \in Assets
       /\ UsedSlots' = UsedSlots /\ UsedSlots \subseteq Slots
  BY DEF UsedSlots, Registered, TableInv, SimTypeOK
<1>13. EventsAreCurrent'
  BY <1>7, <1>9, <1>12 DEF EventsAreCurrent
<1>14. PendingIsUntouched'
  <2>1. pub'[c].event = e
    BY <1>4
  <2>2. \A j \in Slots : Registered(j) => assets[j] \in Assets
    BY DEF Registered, TableInv, SimTypeOK
  <2> QED BY <1>3, <1>7, <1>9, <1>10, <2>1, <2>2 DEF PendingIsUntouched
<1>15. ConfirmedIsCurrent'
  BY <1>2, <1>3, <1>9, <1>12 DEF ConfirmedIsCurrent, RunningIsConfirmed
<1>16. BeforeFirstEvent'
  BY <1>1, <1>3 DEF BeforeFirstEvent
<1> QED BY <1>13, <1>14, <1>15, <1>16 DEF LifeCycleInv

\* Steps that leave the table, the events and the publications alone.
LEMMA IdleStep ==
  ASSUME TableInv, LifeCycleInv, NoError',
         UNCHANGED <<state, assets, ev, pub, seen, epoch, ack>>
  PROVE  LifeCycleInv'
<1>1. \A q \in Publishers, j \in Slots : Pending(q, j)' => Pending(q, j)
  BY DEF Pending, Registered
<1> QED BY <1>1, CalmStep

LEMMA CommandLife ==
  ASSUME TableInv, LifeCycleInv, NEW c \in Cmds, CommandStep(c)
  PROVE  LifeCycleInv'
<1>0. /\ c \in Publishers /\ c # "conductor"
      /\ pub \in [Publishers -> PubTypes]
      /\ cmd \in [Cmds -> {"idle", "reset_stopped", "reset_error", "crashed"}]
  BY ConstantFacts, SimEventAssumption DEF TableInv, SimTypeOK, PubTypes
<1>1. ASSUME NEW curr, NEW next, NEW e,
             <<curr, next, e>> \in {<<"Stopped", "Runnable", "Start">>,
                                   <<"Running", "Stopping", "Stop">>,
                                   <<"Stopped", "Resetting", "Reset">>},
             trigger_event(c, curr, next, e),
             UNCHANGED <<assets, seen, ack, cond>>,
             \A d \in Cmds : cmd'[d] # "reset_error"
      PROVE  LifeCycleInv'
  <2>1. /\ pub'[c] = [stage |-> "check", event |-> e, slot |-> 0]
        /\ \A q \in Publishers : q # c => pub'[q] = pub[q]
    BY <1>0, <1>1 DEF trigger_event, StartPublication
  <2>2. pub'[c].event # "Error"
    BY <1>1, <2>1
  <2>3. state' # "Error"
    BY <1>1 DEF trigger_event
  <2>4. NoError'
    BY <1>0, <1>1, <2>1, <2>2, <2>3, ConstantFacts DEF LifeCycleInv, NoError
  <2> QED BY <1>1, <2>4, TriggerLife
<1>2. CASE start(c)
  BY <1>1, <1>2 DEF start, CmdUnchanged, LifeCycleInv, NoError
<1>3. CASE stop(c)
  BY <1>1, <1>3 DEF stop, CmdUnchanged, LifeCycleInv, NoError
<1>4. CASE ResetPeek(c)
  <2>1. NoError'
    BY <1>0, <1>4 DEF ResetPeek, CmdUnchanged, LifeCycleInv, NoError
  <2> QED BY <1>4, <2>1, IdleStep DEF ResetPeek, CmdUnchanged
<1>5. CASE ResetTrigger(c)
  <2>1. cmd[c] = "reset_stopped" /\ cmd' = [cmd EXCEPT ![c] = "idle"]
    BY <1>5 DEF ResetTrigger, LifeCycleInv, NoError
  <2>2. CASE trigger_event(c, "Stopped", "Resetting", "Reset")
    <3>1. UNCHANGED <<assets, seen, ack, cond>>
      BY <1>5 DEF ResetTrigger, CmdUnchanged
    <3>2. \A d \in Cmds : cmd'[d] # "reset_error"
      BY <1>0, <2>1 DEF LifeCycleInv, NoError
    <3> QED BY <1>1, <2>2, <3>1, <3>2
  <2>3. CASE UNCHANGED <<state, ev, epoch, pub>>
    <3>1. NoError'
      BY <1>0, <1>5, <2>1, <2>3 DEF ResetTrigger, CmdUnchanged, LifeCycleInv, NoError
    <3> QED BY <1>5, <2>3, <3>1, IdleStep DEF ResetTrigger, CmdUnchanged
  <2> QED BY <1>5, <2>1, <2>2, <2>3 DEF ResetTrigger
<1>6. CASE CmdDies(c)
  <2>1. /\ pub'[c] = NotPublishing
        /\ \A q \in Publishers : q # c => pub'[q] = pub[q]
    BY <1>0, <1>6 DEF CmdDies
  <2>2. \A q \in Publishers : pub'[q] = pub[q] \/ pub'[q].stage = "off"
    BY <2>1 DEF NotPublishing
  <2>3. NoError'
    BY <1>0, <1>6, <2>1, ConstantFacts
    DEF CmdDies, CmdUnchanged, LifeCycleInv, NoError, NotPublishing
  <2>4. \A q \in Publishers, j \in Slots :
          Pending(q, j)' => Pending(q, j) /\ pub'[q].event = pub[q].event
    BY <1>6, <2>2 DEF CmdDies, CmdUnchanged, Pending, Registered
  <2> QED BY <1>6, <2>2, <2>3, <2>4, CalmStep DEF CmdDies, CmdUnchanged
<1> QED BY <1>2, <1>3, <1>4, <1>5, <1>6 DEF CommandStep

\* When every slot has its feedback, nothing of the transition is left over.
LEMMA AllFeedbackMeansDone ==
  ASSUME TableInv, LifeCycleInv, is_all_feedback
  PROVE  /\ \A j \in Slots : ev[j].event = "None"
         /\ \A a \in Assets : seen[a].event = "None"
         /\ \A q \in Publishers, j \in Slots : ~Pending(q, j)
<1>1. \A j \in Slots : Registered(j) => j \in UsedSlots /\ ev[j].feedback
  BY DEF is_all_feedback, UsedSlots
<1>2. \A j \in Slots : ev[j].event = "None"
  BY <1>1 DEF LifeCycleInv, EventsAreCurrent
<1>3. \A j \in UsedSlots : seen[assets[j]].event = "None"
  BY DEF is_all_feedback, LifeCycleInv, EventsAreCurrent
<1>4. \A a \in Assets : seen[a].event = "None"
  BY <1>3 DEF LifeCycleInv, EventsAreCurrent, Members
<1>5. \A q \in Publishers, j \in Slots : ~Pending(q, j)
  BY <1>1 DEF LifeCycleInv, PendingIsUntouched, Pending
<1> QED BY <1>2, <1>4, <1>5

LEMMA ConductorLife ==
  ASSUME Slow = {}, TableInv, LifeCycleInv, execute
  PROVE  LifeCycleInv'
<1>1. ASSUME NEW l, l \notin {"publish", "drop"}, CondGoto(l),
             UNCHANGED <<state, assets, ev, asset_num, pub, epoch, cmd, seen, ack>>
      PROVE  LifeCycleInv'
  <2>1. cond'.pc = l
    BY <1>1 DEF CondGoto, TableInv, SimTypeOK
  <2>2. NoError'
    BY <1>1, <2>1 DEF LifeCycleInv, NoError
  <2> QED BY <1>1, <2>2, IdleStep
<1>2. CASE Peek
  <2>1. PICK l \in {"handle", "time", "peek"} : CondGoto(l)
    BY <1>2 DEF Peek
  <2> QED BY <1>1, <1>2, <2>1 DEF Peek, CondUnchanged
<1>3. CASE HandleAllFeedback
  <2>1. CASE UNCHANGED state
    <3>1. PICK l \in {"create", "peek", "reset"} : CondGoto(l)
      BY <1>3 DEF HandleAllFeedback
    <3> QED BY <1>1, <1>3, <2>1, <3>1 DEF HandleAllFeedback, CondUnchanged
  <2>2. CASE state' # state
    <3>1. /\ sim_event_needs_handling(state)
          /\ state' \in {"Running", "Stopped"}
          /\ \E l \in {"create", "peek", "reset"} : CondGoto(l)
      BY <1>3, <2>2 DEF HandleAllFeedback, sim_event_needs_handling
    <3>2. UNCHANGED <<assets, ev, asset_num, pub, epoch, cmd, seen, ack>>
      BY <1>3 DEF HandleAllFeedback, CondUnchanged
    <3>3. /\ \A j \in Slots : ev[j].event = "None"
          /\ \A a \in Assets : seen[a].event = "None"
          /\ \A q \in Publishers, j \in Slots : ~Pending(q, j)
      BY <1>3, AllFeedbackMeansDone DEF HandleAllFeedback
    <3>4. cond'.pc \in {"create", "peek", "reset"}
      BY <3>1 DEF CondGoto, TableInv, SimTypeOK
    <3>5. NoError'
      BY <3>1, <3>2, <3>4 DEF LifeCycleInv, NoError
    <3>6. UsedSlots' = UsedSlots /\ \A j \in UsedSlots : assets[j] \in Assets
      BY <3>2 DEF UsedSlots, Registered, TableInv, SimTypeOK
    <3>7. EventsAreCurrent'
      BY <3>2, <3>3, <3>6 DEF EventsAreCurrent
    <3>8. PendingIsUntouched'
      BY <3>2, <3>3 DEF PendingIsUntouched, Pending, Registered
    <3>9. ConfirmedIsCurrent'
      BY <1>3, <3>1, <3>2, <3>6
      DEF ConfirmedIsCurrent, RunningIsConfirmed, HandleAllFeedback, is_all_feedback,
          LifeCycleInv, sim_event_needs_handling
    <3>10. BeforeFirstEvent'
      BY <3>1, <3>2 DEF BeforeFirstEvent, LifeCycleInv, sim_event_needs_handling
    <3> QED BY <3>5, <3>7, <3>8, <3>9, <3>10 DEF LifeCycleInv
  <2> QED BY <2>1, <2>2
<1>4. CASE HandleWait
  BY <1>1, <1>4 DEF HandleWait, CondUnchanged
<1>5. ~HandleTimeout
  BY DEF HandleTimeout
<1>6. ~TriggerError /\ ~DropLate
  BY DEF TriggerError, DropLate, LifeCycleInv, NoError
<1>7. CASE CreatePdu
  BY <1>1, <1>7 DEF CreatePdu, CondUnchanged
<1>8. CASE ResetTime
  BY <1>1, <1>8 DEF ResetTime, CondUnchanged
<1>9. CASE ResetPdu
  BY <1>1, <1>9 DEF ResetPdu, CondUnchanged
<1>10. CASE MoveTime
  BY <1>1, <1>10 DEF MoveTime, CondUnchanged
<1> QED BY <1>2, <1>3, <1>4, <1>5, <1>6, <1>7, <1>8, <1>9, <1>10 DEF execute

\* A registration while nothing is being published.
LEMMA RegisterLife ==
  ASSUME TableInv, LifeCycleInv, NEW a \in Assets, asset_register(a),
         \A p \in Publishers : pub[p].stage = "off"
  PROVE  LifeCycleInv'
<1>1. /\ UNCHANGED <<state, cond, cmd, pub, epoch, ev, ack>>
      /\ seen' = [seen EXCEPT ![a] = [event |-> "None", epoch |-> 0]]
      /\ alloc_asset(a)
      /\ state = "Stopped"
  BY DEF asset_register, alloc_asset, AssetUnchanged
<1>2. NoError' /\ BeforeFirstEvent'
  BY <1>1 DEF LifeCycleInv, NoError, BeforeFirstEvent
<1>3. \A x : ~Expected(x)
  BY <1>1, EventOfState DEF sim_event_needs_handling
<1>4. \A j \in Slots : ev[j].event = "None"
  BY <1>3 DEF LifeCycleInv, EventsAreCurrent
<1>5. \A b \in Assets : seen'[b].event = "None"
  BY <1>1, <1>3 DEF LifeCycleInv, EventsAreCurrent, TableInv, SimTypeOK
<1>6. \A j \in UsedSlots' : assets'[j] \in Assets
  BY <1>1, AllocStep DEF UsedSlots, Registered
<1>7. EventsAreCurrent'
  BY <1>1, <1>4, <1>5, <1>6 DEF EventsAreCurrent
<1>8. PendingIsUntouched'
  BY <1>1 DEF PendingIsUntouched, Pending
<1>9. ConfirmedIsCurrent'
  BY <1>1 DEF ConfirmedIsCurrent, RunningIsConfirmed, sim_event_needs_handling
<1> QED BY <1>2, <1>7, <1>8, <1>9 DEF LifeCycleInv

\* An unregistration.
LEMMA LeaveLife ==
  ASSUME TableInv, LifeCycleInv, NEW a, free_asset(a),
         UNCHANGED <<state, cond, cmd, pub, epoch, ev, ack>>,
         \A b \in Assets : seen'[b].event \in {seen[b].event, "None"}
  PROVE  LifeCycleInv'
<1>1. state = "Stopped"
  BY DEF free_asset, CanFree, LifeCycleInv, NoError
<1>2. NoError' /\ BeforeFirstEvent'
  BY DEF LifeCycleInv, NoError, BeforeFirstEvent
<1>3. \A x : ~Expected(x)
  BY <1>1, EventOfState DEF sim_event_needs_handling
<1>4. \A j \in Slots : ev[j].event = "None"
  BY <1>3 DEF LifeCycleInv, EventsAreCurrent
<1>5. \A b \in Assets : seen'[b].event = "None"
  BY <1>3 DEF LifeCycleInv, EventsAreCurrent
<1>6. \A j \in UsedSlots' : assets'[j] \in Assets
  BY FreeStep DEF UsedSlots, Registered
<1>7. EventsAreCurrent'
  BY <1>4, <1>5, <1>6 DEF EventsAreCurrent
<1>8. \A j \in Slots : Registered(j)' => Registered(j)
  <2>1. SlotOf(a) \in Slots /\ assets[SlotOf(a)] = a /\ a \in Assets
    BY SlotFacts DEF free_asset, CanFree, TableInv
  <2> QED BY <2>1, ConstantFacts DEF Registered, free_asset, TableInv, SimTypeOK
<1>9. \A q \in Publishers, j \in Slots : Pending(q, j)' => Pending(q, j)
  BY <1>8 DEF Pending
<1>10. PendingIsUntouched'
  BY <1>3, <1>9 DEF PendingIsUntouched, LifeCycleInv
<1>11. ConfirmedIsCurrent'
  BY <1>1 DEF ConfirmedIsCurrent, RunningIsConfirmed, sim_event_needs_handling
<1> QED BY <1>2, <1>7, <1>10, <1>11 DEF LifeCycleInv

\* A registered asset reads the event in its slot, while a publication may go on.
LEMMA ReadLife ==
  ASSUME TableInv, LifeCycleInv, NoError', NEW k \in UsedSlots, ev[k].event # "None",
         seen' = [seen EXCEPT ![assets[k]] = [event |-> ev[k].event, epoch |-> epoch]],
         UNCHANGED <<state, assets, ev, epoch, ack>>,
         \A q \in Publishers : pub[q].stage = "off" => pub'[q].stage = "off",
         \A q \in Publishers, j \in Slots :
           Pending(q, j)' => Pending(q, j) /\ pub'[q].event = pub[q].event
  PROVE  LifeCycleInv'
<1> DEFINE a == assets[k]
<1>1. /\ seen \in [Assets -> [event : Event, epoch : Nat]]
      /\ UsedSlots \subseteq Slots
      /\ \A j \in UsedSlots : assets[j] \in Assets
      /\ k \in Slots
  BY DEF TableInv, SimTypeOK, UsedSlots, Registered
<1>2. a \in Assets /\ a \in Members /\ \A j \in UsedSlots : assets[j] = a => j = k
  BY <1>1 DEF TableInv, TableConsistent, Members
<1>3. UsedSlots' = UsedSlots /\ Members' = Members /\ \A j : Registered(j)' <=> Registered(j)
  BY DEF UsedSlots, Members, Registered
<1>4. \A x : Expected(x)' <=> Expected(x)
  BY DEF Expected
<1>5. Expected(ev[k].event) /\ ~ev[k].feedback
  BY <1>1 DEF LifeCycleInv, EventsAreCurrent
<1>6. /\ seen'[a].event = ev[k].event /\ seen'[a].epoch = epoch
      /\ \A b \in Assets : b # a => seen'[b] = seen[b]
  BY <1>1, <1>2
<1> HIDE DEF a
<1>7. EventsAreCurrent'
  BY <1>1, <1>2, <1>3, <1>4, <1>5, <1>6 DEF LifeCycleInv, EventsAreCurrent
<1>8. \A q \in Publishers, j \in Slots : Pending(q, j) => j \in UsedSlots /\ assets[j] # a
  BY <1>2 DEF Pending, UsedSlots, LifeCycleInv, PendingIsUntouched
<1>9. PendingIsUntouched'
  BY <1>1, <1>4, <1>6, <1>8 DEF LifeCycleInv, PendingIsUntouched
<1>10. ConfirmedIsCurrent'
  BY <1>3 DEF LifeCycleInv, ConfirmedIsCurrent, RunningIsConfirmed
<1>11. BeforeFirstEvent'
  BY DEF LifeCycleInv, BeforeFirstEvent
<1> QED BY <1>7, <1>9, <1>10, <1>11 DEF LifeCycleInv

\* What is answered was read in this transition.
LEMMA AnswerLife ==
  ASSUME TableInv, LifeCycleInv, NEW a \in Assets, NEW isOk \in Answers, feedback(a, isOk)
  PROVE  LifeCycleInv'
<1> DEFINE k == SlotOf(a)
<1>0. /\ ev \in [Slots -> EvTypes]
      /\ seen \in [Assets -> [event : Event, epoch : Nat]]
      /\ ack \in [Assets -> Nat]
      /\ UsedSlots \subseteq Slots
      /\ \A j \in UsedSlots : assets[j] \in Assets
  BY DEF TableInv, SimTypeOK, EvTypes, UsedSlots, Registered
<1>1. UNCHANGED <<state, cond, cmd, pub, epoch, assets>>
  BY DEF feedback, AssetUnchanged
<1>2. NoError' /\ BeforeFirstEvent'
  BY <1>1 DEF LifeCycleInv, NoError, BeforeFirstEvent
<1>3. \A x : Expected(x)' <=> Expected(x)
  BY <1>1 DEF Expected
<1>4. /\ seen[a].event # "None"
      /\ seen' = [seen EXCEPT ![a] = [event |-> "None", epoch |-> 0]]
  BY DEF feedback
<1>5. a \in Members /\ Expected(seen[a].event) /\ seen[a].epoch = epoch
  BY <1>4 DEF LifeCycleInv, EventsAreCurrent
<1>6. k \in UsedSlots /\ k \in Slots /\ assets[k] = a
  BY <1>5, SlotFacts DEF TableInv
<1>7. \A j \in UsedSlots : assets[j] = a => j = k
  BY <1>6 DEF TableInv, TableConsistent
<1>8. UsedSlots' = UsedSlots /\ Members' = Members /\ \A j : Registered(j)' <=> Registered(j)
  BY <1>1 DEF UsedSlots, Members, Registered
<1>9. \A q \in Publishers, j \in Slots :
        (Pending(q, j)' <=> Pending(q, j)) /\ (Pending(q, j) => j \in UsedSlots)
  BY <1>1 DEF Pending, Registered, UsedSlots
<1>10. PICK ok \in BOOLEAN :
         /\ ev' = [ev EXCEPT ![k].feedback = ok, ![k].event = "None"]
         /\ ack' = IF ok THEN [ack EXCEPT ![a] = seen[a].epoch] ELSE ack
  BY <1>5, SimEventAssumption DEF feedback
<1> HIDE DEF k
<1>11. sim_event_needs_handling(state)
  BY <1>5, EventOfState
<1>12. /\ seen'[a].event = "None"
       /\ \A b \in Assets : b # a => seen'[b] = seen[b]
  BY <1>0, <1>4
<1>13. /\ ev'[k].event = "None" /\ ev'[k].feedback = ok
       /\ \A j \in Slots : j # k => ev'[j] = ev[j]
  BY <1>0, <1>6, <1>10 DEF EvTypes
<1>14. /\ ok => ack'[a] = epoch
       /\ \A b \in Assets : b # a => ack'[b] = ack[b]
  BY <1>0, <1>5, <1>10
<1>15. EventsAreCurrent'
  BY <1>0, <1>1, <1>3, <1>6, <1>7, <1>8, <1>12, <1>13 DEF LifeCycleInv, EventsAreCurrent
<1>16. \A q \in Publishers, j \in Slots : Pending(q, j) => j # k
  BY <1>4, <1>6 DEF LifeCycleInv, PendingIsUntouched
<1>17. PendingIsUntouched'
  BY <1>0, <1>1, <1>3, <1>7, <1>9, <1>12, <1>13, <1>16
  DEF LifeCycleInv, PendingIsUntouched
<1>18. ConfirmedIsCurrent'
  <2>1. \A j \in UsedSlots : ev'[j].feedback => ack'[assets[j]] = epoch
    BY <1>0, <1>6, <1>7, <1>11, <1>13, <1>14 DEF LifeCycleInv, ConfirmedIsCurrent
  <2>2. state # "Running"
    BY <1>11 DEF sim_event_needs_handling
  <2> QED BY <1>1, <1>8, <2>1, <2>2 DEF ConfirmedIsCurrent, RunningIsConfirmed
<1> QED BY <1>2, <1>15, <1>17, <1>18 DEF LifeCycleInv

\* Assets: nobody joins once there was an event.
LEMMA AssetLife ==
  ASSUME JoinLate = FALSE, TableInv, LifeCycleInv, NEW a \in Assets, AssetStep(a)
  PROVE  LifeCycleInv'
<1>1. CASE asset_register(a)
  <2>1. \A p \in Publishers : pub[p].stage = "off"
    BY <1>1 DEF asset_register, LifeCycleInv, BeforeFirstEvent
  <2> QED BY <1>1, <2>1, RegisterLife
<1>2. CASE asset_unregister(a)
  <2>1. \A b \in Assets : seen'[b].event \in {seen[b].event, "None"}
    BY <1>2 DEF asset_unregister, TableInv, SimTypeOK
  <2> QED BY <1>2, <2>1, LeaveLife DEF asset_unregister, AssetUnchanged
<1>3. CASE asset_get_event(a)
  <2>1. /\ SlotOf(a) \in UsedSlots /\ assets[SlotOf(a)] = a
        /\ ev[SlotOf(a)].event # "None"
        /\ seen' = [seen EXCEPT ![a] = [event |-> ev[SlotOf(a)].event, epoch |-> epoch]]
        /\ UNCHANGED <<state, cond, cmd, pub, epoch, assets, ev, ack>>
    BY <1>3, SlotFacts DEF asset_get_event, AssetUnchanged, TableInv
  <2>2. NoError'
    BY <2>1 DEF LifeCycleInv, NoError
  <2>3. \A q \in Publishers, j \in Slots : Pending(q, j)' => Pending(q, j)
    BY <2>1 DEF Pending, Registered
  <2> QED BY <2>1, <2>2, <2>3, ReadLife
<1> QED BY <1>1, <1>2, <1>3, AnswerLife DEF AssetStep, PollAndAnswer

\* Nobody publishes and no slot holds an event at the start.
LEMMA LifeInit == SimInit => LifeCycleInv
<1> SUFFICES ASSUME SimInit PROVE LifeCycleInv
  OBVIOUS
<1>1. \A p \in Publishers : pub[p].stage = "off" /\ pub[p].event = "None"
  BY DEF SimInit, NotPublishing
<1>2. UsedSlots = {}
  BY DEF SimInit, UsedSlots, Registered
<1>3. EventsAreCurrent
  BY <1>2 DEF SimInit, EventsAreCurrent
<1>4. PendingIsUntouched
  BY <1>1 DEF PendingIsUntouched, Pending
<1>5. NoError
  BY <1>1, ConstantFacts DEF SimInit, NoError
<1> QED BY <1>1, <1>2, <1>3, <1>4, <1>5
        DEF SimInit, LifeCycleInv, ConfirmedIsCurrent, RunningIsConfirmed,
            BeforeFirstEvent

\* The life-cycle invariant holds in every reachable state of an instance
\* without expiring heartbeats and late joiners.
LEMMA LifeCycleInvariance ==
  ASSUME Slow = {}, JoinLate = FALSE
  PROVE  SimSpec => [](TableInv /\ LifeCycleInv)
<1>1. SimInit => LifeCycleInv
  BY LifeInit
<1>2. TableInv /\ LifeCycleInv /\ [SimNext]_simVars => LifeCycleInv'
  <2>1. CASE UNCHANGED simVars
    <3>1. LifeCycleInv => NoError'
      BY <2>1 DEF simVars, LifeCycleInv, NoError
    <3> QED BY <2>1, <3>1, IdleStep DEF simVars
  <2>2. CASE SimNext
    BY <2>2, CommandLife, PublishLife, ConductorLife, AssetLife DEF SimNext
  <2> QED BY <2>1, <2>2
<1> QED BY <1>1, <1>2, TableInvariance, PTL DEF SimSpec

\* While the simulation runs, every registered asset has itself confirmed the
\* start that led to it, however commands, the publication, the conductor and
\* the assets interleave, and whether or not commands die or assets leave
\* before the next start: provided that no heartbeat expires and that assets
\* register before the first command.  Both are needed: with Slow = {a1}, or
\* with JoinLate = TRUE, in MCSimEvent.cfg TLC finds a running simulation with
\* an asset whose confirmation belongs to an earlier event.
THEOREM RunningMeansConfirmed ==
  ASSUME Slow = {}, JoinLate = FALSE
  PROVE  SimSpec => []RunningIsConfirmed
<1>1. TableInv /\ LifeCycleInv => RunningIsConfirmed
  BY DEF LifeCycleInv, ConfirmedIsCurrent
<1> QED BY <1>1, LifeCycleInvariance, PTL

\* The conductor leaves a transitional state only when every registered asset
\* has answered this very event (do_event_handling, is_all_feedback), under
\* the same two provisos.
THEOREM TransitionsAreConfirmed ==
  ASSUME Slow = {}, JoinLate = FALSE
  PROVE  SimSpec => TransitionsConfirmed
<1>1. TableInv /\ LifeCycleInv /\ [SimNext]_simVars =>
        [(sim_event_needs_handling(state) /\ state' \in {"Running", "Stopped"})
           => \A i \in UsedSlots : ack[assets[i]] = epoch]_simVars
  <2> SUFFICES ASSUME TableInv, LifeCycleInv, SimNext,
                      sim_event_needs_handling(state),
                      state' \in {"Running", "Stopped"}
               PROVE  \A i \in UsedSlots : ack[assets[i]] = epoch
    OBVIOUS
  <2>1. state' # state
    BY DEF sim_event_needs_handling
  <2>2. ~\E c \in Cmds : CommandStep(c)
    <3> SUFFICES ASSUME NEW c \in Cmds, CommandStep(c) PROVE FALSE
      OBVIOUS
    <3> QED BY <2>1 DEF CommandStep, start, stop, ResetPeek, ResetTrigger, CmdDies,
                        trigger_event, LifeCycleInv, NoError, sim_event_needs_handling
  <2>3. ~\E p \in Publishers : publish_event(p)
    BY <2>1 DEF publish_event, PublishCheck, PublishWrite, PublishClear,
                PublishLookup, TableUnchanged
  <2>4. ~\E a \in Assets : AssetStep(a)
    BY <2>1 DEF AssetStep, asset_register, asset_unregister, PollAndAnswer,
                asset_get_event, feedback, AssetUnchanged
  <2>5. HandleAllFeedback
    BY <2>1, <2>2, <2>3, <2>4
    DEF SimNext, execute, Peek, HandleWait, HandleTimeout, TriggerError, DropLate,
        CreatePdu, ResetTime, ResetPdu, MoveTime, trigger_event, LifeCycleInv, NoError
  <2> QED BY <2>5 DEF HandleAllFeedback, is_all_feedback, LifeCycleInv,
                      ConfirmedIsCurrent
<1> QED BY <1>1, LifeCycleInvariance, PTL DEF SimSpec, TransitionsConfirmed

-----------------------------------------------------------------------------
(* The life cycle implements its promise *)

\* Nobody has confirmed an event that was not accepted yet.
AckNotAhead == \A a \in Assets : ack[a] <= epoch

\* A step that leaves the state, the table, the epoch and the confirmations
\* alone does not show.
LEMMA HiddenStep ==
  ASSUME UNCHANGED <<state, assets, epoch, ack>>
  PROVE  AckNotAhead => AckNotAhead' /\ UNCHANGED Promise!lifeVars
BY DEF AckNotAhead, Promise!lifeVars, Confirmed, Members, UsedSlots, Registered

\* An accepted event: every confirmation is out of date at once.
LEMMA RequestShows ==
  ASSUME TableInv, AckNotAhead, UNCHANGED <<assets, ack>>, epoch' = epoch + 1,
         <<state, state'>> \in {<<"Stopped", "Runnable">>, <<"Running", "Stopping">>,
                                <<"Stopped", "Resetting">>}
  PROVE  Promise!Request /\ AckNotAhead'
<1>1. Members' = Members /\ Members \subseteq Assets
  BY DEF Members, UsedSlots, Registered, TableInv, SimTypeOK
<1>2. epoch \in Nat /\ \A a \in Assets : ack[a] \in Nat /\ ack[a] <= epoch
  BY DEF TableInv, SimTypeOK, AckNotAhead
<1>3. \A a \in Members' : ack'[a] # epoch'
  BY <1>1, <1>2
<1>4. Confirmed' = {}
  BY <1>3 DEF Confirmed
<1>5. AckNotAhead'
  BY <1>2 DEF AckNotAhead
<1> QED BY <1>1, <1>4, <1>5 DEF Promise!Request

LEMMA CommandShows ==
  ASSUME TableInv, LifeCycleInv, AckNotAhead, NEW c \in Cmds, CommandStep(c)
  PROVE  AckNotAhead' /\ (Promise!Request \/ UNCHANGED Promise!lifeVars)
<1>1. UNCHANGED <<assets, ack>>
  BY DEF CommandStep, start, stop, ResetPeek, ResetTrigger, CmdDies, CmdUnchanged
<1>2. CASE UNCHANGED <<state, epoch>>
  BY <1>1, <1>2, HiddenStep
<1>3. CASE start(c)
  BY <1>1, <1>3, RequestShows DEF start, trigger_event
<1>4. CASE stop(c)
  BY <1>1, <1>4, RequestShows DEF stop, trigger_event
<1>5. CASE ResetTrigger(c)
  <2>1. cmd[c] = "reset_stopped"
    BY <1>5 DEF ResetTrigger, LifeCycleInv, NoError
  <2>2. CASE trigger_event(c, "Stopped", "Resetting", "Reset")
    BY <1>1, <2>2, RequestShows DEF trigger_event
  <2>3. trigger_event(c, "Stopped", "Resetting", "Reset") \/ UNCHANGED <<state, epoch>>
    BY <1>5, <2>1 DEF ResetTrigger
  <2> QED BY <1>2, <2>2, <2>3
<1>6. CASE ResetPeek(c) \/ CmdDies(c)
  BY <1>2, <1>6 DEF ResetPeek, CmdDies
<1> QED BY <1>3, <1>4, <1>5, <1>6 DEF CommandStep

LEMMA ConductorShows ==
  ASSUME Slow = {}, TableInv, LifeCycleInv, AckNotAhead, execute
  PROVE  AckNotAhead' /\ (Promise!Complete \/ UNCHANGED Promise!lifeVars)
<1>1. ~HandleTimeout /\ ~TriggerError /\ ~DropLate
  BY DEF HandleTimeout, TriggerError, DropLate, LifeCycleInv, NoError
<1>2. UNCHANGED <<assets, epoch, ack>>
  BY <1>1 DEF execute, Peek, HandleAllFeedback, HandleWait, CreatePdu, ResetTime,
              ResetPdu, MoveTime, CondUnchanged
<1>3. CASE UNCHANGED state
  BY <1>2, <1>3, HiddenStep
<1>4. CASE state' # state
  <2>1. HandleAllFeedback
    BY <1>1, <1>4 DEF execute, Peek, HandleWait, CreatePdu, ResetTime, ResetPdu, MoveTime
  <2>2. <<state, state'>> \in {<<"Runnable", "Running">>, <<"Stopping", "Stopped">>,
                               <<"Resetting", "Stopped">>}
    BY <1>4, <2>1 DEF HandleAllFeedback
  <2>3. \A j \in UsedSlots : ack[assets[j]] = epoch
    BY <2>1, <2>2 DEF HandleAllFeedback, is_all_feedback, LifeCycleInv, ConfirmedIsCurrent,
                      sim_event_needs_handling
  <2>4. epoch > 0
    <3>1. epoch \in Nat /\ epoch # 0
      BY <2>2 DEF LifeCycleInv, BeforeFirstEvent, TableInv, SimTypeOK
    <3> QED BY <3>1
  <2>5. Members \subseteq Confirmed
    BY <2>3, <2>4 DEF Members, Confirmed
  <2>6. Members' = Members /\ Confirmed' = Confirmed
    BY <1>2 DEF Members, Confirmed, UsedSlots, Registered
  <2>7. AckNotAhead'
    BY <1>2 DEF AckNotAhead
  <2> QED BY <2>2, <2>5, <2>6, <2>7 DEF Promise!Complete
<1> QED BY <1>3, <1>4

\* Whoever joins has not confirmed the last event.
LEMMA RegisterShows ==
  ASSUME TableInv, AckNotAhead, NEW a \in Assets, asset_register(a), epoch > 0 => ack[a] # epoch
  PROVE  AckNotAhead' /\ Promise!Join(a)
<1> DEFINE m == Min(FreeSlots)
<1>1. /\ state = "Stopped" /\ a \notin Members
      /\ assets' = [assets EXCEPT ![m] = a]
      /\ FreeSlots # {}
      /\ UNCHANGED <<state, epoch, ack>>
  BY DEF asset_register, alloc_asset, AssetUnchanged
<1>2. m \in Slots /\ ~Registered(m)
  BY <1>1, AllocFacts
<1> HIDE DEF m
<1>3. assets \in [Slots -> Assets \cup {NoAsset}] /\ a # NoAsset
  BY ConstantFacts DEF TableInv, SimTypeOK
<1>4. UsedSlots' = UsedSlots \cup {m}
  BY <1>1, <1>2, <1>3 DEF UsedSlots, Registered
<1>5. assets'[m] = a /\ \A i \in UsedSlots : assets'[i] = assets[i]
  BY <1>1, <1>2, <1>3 DEF UsedSlots
<1>6. Members' = Members \cup {a}
  BY <1>4, <1>5 DEF Members
<1>7. Confirmed' = Confirmed
  BY <1>1, <1>6 DEF Confirmed
<1>8. AckNotAhead'
  BY <1>1 DEF AckNotAhead
<1> QED BY <1>1, <1>6, <1>7, <1>8 DEF Promise!Join

LEMMA LeaveShows ==
  ASSUME TableInv, LifeCycleInv, AckNotAhead, NEW a \in Assets,
         free_asset(a), UNCHANGED <<ack, state, epoch>>
  PROVE  AckNotAhead' /\ Promise!Leave(a)
<1> DEFINE m == SlotOf(a)
<1>1. /\ state = "Stopped" /\ a \in Members
      /\ assets' = [assets EXCEPT ![m] = NoAsset]
      /\ UNCHANGED <<state, epoch, ack>>
  BY DEF free_asset, CanFree, LifeCycleInv, NoError
<1>2. m \in UsedSlots /\ m \in Slots /\ assets[m] = a
  BY <1>1, SlotFacts DEF TableInv
<1> HIDE DEF m
<1>3. assets \in [Slots -> Assets \cup {NoAsset}]
  BY DEF TableInv, SimTypeOK
<1>4. UsedSlots' = UsedSlots \ {m}
  BY <1>1, <1>2, <1>3 DEF UsedSlots, Registered
<1>5. \A i \in UsedSlots : i # m => assets'[i] = assets[i] /\ assets[i] # a
  BY <1>1, <1>2, <1>3 DEF UsedSlots, TableInv, TableConsistent
<1>6. Members' = Members \ {a}
  BY <1>2, <1>4, <1>5 DEF Members
<1>7. Confirmed' = Confirmed \ {a}
  BY <1>1, <1>6 DEF Confirmed
<1>8. AckNotAhead'
  BY <1>1 DEF AckNotAhead
<1> QED BY <1>1, <1>6, <1>7, <1>8 DEF Promise!Leave

LEMMA AnswerShows ==
  ASSUME TableInv, LifeCycleInv, AckNotAhead, NEW a \in Assets, NEW isOk \in Answers,
         feedback(a, isOk)
  PROVE  AckNotAhead' /\ (Promise!Confirm(a) \/ UNCHANGED Promise!lifeVars)
<1>1. UNCHANGED <<state, assets, epoch>> /\ seen[a].event # "None"
  BY DEF feedback, AssetUnchanged
<1>2. a \in Members /\ Expected(seen[a].event) /\ seen[a].epoch = epoch
  BY <1>1 DEF LifeCycleInv, EventsAreCurrent
<1>3. UNCHANGED ack \/ ack' = [ack EXCEPT ![a] = epoch]
  BY <1>2 DEF feedback
<1>4. CASE UNCHANGED ack
  BY <1>1, <1>4, HiddenStep
<1>5. CASE ack' = [ack EXCEPT ![a] = epoch]
  <2>1. ack \in [Assets -> Nat] /\ epoch \in Nat /\ Members \subseteq Assets
    BY DEF TableInv, SimTypeOK, Members, UsedSlots, Registered
  <2>2. sim_event_needs_handling(state)
    BY <1>2, EventOfState
  <2>3. epoch > 0
    BY <2>1, <2>2 DEF LifeCycleInv, BeforeFirstEvent, sim_event_needs_handling
  <2>4. Members' = Members
    BY <1>1 DEF Members, UsedSlots, Registered
  <2>5. ack'[a] = epoch /\ \A b \in Assets \ {a} : ack'[b] = ack[b]
    BY <1>5, <2>1
  <2>6. Confirmed' = Confirmed \cup {a}
    BY <1>1, <1>2, <2>1, <2>3, <2>4, <2>5 DEF Confirmed
  <2>7. AckNotAhead'
    BY <1>1, <2>1, <2>5 DEF AckNotAhead
  <2> QED BY <1>1, <1>2, <2>2, <2>4, <2>6, <2>7
          DEF Promise!Confirm, sim_event_needs_handling
<1> QED BY <1>3, <1>4, <1>5

\* Whatever commands, publications, the conductor and the assets do, one slot
\* and one unlocked read at a time, looks like the request, confirm, complete
\* of LifeCycle: for any number of assets, slots, commands and events, with
\* commands that die and assets that leave.  Provided that no heartbeat expires
\* and that assets register before the first command.
THEOREM LifeCycleKeepsPromise ==
  ASSUME Slow = {}, JoinLate = FALSE
  PROVE  SimSpec => ImplementsLifeCycle
<1>1. SimInit => AckNotAhead /\ Promise!LifeInit
  BY DEF SimInit, AckNotAhead, Promise!LifeInit, Confirmed, Members, UsedSlots, Registered
<1>2. TableInv /\ LifeCycleInv /\ AckNotAhead /\ [SimNext]_simVars
        => AckNotAhead' /\ [Promise!LifeNext]_(Promise!lifeVars)
  <2> SUFFICES ASSUME TableInv, LifeCycleInv, AckNotAhead, [SimNext]_simVars
               PROVE  AckNotAhead' /\ [Promise!LifeNext]_(Promise!lifeVars)
    OBVIOUS
  <2>1. CASE UNCHANGED simVars
    BY <2>1, HiddenStep DEF simVars
  <2>2. CASE \E c \in Cmds : CommandStep(c)
    BY <2>2, CommandShows DEF Promise!LifeNext
  <2>3. CASE \E p \in Publishers : publish_event(p)
    BY <2>3, HiddenStep DEF publish_event, PublishCheck, PublishWrite, PublishClear,
                            PublishLookup, TableUnchanged
  <2>4. CASE execute
    BY <2>4, ConductorShows DEF Promise!LifeNext
  <2>5. ASSUME NEW a \in Assets, AssetStep(a)
        PROVE  AckNotAhead' /\ [Promise!LifeNext]_(Promise!lifeVars)
    <3>1. CASE asset_register(a)
      <4>1. epoch = 0
        BY <3>1 DEF asset_register
      <4> QED BY <3>1, <4>1, RegisterShows DEF Promise!LifeNext
    <3>2. CASE asset_unregister(a)
      BY <3>2, LeaveShows DEF asset_unregister, AssetUnchanged, Promise!LifeNext
    <3>3. CASE asset_get_event(a)
      BY <3>3, HiddenStep DEF asset_get_event, AssetUnchanged
    <3>4. CASE \E isOk \in Answers : feedback(a, isOk)
      BY <3>4, AnswerShows DEF Promise!LifeNext
    <3> QED BY <2>5, <3>1, <3>2, <3>3, <3>4 DEF AssetStep, PollAndAnswer
  <2> QED BY <2>1, <2>2, <2>3, <2>4, <2>5 DEF SimNext
<1> QED BY <1>1, <1>2, LifeCycleInvariance, PTL
        DEF SimSpec, ImplementsLifeCycle, Promise!LifeSpec
=============================================================================
