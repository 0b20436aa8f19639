---------------------------- MODULE AssetRpcProofs ----------------------------
(***************************************************************************)
(* Proofs about AssetRpc for any number of assets, slots, commands and     *)
(* events, in an instance whose assets come and go between events          *)
(* (Orderly) and whose heartbeats do not expire (Slow = {}).  The life     *)
(* cycle below keeps the invariants of SimEventProofs.                     *)
(***************************************************************************)
EXTENDS AssetRpc, SimEventProofs

-----------------------------------------------------------------------------
(* The inductive invariant                                                   *)

\* A registered asset is in its slot; what a thread may be doing while its
\* asset registers, is in the table, or leaves.
ThreadsFitMain ==
  \A a \in Assets :
    LET t == proxy[a] IN
    /\ main[a] = "in" <=> a \in Members
    /\ main[a] = "in" => assets[t.slot] = a
    /\ main[a] = "in" /\ a \in InMaster => t.pc \in {"none", "call"}
    /\ main[a] = "in" /\ a \notin InMaster => t.pc \in {"down", "look", "read", "call"}
    /\ main[a] = "out" => t.pc = "none"
    /\ main[a] = "up" => t.pc = "down"
    /\ main[a] = "join" => t.pc \in {"down", "look", "ended"}
    /\ main[a] = "left" => t.pc \in {"none", "ended"}

\* The last wake-up of an asset that leaves: it is in the semaphore of a free
\* slot of its own until the thread takes it.
LastWakeup ==
  /\ \A a \in Assets : Leaving(a) =>
       /\ ~Registered(proxy[a].slot)
       /\ \A b \in Assets : Leaving(b) /\ proxy[b].slot = proxy[a].slot => b = a
       /\ main[a] = "join" /\ proxy[a].pc = "down" => sem[proxy[a].slot] = 1
       /\ main[a] = "up" \/ proxy[a].pc # "down" => sem[proxy[a].slot] = 0
  /\ \A i \in Slots : ~Registered(i) /\ sem[i] > 0 =>
       \E a \in Assets : Leaving(a) /\ proxy[a].slot = i

\* An event is in its slot from before the wake-up until the callback has
\* answered, and there is at most one wake-up for it.
OneWakeup ==
  \A i \in UsedSlots :
    LET t == proxy[assets[i]] IN
    /\ sem[i] <= 1
    /\ sem[i] > 0 => t.pc \in {"none", "down"}
    /\ sem[i] > 0 \/ t.pc \in {"look", "read", "call"} => ev[i].event # "None"

\* Between the write of its event to slot i and the wake-up.
Notifying(p, i) == pub[p].slot = i /\ pub[p].stage \in {"clear", "lookup"}

\* Until notify() comes to the wake-up, its event is in the slot and the thread
\* asleep.
NotifyUndisturbed ==
  \A p \in Publishers, i \in UsedSlots : Notifying(p, i) =>
    /\ ev[i].event = pub[p].event
    /\ ev[i].event # "None"
    /\ sem[i] = 0
    /\ proxy[assets[i]].pc \in {"none", "down"}
    /\ \A q \in Publishers : Notifying(q, i) => q = p

\* A command is in one call at a time.
OneCall == \A c \in Cmds : cmd[c] # "idle" => pub[c].stage = "off"

\* Unless commands die, an event whose thread sleeps is still being notified.
Delivered ==
  ~CmdsDie => \A i \in UsedSlots :
    proxy[assets[i]].pc = "down" /\ sem[i] = 0 /\ ev[i].event # "None"
      => \E p \in Publishers : Notifying(p, i)

RpcInv == RpcTypeOK /\ ThreadsFitMain /\ LastWakeup /\ OneWakeup /\ NotifyUndisturbed
                    /\ OneCall /\ Delivered

BaseInv == TableInv /\ LifeCycleInv /\ RpcInv

-----------------------------------------------------------------------------
(* Slots and their assets                                                    *)

\* The asset in a used slot is in the table, and knows the slot.
LEMMA Owner ==
  ASSUME TableInv, RpcTypeOK, ThreadsFitMain, NEW i \in UsedSlots
  PROVE  /\ i \in Slots /\ Registered(i)
         /\ assets[i] \in Assets /\ assets[i] \in Members
         /\ main[assets[i]] = "in"
         /\ proxy[assets[i]].slot = i
<1> DEFINE a == assets[i]
<1>1. i \in Slots /\ Registered(i) /\ a \in Assets /\ a \in Members
  BY DEF UsedSlots, Members, Registered, TableInv, SimTypeOK
<1>2. main[a] = "in" /\ proxy[a].slot \in Slots /\ assets[proxy[a].slot] = a
  BY <1>1 DEF ThreadsFitMain, RpcTypeOK
<1>3. proxy[a].slot \in UsedSlots
  BY <1>1, <1>2 DEF UsedSlots, Registered
<1>4. proxy[a].slot = i
  BY <1>2, <1>3 DEF TableInv, TableConsistent
<1> QED BY <1>1, <1>2, <1>4

\* The slot of an asset that is in the table.
LEMMA Owned ==
  ASSUME TableInv, RpcTypeOK, ThreadsFitMain, NEW a \in Assets, main[a] = "in"
  PROVE  /\ proxy[a].slot \in UsedSlots /\ proxy[a].slot \in Slots
         /\ assets[proxy[a].slot] = a
         /\ a \in Members
         /\ SlotOf(a) = proxy[a].slot
         /\ \A i \in UsedSlots : assets[i] = a <=> i = proxy[a].slot
<1>1. proxy[a].slot \in Slots /\ assets[proxy[a].slot] = a /\ a \in Members
  BY DEF ThreadsFitMain, RpcTypeOK
<1>2. proxy[a].slot \in UsedSlots
  BY <1>1, ConstantFacts DEF UsedSlots, Registered
<1>3. \A i \in UsedSlots : assets[i] = a <=> i = proxy[a].slot
  BY <1>1, <1>2 DEF TableInv, TableConsistent
<1>4. SlotOf(a) \in UsedSlots /\ assets[SlotOf(a)] = a
  BY <1>1, SlotFacts DEF TableInv
<1> QED BY <1>1, <1>2, <1>3, <1>4

\* What a thread that moves to another line leaves alone.
LEMMA Moved ==
  ASSUME RpcTypeOK, NEW a \in Assets, NEW pc, ProxyGoto(a, pc)
  PROVE  /\ proxy'[a].pc = pc
         /\ \A b \in Assets : proxy'[b].slot = proxy[b].slot
         /\ \A b \in Assets : b # a => proxy'[b] = proxy[b]
<1>1. proxy[a].slot \in Slots
  BY DEF RpcTypeOK
<1> QED BY <1>1 DEF RpcTypeOK, ProxyGoto

-----------------------------------------------------------------------------
(* The types                                                                 *)

\* Every step keeps the types of the threads and semaphores.
LEMMA RpcTypes ==
  ASSUME TableInv, RpcTypeOK, RpcNext
  PROVE  RpcTypeOK'
<1> DEFINE Pc == {"none", "down", "look", "read", "call", "ended", "crashed"}
           Thread == [pc : Pc, slot : Slots]
<1>0. /\ sem \in [Slots -> Nat] /\ proxy \in [Assets -> Thread]
      /\ main \in [Assets -> {"out", "in", "up", "join", "left"}]
  BY DEF RpcTypeOK
<1>1. CASE UNCHANGED rpcVars
  BY <1>1 DEF RpcTypeOK, rpcVars
<1>2. ASSUME NEW a \in Assets, NEW pc \in Pc, ProxyGoto(a, pc)
      PROVE  proxy' \in [Assets -> Thread]
  <2>1. [proxy[a] EXCEPT !.pc = pc] \in Thread
    BY <1>0
  <2>2. proxy' = [proxy EXCEPT ![a] = [proxy[a] EXCEPT !.pc = pc]]
    BY <1>2 DEF ProxyGoto
  <2> QED BY <1>0, <2>1, <2>2
<1>3. ASSUME NEW i \in Slots, NEW n \in Nat, sem' = [sem EXCEPT ![i] = n]
      PROVE  sem' \in [Slots -> Nat]
  BY <1>0, <1>3
<1>4. ASSUME NEW a \in Assets, Register(a) PROVE RpcTypeOK'
  <2>1. Min(FreeSlots) \in Slots
    BY <1>4, AllocFacts DEF Register, asset_register, alloc_asset
  <2>2. PICK pc \in {"none", "down"} :
          proxy' = [proxy EXCEPT ![a] = [pc |-> pc, slot |-> Min(FreeSlots)]]
    BY <1>4 DEF Register
  <2>3. proxy' \in [Assets -> Thread]
    BY <1>0, <2>1, <2>2
  <2> QED BY <1>0, <1>4, <2>3 DEF Register, RpcTypeOK
<1>5. ASSUME NEW a \in Assets, Unregister(a) PROVE RpcTypeOK'
  BY <1>0, <1>5 DEF Unregister, RpcTypeOK
<1>6. ASSUME NEW a \in Assets, MainStep(a) PROVE RpcTypeOK'
  <2>1. proxy[a].slot \in Slots /\ sem[proxy[a].slot] + 1 \in Nat
    BY <1>0
  <2>2. sem' = sem \/ sem' = [sem EXCEPT ![proxy[a].slot] = sem[proxy[a].slot] + 1]
    BY <1>6 DEF MainStep, StopUp, StopJoin
  <2>3. sem' \in [Slots -> Nat]
    BY <1>0, <1>3, <2>1, <2>2
  <2> QED BY <1>0, <1>6, <2>3 DEF MainStep, StopUp, StopJoin, RpcTypeOK
<1>7. ASSUME NEW a \in Assets, ProxyStep(a) PROVE RpcTypeOK'
  <2>1. proxy[a].slot \in Slots /\ sem[proxy[a].slot] \in Nat
    BY <1>0
  <2>2. \/ sem' = sem
        \/ sem[proxy[a].slot] > 0 /\ sem' = [sem EXCEPT ![proxy[a].slot] = sem[proxy[a].slot] - 1]
    BY <1>7 DEF ProxyStep, ProxyDown, ProxyLook, ProxyRead, Callback
  <2>3. sem' \in [Slots -> Nat]
    BY <1>0, <1>3, <2>1, <2>2
  <2>4. \E pc \in Pc : ProxyGoto(a, pc)
    BY <1>7 DEF ProxyStep, ProxyDown, ProxyLook, ProxyRead, Callback
  <2>5. UNCHANGED main
    BY <1>7 DEF ProxyStep, ProxyDown, ProxyLook, ProxyRead, Callback
  <2> QED BY <1>0, <1>2, <2>3, <2>4, <2>5 DEF RpcTypeOK
<1>8. ASSUME NEW p \in Publishers, Notify(p) PROVE RpcTypeOK'
  <2>1. pub[p].slot \in Slots /\ sem[pub[p].slot] \in Nat
    BY <1>0 DEF TableInv, SimTypeOK
  <2>2. CASE Registered(pub[p].slot) /\ CallDirectly(p, assets[pub[p].slot])
    <3>1. assets[pub[p].slot] \in Assets /\ ProxyGoto(assets[pub[p].slot], "call")
      BY <2>1, <2>2 DEF CallDirectly, Registered, TableInv, SimTypeOK
    <3>2. proxy' \in [Assets -> Thread]
      BY <1>2, <3>1
    <3> QED BY <1>0, <1>8, <2>2, <3>2 DEF Notify, CallDirectly, RpcTypeOK
  <2>3. CASE ~CallDirectly(p, assets[pub[p].slot])
    <3>1. \/ sem' = [sem EXCEPT ![pub[p].slot] = sem[pub[p].slot] + 1]
          \/ sem' = [sem EXCEPT ![pub[p].slot] = sem[pub[p].slot]]
      BY <1>8, <2>3 DEF Notify
    <3>2. sem' \in [Slots -> Nat]
      BY <1>0, <2>1, <3>1
    <3> QED BY <1>0, <1>8, <2>3, <3>2 DEF Notify, RpcTypeOK
  <2> QED BY <1>8, <2>2, <2>3 DEF Notify, CallDirectly
<1> QED BY <1>1, <1>4, <1>5, <1>6, <1>7, <1>8
        DEF RpcNext, PublishStep, Publish, Conduct

-----------------------------------------------------------------------------
(* The life cycle below                                                      *)

\* The conductor changes neither the table nor a publication.
LEMMA ConductFrame ==
  ASSUME Slow = {}, LifeCycleInv, execute
  PROVE  UNCHANGED <<assets, asset_num, ev, pub, epoch, cmd, seen, ack>>
<1>1. ~HandleTimeout /\ ~TriggerError /\ ~DropLate
  BY DEF HandleTimeout, TriggerError, DropLate, LifeCycleInv, NoError
<1> QED BY <1>1 DEF execute, Peek, HandleAllFeedback, HandleWait, CreatePdu, ResetTime,
            ResetPdu, MoveTime, CondUnchanged

\* Only events with a callback are in the slot when the thread reads it.
LEMMA ReadFinds ==
  ASSUME BaseInv, NEW a \in Assets, proxy[a].pc = "read"
  PROVE  /\ main[a] = "in"
         /\ ev[proxy[a].slot].event \in {"Start", "Stop", "Reset"}
<1>1. main[a] = "in"
  BY DEF BaseInv, RpcInv, RpcTypeOK, ThreadsFitMain
<1>2. /\ proxy[a].slot \in UsedSlots /\ proxy[a].slot \in Slots
      /\ assets[proxy[a].slot] = a
  BY <1>1, Owned DEF BaseInv, RpcInv
<1>3. ev[proxy[a].slot].event # "None"
  BY <1>2 DEF BaseInv, RpcInv, OneWakeup
<1> QED BY <1>1, <1>2, <1>3 DEF BaseInv, LifeCycleInv, EventsAreCurrent, Expected

\* What the thread reads is what asset_get_event would have returned.
LEMMA ReadEffect ==
  ASSUME BaseInv, NEW a \in Assets, ProxyRead(a)
  PROVE  LET k == proxy[a].slot IN
         /\ main[a] = "in" /\ k \in UsedSlots /\ assets[k] = a
         /\ ev[k].event # "None"
         /\ seen' = [seen EXCEPT ![assets[k]] = [event |-> ev[k].event, epoch |-> epoch]]
         /\ ProxyGoto(a, "call")
         /\ UNCHANGED <<state, assets, ev, asset_num, cond, cmd, pub, epoch, ack, sem, main>>
<1>1. /\ main[a] = "in"
      /\ ev[proxy[a].slot].event \in {"Start", "Stop", "Reset"}
  BY ReadFinds DEF ProxyRead
<1>2. proxy[a].slot \in UsedSlots /\ assets[proxy[a].slot] = a
  BY <1>1, Owned DEF BaseInv, RpcInv
<1> QED BY <1>1, <1>2 DEF ProxyRead

\* The event of a direct call is the one in the asset's slot.
LEMMA DirectEffect ==
  ASSUME BaseInv, NEW p \in Publishers, Registered(pub[p].slot),
         CallDirectly(p, assets[pub[p].slot])
  PROVE  LET k == pub[p].slot IN
         /\ k \in UsedSlots /\ k \in Slots /\ Notifying(p, k)
         /\ assets[k] \in Assets /\ assets[k] \in InMaster
         /\ ev[k].event # "None"
         /\ seen' = [seen EXCEPT ![assets[k]] = [event |-> ev[k].event, epoch |-> epoch]]
         /\ ProxyGoto(assets[k], "call")
         /\ NextSlot(p)
         /\ UNCHANGED <<state, assets, ev, asset_num, cond, cmd, epoch, ack, sem>>
<1>1. /\ pub[p].slot \in Slots /\ pub[p].slot \in UsedSlots /\ Notifying(p, pub[p].slot)
      /\ assets[pub[p].slot] \in Assets
  BY DEF BaseInv, TableInv, SimTypeOK, UsedSlots, CallDirectly, Notifying, Registered
<1>2. ev[pub[p].slot].event = pub[p].event /\ ev[pub[p].slot].event # "None"
  BY <1>1 DEF BaseInv, RpcInv, NotifyUndisturbed
<1> QED BY <1>1, <1>2 DEF CallDirectly, SameProcess

\* The table keeps its types and stays consistent.
LEMMA RpcTable ==
  ASSUME Slow = {}, Orderly, BaseInv, RpcNext
  PROVE  TableInv'
<1> USE DEF BaseInv
<1>1. ASSUME UNCHANGED <<assets, asset_num>> PROVE TableConsistent'
  BY <1>1 DEF TableInv, TableConsistent, UsedSlots, Registered
<1>0. ASSUME UNCHANGED simVars PROVE TableInv'
  BY <1>0, <1>1 DEF simVars, TableInv, SimTypeOK
<1>2. ASSUME NEW c \in Cmds, CommandStep(c) PROVE TableInv'
  <2>1. UNCHANGED <<assets, asset_num>>
    BY <1>2 DEF CommandStep, start, stop, ResetPeek, ResetTrigger, CmdDies, CmdUnchanged
  <2> QED BY <1>1, <1>2, <2>1, CommandTypes DEF TableInv
<1>3. ASSUME NEW p \in Publishers, publish_event(p) PROVE TableInv'
  <2>1. UNCHANGED <<assets, asset_num>>
    BY <1>3 DEF publish_event, PublishCheck, PublishWrite, PublishClear, PublishLookup,
                TableUnchanged
  <2> QED BY <1>1, <1>3, <2>1, PublishTypes DEF TableInv
<1>4. CASE execute
  BY <1>1, <1>4, ConductorTypes, ConductFrame DEF TableInv
<1>5. ASSUME NEW a \in Assets, Register(a) PROVE TableInv'
  BY <1>5, AllocStep, AssetTypes DEF Register, asset_register, AssetStep, TableInv
<1>6. ASSUME NEW a \in Assets, Unregister(a) PROVE TableInv'
  BY <1>6, FreeStep DEF Unregister, AssetUnchanged, TableInv, SimTypeOK
<1>7. ASSUME NEW k \in UsedSlots, UNCHANGED <<state, assets, ev, asset_num, cond, cmd, epoch, ack>>,
             seen' = [seen EXCEPT ![assets[k]] = [event |-> ev[k].event, epoch |-> epoch]],
             pub' \in [Publishers -> PubTypes]
      PROVE  TableInv'
  <2>1. ev[k].event \in Event /\ epoch \in Nat
    BY DEF TableInv, SimTypeOK, UsedSlots
  <2>2. seen' \in [Assets -> [event : Event, epoch : Nat]]
    BY <1>7, <2>1 DEF TableInv, SimTypeOK
  <2> QED BY <1>1, <1>7, <2>2 DEF TableInv, SimTypeOK, PubTypes
<1>8. ASSUME NEW a \in Assets, ProxyStep(a) PROVE TableInv'
  <2>1. CASE ProxyDown(a) \/ ProxyLook(a)
    BY <1>0, <2>1 DEF ProxyDown, ProxyLook
  <2>2. CASE ProxyRead(a)
    <3> DEFINE k == proxy[a].slot
    <3>1. /\ k \in UsedSlots
          /\ seen' = [seen EXCEPT ![assets[k]] = [event |-> ev[k].event, epoch |-> epoch]]
          /\ UNCHANGED <<state, assets, ev, asset_num, cond, cmd, pub, epoch, ack>>
      BY <2>2, ReadEffect
    <3>2. pub' \in [Publishers -> PubTypes]
      BY <3>1 DEF TableInv, SimTypeOK, PubTypes
    <3> HIDE DEF k
    <3> QED BY <1>7, <3>1, <3>2
  <2>3. CASE Callback(a)
    <3>1. AssetStep(a) /\ UNCHANGED <<assets, asset_num>>
      BY <2>3 DEF Callback, AssetStep, PollAndAnswer, feedback
    <3> QED BY <1>1, <3>1, AssetTypes DEF TableInv
  <2> QED BY <1>8, <2>1, <2>2, <2>3 DEF ProxyStep
<1>9. ASSUME NEW a \in Assets, MainStep(a) PROVE TableInv'
  BY <1>0, <1>9 DEF MainStep, StopUp, StopJoin
<1>10. ASSUME NEW p \in Publishers, Notify(p) PROVE TableInv'
  <2>1. CASE Registered(pub[p].slot) /\ CallDirectly(p, assets[pub[p].slot])
    <3>1. pub' \in [Publishers -> PubTypes]
      BY <2>1, PubStep DEF CallDirectly, TableInv, SimTypeOK, PubTypes
    <3> QED BY <1>7, <2>1, <3>1, DirectEffect
  <2> QED BY <1>3, <1>10, <2>1 DEF Notify, publish_event
<1> QED BY <1>2, <1>3, <1>4, <1>5, <1>6, <1>8, <1>9, <1>10
        DEF RpcNext, PublishStep, Publish, publish_event, Conduct

\* Assets that come and go between events, and threads in place of polling,
\* keep the life cycle's invariant.
LEMMA RpcLife ==
  ASSUME Slow = {}, Orderly, BaseInv, RpcNext
  PROVE  LifeCycleInv'
<1> USE DEF BaseInv
<1>1. ASSUME NEW c \in Cmds, CommandStep(c) PROVE LifeCycleInv'
  BY <1>1, CommandLife
<1>2. ASSUME NEW p \in Publishers, publish_event(p) PROVE LifeCycleInv'
  BY <1>2, PublishLife
<1>3. CASE execute
  BY <1>3, ConductorLife
<1>4. ASSUME NEW a \in Assets, Register(a) PROVE LifeCycleInv'
  BY <1>4, RegisterLife DEF Register, Quiet
<1>5. ASSUME NEW a \in Assets, Unregister(a) PROVE LifeCycleInv'
  BY <1>5, LeaveLife DEF Unregister, AssetUnchanged
<1>6. ASSUME UNCHANGED simVars PROVE LifeCycleInv'
  <2>1. NoError'
    BY <1>6 DEF simVars, LifeCycleInv, NoError
  <2> QED BY <1>6, <2>1, IdleStep DEF simVars
<1>7. ASSUME NEW a \in Assets, ProxyRead(a) PROVE LifeCycleInv'
  <2> DEFINE k == proxy[a].slot
  <2>1. /\ k \in UsedSlots /\ ev[k].event # "None"
        /\ seen' = [seen EXCEPT ![assets[k]] = [event |-> ev[k].event, epoch |-> epoch]]
        /\ UNCHANGED <<state, assets, ev, asset_num, cond, cmd, pub, epoch, ack>>
    BY <1>7, ReadEffect
  <2> HIDE DEF k
  <2>2. NoError'
    BY <2>1 DEF LifeCycleInv, NoError
  <2>3. \A q \in Publishers, j \in Slots : Pending(q, j)' => Pending(q, j)
    BY <2>1 DEF Pending, Registered
  <2> QED BY <2>1, <2>2, <2>3, ReadLife
<1>8. ASSUME NEW a \in Assets, ProxyStep(a) PROVE LifeCycleInv'
  BY <1>6, <1>7, <1>8, AnswerLife DEF ProxyStep, ProxyDown, ProxyLook, Callback
<1>9. ASSUME NEW a \in Assets, MainStep(a) PROVE LifeCycleInv'
  BY <1>6, <1>9 DEF MainStep, StopUp, StopJoin
<1>10. ASSUME NEW p \in Publishers, Notify(p) PROVE LifeCycleInv'
  <2>1. CASE Registered(pub[p].slot) /\ CallDirectly(p, assets[pub[p].slot])
    <3>1. pub[p].stage # "off" /\ UNCHANGED assets /\ NextSlot(p)
      BY <2>1 DEF CallDirectly
    <3>2. /\ \A q \in Publishers : pub[q].stage = "off" => pub'[q].stage = "off"
          /\ \A q \in Publishers : q # p => pub'[q] = pub[q]
          /\ pub'[p].event \in {pub[p].event, "None"}
          /\ \A q \in Publishers, j \in Slots :
               Pending(q, j)' => Pending(q, j) /\ pub'[q].event = pub[q].event
      BY <3>1, PendingStep
    <3>3. p # "conductor"
      BY <3>1 DEF LifeCycleInv, NoError
    <3>4. NoError'
      <4>1. UNCHANGED <<state, cond, cmd>>
        BY <2>1, DirectEffect
      <4>2. NoError /\ "conductor" \in Publishers
        BY ConstantFacts DEF LifeCycleInv
      <4>3. pub'["conductor"] = pub["conductor"]
        BY <3>2, <3>3, <4>2
      <4>4. \A q \in Publishers : pub'[q].event # "Error"
        BY <3>2, <4>2 DEF NoError
      <4> QED BY <4>1, <4>2, <4>3, <4>4 DEF NoError
    <3> QED BY <2>1, <3>2, <3>4, DirectEffect, ReadLife
  <2> QED BY <1>2, <1>10, <2>1 DEF Notify, publish_event
<1> QED BY <1>1, <1>2, <1>3, <1>4, <1>5, <1>8, <1>9, <1>10
        DEF RpcNext, PublishStep, Publish, publish_event, Conduct

-----------------------------------------------------------------------------
(* Events on their way to the threads                                        *)

\* A step that leaves table, events and threads alone, and only lets
\* publications begin, end, or go on below the notification.
LEMMA CalmRpc ==
  ASSUME BaseInv, RpcTypeOK', UNCHANGED <<assets, sem, proxy, main>>,
         \A i \in UsedSlots : ev'[i].event = ev[i].event,
         \A q \in Publishers, i \in UsedSlots : Notifying(q, i)' =>
           Notifying(q, i) /\ pub'[q].event = pub[q].event,
         ~CmdsDie => \A q \in Publishers, i \in UsedSlots :
           Notifying(q, i) => Notifying(q, i)',
         OneCall'
  PROVE  RpcInv'
<1> USE DEF BaseInv, RpcInv
<1>1. UsedSlots' = UsedSlots /\ Members' = Members /\ \A i : Registered(i)' <=> Registered(i)
  BY DEF UsedSlots, Members, Registered
<1>2. ThreadsFitMain'
  BY <1>1 DEF ThreadsFitMain
<1>3. LastWakeup'
  BY <1>1 DEF LastWakeup, Leaving
<1>4. OneWakeup'
  BY <1>1 DEF OneWakeup
<1>5. NotifyUndisturbed'
  BY <1>1 DEF NotifyUndisturbed
<1>6. Delivered'
  BY <1>1 DEF Delivered
<1> QED BY <1>2, <1>3, <1>4, <1>5, <1>6

\* A publication that goes on to the next slot, or ends, notifies nobody.
LEMMA NoLongerNotifying ==
  ASSUME SimTypeOK, NEW p \in Publishers,
         NextSlot(p) \/ pub' = [pub EXCEPT ![p] = NotPublishing]
  PROVE  /\ \A i \in Slots : ~Notifying(p, i)'
         /\ \A q \in Publishers : q # p => pub'[q] = pub[q]
         /\ \A q \in Publishers, i \in Slots : q # p => (Notifying(q, i)' <=> Notifying(q, i))
<1>1. pub'[p].stage \in {"check", "off"} /\ \A q \in Publishers : q # p => pub'[q] = pub[q]
  BY DEF SimTypeOK, NextSlot, NotPublishing
<1> QED BY <1>1 DEF Notifying

\* A command that dies, or that a freed slot takes down, ends its publication.
LEMMA CommandRpc ==
  ASSUME BaseInv, RpcTypeOK', NEW c \in Cmds, CommandStep(c), UNCHANGED rpcVars
  PROVE  RpcInv'
<1> USE DEF BaseInv, RpcInv
<1>0. /\ c \in Publishers /\ pub \in [Publishers -> PubTypes] /\ ev \in [Slots -> EvTypes]
      /\ cmd \in [Cmds -> {"idle", "reset_stopped", "reset_error", "crashed"}]
      /\ UsedSlots \subseteq Slots /\ Cmds \subseteq Publishers
  BY ConstantFacts DEF TableInv, SimTypeOK, PubTypes, EvTypes, UsedSlots
<1>1. ASSUME NEW curr, NEW next, NEW e, trigger_event(c, curr, next, e),
             pub[c].stage = "off", UNCHANGED assets, cmd' = [cmd EXCEPT ![c] = "idle"]
      PROVE  RpcInv'
  <2>1. \A i \in Slots : ev'[i].event = ev[i].event
    BY <1>0, <1>1 DEF trigger_event, EvTypes
  <2>2. pub'[c].stage = "check" /\ \A q \in Publishers : q # c => pub'[q] = pub[q]
    BY <1>0, <1>1 DEF trigger_event, StartPublication
  <2>3. \A q \in Publishers, i \in UsedSlots :
          (Notifying(q, i)' <=> Notifying(q, i)) /\ (Notifying(q, i) => q # c)
    BY <1>1, <2>2 DEF Notifying
  <2>4. OneCall'
    BY <1>0, <1>1, <2>2 DEF OneCall
  <2> QED BY <1>0, <1>1, <2>1, <2>2, <2>3, <2>4, CalmRpc DEF rpcVars
<1>2. CASE start(c) \/ stop(c)
  <2>1. cmd[c] = "idle" /\ cmd' = cmd /\ pub[c].stage = "off" /\ UNCHANGED assets
    BY <1>2 DEF start, stop, Ready, CmdUnchanged
  <2>2. cmd' = [cmd EXCEPT ![c] = "idle"]
    BY <1>0, <2>1
  <2> QED BY <1>1, <1>2, <2>1, <2>2 DEF start, stop
<1>3. ASSUME UNCHANGED <<assets, ev, pub>>, OneCall' PROVE RpcInv'
  BY <1>3, CalmRpc DEF Notifying, rpcVars
<1>4. CASE ResetPeek(c)
  <2>1. OneCall'
    BY <1>0, <1>4 DEF ResetPeek, Ready, OneCall
  <2> QED BY <1>3, <1>4, <2>1 DEF ResetPeek, CmdUnchanged
<1>5. CASE ResetTrigger(c)
  <2>1. /\ pub[c].stage = "off" /\ UNCHANGED assets
        /\ cmd' = [cmd EXCEPT ![c] = "idle"]
    BY <1>5 DEF ResetTrigger, CmdUnchanged, OneCall
  <2>2. CASE UNCHANGED <<state, ev, epoch, pub>>
    <3>1. OneCall'
      BY <1>0, <2>1, <2>2 DEF OneCall
    <3> QED BY <1>3, <2>1, <2>2, <3>1
  <2> QED BY <1>1, <1>5, <2>1, <2>2 DEF ResetTrigger
<1>6. CASE CmdDies(c)
  <2>1. /\ CmdsDie /\ UNCHANGED <<assets, ev>>
        /\ pub' = [pub EXCEPT ![c] = NotPublishing] /\ cmd' = [cmd EXCEPT ![c] = "crashed"]
    BY <1>6 DEF CmdDies, CmdUnchanged
  <2>2. /\ \A i \in Slots : ~Notifying(c, i)'
        /\ \A q \in Publishers : q # c => pub'[q] = pub[q]
        /\ \A q \in Publishers, i \in Slots : q # c => (Notifying(q, i)' <=> Notifying(q, i))
    BY <1>0, <2>1, NoLongerNotifying DEF TableInv
  <2>3. OneCall'
    <3>1. pub'[c].stage = "off"
      BY <1>0, <2>1 DEF NotPublishing
    <3> QED BY <1>0, <2>1, <2>2, <3>1 DEF OneCall
  <2> QED BY <1>0, <2>1, <2>2, <2>3, CalmRpc DEF rpcVars
<1> QED BY <1>2, <1>4, <1>5, <1>6 DEF CommandStep

\* The conductor leaves everything here alone.
LEMMA ConductRpc ==
  ASSUME Slow = {}, BaseInv, RpcTypeOK', execute, UNCHANGED rpcVars
  PROVE  RpcInv'
<1>1. UNCHANGED <<assets, ev, pub, cmd>>
  BY ConductFrame DEF BaseInv
<1>2. OneCall'
  BY <1>1 DEF BaseInv, RpcInv, OneCall
<1> QED BY <1>1, <1>2, CalmRpc DEF Notifying, rpcVars

\* A publication up to the wake-up: the event is written while the thread
\* sleeps and its semaphore is down.
LEMMA PublishRpc ==
  ASSUME BaseInv, RpcTypeOK', NEW p \in Publishers, Publish(p)
  PROVE  RpcInv'
<1> USE DEF BaseInv, RpcInv
<1> DEFINE i == pub[p].slot
           e == pub[p].event
<1>0. /\ i \in Slots /\ pub \in [Publishers -> PubTypes] /\ ev \in [Slots -> EvTypes]
      /\ UsedSlots \subseteq Slots /\ Cmds \subseteq Publishers /\ SimTypeOK
  BY ConstantFacts DEF TableInv, SimTypeOK, PubTypes, EvTypes, UsedSlots
<1>1. UNCHANGED <<assets, sem, proxy, main>>
  BY DEF Publish, PublishCheck, PublishWrite, PublishClear, TableUnchanged, rpcVars
<1>2. p # "conductor" /\ p \in Cmds /\ e # "Error" /\ pub[p].stage # "off"
  BY DEF Publish, PublishCheck, PublishWrite, PublishClear, LifeCycleInv, NoError, Publishers
<1>3. \A j \in Slots : ev[j].event # "Error"
  BY DEF LifeCycleInv, EventsAreCurrent, Expected
<1>4. OneCall'
  <2>1. \A q \in Publishers : q # p => pub'[q] = pub[q]
    BY <1>0, NoLongerNotifying
    DEF Publish, PublishCheck, PublishWrite, PublishClear, Crashes, Stage
  <2>2. \/ UNCHANGED cmd /\ cmd[p] = "idle"
        \/ /\ pub' = [pub EXCEPT ![p] = NotPublishing]
           /\ cmd' = [cmd EXCEPT ![p] = "crashed"]
    BY <1>2 DEF Publish, PublishCheck, PublishWrite, PublishClear, Crashes, OneCall
  <2>3. CASE UNCHANGED cmd /\ cmd[p] = "idle"
    BY <1>0, <2>1, <2>3 DEF OneCall
  <2>4. CASE pub' = [pub EXCEPT ![p] = NotPublishing] /\ cmd' = [cmd EXCEPT ![p] = "crashed"]
    <3>1. pub'[p].stage = "off"
      BY <1>0, <2>4 DEF NotPublishing
    <3> QED BY <1>0, <2>1, <2>4, <3>1 DEF OneCall, TableInv, SimTypeOK
  <2> QED BY <2>2, <2>3, <2>4
<1>5. CASE /\ pub[p].stage \in {"check", "write"} /\ UNCHANGED ev
           /\ NextSlot(p) \/ pub' = [pub EXCEPT ![p] = NotPublishing]
  <2>1. \A j \in Slots : ~Notifying(p, j)
    BY <1>5 DEF Notifying
  <2> QED BY <1>0, <1>1, <1>4, <1>5, <2>1, NoLongerNotifying, CalmRpc
<1>6. CASE pub[p].stage = "check" /\ UNCHANGED ev /\ Stage(p, "write")
  <2>1. pub'[p].stage = "write" /\ \A q \in Publishers : q # p => pub'[q] = pub[q]
    BY <1>0, <1>6 DEF Stage, PubTypes
  <2>2. \A q \in Publishers, j \in UsedSlots :
          (Notifying(q, j)' <=> Notifying(q, j)) /\ (Notifying(q, j) => q # p)
    BY <1>6, <2>1 DEF Notifying
  <2> QED BY <1>1, <1>4, <1>6, <2>1, <2>2, CalmRpc
<1>7. CASE PublishClear(p)
  <2>1. /\ pub[p].stage = "clear" /\ Stage(p, "lookup")
        /\ ev' = [ev EXCEPT ![i].feedback = FALSE]
    BY <1>2, <1>7 DEF PublishClear
  <2>2. \A j \in Slots : ev'[j].event = ev[j].event
    BY <1>0, <2>1 DEF EvTypes
  <2>3. /\ pub'[p].stage = "lookup" /\ pub'[p].slot = i /\ pub'[p].event = e
        /\ \A q \in Publishers : q # p => pub'[q] = pub[q]
    BY <1>0, <2>1 DEF Stage, PubTypes
  <2>4. \A q \in Publishers, j \in UsedSlots : Notifying(q, j)' <=> Notifying(q, j)
    BY <2>1, <2>3 DEF Notifying
  <2> QED BY <1>0, <1>1, <1>4, <2>2, <2>3, <2>4, CalmRpc
<1>8. CASE /\ pub[p].stage = "write" /\ Registered(i)
           /\ ev' = [ev EXCEPT ![i].event = e]
           /\ Stage(p, "clear")
  <2>1. i \in UsedSlots /\ Pending(p, i)
    BY <1>0, <1>8 DEF UsedSlots, Pending
  <2>2. ev[i].event = "None" /\ Expected(e)
    BY <2>1, <1>0 DEF LifeCycleInv, PendingIsUntouched
  <2>3. /\ assets[i] \in Assets /\ main[assets[i]] = "in" /\ sem[i] \in Nat
    BY <1>0, <2>1, Owner DEF RpcTypeOK
  <2>4. sem[i] = 0 /\ proxy[assets[i]].pc \in {"none", "down"}
    BY <2>1, <2>2, <2>3 DEF OneWakeup, ThreadsFitMain, RpcTypeOK
  <2>5. \A q \in Publishers : ~Notifying(q, i)
    BY <2>1, <2>2 DEF NotifyUndisturbed
  <2>6. /\ ev'[i].event = e /\ e # "None"
        /\ \A j \in Slots : j # i => ev'[j].event = ev[j].event
    BY <1>0, <1>8, <2>2 DEF EvTypes, Expected
  <2>7. /\ pub'[p].stage = "clear" /\ pub'[p].slot = i /\ pub'[p].event = e
        /\ \A q \in Publishers : q # p => pub'[q] = pub[q]
    BY <1>0, <1>8 DEF Stage, PubTypes
  <2> HIDE DEF i, e
  <2>8. /\ \A j \in Slots : Notifying(p, j)' <=> j = i
        /\ \A j \in Slots : ~Notifying(p, j)
        /\ \A q \in Publishers, j \in Slots : q # p => (Notifying(q, j)' <=> Notifying(q, j))
    BY <1>8, <2>7 DEF Notifying, i
  <2>9. UsedSlots' = UsedSlots /\ Members' = Members /\ \A j : Registered(j)' <=> Registered(j)
    BY <1>1 DEF UsedSlots, Members, Registered
  <2>10. ThreadsFitMain' /\ LastWakeup'
    <3>1. ThreadsFitMain'
      BY <1>1, <2>9 DEF ThreadsFitMain
    <3>2. LastWakeup'
      BY <1>1, <2>9 DEF LastWakeup, Leaving
    <3> QED BY <3>1, <3>2
  <2>11. OneWakeup'
    BY <1>0, <1>1, <2>6, <2>9 DEF OneWakeup
  <2>12. NotifyUndisturbed'
    BY <1>0, <1>1, <2>4, <2>5, <2>6, <2>7, <2>8, <2>9 DEF NotifyUndisturbed
  <2>13. Delivered'
    <3> SUFFICES ASSUME ~CmdsDie, NEW j \in UsedSlots, proxy[assets[j]].pc = "down",
                        sem[j] = 0, ev'[j].event # "None"
                 PROVE  \E q \in Publishers : Notifying(q, j)'
      BY <1>1, <2>9 DEF Delivered
    <3>1. CASE j = i
      BY <1>0, <2>8, <3>1
    <3>2. CASE j # i
      <4>1. PICK q \in Publishers : Notifying(q, j)
        BY <1>0, <2>6, <3>2 DEF Delivered
      <4> QED BY <1>0, <2>8, <4>1
    <3> QED BY <3>1, <3>2
  <2> QED BY <1>4, <2>10, <2>11, <2>12, <2>13
<1> QED BY <1>0, <1>2, <1>3, <1>5, <1>6, <1>7, <1>8
        DEF Publish, PublishCheck, PublishWrite, Crashes

\* A step of one thread or of one notification: slot k and its asset a change,
\* the table, the other slots and the other threads do not.
OthersStay(k, a) ==
  /\ UNCHANGED <<assets, main>>
  /\ \A i \in Slots : i # k => sem'[i] = sem[i] /\ ev'[i].event = ev[i].event
  /\ \A b \in Assets : b # a => proxy'[b] = proxy[b]
  /\ \A b \in Assets : proxy'[b].slot = proxy[b].slot
  /\ \A q \in Publishers, i \in Slots : i # k =>
       /\ Notifying(q, i)' <=> Notifying(q, i)
       /\ Notifying(q, i) => pub'[q].event = pub[q].event

\* Such a step of an asset in the table keeps the invariant if slot k does.
LEMMA SlotStep ==
  ASSUME BaseInv, RpcTypeOK', OneCall', NEW k \in UsedSlots, NEW a \in Assets,
         a = assets[k], OthersStay(k, a),
         a \in InMaster => proxy'[a].pc \in {"none", "call"},
         a \notin InMaster => proxy'[a].pc \in {"down", "look", "read", "call"},
         sem'[k] <= 1,
         sem'[k] > 0 => proxy'[a].pc \in {"none", "down"},
         sem'[k] > 0 \/ proxy'[a].pc \in {"look", "read", "call"} => ev'[k].event # "None",
         \A q \in Publishers : ~Notifying(q, k)',
         proxy'[a].pc = "down" /\ sem'[k] = 0 => ev'[k].event = "None"
  PROVE  RpcInv'
<1> USE DEF BaseInv, RpcInv
<1>1. /\ k \in Slots /\ Registered(k) /\ main[a] = "in" /\ proxy[a].slot = k
      /\ UsedSlots \subseteq Slots
      /\ \A i \in UsedSlots : assets[i] \in Assets /\ (assets[i] = a => i = k)
  BY Owner DEF UsedSlots, TableInv, TableConsistent
<1>2. UsedSlots' = UsedSlots /\ Members' = Members /\ \A i : Registered(i)' <=> Registered(i)
  BY DEF UsedSlots, Members, Registered, OthersStay
<1>3. ThreadsFitMain'
  BY <1>1, <1>2 DEF ThreadsFitMain, OthersStay
<1>4. LastWakeup'
  <2>1. \A b \in Assets : Leaving(b) => b # a /\ proxy[b].slot # k /\ proxy[b].slot \in Slots
    BY <1>1 DEF Leaving, LastWakeup, RpcTypeOK
  <2>2. \A b \in Assets : Leaving(b)' <=> Leaving(b)
    BY DEF Leaving, OthersStay
  <2>3. \A b \in Assets : Leaving(b)' =>
          /\ ~Registered(proxy'[b].slot)
          /\ \A d \in Assets : Leaving(d)' /\ proxy'[d].slot = proxy'[b].slot => d = b
          /\ main'[b] = "join" /\ proxy'[b].pc = "down" => sem'[proxy'[b].slot] = 1
          /\ main'[b] = "up" \/ proxy'[b].pc # "down" => sem'[proxy'[b].slot] = 0
    BY <2>1, <2>2 DEF LastWakeup, OthersStay
  <2>4. \A i \in Slots : ~Registered(i) /\ sem'[i] > 0 =>
          \E b \in Assets : Leaving(b)' /\ proxy'[b].slot = i
    BY <1>1, <2>2 DEF LastWakeup, OthersStay
  <2> QED BY <1>2, <2>3, <2>4 DEF LastWakeup
<1>5. OneWakeup'
  BY <1>1, <1>2 DEF OneWakeup, OthersStay
<1>6. NotifyUndisturbed'
  <2> SUFFICES ASSUME NEW q \in Publishers, NEW i \in UsedSlots, Notifying(q, i)'
               PROVE  /\ ev'[i].event = pub'[q].event
                      /\ ev'[i].event # "None"
                      /\ sem'[i] = 0
                      /\ proxy'[assets[i]].pc \in {"none", "down"}
                      /\ \A r \in Publishers : Notifying(r, i)' => r = q
    BY <1>2 DEF NotifyUndisturbed, OthersStay
  <2>1. i # k /\ i \in Slots /\ assets[i] # a /\ assets[i] \in Assets
    BY <1>1
  <2> QED BY <2>1 DEF NotifyUndisturbed, OthersStay
<1>7. Delivered'
  <2> SUFFICES ASSUME ~CmdsDie, NEW i \in UsedSlots, proxy'[assets[i]].pc = "down",
                      sem'[i] = 0, ev'[i].event # "None"
               PROVE  \E q \in Publishers : Notifying(q, i)'
    BY <1>2 DEF Delivered, OthersStay
  <2>1. i # k /\ i \in Slots /\ assets[i] # a /\ assets[i] \in Assets
    BY <1>1
  <2>2. PICK q \in Publishers : Notifying(q, i)
    BY <2>1 DEF Delivered, OthersStay
  <2> QED BY <2>1, <2>2 DEF OthersStay
<1> QED BY <1>3, <1>4, <1>5, <1>6, <1>7

\* The wake-up of a thread, or the direct call of a callback.
LEMMA NotifyRpc ==
  ASSUME BaseInv, RpcTypeOK', NEW p \in Publishers, Notify(p)
  PROVE  RpcInv'
<1> USE DEF BaseInv, RpcInv
<1>0. PICK k \in Slots : k = pub[p].slot
  BY DEF TableInv, SimTypeOK
<1>1. /\ pub \in [Publishers -> PubTypes] /\ UsedSlots \subseteq Slots
      /\ Cmds \subseteq Publishers /\ SimTypeOK
  BY ConstantFacts DEF TableInv, SimTypeOK, PubTypes, UsedSlots
<1>2. p # "conductor" /\ p \in Cmds /\ Notifying(p, k) /\ cmd[p] = "idle"
  BY <1>0 DEF Notify, PublishLookup, CallDirectly, LifeCycleInv, NoError, Publishers,
              Notifying, OneCall
<1>3. CASE ~Registered(k)
  <2>1. /\ pub' = [pub EXCEPT ![p] = NotPublishing] /\ cmd' = [cmd EXCEPT ![p] = "crashed"]
        /\ UNCHANGED <<assets, ev, proxy, main>>
        /\ sem' = [sem EXCEPT ![k] = sem[k]]
    BY <1>0, <1>2, <1>3 DEF Notify, PublishLookup, Crashes, TableUnchanged
  <2>2. sem' = sem
    BY <2>1 DEF RpcTypeOK
  <2>3. /\ \A i \in Slots : ~Notifying(p, i)'
        /\ \A q \in Publishers : q # p => pub'[q] = pub[q]
        /\ \A q \in Publishers, i \in Slots : q # p => (Notifying(q, i)' <=> Notifying(q, i))
    BY <1>1, <2>1, NoLongerNotifying
  <2>4. \A i \in UsedSlots : ~Notifying(p, i)
    BY <1>0, <1>3 DEF Notifying, UsedSlots
  <2>5. OneCall'
    <3>1. pub'[p].stage = "off"
      BY <1>1, <2>1 DEF NotPublishing
    <3> QED BY <1>1, <2>1, <2>3, <3>1 DEF OneCall, SimTypeOK
  <2> QED BY <1>1, <2>1, <2>2, <2>3, <2>4, <2>5, CalmRpc
<1>4. CASE Registered(k)
  <2> DEFINE a == assets[k]
  <2>1. k \in UsedSlots /\ a \in Assets /\ main[a] = "in" /\ proxy[a].slot = k
    <3>1. k \in UsedSlots
      BY <1>4 DEF UsedSlots
    <3> QED BY <3>1, Owner
  <2>2. /\ ev[k].event # "None" /\ sem[k] = 0 /\ proxy[a].pc \in {"none", "down"}
        /\ \A q \in Publishers : Notifying(q, k) => q = p
    BY <1>2, <2>1 DEF NotifyUndisturbed
  <2>3. NextSlot(p) /\ UNCHANGED <<assets, ev, main, cmd>>
    BY <1>0, <1>4 DEF Notify, PublishLookup, CallDirectly, TableUnchanged
  <2>4. /\ \A i \in Slots : ~Notifying(p, i)'
        /\ \A q \in Publishers : q # p => pub'[q] = pub[q]
        /\ \A q \in Publishers, i \in Slots : q # p => (Notifying(q, i)' <=> Notifying(q, i))
    BY <1>1, <2>3, NoLongerNotifying
  <2>5. \A i \in Slots : i # k => ~Notifying(p, i)
    BY <1>0 DEF Notifying
  <2>6. \A q \in Publishers : ~Notifying(q, k)'
    BY <2>2, <2>4
  <2>7. OneCall'
    BY <1>1, <1>2, <2>3, <2>4 DEF OneCall
  <2>8. \/ UNCHANGED sem /\ a \in InMaster /\ ProxyGoto(a, "call")
        \/ UNCHANGED proxy /\ sem' = [sem EXCEPT ![k] = sem[k] + 1]
    BY <1>0, <1>4 DEF Notify, CallDirectly, SameProcess
  <2> HIDE DEF a
  <2>9. CASE UNCHANGED sem /\ a \in InMaster /\ ProxyGoto(a, "call")
    <3>1. /\ proxy'[a].pc = "call"
          /\ \A b \in Assets : proxy'[b].slot = proxy[b].slot
          /\ \A b \in Assets : b # a => proxy'[b] = proxy[b]
      BY <2>1, <2>9, Moved
    <3>2. OthersStay(k, a)
      BY <2>3, <2>4, <2>5, <2>9, <3>1 DEF OthersStay
    <3> QED BY <2>1, <2>2, <2>3, <2>6, <2>7, <2>9, <3>1, <3>2, SlotStep DEF a
  <2>10. CASE UNCHANGED proxy /\ sem' = [sem EXCEPT ![k] = sem[k] + 1]
    <3>1. sem'[k] = 1 /\ \A i \in Slots : i # k => sem'[i] = sem[i]
      BY <2>2, <2>10 DEF RpcTypeOK
    <3>2. OthersStay(k, a)
      BY <2>3, <2>4, <2>5, <2>10, <3>1 DEF OthersStay
    <3>3. /\ a \in InMaster => proxy'[a].pc \in {"none", "call"}
          /\ a \notin InMaster => proxy'[a].pc \in {"down", "look", "read", "call"}
      BY <2>1, <2>10 DEF ThreadsFitMain
    <3> QED BY <2>1, <2>2, <2>3, <2>6, <2>7, <2>10, <3>1, <3>2, <3>3, SlotStep DEF a
  <2> QED BY <2>8, <2>9, <2>10
<1> QED BY <1>3, <1>4

\* The thread of an asset in the table: it takes its wake-up, finds the event,
\* and the callback answers it.
LEMMA ThreadRpc ==
  ASSUME BaseInv, RpcTypeOK', NEW a \in Assets, ProxyStep(a), main[a] = "in"
  PROVE  RpcInv'
<1> USE DEF BaseInv, RpcInv
<1>0. PICK k \in Slots : k = proxy[a].slot
  BY DEF RpcTypeOK
<1>1. k \in UsedSlots /\ assets[k] = a /\ SlotOf(a) = k /\ Registered(k) /\ a \in Members
  BY <1>0, Owned DEF UsedSlots
<1>2. UNCHANGED <<assets, main, pub, cmd>>
  BY DEF ProxyStep, ProxyDown, ProxyLook, ProxyRead, Callback, feedback, AssetUnchanged,
         simVars
<1>3. OneCall' /\ \A q \in Publishers, i \in Slots : Notifying(q, i)' <=> Notifying(q, i)
  BY <1>2 DEF OneCall, Notifying
<1>4. sem[k] \in Nat /\ sem[k] <= 1 /\ ev \in [Slots -> EvTypes]
  BY <1>1 DEF OneWakeup, RpcTypeOK, TableInv, SimTypeOK, EvTypes
<1>5. /\ a \in InMaster => proxy[a].pc \in {"none", "call"}
      /\ a \notin InMaster => proxy[a].pc \in {"down", "look", "read", "call"}
  BY DEF ThreadsFitMain
<1>6. CASE ProxyDown(a)
  <2>1. /\ proxy[a].pc = "down" /\ sem[k] > 0 /\ UNCHANGED ev
        /\ sem' = [sem EXCEPT ![k] = sem[k] - 1] /\ ProxyGoto(a, "look")
    BY <1>0, <1>6 DEF ProxyDown, simVars
  <2>2. sem'[k] = 0 /\ \A i \in Slots : i # k => sem'[i] = sem[i]
    BY <1>4, <2>1 DEF RpcTypeOK
  <2>3. /\ proxy'[a].pc = "look"
        /\ \A b \in Assets : proxy'[b].slot = proxy[b].slot
        /\ \A b \in Assets : b # a => proxy'[b] = proxy[b]
    BY <2>1, Moved
  <2>4. ev[k].event # "None" /\ \A q \in Publishers : ~Notifying(q, k)
    BY <1>1, <2>1 DEF OneWakeup, NotifyUndisturbed
  <2>5. OthersStay(k, a)
    BY <1>2, <1>3, <2>1, <2>2, <2>3 DEF OthersStay
  <2> QED BY <1>1, <1>3, <1>5, <2>1, <2>2, <2>3, <2>4, <2>5, SlotStep
<1>7. CASE ProxyLook(a) \/ ProxyRead(a)
  <2>1. /\ proxy[a].pc \in {"look", "read"} /\ UNCHANGED <<ev, sem>>
        /\ \E pc \in {"read", "call"} : ProxyGoto(a, pc)
    BY <1>0, <1>1, <1>7, ReadEffect DEF ProxyLook, ProxyRead, simVars
  <2>2. /\ proxy'[a].pc \in {"read", "call"}
        /\ \A b \in Assets : proxy'[b].slot = proxy[b].slot
        /\ \A b \in Assets : b # a => proxy'[b] = proxy[b]
    BY <2>1, Moved
  <2>3. /\ sem[k] = 0 /\ ev[k].event # "None"
        /\ \A q \in Publishers : ~Notifying(q, k)
    BY <1>1, <1>4, <2>1 DEF OneWakeup, NotifyUndisturbed
  <2>4. OthersStay(k, a)
    BY <1>2, <1>3, <2>1, <2>2 DEF OthersStay
  <2> QED BY <1>1, <1>3, <1>5, <2>1, <2>2, <2>3, <2>4, SlotStep
<1>8. CASE Callback(a)
  <2>1. /\ proxy[a].pc = "call" /\ UNCHANGED sem
        /\ ProxyGoto(a, IF a \in InMaster THEN "none" ELSE "down")
    BY <1>8 DEF Callback
  <2>2. /\ proxy'[a].pc = IF a \in InMaster THEN "none" ELSE "down"
        /\ \A b \in Assets : proxy'[b].slot = proxy[b].slot
        /\ \A b \in Assets : b # a => proxy'[b] = proxy[b]
    BY <2>1, Moved
  <2>3. PICK b : ev' = [ev EXCEPT ![k].feedback = b, ![k].event = "None"]
    BY <1>1, <1>8 DEF Callback, feedback
  <2>4. ev'[k].event = "None" /\ \A i \in Slots : i # k => ev'[i] = ev[i]
    BY <1>4, <2>3 DEF EvTypes
  <2>5. sem[k] = 0 /\ \A q \in Publishers : ~Notifying(q, k)
    BY <1>1, <1>4, <2>1 DEF OneWakeup, NotifyUndisturbed
  <2>6. OthersStay(k, a)
    BY <1>2, <1>3, <2>1, <2>2, <2>4 DEF OthersStay
  <2> QED BY <1>1, <1>3, <2>1, <2>2, <2>4, <2>5, <2>6, SlotStep
<1> QED BY <1>6, <1>7, <1>8 DEF ProxyStep

-----------------------------------------------------------------------------
(* Assets that come and go                                                   *)

\* A step of an asset that leaves: the table, the events and the publications
\* stay, and so do the semaphores of used slots.
LEMMA LeavingStep ==
  ASSUME BaseInv, RpcTypeOK', NEW a \in Assets, Leaving(a),
         MainStep(a) \/ ProxyStep(a)
  PROVE  RpcInv'
<1> USE DEF BaseInv, RpcInv
<1>0. PICK k \in Slots : k = proxy[a].slot
  BY DEF RpcTypeOK
<1>1. /\ ~Registered(k) /\ sem[k] \in Nat
      /\ \A b \in Assets : Leaving(b) /\ proxy[b].slot = k => b = a
      /\ main[a] = "up" => proxy[a].pc = "down" /\ sem[k] = 0
      /\ main[a] = "join" => /\ proxy[a].pc \in {"down", "look", "ended"}
                             /\ proxy[a].pc = "down" => sem[k] = 1
                             /\ proxy[a].pc # "down" => sem[k] = 0
      /\ main[a] \in {"up", "join"}
  BY <1>0 DEF LastWakeup, Leaving, ThreadsFitMain, RpcTypeOK
<1>2. \/ /\ main[a] = "up" /\ main'[a] = "join" /\ UNCHANGED proxy
         /\ sem' = [sem EXCEPT ![k] = sem[k] + 1]
         /\ \A b \in Assets : b # a => main'[b] = main[b]
      \/ /\ main[a] = "join" /\ main'[a] = "left" /\ UNCHANGED <<sem, proxy>>
         /\ proxy[a].pc = "ended"
         /\ \A b \in Assets : b # a => main'[b] = main[b]
      \/ /\ proxy[a].pc = "down" /\ main[a] = "join" /\ UNCHANGED main
         /\ sem' = [sem EXCEPT ![k] = sem[k] - 1] /\ ProxyGoto(a, "look")
      \/ /\ proxy[a].pc = "look" /\ main[a] = "join" /\ UNCHANGED <<main, sem>>
         /\ ProxyGoto(a, "ended")
  BY <1>0, <1>1 DEF MainStep, StopUp, StopJoin, ProxyStep, ProxyDown, ProxyLook, ProxyRead,
     Callback, RpcTypeOK
<1>3. UNCHANGED simVars
  BY <1>1 DEF MainStep, StopUp, StopJoin, ProxyStep, ProxyDown, ProxyLook, ProxyRead, Callback
<1>4. /\ \A b \in Assets : b # a => proxy'[b] = proxy[b] /\ main'[b] = main[b]
      /\ \A b \in Assets : proxy'[b].slot = proxy[b].slot
  BY <1>2, Moved
<1>5. /\ \A i \in Slots : i # k => sem'[i] = sem[i]
      /\ main'[a] \in {"join", "left"}
      /\ main'[a] = "join" => /\ proxy'[a].pc \in {"down", "look", "ended"}
                              /\ proxy'[a].pc = "down" => sem'[k] = 1
                              /\ proxy'[a].pc # "down" => sem'[k] = 0
      /\ main'[a] = "left" => proxy'[a].pc = "ended" /\ sem'[k] = 0
  BY <1>1, <1>2, Moved DEF RpcTypeOK
<1>6. /\ UsedSlots' = UsedSlots /\ Members' = Members /\ UsedSlots \subseteq Slots
      /\ \A i : Registered(i)' <=> Registered(i)
      /\ \A q \in Publishers, i \in Slots : Notifying(q, i)' <=> Notifying(q, i)
      /\ k \notin UsedSlots
  BY <1>1, <1>3 DEF UsedSlots, Members, Registered, simVars, Notifying
<1>7. \A i \in UsedSlots : assets[i] \in Assets /\ assets[i] # a
  BY <1>1, Owner
<1>8. UNCHANGED <<assets, ev, pub, cmd>>
  BY <1>3 DEF simVars
<1>9. ThreadsFitMain'
  <2>1. a \notin Members
    BY <1>1 DEF ThreadsFitMain
  <2> QED BY <1>4, <1>5, <1>6, <1>8, <2>1 DEF ThreadsFitMain
<1>10. LastWakeup'
  <2>1. \A b \in Assets : Leaving(b)' => Leaving(b)
    BY <1>1, <1>4 DEF Leaving
  <2>2. \A b \in Assets : b # a /\ Leaving(b) => proxy[b].slot # k /\ proxy[b].slot \in Slots
    BY <1>1 DEF RpcTypeOK
  <2>3. \A b \in Assets : Leaving(b)' =>
          /\ ~Registered(proxy'[b].slot)
          /\ \A d \in Assets : Leaving(d)' /\ proxy'[d].slot = proxy'[b].slot => d = b
          /\ main'[b] = "join" /\ proxy'[b].pc = "down" => sem'[proxy'[b].slot] = 1
          /\ main'[b] = "up" \/ proxy'[b].pc # "down" => sem'[proxy'[b].slot] = 0
    <3> SUFFICES ASSUME NEW b \in Assets, Leaving(b)'
                 PROVE  /\ ~Registered(proxy'[b].slot)
                        /\ \A d \in Assets : Leaving(d)' /\ proxy'[d].slot = proxy'[b].slot
                             => d = b
                        /\ main'[b] = "join" /\ proxy'[b].pc = "down"
                             => sem'[proxy'[b].slot] = 1
                        /\ main'[b] = "up" \/ proxy'[b].pc # "down"
                             => sem'[proxy'[b].slot] = 0
      OBVIOUS
    <3>1. /\ ~Registered(proxy[b].slot)
          /\ \A d \in Assets : Leaving(d) /\ proxy[d].slot = proxy[b].slot => d = b
      BY <2>1 DEF LastWakeup
    <3>2. CASE b = a
      BY <1>0, <1>4, <1>5, <2>1, <3>1, <3>2 DEF Leaving
    <3>3. CASE b # a
      BY <1>4, <1>5, <2>1, <2>2, <3>1, <3>3 DEF LastWakeup
    <3> QED BY <3>2, <3>3
  <2>4. ASSUME NEW i \in Slots, ~Registered(i), sem'[i] > 0
        PROVE  \E b \in Assets : Leaving(b)' /\ proxy'[b].slot = i
    <3>1. CASE i = k
      <4>1. main'[a] = "join"
        BY <1>5, <2>4, <3>1
      <4> QED BY <1>0, <1>4, <3>1, <4>1 DEF Leaving
    <3>2. CASE i # k
      <4>1. PICK b \in Assets : Leaving(b) /\ proxy[b].slot = i
        BY <1>5, <2>4, <3>2 DEF LastWakeup
      <4>2. b # a
        BY <1>0, <3>2, <4>1
      <4> QED BY <1>4, <4>1, <4>2 DEF Leaving
    <3> QED BY <3>1, <3>2
  <2> QED BY <1>6, <2>3, <2>4 DEF LastWakeup
<1>11. OneWakeup'
  BY <1>4, <1>5, <1>6, <1>7, <1>8 DEF OneWakeup
<1>12. NotifyUndisturbed'
  BY <1>4, <1>5, <1>6, <1>7, <1>8 DEF NotifyUndisturbed
<1>13. OneCall'
  BY <1>8 DEF OneCall
<1>14. Delivered'
  BY <1>4, <1>5, <1>6, <1>7, <1>8 DEF Delivered
<1> QED BY <1>9, <1>10, <1>11, <1>12, <1>13, <1>14

\* A registration finds the semaphore of its slot down.
LEMMA RegisterRpc ==
  ASSUME Orderly, BaseInv, RpcTypeOK', NEW a \in Assets, Register(a)
  PROVE  RpcInv'
<1> USE DEF BaseInv, RpcInv
<1>0. PICK m \in Slots : m = Min(FreeSlots) /\ ~Registered(m)
  BY AllocFacts DEF Register, asset_register, alloc_asset
<1>1. /\ main[a] = "out" /\ a \notin Members
      /\ \A p \in Publishers : pub[p].stage = "off"
      /\ \A b \in Assets : ~Leaving(b)
      /\ assets' = [assets EXCEPT ![m] = a]
      /\ UNCHANGED <<ev, pub, cmd, sem>>
      /\ main' = [main EXCEPT ![a] = "in"]
      /\ proxy' = [proxy EXCEPT ![a] = [pc |-> IF a \in InMaster THEN "none" ELSE "down",
                                        slot |-> m]]
  <2>1. /\ asset_register(a) /\ main[a] = "out" /\ Quiet
        /\ \A b \in Assets : ~Leaving(b)
        /\ main' = [main EXCEPT ![a] = "in"] /\ UNCHANGED sem
        /\ proxy' = [proxy EXCEPT ![a] = [pc |-> IF a \in InMaster THEN "none" ELSE "down",
                                          slot |-> m]]
    BY <1>0 DEF Register
  <2>2. /\ a \notin Members /\ assets' = [assets EXCEPT ![m] = a]
        /\ UNCHANGED <<ev, pub, cmd>>
    BY <1>0, <2>1 DEF asset_register, alloc_asset, AssetUnchanged
  <2> QED BY <2>1, <2>2 DEF Quiet
<1>2. /\ assets'[m] = a /\ \A i \in Slots : i # m => assets'[i] = assets[i]
      /\ main'[a] = "in" /\ \A b \in Assets : b # a => main'[b] = main[b]
      /\ proxy'[a].pc = (IF a \in InMaster THEN "none" ELSE "down") /\ proxy'[a].slot = m
      /\ \A b \in Assets : b # a => proxy'[b] = proxy[b]
  <2>1. /\ DOMAIN assets = Slots /\ DOMAIN main = Assets /\ DOMAIN proxy = Assets
    BY DEF RpcTypeOK, TableInv, SimTypeOK
  <2>2. /\ assets'[m] = a /\ \A i \in Slots : i # m => assets'[i] = assets[i]
    BY <1>1, <2>1
  <2>3. /\ main'[a] = "in" /\ \A b \in Assets : b # a => main'[b] = main[b]
    BY <1>1, <2>1
  <2>4. /\ proxy'[a] = [pc |-> IF a \in InMaster THEN "none" ELSE "down", slot |-> m]
        /\ \A b \in Assets : b # a => proxy'[b] = proxy[b]
    BY <1>1, <2>1
  <2> QED BY <2>2, <2>3, <2>4
<1>3. /\ UsedSlots' = UsedSlots \cup {m} /\ m \notin UsedSlots /\ UsedSlots \subseteq Slots
      /\ \A i \in Slots : ~Registered(i)' => ~Registered(i)
      /\ \A i \in UsedSlots : i # m /\ assets'[i] = assets[i]
  BY <1>0, <1>2, ConstantFacts DEF UsedSlots, Registered
<1>4. Members' = Members \cup {a}
  BY <1>2, <1>3 DEF Members
<1>5. \A i \in UsedSlots : assets[i] # a /\ assets[i] \in Assets
  BY <1>1, Owner
<1>6. \A i \in Slots : ~Registered(i) => sem[i] = 0
  BY <1>1 DEF LastWakeup, RpcTypeOK
<1>7. ThreadsFitMain'
  <2>1. \A b \in Assets : main[b] = "in" => assets'[proxy[b].slot] = b
    BY <1>3, Owned
  <2> QED BY <1>1, <1>2, <1>4, <2>1 DEF ThreadsFitMain
<1>8. LastWakeup'
  <2>1. \A b \in Assets : ~Leaving(b)'
    BY <1>1, <1>2 DEF Leaving
  <2>2. \A i \in Slots : ~(~Registered(i)' /\ sem'[i] > 0)
    BY <1>1, <1>3, <1>6
  <2> QED BY <2>1, <2>2 DEF LastWakeup
<1>9. sem[m] = 0 /\ ev[m].event = "None"
  BY <1>0, <1>6 DEF LifeCycleInv, EventsAreCurrent
<1>10. OneWakeup'
  BY <1>1, <1>2, <1>3, <1>5, <1>9 DEF OneWakeup
<1>11. NotifyUndisturbed'
  BY <1>1 DEF NotifyUndisturbed, Notifying
<1>12. OneCall'
  BY <1>1 DEF OneCall
<1>13. Delivered'
  <2> SUFFICES ASSUME ~CmdsDie, NEW i \in UsedSlots', proxy'[assets'[i]].pc = "down",
                      sem[i] = 0, ev[i].event # "None"
               PROVE  FALSE
    BY <1>1 DEF Delivered
  <2>1. i \in UsedSlots
    BY <1>3, <1>9
  <2>2. proxy[assets[i]].pc = "down"
    BY <1>2, <1>3, <1>5, <2>1
  <2>3. \E p \in Publishers : Notifying(p, i)
    BY <2>1, <2>2 DEF Delivered
  <2> QED BY <1>1, <2>3 DEF Notifying
<1> QED BY <1>7, <1>8, <1>10, <1>11, <1>12, <1>13

\* An unregistration leaves the semaphore of its slot down.
LEMMA UnregisterRpc ==
  ASSUME Orderly, BaseInv, RpcTypeOK', NEW a \in Assets, Unregister(a)
  PROVE  RpcInv'
<1> USE DEF BaseInv, RpcInv
<1>0. PICK m \in Slots : m = proxy[a].slot
  BY DEF RpcTypeOK
<1>1. /\ main[a] = "in" /\ proxy[a].pc \in {"none", "down"} /\ sem[m] = 0
      /\ \A p \in Publishers : pub[p].stage = "off"
      /\ free_asset(a)
      /\ UNCHANGED <<ev, pub, cmd, sem, proxy>>
      /\ main' = [main EXCEPT ![a] = IF a \in InMaster THEN "left" ELSE "up"]
  BY <1>0 DEF Unregister, AssetUnchanged, Quiet
<1>2. m \in UsedSlots /\ assets[m] = a /\ SlotOf(a) = m /\ Registered(m)
  BY <1>0, <1>1, Owned DEF UsedSlots
<1>3. /\ assets'[m] = NoAsset /\ \A i \in Slots : i # m => assets'[i] = assets[i]
      /\ main'[a] = (IF a \in InMaster THEN "left" ELSE "up")
      /\ \A b \in Assets : b # a => main'[b] = main[b]
  BY <1>1, <1>2 DEF free_asset, RpcTypeOK, TableInv, SimTypeOK
<1>4. /\ UsedSlots' = UsedSlots \ {m} /\ UsedSlots \subseteq Slots
      /\ ~Registered(m)' /\ \A i \in Slots : i # m => (Registered(i)' <=> Registered(i))
      /\ \A i \in UsedSlots' : i \in UsedSlots /\ assets'[i] = assets[i]
  BY <1>3 DEF UsedSlots, Registered
<1>5. \A i \in UsedSlots : assets[i] = a <=> i = m
  BY <1>0, <1>1, Owned
<1>6. Members' = Members \ {a}
  BY <1>4, <1>5 DEF Members
<1>7. ThreadsFitMain'
  <2>1. \A b \in Assets : b # a /\ main[b] = "in" => assets'[proxy[b].slot] = b
    <3> SUFFICES ASSUME NEW b \in Assets, b # a, main[b] = "in"
                 PROVE  assets'[proxy[b].slot] = b
      OBVIOUS
    <3>1. proxy[b].slot \in UsedSlots /\ assets[proxy[b].slot] = b
      BY Owned
    <3> QED BY <1>2, <1>4, <3>1
  <2>2. /\ a \in InMaster => proxy[a].pc = "none"
        /\ a \notin InMaster => proxy[a].pc = "down"
    BY <1>1 DEF ThreadsFitMain
  <2> QED BY <1>1, <1>3, <1>6, <2>1, <2>2 DEF ThreadsFitMain
<1>8. LastWakeup'
  <2>1. \A b \in Assets : b # a => (Leaving(b)' <=> Leaving(b))
    BY <1>3 DEF Leaving
  <2>2. ~Leaving(a) /\ (Leaving(a)' => main'[a] = "up")
    BY <1>1, <1>3 DEF Leaving
  <2>3. \A b \in Assets : Leaving(b) =>
          ~Registered(proxy[b].slot) /\ proxy[b].slot # m /\ proxy[b].slot \in Slots
    BY <1>2 DEF LastWakeup, RpcTypeOK
  <2>4. ASSUME NEW b \in Assets, Leaving(b)'
        PROVE  /\ ~Registered(proxy[b].slot)'
               /\ \A d \in Assets : Leaving(d)' /\ proxy'[d].slot = proxy'[b].slot => d = b
               /\ main'[b] = "join" /\ proxy'[b].pc = "down" => sem'[proxy'[b].slot] = 1
               /\ main'[b] = "up" \/ proxy'[b].pc # "down" => sem'[proxy'[b].slot] = 0
    <3>1. CASE b = a
      BY <1>0, <1>1, <1>4, <2>1, <2>2, <2>3, <2>4, <3>1
    <3>2. CASE b # a
      BY <1>0, <1>1, <1>3, <1>4, <2>1, <2>3, <2>4, <3>2 DEF LastWakeup
    <3> QED BY <3>1, <3>2
  <2>5. ASSUME NEW i \in Slots, ~Registered(i)', sem'[i] > 0
        PROVE  \E b \in Assets : Leaving(b)' /\ proxy'[b].slot = i
    <3>1. i # m /\ ~Registered(i)
      BY <1>1, <1>4, <2>5
    <3>2. PICK b \in Assets : Leaving(b) /\ proxy[b].slot = i
      BY <1>1, <2>5, <3>1 DEF LastWakeup
    <3> QED BY <1>1, <2>1, <2>2, <3>2
  <2> QED BY <2>4, <2>5 DEF LastWakeup
<1>9. OneWakeup'
  BY <1>1, <1>4 DEF OneWakeup
<1>10. NotifyUndisturbed'
  BY <1>1 DEF NotifyUndisturbed, Notifying
<1>11. OneCall'
  BY <1>1 DEF OneCall
<1>12. Delivered'
  BY <1>1, <1>4 DEF Delivered, Notifying
<1> QED BY <1>7, <1>8, <1>9, <1>10, <1>11, <1>12

-----------------------------------------------------------------------------
(* The theorems                                                              *)

\* At the start no asset is in the table and every semaphore is down.
LEMMA RpcInitInv == RpcInit => BaseInv
<1> SUFFICES ASSUME RpcInit PROVE BaseInv
  OBVIOUS
<1>1. SimInit
  BY DEF RpcInit
<1>2. TableInv /\ LifeCycleInv
  BY <1>1, TableInit, LifeInit
<1>3. UsedSlots = {} /\ Members = {} /\ \A i \in Slots : ~Registered(i)
  BY <1>1 DEF SimInit, UsedSlots, Members, Registered
<1>4. RpcTypeOK
  BY ConstantFacts DEF RpcInit, RpcTypeOK
<1>5. ThreadsFitMain
  BY <1>3 DEF RpcInit, ThreadsFitMain
<1>6. LastWakeup
  BY DEF RpcInit, LastWakeup, Leaving
<1>7. OneWakeup /\ NotifyUndisturbed /\ Delivered
  BY <1>3 DEF OneWakeup, NotifyUndisturbed, Delivered
<1>8. OneCall
  BY <1>1 DEF SimInit, OneCall
<1> QED BY <1>2, <1>4, <1>5, <1>6, <1>7, <1>8 DEF BaseInv, RpcInv

\* Every step keeps the invariant: steps of the life cycle by the lemmas of
\* SimEventProofs, steps of a thread according to whether its asset leaves.
LEMMA RpcNextInv ==
  ASSUME Slow = {}, Orderly, BaseInv, [RpcNext]_allVars
  PROVE  BaseInv'
<1>1. CASE RpcNext
  <2>1. TableInv' /\ LifeCycleInv'
    BY <1>1, RpcTable, RpcLife
  <2>2. RpcTypeOK'
    BY <1>1, RpcTypes DEF BaseInv, RpcInv
  <2>3. ASSUME NEW a \in Assets, MainStep(a) \/ ProxyStep(a) PROVE RpcInv'
    <3>1. CASE Leaving(a)
      BY <2>2, <2>3, <3>1, LeavingStep
    <3>2. CASE ~Leaving(a)
      <4>1. main[a] = "in" /\ ProxyStep(a)
        BY <2>3, <3>2 DEF MainStep, StopUp, StopJoin, ProxyStep, ProxyDown, ProxyLook,
           ProxyRead, Callback, Leaving, BaseInv, RpcInv, RpcTypeOK, ThreadsFitMain
      <4> QED BY <2>2, <4>1, ThreadRpc
    <3> QED BY <3>1, <3>2
  <2>4. RpcInv'
    BY <1>1, <2>2, <2>3, CommandRpc, PublishRpc, NotifyRpc, ConductRpc, RegisterRpc,
       UnregisterRpc
    DEF RpcNext, PublishStep, Conduct
  <2> QED BY <2>1, <2>4 DEF BaseInv
<1>2. CASE UNCHANGED allVars
  <2>1. UNCHANGED simVars /\ UNCHANGED rpcVars
    BY <1>2 DEF allVars
  <2>2. TableInv' /\ LifeCycleInv'
    <3>1. TableInv'
      BY <2>1 DEF BaseInv, TableInv, TableConsistent, UsedSlots, Registered, simVars, SimTypeOK
    <3>2. NoError'
      BY <2>1 DEF simVars, BaseInv, LifeCycleInv, NoError
    <3> QED BY <2>1, <3>1, <3>2, IdleStep DEF simVars, BaseInv
  <2>3. RpcTypeOK' /\ OneCall'
    BY <2>1 DEF BaseInv, RpcInv, RpcTypeOK, OneCall, rpcVars, simVars
  <2>4. RpcInv'
    BY <2>1, <2>3, CalmRpc DEF Notifying, rpcVars, simVars
  <2> QED BY <2>2, <2>4 DEF BaseInv
<1> QED BY <1>1, <1>2

\* The invariant holds in every state of an instance whose assets come and go
\* between events and whose heartbeats do not expire.
THEOREM RpcInvariance ==
  ASSUME Slow = {}, Orderly = TRUE
  PROVE  RpcSpec => []BaseInv
<1>1. RpcInit => BaseInv
  BY RpcInitInv
<1>2. BaseInv /\ [RpcNext]_allVars => BaseInv'
  BY RpcNextInv
<1> QED BY <1>1, <1>2, PTL DEF RpcSpec

\* The proxy thread never calls through a callback that does not exist: when
\* it reads its slot, the slot holds a start, stop or reset event that nobody
\* has answered (proxy_thread, map_[event]).
THEOREM OnlyCallbacksAreCalled ==
  ASSUME Slow = {}, Orderly = TRUE
  PROVE  RpcSpec => []CallbacksOnly
<1>1. BaseInv => CallbacksOnly
  BY DEF BaseInv, RpcInv, RpcTypeOK, ThreadsFitMain, CallbacksOnly
<1> QED BY <1>1, RpcInvariance, PTL

\* Unless a command is killed between writing an event and raising the
\* semaphore, no thread sleeps over an event that waits for it (notify,
\* asset_down).
THEOREM NoWakeupIsLost ==
  ASSUME Slow = {}, Orderly = TRUE, CmdsDie = FALSE
  PROVE  RpcSpec => []WakeupNotLost
<1>1. BaseInv => WakeupNotLost
  <2> SUFFICES ASSUME BaseInv, NEW a \in Members \ InMaster,
                      proxy[a].pc = "down", sem[proxy[a].slot] = 0,
                      ev[proxy[a].slot].event \in {"Start", "Stop", "Reset"}
               PROVE  \E p \in Publishers : /\ pub[p].slot = proxy[a].slot
                                           /\ pub[p].stage \in {"clear", "lookup"}
    BY DEF WakeupNotLost
  <2>1. a \in Assets /\ main[a] = "in"
    BY SlotFacts DEF BaseInv, TableInv, RpcInv, ThreadsFitMain
  <2>2. proxy[a].slot \in UsedSlots /\ assets[proxy[a].slot] = a
    BY <2>1, Owned DEF BaseInv, RpcInv
  <2>3. \E p \in Publishers : Notifying(p, proxy[a].slot)
    BY <2>2 DEF BaseInv, RpcInv, Delivered
  <2> QED BY <2>3 DEF Notifying
<1> QED BY <1>1, RpcInvariance, PTL

\* A wake-up is for one event: the slot of an asset that has left is handed to
\* the next asset with its semaphore down (stop, asset_up).
THEOREM NoWakeupStaysBehind ==
  ASSUME Slow = {}, Orderly = TRUE
  PROVE  RpcSpec => []NothingLeftBehind
<1>1. BaseInv => NothingLeftBehind
  BY DEF BaseInv, RpcInv, RpcTypeOK, LastWakeup, NothingLeftBehind
<1> QED BY <1>1, RpcInvariance, PTL

\* With callbacks in place of polling, and assets that join between events,
\* a running simulation is one whose start every registered asset has
\* confirmed itself.
THEOREM CallbacksConfirmStart ==
  ASSUME Slow = {}, Orderly = TRUE
  PROVE  RpcSpec => []RunningIsConfirmed
<1>1. BaseInv => RunningIsConfirmed
  BY DEF BaseInv, LifeCycleInv, ConfirmedIsCurrent
<1> QED BY <1>1, RpcInvariance, PTL

-----------------------------------------------------------------------------
(* The life cycle with threads implements its promise                        *)

\* Who has not registered yet has confirmed nothing.
NewcomersAreSilent == \A a \in Assets : main[a] = "out" => ack[a] = 0

\* A step of the threads that leaves the life cycle alone does not show.
LEMMA HiddenRpc ==
  ASSUME AckNotAhead, NewcomersAreSilent, UNCHANGED <<state, assets, epoch, ack>>,
         \A a \in Assets : main'[a] = "out" => main[a] = "out"
  PROVE  AckNotAhead' /\ NewcomersAreSilent' /\ UNCHANGED Promise!lifeVars
BY HiddenStep DEF NewcomersAreSilent

LEMMA RpcShows ==
  ASSUME Slow = {}, Orderly, BaseInv, AckNotAhead, NewcomersAreSilent, RpcNext
  PROVE  AckNotAhead' /\ NewcomersAreSilent' /\ [Promise!LifeNext]_(Promise!lifeVars)
<1> USE DEF BaseInv
<1>1. ASSUME NEW c \in Cmds, CommandStep(c), UNCHANGED rpcVars
      PROVE  AckNotAhead' /\ NewcomersAreSilent' /\ [Promise!LifeNext]_(Promise!lifeVars)
  <2>1. UNCHANGED <<ack, main>>
    BY <1>1 DEF CommandStep, start, stop, ResetPeek, ResetTrigger, CmdDies, CmdUnchanged, rpcVars
  <2> QED BY <1>1, <2>1, CommandShows DEF NewcomersAreSilent, Promise!LifeNext
<1>2. ASSUME NEW p \in Publishers, PublishStep(p)
      PROVE  AckNotAhead' /\ NewcomersAreSilent' /\ [Promise!LifeNext]_(Promise!lifeVars)
  <2>1. UNCHANGED <<state, assets, epoch, ack, main>>
    BY <1>2 DEF PublishStep, Publish, Notify, CallDirectly, PublishCheck, PublishWrite,
                PublishClear, PublishLookup, TableUnchanged, rpcVars
  <2> QED BY <2>1, HiddenRpc
<1>3. ASSUME Conduct
      PROVE  AckNotAhead' /\ NewcomersAreSilent' /\ [Promise!LifeNext]_(Promise!lifeVars)
  <2>1. UNCHANGED <<ack, main>>
    BY <1>3, ConductFrame DEF Conduct, rpcVars
  <2> QED BY <1>3, <2>1, ConductorShows DEF Conduct, NewcomersAreSilent, Promise!LifeNext
<1>4. ASSUME NEW a \in Assets, Register(a)
      PROVE  AckNotAhead' /\ NewcomersAreSilent' /\ [Promise!LifeNext]_(Promise!lifeVars)
  <2>1. /\ asset_register(a) /\ UNCHANGED ack
        /\ main' = [main EXCEPT ![a] = "in"] /\ ack[a] = 0
    BY <1>4 DEF Register, asset_register, NewcomersAreSilent
  <2>2. epoch > 0 => ack[a] # epoch
    BY <2>1
  <2>3. NewcomersAreSilent'
    BY <2>1 DEF NewcomersAreSilent, RpcInv, RpcTypeOK
  <2> QED BY <2>1, <2>2, <2>3, RegisterShows DEF Promise!LifeNext
<1>5. ASSUME NEW a \in Assets, Unregister(a)
      PROVE  AckNotAhead' /\ NewcomersAreSilent' /\ [Promise!LifeNext]_(Promise!lifeVars)
  <2>1. /\ free_asset(a) /\ UNCHANGED <<ack, state, epoch>>
        /\ \A b \in Assets : main'[b] = "out" => main[b] = "out"
    BY <1>5 DEF Unregister, AssetUnchanged, RpcInv, RpcTypeOK
  <2>2. NewcomersAreSilent'
    BY <2>1 DEF NewcomersAreSilent
  <2> QED BY <2>1, <2>2, LeaveShows DEF Promise!LifeNext
<1>6. ASSUME NEW a \in Assets, Callback(a)
      PROVE  AckNotAhead' /\ NewcomersAreSilent' /\ [Promise!LifeNext]_(Promise!lifeVars)
  <2>1. main[a] # "out" /\ UNCHANGED main
    BY <1>6 DEF Callback, RpcInv, ThreadsFitMain
  <2>2. PICK isOk \in Answers : feedback(a, isOk)
    BY <1>6 DEF Callback
  <2>3. \A b \in Assets \ {a} : ack'[b] = ack[b]
    BY <2>2 DEF feedback, TableInv, SimTypeOK
  <2>4. NewcomersAreSilent'
    BY <2>1, <2>3 DEF NewcomersAreSilent
  <2> QED BY <2>2, <2>4, AnswerShows DEF Promise!LifeNext
<1>7. ASSUME NEW a \in Assets, MainStep(a) \/ (ProxyStep(a) /\ ~Callback(a))
      PROVE  AckNotAhead' /\ NewcomersAreSilent' /\ [Promise!LifeNext]_(Promise!lifeVars)
  <2>1. UNCHANGED <<state, assets, epoch, ack>>
    BY <1>7 DEF MainStep, StopUp, StopJoin, ProxyStep, ProxyDown, ProxyLook, ProxyRead, simVars
  <2>2. \A b \in Assets : main'[b] = "out" => main[b] = "out"
    BY <1>7 DEF MainStep, StopUp, StopJoin, ProxyStep, ProxyDown, ProxyLook, ProxyRead,
                RpcInv, RpcTypeOK
  <2> QED BY <2>1, <2>2, HiddenRpc
<1> QED BY <1>1, <1>2, <1>3, <1>4, <1>5, <1>6, <1>7 DEF RpcNext

\* With semaphores and threads between a publication and the answer, callbacks
\* called by the publisher itself, and assets that join and leave between
\* events, the life cycle still looks like the request, confirm, complete of
\* LifeCycle.  Here assets may join after the first command too: what they
\* confirm is never an event from before they joined.
THEOREM RpcKeepsPromise ==
  ASSUME Slow = {}, Orderly = TRUE
  PROVE  RpcSpec => ImplementsLifeCycle
<1>1. RpcInit => AckNotAhead /\ NewcomersAreSilent /\ Promise!LifeInit
  BY DEF RpcInit, SimInit, AckNotAhead, NewcomersAreSilent, Promise!LifeInit, Confirmed,
         Members, UsedSlots, Registered
<1>2. BaseInv /\ AckNotAhead /\ NewcomersAreSilent /\ [RpcNext]_allVars
        => AckNotAhead' /\ NewcomersAreSilent' /\ [Promise!LifeNext]_(Promise!lifeVars)
  <2>1. ASSUME AckNotAhead, NewcomersAreSilent, UNCHANGED allVars
        PROVE  AckNotAhead' /\ NewcomersAreSilent' /\ UNCHANGED Promise!lifeVars
    BY <2>1, HiddenRpc DEF allVars, simVars, rpcVars
  <2> QED BY <2>1, RpcShows
<1> QED BY <1>1, <1>2, RpcInvariance, PTL
        DEF RpcSpec, ImplementsLifeCycle, Promise!LifeSpec
=============================================================================
