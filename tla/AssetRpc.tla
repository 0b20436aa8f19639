------------------------------ MODULE AssetRpc ------------------------------
(***************************************************************************)
(* How an event reaches the callbacks of an asset: notify() and the proxy  *)
(* thread of hako_internal_rpc.cpp, on top of the life cycle of SimEvent.  *)
(*                                                                         *)
(* Every slot of the asset table has a semaphore.  notify() writes the     *)
(* event into the slot and raises the semaphore; the proxy thread of the   *)
(* asset takes the semaphore, reads whatever event the slot holds by then  *)
(* and calls the callback registered for it.  asset_unregister frees the   *)
(* slot, raises the semaphore once more so that the thread finds the slot  *)
(* free and ends, and waits for that.  An asset in the master's own        *)
(* process has no proxy thread: notify() calls its callback directly when  *)
(* the event comes from the same process.                                  *)
(***************************************************************************)
EXTENDS SimEvent

CONSTANTS
  InMaster,    \* assets that live in the master's process
  MasterCmds,  \* the command, if any, that is issued from the master's process
  Orderly      \* TRUE: assets come and go only between events, leave only when
               \*   they can be freed, and none comes while another leaves

ASSUME AssetRpcAssumption ==
  /\ InMaster \subseteq Assets
  /\ MasterCmds \subseteq Cmds
  /\ \A c, d \in MasterCmds : c = d
  /\ Orderly \in BOOLEAN

VARIABLES
  sem,    \* sem[i]: the semaphore of slot i
  proxy,  \* proxy[a]: the proxy thread of a, and asset_id_
  main    \* main[a]: the thread of a that registers and unregisters

rpcVars == <<sem, proxy, main>>
allVars == <<simVars, rpcVars>>

RpcTypeOK ==
  /\ sem \in [Slots -> Nat]
  /\ proxy \in [Assets -> [pc : {"none", "down", "look", "read", "call", "ended",
                                 "crashed"},
                           slot : Slots]]
  /\ main \in [Assets -> {"out", "in", "up", "join", "left"}]

Quiet == \A p \in Publishers : pub[p].stage = "off"
Leaving(a) == main[a] \in {"up", "join"}
ProxyGoto(a, pc) == proxy' = [proxy EXCEPT ![a].pc = pc]

-----------------------------------------------------------------------------
(* Registration *)

\* asset_register: alloc_asset, the callbacks, and start().
Register(a) ==
  /\ main[a] = "out"
  /\ Orderly => Quiet /\ \A b \in Assets : ~Leaving(b)
  /\ asset_register(a)
  /\ proxy' = [proxy EXCEPT ![a] = [pc |-> IF a \in InMaster THEN "none" ELSE "down",
                                    slot |-> Min(FreeSlots)]]
  /\ main' = [main EXCEPT ![a] = "in"]
  /\ UNCHANGED sem

\* asset_unregister: free_asset may be refused, the thread is stopped anyway.
Unregister(a) ==
  /\ AssetsLeave
  /\ main[a] = "in"
  /\ proxy[a].pc # "crashed"
  /\ Orderly => Quiet /\ proxy[a].pc \in {"none", "down"} /\ sem[proxy[a].slot] = 0
  /\ \/ free_asset(a)
     \/ ~CanFree(a) /\ ~Orderly /\ UNCHANGED <<assets, asset_num>>
  /\ main' = [main EXCEPT ![a] = IF a \in InMaster THEN "left" ELSE "up"]
  /\ UNCHANGED <<ev, ack, seen, sem, proxy>> /\ AssetUnchanged

\* Mutant: the thread is waited for without being woken.
StopUpNot(a) ==
  /\ main[a] = "up"
  /\ main' = [main EXCEPT ![a] = "join"]
  /\ UNCHANGED <<simVars, sem, proxy>>

\* stop(): wake the thread, then wait for its end.
StopUp(a) ==
  /\ main[a] = "up"
  /\ sem' = [sem EXCEPT ![proxy[a].slot] = @ + 1]
  /\ main' = [main EXCEPT ![a] = "join"]
  /\ UNCHANGED <<simVars, proxy>>

\* Mutant: the thread's object wakes the thread once more when it goes.
StopJoinAgain(a) ==
  /\ main[a] = "join"
  /\ proxy[a].pc = "ended"
  /\ main' = [main EXCEPT ![a] = "left"]
  /\ sem' = [sem EXCEPT ![proxy[a].slot] = @ + 1]
  /\ UNCHANGED <<simVars, proxy>>

StopJoin(a) ==
  /\ main[a] = "join"
  /\ proxy[a].pc = "ended"
  /\ main' = [main EXCEPT ![a] = "left"]
  /\ UNCHANGED <<simVars, sem, proxy>>

-----------------------------------------------------------------------------
(* Events *)

\* Mutant: the semaphore is raised before the event is written.
PublishEarlyUp(p) ==
  \/ /\ PublishCheck(p) \/ PublishClear(p)
     /\ UNCHANGED rpcVars
  \/ /\ PublishWrite(p)
     /\ sem' = [sem EXCEPT ![pub[p].slot] = @ + 1]
     /\ UNCHANGED <<proxy, main>>

\* The writes of a publication.
Publish(p) ==
  /\ PublishCheck(p) \/ PublishWrite(p) \/ PublishClear(p)
  /\ UNCHANGED rpcVars

SameProcess(p, a) == p \in MasterCmds /\ a \in InMaster

\* The callback is called by the publisher, with the event it publishes.
CallDirectly(p, a) ==
  /\ pub[p].stage = "lookup"
  /\ SameProcess(p, a)
  /\ seen' = [seen EXCEPT ![a] = [event |-> pub[p].event, epoch |-> epoch]]
  /\ ProxyGoto(a, "call")
  /\ NextSlot(p)
  /\ UNCHANGED <<state, assets, ev, asset_num, cond, cmd, epoch, ack, sem>>

\* Mutant: only start events raise the semaphore.
NotifyStartOnly(p) ==
  LET i == pub[p].slot
      a == assets[i]
  IN
  /\ \/ Registered(i) /\ CallDirectly(p, a)
     \/ /\ ~SameProcess(p, a)
        /\ PublishLookup(p)
        /\ sem' = [sem EXCEPT ![i] = IF Registered(i) /\ pub[p].event = "Start"
                                     THEN @ + 1 ELSE @]
        /\ UNCHANGED proxy
  /\ UNCHANGED main

\* The rest of notify(): the callback of an asset in the same process is called
\* directly, every other asset is woken through its semaphore.
Notify(p) ==
  LET i == pub[p].slot
      a == assets[i]
  IN
  /\ \/ Registered(i) /\ CallDirectly(p, a)
     \/ /\ ~SameProcess(p, a)
        /\ PublishLookup(p)
        /\ sem' = [sem EXCEPT ![i] = IF Registered(i) THEN @ + 1 ELSE @]
        /\ UNCHANGED proxy
  /\ UNCHANGED main

\* asset_down of the proxy thread.
ProxyDown(a) ==
  /\ proxy[a].pc = "down"
  /\ sem[proxy[a].slot] > 0
  /\ sem' = [sem EXCEPT ![proxy[a].slot] = @ - 1]
  /\ ProxyGoto(a, "look")
  /\ UNCHANGED <<simVars, main>>

\* get_asset_event_nolock: the thread ends when its slot is free.
ProxyLook(a) ==
  /\ proxy[a].pc = "look"
  /\ ProxyGoto(a, IF Registered(proxy[a].slot) THEN "read" ELSE "ended")
  /\ UNCHANGED <<simVars, sem, main>>

\* map_[event](): an event without a callback is a call through a null pointer.
ProxyRead(a) ==
  LET e == ev[proxy[a].slot].event IN
  /\ proxy[a].pc = "read"
  /\ IF e \in {"Start", "Stop", "Reset"}
     THEN /\ seen' = [seen EXCEPT ![a] = [event |-> e, epoch |-> epoch]]
          /\ ProxyGoto(a, "call")
     ELSE /\ ProxyGoto(a, "crashed")
          /\ UNCHANGED seen
  /\ UNCHANGED <<state, assets, ev, asset_num, cond, cmd, pub, epoch, ack>>
  /\ UNCHANGED <<sem, main>>

\* The callback gives its feedback and returns.
Callback(a) ==
  /\ proxy[a].pc = "call"
  /\ \E isOk \in Answers : feedback(a, isOk)
  /\ ProxyGoto(a, IF a \in InMaster THEN "none" ELSE "down")
  /\ UNCHANGED <<sem, main>>

-----------------------------------------------------------------------------

RpcInit ==
  /\ SimInit
  /\ sem = [i \in Slots |-> 0]
  /\ proxy = [a \in Assets |-> [pc |-> "none", slot |-> 0]]
  /\ main = [a \in Assets |-> "out"]

ProxyStep(a) == ProxyDown(a) \/ ProxyLook(a) \/ ProxyRead(a) \/ Callback(a)
MainStep(a) == StopUp(a) \/ StopJoin(a)

\* A command in the master's process waits for the callback it has called.
InCallback(p) == p \in MasterCmds /\ \E a \in InMaster : proxy[a].pc = "call"

PublishStep(p) == ~InCallback(p) /\ (Publish(p) \/ Notify(p))
Conduct == execute /\ UNCHANGED rpcVars

RpcNext ==
  \/ \E c \in Cmds : ~InCallback(c) /\ CommandStep(c) /\ UNCHANGED rpcVars
  \/ \E p \in Publishers : PublishStep(p)
  \/ Conduct
  \/ \E a \in Assets : Register(a) \/ Unregister(a) \/ MainStep(a) \/ ProxyStep(a)

RpcSpec == RpcInit /\ [][RpcNext]_allVars

(***************************************************************************)
(* Fairness: the conductor, every publication and the threads of an asset  *)
(* keep running; nobody else takes the semaphore of a slot for good.       *)
(***************************************************************************)
FairRpcSpec ==
  /\ RpcSpec
  /\ WF_allVars(Conduct)
  /\ \A p \in Publishers : WF_allVars(PublishStep(p))
  /\ \A a \in Assets : WF_allVars(ProxyStep(a)) /\ WF_allVars(MainStep(a))

-----------------------------------------------------------------------------
(* Properties *)

\* The proxy thread calls nothing but the start, stop and reset callbacks: it
\* is never awake while its slot holds another event (docs/API_SPEC_EN.md:
\* "structure holding start/stop/reset callbacks of an asset").
CallbacksOnly == \A a \in Assets : proxy[a].pc # "crashed"

\* No wake-up is lost: when the thread of a registered asset sleeps and its
\* semaphore is down, no event waits for it, except the one whose publication
\* has not reached the semaphore yet.
WakeupNotLost ==
  \A a \in Members \ InMaster :
    LET i == proxy[a].slot IN
    /\ proxy[a].pc = "down"
    /\ sem[i] = 0
    /\ ev[i].event \in {"Start", "Stop", "Reset"}
    => \E p \in Publishers : pub[p].slot = i /\ pub[p].stage \in {"clear", "lookup"}

\* A wake-up is for one event: after its asset has left, a slot's semaphore is
\* down and the next asset of the slot is not woken for nothing.
NothingLeftBehind ==
  \A i \in Slots :
    ~Registered(i) /\ (\A a \in Assets : ~Leaving(a)) => sem[i] = 0

\* asset_unregister returns: the proxy thread is woken and ends.
LeaveReturns == \A a \in Assets : Leaving(a) ~> main[a] = "left"

\* A stop reaches every callback and ends in Stopped.
StopCompletes == state = "Stopping" ~> state = "Stopped"
=============================================================================
