---------------------------- MODULE PduTableProofs ----------------------------
(***************************************************************************)
(* Proofs about PduTable for any number of assets, keys, channels, starts  *)
(* and deaths, as long as channels are declared before the first start     *)
(* (InOrder).                                                              *)
(***************************************************************************)
EXTENDS PduTable, FiniteSetTheorems, WellFoundedInduction, TLAPS

-----------------------------------------------------------------------------
(* The inductive invariant                                                   *)

Naming(p) == proc[p].pc \in {"l_name", "l_size", "l_load", "l_store"}
Counting(p) == proc[p].pc \in {"l_load", "l_store", "d_load", "d_store"}
Creating == proc[Conductor].pc \in {"c_area", "c_num", "c_offset", "c_attach"}
Sized == {i \in Ids : channel[i].size > 0}
NoneDirect == \A a \in Assets, i \in Direct : told[a][i] = "unasked"

\* Who is at which point of which call, with what in its local variables.
Places ==
  /\ \A p \in Procs :
       /\ Declaring(p) => p \in Assets
       /\ proc[p].pc = "l_lock" \/ proc[p].pc = "l_find" \/ Naming(p)
            => proc[p].key \in Keys
       /\ proc[p].pc \in {"d_lock", "d_size", "d_load", "d_store"}
            => proc[p].id \in Direct /\ proc[p].key = NoKey
                                     /\ told[p][proc[p].id] # "unasked"
       /\ proc[p].pc = "unlock"
            => \/ proc[p].key \in Keys
               \/ proc[p].id \in Direct /\ proc[p].key = NoKey
                                        /\ told[p][proc[p].id] # "unasked"
       /\ proc[p].pc \in {"c_area", "c_num", "c_offset", "c_attach", "r_unlock"}
            => p = Conductor

\* The spin lock: one process is between lock and unlock, and before the first
\* start, when reset() cannot have cleared it, the lock is taken meanwhile.
SpinLock ==
  /\ \A p, q \in Procs : InTable(p) /\ InTable(q) => p = q
  /\ sim.starts = 0 => \A p \in Procs : InTable(p) => busy
  /\ busy => \E p \in Procs : InTable(p)
  /\ sim.starts > 0 => \A p \in Procs \ dead : ~Declaring(p)

\* The entry that the process in the table is filling.
EntryInWork ==
  \A p \in Procs :
    /\ Naming(p) => proc[p].id = channel_num /\ channel_num < ChannelMax
    /\ proc[p].pc = "l_name" => \A i \in Ids : channel[i].key # proc[p].key
    /\ proc[p].pc \in {"l_size", "l_load", "l_store"}
         => channel[proc[p].id].key = proc[p].key
    /\ proc[p].pc \in {"l_name", "l_size"} => channel[proc[p].id].size = 0
    /\ proc[p].pc \in {"l_load", "l_store"} => channel[proc[p].id].size > 0
    /\ proc[p].pc \in {"l_store", "d_store"} => proc[p].num = channel_num

\* channel_num counts the entries with a size, but for the one in work.
Counted ==
  /\ \A p \in Procs : Counting(p) => Cardinality(Sized) = channel_num + 1
  /\ (\A p \in Procs : ~Counting(p)) => Cardinality(Sized) = channel_num

\* Entries with a key lie below channel_num and have a size, but for the one
\* in work, and no two have the same key.
KeysBelow ==
  /\ \A i \in Ids : channel[i].key # NoKey =>
       \/ i < channel_num /\ channel[i].size > 0
       \/ \E p \in Procs : proc[p].pc \in {"l_size", "l_load", "l_store"}
                             /\ proc[p].id = i
  /\ \A i, j \in Ids : i # j /\ channel[i].key = channel[j].key
                         => channel[i].key = NoKey

\* A cached number is the number of the key's entry, which a lookup finds too
\* unless the process is about to count it.
CachesRight ==
  \A p \in Procs, k \in Keys : cache[p][k] # NoId =>
    /\ channel[cache[p][k]].key = k
    /\ \/ cache[p][k] < channel_num
       \/ proc[p].pc \in {"l_load", "l_store"} /\ proc[p].id = cache[p][k]

\* Without declarations by number, the entries from channel_num on are empty,
\* and what was answered with true can be found.
AnswersRight ==
  NoneDirect =>
    /\ \A i \in Ids : i >= channel_num /\ channel[i].size > 0
         => \E p \in Procs : proc[p].pc \in {"l_load", "l_store"} /\ proc[p].id = i
    /\ \A p \in Procs : proc[p].pc = "unlock" /\ proc[p].answer
         => Scan(proc[p].key) # {}
    /\ \A a \in Assets, k \in Keys : told[a][k] = "true" => Scan(k) # {}

DeclareInv == TypeOK /\ Places /\ SpinLock /\ EntryInWork /\ Counted
                     /\ KeysBelow /\ CachesRight /\ AnswersRight

LaidOut == \A i \in Ids : channel[i].offset = SizeBelow(i)

\* create() runs in the state Running, with assets in the table, and holds the
\* lock file while it lives.
CreateRuns ==
  /\ IsFiniteSet(sim.members)
  /\ sim.state # "Stopped" => sim.starts > 0 /\ sim.members # {}
  /\ Creating => sim.state = "Running"
  /\ Creating /\ Conductor \notin dead => init_lock = Conductor

\* How far create() has come, and what is true from then on.
CreateStages ==
  LET pc == proc[Conductor].pc IN
  /\ pc = "c_area" => proc[Conductor].total = pdu_total_size
  /\ pc = "c_num" => area = pdu_total_size
  /\ pc \in {"c_area", "c_num"} => asset_num = 0
  /\ pc \in {"c_offset", "c_attach"} => asset_num > 0
  /\ Creating => ~pdu[Conductor]
  /\ asset_num > 0 =>
       /\ sim.starts > 0
       /\ area = pdu_total_size
       /\ pdu[Conductor] \/ pc \in {"c_offset", "c_attach"}
       /\ pc # "c_offset" => LaidOut

\* A process that looks for the area was told that it exists; one that has its
\* address found the layout in it.
UsersFindArea ==
  \A p \in Procs :
    /\ pdu[p] => asset_num > 0 /\ (proc[Conductor].pc = "c_offset" => Conductor \in dead)
    /\ proc[p].pc \in {"load", "w_load"} => asset_num > 0
    /\ proc[p].pc = "w_load" => Sized # {}
    /\ proc[p].pc = "write" => pdu[p]
    /\ proc[p].pc # "crashed"

AreaInv == CreateRuns /\ CreateStages /\ UsersFindArea

PduInv == DeclareInv /\ AreaInv

-----------------------------------------------------------------------------
(* Numbers and sums                                                          *)

\* Every set of numbers that is not empty has a least one: induction over the
\* channels is an argument about the least channel for which a claim fails.
LEMMA LeastNumber ==
  ASSUME NEW S \in SUBSET Nat, S # {}
  PROVE  Min(S) \in S /\ \A i \in S : Min(S) <= i
<1> DEFINE Less == OpToRel(<, Nat)
<1>1. PICK x \in S : \A y \in S : <<y, x>> \notin Less
  <2>1. IsWellFoundedOn(Less, Nat)
    BY NatLessThanWellFounded
  <2> HIDE DEF Less
  <2> QED BY <2>1, WFMin
<1>2. \A y \in S : x <= y
  <2> SUFFICES ASSUME NEW y \in S, y < x PROVE FALSE
    OBVIOUS
  <2>1. <<y, x>> \in Less
    BY DEF OpToRel
  <2> QED BY <1>1, <2>1
<1> QED BY <1>1, <1>2 DEF Min

LEMMA ConstantFacts ==
  /\ ChannelMax \in Nat \ {0}
  /\ Ids \subseteq Nat
  /\ IsFiniteSet(Ids)
  /\ Cardinality(Ids) = ChannelMax
  /\ Direct \subseteq Ids
  /\ NoKey \notin Keys
  /\ Conductor \in Procs
  /\ Assets \subseteq Procs
  /\ Conductor \notin Assets
  /\ NoProc \notin Procs
  /\ NoId \notin Ids
  /\ \A k \in Keys : SizeOf[k] \in Nat \ {0}
<1>1. ChannelMax \in Nat \ {0}
  BY PduTableAssumption
<1>2. IsFiniteSet(0 .. (ChannelMax - 1)) /\ Cardinality(0 .. (ChannelMax - 1)) = ChannelMax
  BY <1>1, FS_Interval
<1> QED BY <1>1, <1>2, PduTableAssumption DEF Ids, Procs, NoId

\* What the loop of pdu_total_size and the one of create add up.
LEMMA SumsFacts ==
  ASSUME NEW size \in [Ids -> Nat]
  PROVE  /\ Sums(size) \in [0 .. ChannelMax -> Nat]
         /\ Sums(size)[0] = 0
         /\ \A n \in Ids : Sums(size)[n + 1] = Sums(size)[n] + size[n]
<1> DEFINE Dom == 0 .. ChannelMax
           UpTo(n, g) == g[0] = 0 /\ \A i \in Ids : i < n => g[i + 1] = g[i] + size[i]
           Missing == {n \in Dom : ~ \E g \in [Dom -> Nat] : UpTo(n, g)}
<1>0. ChannelMax \in Nat \ {0} /\ 0 \in Dom /\ ChannelMax \in Dom /\ Dom \subseteq Nat
  BY ConstantFacts
<1>1. Missing = {}
  <2> SUFFICES ASSUME Missing # {} PROVE FALSE
    OBVIOUS
  <2> DEFINE m == Min(Missing)
  <2>1. m \in Missing /\ \A i \in Missing : m <= i
    BY LeastNumber, <1>0
  <2> HIDE DEF m
  <2>2. m # 0
    <3> DEFINE z == [n \in Dom |-> 0]
    <3>1. z \in [Dom -> Nat] /\ UpTo(0, z)
      BY <1>0 DEF Ids
    <3> HIDE DEF z
    <3> QED BY <3>1, <2>1
  <2>3. m \in Dom /\ m - 1 \in Dom /\ m - 1 \in Ids /\ m - 1 < m
    BY <1>0, <2>1, <2>2 DEF Ids
  <2>4. PICK g \in [Dom -> Nat] : UpTo(m - 1, g)
    <3>1. m \in Nat
      BY <1>0, <2>3
    <3>2. m - 1 \notin Missing
      <4> HIDE DEF Missing
      <4> QED BY <2>1, <3>1
    <3> QED BY <3>2, <2>3
  <2> DEFINE h == [g EXCEPT ![m] = g[m - 1] + size[m - 1]]
  <2>5. h \in [Dom -> Nat]
    BY <1>0, <2>3, <2>4
  <2>6. h[0] = 0
    BY <1>0, <2>2, <2>3, <2>4
  <2>7. ASSUME NEW i \in Ids, i < m PROVE h[i + 1] = h[i] + size[i]
    <3>1. i \in Dom /\ i + 1 \in Dom /\ i # m
      BY <1>0, <2>3, <2>7 DEF Ids
    <3>2. CASE i = m - 1
      BY <3>1, <3>2, <2>3, <2>4, <1>0
    <3>3. CASE i # m - 1
      <4>1. i < m - 1 /\ i + 1 # m
        BY <3>1, <3>3, <2>3, <2>7, <1>0
      <4> QED BY <4>1, <3>1, <2>3, <2>4, <1>0
    <3> QED BY <3>2, <3>3
  <2>8. UpTo(m, h)
    BY <2>6, <2>7
  <2> QED BY <2>1, <2>5, <2>8
<1>2. PICK g \in [Dom -> Nat] : UpTo(ChannelMax, g)
  BY <1>0, <1>1
<1>3. \A n \in Ids : g[n + 1] = g[n] + size[n]
  BY <1>0, <1>2 DEF Ids
<1> DEFINE Def(f) == [n \in Dom |-> IF n = 0 THEN 0 ELSE f[n - 1] + size[n - 1]]
<1>4. g = Def(g)
  <2>1. ASSUME NEW n \in Dom PROVE g[n] = Def(g)[n]
    <3>1. CASE n = 0
      BY <3>1, <1>2
    <3>2. CASE n # 0
      <4>1. n - 1 \in Ids /\ (n - 1) + 1 = n
        BY <3>2, <1>0 DEF Ids
      <4> QED BY <4>1, <3>2, <1>3
    <3> QED BY <3>1, <3>2
  <2> QED BY <2>1, <1>2
<1> DEFINE f == Sums(size)
<1>5. f = Def(f)
  BY <1>4 DEF Sums
<1> HIDE DEF f
<1>6. f = g
  <2> DEFINE Bad == {n \in Dom : f[n] # g[n]}
             m == Min(Bad)
  <2> SUFFICES ASSUME Bad # {} PROVE FALSE
    BY <1>2, <1>5
  <2>1. m \in Bad /\ \A i \in Bad : m <= i
    BY LeastNumber, <1>0
  <2> HIDE DEF m
  <2>2. m \in Dom /\ f[m] # g[m]
    BY <2>1
  <2>3. m # 0
    BY <2>2, <1>2, <1>5
  <2>4. m - 1 \in Dom /\ m - 1 < m /\ m - 1 \notin Bad
    BY <2>1, <2>2, <2>3, <1>0
  <2>5. f[m - 1] = g[m - 1]
    BY <2>4
  <2>6. f[m] = f[m - 1] + size[m - 1] /\ g[m] = g[m - 1] + size[m - 1]
    BY <2>2, <2>3, <1>4, <1>5
  <2> QED BY <2>2, <2>5, <2>6
<1> QED BY <1>2, <1>3, <1>6 DEF f

\* The offsets grow: a channel ends before the next one starts and before the
\* end of the area.
LEMMA SumsGrow ==
  ASSUME NEW size \in [Ids -> Nat], NEW i \in 0 .. ChannelMax, NEW j \in 0 .. ChannelMax,
         i <= j
  PROVE  Sums(size)[i] <= Sums(size)[j]
<1> DEFINE f == Sums(size)
           Bad == {n \in 0 .. ChannelMax : i <= n /\ ~(f[i] <= f[n])}
           m == Min(Bad)
<1>0. ChannelMax \in Nat
  BY ConstantFacts
<1>1. /\ f \in [0 .. ChannelMax -> Nat]
      /\ \A n \in Ids : f[n + 1] = f[n] + size[n]
  BY SumsFacts
<1> HIDE DEF f
<1> SUFFICES ASSUME Bad # {} PROVE FALSE
  BY DEF f
<1>2. m \in Bad /\ \A n \in Bad : m <= n
  BY LeastNumber, <1>0
<1> HIDE DEF m
<1>3. m \in 0 .. ChannelMax /\ i <= m /\ ~(f[i] <= f[m]) /\ m # i
  BY <1>0, <1>1, <1>2
<1>4. m - 1 \in Ids /\ m - 1 \in 0 .. ChannelMax /\ i <= m - 1 /\ (m - 1) + 1 = m
  BY <1>0, <1>3 DEF Ids
<1>5. f[i] <= f[m - 1]
  BY <1>0, <1>2, <1>3, <1>4
<1>6. f[m] = f[m - 1] + size[m - 1]
  BY <1>1, <1>4
<1>7. f[i] \in Nat /\ f[m] \in Nat /\ f[m - 1] \in Nat /\ size[m - 1] \in Nat
  BY <1>1, <1>3, <1>4
<1> QED BY <1>3, <1>5, <1>6, <1>7

LEMMA SumsLayout ==
  ASSUME NEW size \in [Ids -> Nat], NEW i \in Ids
  PROVE  /\ Sums(size)[i] + size[i] <= Sums(size)[ChannelMax]
         /\ \A j \in Ids : i < j => Sums(size)[i] + size[i] <= Sums(size)[j]
         /\ Sums(size)[ChannelMax] \in Nat
         /\ Sums(size)[i] \in Nat
<1>1. /\ i \in 0 .. ChannelMax /\ i + 1 \in 0 .. ChannelMax /\ ChannelMax \in 0 .. ChannelMax
      /\ i + 1 <= ChannelMax
      /\ \A j \in Ids : j \in 0 .. ChannelMax /\ (i < j => i + 1 <= j)
  BY ConstantFacts DEF Ids
<1>2. Sums(size)[i + 1] = Sums(size)[i] + size[i]
  BY SumsFacts
<1> QED BY <1>1, <1>2, SumsGrow, SumsFacts

\* A non-empty channel makes a non-empty area.
LEMMA SumsPositive ==
  ASSUME NEW size \in [Ids -> Nat], NEW i \in Ids, size[i] > 0
  PROVE  Sums(size)[ChannelMax] \in Nat /\ Sums(size)[ChannelMax] # 0
BY SumsLayout

-----------------------------------------------------------------------------
(* Lookups                                                                   *)

LEMMA ScanFacts ==
  ASSUME NEW k \in Keys, Scan(k) # {}
  PROVE  Min(Scan(k)) \in Scan(k)
BY LeastNumber, ConstantFacts DEF Scan

\* What a lookup returns.
LEMMA LookupFacts ==
  ASSUME TypeOK, NEW p \in Procs, NEW k \in Keys
  PROVE  /\ get_pdu_channel(p, k) \in Ids \cup {NoId}
         /\ get_pdu_channel(p, k) = cache[p][k] \/ get_pdu_channel(p, k) \in Scan(k)
         /\ get_pdu_channel(p, k) = NoId => cache[p][k] = NoId /\ Scan(k) = {}
<1>1. cache[p][k] \in Ids \cup {NoId}
  BY DEF TypeOK
<1>2. Scan(k) \subseteq Ids /\ NoId \notin Ids
  BY ConstantFacts DEF Scan
<1>3. CASE cache[p][k] # NoId
  BY <1>1, <1>3 DEF get_pdu_channel
<1>4. CASE cache[p][k] = NoId /\ Scan(k) # {}
  BY <1>2, <1>4, ScanFacts DEF get_pdu_channel
<1>5. CASE cache[p][k] = NoId /\ Scan(k) = {}
  BY <1>5 DEF get_pdu_channel
<1> QED BY <1>3, <1>4, <1>5

LEMMA RebuildFacts ==
  ASSUME TypeOK, NEW p \in Procs
  PROVE  /\ rebuild_pdu_channel_index(p) \in [Keys -> Ids \cup {NoId}]
         /\ \A k \in Keys : \/ rebuild_pdu_channel_index(p)[k] \in Scan(k)
                            \/ rebuild_pdu_channel_index(p)[k] = NoId
<1>1. \A k \in Keys : Scan(k) \subseteq Ids
  BY DEF Scan
<1> QED BY <1>1, ScanFacts DEF rebuild_pdu_channel_index

-----------------------------------------------------------------------------
(* The types                                                                 *)

LEMMA SizesTyped ==
  ASSUME TypeOK
  PROVE  Sizes \in [Ids -> Nat] /\ \A i \in Ids : Sizes[i] = channel[i].size
BY DEF TypeOK, Sizes, Entry

LEMMA TotalTyped ==
  ASSUME TypeOK
  PROVE  pdu_total_size \in Nat /\ \A i \in Ids : SizeBelow(i) \in Nat
<1>1. 0 \in Ids
  BY ConstantFacts DEF Ids
<1> QED BY <1>1, SizesTyped, SumsLayout DEF pdu_total_size, SizeBelow

LEMMA LocalTyped ==
  /\ Idle \in Local
  /\ Idle.pc = "idle"
  /\ \A k \in Keys : [Idle EXCEPT !.pc = "l_lock", !.key = k] \in Local
  /\ \A i \in Direct : [Idle EXCEPT !.pc = "d_lock", !.id = i] \in Local
  /\ \A n \in Nat, pc \in {"r_unlock", "c_area"} :
       [Idle EXCEPT !.pc = pc, !.total = n] \in Local
  /\ \A k \in Keys, i \in Ids, pc \in {"write", "w_load"} :
       [Idle EXCEPT !.pc = pc, !.key = k, !.id = i] \in Local
<1>0. 0 \in Ids /\ Direct \subseteq Ids
  BY ConstantFacts DEF Ids
<1>1. Idle \in Local /\ Idle.pc = "idle"
  BY <1>0 DEF Idle, Local
<1>2. \A k \in Keys : [Idle EXCEPT !.pc = "l_lock", !.key = k] \in Local
  BY <1>1 DEF Local
<1>3. \A i \in Direct : [Idle EXCEPT !.pc = "d_lock", !.id = i] \in Local
  BY <1>0, <1>1 DEF Local
<1>4. \A n \in Nat, pc \in {"r_unlock", "c_area"} :
        [Idle EXCEPT !.pc = pc, !.total = n] \in Local
  <2> SUFFICES ASSUME NEW n \in Nat, NEW pc \in {"r_unlock", "c_area"}
               PROVE  [Idle EXCEPT !.pc = pc, !.total = n] \in Local
    OBVIOUS
  <2> QED BY <1>1 DEF Local
<1>5. \A k \in Keys, i \in Ids, pc \in {"write", "w_load"} :
        [Idle EXCEPT !.pc = pc, !.key = k, !.id = i] \in Local
  <2> SUFFICES ASSUME NEW k \in Keys, NEW i \in Ids, NEW pc \in {"write", "w_load"}
               PROVE  [Idle EXCEPT !.pc = pc, !.key = k, !.id = i] \in Local
    OBVIOUS
  <2> QED BY <1>1 DEF Local
<1> QED BY <1>1, <1>2, <1>3, <1>4, <1>5

\* A write to a field of an entry.
LEMMA EntryTyped ==
  ASSUME channel \in [Ids -> Entry], NEW i
  PROVE  /\ \A n \in Nat : [channel EXCEPT ![i].size = n] \in [Ids -> Entry]
         /\ \A k \in Keys \cup {NoKey} : [channel EXCEPT ![i].key = k] \in [Ids -> Entry]
<1>1. CASE i \in Ids
  <2>1. channel[i] \in Entry
    BY <1>1
  <2>2. /\ \A n \in Nat : [channel[i] EXCEPT !.size = n] \in Entry
        /\ \A k \in Keys \cup {NoKey} : [channel[i] EXCEPT !.key = k] \in Entry
    BY <2>1 DEF Entry
  <2> QED BY <2>2
<1>2. CASE i \notin Ids
  BY <1>2
<1> QED BY <1>1, <1>2

\* A step that only moves the program point.
LEMMA GotoTyped ==
  ASSUME TypeOK, NEW p \in Procs, NEW pc,
         [proc[p] EXCEPT !.pc = pc] \in Local, Goto(p, pc)
  PROVE  proc' \in [Procs -> Local]
BY DEF TypeOK, Goto

LEMMA PcTyped ==
  ASSUME TypeOK, NEW p \in Procs,
         NEW pc \in {"l_find", "l_size", "l_load", "d_size", "unlock", "c_num",
                     "c_offset", "c_attach", "r_unlock", "load", "write", "crashed"}
  PROVE  [proc[p] EXCEPT !.pc = pc] \in Local
<1>1. proc[p] \in Local
  BY DEF TypeOK
<1> QED BY <1>1 DEF Local

LEMMA ReturnTyped ==
  ASSUME TypeOK, NEW p \in Procs, Return(p)
  PROVE  proc' \in [Procs -> Local]
BY LocalTyped DEF TypeOK, Return

LEMMA DeclareTypes ==
  ASSUME TypeOK, Places, EntryInWork, NEW p \in Procs,
         LChannelLock(p) \/ LChannelFind(p) \/ LChannelName(p) \/ LChannelSize(p)
           \/ DirectLock(p) \/ DirectSize(p) \/ CountLoad(p) \/ unlock_channel_table(p)
  PROVE  TypeOK'
<1>0. proc[p] \in Local
  BY DEF TypeOK
<1>1. CASE LChannelLock(p)
  <2>1. proc' \in [Procs -> Local]
    BY <1>1, GotoTyped, PcTyped DEF LChannelLock, lock_channel_table
  <2> QED BY <1>1, <2>1 DEF TypeOK, LChannelLock, lock_channel_table, TableOnly, AreaUnchanged
<1>2. CASE LChannelFind(p)
  <2> DEFINE k == proc[p].key
             found == get_pdu_channel(p, k)
  <2>1. k \in Keys
    BY <1>2 DEF LChannelFind, Places, At
  <2>2. found \in Ids \cup {NoId}
    BY <2>1, LookupFacts
  <2> HIDE DEF found
  <2>3. cache' \in [Procs -> [Keys -> Ids \cup {NoId}]]
    BY <1>2, <2>1, <2>2 DEF LChannelFind, TypeOK, found
  <2>4. channel_num \in Ids \cup {ChannelMax}
    BY ConstantFacts DEF TypeOK, Ids
  <2>5. PICK b \in BOOLEAN, pc \in {"unlock", "l_name"} :
          proc' = [proc EXCEPT ![p].id = channel_num, ![p].answer = b, ![p].pc = pc]
    <3> DEFINE full == channel_num >= ChannelMax
               taken == ~full /\ channel[channel_num].size # 0
    <3>1. proc' = [proc EXCEPT ![p].id = channel_num,
                               ![p].answer = found # NoId \/ ~full,
                               ![p].pc = IF found # NoId \/ full \/ taken
                                         THEN "unlock" ELSE "l_name"]
      BY <1>2 DEF LChannelFind, found
    <3> HIDE DEF full, taken
    <3> QED BY <3>1
  <2>6. proc' \in [Procs -> Local]
    BY <1>0, <2>4, <2>5 DEF TypeOK, Local
  <2> QED BY <1>2, <2>3, <2>6 DEF TypeOK, LChannelFind, TableOnly, AreaUnchanged
<1>3. CASE LChannelName(p)
  <2>1. proc' \in [Procs -> Local]
    BY <1>3, GotoTyped, PcTyped DEF LChannelName
  <2>2. proc[p].key \in Keys \cup {NoKey}
    BY <1>0 DEF Local
  <2>3. channel' \in [Ids -> Entry]
    BY <1>3, <2>2, EntryTyped DEF LChannelName, TypeOK
  <2> QED BY <1>3, <2>1, <2>3 DEF TypeOK, LChannelName, TableOnly, AreaUnchanged
<1>4. CASE LChannelSize(p)
  <2>1. proc' \in [Procs -> Local]
    BY <1>4, GotoTyped, PcTyped DEF LChannelSize
  <2>2. proc[p].key \in Keys
    BY <1>4 DEF LChannelSize, Places, At, Naming
  <2>3. SizeOf[proc[p].key] \in Nat
    BY <2>2, ConstantFacts
  <2>4. channel' \in [Ids -> Entry]
    BY <2>3, <1>4, EntryTyped DEF LChannelSize, TypeOK
  <2>5. proc[p].id \in Ids
    BY <1>4, ConstantFacts DEF LChannelSize, EntryInWork, Naming, At, TypeOK, Ids
  <2> DEFINE v == IF cache[p][proc[p].key] = NoId THEN proc[p].id
                                                  ELSE cache[p][proc[p].key]
  <2>6. v \in Ids \cup {NoId}
    BY <2>2, <2>5 DEF TypeOK
  <2>7. cache' = [cache EXCEPT ![p][proc[p].key] = v]
    BY <1>4, <2>2 DEF LChannelSize, TypeOK
  <2> HIDE DEF v
  <2>8. cache' \in [Procs -> [Keys -> Ids \cup {NoId}]]
    BY <2>2, <2>6, <2>7 DEF TypeOK
  <2> QED BY <1>4, <2>1, <2>4, <2>8 DEF TypeOK, LChannelSize, TableOnly, AreaUnchanged
<1>5. CASE DirectLock(p)
  <2>1. proc' \in [Procs -> Local]
    BY <1>5, GotoTyped, PcTyped DEF DirectLock, lock_channel_table
  <2> QED BY <1>5, <2>1 DEF TypeOK, DirectLock, lock_channel_table, TableOnly, AreaUnchanged
<1>6. CASE DirectSize(p)
  <2>1. CASE channel[proc[p].id].size = 0
    <3>1. channel' = [channel EXCEPT ![proc[p].id].size = 1]
      BY <1>6, <2>1 DEF DirectSize
    <3>2. channel' \in [Ids -> Entry]
      BY <3>1, EntryTyped DEF TypeOK
    <3>3. PICK b \in BOOLEAN : proc' = [proc EXCEPT ![p].pc = "d_load", ![p].answer = b]
      BY <1>6, <2>1 DEF DirectSize
    <3>4. proc' \in [Procs -> Local]
      BY <1>0, <3>3 DEF TypeOK, Local
    <3> QED BY <1>6, <3>2, <3>4 DEF TypeOK, DirectSize, TableOnly, AreaUnchanged
  <2>2. CASE channel[proc[p].id].size # 0
    <3>1. proc' \in [Procs -> Local]
      BY <1>6, <2>2, GotoTyped, PcTyped DEF DirectSize
    <3> QED BY <1>6, <2>2, <3>1 DEF TypeOK, DirectSize, TableOnly, AreaUnchanged
  <2> QED BY <2>1, <2>2
<1>7. CASE CountLoad(p)
  <2>1. PICK pc \in {"l_store", "d_store"} :
          proc' = [proc EXCEPT ![p].num = channel_num, ![p].pc = pc]
    BY <1>7 DEF CountLoad
  <2>2. channel_num \in Nat
    BY ConstantFacts DEF TypeOK
  <2>3. proc' \in [Procs -> Local]
    BY <1>0, <2>1, <2>2 DEF TypeOK, Local
  <2> QED BY <1>7, <2>3 DEF TypeOK, CountLoad, TableOnly, AreaUnchanged
<1>8. CASE unlock_channel_table(p)
  <2>1. proc' \in [Procs -> Local]
    BY <1>8, ReturnTyped DEF unlock_channel_table
  <2> DEFINE e == IF proc[p].key # NoKey THEN proc[p].key ELSE proc[p].id
  <2>2. PICK r \in {"true", "false"} : told' = [told EXCEPT ![p][e] = r]
    <3>1. CASE proc[p].answer
      <4>1. told' = [told EXCEPT ![p][e] = "true"]
        BY <1>8, <3>1 DEF unlock_channel_table
      <4> QED BY <4>1
    <3>2. CASE ~proc[p].answer
      <4>1. told' = [told EXCEPT ![p][e] = "false"]
        BY <1>8, <3>2 DEF unlock_channel_table
      <4> QED BY <4>1
    <3> QED BY <3>1, <3>2
  <2> HIDE DEF e
  <2>3. told' \in [Assets -> [Decls -> {"unasked", "asked", "true", "false"}]]
    BY <2>2 DEF TypeOK
  <2> QED BY <1>8, <2>1, <2>3 DEF TypeOK, unlock_channel_table
<1> QED BY <1>1, <1>2, <1>3, <1>4, <1>5, <1>6, <1>7, <1>8

\* channel_num never passes the end of the table: it counts entries.
LEMMA StoreTypes ==
  ASSUME TypeOK, EntryInWork, Counted, NEW p \in Procs, CountStore(p)
  PROVE  TypeOK'
<1>1. proc' \in [Procs -> Local]
  BY GotoTyped, PcTyped DEF CountStore
<1>2. channel_num' = channel_num + 1
  BY DEF CountStore, EntryInWork, At
<1>3. Cardinality(Sized) = channel_num + 1
  BY DEF Counted, Counting, CountStore, At
<1>4. Cardinality(Sized) <= ChannelMax
  BY ConstantFacts, FS_Subset DEF Sized
<1>5. channel_num' \in 0 .. ChannelMax
  BY <1>2, <1>3, <1>4, ConstantFacts DEF TypeOK
<1> QED BY <1>1, <1>5 DEF TypeOK, CountStore, TableOnly, AreaUnchanged

LEMMA CallTypes ==
  ASSUME TypeOK, NEW a \in Assets, NEW d,
         (d \in Keys /\ LChannelCall(a, d)) \/ (d \in Direct /\ DirectCall(a, d))
  PROVE  TypeOK'
<1>1. a \in Procs /\ d \in Decls
  BY ConstantFacts DEF Decls, LChannelCall, DirectCall
<1>2. told' = [told EXCEPT ![a][d] = "asked"]
  BY DEF LChannelCall, DirectCall, MayDeclare
<1>3. told' \in [Assets -> [Decls -> {"unasked", "asked", "true", "false"}]]
  BY <1>1, <1>2 DEF TypeOK
<1>4. proc' \in [Procs -> Local]
  BY <1>1, LocalTyped DEF TypeOK, LChannelCall, DirectCall
<1> QED BY <1>3, <1>4 DEF TypeOK, LChannelCall, DirectCall, AreaUnchanged

LEMMA AreaTypes ==
  ASSUME TypeOK, IsFiniteSet(sim.members), NEW p \in Procs,
         CreateCall(p) \/ CreateArea(p) \/ CreateNum(p) \/ CreateOffsets(p)
           \/ CreateAttach(p) \/ release_pdu_init_lock(p) \/ Reset(p)
  PROVE  TypeOK'
<1>0. Cardinality(sim.members) \in Nat
  BY FS_CardinalityType
<1>1. CASE CreateCall(p)
  <2>1. PICK pc \in {"r_unlock", "c_area"} :
          proc' = [proc EXCEPT ![p] = [Idle EXCEPT !.pc = pc, !.total = pdu_total_size]]
    <3>1. CASE pdu[p]
      BY <1>1, <3>1 DEF CreateCall
    <3>2. CASE ~pdu[p]
      BY <1>1, <3>2 DEF CreateCall
    <3> QED BY <3>1, <3>2
  <2>2. proc' \in [Procs -> Local]
    BY <2>1, TotalTyped, LocalTyped DEF TypeOK
  <2>3. sim' \in [state : {"Stopped", "Runnable", "Running"},
                  members : SUBSET Assets, answered : SUBSET Assets, starts : Nat]
    BY <1>1 DEF CreateCall, TypeOK
  <2>4. asset_num' \in Nat
    BY <1>0, <1>1 DEF CreateCall, TypeOK
  <2> QED BY <1>1, <2>2, <2>3, <2>4 DEF TypeOK, CreateCall, TakeInitLock
<1>2. CASE CreateArea(p)
  <2>1. proc' \in [Procs -> Local]
    BY <1>2, GotoTyped, PcTyped DEF CreateArea
  <2>2. proc[p] \in Local
    BY DEF TypeOK
  <2>3. area' \in Nat
    BY <1>2, <2>2 DEF CreateArea, Local
  <2> QED BY <1>2, <2>1, <2>3 DEF TypeOK, CreateArea
<1>3. CASE CreateNum(p)
  <2>1. proc' \in [Procs -> Local]
    BY <1>3, GotoTyped, PcTyped DEF CreateNum
  <2> QED BY <1>0, <1>3, <2>1 DEF TypeOK, CreateNum
<1>4. CASE CreateOffsets(p)
  <2>1. proc' \in [Procs -> Local]
    BY <1>4, GotoTyped, PcTyped DEF CreateOffsets
  <2>2. ASSUME NEW i \in Ids
        PROVE  [channel[i] EXCEPT !.offset = SizeBelow(i)] \in Entry
    <3>1. channel[i] \in Entry /\ SizeBelow(i) \in Nat
      BY TotalTyped DEF TypeOK
    <3> QED BY <3>1 DEF Entry
  <2>3. channel' \in [Ids -> Entry]
    BY <1>4, <2>2 DEF CreateOffsets
  <2> QED BY <1>4, <2>1, <2>3 DEF TypeOK, CreateOffsets
<1>5. CASE CreateAttach(p)
  <2>1. proc' \in [Procs -> Local]
    BY <1>5, GotoTyped, PcTyped DEF CreateAttach
  <2> QED BY <1>5, <2>1, RebuildFacts DEF TypeOK, CreateAttach
<1>6. CASE release_pdu_init_lock(p)
  <2>1. proc' \in [Procs -> Local]
    BY <1>6, ReturnTyped DEF release_pdu_init_lock
  <2> QED BY <1>6, <2>1 DEF TypeOK, release_pdu_init_lock
<1>7. CASE Reset(p)
  <2>1. proc' \in [Procs -> Local]
    BY <1>7, GotoTyped, PcTyped DEF Reset
  <2> QED BY <1>7, <2>1, RebuildFacts DEF TypeOK, Reset, TakeInitLock
<1> QED BY <1>1, <1>2, <1>3, <1>4, <1>5, <1>6, <1>7

LEMMA UseTypes ==
  ASSUME TypeOK, NEW p \in Procs,
         \/ IsPduCreated(p) \/ IsPduCreatedLoad(p) \/ WriteLoad(p) \/ Write(p)
         \/ \E k \in Keys : Lookup(p, k) \/ WriteCall(p, k)
  PROVE  TypeOK'
<1>1. CASE IsPduCreated(p)
  <2>1. proc' \in [Procs -> Local]
    BY <1>1, GotoTyped, PcTyped DEF IsPduCreated
  <2> QED BY <1>1, <2>1 DEF TypeOK, IsPduCreated
<1>2. ASSUME IsPduCreatedLoad(p) \/ WriteLoad(p)
      PROVE  TypeOK'
  <2>1. proc' \in [Procs -> Local]
    BY <1>2, GotoTyped, PcTyped, ReturnTyped DEF IsPduCreatedLoad, WriteLoad, load
  <2>2. \/ cache' = cache
        \/ cache' = [cache EXCEPT ![p] = rebuild_pdu_channel_index(p)]
    <3>1. cache' = [cache EXCEPT ![p] = IF ~pdu[p] /\ Loadable
                                        THEN rebuild_pdu_channel_index(p) ELSE cache[p]]
      BY <1>2 DEF IsPduCreatedLoad, WriteLoad, load
    <3>2. CASE ~pdu[p] /\ Loadable
      BY <3>1, <3>2
    <3>3. CASE ~(~pdu[p] /\ Loadable)
      <4>1. cache' = [cache EXCEPT ![p] = cache[p]]
        BY <3>1, <3>3
      <4> QED BY <4>1 DEF TypeOK
    <3> QED BY <3>2, <3>3
  <2>3. cache' \in [Procs -> [Keys -> Ids \cup {NoId}]]
    BY <2>2, RebuildFacts DEF TypeOK
  <2>4. pdu' = [pdu EXCEPT ![p] = pdu[p] \/ Loadable]
    BY <1>2 DEF IsPduCreatedLoad, WriteLoad, load
  <2>5. pdu' \in [Procs -> BOOLEAN]
    <3> DEFINE b == pdu[p] \/ Loadable
    <3>1. b \in BOOLEAN /\ pdu' = [pdu EXCEPT ![p] = b]
      BY <2>4
    <3> HIDE DEF b
    <3> QED BY <3>1 DEF TypeOK
  <2> QED BY <1>2, <2>1, <2>3, <2>5 DEF TypeOK, IsPduCreatedLoad, WriteLoad
<1>3. CASE Write(p)
  <2>1. proc' \in [Procs -> Local]
    BY <1>3, GotoTyped, PcTyped, ReturnTyped DEF Write
  <2> QED BY <1>3, <2>1 DEF TypeOK, Write
<1>4. ASSUME NEW k \in Keys, Lookup(p, k)
      PROVE  TypeOK'
  <2>1. cache' \in [Procs -> [Keys -> Ids \cup {NoId}]]
    BY <1>4, LookupFacts DEF TypeOK, Lookup
  <2> QED BY <1>4, <2>1 DEF TypeOK, Lookup
<1>5. ASSUME NEW k \in Keys, WriteCall(p, k)
      PROVE  TypeOK'
  <2> DEFINE found == get_pdu_channel(p, k)
  <2>1. found \in Ids
    BY <1>5, LookupFacts DEF WriteCall
  <2>2. PICK pc \in {"write", "w_load"} :
          proc' = [proc EXCEPT ![p] = [Idle EXCEPT !.pc = pc, !.key = k, !.id = found]]
    <3>1. CASE pdu[p]
      BY <1>5, <3>1 DEF WriteCall
    <3>2. CASE ~pdu[p]
      BY <1>5, <3>2 DEF WriteCall
    <3> QED BY <3>1, <3>2
  <2>3. cache' = [cache EXCEPT ![p][k] = found]
    BY <1>5 DEF WriteCall
  <2> HIDE DEF found
  <2>4. proc' \in [Procs -> Local]
    BY <2>1, <2>2, LocalTyped DEF TypeOK
  <2>5. cache' \in [Procs -> [Keys -> Ids \cup {NoId}]]
    BY <2>1, <2>3 DEF TypeOK
  <2> QED BY <1>5, <2>4, <2>5 DEF TypeOK, WriteCall
<1> QED BY <1>1, <1>2, <1>3, <1>4, <1>5

LEMMA AroundTypes ==
  ASSUME TypeOK,
         \/ \E a \in Assets : Register(a) \/ StartFeedback(a) \/ DropDead(a)
         \/ \E p \in Procs : Die(p)
         \/ Start \/ Stop
  PROVE  TypeOK'
<1> DEFINE SimType == [state : {"Stopped", "Runnable", "Running"},
                       members : SUBSET Assets, answered : SUBSET Assets, starts : Nat]
<1>0. sim \in SimType
  BY DEF TypeOK
<1>1. ASSUME NEW a \in Assets, Register(a) \/ StartFeedback(a) \/ DropDead(a)
      PROVE  TypeOK'
  <2>1. CASE Register(a)
    <3>1. sim' \in SimType
      BY <1>0, <2>1 DEF Register
    <3> QED BY <2>1, <3>1 DEF TypeOK, Register, SimOnly
  <2>2. CASE StartFeedback(a)
    <3>1. sim' \in SimType
      BY <1>0, <2>2 DEF StartFeedback
    <3> QED BY <2>2, <3>1 DEF TypeOK, StartFeedback, SimOnly
  <2>3. CASE DropDead(a)
    <3>1. sim' \in SimType
      BY <1>0, <2>3 DEF DropDead
    <3> QED BY <2>3, <3>1 DEF TypeOK, DropDead, SimOnly
  <2> QED BY <1>1, <2>1, <2>2, <2>3
<1>2. ASSUME NEW p \in Procs, Die(p)
      PROVE  TypeOK'
  BY <1>2 DEF TypeOK, Die
<1>3. CASE Start
  <2>1. sim' = [sim EXCEPT !.state = "Runnable", !.answered = {}, !.starts = sim.starts + 1]
    BY <1>0, <1>3 DEF Start
  <2>2. sim.starts + 1 \in Nat
    BY <1>0
  <2>3. sim' \in SimType
    BY <1>0, <2>1, <2>2
  <2> QED BY <1>3, <2>3 DEF TypeOK, Start, SimOnly
<1>4. CASE Stop
  <2>1. sim' \in SimType
    BY <1>0, <1>4 DEF Stop
  <2> QED BY <1>4, <2>1 DEF TypeOK, Stop, SimOnly
<1> QED BY <1>1, <1>2, <1>3, <1>4

-----------------------------------------------------------------------------
(* Steps that leave the entries alone                                        *)

EntriesInv == EntryInWork /\ Counted /\ KeysBelow /\ CachesRight /\ AnswersRight

\* Process q neither fills an entry nor returns from a declaration.
Away(q) == proc[q].pc \notin {"l_name", "l_size", "l_load", "l_store",
                              "d_load", "d_store", "unlock"}

LEMMA CalmEntries ==
  ASSUME TypeOK, EntriesInv, channel_num' = channel_num,
         \A i \in Ids : channel'[i].key = channel[i].key /\ channel'[i].size = channel[i].size,
         \A q \in Procs : proc'[q] = proc[q] \/ (Away(q) /\ Away(q)'),
         \A q \in Procs, k \in Keys :
           cache'[q][k] = cache[q][k] \/ cache'[q][k] \in Scan(k) \/ cache'[q][k] = NoId,
         NoneDirect' => NoneDirect,
         \A a \in Assets, k \in Keys : told'[a][k] = "true" => told[a][k] = "true"
  PROVE  EntriesInv'
<1>1. Sized' = Sized
  BY DEF Sized
<1>2. ASSUME NEW k PROVE Scan(k)' = Scan(k)
  BY DEF Scan
<1>3. \A q \in Procs : ~Away(q) \/ ~Away(q)' => proc'[q] = proc[q]
  OBVIOUS
<1>4. ASSUME NEW p \in Procs, Naming(p) \/ Counting(p) \/ Naming(p)' \/ Counting(p)'
      PROVE  proc'[p] = proc[p]
  BY <1>3, <1>4 DEF Away, Naming, Counting
<1>5. EntryInWork'
  <2> SUFFICES ASSUME NEW p \in Procs, Naming(p)' \/ Counting(p)'
               PROVE  /\ Naming(p)' => proc'[p].id = channel_num' /\ channel_num' < ChannelMax
                      /\ proc'[p].pc = "l_name" => \A i \in Ids : channel'[i].key # proc'[p].key
                      /\ proc'[p].pc \in {"l_size", "l_load", "l_store"}
                           => channel'[proc'[p].id].key = proc'[p].key
                      /\ proc'[p].pc \in {"l_name", "l_size"} => channel'[proc'[p].id].size = 0
                      /\ proc'[p].pc \in {"l_load", "l_store"} => channel'[proc'[p].id].size > 0
                      /\ proc'[p].pc \in {"l_store", "d_store"} => proc'[p].num = channel_num'
    BY DEF EntryInWork, Naming, Counting
  <2>1. proc'[p] = proc[p]
    BY <1>4
  <2>2. Naming(p) => proc[p].id \in Ids
    BY ConstantFacts DEF EntriesInv, EntryInWork, TypeOK, Ids
  <2> QED BY <2>1, <2>2 DEF EntriesInv, EntryInWork, Naming
<1>6. Counted'
  <2>1. \A p \in Procs : Counting(p)' <=> Counting(p)
    BY <1>4 DEF Counting
  <2> QED BY <1>1, <2>1 DEF EntriesInv, Counted
<1>7. KeysBelow'
  <2>1. ASSUME NEW i \in Ids, channel'[i].key # NoKey
        PROVE  \/ i < channel_num' /\ channel'[i].size > 0
               \/ \E p \in Procs : proc'[p].pc \in {"l_size", "l_load", "l_store"}
                                     /\ proc'[p].id = i
    <3>1. CASE i < channel_num /\ channel[i].size > 0
      BY <3>1
    <3>2. ASSUME NEW p \in Procs, proc[p].pc \in {"l_size", "l_load", "l_store"}, proc[p].id = i
          PROVE  proc'[p] = proc[p]
      BY <1>4, <3>2 DEF Naming
    <3> QED BY <2>1, <3>1, <3>2 DEF EntriesInv, KeysBelow
  <2>2. \A i, j \in Ids : i # j /\ channel'[i].key = channel'[j].key => channel'[i].key = NoKey
    BY DEF EntriesInv, KeysBelow
  <2> QED BY <2>1, <2>2 DEF KeysBelow
<1>8. CachesRight'
  <2> SUFFICES ASSUME NEW p \in Procs, NEW k \in Keys, cache'[p][k] # NoId
               PROVE  /\ channel'[cache'[p][k]].key = k
                      /\ \/ cache'[p][k] < channel_num'
                         \/ proc'[p].pc \in {"l_load", "l_store"} /\ proc'[p].id = cache'[p][k]
    BY DEF CachesRight
  <2>1. CASE cache'[p][k] = cache[p][k]
    <3>1. cache[p][k] \in Ids
      BY <2>1 DEF TypeOK
    <3>2. proc[p].pc \in {"l_load", "l_store"} => proc'[p] = proc[p]
      BY <1>4 DEF Naming
    <3> QED BY <2>1, <3>1, <3>2 DEF EntriesInv, CachesRight
  <2>2. CASE cache'[p][k] \in Scan(k)
    BY <2>2 DEF Scan
  <2> QED BY <2>1, <2>2
<1>9. AnswersRight'
  <2> SUFFICES ASSUME NoneDirect' PROVE
        /\ \A i \in Ids : i >= channel_num' /\ channel'[i].size > 0
             => \E p \in Procs : proc'[p].pc \in {"l_load", "l_store"} /\ proc'[p].id = i
        /\ \A p \in Procs : proc'[p].pc = "unlock" /\ proc'[p].answer
             => Scan(proc[p].key)' # {}
        /\ \A a \in Assets, k \in Keys : told'[a][k] = "true" => Scan(k)' # {}
    BY DEF AnswersRight
  <2>0. NoneDirect
    OBVIOUS
  <2>1. ASSUME NEW i \in Ids, i >= channel_num', channel'[i].size > 0
        PROVE  \E p \in Procs : proc'[p].pc \in {"l_load", "l_store"} /\ proc'[p].id = i
    <3>1. PICK p \in Procs : proc[p].pc \in {"l_load", "l_store"} /\ proc[p].id = i
      BY <2>0, <2>1 DEF EntriesInv, AnswersRight
    <3>2. proc'[p] = proc[p]
      BY <1>4, <3>1 DEF Naming
    <3> QED BY <3>1, <3>2
  <2>2. ASSUME NEW p \in Procs, proc'[p].pc = "unlock", proc'[p].answer
        PROVE  Scan(proc[p].key)' # {}
    <3>1. proc'[p] = proc[p]
      BY <1>3, <2>2 DEF Away
    <3>2. Scan(proc[p].key) # {}
      BY <2>0, <2>2, <3>1 DEF EntriesInv, AnswersRight
    <3>3. \A k : Scan(k)' = Scan(k)
      BY <1>2
    <3> QED BY <3>1, <3>2, <3>3 DEF Scan
  <2>3. ASSUME NEW a \in Assets, NEW k \in Keys, told'[a][k] = "true"
        PROVE  Scan(k)' # {}
    BY <1>2, <2>0, <2>3 DEF EntriesInv, AnswersRight
  <2> QED BY <2>1, <2>2, <2>3
<1> QED BY <1>5, <1>6, <1>7, <1>8, <1>9 DEF EntriesInv

\* Steps outside of the declarations.
Outside ==
  /\ \A q \in Procs : \/ proc'[q] = proc[q]
                      \/ /\ ~Declaring(q) /\ ~Declaring(q)'
                         /\ proc'[q].pc \in {"c_area", "c_num", "c_offset", "c_attach", "r_unlock"}
                              => q = Conductor
  /\ \A i \in Ids : channel'[i].key = channel[i].key /\ channel'[i].size = channel[i].size
  /\ \A q \in Procs, k \in Keys :
       cache'[q][k] = cache[q][k] \/ cache'[q][k] \in Scan(k) \/ cache'[q][k] = NoId
  /\ UNCHANGED <<channel_num, told>>

LEMMA OutsideKeeps ==
  ASSUME TypeOK, Places, EntriesInv, Outside
  PROVE  Places' /\ EntriesInv'
<1>1. Places'
  <2> SUFFICES ASSUME NEW p \in Procs
               PROVE  /\ Declaring(p)' => p \in Assets
                      /\ proc'[p].pc = "l_lock" \/ proc'[p].pc = "l_find" \/ Naming(p)'
                           => proc'[p].key \in Keys
                      /\ proc'[p].pc \in {"d_lock", "d_size", "d_load", "d_store"}
                           => proc'[p].id \in Direct /\ proc'[p].key = NoKey
                                        /\ told'[p][proc'[p].id] # "unasked"
                      /\ proc'[p].pc = "unlock"
                           => \/ proc'[p].key \in Keys
                              \/ proc'[p].id \in Direct /\ proc'[p].key = NoKey
                                           /\ told'[p][proc'[p].id] # "unasked"
                      /\ proc'[p].pc \in {"c_area", "c_num", "c_offset", "c_attach", "r_unlock"}
                           => p = Conductor
    BY DEF Places
  <2>1. CASE proc'[p] = proc[p]
    BY <2>1 DEF Outside, Places, Declaring, InTable, Naming
  <2>2. CASE proc'[p] # proc[p]
    BY <2>2 DEF Outside, Declaring, InTable, Naming
  <2> QED BY <2>1, <2>2
<1>2. \A q \in Procs : proc'[q] = proc[q] \/ (Away(q) /\ Away(q)')
  BY DEF Outside, Declaring, InTable, Away
<1>3. NoneDirect' => NoneDirect
  BY DEF Outside, NoneDirect
<1>4. EntriesInv'
  BY <1>2, <1>3, CalmEntries DEF Outside
<1> QED BY <1>1, <1>4

LEMMA OutsideSpin ==
  ASSUME SpinLock, Outside, busy' = busy, sim'.starts = sim.starts, dead \subseteq dead'
  PROVE  SpinLock'
<1>1. \A q \in Procs : (InTable(q)' <=> InTable(q)) /\ (Declaring(q)' <=> Declaring(q))
  BY DEF Outside, Declaring, InTable
<1> QED BY <1>1 DEF SpinLock

DeclarePart == Places /\ SpinLock /\ EntriesInv

LEMMA UseDeclare ==
  ASSUME TypeOK, DeclarePart, NEW p \in Procs,
         \/ IsPduCreated(p) \/ IsPduCreatedLoad(p) \/ WriteLoad(p) \/ Write(p)
         \/ \E k \in Keys : Lookup(p, k) \/ WriteCall(p, k)
  PROVE  DeclarePart' /\ Outside
<1>1. UNCHANGED <<channel, channel_num, busy, sim, told, dead>>
  BY DEF IsPduCreated, IsPduCreatedLoad, WriteLoad, Write, Lookup, WriteCall
<1>2. \A q \in Procs, k \in Keys :
        cache'[q][k] = cache[q][k] \/ cache'[q][k] \in Scan(k) \/ cache'[q][k] = NoId
  <2>1. CASE IsPduCreated(p) \/ Write(p)
    BY <2>1 DEF IsPduCreated, Write
  <2>2. CASE IsPduCreatedLoad(p) \/ WriteLoad(p)
    <3>1. cache' = [cache EXCEPT ![p] = IF ~pdu[p] /\ Loadable
                                        THEN rebuild_pdu_channel_index(p) ELSE cache[p]]
      BY <2>2 DEF IsPduCreatedLoad, WriteLoad, load
    <3>2. \A k \in Keys : \/ cache'[p][k] = cache[p][k]
                          \/ cache'[p][k] = rebuild_pdu_channel_index(p)[k]
      BY <3>1 DEF TypeOK
    <3>3. \A q \in Procs : q # p => cache'[q] = cache[q]
      BY <3>1 DEF TypeOK
    <3> QED BY <3>2, <3>3, RebuildFacts
  <2>3. ASSUME NEW k \in Keys, Lookup(p, k) \/ WriteCall(p, k)
        PROVE  \A q \in Procs, l \in Keys :
                 cache'[q][l] = cache[q][l] \/ cache'[q][l] \in Scan(l) \/ cache'[q][l] = NoId
    <3>1. cache' = [cache EXCEPT ![p][k] = get_pdu_channel(p, k)]
      BY <2>3 DEF Lookup, WriteCall
    <3>2. /\ cache'[p][k] = get_pdu_channel(p, k)
          /\ \A q \in Procs, l \in Keys : q # p \/ l # k => cache'[q][l] = cache[q][l]
      BY <3>1 DEF TypeOK
    <3> QED BY <3>2, LookupFacts
  <2> QED BY <2>1, <2>2, <2>3
<1>3. /\ \A q \in Procs : q # p => proc'[q] = proc[q]
      /\ proc'[p] = proc[p] \/
         (~Declaring(p) /\ proc'[p].pc \in {"idle", "load", "w_load", "write", "crashed"})
  <2>1. CASE IsPduCreated(p)
    BY <2>1 DEF IsPduCreated, At, Goto, TypeOK, Local, Declaring, InTable
  <2>2. CASE IsPduCreatedLoad(p)
    BY <2>2, LocalTyped DEF IsPduCreatedLoad, load, At, Return, TypeOK, Declaring, InTable
  <2>3. CASE WriteLoad(p)
    BY <2>3 DEF WriteLoad, load, At, Goto, TypeOK, Local, Declaring, InTable
  <2>4. CASE Write(p)
    <3>1. CASE pdu[p]
      BY <2>4, <3>1, LocalTyped DEF Write, At, Return, TypeOK, Declaring, InTable
    <3>2. CASE ~pdu[p]
      BY <2>4, <3>2 DEF Write, At, Goto, TypeOK, Local, Declaring, InTable
    <3> QED BY <3>1, <3>2
  <2>5. ASSUME NEW k \in Keys, Lookup(p, k)
        PROVE  proc' = proc
    BY <2>5 DEF Lookup
  <2>6. ASSUME NEW k \in Keys, WriteCall(p, k)
        PROVE  /\ \A q \in Procs : q # p => proc'[q] = proc[q]
               /\ ~Declaring(p) /\ proc'[p].pc \in {"w_load", "write"}
    <3> DEFINE pc == IF pdu[p] THEN "write" ELSE "w_load"
               r == [Idle EXCEPT !.pc = pc, !.key = k, !.id = get_pdu_channel(p, k)]
    <3>1. proc' = [proc EXCEPT ![p] = r] /\ ~Declaring(p)
      BY <2>6 DEF WriteCall, At, Declaring, InTable
    <3>2. r.pc = pc /\ pc \in {"write", "w_load"}
      BY DEF Idle
    <3> HIDE DEF r, pc
    <3> QED BY <3>1, <3>2 DEF TypeOK
  <2> QED BY <2>1, <2>2, <2>3, <2>4, <2>5, <2>6
<1>4. Outside
  BY <1>1, <1>2, <1>3 DEF Outside, Declaring, InTable
<1> QED BY <1>1, <1>4, OutsideKeeps, OutsideSpin DEF DeclarePart

LEMMA AreaDeclare ==
  ASSUME TypeOK, DeclarePart, NEW p \in Procs,
         \/ p = Conductor /\ (CreateCall(p) \/ (Reset(p) /\ sim.starts > 0))
         \/ CreateArea(p) \/ CreateNum(p) \/ CreateOffsets(p) \/ CreateAttach(p)
         \/ release_pdu_init_lock(p)
  PROVE  DeclarePart' /\ Outside
<1>1. UNCHANGED <<channel_num, told, dead>> /\ sim'.starts = sim.starts
  BY DEF CreateCall, Reset, CreateArea, CreateNum, CreateOffsets, CreateAttach,
         release_pdu_init_lock, TypeOK
<1>2. \A i \in Ids : channel'[i].key = channel[i].key /\ channel'[i].size = channel[i].size
  <2>1. CASE CreateOffsets(p)
    BY <2>1 DEF CreateOffsets, TypeOK, Entry
  <2>2. CASE UNCHANGED channel
    BY <2>2
  <2> QED BY <2>1, <2>2 DEF CreateCall, Reset, CreateArea, CreateNum, CreateAttach,
                            release_pdu_init_lock
<1>3. \A q \in Procs, k \in Keys :
        cache'[q][k] = cache[q][k] \/ cache'[q][k] \in Scan(k) \/ cache'[q][k] = NoId
  <2>1. CASE CreateAttach(p) \/ Reset(p)
    <3>1. cache' = [cache EXCEPT ![p] = rebuild_pdu_channel_index(p)]
      BY <2>1 DEF CreateAttach, Reset
    <3>2. /\ cache'[p] = rebuild_pdu_channel_index(p)
          /\ \A q \in Procs : q # p => cache'[q] = cache[q]
      BY <3>1 DEF TypeOK
    <3> QED BY <3>2, RebuildFacts
  <2>2. CASE UNCHANGED cache
    BY <2>2
  <2> QED BY <2>1, <2>2 DEF CreateCall, CreateArea, CreateNum, CreateOffsets,
                            release_pdu_init_lock
<1>4. /\ \A q \in Procs : q # p => proc'[q] = proc[q]
      /\ ~Declaring(p)
      /\ proc'[p].pc \in {"c_area", "c_num", "c_offset", "c_attach", "r_unlock", "idle"}
      /\ proc'[p].pc \in {"c_area", "c_num", "c_offset", "c_attach", "r_unlock"}
           => p = Conductor
  <2>1. CASE p = Conductor /\ CreateCall(p)
    <3> DEFINE pc == IF pdu[p] THEN "r_unlock" ELSE "c_area"
               r == [Idle EXCEPT !.pc = pc, !.total = pdu_total_size]
    <3>1. proc' = [proc EXCEPT ![p] = r] /\ ~Declaring(p)
      BY <2>1 DEF CreateCall, At, Declaring, InTable
    <3>2. r.pc = pc /\ pc \in {"r_unlock", "c_area"}
      BY DEF Idle
    <3> HIDE DEF r, pc
    <3> QED BY <2>1, <3>1, <3>2 DEF TypeOK
  <2>2. CASE release_pdu_init_lock(p)
    BY <2>2, LocalTyped DEF release_pdu_init_lock, At, Return, TypeOK, Declaring, InTable
  <2>3. CASE p = Conductor /\ Reset(p)
    BY <2>3 DEF Reset, At, Goto, TypeOK, Local, Declaring, InTable
  <2>4. CASE CreateArea(p)
    BY <2>4 DEF CreateArea, At, Goto, TypeOK, Local, Declaring, InTable, DeclarePart, Places
  <2>5. CASE CreateNum(p)
    BY <2>5 DEF CreateNum, At, Goto, TypeOK, Local, Declaring, InTable, DeclarePart, Places
  <2>6. CASE CreateOffsets(p)
    BY <2>6 DEF CreateOffsets, At, Goto, TypeOK, Local, Declaring, InTable, DeclarePart, Places
  <2>7. CASE CreateAttach(p)
    BY <2>7 DEF CreateAttach, At, Goto, TypeOK, Local, Declaring, InTable, DeclarePart, Places
  <2> QED BY <2>1, <2>2, <2>3, <2>4, <2>5, <2>6, <2>7
<1>5. Outside
  BY <1>1, <1>2, <1>3, <1>4 DEF Outside, Declaring, InTable
<1>6. SpinLock'
  <2>1. CASE busy' = busy
    BY <1>1, <1>5, <2>1, OutsideSpin DEF DeclarePart
  <2>2. CASE Reset(p) /\ sim.starts > 0
    <3>1. \A q \in Procs : (InTable(q)' <=> InTable(q)) /\ (Declaring(q)' <=> Declaring(q))
      BY <1>5 DEF Outside, Declaring, InTable
    <3>2. busy' = FALSE /\ sim'.starts > 0
      BY <1>1, <2>2 DEF Reset
    <3> QED BY <1>1, <2>2, <3>1, <3>2 DEF DeclarePart, SpinLock, TypeOK
  <2> QED BY <2>1, <2>2 DEF CreateCall, CreateArea, CreateNum, CreateOffsets, CreateAttach,
                            release_pdu_init_lock
<1> QED BY <1>5, <1>6, OutsideKeeps DEF DeclarePart

LEMMA AroundDeclare ==
  ASSUME TypeOK, DeclarePart, InOrder,
         \/ \E a \in Assets : Register(a) \/ StartFeedback(a) \/ DropDead(a)
         \/ \E p \in Procs : Die(p)
         \/ Start \/ Stop
  PROVE  DeclarePart' /\ Outside
<1>1. /\ UNCHANGED <<proc, channel, channel_num, cache, told, busy>>
      /\ dead \subseteq dead'
  BY DEF Register, StartFeedback, DropDead, Die, Start, Stop, SimOnly
<1>2. Outside
  BY <1>1 DEF Outside
<1>3. SpinLock'
  <2>1. CASE Start
    <3>1. sim'.starts = sim.starts + 1 /\ dead' = dead
      BY <2>1 DEF Start, TypeOK, SimOnly
    <3>2. \A q \in Procs \ dead : ~Declaring(q)
      BY <2>1 DEF Start
    <3> QED BY <1>1, <3>1, <3>2 DEF DeclarePart, SpinLock, TypeOK, Declaring, InTable
  <2>2. CASE ~Start
    <3>1. sim'.starts = sim.starts
      BY <2>2 DEF Register, StartFeedback, DropDead, Die, Stop, TypeOK
    <3> QED BY <1>1, <1>2, <3>1, OutsideSpin DEF DeclarePart
  <2> QED BY <2>1, <2>2
<1> QED BY <1>2, <1>3, OutsideKeeps DEF DeclarePart

-----------------------------------------------------------------------------
(* Steps of a declaration                                                    *)

LEMMA CallDeclare ==
  ASSUME TypeOK, DeclarePart, InOrder, NEW a \in Assets, NEW d,
         (d \in Keys /\ LChannelCall(a, d)) \/ (d \in Direct /\ DirectCall(a, d))
  PROVE  DeclarePart'
<1>0. a \in Procs /\ d \in Decls
  BY ConstantFacts DEF Decls, LChannelCall, DirectCall
<1>1. UNCHANGED <<channel, channel_num, busy, cache, sim, dead>> /\ sim.starts = 0
  BY DEF LChannelCall, DirectCall, MayDeclare, AreaUnchanged
<1>2. /\ told[a][d] = "unasked" /\ told'[a][d] = "asked"
      /\ \A b \in Assets, e \in Decls : b # a \/ e # d => told'[b][e] = told[b][e]
  BY <1>0 DEF LChannelCall, DirectCall, MayDeclare, TypeOK
<1>3. /\ \A q \in Procs : q # a => proc'[q] = proc[q]
      /\ proc[a].pc = "idle"
      /\ \/ proc'[a].pc = "l_lock" /\ proc'[a].key \in Keys
         \/ proc'[a].pc = "d_lock" /\ proc'[a].key = NoKey /\ proc'[a].id \in Direct
                                   /\ proc'[a].id = d
  <2>1. CASE d \in Keys /\ LChannelCall(a, d)
    <3> DEFINE r == [Idle EXCEPT !.pc = "l_lock", !.key = d]
    <3>1. proc' = [proc EXCEPT ![a] = r] /\ proc[a].pc = "idle"
      BY <2>1 DEF LChannelCall, At
    <3>2. r.pc = "l_lock" /\ r.key = d
      BY DEF Idle
    <3> HIDE DEF r
    <3> QED BY <1>0, <2>1, <3>1, <3>2 DEF TypeOK
  <2>2. CASE d \in Direct /\ DirectCall(a, d)
    <3> DEFINE r == [Idle EXCEPT !.pc = "d_lock", !.id = d]
    <3>1. proc' = [proc EXCEPT ![a] = r] /\ proc[a].pc = "idle"
      BY <2>2 DEF DirectCall, At
    <3>2. r.pc = "d_lock" /\ r.key = NoKey /\ r.id = d
      BY DEF Idle
    <3> HIDE DEF r
    <3> QED BY <1>0, <2>2, <3>1, <3>2 DEF TypeOK
  <2> QED BY <2>1, <2>2
<1>4. NoneDirect' => NoneDirect
  BY <1>2 DEF NoneDirect, Decls
<1>5. \A b \in Assets, k \in Keys : told'[b][k] = "true" => told[b][k] = "true"
  BY <1>2 DEF Decls
<1>6. EntriesInv'
  <2>1. \A q \in Procs : proc'[q] = proc[q] \/ (Away(q) /\ Away(q)')
    BY <1>3 DEF Away
  <2> QED BY <1>1, <1>4, <1>5, <2>1, CalmEntries DEF DeclarePart
<1>7. SpinLock'
  BY <1>1, <1>3 DEF DeclarePart, SpinLock, InTable
<1>8. Places'
  <2>1. \A q \in Procs, i \in Direct : q \in Assets /\ told[q][i] # "unasked"
                                         => told'[q][i] # "unasked"
    BY <1>2 DEF Decls
  <2>2. ASSUME NEW p \in Procs, p # a
        PROVE  /\ Declaring(p)' => p \in Assets
               /\ proc'[p].pc = "l_lock" \/ proc'[p].pc = "l_find" \/ Naming(p)'
                    => proc'[p].key \in Keys
               /\ proc'[p].pc \in {"d_lock", "d_size", "d_load", "d_store"}
                    => proc'[p].id \in Direct /\ proc'[p].key = NoKey
                                 /\ told'[p][proc'[p].id] # "unasked"
               /\ proc'[p].pc = "unlock"
                    => \/ proc'[p].key \in Keys
                       \/ proc'[p].id \in Direct /\ proc'[p].key = NoKey
                                    /\ told'[p][proc'[p].id] # "unasked"
               /\ proc'[p].pc \in {"c_area", "c_num", "c_offset", "c_attach", "r_unlock"}
                    => p = Conductor
    BY <1>3, <2>1, <2>2 DEF DeclarePart, Places, Declaring, InTable, Naming
  <2> QED BY <1>0, <1>2, <1>3, <2>2 DEF Places, Declaring, InTable, Naming
<1> QED BY <1>6, <1>7, <1>8 DEF DeclarePart

\* A live process in a declaration: the first start is still to come, and it is
\* alone in the table.
LEMMA AloneInTable ==
  ASSUME TypeOK, Places, SpinLock, NEW p \in Procs, p \notin dead, Declaring(p)
  PROVE  /\ sim.starts = 0
         /\ p \in Assets
         /\ InTable(p) => busy /\ \A q \in Procs : q # p => ~InTable(q)
         /\ ~busy => \A q \in Procs : ~InTable(q)
<1>1. ~(sim.starts > 0)
  BY DEF SpinLock
<1>2. sim.starts \in Nat
  BY DEF TypeOK
<1>3. sim.starts = 0
  BY <1>1, <1>2
<1> QED BY <1>3 DEF SpinLock, Places

LEMMA LockDeclare ==
  ASSUME TypeOK, DeclarePart, NEW p \in Procs, LChannelLock(p) \/ DirectLock(p)
  PROVE  DeclarePart'
<1>1. UNCHANGED <<channel, channel_num, cache, sim, told, dead>> /\ ~busy /\ busy'
  BY DEF LChannelLock, DirectLock, lock_channel_table, TableOnly, AreaUnchanged
<1>2. /\ p \notin dead /\ Declaring(p)
      /\ \A q \in Procs : q # p => proc'[q] = proc[q]
      /\ proc'[p].key = proc[p].key /\ proc'[p].id = proc[p].id
      /\ \/ proc[p].pc = "l_lock" /\ proc'[p].pc = "l_find"
         \/ proc[p].pc = "d_lock" /\ proc'[p].pc = "d_size"
  BY DEF LChannelLock, DirectLock, lock_channel_table, At, Goto, TypeOK, Local, Declaring
<1>3. sim.starts = 0 /\ p \in Assets /\ \A q \in Procs : ~InTable(q)
  BY <1>1, <1>2, AloneInTable DEF DeclarePart
<1>4. EntriesInv'
  <2>1. \A q \in Procs : proc'[q] = proc[q] \/ (Away(q) /\ Away(q)')
    BY <1>2 DEF Away
  <2> QED BY <1>1, <2>1, CalmEntries DEF DeclarePart, NoneDirect
<1>5. SpinLock'
  BY <1>1, <1>2, <1>3 DEF SpinLock, InTable
<1>6. Places'
  BY <1>1, <1>2, <1>3 DEF DeclarePart, Places, Declaring, InTable, Naming
<1> QED BY <1>4, <1>5, <1>6 DEF DeclarePart

\* A step of the process in the table that stays there.
InsideStep(p) ==
  /\ p \notin dead /\ InTable(p) /\ InTable(p)'
  /\ \A q \in Procs : q # p => proc'[q] = proc[q]
  /\ proc'[p].key = proc[p].key
  /\ \/ /\ proc[p].key \in Keys
        /\ proc'[p].pc \in {"l_name", "l_size", "l_load", "l_store", "unlock"}
     \/ /\ proc[p].id \in Direct /\ proc[p].key = NoKey
        /\ told[p][proc[p].id] # "unasked"
        /\ proc'[p].id = proc[p].id
        /\ proc'[p].pc \in {"d_load", "d_store", "unlock"}
  /\ UNCHANGED <<busy, sim, told, dead>>

LEMMA InsideKeeps ==
  ASSUME TypeOK, Places, SpinLock, NEW p \in Procs, InsideStep(p)
  PROVE  Places' /\ SpinLock'
<1>1. p \in Assets /\ sim.starts = 0
  BY AloneInTable DEF InsideStep, Declaring
<1>2. \A q \in Procs : InTable(q)' <=> InTable(q)
  BY DEF InsideStep, InTable
<1>3. SpinLock'
  BY <1>1, <1>2 DEF SpinLock, InsideStep
<1>4. Places'
  BY <1>1 DEF Places, InsideStep, Declaring, InTable, Naming
<1> QED BY <1>3, <1>4

LEMMA NobodyElse ==
  ASSUME TypeOK, DeclarePart, NEW p \in Procs, p \notin dead, InTable(p)
  PROVE  /\ p \in Assets
         /\ \A q \in Procs : q # p => Away(q) /\ ~Naming(q) /\ ~Counting(q)
         /\ \A i \in Ids : channel[i].key # NoKey
              => \/ i < channel_num /\ channel[i].size > 0
                 \/ proc[p].pc \in {"l_size", "l_load", "l_store"} /\ proc[p].id = i
<1>1. p \in Assets /\ \A q \in Procs : q # p => ~InTable(q)
  BY AloneInTable DEF DeclarePart, Declaring
<1>2. \A q \in Procs : q # p => Away(q) /\ ~Naming(q) /\ ~Counting(q)
  BY <1>1 DEF InTable, Away, Naming, Counting
<1>3. \A q \in Procs : proc[q].pc \in {"l_size", "l_load", "l_store"} => q = p
  BY <1>1 DEF InTable
<1> QED BY <1>1, <1>2, <1>3 DEF DeclarePart, EntriesInv, KeysBelow

\* What create_lchannel decides under the lock.
LEMMA FindEffect ==
  ASSUME TypeOK, Places, NEW p \in Procs, LChannelFind(p)
  PROVE  LET k == proc[p].key
             found == get_pdu_channel(p, k)
         IN
         /\ p \notin dead /\ proc[p].pc = "l_find" /\ k \in Keys
         /\ \A q \in Procs : q # p => proc'[q] = proc[q]
         /\ proc'[p].key = k /\ proc'[p].id = channel_num
         /\ proc'[p].pc \in {"l_name", "unlock"}
         /\ proc'[p].pc = "l_name" => /\ found = NoId
                                      /\ channel_num < ChannelMax
                                      /\ channel[channel_num].size = 0
         /\ proc'[p].pc = "unlock" /\ proc'[p].answer
              => \/ found # NoId
                 \/ channel_num < ChannelMax /\ channel[channel_num].size # 0
         /\ cache'[p][k] = found
         /\ \A q \in Procs, l \in Keys : q # p \/ l # k => cache'[q][l] = cache[q][l]
         /\ UNCHANGED <<channel, channel_num, busy, sim, told, dead>>
<1> DEFINE k == proc[p].key
           found == get_pdu_channel(p, k)
           full == channel_num >= ChannelMax
           taken == ~full /\ channel[channel_num].size # 0
           pc == IF found # NoId \/ full \/ taken THEN "unlock" ELSE "l_name"
           b == found # NoId \/ ~full
<1>1. p \notin dead /\ proc[p].pc = "l_find" /\ k \in Keys
  BY DEF LChannelFind, At, Places
<1>2. proc' = [proc EXCEPT ![p].id = channel_num, ![p].answer = b, ![p].pc = pc]
  BY DEF LChannelFind
<1>3. cache' = [cache EXCEPT ![p][k] = found]
  BY DEF LChannelFind
<1>4. UNCHANGED <<channel, channel_num, busy, sim, told, dead>>
  BY DEF LChannelFind, TableOnly, AreaUnchanged
<1>5. pc \in {"l_name", "unlock"} /\ b \in BOOLEAN
  OBVIOUS
<1>6. channel_num \in Nat /\ ChannelMax \in Nat
  BY ConstantFacts DEF TypeOK
<1>7. pc = "l_name" => /\ found = NoId
                       /\ channel_num < ChannelMax
                       /\ channel[channel_num].size = 0
  BY <1>6
<1>8. pc = "unlock" /\ b
        => found # NoId \/ (channel_num < ChannelMax /\ channel[channel_num].size # 0)
  BY <1>6
<1> HIDE DEF found, pc, b
<1>9. /\ cache'[p][k] = found
      /\ \A q \in Procs, l \in Keys : q # p \/ l # k => cache'[q][l] = cache[q][l]
  BY <1>1, <1>3 DEF TypeOK
<1>10. /\ \A q \in Procs : q # p => proc'[q] = proc[q]
       /\ proc'[p].key = k /\ proc'[p].id = channel_num /\ proc'[p].pc = pc
       /\ proc'[p].answer = b
  BY <1>2, <1>5 DEF TypeOK, Local
<1>11. proc'[p].pc = "unlock" /\ proc'[p].answer
         => found # NoId \/ (channel_num < ChannelMax /\ channel[channel_num].size # 0)
  BY <1>8, <1>10
<1> QED BY <1>1, <1>4, <1>5, <1>7, <1>9, <1>10, <1>11 DEF found

LEMMA FindDeclare ==
  ASSUME TypeOK, DeclarePart, NEW p \in Procs, LChannelFind(p)
  PROVE  DeclarePart'
<1> DEFINE k == proc[p].key
           found == get_pdu_channel(p, k)
<1>1. /\ p \notin dead /\ proc[p].pc = "l_find" /\ k \in Keys
      /\ \A q \in Procs : q # p => proc'[q] = proc[q]
      /\ proc'[p].key = k /\ proc'[p].id = channel_num
      /\ proc'[p].pc \in {"l_name", "unlock"}
      /\ proc'[p].pc = "l_name" => /\ found = NoId
                                   /\ channel_num < ChannelMax
                                   /\ channel[channel_num].size = 0
      /\ proc'[p].pc = "unlock" /\ proc'[p].answer
           => \/ found # NoId
              \/ channel_num < ChannelMax /\ channel[channel_num].size # 0
      /\ cache'[p][k] = found
      /\ \A q \in Procs, l \in Keys : q # p \/ l # k => cache'[q][l] = cache[q][l]
      /\ UNCHANGED <<channel, channel_num, busy, sim, told, dead>>
  BY FindEffect DEF DeclarePart
<1>2. InTable(p)
  BY <1>1 DEF InTable
<1>3. /\ p \in Assets
      /\ \A q \in Procs : q # p => Away(q) /\ ~Naming(q) /\ ~Counting(q)
      /\ \A i \in Ids : channel[i].key # NoKey => i < channel_num /\ channel[i].size > 0
  BY <1>1, <1>2, NobodyElse
<1>4. /\ found \in Ids \cup {NoId}
      /\ found = cache[p][k] \/ found \in Scan(k)
      /\ found = NoId => Scan(k) = {}
  BY <1>1, LookupFacts
<1> HIDE DEF found
<1>5. Places' /\ SpinLock'
  <2>1. InsideStep(p)
    BY <1>1, <1>2 DEF InsideStep, InTable
  <2> QED BY <2>1, InsideKeeps DEF DeclarePart
<1>6. found # NoId => found \in Scan(k)
  <2>1. cache[p][k] # NoId => cache[p][k] \in Ids /\ cache[p][k] < channel_num
                                 /\ channel[cache[p][k]].key = k
    BY <1>1 DEF TypeOK, DeclarePart, EntriesInv, CachesRight
  <2> QED BY <1>4, <2>1 DEF Scan
<1>7. EntryInWork'
  <2>1. proc'[p].pc = "l_name" => \A i \in Ids : channel[i].key # k
    BY <1>1, <1>3, <1>4, ConstantFacts DEF Scan
  <2>2. \A q \in Procs : q # p => ~Naming(q)' /\ ~Counting(q)'
    BY <1>1, <1>3 DEF Naming, Counting
  <2> QED BY <1>1, <2>1, <2>2 DEF EntryInWork, Naming, Counting
<1>8. Counted'
  <2>1. \A q \in Procs : ~Counting(q) /\ ~Counting(q)'
    BY <1>1, <1>3 DEF Counting
  <2>2. Sized' = Sized
    BY <1>1 DEF Sized
  <2> QED BY <1>1, <2>1, <2>2 DEF Counted, DeclarePart, EntriesInv
<1>9. KeysBelow'
  BY <1>1, <1>3 DEF KeysBelow, DeclarePart, EntriesInv
<1>10. CachesRight'
  <2> SUFFICES ASSUME NEW q \in Procs, NEW l \in Keys, cache'[q][l] # NoId
               PROVE  /\ channel'[cache'[q][l]].key = l
                      /\ \/ cache'[q][l] < channel_num'
                         \/ proc'[q].pc \in {"l_load", "l_store"} /\ proc'[q].id = cache'[q][l]
    BY DEF CachesRight
  <2>1. CASE q = p /\ l = k
    BY <1>1, <1>6, <2>1 DEF Scan
  <2>2. CASE ~(q = p /\ l = k)
    <3>1. cache'[q][l] = cache[q][l]
      BY <1>1, <2>2
    <3> QED BY <1>1, <3>1 DEF DeclarePart, EntriesInv, CachesRight
  <2> QED BY <2>1, <2>2
<1>11. AnswersRight'
  <2>0. \A l : Scan(l)' = Scan(l)
    BY <1>1 DEF Scan
  <2> SUFFICES ASSUME NoneDirect' PROVE
        /\ \A i \in Ids : i >= channel_num' /\ channel'[i].size > 0
             => \E q \in Procs : proc'[q].pc \in {"l_load", "l_store"} /\ proc'[q].id = i
        /\ \A q \in Procs : proc'[q].pc = "unlock" /\ proc'[q].answer
             => Scan(proc[q].key)' # {}
        /\ \A a \in Assets, l \in Keys : told'[a][l] = "true" => Scan(l)' # {}
    BY DEF AnswersRight
  <2>1. NoneDirect
    BY <1>1 DEF NoneDirect
  <2>2. \A q \in Procs : ~(proc[q].pc \in {"l_load", "l_store"})
    BY <1>1, <1>3 DEF Naming
  <2>3. \A i \in Ids : ~(i >= channel_num /\ channel[i].size > 0)
    BY <2>1, <2>2 DEF DeclarePart, EntriesInv, AnswersRight
  <2>4. ASSUME NEW q \in Procs, proc'[q].pc = "unlock", proc'[q].answer
        PROVE  Scan(proc[q].key)' # {}
    <3>1. q = p
      BY <1>1, <1>3, <2>4 DEF Away
    <3>2. ~(channel_num < ChannelMax /\ channel[channel_num].size # 0)
      BY <2>3, ConstantFacts DEF TypeOK, Ids, Entry
    <3>3. Scan(k) # {}
      BY <1>1, <1>6, <2>4, <3>1, <3>2
    <3> QED BY <1>1, <2>0, <3>1, <3>3 DEF Scan
  <2>5. \A a \in Assets, l \in Keys : told'[a][l] = "true" => Scan(l)' # {}
    BY <1>1, <2>0, <2>1 DEF DeclarePart, EntriesInv, AnswersRight
  <2> QED BY <1>1, <2>3, <2>4, <2>5
<1> QED BY <1>5, <1>7, <1>8, <1>9, <1>10, <1>11 DEF DeclarePart, EntriesInv

LEMMA NameDeclare ==
  ASSUME TypeOK, DeclarePart, NEW p \in Procs, LChannelName(p)
  PROVE  DeclarePart'
<1> DEFINE k == proc[p].key
           n == proc[p].id
<1>1. /\ p \notin dead /\ proc[p].pc = "l_name" /\ k \in Keys
      /\ \A q \in Procs : q # p => proc'[q] = proc[q]
      /\ proc'[p].key = k /\ proc'[p].id = n /\ proc'[p].pc = "l_size"
      /\ UNCHANGED <<channel_num, busy, cache, sim, told, dead>>
  BY DEF LChannelName, At, Goto, TypeOK, Local, TableOnly, AreaUnchanged, DeclarePart,
         Places, Naming
<1>2. /\ n = channel_num /\ channel_num < ChannelMax /\ n \in Ids
      /\ \A i \in Ids : channel[i].key # k
      /\ channel[n].size = 0
  BY <1>1, ConstantFacts DEF DeclarePart, EntriesInv, EntryInWork, Naming, TypeOK, Ids
<1>3. InTable(p)
  BY <1>1 DEF InTable
<1>4. /\ p \in Assets
      /\ \A q \in Procs : q # p => Away(q) /\ ~Naming(q) /\ ~Counting(q)
      /\ \A i \in Ids : channel[i].key # NoKey => i < channel_num /\ channel[i].size > 0
  BY <1>1, <1>3, NobodyElse
<1>5. /\ channel'[n].key = k
      /\ \A i \in Ids : channel'[i].size = channel[i].size
      /\ \A i \in Ids : i # n => channel'[i].key = channel[i].key
  BY <1>2 DEF LChannelName, TypeOK, Entry
<1> HIDE DEF n
<1>6. Places' /\ SpinLock'
  <2>1. InsideStep(p)
    BY <1>1, <1>3 DEF InsideStep, InTable
  <2> QED BY <2>1, InsideKeeps DEF DeclarePart
<1>7. EntryInWork'
  <2>1. \A q \in Procs : q # p => ~Naming(q)' /\ ~Counting(q)'
    BY <1>1, <1>4 DEF Naming, Counting
  <2> QED BY <1>1, <1>2, <1>5, <2>1 DEF EntryInWork, Naming, Counting
<1>8. Counted'
  <2>1. \A q \in Procs : ~Counting(q) /\ ~Counting(q)'
    BY <1>1, <1>4 DEF Counting
  <2>2. Sized' = Sized
    BY <1>5 DEF Sized
  <2> QED BY <1>1, <2>1, <2>2 DEF Counted, DeclarePart, EntriesInv
<1>9. KeysBelow'
  <2>1. ASSUME NEW i \in Ids, channel'[i].key # NoKey, i # n
        PROVE  i < channel_num' /\ channel'[i].size > 0
    BY <1>1, <1>4, <1>5, <2>1
  <2>2. ASSUME NEW i \in Ids, NEW j \in Ids, i # j, channel'[i].key = channel'[j].key
        PROVE  channel'[i].key = NoKey
    BY <1>1, <1>2, <1>5, <2>2 DEF KeysBelow, DeclarePart, EntriesInv
  <2> QED BY <1>1, <2>1, <2>2 DEF KeysBelow
<1>10. CachesRight'
  <2> SUFFICES ASSUME NEW q \in Procs, NEW l \in Keys, cache[q][l] # NoId
               PROVE  /\ channel'[cache[q][l]].key = l
                      /\ \/ cache[q][l] < channel_num
                         \/ proc'[q].pc \in {"l_load", "l_store"} /\ proc'[q].id = cache[q][l]
    BY <1>1 DEF CachesRight
  <2>1. cache[q][l] \in Ids /\ channel[cache[q][l]].key = l /\ cache[q][l] < channel_num
    BY <1>1, <1>4 DEF DeclarePart, EntriesInv, CachesRight, TypeOK, Naming
  <2>2. cache[q][l] # n
    BY <1>2, <2>1, ConstantFacts DEF TypeOK
  <2> QED BY <1>5, <2>1, <2>2
<1>11. AnswersRight'
  <2>0. ASSUME NEW l \in Keys PROVE Scan(l) \subseteq Scan(l)'
    <3> SUFFICES ASSUME NEW i \in Ids, i < channel_num, channel[i].key = l
                 PROVE  channel'[i].key = l
      BY <1>1 DEF Scan
    <3>1. i # n
      BY <1>2, ConstantFacts
    <3> QED BY <1>5, <3>1
  <2> SUFFICES ASSUME NoneDirect' PROVE
        /\ \A i \in Ids : i >= channel_num' /\ channel'[i].size > 0
             => \E q \in Procs : proc'[q].pc \in {"l_load", "l_store"} /\ proc'[q].id = i
        /\ \A q \in Procs : proc'[q].pc # "unlock"
        /\ \A a \in Assets, l \in Keys : told'[a][l] = "true" => Scan(l)' # {}
    BY DEF AnswersRight
  <2>1. NoneDirect
    BY <1>1 DEF NoneDirect
  <2>2. \A q \in Procs : proc[q].pc \notin {"l_load", "l_store"} /\ proc'[q].pc # "unlock"
    BY <1>1, <1>4 DEF Naming, Away
  <2>3. \A i \in Ids : ~(i >= channel_num /\ channel[i].size > 0)
    BY <2>1, <2>2 DEF DeclarePart, EntriesInv, AnswersRight
  <2>4. \A a \in Assets, l \in Keys : told'[a][l] = "true" => Scan(l)' # {}
    BY <1>1, <2>0, <2>1 DEF DeclarePart, EntriesInv, AnswersRight
  <2> QED BY <1>1, <1>5, <2>2, <2>3, <2>4
<1> QED BY <1>6, <1>7, <1>8, <1>9, <1>10, <1>11 DEF DeclarePart, EntriesInv

\* One more entry has a size.
LEMMA OneMoreSized ==
  ASSUME TypeOK, NEW n \in Ids, channel[n].size = 0,
         channel'[n].size \in Nat, channel'[n].size > 0,
         \A i \in Ids : i # n => channel'[i].size = channel[i].size
  PROVE  Cardinality(Sized') = Cardinality(Sized) + 1
<1>1. Sized' = Sized \cup {n}
  BY DEF Sized
<1>2. n \notin Sized
  BY DEF Sized
<1>3. IsFiniteSet(Sized)
  BY ConstantFacts, FS_Subset DEF Sized
<1> QED BY <1>1, <1>2, <1>3, FS_AddElement

LEMMA SizeDeclare ==
  ASSUME TypeOK, DeclarePart, NEW p \in Procs, LChannelSize(p)
  PROVE  DeclarePart'
<1> DEFINE k == proc[p].key
           n == proc[p].id
<1>1. /\ p \notin dead /\ proc[p].pc = "l_size" /\ k \in Keys
      /\ \A q \in Procs : q # p => proc'[q] = proc[q]
      /\ proc'[p].key = k /\ proc'[p].id = n /\ proc'[p].pc = "l_load"
      /\ UNCHANGED <<channel_num, busy, sim, told, dead>>
  BY DEF LChannelSize, At, Goto, TypeOK, Local, TableOnly, AreaUnchanged, DeclarePart,
         Places, Naming
<1>2. /\ n = channel_num /\ channel_num < ChannelMax /\ n \in Ids
      /\ channel[n].key = k
      /\ channel[n].size = 0
  BY <1>1, ConstantFacts DEF DeclarePart, EntriesInv, EntryInWork, Naming, TypeOK, Ids
<1>3. InTable(p)
  BY <1>1 DEF InTable
<1>4. /\ p \in Assets
      /\ \A q \in Procs : q # p => Away(q) /\ ~Naming(q) /\ ~Counting(q)
      /\ \A i \in Ids : channel[i].key # NoKey
           => (i < channel_num /\ channel[i].size > 0) \/ n = i
  BY <1>1, <1>3, NobodyElse
<1>5. /\ channel'[n].size \in Nat /\ channel'[n].size > 0
      /\ \A i \in Ids : channel'[i].key = channel[i].key
      /\ \A i \in Ids : i # n => channel'[i].size = channel[i].size
  <2>1. SizeOf[k] \in Nat /\ SizeOf[k] > 0
    BY <1>1, ConstantFacts
  <2>2. channel' = [channel EXCEPT ![n].size = SizeOf[k]]
    BY DEF LChannelSize
  <2> QED BY <1>2, <2>1, <2>2 DEF TypeOK, Entry
<1>6. /\ cache'[p][k] = cache[p][k] \/ cache'[p][k] = n
      /\ \A q \in Procs, l \in Keys : q # p \/ l # k => cache'[q][l] = cache[q][l]
  BY <1>1 DEF LChannelSize, TypeOK
<1> HIDE DEF n
<1>7. Places' /\ SpinLock'
  <2>1. InsideStep(p)
    BY <1>1, <1>3 DEF InsideStep, InTable
  <2> QED BY <2>1, InsideKeeps DEF DeclarePart
<1>8. \A q \in Procs : q # p => ~Naming(q)' /\ ~Counting(q)'
  BY <1>1, <1>4 DEF Naming, Counting
<1>9. EntryInWork'
  BY <1>1, <1>2, <1>5, <1>8 DEF EntryInWork, Naming, Counting
<1>10. Counted'
  <2>1. Cardinality(Sized') = Cardinality(Sized) + 1
    BY <1>2, <1>5, OneMoreSized
  <2>2. \A q \in Procs : ~Counting(q)
    BY <1>1, <1>4 DEF Counting
  <2>3. Counting(p)'
    BY <1>1 DEF Counting
  <2> QED BY <1>1, <2>1, <2>2, <2>3 DEF Counted, DeclarePart, EntriesInv
<1>11. KeysBelow'
  <2>1. ASSUME NEW i \in Ids, channel'[i].key # NoKey, i # n
        PROVE  i < channel_num' /\ channel'[i].size > 0
    BY <1>1, <1>4, <1>5, <2>1
  <2>2. ASSUME NEW i \in Ids, NEW j \in Ids, i # j, channel'[i].key = channel'[j].key
        PROVE  channel'[i].key = NoKey
    BY <1>5, <2>2 DEF KeysBelow, DeclarePart, EntriesInv
  <2> QED BY <1>1, <2>1, <2>2 DEF KeysBelow
<1>12. CachesRight'
  <2> SUFFICES ASSUME NEW q \in Procs, NEW l \in Keys, cache'[q][l] # NoId
               PROVE  /\ channel'[cache'[q][l]].key = l
                      /\ \/ cache'[q][l] < channel_num
                         \/ proc'[q].pc \in {"l_load", "l_store"} /\ proc'[q].id = cache'[q][l]
    BY <1>1 DEF CachesRight
  <2>1. CASE cache'[q][l] = cache[q][l]
    <3>0. proc[q].pc \notin {"l_load", "l_store"}
      BY <1>1, <1>4 DEF Naming
    <3>1. cache[q][l] \in Ids /\ channel[cache[q][l]].key = l /\ cache[q][l] < channel_num
      <4>1. cache[q][l] # NoId /\ cache[q][l] \in Ids
        BY <2>1 DEF TypeOK
      <4> QED BY <3>0, <4>1 DEF DeclarePart, EntriesInv, CachesRight
    <3> QED BY <1>5, <2>1, <3>1
  <2>2. CASE cache'[q][l] # cache[q][l]
    BY <1>1, <1>2, <1>5, <1>6, <2>2
  <2> QED BY <2>1, <2>2
<1>13. AnswersRight'
  <2>0. ASSUME NEW l \in Keys PROVE Scan(l)' = Scan(l)
    BY <1>1, <1>5 DEF Scan
  <2> SUFFICES ASSUME NoneDirect' PROVE
        /\ \A i \in Ids : i >= channel_num' /\ channel'[i].size > 0
             => \E q \in Procs : proc'[q].pc \in {"l_load", "l_store"} /\ proc'[q].id = i
        /\ \A q \in Procs : proc'[q].pc # "unlock"
        /\ \A a \in Assets, l \in Keys : told'[a][l] = "true" => Scan(l)' # {}
    BY DEF AnswersRight
  <2>1. NoneDirect
    BY <1>1 DEF NoneDirect
  <2>2. \A q \in Procs : proc[q].pc \notin {"l_load", "l_store"} /\ proc'[q].pc # "unlock"
    BY <1>1, <1>4 DEF Naming, Away
  <2>3. \A i \in Ids : ~(i >= channel_num /\ channel[i].size > 0)
    BY <2>1, <2>2 DEF DeclarePart, EntriesInv, AnswersRight
  <2>4. \A a \in Assets, l \in Keys : told'[a][l] = "true" => Scan(l)' # {}
    BY <1>1, <2>0, <2>1 DEF DeclarePart, EntriesInv, AnswersRight
  <2> QED BY <1>1, <1>5, <2>2, <2>3, <2>4
<1> QED BY <1>7, <1>9, <1>10, <1>11, <1>12, <1>13 DEF DeclarePart, EntriesInv

LEMMA DirectSizeDeclare ==
  ASSUME TypeOK, DeclarePart, NEW p \in Procs, DirectSize(p)
  PROVE  DeclarePart'
<1> DEFINE n == proc[p].id
<1>1. /\ p \notin dead /\ proc[p].pc = "d_size" /\ n \in Direct /\ n \in Ids
      /\ proc[p].key = NoKey /\ told[p][n] # "unasked"
      /\ UNCHANGED <<channel_num, busy, cache, sim, told, dead>>
  BY ConstantFacts DEF DirectSize, At, TableOnly, AreaUnchanged, DeclarePart, Places
<1>2. /\ \A q \in Procs : q # p => proc'[q] = proc[q]
      /\ proc'[p].key = NoKey /\ proc'[p].id = n
      /\ \/ proc'[p].pc = "d_load" /\ channel[n].size = 0
                                   /\ channel' = [channel EXCEPT ![n].size = 1]
         \/ proc'[p].pc = "unlock" /\ channel' = channel
  <2>1. CASE channel[n].size = 0
    <3>1. channel' = [channel EXCEPT ![n].size = 1]
      BY <2>1 DEF DirectSize
    <3>2. PICK b \in BOOLEAN : proc' = [proc EXCEPT ![p].pc = "d_load", ![p].answer = b]
      BY <2>1 DEF DirectSize
    <3>3. /\ \A q \in Procs : q # p => proc'[q] = proc[q]
          /\ proc'[p].key = proc[p].key /\ proc'[p].id = n /\ proc'[p].pc = "d_load"
      BY <3>2 DEF TypeOK, Local
    <3> QED BY <1>1, <2>1, <3>1, <3>3
  <2>2. CASE channel[n].size # 0
    BY <1>1, <2>2 DEF DirectSize, Goto, TypeOK, Local
  <2> QED BY <2>1, <2>2
<1>3. InTable(p)
  BY <1>1 DEF InTable
<1>4. /\ p \in Assets
      /\ \A q \in Procs : q # p => Away(q) /\ ~Naming(q) /\ ~Counting(q)
      /\ \A i \in Ids : channel[i].key # NoKey => i < channel_num /\ channel[i].size > 0
  BY <1>1, <1>3, NobodyElse
<1>5. /\ \A i \in Ids : channel'[i].key = channel[i].key
      /\ \A i \in Ids : i # n => channel'[i].size = channel[i].size
      /\ channel'[n].size = channel[n].size \/ channel'[n].size = 1
  <2>1. CASE channel' = [channel EXCEPT ![n].size = 1]
    <3> HIDE DEF n
    <3> QED BY <1>1, <2>1 DEF TypeOK, Entry
  <2>2. CASE channel' = channel
    BY <2>2
  <2> QED BY <1>2, <2>1, <2>2
<1>6. Places' /\ SpinLock'
  <2>1. InsideStep(p)
    BY <1>1, <1>2, <1>3 DEF InsideStep, InTable
  <2> QED BY <2>1, InsideKeeps DEF DeclarePart
<1>7. \A q \in Procs : q # p => ~Naming(q)' /\ ~Counting(q)'
  BY <1>2, <1>4 DEF Naming, Counting
<1>8. EntryInWork'
  BY <1>2, <1>7 DEF EntryInWork, Naming, Counting
<1>9. Counted'
  <2>1. \A q \in Procs : ~Counting(q)
    BY <1>1, <1>4 DEF Counting
  <2>2. Cardinality(Sized) = channel_num
    BY <2>1 DEF DeclarePart, EntriesInv, Counted
  <2>3. CASE proc'[p].pc = "d_load"
    <3>1. channel[n].size = 0 /\ channel' = [channel EXCEPT ![n].size = 1]
      BY <1>2, <2>3
    <3>2. channel'[n].size = 1
      BY <1>1, <3>1 DEF TypeOK, Entry
    <3>3. Cardinality(Sized') = Cardinality(Sized) + 1
      BY <1>1, <1>5, <3>1, <3>2, OneMoreSized
    <3>4. Counting(p)'
      BY <2>3 DEF Counting
    <3> QED BY <1>1, <2>2, <3>3, <3>4 DEF Counted
  <2>4. CASE proc'[p].pc = "unlock"
    <3>1. Sized' = Sized
      BY <1>2, <2>4 DEF Sized
    <3>2. \A q \in Procs : ~Counting(q)'
      BY <1>7, <2>4 DEF Counting
    <3> QED BY <1>1, <2>2, <3>1, <3>2 DEF Counted
  <2> QED BY <1>2, <2>3, <2>4
<1>10. KeysBelow'
  <2>1. ASSUME NEW i \in Ids, channel'[i].key # NoKey
        PROVE  i < channel_num' /\ channel'[i].size > 0
    BY <1>1, <1>4, <1>5, <2>1
  <2>2. ASSUME NEW i \in Ids, NEW j \in Ids, i # j, channel'[i].key = channel'[j].key
        PROVE  channel'[i].key = NoKey
    BY <1>5, <2>2 DEF KeysBelow, DeclarePart, EntriesInv
  <2> QED BY <2>1, <2>2 DEF KeysBelow
<1>11. CachesRight'
  <2> SUFFICES ASSUME NEW q \in Procs, NEW l \in Keys, cache[q][l] # NoId
               PROVE  channel'[cache[q][l]].key = l /\ cache[q][l] < channel_num
    BY <1>1 DEF CachesRight
  <2>1. cache[q][l] \in Ids /\ channel[cache[q][l]].key = l /\ cache[q][l] < channel_num
    BY <1>1, <1>4 DEF DeclarePart, EntriesInv, CachesRight, TypeOK, Naming
  <2> QED BY <1>5, <2>1
<1>12. AnswersRight'
  BY <1>1, <1>4 DEF AnswersRight, NoneDirect
<1> QED BY <1>6, <1>8, <1>9, <1>10, <1>11, <1>12 DEF DeclarePart, EntriesInv

LEMMA CountLoadDeclare ==
  ASSUME TypeOK, DeclarePart, NEW p \in Procs, CountLoad(p)
  PROVE  DeclarePart'
<1>1. /\ p \notin dead /\ proc[p].pc \in {"l_load", "d_load"}
      /\ UNCHANGED <<channel, channel_num, busy, cache, sim, told, dead>>
  BY DEF CountLoad, At, TableOnly, AreaUnchanged
<1>2. /\ \A q \in Procs : q # p => proc'[q] = proc[q]
      /\ proc'[p].key = proc[p].key /\ proc'[p].id = proc[p].id
      /\ proc'[p].num = channel_num
      /\ proc'[p].pc = IF proc[p].pc = "l_load" THEN "l_store" ELSE "d_store"
  <2>1. proc[p] \in Local
    BY DEF TypeOK
  <2> DEFINE pc == IF proc[p].pc = "l_load" THEN "l_store" ELSE "d_store"
  <2>2. proc' = [proc EXCEPT ![p].num = channel_num, ![p].pc = pc]
    BY <2>1 DEF CountLoad, TypeOK, Local
  <2> HIDE DEF pc
  <2>3. /\ \A q \in Procs : q # p => proc'[q] = proc[q]
        /\ proc'[p].key = proc[p].key /\ proc'[p].id = proc[p].id
        /\ proc'[p].num = channel_num /\ proc'[p].pc = pc
    BY <2>1, <2>2 DEF TypeOK, Local
  <2> QED BY <2>3 DEF pc
<1>3. InTable(p)
  BY <1>1 DEF InTable
<1>4. /\ p \in Assets
      /\ \A q \in Procs : q # p => Away(q) /\ ~Naming(q) /\ ~Counting(q)
  BY <1>1, <1>3, NobodyElse
<1>5. Places' /\ SpinLock'
  <2>1. InsideStep(p)
    BY <1>1, <1>2, <1>3 DEF InsideStep, InTable, DeclarePart, Places, Naming
  <2> QED BY <2>1, InsideKeeps DEF DeclarePart
<1>6. \A q \in Procs : q # p => ~Naming(q)' /\ ~Counting(q)' /\ Away(q)'
  BY <1>2, <1>4 DEF Naming, Counting, Away
<1>7. EntryInWork'
  BY <1>1, <1>2, <1>6 DEF DeclarePart, EntriesInv, EntryInWork, Naming, Counting
<1>8. Counted'
  <2>1. Counting(p) /\ Counting(p)' /\ Sized' = Sized
    BY <1>1, <1>2 DEF Counting, Sized
  <2> QED BY <1>1, <2>1 DEF DeclarePart, EntriesInv, Counted
<1>9. KeysBelow'
  <2>1. ASSUME NEW i \in Ids, channel[i].key # NoKey
        PROVE  \/ i < channel_num /\ channel[i].size > 0
               \/ proc'[p].pc \in {"l_size", "l_load", "l_store"} /\ proc'[p].id = i
    BY <1>1, <1>2, <1>3, <2>1, NobodyElse
  <2> QED BY <1>1, <2>1 DEF DeclarePart, EntriesInv, KeysBelow
<1>10. CachesRight'
  BY <1>1, <1>2 DEF DeclarePart, EntriesInv, CachesRight
<1>11. AnswersRight'
  <2>0. \A l : Scan(l)' = Scan(l)
    BY <1>1 DEF Scan
  <2> SUFFICES ASSUME NoneDirect' PROVE
        /\ \A i \in Ids : i >= channel_num' /\ channel'[i].size > 0
             => \E q \in Procs : proc'[q].pc \in {"l_load", "l_store"} /\ proc'[q].id = i
        /\ \A q \in Procs : proc'[q].pc # "unlock"
        /\ \A a \in Assets, l \in Keys : told'[a][l] = "true" => Scan(l)' # {}
    BY DEF AnswersRight
  <2>1. NoneDirect
    BY <1>1 DEF NoneDirect
  <2>2. \A q \in Procs : proc'[q].pc # "unlock"
    BY <1>1, <1>2, <1>6 DEF Away
  <2>3. ASSUME NEW i \in Ids, i >= channel_num, channel[i].size > 0
        PROVE  proc'[p].pc \in {"l_load", "l_store"} /\ proc'[p].id = i
    <3>1. PICK q \in Procs : proc[q].pc \in {"l_load", "l_store"} /\ proc[q].id = i
      BY <2>1, <2>3 DEF DeclarePart, EntriesInv, AnswersRight
    <3>2. q = p
      BY <1>4, <3>1 DEF Naming
    <3> QED BY <1>1, <1>2, <3>1, <3>2
  <2>4. \A a \in Assets, l \in Keys : told'[a][l] = "true" => Scan(l)' # {}
    BY <1>1, <2>0, <2>1 DEF DeclarePart, EntriesInv, AnswersRight
  <2> QED BY <1>1, <2>2, <2>3, <2>4
<1> QED BY <1>5, <1>7, <1>8, <1>9, <1>10, <1>11 DEF DeclarePart, EntriesInv

LEMMA CountStoreDeclare ==
  ASSUME TypeOK, DeclarePart, NEW p \in Procs, CountStore(p)
  PROVE  DeclarePart'
<1> DEFINE n == proc[p].id
<1>1. /\ p \notin dead /\ proc[p].pc \in {"l_store", "d_store"}
      /\ UNCHANGED <<channel, busy, cache, sim, told, dead>>
  BY DEF CountStore, At, TableOnly, AreaUnchanged
<1>2. channel_num' = channel_num + 1 /\ channel_num \in Nat
  BY <1>1, ConstantFacts DEF CountStore, DeclarePart, EntriesInv, EntryInWork, TypeOK
<1>3. /\ \A q \in Procs : q # p => proc'[q] = proc[q]
      /\ proc'[p].key = proc[p].key /\ proc'[p].id = n
      /\ proc'[p].pc = "unlock"
  BY DEF CountStore, Goto, TypeOK, Local
<1>4. InTable(p)
  BY <1>1 DEF InTable
<1>5. /\ p \in Assets
      /\ \A q \in Procs : q # p => Away(q) /\ ~Naming(q) /\ ~Counting(q)
  BY <1>1, <1>4, NobodyElse
<1>6. proc[p].pc = "l_store" =>
        /\ n = channel_num /\ n \in Ids /\ proc[p].key \in Keys
        /\ channel[n].key = proc[p].key /\ channel[n].size > 0
  BY ConstantFacts DEF DeclarePart, EntriesInv, EntryInWork, Places, Naming, TypeOK, Ids
<1> HIDE DEF n
<1>7. Places' /\ SpinLock'
  <2>1. InsideStep(p)
    BY <1>1, <1>3, <1>4 DEF InsideStep, InTable, DeclarePart, Places, Naming, n
  <2> QED BY <2>1, InsideKeeps DEF DeclarePart
<1>8. \A q \in Procs : ~Naming(q)' /\ ~Counting(q)'
  BY <1>3, <1>5 DEF Naming, Counting
<1>9. EntryInWork'
  BY <1>8 DEF EntryInWork, Naming, Counting
<1>10. Counted'
  <2>1. Counting(p) /\ Sized' = Sized
    BY <1>1 DEF Counting, Sized
  <2> QED BY <1>2, <1>8, <2>1 DEF DeclarePart, EntriesInv, Counted
<1>11. KeysBelow'
  <2>1. ASSUME NEW i \in Ids, channel[i].key # NoKey
        PROVE  i < channel_num' /\ channel[i].size > 0
    <3>1. \/ i < channel_num /\ channel[i].size > 0
          \/ proc[p].pc \in {"l_size", "l_load", "l_store"} /\ proc[p].id = i
      BY <1>1, <1>4, <2>1, NobodyElse
    <3>2. i \in Nat
      BY ConstantFacts
    <3> QED BY <1>1, <1>2, <1>6, <3>1, <3>2 DEF n
  <2> QED BY <1>1, <2>1 DEF DeclarePart, EntriesInv, KeysBelow
<1>12. CachesRight'
  <2> SUFFICES ASSUME NEW q \in Procs, NEW l \in Keys, cache[q][l] # NoId
               PROVE  channel[cache[q][l]].key = l /\ cache[q][l] < channel_num'
    BY <1>1 DEF CachesRight
  <2>1. cache[q][l] \in Nat
    <3>1. cache[q][l] \in Ids
      BY DEF TypeOK
    <3> QED BY <3>1, ConstantFacts
  <2>2. /\ channel[cache[q][l]].key = l
        /\ \/ cache[q][l] < channel_num
           \/ proc[q].pc \in {"l_load", "l_store"} /\ proc[q].id = cache[q][l]
    BY DEF DeclarePart, EntriesInv, CachesRight
  <2>3. proc[q].pc \in {"l_load", "l_store"} => q = p /\ proc[p].pc = "l_store"
    BY <1>1, <1>5 DEF Naming
  <2> QED BY <1>2, <1>6, <2>1, <2>2, <2>3 DEF n
<1>13. AnswersRight'
  <2>0. ASSUME NEW l PROVE Scan(l) \subseteq Scan(l)'
    <3>1. \A i \in Ids : i < channel_num => i < channel_num'
      BY <1>2, ConstantFacts
    <3> QED BY <1>1, <3>1 DEF Scan
  <2> SUFFICES ASSUME NoneDirect' PROVE
        /\ \A i \in Ids : ~(i >= channel_num' /\ channel'[i].size > 0)
        /\ \A q \in Procs : proc'[q].pc = "unlock" => Scan(proc[q].key)' # {}
        /\ \A a \in Assets, l \in Keys : told'[a][l] = "true" => Scan(l)' # {}
    BY DEF AnswersRight
  <2>1. NoneDirect
    BY <1>1 DEF NoneDirect
  <2>2. proc[p].pc = "l_store"
    <3>1. proc[p].pc = "d_store" => proc[p].id \in Direct /\ told[p][proc[p].id] # "unasked"
      BY DEF DeclarePart, Places
    <3> QED BY <1>1, <1>5, <2>1, <3>1 DEF NoneDirect
  <2>3. ASSUME NEW i \in Ids, i >= channel_num', channel[i].size > 0
        PROVE  FALSE
    <3>1. i \in Nat /\ i >= channel_num
      BY <1>2, <2>3, ConstantFacts
    <3>2. PICK q \in Procs : proc[q].pc \in {"l_load", "l_store"} /\ proc[q].id = i
      BY <2>1, <2>3, <3>1 DEF DeclarePart, EntriesInv, AnswersRight
    <3>3. q = p
      BY <1>5, <3>2 DEF Naming
    <3> QED BY <1>2, <1>6, <2>2, <2>3, <3>1, <3>2, <3>3 DEF n
  <2>4. ASSUME NEW q \in Procs, proc'[q].pc = "unlock"
        PROVE  Scan(proc[q].key)' # {}
    <3>1. q = p
      BY <1>3, <1>5, <2>4 DEF Away
    <3>2. n < channel_num'
      BY <1>2, <1>6, <2>2
    <3>3. n \in Scan(proc[p].key)'
      BY <1>1, <1>3, <1>6, <2>2, <3>2 DEF Scan
    <3> QED BY <3>1, <3>3
  <2>5. \A a \in Assets, l \in Keys : told'[a][l] = "true" => Scan(l)' # {}
    BY <1>1, <2>0, <2>1 DEF DeclarePart, EntriesInv, AnswersRight
  <2> QED BY <1>1, <2>3, <2>4, <2>5
<1> QED BY <1>7, <1>9, <1>10, <1>11, <1>12, <1>13 DEF DeclarePart, EntriesInv

LEMMA UnlockDeclare ==
  ASSUME TypeOK, DeclarePart, NEW p \in Procs, unlock_channel_table(p)
  PROVE  DeclarePart'
<1> DEFINE d == IF proc[p].key # NoKey THEN proc[p].key ELSE proc[p].id
<1>1. /\ p \notin dead /\ proc[p].pc = "unlock"
      /\ UNCHANGED <<channel, channel_num, cache, sim, dead>> /\ ~busy'
  BY DEF unlock_channel_table, At
<1>2. /\ \A q \in Procs : q # p => proc'[q] = proc[q]
      /\ proc'[p].pc = "idle"
  BY LocalTyped DEF unlock_channel_table, Return, TypeOK
<1>3. InTable(p) /\ Declaring(p)
  BY <1>1 DEF InTable, Declaring
<1>4. /\ p \in Assets /\ sim.starts = 0
      /\ \A q \in Procs : q # p => Away(q) /\ ~Naming(q) /\ ~Counting(q) /\ ~InTable(q)
  BY <1>1, <1>3, NobodyElse, AloneInTable DEF DeclarePart
<1>5. \/ proc[p].key \in Keys /\ d = proc[p].key
      \/ d \in Direct /\ proc[p].key = NoKey /\ told[p][d] # "unasked"
  BY <1>1, ConstantFacts DEF DeclarePart, Places
<1>6. d \in Decls
  BY <1>5 DEF Decls
<1>7. /\ told'[p][d] \in {"true", "false"}
      /\ told'[p][d] = "true" => proc[p].answer
      /\ \A a \in Assets, e \in Decls : a # p \/ e # d => told'[a][e] = told[a][e]
  <2>1. CASE proc[p].answer
    <3>1. told' = [told EXCEPT ![p][d] = "true"]
      BY <2>1 DEF unlock_channel_table
    <3> HIDE DEF d
    <3>2. /\ told'[p][d] = "true"
          /\ \A a \in Assets, e \in Decls : a # p \/ e # d => told'[a][e] = told[a][e]
      BY <1>4, <1>6, <3>1 DEF TypeOK
    <3> QED BY <2>1, <3>2
  <2>2. CASE ~proc[p].answer
    <3>1. told' = [told EXCEPT ![p][d] = "false"]
      BY <2>2 DEF unlock_channel_table
    <3> HIDE DEF d
    <3>2. /\ told'[p][d] = "false"
          /\ \A a \in Assets, e \in Decls : a # p \/ e # d => told'[a][e] = told[a][e]
      BY <1>4, <1>6, <3>1 DEF TypeOK
    <3> QED BY <3>2
  <2> QED BY <2>1, <2>2
<1> HIDE DEF d
<1>8. \A q \in Procs : ~InTable(q)' /\ ~Naming(q)' /\ ~Counting(q)'
  BY <1>2, <1>4 DEF InTable, Naming, Counting
<1>9. SpinLock'
  BY <1>1, <1>4, <1>8 DEF SpinLock
<1>10. Places'
  <2>1. \A q \in Procs : q # p => (Declaring(q)' => Declaring(q)) /\ proc'[q] = proc[q]
    BY <1>2 DEF Declaring, InTable
  <2>2. \A q \in Procs : q # p /\ Declaring(q)' => proc'[q].pc \in {"l_lock", "d_lock"}
    BY <1>2, <1>4 DEF Declaring, InTable
  <2>3. \A q \in Assets, i \in Direct : told[q][i] # "unasked" => told'[q][i] # "unasked"
    BY <1>7 DEF Decls
  <2> QED BY <1>2, <2>1, <2>2, <2>3 DEF DeclarePart, Places, Declaring, InTable, Naming
<1>11. EntryInWork'
  BY <1>8 DEF EntryInWork, Naming, Counting
<1>12. Counted'
  <2>1. \A q \in Procs : ~Counting(q)
    BY <1>1, <1>4 DEF Counting
  <2>2. Sized' = Sized
    BY <1>1 DEF Sized
  <2> QED BY <1>1, <1>8, <2>1, <2>2 DEF DeclarePart, EntriesInv, Counted
<1>13. KeysBelow'
  <2>1. \A i \in Ids : channel[i].key # NoKey => i < channel_num /\ channel[i].size > 0
    BY <1>1, <1>3, NobodyElse
  <2> QED BY <1>1, <2>1 DEF DeclarePart, EntriesInv, KeysBelow
<1>14. CachesRight'
  <2>1. \A q \in Procs : proc[q].pc \notin {"l_load", "l_store"}
    BY <1>1, <1>4 DEF Naming
  <2> QED BY <1>1, <2>1 DEF DeclarePart, EntriesInv, CachesRight
<1>15. AnswersRight'
  <2>0. \A l : Scan(l)' = Scan(l)
    BY <1>1 DEF Scan
  <2> SUFFICES ASSUME NoneDirect' PROVE
        /\ \A i \in Ids : ~(i >= channel_num' /\ channel'[i].size > 0)
        /\ \A q \in Procs : proc'[q].pc # "unlock"
        /\ \A a \in Assets, l \in Keys : told'[a][l] = "true" => Scan(l)' # {}
    BY DEF AnswersRight
  <2>1. d \notin Direct
    BY <1>4, <1>7 DEF NoneDirect
  <2>2. NoneDirect
    BY <1>7, <2>1 DEF NoneDirect, Decls
  <2>3. \A q \in Procs : proc[q].pc \notin {"l_load", "l_store"}
    BY <1>1, <1>4 DEF Naming
  <2>4. \A i \in Ids : ~(i >= channel_num /\ channel[i].size > 0)
    BY <2>2, <2>3 DEF DeclarePart, EntriesInv, AnswersRight
  <2>5. ASSUME NEW a \in Assets, NEW l \in Keys, told'[a][l] = "true"
        PROVE  Scan(l)' # {}
    <3>1. CASE a = p /\ l = d
      BY <1>1, <1>5, <1>7, <2>0, <2>1, <2>2, <2>5, <3>1
         DEF DeclarePart, EntriesInv, AnswersRight
    <3>2. CASE ~(a = p /\ l = d)
      <4>1. told[a][l] = "true"
        BY <1>7, <2>5, <3>2 DEF Decls
      <4> QED BY <2>0, <2>2, <4>1 DEF DeclarePart, EntriesInv, AnswersRight
    <3> QED BY <3>1, <3>2
  <2>6. \A q \in Procs : proc'[q].pc # "unlock"
    BY <1>2, <1>4 DEF InTable
  <2> QED BY <1>1, <2>4, <2>5, <2>6
<1> QED BY <1>9, <1>10, <1>11, <1>12, <1>13, <1>14, <1>15 DEF DeclarePart, EntriesInv

-----------------------------------------------------------------------------
(* The data area                                                             *)

LEMMA SameSizes ==
  ASSUME TypeOK, Outside
  PROVE  /\ pdu_total_size' = pdu_total_size
         /\ \A i \in Ids : SizeBelow(i)' = SizeBelow(i)
         /\ Sized' = Sized
<1>1. Sizes' = Sizes
  BY DEF Outside, Sizes
<1>2. Sized' = Sized
  BY DEF Outside, Sized
<1> QED BY <1>1, <1>2 DEF pdu_total_size, SizeBelow

\* Before the first start there is no area and nobody looks for one, so that a
\* declaration cannot disturb it.
LEMMA DeclareArea ==
  ASSUME TypeOK, AreaInv, NEW p \in Assets, sim.starts = 0,
         \A q \in Procs : q # p => proc'[q] = proc[q],
         proc'[p].pc \notin {"load", "w_load", "write", "crashed"},
         UNCHANGED <<asset_num, area, init_lock, pdu, sim, dead>>
  PROVE  AreaInv'
<1>1. p # Conductor /\ Conductor \in Procs
  BY ConstantFacts
<1>2. proc'[Conductor] = proc[Conductor]
  BY <1>1
<1>3. ~Creating /\ ~Creating' /\ asset_num = 0
  BY <1>2 DEF AreaInv, CreateRuns, CreateStages, Creating, TypeOK
<1>4. CreateRuns'
  BY <1>3 DEF AreaInv, CreateRuns
<1>5. CreateStages'
  BY <1>3 DEF CreateStages, Creating
<1>6. \A q \in Procs : ~pdu[q] /\ proc[q].pc \notin {"load", "w_load", "write", "crashed"}
  BY <1>3 DEF AreaInv, UsersFindArea
<1>7. UsersFindArea'
  BY <1>6 DEF UsersFindArea
<1> QED BY <1>4, <1>5, <1>7 DEF AreaInv

LEMMA AroundArea ==
  ASSUME TypeOK, AreaInv, Outside,
         \/ \E a \in Assets : Register(a) \/ StartFeedback(a) \/ DropDead(a)
         \/ \E p \in Procs : Die(p)
         \/ Start \/ Stop
  PROVE  AreaInv'
<1>1. UNCHANGED <<proc, channel, asset_num, area, pdu>> /\ dead \subseteq dead'
  BY DEF Register, StartFeedback, DropDead, Die, Start, Stop, SimOnly
<1>2. /\ IsFiniteSet(sim'.members)
      /\ sim'.state # "Stopped" => sim'.starts > 0 /\ sim'.members # {}
      /\ Creating => sim'.state = "Running"
      /\ sim.starts > 0 => sim'.starts > 0
  <2>0. /\ IsFiniteSet(sim.members)
        /\ sim.state # "Stopped" => sim.starts > 0 /\ sim.members # {}
        /\ Creating => sim.state = "Running"
        /\ sim \in [state : {"Stopped", "Runnable", "Running"},
                    members : SUBSET Assets, answered : SUBSET Assets, starts : Nat]
    BY DEF AreaInv, CreateRuns, TypeOK
  <2>1. ASSUME NEW a \in Assets, Register(a)
        PROVE  sim'.members = sim.members \cup {a} /\ sim'.state = sim.state
                 /\ sim'.starts = sim.starts /\ sim.state = "Stopped"
    BY <2>0, <2>1 DEF Register
  <2>2. ASSUME NEW a \in Assets, StartFeedback(a)
        PROVE  sim'.members = sim.members /\ sim'.state = sim.state
                 /\ sim'.starts = sim.starts
    BY <2>0, <2>2 DEF StartFeedback
  <2>3. ASSUME NEW a \in Assets, DropDead(a)
        PROVE  sim'.members = sim.members \ {a} /\ sim'.state = "Stopped"
                 /\ sim'.starts = sim.starts /\ ~Creating
    BY <2>0, <2>3 DEF DropDead, At, Creating
  <2>4. ASSUME NEW p \in Procs, Die(p)
        PROVE  sim' = sim
    BY <2>4 DEF Die
  <2>5. CASE Start
    <3>1. sim'.members = sim.members /\ sim.members # {} /\ sim'.starts = sim.starts + 1
            /\ sim.state = "Stopped"
      BY <2>0, <2>5 DEF Start
    <3> QED BY <2>0, <3>1
  <2>6. CASE Stop
    <3>1. sim'.members = sim.members /\ sim'.starts = sim.starts /\ sim'.state = "Stopped"
            /\ ~Creating
      BY <2>0, <2>6 DEF Stop, At, Creating
    <3> QED BY <2>0, <3>1
  <2>7. ASSUME NEW a PROVE IsFiniteSet(sim.members \cup {a}) /\ IsFiniteSet(sim.members \ {a})
    BY <2>0, FS_AddElement, FS_RemoveElement
  <2> DEFINE Good == /\ IsFiniteSet(sim'.members)
                     /\ sim'.state # "Stopped" => sim'.starts > 0 /\ sim'.members # {}
                     /\ Creating => sim'.state = "Running"
                     /\ sim.starts > 0 => sim'.starts > 0
  <2>8. ASSUME NEW a \in Assets, Register(a) PROVE Good
    BY <2>0, <2>1, <2>7, <2>8
  <2>9. ASSUME NEW a \in Assets, StartFeedback(a) PROVE Good
    BY <2>0, <2>2, <2>9
  <2>10. ASSUME NEW a \in Assets, DropDead(a) PROVE Good
    <3>1. IsFiniteSet(sim.members \ {a})
      BY <2>7
    <3> QED BY <2>0, <2>3, <2>10, <3>1
  <2>11. ASSUME NEW p \in Procs, Die(p) PROVE Good
    BY <2>0, <2>4, <2>11
  <2> HIDE DEF Good
  <2>12. Good
    BY <2>5, <2>6, <2>8, <2>9, <2>10, <2>11 DEF Good
  <2> QED BY <2>12 DEF Good
<1>3. Creating /\ Conductor \notin dead' => init_lock' = Conductor
  <2>1. CASE init_lock' = init_lock
    BY <1>1, <2>1 DEF AreaInv, CreateRuns
  <2>2. ASSUME NEW p \in Procs, Die(p)
        PROVE  Creating /\ Conductor \notin dead' => init_lock' = Conductor
    BY <2>2 DEF AreaInv, CreateRuns, Die
  <2> QED BY <2>1, <2>2 DEF Register, StartFeedback, DropDead, Start, Stop, SimOnly
<1>4. CreateRuns'
  BY <1>1, <1>2, <1>3 DEF CreateRuns, Creating
<1>5. CreateStages'
  <2>1. pdu_total_size' = pdu_total_size /\ (LaidOut => LaidOut')
    BY <1>1, SameSizes DEF LaidOut
  <2> QED BY <1>1, <1>2, <2>1 DEF AreaInv, CreateStages, Creating
<1>6. UsersFindArea'
  <2>1. Sized' = Sized
    BY SameSizes
  <2> QED BY <1>1, <2>1 DEF AreaInv, UsersFindArea
<1> QED BY <1>4, <1>5, <1>6 DEF AreaInv

\* A channel that a process at rest finds has a size.
LEMMA FoundIsSized ==
  ASSUME TypeOK, EntriesInv, NEW p \in Procs, NEW k \in Keys,
         proc[p].pc = "idle", get_pdu_channel(p, k) # NoId
  PROVE  Sized # {}
<1> DEFINE n == get_pdu_channel(p, k)
<1>1. n \in Ids /\ (n = cache[p][k] \/ n \in Scan(k))
  BY LookupFacts
<1>2. n < channel_num /\ channel[n].key = k
  BY <1>1 DEF Scan, EntriesInv, CachesRight
<1> HIDE DEF n
<1>3. \A q \in Procs : Naming(q) => proc[q].id = channel_num
  BY DEF EntriesInv, EntryInWork
<1>4. \A q \in Procs : Naming(q) => proc[q].id # n
  BY <1>1, <1>2, <1>3, ConstantFacts DEF TypeOK
<1>5. channel[n].size > 0
  BY <1>1, <1>2, <1>4, ConstantFacts DEF EntriesInv, KeysBelow, Naming
<1> QED BY <1>1, <1>5 DEF Sized

LEMMA UseArea ==
  ASSUME TypeOK, DeclarePart, AreaInv, Outside, NEW p \in Procs,
         \/ IsPduCreated(p) \/ IsPduCreatedLoad(p) \/ WriteLoad(p) \/ Write(p)
         \/ \E k \in Keys : Lookup(p, k) \/ WriteCall(p, k)
  PROVE  AreaInv'
<1>1. UNCHANGED <<channel, asset_num, area, init_lock, sim, dead>>
  BY DEF IsPduCreated, IsPduCreatedLoad, WriteLoad, Write, Lookup, WriteCall
<1>2. pdu_total_size' = pdu_total_size /\ (LaidOut => LaidOut') /\ Sized' = Sized
  BY <1>1, SameSizes DEF LaidOut
<1>3. ASSUME NEW k \in Keys, Lookup(p, k)
      PROVE  AreaInv'
  <2>1. UNCHANGED <<proc, pdu>>
    BY <1>3 DEF Lookup
  <2>2. CreateRuns' /\ CreateStages' /\ UsersFindArea'
    BY <1>1, <1>2, <2>1 DEF AreaInv, CreateRuns, CreateStages, UsersFindArea, Creating
  <2> QED BY <2>2 DEF AreaInv
\* All other steps move p alone, between points outside of create().
<1>4. ASSUME \A q \in Procs : q # p => proc'[q] = proc[q] /\ pdu'[q] = pdu[q],
             proc[p].pc \in {"idle", "load", "w_load", "write"},
             proc'[p].pc \in {"idle", "load", "w_load", "write"},
             pdu[p] => pdu'[p],
             pdu'[p] => pdu[p] \/ (asset_num > 0 /\ init_lock = NoProc),
             proc'[p].pc \in {"load", "w_load"} => asset_num > 0,
             proc'[p].pc = "w_load" => Sized # {},
             proc'[p].pc = "write" => pdu'[p]
      PROVE  AreaInv'
  <2>0. Conductor \in Procs /\ NoProc \notin Procs
    BY ConstantFacts
  <2>1. (Creating' <=> Creating) /\ (Creating => proc'[Conductor] = proc[Conductor] /\ p # Conductor)
    BY <1>4, <2>0 DEF Creating
  <2>2. CreateRuns'
    BY <1>1, <2>1 DEF AreaInv, CreateRuns
  <2>3. /\ Creating => pdu'[Conductor] = pdu[Conductor]
        /\ pdu[Conductor] => pdu'[Conductor]
    BY <1>4, <2>0, <2>1
  <2>4. CreateStages'
    <3>1. \A l \in {"c_area", "c_num", "c_offset", "c_attach"} :
            proc'[Conductor].pc = l <=> proc[Conductor].pc = l
      BY <2>1 DEF Creating
    <3>2. proc[Conductor].pc = "c_area" => proc'[Conductor].total = proc[Conductor].total
      BY <2>1 DEF Creating
    <3> QED BY <1>1, <1>2, <2>1, <2>3, <3>1, <3>2 DEF AreaInv, CreateStages, Creating
  <2>5. UsersFindArea'
    <3> SUFFICES ASSUME NEW q \in Procs
                 PROVE  /\ pdu'[q] => asset_num > 0
                                        /\ (proc'[Conductor].pc = "c_offset" => Conductor \in dead)
                        /\ proc'[q].pc \in {"load", "w_load"} => asset_num > 0
                        /\ proc'[q].pc = "w_load" => Sized # {}
                        /\ proc'[q].pc = "write" => pdu'[q]
                        /\ proc'[q].pc # "crashed"
      BY <1>1, <1>2 DEF UsersFindArea
    <3>1. proc'[Conductor].pc = "c_offset" => proc[Conductor].pc = "c_offset"
      BY <2>1 DEF Creating
    <3>2. proc[Conductor].pc = "c_offset" /\ init_lock = NoProc => Conductor \in dead
      BY <2>0 DEF AreaInv, CreateRuns, Creating
    <3>3. CASE q # p
      BY <1>4, <3>1, <3>3 DEF AreaInv, UsersFindArea
    <3>4. CASE q = p
      BY <1>4, <3>1, <3>2, <3>4 DEF AreaInv, UsersFindArea
    <3> QED BY <3>3, <3>4
  <2> QED BY <2>2, <2>4, <2>5 DEF AreaInv
<1>5. CASE IsPduCreated(p)
  <2>1. /\ \A q \in Procs : q # p => proc'[q] = proc[q]
        /\ proc[p].pc = "idle" /\ proc'[p].pc = "load" /\ pdu' = pdu /\ asset_num > 0
    BY <1>5 DEF IsPduCreated, At, Goto, TypeOK, Local
  <2> QED BY <1>4, <2>1
<1>6. CASE Write(p)
  <2>1. pdu[p] /\ proc[p].pc = "write"
    BY <1>6 DEF Write, At, AreaInv, UsersFindArea
  <2>2. /\ \A q \in Procs : q # p => proc'[q] = proc[q]
        /\ proc'[p].pc = "idle" /\ pdu' = pdu
    BY <1>6, <2>1, LocalTyped DEF Write, Return, TypeOK
  <2> QED BY <1>4, <2>1, <2>2
<1>7. ASSUME NEW k \in Keys, WriteCall(p, k)
      PROVE  AreaInv'
  <2> DEFINE pc == IF pdu[p] THEN "write" ELSE "w_load"
             r == [Idle EXCEPT !.pc = pc, !.key = k, !.id = get_pdu_channel(p, k)]
  <2>1. /\ proc' = [proc EXCEPT ![p] = r] /\ proc[p].pc = "idle" /\ pdu' = pdu
        /\ asset_num > 0 /\ get_pdu_channel(p, k) # NoId
    BY <1>7 DEF WriteCall, At
  <2>2. r.pc = pc /\ pc \in {"write", "w_load"} /\ (pc = "write" => pdu[p])
    BY DEF Idle
  <2> HIDE DEF r, pc
  <2>3. /\ \A q \in Procs : q # p => proc'[q] = proc[q]
        /\ proc'[p].pc = pc
    BY <2>1, <2>2 DEF TypeOK
  <2>4. Sized # {}
    BY <2>1, FoundIsSized DEF DeclarePart
  <2> QED BY <1>4, <2>1, <2>2, <2>3, <2>4
<1>8. CASE IsPduCreatedLoad(p) \/ WriteLoad(p)
  <2>1. /\ init_lock = NoProc
        /\ pdu' = [pdu EXCEPT ![p] = pdu[p] \/ Loadable]
        /\ \/ proc[p].pc = "load" /\ Return(p)
           \/ proc[p].pc = "w_load" /\ Goto(p, "write")
    BY <1>8 DEF IsPduCreatedLoad, WriteLoad, load, At
  <2>2. asset_num > 0 /\ (proc[p].pc = "w_load" => Sized # {})
    BY <2>1 DEF AreaInv, UsersFindArea
  <2>3. /\ \A q \in Procs : q # p => proc'[q] = proc[q]
        /\ \/ proc[p].pc = "load" /\ proc'[p].pc = "idle"
           \/ proc[p].pc = "w_load" /\ proc'[p].pc = "write"
    <3>1. CASE proc[p].pc = "load" /\ Return(p)
      BY <3>1, LocalTyped DEF Return, TypeOK
    <3>2. CASE proc[p].pc = "w_load" /\ Goto(p, "write")
      BY <3>2 DEF Goto, TypeOK, Local
    <3> QED BY <2>1, <3>1, <3>2
  <2>4. Sized # {} => Loadable
    <3> SUFFICES ASSUME Sized # {} PROVE Loadable
      OBVIOUS
    <3>1. PICK i \in Ids : channel[i].size > 0
      BY DEF Sized
    <3>2. pdu_total_size \in Nat /\ pdu_total_size # 0
      BY <3>1, SizesTyped, SumsPositive DEF pdu_total_size
    <3>3. area = pdu_total_size
      BY <2>2 DEF AreaInv, CreateStages
    <3> QED BY <3>2, <3>3 DEF Loadable, NoArea
  <2>5. /\ \A q \in Procs : q # p => pdu'[q] = pdu[q]
        /\ pdu[p] => pdu'[p]
        /\ Loadable => pdu'[p]
    BY <2>1 DEF TypeOK
  <2> QED BY <1>4, <2>1, <2>2, <2>3, <2>4, <2>5
<1> QED BY <1>3, <1>5, <1>6, <1>7, <1>8

LEMMA CreateKeepsArea ==
  ASSUME TypeOK, Places, AreaInv, Outside, NEW p \in Procs,
         CreateCall(p) \/ CreateArea(p) \/ CreateNum(p) \/ CreateOffsets(p)
           \/ CreateAttach(p) \/ release_pdu_init_lock(p) \/ Reset(p),
         p = Conductor
  PROVE  AreaInv'
<1> DEFINE pc == proc[Conductor].pc
           pcn == proc'[Conductor].pc
<1>0. /\ UNCHANGED dead
      /\ p \notin dead
      /\ \A q \in Procs : q # Conductor => proc'[q] = proc[q] /\ pdu'[q] = pdu[q]
      /\ pdu[Conductor] => pdu'[Conductor]
      /\ Conductor \in Procs
  <2>1. \A q \in Procs : q # Conductor => proc'[q] = proc[q]
    BY DEF CreateCall, CreateArea, CreateNum, CreateOffsets, CreateAttach, Goto, Return,
           release_pdu_init_lock, Reset, TypeOK
  <2>2. \/ UNCHANGED pdu
        \/ pdu' = [pdu EXCEPT ![Conductor] = TRUE]
    BY DEF CreateCall, CreateArea, CreateNum, CreateOffsets, CreateAttach,
           release_pdu_init_lock, Reset
  <2>3. /\ \A q \in Procs : q # Conductor => pdu'[q] = pdu[q]
        /\ pdu[Conductor] => pdu'[Conductor]
    BY <2>2 DEF TypeOK
  <2>4. UNCHANGED dead /\ p \notin dead
    BY DEF CreateCall, CreateArea, CreateNum, CreateOffsets, CreateAttach,
           release_pdu_init_lock, Reset, At
  <2> QED BY <2>1, <2>3, <2>4, ConstantFacts
<1>1. pdu_total_size' = pdu_total_size /\ Sized' = Sized
        /\ \A i \in Ids : SizeBelow(i)' = SizeBelow(i)
  BY SameSizes
<1>2. channel' = channel => (LaidOut => LaidOut')
  BY <1>1 DEF LaidOut
\* The other processes keep what they know, once asset_num keeps its sign.
<1>3. ASSUME asset_num > 0 => asset_num' > 0,
             pcn \in {"idle", "c_area", "c_num", "c_attach", "r_unlock"}
               \/ (pcn = "c_offset" /\ asset_num = 0),
             pdu'[Conductor] => asset_num' > 0
      PROVE  UsersFindArea'
  <2> SUFFICES ASSUME NEW q \in Procs
               PROVE  /\ pdu'[q] => asset_num' > 0
                                      /\ (pcn = "c_offset" => Conductor \in dead')
                      /\ proc'[q].pc \in {"load", "w_load"} => asset_num' > 0
                      /\ proc'[q].pc = "w_load" => Sized' # {}
                      /\ proc'[q].pc = "write" => pdu'[q]
                      /\ proc'[q].pc # "crashed"
    BY DEF UsersFindArea
  <2>1. CASE q # Conductor
    BY <1>0, <1>1, <1>3, <2>1 DEF AreaInv, UsersFindArea
  <2>2. CASE q = Conductor /\ pcn # "c_offset"
    BY <1>3, <2>2
  <2>3. CASE q = Conductor /\ pcn = "c_offset"
    <3>1. pc = "c_num" /\ UNCHANGED pdu
      <4>1. CASE CreateNum(p)
        BY <4>1 DEF CreateNum, At
      <4>2. CASE ~CreateNum(p)
        <5>1. pcn \in {"idle", "c_area", "c_num", "c_attach", "r_unlock"}
          <6>1. CASE CreateCall(p)
            <7> DEFINE l == IF pdu[p] THEN "r_unlock" ELSE "c_area"
                       r == [Idle EXCEPT !.pc = l, !.total = pdu_total_size]
            <7>1. proc' = [proc EXCEPT ![p] = r]
              BY <6>1 DEF CreateCall
            <7>2. r.pc = l /\ l \in {"r_unlock", "c_area"}
              BY DEF Idle
            <7> HIDE DEF r, l
            <7> QED BY <7>1, <7>2 DEF TypeOK
          <6>2. CASE release_pdu_init_lock(p)
            BY <6>2, LocalTyped DEF release_pdu_init_lock, Return, TypeOK
          <6>3. CASE CreateArea(p) \/ CreateOffsets(p) \/ CreateAttach(p) \/ Reset(p)
            BY <6>3 DEF CreateArea, CreateOffsets, CreateAttach, Reset, Goto, TypeOK, Local
          <6> QED BY <4>2, <6>1, <6>2, <6>3
        <5> QED BY <2>3, <5>1
      <4> QED BY <4>1, <4>2
    <3>2. ~pdu[Conductor]
      BY <3>1 DEF AreaInv, CreateStages, Creating
    <3> QED BY <2>3, <3>1, <3>2
  <2> QED BY <2>1, <2>2, <2>3
<1>4. CASE CreateCall(p)
  <2> DEFINE l == IF pdu[p] THEN "r_unlock" ELSE "c_area"
             r == [Idle EXCEPT !.pc = l, !.total = pdu_total_size]
  <2>1. /\ proc' = [proc EXCEPT ![p] = r] /\ pc = "idle" /\ sim.state = "Runnable"
        /\ UNCHANGED <<channel, area, pdu>> /\ init_lock' = Conductor
        /\ sim' = [sim EXCEPT !.state = "Running"]
        /\ asset_num' = IF pdu[p] THEN Cardinality(sim.members) ELSE asset_num
    BY <1>4 DEF CreateCall, At, MayCreate, TakeInitLock
  <2>2. r.pc = l /\ r.total = pdu_total_size
    BY DEF Idle
  <2> HIDE DEF r
  <2>3. pcn = l /\ proc'[Conductor].total = pdu_total_size
    BY <1>0, <2>1, <2>2 DEF TypeOK
  <2>4. sim'.state = "Running" /\ sim'.members = sim.members /\ sim'.starts = sim.starts
    BY <2>1 DEF TypeOK
  <2>5. CreateRuns'
    BY <2>1, <2>4 DEF AreaInv, CreateRuns
  <2>6. Cardinality(sim.members) > 0 /\ sim.starts > 0
    BY <2>1, FS_EmptySet, FS_CardinalityType DEF AreaInv, CreateRuns
  <2>7. CASE pdu[p]
    <3>1. pcn = "r_unlock" /\ asset_num > 0 /\ asset_num' > 0
      BY <2>1, <2>3, <2>6, <2>7 DEF AreaInv, UsersFindArea
    <3>2. CreateStages'
      BY <1>1, <1>2, <2>1, <2>4, <2>6, <2>7, <3>1 DEF AreaInv, CreateStages, Creating
    <3>3. UsersFindArea'
      BY <1>3, <3>1
    <3> QED BY <2>5, <3>2, <3>3 DEF AreaInv
  <2>8. CASE ~pdu[p]
    <3>1. pcn = "c_area" /\ asset_num' = asset_num /\ asset_num = 0
      BY <2>1, <2>3, <2>8 DEF AreaInv, CreateStages, TypeOK
    <3>2. CreateStages'
      BY <1>1, <2>1, <2>3, <2>8, <3>1 DEF CreateStages, Creating
    <3>3. UsersFindArea'
      BY <1>3, <2>1, <2>8, <3>1
    <3> QED BY <2>5, <3>2, <3>3 DEF AreaInv
  <2> QED BY <2>7, <2>8
<1>5. CASE CreateArea(p)
  <2>1. /\ pc = "c_area" /\ pcn = "c_num" /\ area' = proc[Conductor].total
        /\ UNCHANGED <<channel, asset_num, init_lock, pdu, sim>>
    BY <1>5 DEF CreateArea, At, Goto, TypeOK, Local
  <2>2. CreateRuns'
    BY <1>0, <2>1 DEF AreaInv, CreateRuns, Creating
  <2>3. CreateStages'
    BY <1>1, <2>1 DEF AreaInv, CreateStages, Creating
  <2>4. UsersFindArea'
    BY <1>3, <2>1 DEF AreaInv, UsersFindArea
  <2> QED BY <2>2, <2>3, <2>4 DEF AreaInv
<1>6. CASE CreateNum(p)
  <2>1. /\ pc = "c_num" /\ pcn = "c_offset" /\ asset_num' = Cardinality(sim.members)
        /\ UNCHANGED <<channel, area, init_lock, pdu, sim>>
    BY <1>6 DEF CreateNum, At, Goto, TypeOK, Local
  <2>2. CreateRuns'
    BY <1>0, <2>1 DEF AreaInv, CreateRuns, Creating
  <2>3. asset_num' > 0 /\ asset_num = 0 /\ sim.starts > 0 /\ ~pdu[Conductor]
    BY <2>1, FS_EmptySet, FS_CardinalityType DEF AreaInv, CreateRuns, CreateStages, Creating
  <2>4. CreateStages'
    BY <1>1, <2>1, <2>3 DEF AreaInv, CreateStages, Creating
  <2>5. UsersFindArea'
    BY <1>3, <2>1, <2>3
  <2> QED BY <2>2, <2>4, <2>5 DEF AreaInv
<1>7. CASE CreateOffsets(p)
  <2>1. /\ pc = "c_offset" /\ pcn = "c_attach"
        /\ UNCHANGED <<area, asset_num, init_lock, pdu, sim>>
        /\ channel' = [i \in Ids |-> [channel[i] EXCEPT !.offset = SizeBelow(i)]]
    BY <1>7 DEF CreateOffsets, At, Goto, TypeOK, Local
  <2>2. CreateRuns'
    BY <1>0, <2>1 DEF AreaInv, CreateRuns, Creating
  <2>3. LaidOut'
    <3>1. ASSUME NEW i \in Ids PROVE channel'[i].offset = SizeBelow(i)
      BY <2>1 DEF TypeOK, Entry
    <3> QED BY <1>1, <3>1 DEF LaidOut
  <2>4. CreateStages'
    BY <1>1, <2>1, <2>3 DEF AreaInv, CreateStages, Creating
  <2>5. UsersFindArea'
    BY <1>0, <1>3, <2>1 DEF AreaInv, UsersFindArea
  <2> QED BY <2>2, <2>4, <2>5 DEF AreaInv
<1>8. CASE CreateAttach(p)
  <2>1. /\ pc = "c_attach" /\ pcn = "r_unlock"
        /\ UNCHANGED <<channel, area, asset_num, init_lock, sim>>
        /\ pdu'[Conductor]
    BY <1>8 DEF CreateAttach, At, Goto, TypeOK, Local
  <2>2. CreateRuns'
    BY <1>0, <2>1 DEF AreaInv, CreateRuns, Creating
  <2>3. asset_num > 0
    BY <2>1 DEF AreaInv, CreateStages
  <2>4. CreateStages'
    BY <1>1, <1>2, <2>1, <2>3 DEF AreaInv, CreateStages, Creating
  <2>5. UsersFindArea'
    BY <1>3, <2>1, <2>3
  <2> QED BY <2>2, <2>4, <2>5 DEF AreaInv
<1>9. CASE release_pdu_init_lock(p) \/ Reset(p)
  <2>1. /\ pc \in {"idle", "r_unlock"} /\ pcn \in {"idle", "r_unlock"}
        /\ UNCHANGED <<channel, area, asset_num, pdu, sim>>
    <3>1. CASE release_pdu_init_lock(p)
      BY <3>1, LocalTyped DEF release_pdu_init_lock, At, Return, TypeOK
    <3>2. CASE Reset(p)
      BY <3>2 DEF Reset, At, Goto, TypeOK, Local
    <3> QED BY <1>9, <3>1, <3>2
  <2>2. CreateRuns'
    BY <2>1 DEF AreaInv, CreateRuns, Creating
  <2>3. CreateStages'
    BY <1>1, <1>2, <2>1 DEF AreaInv, CreateStages, Creating
  <2>4. UsersFindArea'
    BY <1>0, <1>3, <2>1 DEF AreaInv, UsersFindArea
  <2> QED BY <2>2, <2>3, <2>4 DEF AreaInv
<1> QED BY <1>4, <1>5, <1>6, <1>7, <1>8, <1>9

-----------------------------------------------------------------------------
(* The invariant                                                             *)

LEMMA InitInv == Init => PduInv
<1> SUFFICES ASSUME Init PROVE PduInv
  OBVIOUS
<1>1. \A p \in Procs : proc[p] = Idle /\ proc[p].pc = "idle"
  BY LocalTyped DEF Init
<1>2. TypeOK
  <2>1. channel \in [Ids -> Entry]
    BY DEF Init, Entry
  <2>2. cache \in [Procs -> [Keys -> Ids \cup {NoId}]]
    BY DEF Init
  <2>3. proc \in [Procs -> Local]
    BY LocalTyped DEF Init
  <2>4. told \in [Assets -> [Decls -> {"unasked", "asked", "true", "false"}]]
    BY DEF Init
  <2>5. sim \in [state : {"Stopped", "Runnable", "Running"},
                members : SUBSET Assets, answered : SUBSET Assets, starts : Nat]
    BY DEF Init
  <2>6. /\ channel_num \in 0 .. ChannelMax /\ asset_num \in Nat
        /\ area \in Nat \cup {NoArea} /\ init_lock \in Procs \cup {NoProc}
        /\ dead \subseteq Procs
    BY ConstantFacts DEF Init
  <2>7. busy \in BOOLEAN /\ pdu \in [Procs -> BOOLEAN]
    BY DEF Init
  <2> QED BY <2>1, <2>2, <2>3, <2>4, <2>5, <2>6, <2>7 DEF TypeOK
<1>3. \A p \in Procs : ~Declaring(p) /\ ~InTable(p) /\ ~Naming(p) /\ ~Counting(p)
  BY <1>1 DEF Declaring, InTable, Naming, Counting
<1>4. \A i \in Ids : channel[i].key = NoKey /\ channel[i].size = 0
  BY DEF Init
<1>5. Sized = {} /\ Cardinality(Sized) = 0
  BY <1>4, FS_EmptySet DEF Sized
<1>6. Places /\ SpinLock /\ EntryInWork
  BY <1>1, <1>3 DEF Places, SpinLock, EntryInWork, Init
<1>7. Counted
  BY <1>3, <1>5 DEF Counted, Init
<1>8. KeysBelow /\ CachesRight
  BY <1>4 DEF KeysBelow, CachesRight, Init
<1>9. AnswersRight
  <2>1. \A a \in Assets, k \in Keys : told[a][k] # "true"
    BY DEF Init, Decls
  <2> QED BY <1>1, <1>4, <2>1 DEF AnswersRight
<1>10. AreaInv
  <2>1. proc[Conductor].pc = "idle"
    BY <1>1, ConstantFacts
  <2>2. sim.members = {} /\ IsFiniteSet(sim.members) /\ sim.state = "Stopped"
    BY FS_EmptySet DEF Init
  <2> QED BY <1>1, <2>1, <2>2 DEF AreaInv, CreateRuns, CreateStages, UsersFindArea,
             Creating, Init
<1> QED BY <1>2, <1>6, <1>7, <1>8, <1>9, <1>10 DEF PduInv, DeclareInv

\* A step of create_channel or create_lchannel after the call: it is taken
\* before the first start and leaves the area alone.
LEMMA DeclareStep ==
  ASSUME PduInv, NEW p \in Procs,
         LChannelLock(p) \/ LChannelFind(p) \/ LChannelName(p) \/ LChannelSize(p)
           \/ DirectLock(p) \/ DirectSize(p) \/ CountLoad(p) \/ CountStore(p)
           \/ unlock_channel_table(p)
  PROVE  PduInv'
<1> USE DEF PduInv, DeclareInv, EntriesInv, DeclarePart
<1>1. TypeOK'
  BY DeclareTypes, StoreTypes
<1>2. DeclarePart'
  BY LockDeclare, FindDeclare, NameDeclare, SizeDeclare, DirectSizeDeclare,
     CountLoadDeclare, CountStoreDeclare, UnlockDeclare
<1>3. p \notin dead /\ Declaring(p)
  BY DEF LChannelLock, LChannelFind, LChannelName, LChannelSize, DirectLock, DirectSize,
         CountLoad, CountStore, unlock_channel_table, At, Declaring, InTable
<1>4. sim.starts = 0 /\ p \in Assets
  BY <1>3, AloneInTable
<1>5. UNCHANGED <<asset_num, area, init_lock, pdu, sim, dead>>
  BY DEF LChannelLock, LChannelFind, LChannelName, LChannelSize, DirectLock, DirectSize,
         CountLoad, CountStore, unlock_channel_table, TableOnly, AreaUnchanged
<1>6. /\ \A q \in Procs : q # p => proc'[q] = proc[q]
      /\ proc'[p].pc \notin {"load", "w_load", "write", "crashed"}
  <2>0. proc \in [Procs -> Local] /\ proc[p] \in Local
    BY DEF TypeOK
  <2>1. CASE LChannelLock(p) \/ DirectLock(p)
    BY <2>0, <2>1 DEF LChannelLock, DirectLock, lock_channel_table, Goto, Local
  <2>2. CASE LChannelFind(p)
    BY <2>2, FindEffect
  <2>3. CASE LChannelName(p) \/ LChannelSize(p)
    BY <2>0, <2>3 DEF LChannelName, LChannelSize, Goto, Local
  <2>4. CASE DirectSize(p)
    <3>1. CASE channel[proc[p].id].size = 0
      BY <2>0, <2>4, <3>1 DEF DirectSize, Local
    <3>2. CASE channel[proc[p].id].size # 0
      BY <2>0, <2>4, <3>2 DEF DirectSize, Goto, Local
    <3> QED BY <3>1, <3>2
  <2>5. CASE CountLoad(p)
    BY <2>0, <2>5 DEF CountLoad, Local
  <2>6. CASE CountStore(p)
    BY <2>0, <2>6 DEF CountStore, Goto, Local
  <2>7. CASE unlock_channel_table(p)
    BY <2>0, <2>7, LocalTyped DEF unlock_channel_table, Return
  <2> QED BY <2>1, <2>2, <2>3, <2>4, <2>5, <2>6, <2>7
<1>7. AreaInv'
  BY <1>4, <1>5, <1>6, DeclareArea
<1> QED BY <1>1, <1>2, <1>7

\* The call of create_channel or create_lchannel.
LEMMA CallStep ==
  ASSUME InOrder, PduInv, NEW a \in Assets, NEW d,
         (d \in Keys /\ LChannelCall(a, d)) \/ (d \in Direct /\ DirectCall(a, d))
  PROVE  PduInv'
<1> USE DEF PduInv, DeclareInv, EntriesInv, DeclarePart
<1>1. TypeOK' /\ DeclarePart'
  BY CallTypes, CallDeclare
<1>2. sim.starts = 0 /\ UNCHANGED <<asset_num, area, init_lock, pdu, sim, dead>>
  BY DEF LChannelCall, DirectCall, MayDeclare, AreaUnchanged
<1>3. /\ \A q \in Procs : q # a => proc'[q] = proc[q]
      /\ proc'[a].pc \notin {"load", "w_load", "write", "crashed"}
  <2>1. CASE d \in Keys /\ LChannelCall(a, d)
    BY <2>1, ConstantFacts DEF LChannelCall, Idle, TypeOK
  <2>2. CASE d \in Direct /\ DirectCall(a, d)
    BY <2>2, ConstantFacts DEF DirectCall, Idle, TypeOK
  <2> QED BY <2>1, <2>2
<1>4. AreaInv'
  BY <1>2, <1>3, DeclareArea
<1> QED BY <1>1, <1>4

\* A step of create() or reset(), both of which only the conductor calls.
LEMMA AreaStep ==
  ASSUME PduInv, NEW p \in Procs,
         \/ p = Conductor /\ (CreateCall(p) \/ Reset(p))
         \/ CreateArea(p) \/ CreateNum(p) \/ CreateOffsets(p) \/ CreateAttach(p)
         \/ release_pdu_init_lock(p)
  PROVE  PduInv'
<1> USE DEF PduInv, DeclareInv, EntriesInv, DeclarePart
<1>1. p = Conductor
  BY DEF CreateArea, CreateNum, CreateOffsets, CreateAttach, release_pdu_init_lock, At, Places
<1>2. Reset(p) => sim.starts > 0
  BY <1>1 DEF Reset, AreaInv, UsersFindArea, CreateStages
<1>3. TypeOK'
  BY AreaTypes DEF AreaInv, CreateRuns
<1>4. DeclarePart' /\ Outside
  BY <1>1, <1>2, AreaDeclare
<1>5. AreaInv'
  BY <1>1, <1>4, CreateKeepsArea
<1> QED BY <1>3, <1>4, <1>5

\* A lookup, is_pdu_created, load or a write.
LEMMA UseStep ==
  ASSUME PduInv, NEW p \in Procs,
         \/ IsPduCreated(p) \/ IsPduCreatedLoad(p) \/ WriteLoad(p) \/ Write(p)
         \/ \E k \in Keys : Lookup(p, k) \/ WriteCall(p, k)
  PROVE  PduInv'
<1> USE DEF PduInv, DeclareInv, EntriesInv, DeclarePart
<1>1. TypeOK'
  BY UseTypes
<1>2. DeclarePart' /\ Outside
  BY UseDeclare
<1>3. AreaInv'
  BY <1>2, UseArea
<1> QED BY <1>1, <1>2, <1>3

\* A step of the simulation, or the death of a process.
LEMMA AroundStep ==
  ASSUME InOrder, PduInv,
         \/ \E a \in Assets : Register(a) \/ StartFeedback(a) \/ DropDead(a)
         \/ \E p \in Procs : Die(p)
         \/ Start \/ Stop
  PROVE  PduInv'
<1> USE DEF PduInv, DeclareInv, EntriesInv, DeclarePart
<1>1. TypeOK'
  BY AroundTypes
<1>2. DeclarePart' /\ Outside
  BY AroundDeclare
<1>3. AreaInv'
  BY <1>2, AroundArea
<1> QED BY <1>1, <1>2, <1>3

LEMMA NextInv ==
  ASSUME InOrder, PduInv, [Next]_vars
  PROVE  PduInv'
<1>1. ASSUME NEW p \in Procs, Step(p) PROVE PduInv'
  BY <1>1, DeclareStep, AreaStep, UseStep DEF Step
<1>2. CASE CreateCall(Conductor) \/ Reset(Conductor)
  BY <1>2, AreaStep, ConstantFacts
<1>3. ASSUME NEW a \in Assets,
             Register(a) \/ StartFeedback(a) \/ DropDead(a) \/ IsPduCreated(a)
      PROVE  PduInv'
  BY <1>3, AroundStep, UseStep, ConstantFacts
<1>4. ASSUME NEW a \in Assets, NEW k \in Keys, LChannelCall(a, k) \/ WriteCall(a, k)
      PROVE  PduInv'
  BY <1>4, CallStep, UseStep, ConstantFacts
<1>5. ASSUME NEW p \in Procs, NEW k \in Keys, Lookup(p, k) PROVE PduInv'
  BY <1>5, UseStep
<1>6. ASSUME NEW a \in Assets, NEW i \in Direct, DirectCall(a, i) PROVE PduInv'
  BY <1>6, CallStep
<1>7. CASE (\E p \in Procs : Die(p)) \/ Start \/ Stop
  BY <1>7, AroundStep
<1>8. CASE UNCHANGED vars
  <2>1. TypeOK' /\ Places' /\ SpinLock'
    BY <1>8 DEF PduInv, DeclareInv, TypeOK, Places, SpinLock, Declaring, InTable, Naming, vars
  <2>2. EntryInWork' /\ Counted' /\ KeysBelow' /\ CachesRight' /\ AnswersRight'
    BY <1>8 DEF PduInv, DeclareInv, EntryInWork, Counted, KeysBelow, CachesRight, AnswersRight,
       Naming, Counting, Sized, NoneDirect, Scan, vars
  <2>3. pdu_total_size' = pdu_total_size /\ \A i \in Ids : SizeBelow(i)' = SizeBelow(i)
    BY <1>8 DEF pdu_total_size, SizeBelow, Sizes, vars
  <2>4. CreateRuns' /\ CreateStages' /\ UsersFindArea'
    BY <1>8, <2>3 DEF PduInv, AreaInv, CreateRuns, CreateStages, UsersFindArea, Creating,
       Sized, LaidOut, vars
  <2> QED BY <2>1, <2>2, <2>4 DEF PduInv, DeclareInv, AreaInv
<1> QED BY <1>1, <1>2, <1>3, <1>4, <1>5, <1>6, <1>7, <1>8 DEF Next

-----------------------------------------------------------------------------
(* The theorems                                                              *)

\* While channels are declared before the first start only, the invariant
\* holds in every state: what create_channel, create_lchannel, create, load
\* and reset assume of each other.
THEOREM PduInvariance ==
  ASSUME InOrder = TRUE
  PROVE  Spec => []PduInv
<1>1. Init => PduInv
  BY InitInv
<1>2. PduInv /\ [Next]_vars => PduInv'
  BY NextInv
<1> QED BY <1>1, <1>2, PTL DEF Spec

\* Table, area, caches and the local variables of the calls keep their types;
\* in particular channel_num never exceeds the length of the table, although
\* create_channel and create_lchannel count with a plain ++.
THEOREM TypeCorrectness ==
  ASSUME InOrder = TRUE
  PROVE  Spec => []TypeOK
<1>1. PduInv => TypeOK
  BY DEF PduInv, DeclareInv
<1> QED BY <1>1, PduInvariance, PTL

\* However the declarations interleave, no key is declared twice, a cached
\* number is the number of its key, and the spin lock is held by a process in
\* the table only (create_lchannel, get_pdu_channel, lock_channel_table).
THEOREM TableStaysConsistent ==
  ASSUME InOrder = TRUE
  PROVE  Spec => []TableConsistent
<1>1. PduInv => TableConsistent
  BY DEF PduInv, DeclareInv, KeysBelow, CachesRight, SpinLock, TableConsistent
<1> QED BY <1>1, PduInvariance, PTL

\* As long as no channel was declared by number, create_lchannel returns true
\* only for a channel that every process finds.
THEOREM DeclaredCanBeFound ==
  ASSUME InOrder = TRUE
  PROVE  Spec => []DeclaredIsFound
<1>1. PduInv => DeclaredIsFound
  <2> SUFFICES ASSUME PduInv, NoneDirect, NEW a \in Assets, NEW k \in Keys,
                      told[a][k] = "true", NEW p \in Procs
               PROVE  get_pdu_channel(p, k) # NoId
    BY DEF DeclaredIsFound, NoneDirect
  <2>1. Scan(k) # {}
    BY DEF PduInv, DeclareInv, AnswersRight
  <2> QED BY <2>1, LookupFacts DEF PduInv, DeclareInv
<1> QED BY <1>1, PduInvariance, PTL

\* Whoever has the address of the area finds every channel inside it and no
\* two overlapping, unless the conductor was killed between publishing the
\* number of assets and storing the offsets (create, load_memory).
THEOREM LayoutIsSound ==
  ASSUME InOrder = TRUE
  PROVE  Spec => []LayoutHolds
<1>1. PduInv => LayoutHolds
  <2> SUFFICES ASSUME PduInv, NEW p \in Procs, pdu[p], ~HalfCreated,
                      NEW i \in Ids
               PROVE  /\ channel[i].offset + channel[i].size <= area
                      /\ \A j \in Ids : i < j =>
                           channel[i].offset + channel[i].size <= channel[j].offset
    BY DEF LayoutHolds
  <2>1. LaidOut /\ area = pdu_total_size
    BY DEF PduInv, AreaInv, UsersFindArea, CreateStages, HalfCreated
  <2>2. Sizes \in [Ids -> Nat] /\ Sizes[i] = channel[i].size
    BY SizesTyped DEF PduInv, DeclareInv
  <2>3. /\ SizeBelow(i) + channel[i].size <= pdu_total_size
        /\ \A j \in Ids : i < j => SizeBelow(i) + channel[i].size <= SizeBelow(j)
    BY <2>2, SumsLayout DEF SizeBelow, pdu_total_size
  <2> QED BY <2>1, <2>3 DEF LaidOut
<1> QED BY <1>1, PduInvariance, PTL

\* write_pdu ignores what load() returns, and still never copies through a
\* null address: the load it calls succeeds.
THEOREM WritesAreSafe ==
  ASSUME InOrder = TRUE
  PROVE  Spec => []NobodyCrashes
<1>1. PduInv => NobodyCrashes
  BY DEF PduInv, AreaInv, UsersFindArea, NobodyCrashes
<1> QED BY <1>1, PduInvariance, PTL
=============================================================================
