------------------------- MODULE AtomicDictProofs -------------------------
(***************************************************************************)
(* AtomicDict's table and the operations that read all of it, for every    *)
(* set of threads, readers, keys and values, every table size, page size   *)
(* and hash function. Three parts, of which each uses the one before it:   *)
(* the table of AtomicDictTable keeps its shape; it implements the map of  *)
(* AtomicMap; and the bulk reads of BulkReads return what they should. The *)
(* first two use none of BulkReads and none of its assumptions.            *)
(*                                                                         *)
(* The first part. The index never holds two live entries with one key.    *)
(* Slots only age (empty, then a node, then a tombstone) and reachable     *)
(* entries keep their key and stay deleted once deleted; so what an        *)
(* inserting thread has found out about the slots behind it stays true     *)
(* whatever the others do (OthersKeep), and when its compare-and-exchange  *)
(* finds an empty slot no live entry of its key can be anywhere: not       *)
(* before that slot, and not after it, because a node's probe sequence has *)
(* no empty slot before the node.                                          *)
(***************************************************************************)
EXTENDS BulkReads, FiniteSetTheorems, TLAPS

Inv == TypeOK /\ ProbeInvariant /\ OneLiveEntryPerKey

\* A step of thread t leaves the others' variables and entries alone.
Others(t) ==
  \A u \in Threads \ {t} :
    /\ pc'[u] = pc[u] /\ op'[u] = op[u] /\ out'[u] = out[u]
    /\ distance'[u] = distance[u] /\ location'[u] = location[u]
    /\ found'[u] = found[u] /\ value'[u] = value[u]
    /\ location[u] # 0 => entry_key'[location[u]] = entry_key[location[u]]

\* What no step does to slots and to reachable entries.
TableAges ==
  /\ \A p \in Slots : index[p] # EMPTY => index'[p] \in {index[p], TOMBSTONE}
  /\ \A e \in Locations \ Private :
       /\ entry_key'[e] = entry_key[e]
       /\ entry_value[e] = NULL => entry_value'[e] = NULL
  /\ Private' \subseteq Private

\* A step that publishes no entry.
PublishesNothing == \A p \in Slots : index'[p] \in {index[p], TOMBSTONE}

\* What a thread that looks at an entry knows about its node: it is still
\* there, or it was buried by whoever set the entry's value to NULL.
Burial(t) ==
  /\ pc[t] \in Examining =>
       \/ index[Slot(t)] = found[t]
       \/ /\ index[Slot(t)] = TOMBSTONE
          /\ entry_value[found[t]] = NULL
          /\ pc[t] # "tombstone"
  /\ pc[t] = "delete" => value[t] # NULL
  /\ pc[t] = "tombstone" => entry_value[found[t]] = NULL

\* Each deleted entry is buried by one thread.
OneUndertaker ==
  \A t, u \in Threads :
    pc[t] = "tombstone" /\ pc[u] = "tombstone" /\ found[t] = found[u] => t = u

BurialInv == OneUndertaker /\ \A t \in Threads : Burial(t)

\* Every slot in use was paid for with an entry that is no longer private.
Used == {p \in Slots : index[p] # EMPTY}
Headroom == Cardinality(Used) + Cardinality(Private) <= Size - 1
-----------------------------------------------------------------------------
\* A probe stays inside the index.
LEMMA SlotAtType ==
  ASSUME NEW k \in Keys, NEW d \in Nat
  PROVE  SlotAt(k, d) \in Slots
<1>1. Distance0[k] + d \in Nat
  BY HashAssumption, SizeAssumption
<1>2. QED
  BY <1>1, SizeAssumption DEF SlotAt, Slots

\* A call is a compare_and_set, a delete or a get; it is never NULL.
LEMMA CallType ==
  ASSUME NEW call \in Map!Calls
  PROVE  /\ call # NULL
         /\ call.key \in Keys
         /\ call.name \in {"cas", "del", "get"}
         /\ call.name = "cas" => call.desired \in Values
BY ConstantsDistinct DEF Map!Calls

\* A thread that is not idle executes a call.
LEMMA PendingCall ==
  ASSUME Inv, NEW t \in Threads, pc[t] # "idle"
  PROVE  /\ op[t] \in Map!Calls
         /\ op[t] # NULL
         /\ op[t].key \in Keys
         /\ op[t].name = "cas" => op[t].desired \in Values
<1>1. op[t] # NULL /\ op[t] \in Map!Calls \cup {NULL}
  BY DEF Inv, TypeOK, ProbeInvariant, ThreadState
<1>2. QED
  BY <1>1, CallType

\* A key's binding is a value or NOT_FOUND.
LEMMA BindingType ==
  ASSUME TypeOK, NEW k \in Keys
  PROVE  Binding(k) \in Values \cup {NOT_FOUND}
<1>1. CASE \E p \in Slots : LiveAt(p, k)
  <2> DEFINE p == CHOOSE p \in Slots : LiveAt(p, k)
  <2>1. p \in Slots /\ LiveAt(p, k)
    BY <1>1
  <2>2. entry_value[index[p]] \in Values
    BY <2>1 DEF LiveAt, IsEntry, TypeOK
  <2>3. QED
    BY <1>1, <2>2 DEF Binding
<1>2. CASE ~ \E p \in Slots : LiveAt(p, k)
  BY <1>2 DEF Binding
<1>3. QED
  BY <1>1, <1>2

\* TOMBSTONE, EMPTY and locations are three different things.
LEMMA NodeKinds ==
  /\ TOMBSTONE # EMPTY
  /\ ~IsEntry(TOMBSTONE) /\ ~IsEntry(EMPTY)
  /\ \A n : IsEntry(n) <=> n \in Locations
  /\ \A e \in Locations : e # EMPTY /\ e # 0
BY SizeAssumption DEF TOMBSTONE, EMPTY, IsEntry, Locations
-----------------------------------------------------------------------------
\* A slot that holds a dead entry, another key's entry or a tombstone never
\* becomes live for key k.
LEMMA DeadStaysDead ==
  ASSUME Inv, TypeOK', TableAges, NEW p \in Slots, NEW k \in Keys,
         index[p] # EMPTY, ~LiveAt(p, k)
  PROVE  index'[p] # EMPTY /\ ~LiveAt(p, k)'
<1>1. index'[p] \in {index[p], TOMBSTONE}
  BY DEF TableAges
<1>2. CASE index'[p] = TOMBSTONE
  BY <1>2, NodeKinds DEF LiveAt, IsEntry
<1>3. CASE index'[p] = index[p] /\ ~IsEntry(index[p])
  BY <1>3 DEF LiveAt, IsEntry
<1>4. CASE index'[p] = index[p] /\ IsEntry(index[p])
  <2>1. index[p] \in Locations \ Private
    BY <1>4, NodeKinds DEF Inv, ProbeInvariant, NodeState
  <2>2. QED
    BY <1>4, <2>1 DEF LiveAt, TableAges, IsEntry
<1>5. QED
  BY <1>1, <1>2, <1>3, <1>4

\* A slot that is live for a key after a step which published nothing there
\* was live before it.
LEMMA LiveWasLive ==
  ASSUME Inv, TypeOK', TableAges, NEW p \in Slots, NEW k \in Keys,
         index'[p] \in {index[p], TOMBSTONE}, LiveAt(p, k)'
  PROVE  LiveAt(p, k)
<1>1. index'[p] # TOMBSTONE
  BY NodeKinds DEF LiveAt, IsEntry
<1>2. index'[p] = index[p] /\ IsEntry(index[p])
  BY <1>1 DEF LiveAt, IsEntry
<1>3. index[p] # EMPTY
  BY <1>2, NodeKinds
<1>4. QED
  BY <1>3, DeadStaysDead

\* A step that publishes no node and brings no entry back to life leaves each key
\* at most one live entry.
LEMMA OneLiveKept ==
  ASSUME Inv, TypeOK', TableAges, PublishesNothing
  PROVE  OneLiveEntryPerKey'
<1> SUFFICES ASSUME NEW p \in Slots, NEW q \in Slots, NEW k \in Keys,
                    LiveAt(p, k)', LiveAt(q, k)'
             PROVE  p = q
  BY DEF OneLiveEntryPerKey
<1>1. LiveAt(p, k) /\ LiveAt(q, k)
  BY LiveWasLive DEF PublishesNothing
<1>2. QED
  BY <1>1 DEF Inv, OneLiveEntryPerKey

\* What the other threads know survives a step of thread t.
LEMMA OthersKeep ==
  ASSUME Inv, TypeOK', TableAges, NEW t \in Threads, Others(t),
         NEW u \in Threads \ {t}
  PROVE  ThreadState(u)' /\ ProbeState(u)'
<1>1. ThreadState(u) /\ ProbeState(u)
  BY DEF Inv, ProbeInvariant
<1>2. ThreadState(u)'
  BY <1>1 DEF ThreadState, Others, TableAges, MayInsert
<1>3. ASSUME pc[u] \in Inserting
      PROVE  ProbeState(u)'
  <2>1. PICK k \in Keys : k = op[u].key
    BY <1>3, PendingCall DEF Inserting
  <2>2. ASSUME NEW d \in 0..(distance[u] - 1)
        PROVE  index'[SlotAt(k, d)] # EMPTY /\ ~LiveAt(SlotAt(k, d), k)'
    <3>1. PICK p \in Slots : p = SlotAt(k, d)
      BY <2>2, SlotAtType
    <3>2. index[p] # EMPTY /\ ~LiveAt(p, k)
      BY <1>1, <1>3, <2>1, <2>2, <3>1 DEF ProbeState
    <3>3. index'[p] # EMPTY /\ ~LiveAt(p, k)'
      BY <3>2, DeadStaysDead
    <3>4. QED
      BY <3>1, <3>3 DEF LiveAt, IsEntry
  <2>3. ASSUME pc[u] \in Examining
        PROVE  index'[Slot(u)] \in {found[u], TOMBSTONE}
    <3>1. Slot(u) \in Slots
      BY <2>1, SlotAtType DEF Slot, Inv, TypeOK
    <3>2. index[Slot(u)] \in {found[u], TOMBSTONE}
      BY <1>1, <1>3, <2>3 DEF ProbeState
    <3>3. found[u] \in Locations
      BY <1>1, <2>3 DEF ThreadState
    <3>4. QED
      BY <3>1, <3>2, <3>3, NodeKinds DEF TableAges
  <2>4. /\ pc'[u] = pc[u] /\ op'[u] = op[u]
        /\ distance'[u] = distance[u] /\ found'[u] = found[u]
    BY DEF Others
  <2>5. QED
    BY <2>1, <2>2, <2>3, <2>4 DEF ProbeState, Slot, SlotAt, LiveAt, IsEntry
<1>4. pc'[u] = pc[u]
  BY DEF Others
<1>5. QED
  BY <1>2, <1>3, <1>4 DEF ProbeState

\* A node that stays where it is keeps its properties, provided that whatever
\* was published meanwhile was private.
LEMMA NodeKept ==
  ASSUME Inv, TypeOK', TableAges, NEW p \in Slots, index'[p] = index[p],
         \A q \in Slots : index'[q] \in {index[q], TOMBSTONE} \cup Private
  PROVE  NodeState(p)'
<1> SUFFICES ASSUME IsEntry(index[p])
             PROVE  NodeState(p)'
  BY DEF NodeState, IsEntry
<1>1. NodeState(p)
  BY DEF Inv, ProbeInvariant
<1>2. /\ index[p] \in Locations \ Private
      /\ index[p] \notin Private'
      /\ entry_key'[index[p]] = entry_key[index[p]]
      /\ entry_key[index[p]] \in Keys
  BY <1>1, NodeKinds DEF NodeState, TableAges
<1>3. \A q \in Slots : index'[q] = index[p] => q = p
  BY <1>1, <1>2, NodeKinds DEF NodeState
<1>4. PICK d \in 0..(Size - 1) :
        /\ p = SlotAt(entry_key[index[p]], d)
        /\ \A c \in 0..(d - 1) : index[SlotAt(entry_key[index[p]], c)] # EMPTY
  BY <1>1 DEF NodeState
<1>5. ASSUME NEW c \in 0..(d - 1)
      PROVE  index'[SlotAt(entry_key[index[p]], c)] # EMPTY
  <2>1. SlotAt(entry_key[index[p]], c) \in Slots
    BY <1>2, <1>5, SlotAtType
  <2>2. index[SlotAt(entry_key[index[p]], c)] # EMPTY
    BY <1>4, <1>5
  <2>3. QED
    BY <2>1, <2>2, NodeKinds DEF TableAges
<1>6. QED
  BY <1>2, <1>3, <1>4, <1>5 DEF NodeState, SlotAt, IsEntry

\* Steps that publish nothing: only thread t's own state is left to check.
LEMMA QuietStep ==
  ASSUME Inv, TypeOK', TableAges, PublishesNothing,
         NEW t \in Threads, Others(t), Ownership',
         ThreadState(t)', ProbeState(t)'
  PROVE  Inv'
<1>1. \A u \in Threads : ThreadState(u)' /\ ProbeState(u)'
  BY OthersKeep
<1>2. ASSUME NEW p \in Slots
      PROVE  NodeState(p)'
  <2>1. CASE index'[p] = index[p]
    BY <2>1, NodeKept DEF PublishesNothing
  <2>2. CASE index'[p] = TOMBSTONE
    BY <2>2, NodeKinds DEF NodeState, IsEntry
  <2>3. QED
    BY <2>1, <2>2 DEF PublishesNothing
<1>3. OneLiveEntryPerKey'
  BY OneLiveKept
<1>4. QED
  BY <1>1, <1>2, <1>3 DEF Inv, ProbeInvariant
-----------------------------------------------------------------------------
\* The types of what Goto, Finish, Probe and TryUpdate assign.
LEMMA ProbeType ==
  ASSUME TypeOK, NEW t \in Threads, distance[t] < Size,
         NEW label \in Labels, NEW result \in Results, Probe(t, label, result)
  PROVE  /\ distance' \in [Threads -> 0..Size]
         /\ pc' \in [Threads -> Labels]
         /\ out' \in [Threads -> Results \cup {NULL}]
         /\ pc'[t] # "finish" => distance'[t] < Size
<1>1. distance[t] + 1 \in 0..Size
  BY SizeAssumption DEF TypeOK
<1>2. "finish" \in Labels
  BY DEF Labels
<1>3. CASE distance[t] + 1 >= Size
  BY <1>1, <1>2, <1>3 DEF TypeOK, Probe, Finish, Goto
<1>4. CASE ~(distance[t] + 1 >= Size)
  BY <1>1, <1>2, <1>4, SizeAssumption DEF TypeOK, Probe, Goto
<1>5. QED
  BY <1>3, <1>4

\* Steps that only read the table (and update thread t's own variables).
LEMMA ReadStep ==
  ASSUME Inv, TypeOK', NEW t \in Threads, UNCHANGED <<tableVars, location>>,
         location[t] = 0 \/ out[t] # NOT_FOUND,
         \A u \in Threads \ {t} :
           /\ pc'[u] = pc[u] /\ op'[u] = op[u] /\ out'[u] = out[u]
           /\ distance'[u] = distance[u] /\ found'[u] = found[u]
           /\ value'[u] = value[u],
         ThreadState(t)', ProbeState(t)'
  PROVE  Inv' /\ TableAges
<1>1. Others(t) /\ PublishesNothing /\ Ownership'
  BY DEF Others, PublishesNothing, Ownership, tableVars, Inv, ProbeInvariant
<1>2. TableAges
  BY DEF TableAges, Private, tableVars
<1>3. QED
  BY <1>1, <1>2, QuietStep

\* A thread that has passed one more slot, where no live entry of its key is,
\* still has nothing behind it.
LEMMA ProbeStep ==
  ASSUME Inv, TypeOK', NEW t \in Threads, pc[t] \in Inserting,
         UNCHANGED <<tableVars, location, op>>,
         index[Slot(t)] # EMPTY, ~LiveAt(Slot(t), op[t].key),
         distance'[t] = distance[t] + 1, pc'[t] \in {"read_node", "finish"}
  PROVE  ProbeState(t)'
<1>1. ProbeState(t) /\ distance[t] \in Nat
  BY DEF Inv, ProbeInvariant, TypeOK
<1>2. ASSUME NEW d \in 0..distance[t]
      PROVE  /\ index[SlotAt(op[t].key, d)] # EMPTY
             /\ ~LiveAt(SlotAt(op[t].key, d), op[t].key)
  <2>1. CASE d = distance[t]
    BY <2>1 DEF Slot
  <2>2. CASE d \in 0..(distance[t] - 1)
    BY <1>1, <2>2 DEF ProbeState
  <2>3. QED
    BY <1>1, <1>2, <2>1, <2>2
<1>3. pc'[t] \notin Examining
  BY DEF Examining
<1>4. QED
  BY <1>1, <1>2, <1>3 DEF ProbeState, SlotAt, LiveAt, IsEntry, tableVars
-----------------------------------------------------------------------------
\* The empty table create_atomic_dict returns satisfies the inductive invariant.
LEMMA InitInv == Init => Inv
<1> SUFFICES ASSUME Init PROVE Inv
  OBVIOUS
<1>1. TypeOK
  BY SizeAssumption, EqAssumption
     DEF Init, InitTable, InitThreads, TypeOK, Labels, Results, EMPTY, TOMBSTONE, Slots, Locations
<1>2. ProbeInvariant
  BY SizeAssumption, ConstantsDistinct
     DEF Init, InitTable, InitThreads, ProbeInvariant, Ownership, ThreadState, ProbeState, NodeState,
         EMPTY, Slots, Locations, IsEntry, Inserting, Examining
<1>3. OneLiveEntryPerKey
  BY DEF Init, InitTable, InitThreads, OneLiveEntryPerKey, LiveAt, IsEntry, EMPTY, Locations
<1>4. QED
  BY <1>1, <1>2, <1>3 DEF Inv

\* The step Call preserves the inductive invariant.
LEMMA CallInv ==
  ASSUME Inv, NEW t \in Threads, NEW call \in Map!Calls, Call(t, call)
  PROVE  Inv' /\ TableAges
<1>1. ThreadState(t) /\ call # NULL /\ call.key \in Keys
  BY CallType DEF Inv, ProbeInvariant
<1>2. TypeOK'
  BY <1>1, BindingType, EqAssumption
     DEF Inv, TypeOK, Call, Goto, Labels, tableVars
<1>3. ThreadState(t)'
  BY <1>1, CallType, SizeAssumption
     DEF Inv, TypeOK, ThreadState, Call, Goto, MayInsert, Inserting,
         Examining
<1>4. ProbeState(t)'
  BY <1>1 DEF Inv, TypeOK, ThreadState, ProbeState, Call, Goto, Examining
<1>5. QED
  BY <1>1, <1>2, <1>3, <1>4, ReadStep
     DEF Inv, TypeOK, ThreadState, Call, Goto, tableVars

\* The step NoEmptyEntry preserves the inductive invariant.
LEMMA NoEmptyEntryInv ==
  ASSUME Inv, NEW t \in Threads, NoEmptyEntry(t)
  PROVE  Inv' /\ TableAges
<1>1. ThreadState(t)
  BY DEF Inv, ProbeInvariant
<1>2. TypeOK'
  BY DEF Inv, TypeOK, NoEmptyEntry, Finish, Goto, Labels, Results, tableVars
<1>3. ThreadState(t)' /\ ProbeState(t)'
  BY <1>1, ConstantsDistinct
     DEF Inv, TypeOK, ThreadState, ProbeState, NoEmptyEntry, Finish, Goto,
         Inserting, Examining
<1>4. QED
  BY <1>1, <1>2, <1>3, ReadStep
     DEF Inv, TypeOK, ThreadState, NoEmptyEntry, Finish, Goto

\* The step ReadNode preserves the inductive invariant.
LEMMA ReadNodeInv ==
  ASSUME Inv, NEW t \in Threads, ReadNode(t)
  PROVE  Inv' /\ TableAges
<1>1. PICK k \in Keys : k = op[t].key
  BY PendingCall DEF ReadNode
<1>2. /\ ThreadState(t) /\ ProbeState(t) /\ distance[t] < Size
      /\ pc[t] \in Inserting /\ pc[t] \notin Examining
  BY DEF Inv, ProbeInvariant, ThreadState, ReadNode, Inserting, Examining
<1>3. Slot(t) \in Slots /\ NodeState(Slot(t))
  BY <1>1, SlotAtType DEF Slot, Inv, TypeOK, ProbeInvariant
<1>4. /\ {"read_node", "cas_node", "read_entry", "finish"} \subseteq Labels
      /\ {MUST_GROW, EXPECTATION_FAILED} \subseteq Results
  BY DEF Labels, Results
<1>5. TypeOK'
  <2>1. Probe(t, "read_node", MUST_GROW) =>
          /\ distance' \in [Threads -> 0..Size] /\ pc' \in [Threads -> Labels]
          /\ out' \in [Threads -> Results \cup {NULL}]
    BY <1>2, <1>4, ProbeType DEF Inv
  <2>2. /\ distance' \in [Threads -> 0..Size] /\ pc' \in [Threads -> Labels]
        /\ out' \in [Threads -> Results \cup {NULL}] /\ found' \in [Threads -> {0} \cup Locations]
    BY <1>4, <2>1 DEF Inv, TypeOK, ReadNode, Finish, Goto, CheckTag, IsEntry
  <2>3. QED
    BY <2>2 DEF Inv, TypeOK, ReadNode, tableVars
<1>6. ThreadState(t)'
  <2>1. CASE index[Slot(t)] = EMPTY
    BY <1>2, <2>1, ConstantsDistinct, NodeKinds
       DEF Inv, TypeOK, ThreadState, ReadNode, Finish, Goto, CheckTag,
           MayInsert, Inserting, Examining, tableVars
  <2>2. CASE index[Slot(t)] # EMPTY /\ ~CheckTag(index[Slot(t)], op[t].key)
    BY <1>2, <1>4, <2>2, ProbeType, ConstantsDistinct
       DEF Inv, TypeOK, ThreadState, ReadNode, Probe, Finish, Goto, MayInsert,
           Inserting, Examining, tableVars
  <2>3. CASE CheckTag(index[Slot(t)], op[t].key)
    <3>1. found'[t] \in Locations \ Private
      BY <1>3, <2>3, NodeKinds DEF Inv, TypeOK, ReadNode, CheckTag, NodeState
    <3>2. pc'[t] = "read_entry" /\ UNCHANGED <<distance, out>>
      BY <2>3, NodeKinds DEF Inv, TypeOK, ReadNode, CheckTag, Goto
    <3>3. Private' = Private
      BY <3>2 DEF Private, ReadNode, tableVars
    <3>4. QED
      BY <1>2, <3>1, <3>2, <3>3
         DEF ThreadState, ReadNode, MayInsert, Inserting, Examining, tableVars
  <2>4. QED
    BY <2>1, <2>2, <2>3
<1>7. ProbeState(t)'
  <2>1. CASE index[Slot(t)] = EMPTY \/ CheckTag(index[Slot(t)], op[t].key)
    BY <1>2, <2>1, NodeKinds
       DEF Inv, TypeOK, ProbeState, ReadNode, Finish, Goto, CheckTag, Slot,
           LiveAt, Inserting, Examining, tableVars
  <2>2. CASE index[Slot(t)] # EMPTY /\ ~CheckTag(index[Slot(t)], op[t].key)
    <3>1. ~LiveAt(Slot(t), op[t].key)
      BY <2>2 DEF LiveAt, CheckTag
    <3>2. distance'[t] = distance[t] + 1 /\ pc'[t] \in {"read_node", "finish"}
      BY <2>2 DEF Inv, TypeOK, ReadNode, Probe, Finish, Goto
    <3>3. QED
      BY <1>2, <1>5, <2>2, <3>1, <3>2, ProbeStep DEF ReadNode, tableVars
  <2>3. QED
    BY <2>1, <2>2
<1>8. QED
  BY <1>2, <1>5, <1>6, <1>7, ConstantsDistinct, ReadStep
     DEF Inv, TypeOK, ThreadState, ReadNode, Probe, Finish, Goto

\* The step ReadEntry preserves the inductive invariant.
LEMMA ReadEntryInv ==
  ASSUME Inv, NEW t \in Threads, ReadEntry(t)
  PROVE  Inv' /\ TableAges
<1>1. PICK k \in Keys : k = op[t].key
  BY PendingCall DEF ReadEntry
<1>2. /\ ThreadState(t) /\ ProbeState(t) /\ distance[t] < Size
      /\ pc[t] \in Inserting /\ pc[t] \in Examining
      /\ found[t] \in Locations \ Private
  BY DEF Inv, ProbeInvariant, ThreadState, ReadEntry, Inserting, Examining
<1>3. /\ {"read_node", "cas_value", "finish"} \subseteq Labels
      /\ {ERROR, MUST_GROW, EXPECTATION_FAILED} \subseteq Results
  BY DEF Labels, Results
<1>4. TypeOK'
  <2>1. Probe(t, "read_node", MUST_GROW) =>
          /\ distance' \in [Threads -> 0..Size] /\ pc' \in [Threads -> Labels]
          /\ out' \in [Threads -> Results \cup {NULL}]
    BY <1>2, <1>3, ProbeType DEF Inv
  <2>2. /\ distance' \in [Threads -> 0..Size] /\ pc' \in [Threads -> Labels]
        /\ out' \in [Threads -> Results \cup {NULL}] /\ value' \in [Threads -> Values \cup {NULL}]
    BY <1>2, <1>3, <2>1 DEF Inv, TypeOK, ReadEntry, TryUpdate, Finish, Goto
  <2>3. QED
    BY <2>2 DEF Inv, TypeOK, ReadEntry, tableVars
<1>5. Private' = Private
  BY <1>2, ConstantsDistinct
     DEF Inv, TypeOK, Private, ThreadState, ReadEntry, TryUpdate, Probe, Finish,
         Goto, tableVars
<1>6. ThreadState(t)'
  BY <1>2, <1>3, <1>5, ProbeType, ConstantsDistinct
     DEF Inv, TypeOK, ThreadState, ReadEntry, TryUpdate, Finish, Goto, Probe,
         MayInsert, Inserting, Examining, tableVars
<1>7. ProbeState(t)'
  <2>1. CASE pc'[t] = "cas_value" \/ (pc'[t] = "finish" /\ UNCHANGED distance)
    BY <1>2, <2>1
       DEF Inv, TypeOK, ProbeState, ReadEntry, TryUpdate, Probe, Finish, Goto,
           Slot, SlotAt, LiveAt, IsEntry, Inserting, Examining, tableVars
  <2>2. CASE /\ distance'[t] = distance[t] + 1
             /\ pc'[t] \in {"read_node", "finish"}
             /\ ~(entry_value[found[t]] # NULL /\ entry_key[found[t]] = op[t].key)
    <3>1. index[Slot(t)] \in {found[t], TOMBSTONE}
      BY <1>2 DEF ProbeState
    <3>2. index[Slot(t)] # EMPTY /\ ~LiveAt(Slot(t), op[t].key)
      BY <1>2, <2>2, <3>1, NodeKinds DEF LiveAt, IsEntry
    <3>3. QED
      BY <1>2, <1>4, <2>2, <3>2, ProbeStep DEF ReadEntry, tableVars
  <2>3. QED
    BY <2>1, <2>2
       DEF Inv, TypeOK, ReadEntry, TryUpdate, Probe, Finish, Goto
<1>8. QED
  BY <1>2, <1>4, <1>6, <1>7, ConstantsDistinct, ReadStep
     DEF Inv, TypeOK, ThreadState, ReadEntry, TryUpdate, Probe, Finish, Goto

\* The step RereadEntry preserves the inductive invariant.
LEMMA RereadEntryInv ==
  ASSUME Inv, NEW t \in Threads, RereadEntry(t)
  PROVE  Inv' /\ TableAges
<1>1. PICK k \in Keys : k = op[t].key
  BY PendingCall DEF RereadEntry
<1>2. /\ ThreadState(t) /\ ProbeState(t) /\ distance[t] < Size
      /\ pc[t] \in Inserting /\ pc[t] \in Examining
      /\ found[t] \in Locations \ Private
  BY DEF Inv, ProbeInvariant, ThreadState, RereadEntry, Inserting, Examining
<1>3. /\ {"read_node", "cas_value", "finish"} \subseteq Labels
      /\ {MUST_GROW, EXPECTATION_FAILED} \subseteq Results
  BY DEF Labels, Results
<1>4. TypeOK'
  BY <1>2, <1>3, ProbeType
     DEF Inv, TypeOK, RereadEntry, TryUpdate, Finish, Goto, tableVars
<1>5. Private' = Private
  BY <1>2, ConstantsDistinct
     DEF Inv, TypeOK, Private, ThreadState, RereadEntry, TryUpdate, Probe,
         Finish, Goto, tableVars
<1>6. ThreadState(t)'
  BY <1>2, <1>3, <1>5, ProbeType, ConstantsDistinct
     DEF Inv, TypeOK, ThreadState, RereadEntry, TryUpdate, Finish, Goto, Probe,
         MayInsert, Inserting, Examining, tableVars
<1>7. ProbeState(t)'
  <2>1. CASE pc'[t] = "cas_value" \/ (pc'[t] = "finish" /\ UNCHANGED distance)
    BY <1>2, <2>1
       DEF Inv, TypeOK, ProbeState, RereadEntry, TryUpdate, Probe, Finish, Goto,
           Slot, SlotAt, LiveAt, IsEntry, Inserting, Examining, tableVars
  <2>2. CASE /\ distance'[t] = distance[t] + 1
             /\ pc'[t] \in {"read_node", "finish"}
             /\ entry_value[found[t]] = NULL
    <3>1. index[Slot(t)] \in {found[t], TOMBSTONE}
      BY <1>2 DEF ProbeState
    <3>2. index[Slot(t)] # EMPTY /\ ~LiveAt(Slot(t), op[t].key)
      BY <1>2, <2>2, <3>1, NodeKinds DEF LiveAt, IsEntry
    <3>3. QED
      BY <1>2, <1>4, <2>2, <3>2, ProbeStep DEF RereadEntry, tableVars
  <2>3. QED
    BY <2>1, <2>2 DEF Inv, TypeOK, RereadEntry, TryUpdate, Probe, Finish, Goto
<1>8. QED
  BY <1>2, <1>4, <1>6, <1>7, ConstantsDistinct, ReadStep
     DEF Inv, TypeOK, ThreadState, RereadEntry, TryUpdate, Probe, Finish, Goto

\* The step CasValue preserves the inductive invariant.
LEMMA CasValueInv ==
  ASSUME Inv, NEW t \in Threads, CasValue(t)
  PROVE  Inv' /\ TableAges
<1>1. PICK k \in Keys : k = op[t].key /\ op[t].desired \in Values
  BY PendingCall DEF CasValue, Inv, ProbeInvariant, ThreadState, Inserting
<1>2. /\ ThreadState(t) /\ ProbeState(t)
      /\ pc[t] \in Inserting /\ pc[t] \in Examining
      /\ found[t] \in Locations \ Private /\ value[t] \in Values
  BY DEF Inv, TypeOK, ProbeInvariant, ThreadState, CasValue, Inserting, Examining
<1>3. TypeOK'
  BY <1>1, <1>2
     DEF Inv, TypeOK, CasValue, Witness, Finish, Goto, Labels, Results
<1>4. Others(t) /\ PublishesNothing /\ Ownership'
  BY DEF Inv, TypeOK, ProbeInvariant, Others, PublishesNothing, Ownership,
         CasValue, Finish, Goto
<1>5. Private' = Private
  BY <1>2, ConstantsDistinct
     DEF Inv, TypeOK, ThreadState, Private, CasValue, Finish, Goto
<1>6. TableAges
  BY <1>2, <1>5, ConstantsDistinct DEF Inv, TypeOK, TableAges, CasValue
<1>7. ThreadState(t)'
  BY <1>2, <1>5, ConstantsDistinct
     DEF Inv, TypeOK, ThreadState, CasValue, Finish, Goto, MayInsert, Inserting,
         Examining
<1>8. ProbeState(t)'
  BY <1>2
     DEF Inv, TypeOK, ProbeState, CasValue, Finish, Goto, Slot, SlotAt, LiveAt,
         IsEntry, Inserting, Examining
<1>9. QED
  BY <1>3, <1>4, <1>6, <1>7, <1>8, QuietStep

\* The step GetEmptyEntry preserves the inductive invariant.
LEMMA GetEmptyEntryInv ==
  ASSUME Inv, NEW t \in Threads, GetEmptyEntry(t)
  PROVE  Inv' /\ TableAges
<1>1. PICK k \in Keys : k = op[t].key /\ op[t].desired \in Values
  BY PendingCall DEF GetEmptyEntry, Inv, ProbeInvariant, ThreadState
<1>2. ThreadState(t)
  BY DEF Inv, ProbeInvariant
<1>3. PICK e \in free :
        /\ free' = free \ {e}
        /\ location' = [location EXCEPT ![t] = e]
        /\ entry_key' = [entry_key EXCEPT ![e] = op[t].key]
        /\ entry_value' = [entry_value EXCEPT ![e] = op[t].desired]
  BY DEF GetEmptyEntry
<1>4. e \in Locations /\ e # 0
  BY NodeKinds DEF Inv, TypeOK
<1>5. TypeOK'
  BY <1>1, <1>3, <1>4 DEF Inv, TypeOK, GetEmptyEntry, Goto, Labels
<1>6. Others(t) /\ PublishesNothing /\ Ownership'
  BY <1>3, <1>4
     DEF Inv, TypeOK, ProbeInvariant, Others, PublishesNothing, Ownership,
         GetEmptyEntry, Goto
<1>7. Private' \subseteq Private
  BY <1>3 DEF Inv, TypeOK, Private, GetEmptyEntry
<1>8. TableAges
  BY <1>3, <1>7 DEF Inv, TypeOK, TableAges, Private, GetEmptyEntry
<1>9. ThreadState(t)'
  BY <1>1, <1>2, <1>3, <1>4
     DEF Inv, TypeOK, ThreadState, GetEmptyEntry, Goto, MayInsert, Inserting,
         Examining
<1>10. ProbeState(t)'
  BY <1>2
     DEF Inv, TypeOK, ThreadState, ProbeState, GetEmptyEntry, Goto, Examining
<1>11. QED
  BY <1>5, <1>6, <1>8, <1>9, <1>10, QuietStep

\* The step EndCompareAndSet preserves the inductive invariant.
LEMMA EndCompareAndSetInv ==
  ASSUME Inv, NEW t \in Threads, EndCompareAndSet(t)
  PROVE  Inv' /\ TableAges
<1>1. ThreadState(t)
  BY DEF Inv, ProbeInvariant
<1>2. TypeOK'
  BY SizeAssumption DEF Inv, TypeOK, EndCompareAndSet, Goto, Labels
<1>3. Others(t) /\ PublishesNothing
  BY DEF Inv, TypeOK, ProbeInvariant, Others, PublishesNothing, Ownership,
         EndCompareAndSet, Goto
<1>4. Ownership'
  BY <1>1, NodeKinds
     DEF Inv, TypeOK, ProbeInvariant, Ownership, EndCompareAndSet
<1>5. Private' \subseteq Private
  BY DEF Inv, TypeOK, Private, EndCompareAndSet
<1>6. TableAges
  BY <1>5 DEF Inv, TypeOK, TableAges, Private, EndCompareAndSet
<1>7. ThreadState(t)' /\ ProbeState(t)'
  BY SizeAssumption
     DEF Inv, TypeOK, ThreadState, ProbeState, EndCompareAndSet, Goto,
         Inserting, Examining
<1>8. QED
  BY <1>2, <1>3, <1>4, <1>6, <1>7, QuietStep

\* The step LookupNode preserves the inductive invariant.
LEMMA LookupNodeInv ==
  ASSUME Inv, NEW t \in Threads, LookupNode(t)
  PROVE  Inv' /\ TableAges
<1>1. PICK k \in Keys : k = op[t].key
  BY PendingCall DEF LookupNode
<1>2. ThreadState(t) /\ distance[t] < Size /\ location[t] = 0
  BY DEF Inv, ProbeInvariant, ThreadState, LookupNode, Inserting
<1>3. Slot(t) \in Slots /\ NodeState(Slot(t))
  BY <1>1, SlotAtType DEF Slot, Inv, TypeOK, ProbeInvariant
<1>4. {"lookup", "lookup_entry", "finish"} \subseteq Labels /\ NOT_FOUND \in Results
  BY DEF Labels, Results
<1>5. TypeOK'
  BY <1>2, <1>4, ProbeType
     DEF Inv, TypeOK, LookupNode, Finish, Goto, CheckTag, IsEntry, tableVars
<1>6. Private' = Private
  BY <1>2 DEF Inv, TypeOK, Private, LookupNode, Probe, Finish, Goto, tableVars
<1>7. ThreadState(t)'
  <2>1. CASE index[Slot(t)] # EMPTY /\ ~CheckTag(index[Slot(t)], op[t].key)
    BY <1>2, <1>4, <2>1, ProbeType
       DEF Inv, TypeOK, ThreadState, LookupNode, Probe, Finish, Goto, Inserting,
           Examining
  <2>2. CASE index[Slot(t)] = EMPTY \/ CheckTag(index[Slot(t)], op[t].key)
    BY <1>2, <1>3, <1>6, <2>2, NodeKinds
       DEF Inv, TypeOK, ThreadState, NodeState, LookupNode, Finish, Goto,
           CheckTag, Inserting, Examining
  <2>3. QED
    BY <2>1, <2>2
<1>8. ProbeState(t)'
  BY DEF Inv, TypeOK, ProbeState, LookupNode, Probe, Finish, Goto, Inserting
<1>9. QED
  BY <1>2, <1>5, <1>7, <1>8, ReadStep
     DEF Inv, TypeOK, LookupNode, Probe, Finish, Goto

\* The step LookupEntry preserves the inductive invariant.
LEMMA LookupEntryInv ==
  ASSUME Inv, NEW t \in Threads, LookupEntry(t)
  PROVE  Inv' /\ TableAges
<1>1. /\ ThreadState(t) /\ distance[t] < Size /\ location[t] = 0
      /\ found[t] \in Locations \ Private
  BY DEF Inv, ProbeInvariant, ThreadState, LookupEntry, Inserting, Examining
<1>2. /\ {"lookup", "try_incref", "delete", "finish"} \subseteq Labels
      /\ {ERROR, NOT_FOUND} \subseteq Results
  BY DEF Labels, Results
<1>3. TypeOK'
  BY <1>1, <1>2, ProbeType
     DEF Inv, TypeOK, LookupEntry, Finish, Goto, tableVars
<1>4. Private' = Private
  BY <1>1 DEF Inv, TypeOK, Private, LookupEntry, Probe, Finish, Goto, tableVars
<1>5. ThreadState(t)'
  BY <1>1, <1>2, <1>4, ProbeType
     DEF Inv, TypeOK, ThreadState, LookupEntry, Probe, Finish, Goto, Inserting,
         Examining
<1>6. ProbeState(t)'
  BY DEF Inv, TypeOK, ProbeState, LookupEntry, Probe, Finish, Goto, Inserting
<1>7. QED
  BY <1>1, <1>3, <1>5, <1>6, ReadStep
     DEF Inv, TypeOK, LookupEntry, Probe, Finish, Goto

\* The step TryIncref preserves the inductive invariant.
LEMMA TryIncrefInv ==
  ASSUME Inv, NEW t \in Threads, TryIncref(t)
  PROVE  Inv' /\ TableAges
<1>1. /\ ThreadState(t) /\ distance[t] < Size /\ location[t] = 0
      /\ found[t] \in Locations \ Private
  BY DEF Inv, ProbeInvariant, ThreadState, TryIncref, Inserting, Examining
<1>2. TypeOK'
  BY SizeAssumption
     DEF Inv, TypeOK, TryIncref, Finish, Goto, Labels, Results, tableVars
<1>3. ThreadState(t)' /\ ProbeState(t)'
  BY <1>1, SizeAssumption
     DEF Inv, TypeOK, ThreadState, ProbeState, TryIncref, Finish, Goto,
         Inserting, Examining
<1>4. QED
  BY <1>1, <1>2, <1>3, ReadStep DEF Inv, TypeOK, TryIncref, Finish, Goto

\* The step DeleteValue preserves the inductive invariant.
LEMMA DeleteValueInv ==
  ASSUME Inv, NEW t \in Threads, DeleteValue(t)
  PROVE  Inv' /\ TableAges
<1>1. /\ ThreadState(t) /\ distance[t] < Size /\ location[t] = 0
      /\ found[t] \in Locations \ Private
  BY DEF Inv, ProbeInvariant, ThreadState, DeleteValue, Inserting, Examining
<1>2. TypeOK'
  BY <1>1 DEF Inv, TypeOK, DeleteValue, Witness, Goto, Labels, Results
<1>3. Others(t) /\ PublishesNothing /\ Ownership'
  BY DEF Inv, TypeOK, ProbeInvariant, Others, PublishesNothing, Ownership,
         DeleteValue, Goto
<1>4. Private' = Private
  BY <1>1 DEF Inv, TypeOK, Private, DeleteValue
<1>5. TableAges
  BY <1>1, <1>4 DEF Inv, TypeOK, TableAges, DeleteValue
<1>6. ThreadState(t)' /\ ProbeState(t)'
  BY <1>1, <1>4
     DEF Inv, TypeOK, ThreadState, ProbeState, DeleteValue, Goto, Inserting,
         Examining
<1>7. QED
  BY <1>2, <1>3, <1>5, <1>6, QuietStep

\* The step DeleteReread preserves the inductive invariant.
LEMMA DeleteRereadInv ==
  ASSUME Inv, NEW t \in Threads, DeleteReread(t)
  PROVE  Inv' /\ TableAges
<1>1. /\ ThreadState(t) /\ distance[t] < Size /\ location[t] = 0
      /\ found[t] \in Locations \ Private
  BY DEF Inv, ProbeInvariant, ThreadState, DeleteReread, Inserting, Examining
<1>2. TypeOK'
  BY <1>1 DEF Inv, TypeOK, DeleteReread, Finish, Goto, Labels, Results, tableVars
<1>3. Private' = Private
  BY <1>1 DEF Inv, TypeOK, Private, DeleteReread, Finish, tableVars
<1>4. ThreadState(t)' /\ ProbeState(t)'
  BY <1>1, <1>3
     DEF Inv, TypeOK, ThreadState, ProbeState, DeleteReread, Finish, Goto,
         Inserting, Examining
<1>5. QED
  BY <1>1, <1>2, <1>4, ReadStep DEF Inv, TypeOK, DeleteReread, Finish, Goto

\* The step WriteTombstone preserves the inductive invariant.
LEMMA WriteTombstoneInv ==
  ASSUME Inv, NEW t \in Threads, WriteTombstone(t)
  PROVE  Inv' /\ TableAges
<1>1. /\ ThreadState(t) /\ location[t] = 0
      /\ found[t] \in Locations \ Private
  BY DEF Inv, ProbeInvariant, ThreadState, WriteTombstone, Inserting, Examining
<1>2. TypeOK'
  BY DEF Inv, TypeOK, WriteTombstone, Goto, Labels
<1>3. Others(t) /\ PublishesNothing /\ Ownership'
  BY DEF Inv, TypeOK, ProbeInvariant, Others, PublishesNothing, Ownership,
         WriteTombstone, Goto
<1>4. Private' = Private
  BY DEF Private, WriteTombstone
<1>5. TableAges
  BY <1>3, <1>4 DEF TableAges, PublishesNothing, WriteTombstone
<1>6. ThreadState(t)' /\ ProbeState(t)'
  BY <1>1
     DEF Inv, TypeOK, ThreadState, ProbeState, WriteTombstone, Goto, Inserting,
         Examining
<1>7. QED
  BY <1>2, <1>3, <1>5, <1>6, QuietStep

\* The step EndLookup preserves the inductive invariant.
LEMMA EndLookupInv ==
  ASSUME Inv, NEW t \in Threads, EndLookup(t)
  PROVE  Inv' /\ TableAges
<1>1. ThreadState(t) /\ location[t] = 0
  BY DEF Inv, ProbeInvariant, ThreadState, EndLookup
<1>2. TypeOK'
  BY SizeAssumption DEF Inv, TypeOK, EndLookup, Goto, Labels, tableVars
<1>3. ThreadState(t)' /\ ProbeState(t)'
  BY <1>1, SizeAssumption
     DEF Inv, TypeOK, ThreadState, ProbeState, EndLookup, Goto, Inserting,
         Examining
<1>4. QED
  BY <1>1, <1>2, <1>3, ReadStep DEF Inv, TypeOK, EndLookup, Goto

\* The step CasNode preserves the inductive invariant.
LEMMA CasNodeInv ==
  ASSUME Inv, NEW t \in Threads, CasNode(t)
  PROVE  Inv' /\ TableAges
<1>1. PICK k \in Keys : k = op[t].key
  BY PendingCall DEF CasNode
<1>2. /\ ThreadState(t) /\ ProbeState(t) /\ distance[t] \in 0..(Size - 1)
      /\ pc[t] \in Inserting /\ out[t] = NULL
      /\ location[t] \in Locations /\ entry_key[location[t]] = k
  BY <1>1, SizeAssumption, ConstantsDistinct
     DEF Inv, TypeOK, ProbeInvariant, ThreadState, CasNode, Inserting
<1>3. PICK p \in Slots : p = Slot(t) /\ p = SlotAt(k, distance[t])
  BY <1>1, <1>2, SlotAtType DEF Slot
<1>4. CASE index[p] # EMPTY
  <2>1. TypeOK'
    BY <1>3, <1>4 DEF Inv, TypeOK, CasNode, Goto, Labels
  <2>2. /\ pc'[t] = "read_node"
        /\ UNCHANGED <<index, entry_key, entry_value, free, op, out, distance,
                       location, found, value>>
    BY <1>3, <1>4 DEF Inv, TypeOK, CasNode, Goto
  <2>3. ThreadState(t)'
    BY <1>2, <2>2 DEF ThreadState, MayInsert, Inserting, Examining
  <2>4. ProbeState(t)'
    BY <1>2, <2>2
       DEF ProbeState, Slot, SlotAt, LiveAt, IsEntry, Inserting, Examining
  <2>5. QED
    BY <1>2, <1>3, <1>4, <2>1, <2>3, <2>4, ConstantsDistinct, ReadStep
       DEF Inv, TypeOK, CasNode, Goto, tableVars
<1>5. CASE index[p] = EMPTY
  <2>1. /\ index' = [index EXCEPT ![p] = location[t]]
        /\ out' = [out EXCEPT ![t] = NOT_FOUND]
        /\ pc' = [pc EXCEPT ![t] = "finish"]
        /\ UNCHANGED <<entry_key, entry_value, free, op, distance, location,
                       found, value>>
    BY <1>3, <1>5 DEF CasNode, Finish, Goto
  <2>2. location[t] \in Private
    BY <1>2, ConstantsDistinct, NodeKinds DEF Private
  <2>3. Private' \subseteq Private /\ location[t] \notin Private'
    BY <1>2, <2>1
       DEF Inv, TypeOK, ProbeInvariant, Ownership, Private
  <2>4. TypeOK'
    <3>1. op[t].desired \in Values
      BY <1>2, PendingCall DEF ThreadState, CasNode
    <3>2. seen' \in [Threads -> SUBSET (Values \cup {NOT_FOUND})]
      BY <1>3, <1>5, <3>1 DEF Inv, TypeOK, CasNode, Witness
    <3>3. QED
      BY <1>2, <2>1, <3>2 DEF Inv, TypeOK, CasNode, Labels, Results
  <2>5. Others(t) /\ Ownership'
    BY <2>1 DEF Inv, TypeOK, ProbeInvariant, Others, Ownership
  <2>6. TableAges
    BY <1>5, <2>1, <2>3 DEF Inv, TypeOK, TableAges
  <2>7. ASSUME NEW u \in Threads
        PROVE  ThreadState(u)' /\ ProbeState(u)'
    <3>1. CASE u # t
      BY <2>4, <2>5, <2>6, <3>1, OthersKeep
    <3>2. CASE u = t
      BY <1>2, <2>1, <3>2
         DEF Inv, TypeOK, ThreadState, ProbeState, CasNode, Inserting, Examining
    <3>3. QED
      BY <3>1, <3>2
  <2>8. ASSUME NEW q \in Slots, q # p
        PROVE  NodeState(q)'
    BY <2>1, <2>2, <2>4, <2>6, <2>8, NodeKept DEF Inv, TypeOK
  <2>9. NodeState(p)'
    <3>1. \A q \in Slots : index'[q] = location[t] => q = p
      BY <1>2, <2>1, <2>2, NodeKinds
         DEF Inv, TypeOK, ProbeInvariant, NodeState
    <3>2. \A c \in 0..(distance[t] - 1) : index'[SlotAt(k, c)] # EMPTY
      <4>1. \A c \in 0..(distance[t] - 1) :
              SlotAt(k, c) \in Slots /\ index[SlotAt(k, c)] # EMPTY
        BY <1>1, <1>2, SlotAtType DEF ProbeState
      <4>2. QED
        BY <4>1, <2>6, NodeKinds DEF TableAges
    <3>3. index'[p] = location[t] /\ entry_key'[location[t]] = k
      BY <1>2, <2>1 DEF Inv, TypeOK
    <3>4. QED
      BY <1>2, <1>3, <2>3, <3>1, <3>2, <3>3 DEF NodeState, SlotAt
  <2>10. ASSUME NEW q \in Slots, q # p, LiveAt(q, k)
         PROVE  FALSE
    <3>1. PICK d \in 0..(Size - 1) :
            /\ q = SlotAt(k, d)
            /\ \A c \in 0..(d - 1) : index[SlotAt(k, c)] # EMPTY
      BY <2>10 DEF LiveAt, Inv, ProbeInvariant, NodeState
    <3>2. CASE d < distance[t]
      BY <1>1, <1>2, <2>10, <3>1, <3>2 DEF ProbeState
    <3>3. CASE d = distance[t]
      BY <1>3, <2>10, <3>1, <3>3
    <3>4. CASE d > distance[t]
      BY <1>2, <1>3, <1>5, <3>1, <3>4
    <3>5. QED
      BY <1>2, <3>2, <3>3, <3>4
  <2>11. OneLiveEntryPerKey'
    <3> SUFFICES ASSUME NEW q \in Slots, NEW r \in Slots, NEW j \in Keys,
                        LiveAt(q, j)', LiveAt(r, j)', q # r
                 PROVE  FALSE
      BY DEF OneLiveEntryPerKey
    <3>1. ASSUME NEW x \in Slots, x # p, LiveAt(x, j)'
          PROVE  LiveAt(x, j)
      BY <2>1, <2>4, <2>6, <3>1, LiveWasLive DEF Inv, TypeOK
    <3>2. LiveAt(p, j)' => j = k
      BY <1>2, <2>1 DEF LiveAt, Inv, TypeOK
    <3>3. CASE q # p /\ r # p
      BY <3>1, <3>3 DEF Inv, OneLiveEntryPerKey
    <3>4. CASE q = p
      BY <3>1, <3>2, <3>4, <2>10
    <3>5. CASE r = p
      BY <3>1, <3>2, <3>5, <2>10
    <3>6. QED
      BY <3>3, <3>4, <3>5
  <2>12. QED
    BY <2>4, <2>5, <2>6, <2>7, <2>8, <2>9, <2>11 DEF Inv, ProbeInvariant
<1>6. QED
  BY <1>4, <1>5

\* The invariant is inductive, and every step lets the table age only.
LEMMA NextInv == Inv /\ [Next]_vars => Inv' /\ TableAges
<1> SUFFICES ASSUME Inv, [Next]_vars PROVE Inv' /\ TableAges
  OBVIOUS
<1>1. ASSUME NEW t \in Threads, NEW call \in Map!Calls, Call(t, call)
      PROVE  Inv' /\ TableAges
  BY <1>1, CallInv
<1>2. ASSUME NEW t \in Threads,
             GetEmptyEntry(t) \/ NoEmptyEntry(t) \/ ReadNode(t) \/ CasNode(t)
      PROVE  Inv' /\ TableAges
  BY <1>2, GetEmptyEntryInv, NoEmptyEntryInv, ReadNodeInv, CasNodeInv
<1>3. ASSUME NEW t \in Threads,
             \/ ReadEntry(t) \/ CasValue(t) \/ RereadEntry(t)
             \/ EndCompareAndSet(t)
      PROVE  Inv' /\ TableAges
  BY <1>3, ReadEntryInv, CasValueInv, RereadEntryInv, EndCompareAndSetInv
<1>4. ASSUME NEW t \in Threads,
             LookupNode(t) \/ LookupEntry(t) \/ TryIncref(t) \/ EndLookup(t)
      PROVE  Inv' /\ TableAges
  BY <1>4, LookupNodeInv, LookupEntryInv, TryIncrefInv, EndLookupInv
<1>5. ASSUME NEW t \in Threads,
             DeleteValue(t) \/ DeleteReread(t) \/ WriteTombstone(t)
      PROVE  Inv' /\ TableAges
  BY <1>5, DeleteValueInv, DeleteRereadInv, WriteTombstoneInv
<1>6. CASE UNCHANGED vars
  <2>1. Inv'
    BY <1>6
       DEF Inv, TypeOK, ProbeInvariant, OneLiveEntryPerKey, Ownership,
           ThreadState, ProbeState, NodeState, Private, LiveAt, IsEntry, Slot,
           SlotAt, MayInsert, vars, tableVars, threadVars
  <2>2. TableAges
    BY <1>6 DEF TableAges, Private, vars, tableVars, threadVars
  <2>3. QED
    BY <2>1, <2>2
<1>7. QED
  BY <1>1, <1>2, <1>3, <1>4, <1>5, <1>6 DEF Next
-----------------------------------------------------------------------------
\* A step of thread t leaves alone what Burial says of the others.
Elsewhere(t) ==
  \A u \in Threads \ {t} :
    /\ pc'[u] = pc[u] /\ op'[u] = op[u] /\ distance'[u] = distance[u]
    /\ found'[u] = found[u] /\ value'[u] = value[u]

\* The slot a thread that examines an entry looks at.
LEMMA ExaminedSlot ==
  ASSUME Inv, NEW t \in Threads, pc[t] \in Examining
  PROVE  /\ Slot(t) \in Slots
         /\ found[t] \in Locations \ Private
<1>1. op[t].key \in Keys /\ distance[t] \in Nat
  BY PendingCall DEF Examining, Inv, TypeOK
<1>2. QED
  BY <1>1, SlotAtType DEF Slot, Inv, ProbeInvariant, ThreadState

\* A step that buries no node keeps what the other threads know of theirs.
LEMMA BurialKept ==
  ASSUME Inv, TableAges, BurialInv, NEW t \in Threads, Elsewhere(t), Burial(t)',
         \A p \in Slots : index[p] # EMPTY => index'[p] = index[p],
         pc'[t] = "tombstone" =>
           \A u \in Threads \ {t} : pc[u] = "tombstone" => found[u] # found'[t]
  PROVE  BurialInv'
<1>1. ASSUME NEW u \in Threads \ {t}
      PROVE  Burial(u)'
  <2>1. Burial(u) /\ (pc'[u] = pc[u] /\ found'[u] = found[u] /\ value'[u] = value[u])
    BY DEF BurialInv, Elsewhere
  <2>2. CASE pc[u] \in Examining
    <3>1. PICK p \in Slots : p = Slot(u)
      BY <2>2, ExaminedSlot
    <3>2. Slot(u)' = p
      BY <3>1 DEF Slot, SlotAt, Elsewhere
    <3>3. found[u] \in Locations \ Private
      BY <2>2, ExaminedSlot
    <3>4. index'[p] = index[p]
      BY <2>1, <2>2, <3>1, <3>3, NodeKinds DEF Burial
    <3>5. entry_value[found[u]] = NULL => entry_value'[found[u]] = NULL
      BY <3>3 DEF TableAges
    <3>6. QED
      BY <2>1, <3>1, <3>2, <3>4, <3>5 DEF Burial
  <2>3. CASE pc[u] \notin Examining
    BY <2>1, <2>3 DEF Burial, Examining
  <2>4. QED
    BY <2>2, <2>3
<1>2. OneUndertaker'
  BY DEF BurialInv, OneUndertaker, Elsewhere
<1>3. QED
  BY <1>1, <1>2 DEF BurialInv

\* The steps after which a thread examines no entry.
LEMMA BurialAway ==
  ASSUME Inv, TableAges, BurialInv, NEW t \in Threads, Elsewhere(t),
         pc'[t] \notin Examining,
         \A p \in Slots : index[p] # EMPTY => index'[p] = index[p]
  PROVE  BurialInv'
<1>1. Burial(t)' /\ pc'[t] # "tombstone"
  BY DEF Burial, Examining
<1>2. QED
  BY <1>1, BurialKept

\* The steps of a thread that goes on examining the entry it has found.
LEMMA BurialOn ==
  ASSUME Inv, TableAges, BurialInv, NEW t \in Threads, Elsewhere(t),
         pc[t] \in Examining, pc'[t] \in Examining \ {"tombstone"},
         UNCHANGED <<index, op, distance, found>>,
         pc'[t] = "delete" => value'[t] # NULL
  PROVE  BurialInv'
<1>1. Burial(t) /\ found[t] \in Locations \ Private
  BY ExaminedSlot DEF BurialInv
<1>2. Slot(t)' = Slot(t)
  BY DEF Slot, SlotAt
<1>3. entry_value[found[t]] = NULL => entry_value'[found[t]] = NULL
  BY <1>1 DEF TableAges
<1>4. Burial(t)'
  BY <1>1, <1>2, <1>3 DEF Burial, Examining
<1>5. QED
  BY <1>4, BurialKept

\* A probe moves on or gives up: the thread examines no entry.
LEMMA ProbeAway ==
  ASSUME Inv, NEW t \in Threads, NEW label \in {"read_node", "lookup"}, NEW result,
         Probe(t, label, result)
  PROVE  /\ pc'[t] \notin Examining
         /\ \A u \in Threads \ {t} : pc'[u] = pc[u] /\ distance'[u] = distance[u]
BY DEF Inv, TypeOK, Probe, Finish, Goto, Examining

\* What expected_update_entry does next: it is done, moves on, or tries.
LEMMA TryUpdateBurial ==
  ASSUME Inv, NEW t \in Threads, NEW v, TryUpdate(t, v)
  PROVE  /\ \/ pc'[t] \notin Examining
            \/ pc'[t] = "cas_value" /\ UNCHANGED distance
         /\ \A u \in Threads \ {t} :
              pc'[u] = pc[u] /\ distance'[u] = distance[u] /\ value'[u] = value[u]
<1>1. CASE op[t].expected \notin {ANY, v}
  BY <1>1 DEF Inv, TypeOK, TryUpdate, Finish, Goto, Examining
<1>2. CASE op[t].expected \in {ANY, v} /\ v = NULL
  BY <1>2, ProbeAway DEF TryUpdate
<1>3. CASE op[t].expected \in {ANY, v} /\ v # NULL
  BY <1>3 DEF Inv, TypeOK, TryUpdate, Goto
<1>4. QED
  BY <1>1, <1>2, <1>3

\* A thread that reads a node and finds an entry there has its node before it.
LEMMA ArrivesAtNode ==
  ASSUME Inv, TableAges, BurialInv, NEW t \in Threads, Elsewhere(t),
         pc'[t] \in {"read_entry", "lookup_entry"}, found'[t] = index[Slot(t)],
         UNCHANGED <<index, op, distance>>
  PROVE  BurialInv'
<1>1. Slot(t)' = Slot(t)
  BY DEF Slot, SlotAt
<1>2. Burial(t)'
  BY <1>1 DEF Burial
<1>3. QED
  BY <1>2, BurialKept

\* The steps of compare_and_set preserve BurialInv.
LEMMA BurialInsert ==
  ASSUME Inv, TableAges, BurialInv, NEW t \in Threads,
         \/ GetEmptyEntry(t) \/ NoEmptyEntry(t) \/ ReadNode(t) \/ CasNode(t)
         \/ ReadEntry(t) \/ CasValue(t) \/ RereadEntry(t) \/ EndCompareAndSet(t)
  PROVE  BurialInv'
<1> USE DEF Inv, TypeOK
<1>1. CASE GetEmptyEntry(t) \/ NoEmptyEntry(t) \/ EndCompareAndSet(t)
  <2>1. Elsewhere(t) /\ pc'[t] \notin Examining /\ index' = index
    BY <1>1 DEF GetEmptyEntry, NoEmptyEntry, EndCompareAndSet, Finish, Goto,
                Elsewhere, Examining, tableVars
  <2>2. QED
    BY <2>1, BurialAway
<1>2. CASE ReadNode(t)
  <2>1. UNCHANGED <<index, op, value>>
    BY <1>2 DEF ReadNode, tableVars
  <2>2. CASE index[Slot(t)] = EMPTY /\ UNCHANGED <<distance, found>>
    <3>1. pc'[t] \notin Examining /\ Elsewhere(t)
      BY <1>2, <2>1, <2>2, NodeKinds
         DEF ReadNode, CheckTag, Finish, Goto, Elsewhere, Examining
    <3>2. QED
      BY <2>1, <3>1, BurialAway
  <2>3. CASE Probe(t, "read_node", MUST_GROW) /\ UNCHANGED found
    <3>1. pc'[t] \notin Examining /\ Elsewhere(t)
      BY <2>1, <2>3, ProbeAway DEF Elsewhere
    <3>2. QED
      BY <2>1, <3>1, BurialAway
  <2>4. CASE /\ found' = [found EXCEPT ![t] = index[Slot(t)]]
             /\ Goto(t, "read_entry")
             /\ UNCHANGED <<distance, out>>
    <3>1. Elsewhere(t) /\ pc'[t] = "read_entry" /\ found'[t] = index[Slot(t)]
      BY <2>1, <2>4 DEF Goto, Elsewhere
    <3>2. QED
      BY <2>1, <2>4, <3>1, ArrivesAtNode
  <2>5. QED
    BY <1>2, <2>2, <2>3, <2>4 DEF ReadNode
<1>3. CASE CasNode(t)
  <2>1. Elsewhere(t) /\ pc'[t] \notin Examining
    BY <1>3 DEF CasNode, Finish, Goto, Elsewhere, Examining
  <2>2. \A p \in Slots : index[p] # EMPTY => index'[p] = index[p]
    BY <1>3 DEF CasNode
  <2>3. QED
    BY <2>1, <2>2, BurialAway
<1>4. CASE ReadEntry(t)
  <2>1. UNCHANGED <<index, op, found>> /\ pc[t] \in Examining
    BY <1>4 DEF ReadEntry, Examining, tableVars
  <2>2. CASE Probe(t, "read_node", MUST_GROW) /\ UNCHANGED value
    <3>1. pc'[t] \notin Examining /\ Elsewhere(t)
      BY <2>1, <2>2, ProbeAway DEF Elsewhere
    <3>2. QED
      BY <2>1, <3>1, BurialAway
  <2>3. CASE Finish(t, ERROR) /\ UNCHANGED <<distance, value>>
    <3>1. pc'[t] \notin Examining /\ Elsewhere(t)
      BY <2>1, <2>3 DEF Elsewhere, Finish, Goto, Examining
    <3>2. QED
      BY <2>1, <3>1, BurialAway
  <2>4. CASE TryUpdate(t, entry_value[found[t]])
    <3>1. Elsewhere(t)
      BY <2>1, <2>4, TryUpdateBurial DEF Elsewhere
    <3>2. CASE pc'[t] \notin Examining
      BY <2>1, <3>1, <3>2, BurialAway
    <3>3. CASE pc'[t] = "cas_value" /\ UNCHANGED distance
      BY <2>1, <3>1, <3>3, BurialOn DEF Examining
    <3>4. QED
      BY <2>4, <3>2, <3>3, TryUpdateBurial
  <2>5. QED
    BY <1>4, <2>2, <2>3, <2>4 DEF ReadEntry
<1>5. CASE CasValue(t)
  <2>1. Elsewhere(t) /\ UNCHANGED <<index, op, distance, found>> /\ pc[t] \in Examining
    BY <1>5 DEF CasValue, Finish, Goto, Elsewhere, Examining
  <2>2. pc'[t] \in {"finish", "reread_entry"}
    BY <1>5 DEF CasValue, Finish, Goto
  <2>3. CASE pc'[t] = "finish"
    BY <2>1, <2>3, BurialAway DEF Examining
  <2>4. CASE pc'[t] = "reread_entry"
    BY <2>1, <2>4, BurialOn DEF Examining
  <2>5. QED
    BY <2>2, <2>3, <2>4
<1>6. CASE RereadEntry(t)
  <2>1. UNCHANGED <<index, op, found>> /\ pc[t] \in Examining
    BY <1>6 DEF RereadEntry, Examining, tableVars
  <2>2. TryUpdate(t, entry_value[found[t]])
    BY <1>6 DEF RereadEntry
  <2>3. Elsewhere(t)
    BY <2>1, <2>2, TryUpdateBurial DEF Elsewhere
  <2>4. CASE pc'[t] \notin Examining
    BY <2>1, <2>3, <2>4, BurialAway
  <2>5. CASE pc'[t] = "cas_value" /\ UNCHANGED distance
    BY <2>1, <2>3, <2>5, BurialOn DEF Examining
  <2>6. QED
    BY <2>2, <2>4, <2>5, TryUpdateBurial
<1>7. QED
  BY <1>1, <1>2, <1>3, <1>4, <1>5, <1>6

\* The steps of lookup and delete preserve BurialInv.
LEMMA BurialLookup ==
  ASSUME Inv, TableAges, BurialInv, NEW t \in Threads,
         \/ LookupNode(t) \/ LookupEntry(t) \/ TryIncref(t) \/ EndLookup(t)
         \/ DeleteReread(t)
  PROVE  BurialInv'
<1> USE DEF Inv, TypeOK
<1>1. CASE LookupNode(t)
  <2>1. UNCHANGED <<index, op, value>>
    BY <1>1 DEF LookupNode, tableVars
  <2>2. CASE Finish(t, NOT_FOUND) /\ UNCHANGED <<distance, found>>
    <3>1. pc'[t] \notin Examining /\ Elsewhere(t)
      BY <2>1, <2>2 DEF Finish, Goto, Elsewhere, Examining
    <3>2. QED
      BY <2>1, <3>1, BurialAway
  <2>3. CASE Probe(t, "lookup", NOT_FOUND) /\ UNCHANGED found
    <3>1. pc'[t] \notin Examining /\ Elsewhere(t)
      BY <2>1, <2>3, ProbeAway DEF Elsewhere
    <3>2. QED
      BY <2>1, <3>1, BurialAway
  <2>4. CASE /\ found' = [found EXCEPT ![t] = index[Slot(t)]]
             /\ Goto(t, "lookup_entry")
             /\ UNCHANGED <<distance, out>>
    <3>1. Elsewhere(t) /\ pc'[t] = "lookup_entry" /\ found'[t] = index[Slot(t)]
      BY <2>1, <2>4 DEF Goto, Elsewhere
    <3>2. QED
      BY <2>1, <2>4, <3>1, ArrivesAtNode
  <2>5. QED
    BY <1>1, <2>2, <2>3, <2>4 DEF LookupNode
<1>2. CASE LookupEntry(t)
  <2>1. UNCHANGED <<index, op, found>> /\ pc[t] \in Examining
    BY <1>2 DEF LookupEntry, Examining, tableVars
  <2>2. CASE Probe(t, "lookup", NOT_FOUND) /\ UNCHANGED value
    <3>1. pc'[t] \notin Examining /\ Elsewhere(t)
      BY <2>1, <2>2, ProbeAway DEF Elsewhere
    <3>2. QED
      BY <2>1, <3>1, BurialAway
  <2>3. CASE Finish(t, ERROR) /\ UNCHANGED <<distance, value>>
    <3>1. pc'[t] \notin Examining /\ Elsewhere(t)
      BY <2>1, <2>3 DEF Elsewhere, Finish, Goto, Examining
    <3>2. QED
      BY <2>1, <3>1, BurialAway
  <2>4. CASE /\ entry_value[found[t]] # NULL
             /\ value' = [value EXCEPT ![t] = entry_value[found[t]]]
             /\ Goto(t, IF op[t].name = "get" THEN "try_incref" ELSE "delete")
             /\ UNCHANGED <<distance, out>>
    <3>1. /\ Elsewhere(t) /\ value'[t] # NULL
          /\ pc'[t] \in Examining \ {"tombstone"}
      BY <2>1, <2>4 DEF Goto, Elsewhere, Examining
    <3>2. QED
      BY <2>1, <2>4, <3>1, BurialOn
  <2>5. QED
    BY <1>2, <2>2, <2>3, <2>4 DEF LookupEntry
<1>3. CASE TryIncref(t) \/ EndLookup(t)
  <2>1. Elsewhere(t) /\ pc'[t] \notin Examining /\ index' = index
    BY <1>3 DEF TryIncref, EndLookup, Finish, Goto, Elsewhere, Examining, tableVars
  <2>2. QED
    BY <2>1, BurialAway
<1>4. CASE DeleteReread(t)
  <2>1. /\ Elsewhere(t) /\ pc[t] \in Examining
        /\ UNCHANGED <<index, op, distance, found>>
    BY <1>4 DEF DeleteReread, Finish, Goto, Elsewhere, Examining, tableVars
  <2>2. CASE pc'[t] = "finish"
    BY <2>1, <2>2, BurialAway DEF Examining
  <2>3. CASE pc'[t] = "delete" /\ value'[t] # NULL
    BY <2>1, <2>3, BurialOn DEF Examining
  <2>4. QED
    BY <1>4, <2>2, <2>3 DEF DeleteReread, Finish, Goto
<1>5. QED
  BY <1>1, <1>2, <1>3, <1>4

\* Deleting a value gives the entry's node to one thread to bury.
LEMMA BurialDelete ==
  ASSUME Inv, TableAges, BurialInv, NEW t \in Threads, DeleteValue(t)
  PROVE  BurialInv'
<1> USE DEF Inv, TypeOK
<1>1. /\ Elsewhere(t) /\ pc[t] \in Examining
      /\ UNCHANGED <<index, op, distance, found>>
  BY DEF DeleteValue, Goto, Elsewhere, Examining
<1>2. CASE pc'[t] = "delete_reread"
  BY <1>1, <1>2, BurialOn DEF Examining
<1>3. CASE /\ entry_value[found[t]] = value[t]
           /\ entry_value' = [entry_value EXCEPT ![found[t]] = NULL]
           /\ pc'[t] = "tombstone"
  <2>1. Burial(t) /\ value[t] # NULL /\ found[t] \in Locations
    BY <1>1, ExaminedSlot DEF BurialInv, Burial, DeleteValue
  <2>2. index[Slot(t)] = found[t]
    BY <1>1, <1>3, <2>1 DEF Burial
  <2>3. Slot(t)' = Slot(t)
    BY <1>1 DEF Slot, SlotAt
  <2>4. Burial(t)'
    BY <1>1, <1>3, <2>1, <2>2, <2>3 DEF Burial
  <2>5. \A u \in Threads \ {t} : pc[u] = "tombstone" => found[u] # found'[t]
    BY <1>1, <1>3, <2>1 DEF BurialInv, Burial
  <2>6. QED
    BY <1>1, <2>4, <2>5, BurialKept
<1>4. QED
  BY <1>2, <1>3 DEF DeleteValue, Goto

\* A node is buried under nobody who still relies on it.
LEMMA BurialTombstone ==
  ASSUME Inv, TableAges, BurialInv, NEW t \in Threads, WriteTombstone(t)
  PROVE  BurialInv'
<1> USE DEF Inv, TypeOK
<1>1. /\ Elsewhere(t) /\ pc[t] = "tombstone" /\ pc'[t] = "finish"
      /\ UNCHANGED <<entry_value, op, distance, found, value>>
      /\ Slot(t) \in Slots /\ found[t] \in Locations
  BY ExaminedSlot DEF WriteTombstone, Goto, Elsewhere, Examining
<1>2. entry_value[found[t]] = NULL /\ index[Slot(t)] = found[t]
  BY <1>1 DEF BurialInv, Burial, Examining
<1>3. ASSUME NEW u \in Threads \ {t}
      PROVE  Burial(u)'
  <2>1. Burial(u) /\ pc'[u] = pc[u]
    BY <1>1 DEF BurialInv, Elsewhere
  <2>2. CASE pc[u] \in Examining
    <3>1. PICK p \in Slots : p = Slot(u)
      BY <2>2, ExaminedSlot
    <3>2. Slot(u)' = p
      BY <1>1, <3>1 DEF Slot, SlotAt
    <3>3. CASE index'[p] = index[p]
      BY <1>1, <2>1, <3>1, <3>2, <3>3 DEF Burial
    <3>4. CASE index'[p] # index[p]
      <4>1. p = Slot(t) /\ index'[p] = TOMBSTONE
        BY <1>1, <3>1, <3>4 DEF WriteTombstone
      <4>2. index[p] # TOMBSTONE
        BY <3>4, <4>1
      <4>3. found[u] = found[t]
        BY <1>2, <2>1, <2>2, <3>1, <4>1, <4>2 DEF Burial
      <4>4. pc[u] # "tombstone"
        BY <1>1, <4>3 DEF BurialInv, OneUndertaker
      <4>5. QED
        BY <1>1, <1>2, <2>1, <3>2, <4>1, <4>3, <4>4 DEF Burial
    <3>5. QED
      BY <3>3, <3>4
  <2>3. CASE pc[u] \notin Examining
    BY <2>1, <2>3 DEF Burial, Examining
  <2>4. QED
    BY <2>2, <2>3
<1>4. Burial(t)'
  BY <1>1 DEF Burial, Examining
<1>5. OneUndertaker'
  BY <1>1 DEF BurialInv, OneUndertaker, Elsewhere
<1>6. QED
  BY <1>3, <1>4, <1>5 DEF BurialInv

\* BurialInv is inductive relative to Inv.
LEMMA NextBurial == Inv /\ BurialInv /\ [Next]_vars => BurialInv'
<1> SUFFICES ASSUME Inv, BurialInv, [Next]_vars PROVE BurialInv'
  OBVIOUS
<1>1. TableAges
  BY NextInv
<1>2. ASSUME NEW t \in Threads, NEW call \in Map!Calls, Call(t, call)
      PROVE  BurialInv'
  <2>1. Elsewhere(t) /\ pc'[t] \notin Examining /\ index' = index
    BY <1>2 DEF Inv, TypeOK, Call, Goto, Elsewhere, Examining, tableVars
  <2>2. QED
    BY <1>1, <2>1, BurialAway
<1>3. ASSUME NEW t \in Threads,
             \/ GetEmptyEntry(t) \/ NoEmptyEntry(t) \/ ReadNode(t) \/ CasNode(t)
             \/ ReadEntry(t) \/ CasValue(t) \/ RereadEntry(t) \/ EndCompareAndSet(t)
      PROVE  BurialInv'
  BY <1>1, <1>3, BurialInsert
<1>4. ASSUME NEW t \in Threads,
             \/ LookupNode(t) \/ LookupEntry(t) \/ TryIncref(t) \/ EndLookup(t)
             \/ DeleteReread(t)
      PROVE  BurialInv'
  BY <1>1, <1>4, BurialLookup
<1>5. ASSUME NEW t \in Threads, DeleteValue(t) \/ WriteTombstone(t)
      PROVE  BurialInv'
  BY <1>1, <1>5, BurialDelete, BurialTombstone
<1>6. CASE UNCHANGED vars
  BY <1>6 DEF BurialInv, OneUndertaker, Burial, Slot, SlotAt, vars, tableVars, threadVars
<1>7. QED
  BY <1>2, <1>3, <1>4, <1>5, <1>6 DEF Next
-----------------------------------------------------------------------------
\* The sets that are counted are finite.
LEMMA CountedAreFinite ==
  ASSUME TypeOK
  PROVE  /\ Used \subseteq Slots /\ IsFiniteSet(Used) /\ Cardinality(Used) \in Nat
         /\ Private \subseteq Locations /\ IsFiniteSet(Private)
         /\ Cardinality(Private) \in Nat
<1>1. /\ IsFiniteSet(Slots) /\ Cardinality(Slots) = Size
      /\ IsFiniteSet(Locations) /\ Cardinality(Locations) = Size - 1
  BY SizeAssumption, FS_Interval DEF Slots, Locations
<1>2. Used \in SUBSET Slots
  BY DEF Used
<1>3. Private \in SUBSET Locations
  BY DEF TypeOK, Private
<1>4. IsFiniteSet(Used) /\ IsFiniteSet(Private)
  BY <1>1, <1>2, <1>3, FS_Subset
<1>5. QED
  BY <1>2, <1>3, <1>4, FS_CardinalityType

\* A step that puts no slot to use keeps Headroom.
LEMMA HeadroomKept ==
  ASSUME TypeOK, TypeOK', TableAges, Headroom, PublishesNothing,
         \A p \in Slots : index[p] = EMPTY => index'[p] = EMPTY
  PROVE  Headroom'
<1>1. Used' = Used
  BY NodeKinds DEF Used, PublishesNothing
<1>2. Private' \in SUBSET Private
  BY DEF TableAges
<1>3. IsFiniteSet(Private) /\ Cardinality(Used) \in Nat /\ Cardinality(Private) \in Nat
  BY CountedAreFinite
<1>4. Cardinality(Private') <= Cardinality(Private) /\ Cardinality(Private') \in Nat
  BY <1>2, <1>3, FS_Subset, FS_CardinalityType
<1>5. QED
  BY <1>1, <1>3, <1>4, SizeAssumption DEF Headroom

\* Publishing an entry puts one slot to use and makes one entry reachable.
LEMMA HeadroomPublish ==
  ASSUME Inv, TypeOK', TableAges, Headroom, NEW t \in Threads, CasNode(t)
  PROVE  Headroom'
<1>1. PICK k \in Keys : k = op[t].key
  BY PendingCall DEF CasNode
<1>2. /\ distance[t] \in Nat /\ out[t] = NULL
      /\ location[t] \in Locations
  BY SizeAssumption
     DEF Inv, TypeOK, ProbeInvariant, ThreadState, CasNode, Inserting
<1>3. PICK p \in Slots : p = Slot(t)
  BY <1>1, <1>2, SlotAtType DEF Slot
<1>4. CASE index[p] # EMPTY
  BY <1>3, <1>4, HeadroomKept DEF Inv, CasNode, PublishesNothing
<1>5. CASE index[p] = EMPTY
  <2>1. /\ index' = [index EXCEPT ![p] = location[t]]
        /\ out' = [out EXCEPT ![t] = NOT_FOUND]
        /\ UNCHANGED <<free, location>>
    BY <1>3, <1>5 DEF CasNode, Finish
  <2>2. location[t] \in Private
    BY <1>2, ConstantsDistinct, NodeKinds DEF Private
  <2>3. Private' \in SUBSET (Private \ {location[t]})
    BY <1>2, <2>1 DEF Inv, TypeOK, ProbeInvariant, Ownership, Private
  <2>4. Used' = Used \cup {p} /\ p \notin Used
    BY <1>2, <1>5, <2>1, NodeKinds DEF Inv, TypeOK, Used
  <2>5. /\ IsFiniteSet(Used) /\ Cardinality(Used) \in Nat
        /\ IsFiniteSet(Private) /\ Cardinality(Private) \in Nat
    BY CountedAreFinite DEF Inv
  <2>6. Cardinality(Used') = Cardinality(Used) + 1
    BY <2>4, <2>5, FS_AddElement
  <2>7. /\ IsFiniteSet(Private \ {location[t]})
        /\ Cardinality(Private \ {location[t]}) = Cardinality(Private) - 1
    BY <2>2, <2>5, FS_RemoveElement
  <2>8. Cardinality(Private') <= Cardinality(Private) - 1 /\ Cardinality(Private') \in Nat
    BY <2>3, <2>7, FS_Subset, FS_CardinalityType
  <2>9. QED
    BY <2>5, <2>6, <2>8, SizeAssumption DEF Headroom
<1>6. QED
  BY <1>4, <1>5

\* Headroom is inductive relative to Inv and BurialInv.
LEMMA NextHeadroom == Inv /\ BurialInv /\ Headroom /\ [Next]_vars => Headroom'
<1> SUFFICES ASSUME Inv, BurialInv, Headroom, [Next]_vars PROVE Headroom'
  OBVIOUS
<1>1. TableAges /\ TypeOK /\ TypeOK'
  BY NextInv DEF Inv
<1>2. ASSUME NEW t \in Threads, CasNode(t)
      PROVE  Headroom'
  BY <1>1, <1>2, HeadroomPublish
<1>3. ASSUME NEW t \in Threads, WriteTombstone(t)
      PROVE  Headroom'
  <2>1. Slot(t) \in Slots /\ index[Slot(t)] # EMPTY
    BY <1>3, ExaminedSlot, NodeKinds
       DEF WriteTombstone, Examining, BurialInv, Burial
  <2>2. /\ PublishesNothing
        /\ \A p \in Slots : index[p] = EMPTY => index'[p] = EMPTY
    BY <1>1, <1>3, <2>1 DEF WriteTombstone, PublishesNothing, TypeOK
  <2>3. QED
    BY <1>1, <2>2, HeadroomKept
<1>4. CASE UNCHANGED index
  BY <1>1, <1>4, HeadroomKept DEF PublishesNothing
<1>5. QED
  BY <1>2, <1>3, <1>4
     DEF Next, Call, GetEmptyEntry, NoEmptyEntry, ReadNode, ReadEntry, CasValue,
         RereadEntry, EndCompareAndSet, LookupNode, LookupEntry, TryIncref,
         DeleteValue, DeleteReread, EndLookup, vars, tableVars

\* The empty table satisfies both.
LEMMA InitBurialHeadroom == Init => BurialInv /\ Headroom
<1> SUFFICES ASSUME Init PROVE BurialInv /\ Headroom
  OBVIOUS
<1>1. BurialInv
  BY DEF Init, InitThreads, BurialInv, OneUndertaker, Burial, Examining
<1>2. Used = {} /\ Private = Locations
  BY DEF Init, InitTable, InitThreads, Used, Private
<1>3. Cardinality(Used) = 0 /\ Cardinality(Private) = Size - 1
  BY <1>2, SizeAssumption, FS_EmptySet, FS_Interval DEF Locations
<1>4. QED
  BY <1>1, <1>3, SizeAssumption DEF Headroom

-----------------------------------------------------------------------------
\* The variables of the table and of the threads keep their types.
THEOREM TypeCorrect == Spec => []TypeOK
<1>1. Inv => TypeOK
  BY DEF Inv
<1>2. QED
  BY <1>1, InitInv, NextInv, PTL DEF Spec

\* Racing inserts, updates and deletions never leave two live entries of one
\* key in the index (expected_insert_or_update, delete_).
THEOREM KeysAreUnique == Spec => []OneLiveEntryPerKey
<1>1. Inv => OneLiveEntryPerKey
  BY DEF Inv
<1>2. QED
  BY <1>1, InitInv, NextInv, PTL DEF Spec

\* A published entry never changes its key, and is never revived: what lock-free
\* lookups rely on (lookup, read_entry).
THEOREM EntriesAreStable == Spec => PublishedEntriesAreStable
<1> DEFINE Stable ==
      \A p \in Slots : IsEntry(index[p]) =>
        /\ entry_key'[index[p]] = entry_key[index[p]]
        /\ entry_value[index[p]] = NULL => entry_value'[index[p]] = NULL
<1>1. Inv /\ TableAges => Stable
  BY NodeKinds DEF Inv, ProbeInvariant, NodeState, TableAges
<1>2. Inv /\ [Next]_vars => Inv' /\ [Stable]_vars
  BY <1>1, NextInv
<1>3. QED
  BY <1>2, InitInv, PTL DEF Spec, PublishedEntriesAreStable

\* What get_empty_entry and expected_insert_or_update know of entries, nodes and
\* the slots they have passed holds in every state.
THEOREM ProbesAreSound == Spec => []ProbeInvariant
<1>1. Inv => ProbeInvariant
  BY DEF Inv
<1>2. QED
  BY <1>1, InitInv, NextInv, PTL DEF Spec

\* The assertion of delete_: the node of an entry whose value a thread has set
\* to NULL is still there for that thread to bury.
THEOREM TombstonesAreWritten == Spec => []TombstoneIsWritten
<1>1. BurialInv => TombstoneIsWritten
  BY DEF BurialInv, Burial, TombstoneIsWritten, Examining
<1>2. QED
  BY <1>1, InitInv, NextInv, InitBurialHeadroom, NextBurial, PTL DEF Spec

\* Whatever is inserted and deleted, the index keeps an empty slot, on which
\* lookups, inserts and block_wise_migrate rely to stop.
THEOREM ProbesStop == Spec => []SomeSlotIsEmpty
<1>1. ASSUME Inv, Headroom PROVE SomeSlotIsEmpty
  <2>1. Cardinality(Used) < Size
    BY <1>1, CountedAreFinite, SizeAssumption DEF Headroom, Inv
  <2>2. Cardinality(Slots) = Size
    BY SizeAssumption, FS_Interval DEF Slots
  <2>3. Used # Slots
    BY <1>1, <2>1, <2>2, CountedAreFinite, SizeAssumption DEF Inv
  <2>4. QED
    BY <2>3 DEF Used, SomeSlotIsEmpty
<1>2. QED
  BY <1>1, InitInv, NextInv, InitBurialHeadroom, NextBurial, NextHeadroom, PTL DEF Spec
-----------------------------------------------------------------------------
(***************************************************************************)
(* The second part: each call of compare_and_set, delete and get takes     *)
(* effect atomically.                                                      *)
(*                                                                         *)
(* A key is bound to the value of its one live entry. That changes in      *)
(* three places only, where a thread publishes an entry, exchanges a value *)
(* or deletes it, and there the thread holds the key's live entry, or      *)
(* knows that there is none: these are the commits. The calls that change  *)
(* nothing answer with a binding the key had while they were pending: the  *)
(* current one is always among those (`seen`), a probe that stops at an    *)
(* empty slot, or has made a whole turn, has left no live entry of its key *)
(* anywhere, and whoever holds an entry that another thread deletes has    *)
(* seen NOT_FOUND.                                                         *)
(***************************************************************************)

Matched == {"cas_value", "reread_entry", "try_incref", "delete", "delete_reread"}

\* No slot behind thread t is empty or live for its key.
Passed(t) ==
  \A d \in 0..(distance[t] - 1) :
    /\ index[SlotAt(op[t].key, d)] # EMPTY
    /\ ~LiveAt(SlotAt(op[t].key, d), op[t].key)

\* What thread t knows of the bindings of its key.
LinState(t) ==
  /\ out[t] = NULL <=> pc[t] \notin {"finish", "tombstone"}
  /\ op[t] # NULL /\ out[t] = NULL => Binding(op[t].key) \in seen[t]
  /\ pc[t] = "cas_node" => MayInsert(t)
  /\ location[t] # 0 /\ out[t] = NULL => entry_value[location[t]] = op[t].desired
  /\ pc[t] \in {"lookup", "lookup_entry"} => op[t].name # "cas" /\ Passed(t)
  /\ pc[t] \in Matched =>
       /\ entry_key[found[t]] = op[t].key
       /\ value[t] \in Values
       /\ entry_value[found[t]] = NULL => NOT_FOUND \in seen[t]
  /\ pc[t] \in {"cas_value", "reread_entry"} => op[t].expected \in {ANY, value[t]}
  /\ pc[t] = "try_incref" => op[t].name = "get" /\ value[t] \in seen[t]
  /\ pc[t] \in {"delete", "delete_reread"} => op[t].name = "del"

AllInv == Inv /\ BurialInv /\ \A t \in Threads : LinState(t)

\* A step that leaves the bindings, and what is known of them, alone.
Keeps == \A k \in Keys : Binding(k)' = Binding(k)

\* A step that binds key k to v.
Rebinds(k, v) ==
  /\ Binding(k)' = v
  /\ \A j \in Keys \ {k} : Binding(j)' = Binding(j)
  /\ Witness(k, v)
-----------------------------------------------------------------------------
\* A key is bound to the value of its live entry.
LEMMA BindingLive ==
  ASSUME OneLiveEntryPerKey, NEW p \in Slots, NEW k \in Keys, LiveAt(p, k)
  PROVE  Binding(k) = entry_value[index[p]]
<1> DEFINE q == CHOOSE q \in Slots : LiveAt(q, k)
<1>1. q \in Slots /\ LiveAt(q, k)
  OBVIOUS
<1>2. q = p
  BY <1>1 DEF OneLiveEntryPerKey
<1>3. Binding(k) = entry_value[index[q]]
  BY DEF Binding
<1>4. QED
  BY <1>2, <1>3

\* The same after a step.
LEMMA BindingLiveNext ==
  ASSUME OneLiveEntryPerKey', NEW p \in Slots, NEW k \in Keys, LiveAt(p, k)'
  PROVE  Binding(k)' = entry_value'[index'[p]]
<1>1. PICK q \in Slots : LiveAt(q, k)' /\ Binding(k)' = entry_value'[index'[q]]
  BY DEF Binding, LiveAt, IsEntry
<1>2. q = p
  BY <1>1 DEF OneLiveEntryPerKey
<1>3. QED
  BY <1>1, <1>2

\* A key without a live entry is absent.
LEMMA BindingAbsent ==
  ASSUME NEW k \in Keys, \A p \in Slots : ~LiveAt(p, k)
  PROVE  Binding(k) = NOT_FOUND
BY DEF Binding

\* The same after a step.
LEMMA BindingAbsentNext ==
  ASSUME NEW k \in Keys, \A p \in Slots : ~LiveAt(p, k)'
  PROVE  Binding(k)' = NOT_FOUND
BY DEF Binding

\* A step that changes no live entry of k leaves its binding alone.
LEMMA BindingKept ==
  ASSUME OneLiveEntryPerKey, OneLiveEntryPerKey', NEW k \in Keys,
         \A p \in Slots : LiveAt(p, k)' <=> LiveAt(p, k),
         \A p \in Slots : LiveAt(p, k) => entry_value'[index'[p]] = entry_value[index[p]]
  PROVE  Binding(k)' = Binding(k)
<1>1. CASE \E p \in Slots : LiveAt(p, k)
  <2>1. PICK p \in Slots : LiveAt(p, k)
    BY <1>1
  <2>2. QED
    BY <2>1, BindingLive, BindingLiveNext
<1>2. CASE \A p \in Slots : ~LiveAt(p, k)
  BY <1>2, BindingAbsent, BindingAbsentNext
<1>3. QED
  BY <1>1, <1>2

\* A step that only reads the table changes no binding.
LEMMA ReadingKeeps ==
  ASSUME Inv, Inv', UNCHANGED <<index, entry_key, entry_value>>
  PROVE  Keeps
BY BindingKept DEF Inv, Keeps, LiveAt, IsEntry

\* Neither does one that changes private entries.
LEMMA PrivateKeeps ==
  ASSUME Inv, Inv', index' = index,
         \A e \in Locations \ Private :
           entry_key'[e] = entry_key[e] /\ entry_value'[e] = entry_value[e]
  PROVE  Keeps
<1> SUFFICES ASSUME NEW k \in Keys PROVE Binding(k)' = Binding(k)
  BY DEF Keeps
<1>1. \A p \in Slots : IsEntry(index[p]) => index[p] \in Locations \ Private
  BY NodeKinds DEF Inv, ProbeInvariant, NodeState
<1>2. \A p \in Slots : LiveAt(p, k)' <=> LiveAt(p, k)
  BY <1>1 DEF LiveAt, IsEntry
<1>3. \A p \in Slots : LiveAt(p, k) => entry_value'[index'[p]] = entry_value[index[p]]
  BY <1>1 DEF LiveAt
<1>4. QED
  BY <1>2, <1>3, BindingKept DEF Inv

\* Whoever holds a live entry of its key holds the key's binding.
LEMMA HoldsBinding ==
  ASSUME AllInv, NEW t \in Threads, pc[t] \in Examining,
         entry_key[found[t]] = op[t].key, entry_value[found[t]] # NULL
  PROVE  /\ Slot(t) \in Slots /\ index[Slot(t)] = found[t]
         /\ op[t].key \in Keys
         /\ LiveAt(Slot(t), op[t].key)
         /\ Binding(op[t].key) = entry_value[found[t]]
<1>1. op[t].key \in Keys /\ Slot(t) \in Slots /\ found[t] \in Locations
  BY PendingCall, ExaminedSlot DEF AllInv, Examining
<1>2. index[Slot(t)] = found[t]
  BY DEF AllInv, BurialInv, Burial
<1>3. LiveAt(Slot(t), op[t].key)
  BY <1>1, <1>2, NodeKinds DEF LiveAt
<1>4. QED
  BY <1>1, <1>2, <1>3, BindingLive DEF AllInv, Inv

\* A probe that stands before an empty slot, or has made a whole turn, has shown
\* that its key is absent.
LEMMA AbsentKey ==
  ASSUME Inv, NEW k \in Keys, NEW n \in Nat,
         \A d \in 0..(n - 1) : index[SlotAt(k, d)] # EMPTY /\ ~LiveAt(SlotAt(k, d), k),
         n >= Size \/ index[SlotAt(k, n)] = EMPTY
  PROVE  /\ \A p \in Slots : ~LiveAt(p, k)
         /\ Binding(k) = NOT_FOUND
<1>1. ASSUME NEW p \in Slots, LiveAt(p, k)
      PROVE  FALSE
  <2>1. PICK d \in 0..(Size - 1) :
          /\ p = SlotAt(k, d)
          /\ \A c \in 0..(d - 1) : index[SlotAt(k, c)] # EMPTY
    BY <1>1 DEF LiveAt, Inv, ProbeInvariant, NodeState
  <2>2. CASE d < n
    BY <1>1, <2>1, <2>2
  <2>3. CASE d = n
    BY <1>1, <2>1, <2>3, NodeKinds, SizeAssumption DEF LiveAt
  <2>4. CASE d > n
    BY <2>1, <2>4, SizeAssumption
  <2>5. QED
    BY <2>2, <2>3, <2>4
<1>2. QED
  BY <1>1, BindingAbsent
-----------------------------------------------------------------------------
\* What the other threads know survives a step of thread t that leaves the
\* bindings alone, or tells them about the new one.
LEMMA OthersLin ==
  ASSUME AllInv, Inv', TableAges, NEW t \in Threads, Others(t),
         NEW u \in Threads \ {t},
         \/ Keeps /\ seen'[u] = seen[u]
         \/ \E k \in Keys : \E v : Rebinds(k, v),
         location[u] # 0 /\ out[u] = NULL =>
           entry_value'[location[u]] = entry_value[location[u]],
         pc[u] \in Matched =>
           \/ entry_value'[found[u]] # NULL
           \/ entry_value[found[u]] = NULL
           \/ Witness(op[u].key, NOT_FOUND)
  PROVE  LinState(u)'
<1>1. LinState(u)
  BY DEF AllInv
<1>2. /\ pc'[u] = pc[u] /\ op'[u] = op[u] /\ out'[u] = out[u]
      /\ distance'[u] = distance[u] /\ location'[u] = location[u]
      /\ found'[u] = found[u] /\ value'[u] = value[u]
  BY DEF Others
<1>3. seen[u] \subseteq seen'[u]
  BY DEF Rebinds, Witness
<1>4. ASSUME op[u] # NULL, out[u] = NULL
      PROVE  Binding(op[u].key)' \in seen'[u]
  <2>1. PICK k \in Keys : k = op[u].key
    BY <1>4, CallType DEF AllInv, Inv, TypeOK
  <2>2. Binding(k) \in seen[u]
    BY <1>1, <1>4, <2>1 DEF LinState
  <2>3. CASE Keeps /\ seen'[u] = seen[u]
    <3>1. Binding(k)' \in seen'[u]
      BY <2>2, <2>3 DEF Keeps
    <3>2. QED
      BY <1>2, <2>1, <3>1 DEF Binding, LiveAt, IsEntry
  <2>4. CASE \E j \in Keys : \E v : Rebinds(j, v)
    <3>0. PICK j \in Keys : \E v : Rebinds(j, v)
      BY <2>4
    <3>1. PICK v : Rebinds(j, v)
      BY <3>0
    <3>2. CASE j = k
      <4>1. Binding(k)' = v /\ v \in seen'[u]
        BY <1>4, <2>1, <3>1, <3>2 DEF Rebinds, Witness
      <4>2. QED
        BY <1>2, <2>1, <4>1 DEF Binding, LiveAt, IsEntry
    <3>3. CASE j # k
      <4>1. Binding(k)' = Binding(k)
        BY <3>1, <3>3 DEF Rebinds
      <4>2. QED
        BY <1>2, <1>3, <2>1, <2>2, <4>1 DEF Binding, LiveAt, IsEntry
    <3>4. QED
      BY <3>2, <3>3
  <2>5. QED
    BY <2>3, <2>4
<1>5. ASSUME pc[u] \in {"lookup", "lookup_entry"}
      PROVE  Passed(u)'
  <2>1. PICK k \in Keys : k = op[u].key
    BY <1>5, PendingCall DEF AllInv
  <2>2. ASSUME NEW d \in 0..(distance[u] - 1)
        PROVE  index'[SlotAt(k, d)] # EMPTY /\ ~LiveAt(SlotAt(k, d), k)'
    <3>1. PICK p \in Slots : p = SlotAt(k, d)
      BY <2>2, SlotAtType
    <3>2. index[p] # EMPTY /\ ~LiveAt(p, k)
      BY <1>1, <1>5, <2>1, <2>2, <3>1 DEF LinState, Passed
    <3>3. index'[p] # EMPTY /\ ~LiveAt(p, k)'
      BY <3>2, DeadStaysDead DEF AllInv, Inv
    <3>4. QED
      BY <3>1, <3>3 DEF LiveAt, IsEntry
  <2>3. QED
    BY <1>2, <2>1, <2>2 DEF Passed, SlotAt, LiveAt, IsEntry
<1>6. ASSUME pc[u] \in Matched
      PROVE  /\ entry_key'[found[u]] = op[u].key
             /\ entry_value'[found[u]] = NULL => NOT_FOUND \in seen'[u]
  <2>1. found[u] \in Locations \ Private
    BY <1>6, ExaminedSlot DEF AllInv, Matched, Examining
  <2>2. op[u] # NULL /\ out[u] = NULL
    BY <1>1, <1>6, PendingCall DEF AllInv, LinState, Matched
  <2>3. QED
    BY <1>1, <1>3, <1>6, <2>1, <2>2 DEF LinState, TableAges, Witness
<1>7. QED
  BY <1>1, <1>2, <1>3, <1>4, <1>5, <1>6 DEF LinState, MayInsert, Matched

\* A step of thread t that only reads the table leaves the bindings and what the
\* others know of them alone.
LEMMA ReadingSim ==
  ASSUME AllInv, Inv', TableAges, NEW t \in Threads, Others(t),
         UNCHANGED <<index, entry_key, entry_value>>,
         \A u \in Threads \ {t} : seen'[u] = seen[u]
  PROVE  Keeps /\ \A u \in Threads \ {t} : LinState(u)'
<1>1. Keeps
  BY ReadingKeeps DEF AllInv
<1>2. QED
  BY <1>1, OthersLin

\* The current binding stays among those a thread has seen.
LEMMA SeenKept ==
  ASSUME AllInv, Keeps, NEW t \in Threads, op[t] # NULL, out[t] = NULL,
         UNCHANGED <<op, seen>>
  PROVE  Binding(op[t].key)' \in seen'[t]
<1>1. PICK k \in Keys : k = op[t].key
  BY CallType DEF AllInv, Inv, TypeOK
<1>2. Binding(k)' \in seen'[t]
  BY <1>1 DEF AllInv, LinState, Keeps
<1>3. QED
  BY <1>1, <1>2 DEF Binding, LiveAt, IsEntry

\* The map keeps its value when no binding changes.
LEMMA MapKept ==
  ASSUME Keeps
  PROVE  [k \in Keys |-> Binding(k)]' = [k \in Keys |-> Binding(k)]
BY DEF Keeps

\* The step refines the abstract map and keeps what the threads know.
Sim == (\A u \in Threads : LinState(u)') /\ [Map!Next]_(Map!vars)

\* A step between two accesses of one call is a stutter of the map.
LEMMA StutterSim ==
  ASSUME AllInv, Inv', TableAges, NEW t \in Threads, Others(t),
         UNCHANGED <<index, entry_key, entry_value, op, seen, out>>,
         LinState(t)'
  PROVE  Sim
<1>1. Keeps /\ \A u \in Threads \ {t} : LinState(u)'
  BY ReadingSim
<1>2. UNCHANGED (Map!vars)
  BY <1>1, MapKept DEF Map!vars
<1>3. QED
  BY <1>1, <1>2 DEF Sim

\* A thread that has its answer knows nothing more.
LEMMA Answered ==
  ASSUME NEW t \in Threads, pc'[t] \in {"finish", "tombstone"}, out'[t] # NULL
  PROVE  LinState(t)'
BY DEF LinState, Matched

\* A call that answers with a binding it has seen is an Observe.
LEMMA ObserveSim ==
  ASSUME AllInv, Inv', TableAges, NEW t \in Threads, Others(t),
         UNCHANGED <<index, entry_key, entry_value, op, seen>>,
         op[t] # NULL, out[t] = NULL, NEW r, r # NULL, NEW v \in seen[t],
         pc'[t] = "finish", out' = [out EXCEPT ![t] = r],
         \/ /\ op[t].name = "cas" /\ op[t].expected \notin {ANY, v}
            /\ r = EXPECTATION_FAILED
         \/ op[t].name = "del" /\ v = NOT_FOUND /\ r = NOT_FOUND
         \/ op[t].name = "get" /\ r = v
  PROVE  Sim
<1>1. Keeps /\ \A u \in Threads \ {t} : LinState(u)'
  BY ReadingSim
<1>2. LinState(t)'
  BY Answered DEF AllInv, Inv, TypeOK
<1>3. Map!Observe(t)
  BY <1>1, MapKept DEF Map!Observe, Map!Pending
<1>4. QED
  BY <1>1, <1>2, <1>3 DEF Sim, Map!Next

\* A call that is given up is an Abandon.
LEMMA AbandonSim ==
  ASSUME AllInv, Inv', TableAges, NEW t \in Threads, Others(t),
         UNCHANGED <<index, entry_key, entry_value, op, seen>>,
         op[t] # NULL, out[t] = NULL, NEW r \in {ERROR, MUST_GROW},
         pc'[t] = "finish", out' = [out EXCEPT ![t] = r]
  PROVE  Sim
<1>1. Keeps /\ \A u \in Threads \ {t} : LinState(u)'
  BY ReadingSim
<1>2. LinState(t)'
  BY Answered, ConstantsDistinct DEF AllInv, Inv, TypeOK
<1>3. Map!Abandon(t)
  BY <1>1, MapKept DEF Map!Abandon, Map!Pending
<1>4. QED
  BY <1>1, <1>2, <1>3 DEF Sim, Map!Next

\* A call that changes the binding of its key is a Commit.
LEMMA CommitSim ==
  ASSUME AllInv, Inv', TableAges, NEW t \in Threads, Others(t),
         op[t] # NULL, out[t] = NULL, NEW k \in Keys, k = op[t].key,
         NEW v, Rebinds(k, v), UNCHANGED op,
         pc'[t] \in {"finish", "tombstone"}, out' = [out EXCEPT ![t] = Binding(k)],
         \/ /\ op[t].name = "cas" /\ op[t].expected \in {ANY, Binding(k)}
            /\ v = op[t].desired
         \/ op[t].name = "del" /\ Binding(k) # NOT_FOUND /\ v = NOT_FOUND,
         \A u \in Threads \ {t} : location[u] # 0 /\ out[u] = NULL =>
           entry_value'[location[u]] = entry_value[location[u]],
         \A u \in Threads \ {t} : pc[u] \in Matched =>
           \/ entry_value'[found[u]] # NULL
           \/ entry_value[found[u]] = NULL
           \/ Witness(op[u].key, NOT_FOUND)
  PROVE  Sim
<1>1. \A u \in Threads \ {t} : LinState(u)'
  BY OthersLin
<1>2. Binding(k) # NULL
  BY BindingType, ConstantsDistinct DEF AllInv, Inv
<1>3. LinState(t)'
  BY <1>2, Answered DEF AllInv, Inv, TypeOK
<1>4. [j \in Keys |-> Binding(j)]' = [[j \in Keys |-> Binding(j)] EXCEPT ![k] = v]
  BY DEF Rebinds
<1>5. Map!Rebind(k, v)
  BY <1>4 DEF Map!Rebind, Map!Pending, Rebinds, Witness
<1>6. Map!Commit(t)
  BY <1>5 DEF Map!Commit, Map!Pending
<1>7. QED
  BY <1>1, <1>3, <1>6 DEF Sim, Map!Next
-----------------------------------------------------------------------------
\* A thread in the middle of a call has no answer yet.
LEMMA PendingThread ==
  ASSUME AllInv, NEW t \in Threads, pc[t] \notin {"idle", "finish", "tombstone"}
  PROVE  /\ op[t] # NULL /\ out[t] = NULL /\ op[t].key \in Keys
         /\ op[t] \in Map!Calls
         /\ LinState(t) /\ Binding(op[t].key) \in seen[t]
BY PendingCall DEF AllInv, LinState

\* The abstract effect of moving on to the next slot.
LEMMA ProbeSim ==
  ASSUME AllInv, Inv', TableAges, NEW t \in Threads, Others(t),
         UNCHANGED <<index, entry_key, entry_value, op, seen, location>>,
         pc[t] \in Inserting, Probe(t, "read_node", MUST_GROW)
  PROVE  Sim
<1>1. op[t] # NULL /\ out[t] = NULL /\ LinState(t)
  BY PendingThread DEF Inserting
<1>2. CASE distance[t] + 1 >= Size
  BY <1>1, <1>2, AbandonSim DEF Probe, Finish, Goto, AllInv, Inv, TypeOK
<1>3. CASE ~(distance[t] + 1 >= Size)
  <2>1. pc'[t] = "read_node" /\ UNCHANGED out
    BY <1>3 DEF Probe, Goto, AllInv, Inv, TypeOK
  <2>2. Keeps
    BY <2>1, ReadingKeeps DEF AllInv
  <2>3. Binding(op[t].key)' \in seen'[t]
    BY <1>1, <2>2, SeenKept
  <2>4. LinState(t)'
    BY <1>1, <2>1, <2>3 DEF LinState, Matched
  <2>5. QED
    BY <2>1, <2>4, StutterSim
<1>4. QED
  BY <1>2, <1>3

\* ReadNode refines the map.
LEMMA ReadNodeSim ==
  ASSUME AllInv, Inv', TableAges, NEW t \in Threads, Others(t), ReadNode(t)
  PROVE  Sim
<1>1. /\ op[t] # NULL /\ out[t] = NULL /\ LinState(t) /\ op[t].name = "cas"
      /\ op[t].key \in Keys /\ Binding(op[t].key) \in seen[t] /\ pc[t] \in Inserting
  BY PendingThread DEF ReadNode, AllInv, Inv, ProbeInvariant, ThreadState, Inserting
<1>2. UNCHANGED <<index, entry_key, entry_value, op, seen, location>>
  BY DEF ReadNode, tableVars
<1>3. Keeps /\ Binding(op[t].key)' \in seen'[t]
  BY <1>1, <1>2, ReadingKeeps, SeenKept DEF AllInv
<1>4. CASE index[Slot(t)] = EMPTY /\ MayInsert(t) /\ Goto(t, "cas_node") /\ UNCHANGED out
  <2>1. pc'[t] = "cas_node"
    BY <1>4 DEF Goto, AllInv, Inv, TypeOK
  <2>2. LinState(t)'
    BY <1>1, <1>2, <1>3, <1>4, <2>1 DEF LinState, Matched, MayInsert
  <2>3. QED
    BY <1>2, <1>4, <2>2, StutterSim
<1>5. CASE index[Slot(t)] = EMPTY /\ ~MayInsert(t) /\ Finish(t, EXPECTATION_FAILED)
  <2>1. ProbeState(t) /\ distance[t] \in Nat
    BY DEF AllInv, Inv, ProbeInvariant, TypeOK
  <2>2. Binding(op[t].key) = NOT_FOUND
    BY <1>1, <1>5, <2>1, AbsentKey DEF AllInv, ProbeState, Slot
  <2>3. pc'[t] = "finish" /\ out' = [out EXCEPT ![t] = EXPECTATION_FAILED]
    BY <1>5 DEF Finish, Goto, AllInv, Inv, TypeOK
  <2>4. op[t].expected \notin {ANY, NOT_FOUND}
    BY <1>5 DEF MayInsert
  <2>5. QED
    BY <1>1, <1>2, <2>2, <2>3, <2>4, ObserveSim, ConstantsDistinct
<1>6. CASE Probe(t, "read_node", MUST_GROW)
  BY <1>1, <1>2, <1>6, ProbeSim
<1>7. CASE Goto(t, "read_entry") /\ UNCHANGED out
  <2>1. pc'[t] = "read_entry"
    BY <1>7 DEF Goto, AllInv, Inv, TypeOK
  <2>2. LinState(t)'
    BY <1>1, <1>2, <1>3, <1>7, <2>1 DEF LinState, Matched
  <2>3. QED
    BY <1>2, <1>7, <2>2, StutterSim
<1>8. QED
  BY <1>4, <1>5, <1>6, <1>7 DEF ReadNode

\* CasNode refines the map: publishing an entry inserts its key.
LEMMA CasNodeSim ==
  ASSUME AllInv, Inv', TableAges, NEW t \in Threads, Others(t), CasNode(t)
  PROVE  Sim
<1>1. /\ op[t] # NULL /\ out[t] = NULL /\ LinState(t) /\ op[t].name = "cas"
      /\ op[t].key \in Keys /\ op[t] \in Map!Calls
      /\ Binding(op[t].key) \in seen[t] /\ pc[t] \in Inserting
  BY PendingThread DEF CasNode, AllInv, Inv, ProbeInvariant, ThreadState, Inserting
<1>2. PICK k \in Keys : k = op[t].key
  BY <1>1
<1>3. /\ ProbeState(t) /\ distance[t] \in Nat /\ location[t] \in Locations
      /\ entry_key[location[t]] = k /\ entry_value[location[t]] = op[t].desired
      /\ MayInsert(t) /\ op[t].desired \in Values
  BY <1>1, <1>2, CallType, NodeKinds, ConstantsDistinct
     DEF CasNode, AllInv, Inv, ProbeInvariant, ThreadState, TypeOK, LinState
<1>4. PICK p \in Slots : p = Slot(t) /\ p = SlotAt(k, distance[t])
  BY <1>2, <1>3, SlotAtType DEF Slot
<1>5. CASE index[p] # EMPTY
  <2>1. /\ UNCHANGED <<index, entry_key, entry_value, op, seen, out, location>>
        /\ pc'[t] = "read_node"
    BY <1>4, <1>5 DEF CasNode, Goto, AllInv, Inv, TypeOK
  <2>2. Binding(op[t].key)' \in seen'[t]
    BY <1>1, <2>1, ReadingKeeps, SeenKept DEF AllInv
  <2>3. LinState(t)'
    BY <1>1, <2>1, <2>2 DEF LinState, Matched
  <2>4. QED
    BY <2>1, <2>3, StutterSim
<1>6. CASE index[p] = EMPTY
  <2>1. /\ index' = [index EXCEPT ![p] = location[t]]
        /\ Witness(k, op[t].desired)
        /\ out' = [out EXCEPT ![t] = NOT_FOUND]
        /\ pc'[t] = "finish"
        /\ UNCHANGED <<entry_key, entry_value, op, location, found>>
    BY <1>2, <1>4, <1>6 DEF CasNode, Finish, Goto, AllInv, Inv, TypeOK
  <2>2. (\A q \in Slots : ~LiveAt(q, k)) /\ Binding(k) = NOT_FOUND
    BY <1>1, <1>2, <1>3, <1>4, <1>6, AbsentKey DEF AllInv, ProbeState
  <2>3. LiveAt(p, k)' /\ entry_value'[index'[p]] = op[t].desired
    BY <1>2, <1>3, <2>1, NodeKinds, ConstantsDistinct
       DEF LiveAt, IsEntry, AllInv, Inv, TypeOK
  <2>4. Binding(k)' = op[t].desired
    BY <2>3, BindingLiveNext DEF Inv
  <2>5. ASSUME NEW j \in Keys \ {k}
        PROVE  Binding(j)' = Binding(j)
    <3>1. \A q \in Slots : LiveAt(q, j)' <=> LiveAt(q, j)
      BY <1>3, <1>6, <2>1, <2>5, NodeKinds DEF LiveAt, IsEntry, AllInv, Inv, TypeOK
    <3>2. \A q \in Slots : LiveAt(q, j) => entry_value'[index'[q]] = entry_value[index[q]]
      BY <1>6, <2>1, NodeKinds DEF LiveAt, IsEntry, AllInv, Inv, TypeOK
    <3>3. QED
      BY <3>1, <3>2, BindingKept DEF AllInv, Inv
  <2>6. Rebinds(k, op[t].desired)
    BY <2>1, <2>4, <2>5 DEF Rebinds
  <2>7. QED
    BY <1>1, <1>2, <1>3, <2>1, <2>2, <2>6, CommitSim DEF MayInsert
<1>7. QED
  BY <1>5, <1>6

\* What TryUpdate does with the entry it holds refines the map.
LEMMA TryUpdateSim ==
  ASSUME AllInv, Inv', TableAges, NEW t \in Threads, Others(t),
         pc[t] \in {"read_entry", "reread_entry"}, entry_key[found[t]] = op[t].key,
         entry_value[found[t]] # NULL \/ pc[t] = "reread_entry",
         TryUpdate(t, entry_value[found[t]]),
         UNCHANGED <<index, entry_key, entry_value, op, seen, location, found>>
  PROVE  Sim
<1> DEFINE v == entry_value[found[t]]
<1>1. /\ op[t] # NULL /\ out[t] = NULL /\ LinState(t) /\ op[t].name = "cas"
      /\ op[t].key \in Keys /\ Binding(op[t].key) \in seen[t] /\ pc[t] \in Inserting
      /\ pc[t] \in Examining /\ found[t] \in Locations
  BY PendingThread, ExaminedSlot
     DEF AllInv, Inv, ProbeInvariant, ThreadState, Inserting, Examining
<1>2. v \in Values \cup {NULL}
  BY <1>1 DEF AllInv, Inv, TypeOK
<1>3. v # NULL => v \in seen[t]
  BY <1>1, HoldsBinding
<1>4. v = NULL => /\ NOT_FOUND \in seen[t] /\ op[t].expected \in {ANY, value[t]}
                  /\ value[t] \in Values
  BY <1>1 DEF LinState, Matched
<1>5. CASE op[t].expected \notin {ANY, v}
  <2>1. pc'[t] = "finish" /\ out' = [out EXCEPT ![t] = EXPECTATION_FAILED]
    BY <1>5 DEF TryUpdate, Finish, Goto, AllInv, Inv, TypeOK
  <2>2. CASE v # NULL
    BY <1>1, <1>3, <1>5, <2>1, <2>2, ObserveSim, ConstantsDistinct
  <2>3. CASE v = NULL
    <3>1. op[t].expected \notin {ANY, NOT_FOUND}
      BY <1>4, <1>5, <2>3, ConstantsDistinct
    <3>2. QED
      BY <1>1, <1>4, <2>1, <2>3, <3>1, ObserveSim, ConstantsDistinct
  <2>4. QED
    BY <2>2, <2>3
<1>6. CASE op[t].expected \in {ANY, v} /\ v = NULL
  BY <1>1, <1>6, ProbeSim DEF TryUpdate
<1>7. CASE op[t].expected \in {ANY, v} /\ v # NULL
  <2>1. pc'[t] = "cas_value" /\ value'[t] = v /\ UNCHANGED out
    BY <1>7 DEF TryUpdate, Goto, AllInv, Inv, TypeOK
  <2>2. Binding(op[t].key)' \in seen'[t]
    BY <1>1, ReadingKeeps, SeenKept DEF AllInv
  <2>3. LinState(t)'
    BY <1>1, <1>2, <1>7, <2>1, <2>2 DEF LinState, Matched
  <2>4. QED
    BY <2>1, <2>3, StutterSim
<1>8. QED
  BY <1>5, <1>6, <1>7

\* ReadEntry and RereadEntry refine the map.
LEMMA ReadEntrySim ==
  ASSUME AllInv, Inv', TableAges, NEW t \in Threads, Others(t),
         ReadEntry(t) \/ RereadEntry(t)
  PROVE  Sim
<1>1. UNCHANGED <<index, entry_key, entry_value, op, seen, location, found>>
  BY DEF ReadEntry, RereadEntry, tableVars
<1>2. /\ op[t] # NULL /\ out[t] = NULL /\ LinState(t) /\ pc[t] \in Inserting
      /\ pc[t] \in {"read_entry", "reread_entry"}
  BY PendingThread DEF ReadEntry, RereadEntry, Inserting
<1>3. CASE RereadEntry(t)
  <2>1. pc[t] = "reread_entry" /\ entry_key[found[t]] = op[t].key
    BY <1>2, <1>3 DEF RereadEntry, LinState, Matched
  <2>2. QED
    BY <1>1, <1>3, <2>1, TryUpdateSim DEF RereadEntry
<1>4. CASE ReadEntry(t) /\ Probe(t, "read_node", MUST_GROW)
  BY <1>1, <1>2, <1>4, ProbeSim
<1>5. CASE ReadEntry(t) /\ Finish(t, ERROR)
  <2>1. pc'[t] = "finish" /\ out' = [out EXCEPT ![t] = ERROR]
    BY <1>5 DEF Finish, Goto, AllInv, Inv, TypeOK
  <2>2. QED
    BY <1>1, <1>2, <2>1, AbandonSim
<1>6. CASE /\ ReadEntry(t) /\ TryUpdate(t, entry_value[found[t]])
           /\ entry_value[found[t]] # NULL /\ entry_key[found[t]] = op[t].key
  BY <1>1, <1>2, <1>6, TryUpdateSim
<1>7. QED
  BY <1>3, <1>4, <1>5, <1>6 DEF ReadEntry

\* The value of one live entry changes, to another value or to NULL: its key, and
\* no other, is bound to something new.
LEMMA ValueRebinds ==
  ASSUME AllInv, Inv', NEW t \in Threads, pc[t] \in Examining, NEW k \in Keys,
         k = op[t].key, entry_key[found[t]] = k, entry_value[found[t]] # NULL,
         UNCHANGED <<index, entry_key>>, NEW w \in Values \cup {NULL},
         entry_value' = [entry_value EXCEPT ![found[t]] = w],
         Witness(k, IF w = NULL THEN NOT_FOUND ELSE w)
  PROVE  Rebinds(k, IF w = NULL THEN NOT_FOUND ELSE w)
<1>1. /\ Slot(t) \in Slots /\ index[Slot(t)] = found[t] /\ LiveAt(Slot(t), k)
      /\ found[t] \in Locations
  BY HoldsBinding, ExaminedSlot DEF AllInv
<1>2. \A q \in Slots : index[q] = found[t] => q = Slot(t)
  BY <1>1, NodeKinds DEF AllInv, Inv, ProbeInvariant, NodeState
<1>3. entry_value'[found[t]] = w
  BY <1>1 DEF AllInv, Inv, TypeOK
<1>4. Binding(k)' = IF w = NULL THEN NOT_FOUND ELSE w
  <2>1. PICK p \in Slots : p = Slot(t)
    BY <1>1
  <2>2. CASE w = NULL
    <3>1. ASSUME NEW q \in Slots
          PROVE  ~LiveAt(q, k)'
      <4>1. CASE q = p
        BY <1>1, <1>3, <2>1, <2>2, <4>1 DEF LiveAt
      <4>2. CASE q # p
        <5>1. ~LiveAt(q, k)
          BY <1>1, <2>1, <4>2 DEF AllInv, Inv, OneLiveEntryPerKey
        <5>2. QED
          BY <1>1, <1>2, <2>1, <4>2, <5>1 DEF LiveAt, IsEntry, AllInv, Inv, TypeOK
      <4>3. QED
        BY <4>1, <4>2
    <3>2. QED
      BY <2>2, <3>1, BindingAbsentNext
  <2>3. CASE w # NULL
    <3>1. LiveAt(p, k)' /\ entry_value'[index'[p]] = w
      BY <1>1, <1>3, <2>1, <2>3 DEF LiveAt, IsEntry
    <3>2. QED
      BY <2>3, <3>1, BindingLiveNext DEF Inv
  <2>4. QED
    BY <2>2, <2>3
<1>5. ASSUME NEW j \in Keys \ {k}
      PROVE  Binding(j)' = Binding(j)
  <2>1. \A q \in Slots : LiveAt(q, j)' <=> LiveAt(q, j)
    BY <1>1, <1>5 DEF LiveAt, IsEntry, AllInv, Inv, TypeOK
  <2>2. \A q \in Slots : LiveAt(q, j) => entry_value'[index'[q]] = entry_value[index[q]]
    BY <1>1, <1>5 DEF LiveAt, IsEntry, AllInv, Inv, TypeOK
  <2>3. QED
    BY <2>1, <2>2, BindingKept DEF AllInv, Inv
<1>6. QED
  BY <1>4, <1>5 DEF Rebinds

\* A reachable entry is nobody's private one.
LEMMA FoundIsNotHeld ==
  ASSUME AllInv, NEW t \in Threads, pc[t] \in Examining,
         NEW u \in Threads, location[u] # 0, out[u] = NULL
  PROVE  location[u] # found[t]
<1>1. found[t] \notin Private
  BY ExaminedSlot DEF AllInv
<1>2. location[u] \in Private
  BY ConstantsDistinct DEF Private
<1>3. QED
  BY <1>1, <1>2

\* CasValue refines the map: exchanging the value rebinds the key.
LEMMA CasValueSim ==
  ASSUME AllInv, Inv', TableAges, NEW t \in Threads, Others(t), CasValue(t)
  PROVE  Sim
<1>1. /\ op[t] # NULL /\ out[t] = NULL /\ LinState(t) /\ op[t].name = "cas"
      /\ op[t].key \in Keys /\ op[t] \in Map!Calls
      /\ pc[t] = "cas_value" /\ pc[t] \in Examining
      /\ found[t] \in Locations
  BY PendingThread, ExaminedSlot
     DEF CasValue, AllInv, Inv, ProbeInvariant, ThreadState, Inserting, Examining
<1>2. PICK k \in Keys : k = op[t].key
  BY <1>1
<1>3. /\ entry_key[found[t]] = k /\ value[t] \in Values /\ value[t] # NULL
      /\ op[t].expected \in {ANY, value[t]} /\ op[t].desired \in Values
      /\ op[t].desired # NULL
  BY <1>1, <1>2, CallType, ConstantsDistinct DEF LinState, Matched
<1>4. CASE entry_value[found[t]] # value[t]
  <2>1. /\ UNCHANGED <<index, entry_key, entry_value, op, seen, out, location, found, value>>
        /\ pc'[t] = "reread_entry"
    BY <1>4 DEF CasValue, Goto, AllInv, Inv, TypeOK
  <2>2. Binding(op[t].key)' \in seen'[t]
    BY <1>1, <2>1, ReadingKeeps, SeenKept DEF AllInv
  <2>3. LinState(t)'
    BY <1>1, <2>1, <2>2 DEF LinState, Matched
  <2>4. QED
    BY <2>1, <2>3, StutterSim
<1>5. CASE entry_value[found[t]] = value[t]
  <2>1. /\ entry_value' = [entry_value EXCEPT ![found[t]] = op[t].desired]
        /\ Witness(k, op[t].desired)
        /\ out' = [out EXCEPT ![t] = value[t]]
        /\ pc'[t] = "finish"
        /\ UNCHANGED <<index, entry_key, op>>
    BY <1>2, <1>5 DEF CasValue, Finish, Goto, AllInv, Inv, TypeOK
  <2>2. Binding(k) = value[t]
    BY <1>1, <1>2, <1>3, <1>5, HoldsBinding
  <2>3. Rebinds(k, op[t].desired)
    BY <1>1, <1>2, <1>3, <1>5, <2>1, ValueRebinds
  <2>4. \A u \in Threads \ {t} : location[u] # 0 /\ out[u] = NULL =>
          entry_value'[location[u]] = entry_value[location[u]]
    BY <1>1, <2>1, FoundIsNotHeld DEF AllInv, Inv, TypeOK
  <2>5. \A e \in Locations : entry_value[e] # NULL => entry_value'[e] # NULL
    BY <1>1, <1>3, <2>1 DEF AllInv, Inv, TypeOK
  <2>6. \A u \in Threads : pc[u] \in Matched => found[u] \in Locations
    BY ExaminedSlot DEF AllInv, Matched, Examining
  <2>7. QED
    BY <1>1, <1>2, <1>3, <2>1, <2>2, <2>3, <2>4, <2>5, <2>6, CommitSim
<1>6. QED
  BY <1>4, <1>5

\* DeleteValue refines the map: the exchange with NULL removes the key.
LEMMA DeleteValueSim ==
  ASSUME AllInv, Inv', TableAges, NEW t \in Threads, Others(t), DeleteValue(t)
  PROVE  Sim
<1>1. /\ op[t] # NULL /\ out[t] = NULL /\ LinState(t) /\ op[t].name = "del"
      /\ op[t].key \in Keys /\ pc[t] = "delete" /\ pc[t] \in Examining
      /\ found[t] \in Locations
  BY PendingThread, ExaminedSlot DEF DeleteValue, AllInv, LinState, Examining
<1>2. PICK k \in Keys : k = op[t].key
  BY <1>1
<1>3. /\ entry_key[found[t]] = k /\ value[t] \in Values /\ value[t] # NULL
      /\ value[t] # NOT_FOUND
  BY <1>1, <1>2, ConstantsDistinct DEF LinState, Matched
<1>4. CASE entry_value[found[t]] # value[t]
  <2>1. /\ UNCHANGED <<index, entry_key, entry_value, op, seen, out, location, found, value>>
        /\ pc'[t] = "delete_reread"
    BY <1>4 DEF DeleteValue, Goto, AllInv, Inv, TypeOK
  <2>2. Binding(op[t].key)' \in seen'[t]
    BY <1>1, <2>1, ReadingKeeps, SeenKept DEF AllInv
  <2>3. LinState(t)'
    BY <1>1, <2>1, <2>2 DEF LinState, Matched
  <2>4. QED
    BY <2>1, <2>3, StutterSim
<1>5. CASE entry_value[found[t]] = value[t]
  <2>1. /\ entry_value' = [entry_value EXCEPT ![found[t]] = NULL]
        /\ Witness(k, NOT_FOUND)
        /\ out' = [out EXCEPT ![t] = value[t]]
        /\ pc'[t] = "tombstone"
        /\ UNCHANGED <<index, entry_key, op>>
    BY <1>2, <1>5 DEF DeleteValue, Goto, AllInv, Inv, TypeOK
  <2>2. Binding(k) = value[t]
    BY <1>1, <1>2, <1>3, <1>5, HoldsBinding
  <2>3. Rebinds(k, NOT_FOUND)
    BY <1>1, <1>2, <1>3, <1>5, <2>1, ValueRebinds
  <2>4. \A u \in Threads \ {t} : location[u] # 0 /\ out[u] = NULL =>
          entry_value'[location[u]] = entry_value[location[u]]
    BY <1>1, <2>1, FoundIsNotHeld DEF AllInv, Inv, TypeOK
  <2>5. ASSUME NEW u \in Threads \ {t}, pc[u] \in Matched
        PROVE  \/ entry_value'[found[u]] # NULL
               \/ entry_value[found[u]] = NULL
               \/ Witness(op[u].key, NOT_FOUND)
    <3>1. found[u] \in Locations /\ entry_key[found[u]] = op[u].key
      BY <2>5, ExaminedSlot DEF AllInv, LinState, Matched, Examining
    <3>2. CASE found[u] = found[t]
      BY <1>3, <2>1, <3>1, <3>2
    <3>3. CASE found[u] # found[t]
      BY <1>1, <2>1, <3>1, <3>3 DEF AllInv, Inv, TypeOK
    <3>4. QED
      BY <3>2, <3>3
  <2>6. QED
    BY <1>1, <1>2, <1>3, <2>1, <2>2, <2>3, <2>4, <2>5, CommitSim
<1>6. QED
  BY <1>4, <1>5

\* DeleteReread refines the map: whoever lost its entry to another deletion has
\* seen the key absent.
LEMMA DeleteRereadSim ==
  ASSUME AllInv, Inv', TableAges, NEW t \in Threads, Others(t), DeleteReread(t)
  PROVE  Sim
<1>1. /\ op[t] # NULL /\ out[t] = NULL /\ LinState(t) /\ op[t].name = "del"
      /\ op[t].key \in Keys /\ pc[t] = "delete_reread" /\ found[t] \in Locations
  BY PendingThread, ExaminedSlot DEF DeleteReread, AllInv, LinState, Examining
<1>2. UNCHANGED <<index, entry_key, entry_value, op, seen, location, found>>
  BY DEF DeleteReread, tableVars
<1>3. CASE entry_value[found[t]] = NULL
  <2>1. pc'[t] = "finish" /\ out' = [out EXCEPT ![t] = NOT_FOUND]
    BY <1>3 DEF DeleteReread, Finish, Goto, AllInv, Inv, TypeOK
  <2>2. NOT_FOUND \in seen[t]
    BY <1>1, <1>3 DEF LinState, Matched
  <2>3. QED
    BY <1>1, <1>2, <2>1, <2>2, ObserveSim, ConstantsDistinct
<1>4. CASE entry_value[found[t]] # NULL
  <2>1. /\ pc'[t] = "delete" /\ UNCHANGED out /\ value'[t] = entry_value[found[t]]
        /\ value'[t] \in Values
    BY <1>1, <1>4 DEF DeleteReread, Goto, AllInv, Inv, TypeOK
  <2>2. Binding(op[t].key)' \in seen'[t]
    BY <1>1, <1>2, ReadingKeeps, SeenKept DEF AllInv
  <2>3. LinState(t)'
    BY <1>1, <1>2, <2>1, <2>2 DEF LinState, Matched
  <2>4. QED
    BY <1>2, <2>1, <2>3, StutterSim
<1>5. QED
  BY <1>3, <1>4

\* WriteTombstone changes no binding: the entry it buries is dead.
LEMMA WriteTombstoneSim ==
  ASSUME AllInv, Inv', TableAges, NEW t \in Threads, Others(t), WriteTombstone(t)
  PROVE  Sim
<1>1. /\ pc[t] = "tombstone" /\ pc'[t] = "finish"
      /\ UNCHANGED <<entry_key, entry_value, op, out, seen>>
      /\ Slot(t) \in Slots /\ index[Slot(t)] = found[t] /\ entry_value[found[t]] = NULL
      /\ index' = [index EXCEPT ![Slot(t)] = TOMBSTONE]
      /\ out[t] # NULL
  BY ExaminedSlot
     DEF WriteTombstone, Goto, AllInv, Inv, TypeOK, BurialInv, Burial, LinState, Examining
<1>2. PICK p \in Slots : p = Slot(t)
  BY <1>1
<1>3. Keeps
  <2> SUFFICES ASSUME NEW k \in Keys PROVE Binding(k)' = Binding(k)
    BY DEF Keeps
  <2>1. \A q \in Slots : LiveAt(q, k)' <=> LiveAt(q, k)
    BY <1>1, <1>2, NodeKinds DEF LiveAt, IsEntry, AllInv, Inv, TypeOK
  <2>2. \A q \in Slots : LiveAt(q, k) => entry_value'[index'[q]] = entry_value[index[q]]
    BY <1>1, <1>2, NodeKinds DEF LiveAt, IsEntry, AllInv, Inv, TypeOK
  <2>3. QED
    BY <2>1, <2>2, BindingKept DEF AllInv, Inv
<1>4. \A u \in Threads \ {t} : LinState(u)'
  BY <1>1, <1>3, OthersLin
<1>5. LinState(t)'
  BY <1>1, Answered
<1>6. UNCHANGED (Map!vars)
  BY <1>1, <1>3, MapKept DEF Map!vars
<1>7. QED
  BY <1>4, <1>5, <1>6 DEF Sim
-----------------------------------------------------------------------------
\* A lookup that passes one more slot, where no live entry of its key is, has
\* nothing behind it; at the end of its turn it has shown the key absent.
LEMMA LookupProbeSim ==
  ASSUME AllInv, Inv', TableAges, NEW t \in Threads, Others(t),
         UNCHANGED <<index, entry_key, entry_value, op, seen, location>>,
         pc[t] \in {"lookup", "lookup_entry"}, Probe(t, "lookup", NOT_FOUND),
         index[Slot(t)] # EMPTY, ~LiveAt(Slot(t), op[t].key)
  PROVE  Sim
<1>1. /\ op[t] # NULL /\ out[t] = NULL /\ LinState(t) /\ op[t].key \in Keys
      /\ Binding(op[t].key) \in seen[t] /\ op[t].name # "cas" /\ Passed(t)
      /\ op[t].name \in {"cas", "del", "get"}
  BY PendingThread, CallType DEF LinState
<1>2. PICK k \in Keys : k = op[t].key
  BY <1>1
<1>3. PICK n \in Nat : n = distance[t]
  BY DEF AllInv, Inv, TypeOK
<1>4. ASSUME NEW d \in 0..n
      PROVE  index[SlotAt(k, d)] # EMPTY /\ ~LiveAt(SlotAt(k, d), k)
  <2>1. CASE d = n
    BY <1>2, <1>3, <2>1 DEF Slot
  <2>2. CASE d \in 0..(n - 1)
    BY <1>1, <1>2, <1>3, <2>2 DEF Passed
  <2>3. QED
    BY <2>1, <2>2
<1>5. CASE n + 1 >= Size
  <2>1. Binding(k) = NOT_FOUND
    BY <1>4, <1>5, AbsentKey DEF AllInv
  <2>2. pc'[t] = "finish" /\ out' = [out EXCEPT ![t] = NOT_FOUND]
    BY <1>3, <1>5 DEF Probe, Finish, Goto, AllInv, Inv, TypeOK
  <2>3. NOT_FOUND \in seen[t]
    BY <1>1, <1>2, <2>1
  <2>4. QED
    BY <1>1, <2>2, <2>3, ObserveSim, ConstantsDistinct
<1>6. CASE ~(n + 1 >= Size)
  <2>1. pc'[t] = "lookup" /\ UNCHANGED out /\ distance'[t] = n + 1
    BY <1>3, <1>6 DEF Probe, Goto, AllInv, Inv, TypeOK
  <2>2. Passed(t)'
    BY <1>2, <1>4, <2>1 DEF Passed, SlotAt, LiveAt, IsEntry
  <2>3. Binding(op[t].key)' \in seen'[t]
    BY <1>1, ReadingKeeps, SeenKept DEF AllInv
  <2>4. LinState(t)'
    BY <1>1, <2>1, <2>2, <2>3 DEF LinState, Matched
  <2>5. QED
    BY <2>1, <2>4, StutterSim
<1>7. QED
  BY <1>5, <1>6

\* LookupNode refines the map.
LEMMA LookupNodeSim ==
  ASSUME AllInv, Inv', TableAges, NEW t \in Threads, Others(t), LookupNode(t)
  PROVE  Sim
<1>1. /\ op[t] # NULL /\ out[t] = NULL /\ LinState(t) /\ op[t].key \in Keys
      /\ Binding(op[t].key) \in seen[t] /\ op[t].name # "cas" /\ Passed(t)
      /\ op[t].name \in {"cas", "del", "get"} /\ distance[t] \in Nat
      /\ pc[t] = "lookup"
  BY PendingThread, CallType DEF LookupNode, LinState, AllInv, Inv, TypeOK
<1>2. UNCHANGED <<index, entry_key, entry_value, op, seen, location>>
  BY DEF LookupNode, tableVars
<1>3. CASE index[Slot(t)] = EMPTY /\ Finish(t, NOT_FOUND)
  <2>1. Binding(op[t].key) = NOT_FOUND
    BY <1>1, <1>3, AbsentKey DEF AllInv, Passed, Slot
  <2>2. pc'[t] = "finish" /\ out' = [out EXCEPT ![t] = NOT_FOUND]
    BY <1>3 DEF Finish, Goto, AllInv, Inv, TypeOK
  <2>3. QED
    BY <1>1, <1>2, <2>1, <2>2, ObserveSim, ConstantsDistinct
<1>4. CASE /\ index[Slot(t)] # EMPTY /\ ~CheckTag(index[Slot(t)], op[t].key)
           /\ Probe(t, "lookup", NOT_FOUND)
  <2>1. ~LiveAt(Slot(t), op[t].key)
    BY <1>4 DEF LiveAt, CheckTag
  <2>2. QED
    BY <1>1, <1>2, <1>4, <2>1, LookupProbeSim
<1>5. CASE Goto(t, "lookup_entry") /\ UNCHANGED <<distance, out>>
  <2>1. pc'[t] = "lookup_entry"
    BY <1>5 DEF Goto, AllInv, Inv, TypeOK
  <2>2. Passed(t)'
    BY <1>1, <1>2, <1>5 DEF Passed, SlotAt, LiveAt, IsEntry
  <2>3. Binding(op[t].key)' \in seen'[t]
    BY <1>1, <1>2, ReadingKeeps, SeenKept DEF AllInv
  <2>4. LinState(t)'
    BY <1>1, <1>2, <1>5, <2>1, <2>2, <2>3 DEF LinState, Matched
  <2>5. QED
    BY <1>2, <1>5, <2>4, StutterSim
<1>6. QED
  BY <1>3, <1>4, <1>5 DEF LookupNode

\* LookupEntry refines the map.
LEMMA LookupEntrySim ==
  ASSUME AllInv, Inv', TableAges, NEW t \in Threads, Others(t), LookupEntry(t)
  PROVE  Sim
<1>1. /\ op[t] # NULL /\ out[t] = NULL /\ LinState(t) /\ op[t].key \in Keys
      /\ Binding(op[t].key) \in seen[t] /\ op[t].name # "cas"
      /\ op[t].name \in {"cas", "del", "get"}
      /\ pc[t] = "lookup_entry" /\ pc[t] \in Examining /\ found[t] \in Locations
  BY PendingThread, CallType, ExaminedSlot DEF LookupEntry, LinState, AllInv, Examining
<1>2. UNCHANGED <<index, entry_key, entry_value, op, seen, location, found>>
  BY DEF LookupEntry, tableVars
<1>3. CASE /\ ~(entry_value[found[t]] # NULL /\ entry_key[found[t]] = op[t].key)
           /\ Probe(t, "lookup", NOT_FOUND)
  <2>1. index[Slot(t)] \in {found[t], TOMBSTONE}
    BY <1>1 DEF AllInv, BurialInv, Burial
  <2>2. index[Slot(t)] # EMPTY /\ ~LiveAt(Slot(t), op[t].key)
    BY <1>1, <1>3, <2>1, NodeKinds DEF LiveAt
  <2>3. QED
    BY <1>1, <1>2, <1>3, <2>2, LookupProbeSim
<1>4. CASE Finish(t, ERROR)
  <2>1. pc'[t] = "finish" /\ out' = [out EXCEPT ![t] = ERROR]
    BY <1>4 DEF Finish, Goto, AllInv, Inv, TypeOK
  <2>2. QED
    BY <1>1, <1>2, <2>1, AbandonSim
<1>5. CASE /\ entry_value[found[t]] # NULL /\ entry_key[found[t]] = op[t].key
           /\ value' = [value EXCEPT ![t] = entry_value[found[t]]]
           /\ Goto(t, IF op[t].name = "get" THEN "try_incref" ELSE "delete")
           /\ UNCHANGED <<distance, out>>
  <2>1. /\ pc'[t] = IF op[t].name = "get" THEN "try_incref" ELSE "delete"
        /\ value'[t] = entry_value[found[t]] /\ value'[t] \in Values
    BY <1>1, <1>5 DEF Goto, AllInv, Inv, TypeOK
  <2>2. value'[t] \in seen[t]
    BY <1>1, <1>5, <2>1, HoldsBinding
  <2>3. Binding(op[t].key)' \in seen'[t]
    BY <1>1, <1>2, ReadingKeeps, SeenKept DEF AllInv
  <2>4. LinState(t)'
    BY <1>1, <1>2, <1>5, <2>1, <2>2, <2>3 DEF LinState, Matched
  <2>5. QED
    BY <1>2, <1>5, <2>4, StutterSim
<1>6. QED
  BY <1>3, <1>4, <1>5 DEF LookupEntry

\* TryIncref refines the map.
LEMMA TryIncrefSim ==
  ASSUME AllInv, Inv', TableAges, NEW t \in Threads, Others(t), TryIncref(t)
  PROVE  Sim
<1>1. /\ op[t] # NULL /\ out[t] = NULL /\ LinState(t) /\ op[t].key \in Keys
      /\ op[t].name = "get" /\ value[t] \in seen[t] /\ value[t] \in Values
      /\ value[t] # NULL
  BY PendingThread, ConstantsDistinct DEF TryIncref, LinState, Matched
<1>2. UNCHANGED <<index, entry_key, entry_value, op, seen, location>>
  BY DEF TryIncref, tableVars
<1>3. CASE Finish(t, value[t])
  <2>1. pc'[t] = "finish" /\ out' = [out EXCEPT ![t] = value[t]]
    BY <1>3 DEF Finish, Goto, AllInv, Inv, TypeOK
  <2>2. QED
    BY <1>1, <1>2, <2>1, ObserveSim
<1>4. CASE /\ distance' = [distance EXCEPT ![t] = 0]
           /\ Goto(t, "lookup") /\ UNCHANGED out
  <2>1. pc'[t] = "lookup" /\ distance'[t] = 0
    BY <1>4 DEF Goto, AllInv, Inv, TypeOK
  <2>2. Passed(t)'
    BY <2>1 DEF Passed
  <2>3. Binding(op[t].key)' \in seen'[t]
    BY <1>1, <1>2, ReadingKeeps, SeenKept DEF AllInv
  <2>4. LinState(t)'
    BY <1>1, <1>2, <1>4, <2>1, <2>2, <2>3 DEF LinState, Matched
  <2>5. QED
    BY <1>2, <1>4, <2>4, StutterSim
<1>5. QED
  BY <1>3, <1>4 DEF TryIncref
-----------------------------------------------------------------------------
\* Call is an Invoke.
LEMMA CallSim ==
  ASSUME AllInv, Inv', TableAges, NEW t \in Threads, Others(t),
         NEW call \in Map!Calls, Call(t, call)
  PROVE  Sim
<1>1. /\ op[t] = NULL /\ out[t] = NULL /\ location[t] = 0 /\ distance[t] = 0
      /\ LinState(t) /\ pc[t] = "idle"
  BY DEF Call, AllInv, Inv, ProbeInvariant, ThreadState
<1>2. /\ op' = [op EXCEPT ![t] = call] /\ op'[t] = call
      /\ seen' = [seen EXCEPT ![t] = {Binding(call.key)}]
      /\ seen'[t] = {Binding(call.key)}
      /\ UNCHANGED <<index, entry_key, entry_value, out, distance, location>>
      /\ pc'[t] = IF call.name # "cas" THEN "lookup"
                  ELSE IF call.expected \in {NOT_FOUND, ANY} THEN "get_empty_entry"
                  ELSE "read_node"
  BY DEF Call, Goto, tableVars, AllInv, Inv, TypeOK
<1>3. PICK k \in Keys : k = call.key
  BY CallType
<1>4. Keeps /\ \A u \in Threads \ {t} : LinState(u)'
  BY <1>2, ReadingSim DEF AllInv, Inv, TypeOK
<1>5. Binding(op[t].key)' \in seen'[t]
  <2>1. Binding(k)' \in seen'[t]
    BY <1>2, <1>3, <1>4 DEF Keeps
  <2>2. QED
    BY <1>2, <1>3, <2>1 DEF Binding, LiveAt, IsEntry
<1>6. Passed(t)'
  BY <1>1, <1>2 DEF Passed
<1>7. LinState(t)'
  BY <1>1, <1>2, <1>5, <1>6 DEF LinState, Matched
<1>8. Map!Invoke(t, call)
  BY <1>1, <1>2, <1>3, <1>4, MapKept DEF Map!Invoke
<1>9. QED
  BY <1>4, <1>7, <1>8 DEF Sim, Map!Next

\* Filling in a reserved entry shows nobody anything.
LEMMA GetEmptyEntrySim ==
  ASSUME AllInv, Inv', TableAges, NEW t \in Threads, Others(t), GetEmptyEntry(t)
  PROVE  Sim
<1>1. /\ op[t] # NULL /\ out[t] = NULL /\ LinState(t) /\ op[t].key \in Keys
      /\ pc[t] = "get_empty_entry"
  BY PendingThread DEF GetEmptyEntry
<1>2. PICK e \in free :
        /\ location' = [location EXCEPT ![t] = e]
        /\ entry_key' = [entry_key EXCEPT ![e] = op[t].key]
        /\ entry_value' = [entry_value EXCEPT ![e] = op[t].desired]
  BY DEF GetEmptyEntry
<1>3. /\ UNCHANGED <<index, op, out, seen>> /\ pc'[t] = "read_node"
      /\ e \in Locations /\ e \in Private /\ location'[t] = e
      /\ entry_value'[e] = op[t].desired
  BY <1>2 DEF GetEmptyEntry, Goto, Private, AllInv, Inv, TypeOK
<1>4. Keeps
  BY <1>2, <1>3, PrivateKeeps DEF AllInv, Inv, TypeOK
<1>5. ASSUME NEW u \in Threads \ {t}
      PROVE  LinState(u)'
  <2>1. location[u] # e
    BY <1>2 DEF AllInv, Inv, ProbeInvariant, Ownership
  <2>2. location[u] # 0 => entry_value'[location[u]] = entry_value[location[u]]
    BY <1>2, <2>1 DEF AllInv, Inv, TypeOK
  <2>3. pc[u] \in Matched => entry_value'[found[u]] = entry_value[found[u]]
    BY <1>2, <1>3, ExaminedSlot DEF AllInv, Inv, TypeOK, Matched, Examining
  <2>4. QED
    BY <1>3, <1>4, <2>2, <2>3, OthersLin
<1>6. Binding(op[t].key)' \in seen'[t]
  BY <1>1, <1>3, <1>4, SeenKept
<1>7. LinState(t)'
  BY <1>1, <1>3, <1>6 DEF LinState, Matched
<1>8. UNCHANGED (Map!vars)
  BY <1>3, <1>4, MapKept DEF Map!vars
<1>9. QED
  BY <1>5, <1>7, <1>8 DEF Sim

\* NoEmptyEntry is an Abandon.
LEMMA NoEmptyEntrySim ==
  ASSUME AllInv, Inv', TableAges, NEW t \in Threads, Others(t), NoEmptyEntry(t)
  PROVE  Sim
<1>1. op[t] # NULL /\ out[t] = NULL
  BY PendingThread DEF NoEmptyEntry
<1>2. PICK r \in {ERROR, MUST_GROW} : Finish(t, r)
  BY DEF NoEmptyEntry
<1>3. pc'[t] = "finish" /\ out' = [out EXCEPT ![t] = r]
  BY <1>2 DEF Finish, Goto, AllInv, Inv, TypeOK
<1>4. UNCHANGED <<index, entry_key, entry_value, op, seen>>
  BY DEF NoEmptyEntry, tableVars
<1>5. QED
  BY <1>1, <1>3, <1>4, AbandonSim

\* The end of a call is a Respond.
LEMMA RespondSim ==
  ASSUME AllInv, Inv', TableAges, NEW t \in Threads, Others(t), Keeps,
         pc[t] = "finish", pc'[t] = "idle", location'[t] = 0,
         op' = [op EXCEPT ![t] = NULL], out' = [out EXCEPT ![t] = NULL],
         seen' = [seen EXCEPT ![t] = {}],
         \A u \in Threads \ {t} : LinState(u)'
  PROVE  Sim
<1>1. out[t] # NULL
  BY DEF AllInv, LinState
<1>2. LinState(t)'
  BY DEF LinState, Matched, AllInv, Inv, TypeOK
<1>3. Map!Respond(t)
  BY <1>1, MapKept DEF Map!Respond
<1>4. QED
  BY <1>2, <1>3 DEF Sim, Map!Next

\* EndLookup is a Respond.
LEMMA EndLookupSim ==
  ASSUME AllInv, Inv', TableAges, NEW t \in Threads, Others(t), EndLookup(t)
  PROVE  Sim
<1>1. /\ pc[t] = "finish" /\ pc'[t] = "idle" /\ location'[t] = 0
      /\ op' = [op EXCEPT ![t] = NULL] /\ out' = [out EXCEPT ![t] = NULL]
      /\ seen' = [seen EXCEPT ![t] = {}]
      /\ UNCHANGED <<index, entry_key, entry_value>>
  BY DEF EndLookup, Goto, tableVars, AllInv, Inv, TypeOK, ProbeInvariant, ThreadState
<1>2. Keeps /\ \A u \in Threads \ {t} : LinState(u)'
  BY <1>1, ReadingSim DEF AllInv, Inv, TypeOK
<1>3. QED
  BY <1>1, <1>2, RespondSim

\* So is EndCompareAndSet, which clears an entry nobody has seen.
LEMMA EndCompareAndSetSim ==
  ASSUME AllInv, Inv', TableAges, NEW t \in Threads, Others(t), EndCompareAndSet(t)
  PROVE  Sim
<1>1. /\ pc[t] = "finish" /\ pc'[t] = "idle" /\ location'[t] = 0
      /\ op' = [op EXCEPT ![t] = NULL] /\ out' = [out EXCEPT ![t] = NULL]
      /\ seen' = [seen EXCEPT ![t] = {}]
      /\ UNCHANGED index
  BY DEF EndCompareAndSet, Goto, AllInv, Inv, TypeOK
<1>2. CASE UNCHANGED <<entry_key, entry_value>>
  <2>1. Keeps /\ \A u \in Threads \ {t} : LinState(u)'
    BY <1>1, <1>2, ReadingSim DEF AllInv, Inv, TypeOK
  <2>2. QED
    BY <1>1, <2>1, RespondSim
<1>3. CASE /\ location[t] # 0 /\ out[t] # NOT_FOUND
           /\ entry_key' = [entry_key EXCEPT ![location[t]] = NULL]
           /\ entry_value' = [entry_value EXCEPT ![location[t]] = NULL]
  <2>1. location[t] \in Private /\ location[t] \in Locations
    BY <1>3 DEF Private, AllInv, Inv, TypeOK
  <2>2. Keeps
    BY <1>1, <1>3, <2>1, PrivateKeeps DEF AllInv, Inv, TypeOK
  <2>3. ASSUME NEW u \in Threads \ {t}
        PROVE  LinState(u)'
    <3>1. location[u] # 0 => location[u] # location[t]
      BY <1>3 DEF AllInv, Inv, ProbeInvariant, Ownership
    <3>2. location[u] # 0 => entry_value'[location[u]] = entry_value[location[u]]
      BY <1>3, <2>1, <3>1 DEF AllInv, Inv, TypeOK
    <3>3. pc[u] \in Matched => entry_value'[found[u]] = entry_value[found[u]]
      BY <1>3, <2>1, ExaminedSlot DEF AllInv, Inv, TypeOK, Matched, Examining
    <3>4. seen'[u] = seen[u]
      BY <1>1 DEF AllInv, Inv, TypeOK
    <3>5. QED
      BY <2>2, <3>2, <3>3, <3>4, OthersLin
  <2>4. QED
    BY <1>1, <2>2, <2>3, RespondSim
<1>4. QED
  BY <1>2, <1>3 DEF EndCompareAndSet
-----------------------------------------------------------------------------
\* Every step of thread t leaves the variables of the others alone.
LEMMA StepOthers ==
  ASSUME Inv, NEW t \in Threads,
         \/ \E call \in Map!Calls : Call(t, call)
         \/ GetEmptyEntry(t) \/ NoEmptyEntry(t) \/ ReadNode(t) \/ CasNode(t)
         \/ ReadEntry(t) \/ CasValue(t) \/ RereadEntry(t) \/ EndCompareAndSet(t)
         \/ LookupNode(t) \/ LookupEntry(t) \/ TryIncref(t)
         \/ DeleteValue(t) \/ DeleteReread(t) \/ WriteTombstone(t) \/ EndLookup(t)
  PROVE  Others(t)
<1> USE DEF Inv, TypeOK, Others, Goto, Finish, tableVars
<1>1. CASE \E call \in Map!Calls : Call(t, call)
  BY <1>1 DEF Call
<1>2. CASE GetEmptyEntry(t)
  BY <1>2 DEF GetEmptyEntry, ProbeInvariant, Ownership
<1>3. CASE NoEmptyEntry(t)
  BY <1>3 DEF NoEmptyEntry
<1>4. CASE ReadNode(t)
  BY <1>4 DEF ReadNode, Probe
<1>5. CASE CasNode(t)
  BY <1>5 DEF CasNode
<1>6. CASE ReadEntry(t)
  BY <1>6 DEF ReadEntry, TryUpdate, Probe
<1>7. CASE CasValue(t)
  BY <1>7 DEF CasValue
<1>8. CASE RereadEntry(t)
  BY <1>8 DEF RereadEntry, TryUpdate, Probe
<1>9. CASE EndCompareAndSet(t)
  BY <1>9 DEF EndCompareAndSet, ProbeInvariant, Ownership
<1>10. CASE LookupNode(t)
  BY <1>10 DEF LookupNode, Probe
<1>11. CASE LookupEntry(t)
  BY <1>11 DEF LookupEntry, Probe
<1>12. CASE TryIncref(t)
  BY <1>12 DEF TryIncref
<1>13. CASE DeleteValue(t)
  BY <1>13 DEF DeleteValue
<1>14. CASE DeleteReread(t)
  BY <1>14 DEF DeleteReread
<1>15. CASE WriteTombstone(t)
  BY <1>15 DEF WriteTombstone
<1>16. CASE EndLookup(t)
  BY <1>16 DEF EndLookup
<1>17. QED
  BY <1>1, <1>2, <1>3, <1>4, <1>5, <1>6, <1>7, <1>8, <1>9, <1>10, <1>11, <1>12,
     <1>13, <1>14, <1>15, <1>16

\* Every step of the table keeps the invariant and is a step of the map, or
\* leaves the map alone.
LEMMA NextSim == AllInv /\ [Next]_vars => AllInv' /\ [Map!Next]_(Map!vars)
<1> SUFFICES ASSUME AllInv, [Next]_vars PROVE AllInv' /\ [Map!Next]_(Map!vars)
  OBVIOUS
<1>1. Inv' /\ TableAges /\ BurialInv'
  BY NextInv, NextBurial DEF AllInv
<1>2. ASSUME NEW t \in Threads, NEW call \in Map!Calls, Call(t, call)
      PROVE  Sim
  <2>1. Others(t)
    BY <1>2, StepOthers DEF AllInv
  <2>2. QED
    BY <1>1, <1>2, <2>1, CallSim
<1>3. ASSUME NEW t \in Threads,
             \/ GetEmptyEntry(t) \/ NoEmptyEntry(t) \/ ReadNode(t) \/ CasNode(t)
             \/ ReadEntry(t) \/ CasValue(t) \/ RereadEntry(t) \/ EndCompareAndSet(t)
      PROVE  Sim
  <2>1. Others(t)
    BY <1>3, StepOthers DEF AllInv
  <2>2. QED
    BY <1>1, <1>3, <2>1, GetEmptyEntrySim, NoEmptyEntrySim, ReadNodeSim, CasNodeSim,
       ReadEntrySim, CasValueSim, EndCompareAndSetSim
<1>4. ASSUME NEW t \in Threads,
             \/ LookupNode(t) \/ LookupEntry(t) \/ TryIncref(t) \/ EndLookup(t)
             \/ DeleteValue(t) \/ DeleteReread(t) \/ WriteTombstone(t)
      PROVE  Sim
  <2>1. Others(t)
    BY <1>4, StepOthers DEF AllInv
  <2>2. QED
    BY <1>1, <1>4, <2>1, LookupNodeSim, LookupEntrySim, TryIncrefSim, EndLookupSim,
       DeleteValueSim, DeleteRereadSim, WriteTombstoneSim
<1>5. ASSUME UNCHANGED vars PROVE Sim
  <2>1. \A u \in Threads : LinState(u)'
    BY <1>5 DEF AllInv, LinState, Passed, MayInsert, Binding, LiveAt, IsEntry, SlotAt,
       vars, tableVars, threadVars
  <2>2. UNCHANGED Map!vars
    BY <1>5 DEF Map!vars, Binding, LiveAt, IsEntry, vars, tableVars, threadVars
  <2>3. QED
    BY <2>1, <2>2 DEF Sim
<1>6. Sim
  BY <1>2, <1>3, <1>4, <1>5 DEF Next
<1>7. QED
  BY <1>1, <1>6 DEF Sim, AllInv

\* An empty table stands for the empty map, and nobody is in a call.
LEMMA InitSim == Init => AllInv /\ Map!Init
<1> SUFFICES ASSUME Init PROVE AllInv /\ Map!Init
  OBVIOUS
<1>1. Inv /\ BurialInv
  BY InitInv, InitBurialHeadroom
<1>2. \A t \in Threads : LinState(t)
  BY ConstantsDistinct DEF Init, InitTable, InitThreads, LinState, Matched
<1>3. [k \in Keys |-> Binding(k)] \in [Keys -> Values \cup {NOT_FOUND}]
  BY <1>1, BindingType DEF Inv
<1>4. QED
  BY <1>1, <1>2, <1>3 DEF AllInv, Map!Init, Init, InitThreads

\* AtomicDict_CompareAndSet, AtomicDict_DelItem and AtomicDict_GetItemOrDefault
\* are linearizable: whatever the threads, the keys, the hash function and the
\* interleaving of their accesses, every call takes effect at one instant
\* between its invocation and its response, or fails without effect.
THEOREM CallsAreAtomic == Spec => Linearizable
<1>1. Init => AllInv /\ Map!Init
  BY InitSim
<1>2. AllInv /\ [Next]_vars => AllInv' /\ [Map!Next]_(Map!vars)
  BY NextSim
<1>3. QED
  BY <1>1, <1>2, PTL DEF Spec, Linearizable, Map!Spec
-----------------------------------------------------------------------------
(***************************************************************************)
(* The third part: len(), approx_len(), fast_iter() and batch_getitem().   *)
(*                                                                         *)
(* The keys are accounted for (LenState): their number is len, and what is *)
(* in the counters, and what the calls that have changed the dictionary    *)
(* have not counted yet (Owed). The commits of the second part change the  *)
(* number of keys and what is owed together (StepAccounted). len() runs    *)
(* while nothing is owed, and a counter that it has added to len is left   *)
(* out of the account until it is zero (Zeroing). What an approx_len() has *)
(* read and what it has still to read (Left) differ from what there was at *)
(* its start by what was counted since.                                    *)
(*                                                                         *)
(* An iterator has passed none of its pages' entries but those it has      *)
(* returned (Before), and a batch knows of its key's slots what a lookup   *)
(* does.                                                                   *)
(***************************************************************************)

\* The steps of an iteration, of a batch_getitem() and, with the mutexes, of len().
InIter == {"iter next", "iter", "iter key", "iter end", "iter raised"}
InBatch == {"batch", "batch entry", "batch end"}
InLen == {"len sum", "len zero", "len end"}

\* What a reader can be doing.
Batches == UNION {[batch -> Values \cup {NULL, NOT_FOUND}] : batch \in SUBSET Keys}
ZeroTasks == [pc : {"len zero"}, result : Int, todo : SUBSET Threads]
ApproxTasks ==
  [pc : {"approx"}, total : Int, todo : SUBSET Threads, counted : Int,
   added : Nat, removed : Nat, moved : BOOLEAN]
IterTasks ==
  [pc : InIter, partitions : Nat \ {0}, position : Nat, gap : Nat,
   value : Values \cup {NULL}, yielded : SUBSET (Keys \X Values),
   stable : SUBSET Locations, alone : BOOLEAN]
BatchTasks ==
  [pc : InBatch, key : Keys, todo : SUBSET Keys, distance : Nat,
   found : {0} \cup Locations, results : Batches,
   seen : [Keys -> SUBSET (Values \cup {NOT_FOUND})]]
Tasks ==
  [pc : {"idle", "len begin", "len sum"}] \cup [pc : {"len end"}, result : Int]
    \cup ZeroTasks \cup ApproxTasks \cup IterTasks \cup BatchTasks

\* The types of the readers' variables.
BulkTypes ==
  /\ len \in Int /\ len_dirty \in BOOLEAN /\ gap \in Nat
  /\ sync_op \in Readers \cup {NoReader}
  /\ task \in [Readers -> Tasks]

\* What thread t has changed and not counted yet.
Owed(t) ==
  IF op[t] # NULL /\ op[t].name = "cas" /\ out[t] = NOT_FOUND THEN 1
  ELSE IF op[t] # NULL /\ op[t].name = "del" /\ out[t] \in Values THEN -1
  ELSE 0

\* The counters that are already part of len, and wait to be set to zero.
Zeroing == {t \in Threads : \E r \in Readers : task[r].pc = "len zero" /\ t \in task[r].todo}
Balance == [t \in Threads |-> IF t \in Zeroing THEN 0 ELSE local_len[t] + Owed(t)]

\* len() and the counters account for every key.
LenState ==
  /\ \A r \in Readers : sync_op = r <=> task[r].pc \in InLen
  /\ sync_op # NoReader => \A t \in Threads : pc[t] = "idle"
  /\ \A r \in Readers : task[r].pc \in {"len zero", "len end"} =>
       ~len_dirty /\ task[r].result = len
  /\ ~len_dirty => \A t \in Threads \ Zeroing : local_len[t] = 0
  /\ IsFiniteSet(Bound) /\ Cardinality(Bound) = len + Total(Balance)

\* An approx_len() that runs while the counters are set to zero knows it.
MovedState ==
  \A r, q \in Readers : task[r].pc = "approx" /\ task[q].pc = "len zero" => task[r].moved

\* The counters that approx_len() has still to read.
Left(S) == [t \in Threads |-> IF t \in S THEN local_len[t] ELSE 0]
ApproxOK(s) ==
  s.pc = "approx" /\ ~s.moved =>
    /\ s.counted - s.removed <= s.total + Total(Left(s.todo))
    /\ s.total + Total(Left(s.todo)) <= s.counted + s.added

\* What an iterator knows of the entries that its position has passed.
SameShare(s, e) == PageOf(e) % s.partitions = PageOf(s.position) % s.partitions
Before(s) == {e \in s.stable : e < s.position}
Pairs(S) == {<<entry_key[e], entry_value[e]>> : e \in S}
IterOK(s) ==
  s.pc \in InIter =>
    /\ s.stable \subseteq Live
    /\ \A e \in s.stable : SameShare(s, e)
    /\ \A e \in Before(s) : \E y \in s.yielded : y[1] = entry_key[e]
    /\ s.pc \in {"iter", "iter key", "iter end"} => \A e \in s.stable : PageOf(e) <= s.gap
    /\ s.pc = "iter key" => s.position \in Locations /\ s.value \in Values
    /\ s.pc = "iter end" => PageOf(s.position) > s.gap
    /\ s.alone =>
         /\ \A t \in Threads : pc[t] = "idle"
         /\ \A e \in Live : SameShare(s, e) => e \in s.stable
         /\ s.yielded = Pairs(Before(s))
         /\ s.pc = "iter key" => s.position \in s.stable /\ s.value = entry_value[s.position]
         /\ s.pc # "iter raised"

\* What a batch_getitem() knows of its key's slots, and of the keys before it.
BatchOK(s) ==
  s.pc \in InBatch =>
    /\ \A k \in Keys : Binding(k) \in s.seen[k]
    /\ \A k \in DOMAIN s.results :
         k \in s.todo \/ (k = s.key /\ s.pc # "batch end") \/ s.results[k] \in s.seen[k]
    /\ s.pc = "batch end" => s.todo = {}
    /\ s.pc # "batch end" =>
         /\ s.distance < Size
         /\ \A d \in 0..(s.distance - 1) :
              index[SlotAt(s.key, d)] # EMPTY /\ ~LiveAt(SlotAt(s.key, d), s.key)
    /\ s.pc = "batch entry" =>
         /\ s.found \in Locations \ Private
         /\ \/ index[SlotAt(s.key, s.distance)] = s.found
            \/ index[SlotAt(s.key, s.distance)] = TOMBSTONE /\ entry_value[s.found] = NULL

TaskOK(s) == ApproxOK(s) /\ IterOK(s) /\ BatchOK(s)

\* Where the entries are: those that can still be handed out are clear, those that
\* have been handed out are in allocated pages, and those that are in use are
\* published.
PoolState ==
  /\ \A e \in free : entry_value[e] = NULL
  /\ \A e \in Locations \ Private :
       entry_value[e] # NULL => \E p \in Slots : index[p] = e
  /\ \A t \in Threads :
       op[t] # NULL /\ op[t].name = "cas" /\ out[t] = NOT_FOUND => location[t] # 0
PageState == \A e \in Locations \ free : PageOf(e) <= gap

\* What the readers are doing, and the invariant.
Running == {task[r] : r \in Readers}
BulkInv ==
  /\ AllInv /\ BulkTypes /\ PoolState /\ PageState /\ LenState /\ MovedState
  /\ \A s \in Running : TaskOK(s)
-----------------------------------------------------------------------------
\* The numbers up to an integer.
LEMMA UpToInt ==
  ASSUME NEW n \in Int
  PROVE  IsFiniteSet(1..n) /\ Cardinality(1..n) = IF n > 0 THEN n ELSE 0
<1>1. IsFiniteSet(1..n) /\ Cardinality(1..n) = IF 1 > n THEN 0 ELSE n - 1 + 1
  BY FS_Interval, 1 \in Int
<1> QED
  BY <1>1

\* What is a unit of f.
LEMMA InUnits ==
  ASSUME NEW f
  PROVE  \A x : x \in Units(f) <=> \E t \in Threads : \E n \in 1..f[t] : x = <<t, n>>
BY DEF Units

\* There are finitely many.
LEMMA UnitsFinite ==
  ASSUME NEW f \in [Threads -> Int]
  PROVE  IsFiniteSet(Units(f)) /\ Cardinality(Units(f)) \in Nat
<1> DEFINE S == {{t} \X (1..f[t]) : t \in Threads}
           m == [t \in Threads |-> {t} \X (1..f[t])]
<1>1. m \in Surjection(Threads, S)
  BY DEF Surjection
<1>2. IsFiniteSet(S)
  BY <1>1, ThreadsAssumption, FS_Surjection
<1>3. ASSUME NEW t \in Threads PROVE IsFiniteSet({t} \X (1..f[t]))
  <2>1. IsFiniteSet({t}) /\ IsFiniteSet(1..f[t])
    BY FS_Singleton, UpToInt
  <2> QED
    BY <2>1, FS_Product
<1>4. IsFiniteSet(Units(f))
  BY <1>2, <1>3, FS_UNION DEF Units
<1> QED
  BY <1>4, FS_CardinalityType

\* The units of one thread, next to those of the others.
LEMMA UnitsSplit ==
  ASSUME NEW f \in [Threads -> Int], NEW t \in Threads
  PROVE  LET rest == {x \in Units(f) : x[1] # t} IN
         /\ Cardinality(rest) \in Nat
         /\ Cardinality(Units(f)) = Cardinality(rest) + (IF f[t] > 0 THEN f[t] ELSE 0)
<1> DEFINE rest == {x \in Units(f) : x[1] # t}
           own == {t} \X (1..f[t])
           n == IF f[t] > 0 THEN f[t] ELSE 0
<1>1. IsFiniteSet(rest) /\ Cardinality(rest) \in Nat
  BY UnitsFinite, FS_Subset, FS_CardinalityType
<1>2. IsFiniteSet(own) /\ Cardinality(own) = n
  <2>0. f[t] \in Int
    OBVIOUS
  <2>1. /\ IsFiniteSet({t}) /\ Cardinality({t}) = 1
        /\ IsFiniteSet(1..f[t]) /\ Cardinality(1..f[t]) = n
    BY <2>0, FS_Singleton, UpToInt
  <2>2. IsFiniteSet(own) /\ Cardinality(own) = Cardinality({t}) * Cardinality(1..f[t])
    BY <2>1, FS_Product
  <2>3. n \in Nat
    BY <2>0
  <2> HIDE DEF n, own
  <2> QED
    BY <2>1, <2>2, <2>3
<1>3. Units(f) = rest \cup own
  <2>1. \A x : x \in own <=> \E m \in 1..f[t] : x = <<t, m>>
    OBVIOUS
  <2> QED
    BY <2>1, InUnits
<1>4. rest \cap own = {}
  OBVIOUS
<1>5. Cardinality(rest \cup own) = Cardinality(rest) + Cardinality(own) - Cardinality(rest \cap own)
  BY <1>1, <1>2, FS_Union
<1>6. Cardinality(rest \cap own) = 0
  BY <1>4, FS_EmptySet
<1> HIDE DEF rest, own
<1>7. n \in Nat
  OBVIOUS
<1>8. Cardinality(Units(f)) = Cardinality(rest) + n
  BY <1>1, <1>2, <1>3, <1>5, <1>6, <1>7
<1> QED
  BY <1>1, <1>8 DEF rest

\* A change of one number changes the number of units by the same, as far as it
\* is positive.
LEMMA UnitsChange ==
  ASSUME NEW f \in [Threads -> Int], NEW g \in [Threads -> Int], NEW t \in Threads,
         \A u \in Threads \ {t} : g[u] = f[u]
  PROVE  Cardinality(Units(g)) + (IF f[t] > 0 THEN f[t] ELSE 0)
           = Cardinality(Units(f)) + (IF g[t] > 0 THEN g[t] ELSE 0)
<1>1. {x \in Units(f) : x[1] # t} = {x \in Units(g) : x[1] # t}
  <2>1. ASSUME NEW x, x[1] # t PROVE x \in Units(f) <=> x \in Units(g)
    BY <2>1, InUnits
  <2> QED
    BY <2>1
<1> DEFINE rest == {x \in Units(f) : x[1] # t}
<1>2. /\ Cardinality(rest) \in Nat
      /\ Cardinality(Units(f)) = Cardinality(rest) + (IF f[t] > 0 THEN f[t] ELSE 0)
  BY UnitsSplit
<1>3. Cardinality(Units(g)) = Cardinality(rest) + (IF g[t] > 0 THEN g[t] ELSE 0)
  BY <1>1, UnitsSplit
<1> HIDE DEF rest
<1>4. f[t] \in Int /\ g[t] \in Int
  OBVIOUS
<1> QED
  BY <1>2, <1>3, <1>4

\* The sum changes as its term.
LEMMA TotalChange ==
  ASSUME NEW f \in [Threads -> Int], NEW g \in [Threads -> Int], NEW t \in Threads,
         \A u \in Threads \ {t} : g[u] = f[u]
  PROVE  Total(f) \in Int /\ Total(g) = Total(f) + g[t] - f[t]
<1> DEFINE F == [u \in Threads |-> -f[u]]
           G == [u \in Threads |-> -g[u]]
<1>1. F \in [Threads -> Int] /\ G \in [Threads -> Int] /\ \A u \in Threads \ {t} : G[u] = F[u]
  OBVIOUS
<1>2. /\ f[t] \in Int /\ g[t] \in Int /\ F[t] = -f[t] /\ G[t] = -g[t]
  OBVIOUS
<1>3. /\ Total(f) = Cardinality(Units(f)) - Cardinality(Units(F))
      /\ Total(g) = Cardinality(Units(g)) - Cardinality(Units(G))
  BY DEF Total
<1> HIDE DEF F, G
<1>4. /\ Cardinality(Units(f)) \in Nat /\ Cardinality(Units(g)) \in Nat
      /\ Cardinality(Units(F)) \in Nat /\ Cardinality(Units(G)) \in Nat
  BY <1>1, UnitsFinite
<1>5. Cardinality(Units(g)) + (IF f[t] > 0 THEN f[t] ELSE 0)
        = Cardinality(Units(f)) + (IF g[t] > 0 THEN g[t] ELSE 0)
  BY UnitsChange
<1>6. Cardinality(Units(G)) + (IF F[t] > 0 THEN F[t] ELSE 0)
        = Cardinality(Units(F)) + (IF G[t] > 0 THEN G[t] ELSE 0)
  BY <1>1, UnitsChange
<1> QED
  BY <1>2, <1>3, <1>4, <1>5, <1>6

\* A sum is an integer, and depends on nothing but its terms.
LEMMA TotalType ==
  ASSUME NEW f \in [Threads -> Int]
  PROVE  Total(f) \in Int
<1> DEFINE F == [u \in Threads |-> -f[u]]
<1>1. F \in [Threads -> Int]
  OBVIOUS
<1>2. Total(f) = Cardinality(Units(f)) - Cardinality(Units(F))
  BY DEF Total
<1> HIDE DEF F
<1> QED
  BY <1>1, <1>2, UnitsFinite

\* A sum of zeros.
LEMMA TotalZero ==
  ASSUME NEW f \in [Threads -> Int], \A t \in Threads : f[t] = 0
  PROVE  Total(f) = 0
<1> DEFINE F == [u \in Threads |-> -f[u]]
<1>1. F \in [Threads -> Int] /\ \A t \in Threads : F[t] = 0
  OBVIOUS
<1>2. Total(f) = Cardinality(Units(f)) - Cardinality(Units(F))
  BY DEF Total
<1> HIDE DEF F
<1>3. Units(f) = {} /\ Units(F) = {}
  BY <1>1, InUnits
<1> QED
  BY <1>2, <1>3, FS_EmptySet
-----------------------------------------------------------------------------
\* Nothing that is known of the table depends on the counters.
LEMMA CountersOnly ==
  ASSUME AllInv, UNCHANGED <<tableVars, threadVars, calls, seen>>,
         local_len' \in [Threads -> Int]
  PROVE  AllInv'
<1> USE DEF tableVars, threadVars
<1>1. TypeOK'
  BY DEF AllInv, Inv, TypeOK
<1>2. Private' = Private
  BY DEF Private
<1>3. \A t \in Threads : ThreadState(t)'
  BY <1>2 DEF AllInv, Inv, ProbeInvariant, ThreadState, MayInsert
<1>4. \A t \in Threads : ProbeState(t)'
  BY DEF AllInv, Inv, ProbeInvariant, ProbeState, LiveAt, SlotAt, Slot, IsEntry
<1>5. \A p \in Slots : NodeState(p)'
  BY <1>2 DEF AllInv, Inv, ProbeInvariant, NodeState, SlotAt, IsEntry
<1>6. Ownership' /\ OneLiveEntryPerKey'
  BY DEF AllInv, Inv, ProbeInvariant, Ownership, OneLiveEntryPerKey, LiveAt, IsEntry
<1>7. BurialInv'
  BY DEF AllInv, BurialInv, OneUndertaker, Burial, Slot, SlotAt
<1>8. ASSUME NEW t \in Threads PROVE LinState(t)'
  <2>1. Binding(op[t].key)' = Binding(op[t].key)
    BY DEF Binding, LiveAt, IsEntry
  <2>2. Passed(t)' <=> Passed(t)
    BY DEF Passed, LiveAt, IsEntry, SlotAt
  <2>3. LinState(t)
    BY DEF AllInv
  <2> QED
    BY <2>1, <2>2, <2>3 DEF LinState, MayInsert
<1> QED
  BY <1>1, <1>3, <1>4, <1>5, <1>6, <1>7, <1>8 DEF AllInv, Inv, ProbeInvariant

\* A thread whose call has had no effect owes nothing.
LEMMA OwedType ==
  ASSUME NEW t
  PROVE  /\ Owed(t) \in {-1, 0, 1} /\ Owed(t) \in Int
         /\ op[t] = NULL => Owed(t) = 0
BY DEF Owed

\* The threads' steps: a call begins, or goes on, and nothing is counted; or it
\* ends, and what it has changed is.
Goes(t) ==
  /\ local_len' = local_len
  /\ \A u \in Threads : op[u] # NULL => op'[u] = op[u]
  /\ pc[t] # "idle" \/ pc'[t] # "idle"
Ends(t) ==
  /\ pc[t] # "idle" /\ op[t] # NULL
  /\ local_len' = [local_len EXCEPT ![t] = @ + Owed(t)]
  /\ op' = [op EXCEPT ![t] = NULL]
  /\ out' = [out EXCEPT ![t] = NULL]

\* Every step of the table is one of the two.
LEMMA StepKinds ==
  ASSUME AllInv, PoolState, Next
  PROVE  \E t \in Threads : Goes(t) \/ Ends(t)
<1> USE DEF Goto, Finish, tableVars
<1>0. /\ local_len \in [Threads -> Int] /\ pc \in [Threads -> Labels]
      /\ \A u \in Threads : pc[u] = "idle" <=> op[u] = NULL
      /\ op \in [Threads -> Map!Calls \cup {NULL}]
  BY DEF AllInv, Inv, TypeOK, ProbeInvariant, ThreadState
<1>1. ASSUME NEW t \in Threads, NEW call \in Map!Calls, Call(t, call) PROVE Goes(t)
  BY <1>0, <1>1 DEF Call, Goes
<1>2. ASSUME NEW t \in Threads,
             \/ GetEmptyEntry(t) \/ NoEmptyEntry(t) \/ ReadNode(t) \/ CasNode(t)
             \/ ReadEntry(t) \/ CasValue(t) \/ RereadEntry(t)
             \/ LookupNode(t) \/ LookupEntry(t) \/ TryIncref(t)
             \/ DeleteValue(t) \/ DeleteReread(t) \/ WriteTombstone(t)
      PROVE  Goes(t)
  <2>1. local_len' = local_len /\ op' = op
    BY <1>2 DEF GetEmptyEntry, NoEmptyEntry, ReadNode, CasNode, ReadEntry, CasValue, RereadEntry,
       LookupNode, LookupEntry, TryIncref, DeleteValue, DeleteReread, WriteTombstone
  <2>2. pc[t] # "idle"
    BY <1>2 DEF GetEmptyEntry, NoEmptyEntry, ReadNode, CasNode, ReadEntry, CasValue, RereadEntry,
       LookupNode, LookupEntry, TryIncref, DeleteValue, DeleteReread, WriteTombstone
  <2> QED
    BY <2>1, <2>2 DEF Goes
<1>3. ASSUME NEW t \in Threads, EndCompareAndSet(t) PROVE Ends(t)
  <2>1. pc[t] # "idle" /\ op[t] # NULL /\ op[t].name = "cas"
    BY <1>0, <1>3 DEF EndCompareAndSet
  <2>2. Owed(t) = IF location[t] # 0 /\ out[t] = NOT_FOUND THEN 1 ELSE 0
    BY <2>1 DEF Owed, PoolState
  <2>3. local_len' = [local_len EXCEPT ![t] = @ + Owed(t)]
    BY <1>0, <1>3, <2>2 DEF EndCompareAndSet
  <2> QED
    BY <1>3, <2>1, <2>3 DEF EndCompareAndSet, Ends
<1>4. ASSUME NEW t \in Threads, EndLookup(t) PROVE Ends(t)
  <2>1. pc[t] # "idle" /\ op[t] # NULL /\ op[t].name # "cas"
    BY <1>0, <1>4 DEF EndLookup
  <2>2. Owed(t) = IF op[t].name = "del" /\ out[t] \in Values THEN -1 ELSE 0
    BY <2>1 DEF Owed
  <2>3. local_len' = [local_len EXCEPT ![t] = @ + Owed(t)]
    <3>1. local_len[t] \in Int
      BY <1>0
    <3>2. local_len[t] - (IF op[t].name = "del" /\ out[t] \in Values THEN 1 ELSE 0)
            = local_len[t] + Owed(t)
      BY <2>2, <3>1
    <3> QED
      BY <1>4, <3>2 DEF EndLookup
  <2> QED
    BY <1>4, <2>1, <2>3 DEF EndLookup, Ends
<1> QED
  BY <1>1, <1>2, <1>3, <1>4 DEF Next

\* A node gives way to nothing but a tombstone, and only when its entry is dead.
LEMMA BuriedOnly ==
  ASSUME AllInv, Next, NEW p \in Slots, IsEntry(index[p])
  PROVE  \/ index'[p] = index[p]
         \/ index'[p] = TOMBSTONE /\ entry_value'[index[p]] = NULL
<1>1. PICK t \in Threads :
        \/ \E call \in Map!Calls : Call(t, call)
        \/ GetEmptyEntry(t) \/ NoEmptyEntry(t) \/ ReadNode(t) \/ CasNode(t)
        \/ ReadEntry(t) \/ CasValue(t) \/ RereadEntry(t) \/ EndCompareAndSet(t)
        \/ LookupNode(t) \/ LookupEntry(t) \/ TryIncref(t)
        \/ DeleteValue(t) \/ DeleteReread(t) \/ WriteTombstone(t) \/ EndLookup(t)
  BY DEF Next
<1>2. CASE WriteTombstone(t)
  <2>1. index[Slot(t)] = found[t] /\ entry_value[found[t]] = NULL
    BY <1>2 DEF WriteTombstone, AllInv, BurialInv, Burial, Examining
  <2>2. Slot(t) \in Slots
    BY <1>2, ExaminedSlot DEF WriteTombstone, AllInv, Examining
  <2> QED
    BY <1>2, <2>1, <2>2 DEF WriteTombstone, AllInv, Inv, TypeOK
<1>3. CASE CasNode(t)
  BY <1>3, NodeKinds DEF CasNode, AllInv, Inv, TypeOK
<1>4. CASE ~(WriteTombstone(t) \/ CasNode(t))
  BY <1>1, <1>4 DEF Call, GetEmptyEntry, NoEmptyEntry, ReadNode, ReadEntry, CasValue, RereadEntry,
     EndCompareAndSet, LookupNode, LookupEntry, TryIncref, DeleteValue, DeleteReread, EndLookup,
     tableVars
<1> QED
  BY <1>2, <1>3, <1>4
-----------------------------------------------------------------------------
\* A step that changes neither the pool nor the entries in it.
LEMMA PoolKept ==
  ASSUME AllInv, AllInv', TableAges, PoolState, Next, NEW t \in Threads, Others(t),
         UNCHANGED <<free, location>>,
         op'[t] # NULL /\ op'[t].name = "cas" /\ out'[t] = NOT_FOUND =>
           op'[t] = op[t] /\ out[t] = NOT_FOUND,
         location[t] # 0 => out'[t] # NOT_FOUND,
         \A e \in Private : entry_value'[e] = entry_value[e]
  PROVE  PoolState'
<1>1. Private \subseteq Private'
  BY DEF Private, Others
<1>2. ASSUME NEW e \in Locations \ Private', entry_value'[e] # NULL
      PROVE  \E p \in Slots : index'[p] = e
  <2>1. e \in Locations \ Private
    BY <1>1
  <2>2. entry_value[e] # NULL
    BY <1>2, <2>1 DEF TableAges
  <2>3. PICK p \in Slots : index[p] = e
    BY <2>1, <2>2 DEF PoolState
  <2> QED
    BY <1>2, <2>1, <2>3, BuriedOnly, NodeKinds
<1>3. \A e \in free' : entry_value'[e] = NULL
  BY DEF Private, PoolState
<1>4. \A u \in Threads :
        op'[u] # NULL /\ op'[u].name = "cas" /\ out'[u] = NOT_FOUND => location'[u] # 0
  BY DEF PoolState, Others
<1> QED
  BY <1>2, <1>3, <1>4 DEF PoolState

\* A reachable entry is not in the pool.
LEMMA FoundIsPublic ==
  ASSUME AllInv, NEW t \in Threads, pc[t] \in Examining
  PROVE  found[t] \in Locations \ Private
BY DEF AllInv, Inv, ProbeInvariant, ThreadState

\* The threads' steps keep the pool.
LEMMA PoolStep ==
  ASSUME AllInv, AllInv', TableAges, PoolState, Next
  PROVE  PoolState'
<1>0. PICK t \in Threads :
        \/ \E call \in Map!Calls : Call(t, call)
        \/ GetEmptyEntry(t) \/ NoEmptyEntry(t) \/ ReadNode(t) \/ CasNode(t)
        \/ ReadEntry(t) \/ CasValue(t) \/ RereadEntry(t) \/ EndCompareAndSet(t)
        \/ LookupNode(t) \/ LookupEntry(t) \/ TryIncref(t)
        \/ DeleteValue(t) \/ DeleteReread(t) \/ WriteTombstone(t) \/ EndLookup(t)
  BY DEF Next
<1>1. Others(t)
  BY <1>0, StepOthers DEF AllInv
<1>2. /\ TypeOK /\ ThreadState(t) /\ LinState(t) /\ Inv
  BY DEF AllInv, Inv, ProbeInvariant
<1>3. /\ NOT_FOUND # NULL /\ NOT_FOUND # EXPECTATION_FAILED /\ NOT_FOUND # MUST_GROW
      /\ NOT_FOUND # ERROR /\ NOT_FOUND \notin Values
  BY ConstantsDistinct
<1>4. CASE \E call \in Map!Calls : Call(t, call)
  <2>1. PICK call \in Map!Calls : Call(t, call)
    BY <1>4
  <2> QED
    BY <1>1, <1>2, <1>3, <2>1, PoolKept DEF Call, tableVars, ThreadState
<1>5. CASE GetEmptyEntry(t)
  <2>1. PICK e \in free : /\ free' = free \ {e}
                          /\ location' = [location EXCEPT ![t] = e]
                          /\ entry_value' = [entry_value EXCEPT ![e] = op[t].desired]
    BY <1>5 DEF GetEmptyEntry
  <2>2. /\ e \in Locations /\ e # 0 /\ location'[t] = e /\ index' = index /\ out' = out /\ op' = op
        /\ out[t] = NULL
    BY <1>2, <1>5, <2>1, NodeKinds DEF GetEmptyEntry, TypeOK, ThreadState
  <2>3. \A u \in Threads \ {t} : location'[u] = location[u] /\ out'[u] = out[u]
    BY <1>1 DEF Others
  <2>4. location[t] = 0
    BY <1>2, <1>5 DEF GetEmptyEntry, ThreadState
  <2>5. Private \subseteq Private'
    BY <1>3, <2>1, <2>2, <2>3, <2>4 DEF Private
  <2>6. \A x \in free' : entry_value'[x] = NULL
    BY <1>2, <2>1 DEF PoolState, TypeOK
  <2>7. ASSUME NEW x \in Locations \ Private', entry_value'[x] # NULL
        PROVE  \E p \in Slots : index'[p] = x
    <3>1. x \in Locations \ Private /\ e \in Private
      BY <2>1, <2>5 DEF Private
    <3>2. entry_value[x] # NULL
      BY <2>7, <3>1 DEF TableAges
    <3> QED
      BY <2>2, <3>1, <3>2 DEF PoolState
  <2>8. \A u \in Threads :
          op'[u] # NULL /\ op'[u].name = "cas" /\ out'[u] = NOT_FOUND => location'[u] # 0
    BY <1>3, <2>2, <2>3 DEF PoolState
  <2> QED
    BY <2>6, <2>7, <2>8 DEF PoolState
<1>6. CASE NoEmptyEntry(t)
  <2>1. out'[t] # NOT_FOUND
    BY <1>2, <1>3, <1>6 DEF NoEmptyEntry, Finish, TypeOK
  <2> QED
    BY <1>1, <1>6, <2>1, PoolKept DEF NoEmptyEntry, tableVars
<1>7. CASE ReadNode(t)
  <2>1. out'[t] # NOT_FOUND
    BY <1>2, <1>3, <1>7 DEF ReadNode, Finish, Probe, TypeOK, ThreadState, Inserting
  <2> QED
    BY <1>1, <1>7, <2>1, PoolKept DEF ReadNode, tableVars
<1>8. CASE CasNode(t)
  <2>1. CASE index[Slot(t)] # EMPTY
    <3>1. out'[t] # NOT_FOUND
      BY <1>2, <1>3, <1>8, <2>1 DEF CasNode, ThreadState, Inserting
    <3> QED
      BY <1>1, <1>8, <2>1, <3>1, PoolKept DEF CasNode
  <2>2. CASE index[Slot(t)] = EMPTY
    <3>1. /\ index' = [index EXCEPT ![Slot(t)] = location[t]]
          /\ UNCHANGED <<entry_key, entry_value, free, location, op>>
          /\ location[t] # 0 /\ Slot(t) \in Slots
      <4>1. op[t].key \in Keys /\ distance[t] \in Nat
        BY <1>2, <1>8, PendingCall DEF CasNode, TypeOK
      <4> QED
        BY <1>2, <1>8, <2>2, <4>1, SlotAtType DEF CasNode, ThreadState, Slot
    <3>2. \A u \in Threads \ {t} : location'[u] = location[u] /\ out'[u] = out[u]
      BY <1>1 DEF Others
    <3>3. Private \subseteq Private' \cup {location[t]}
      BY <3>1, <3>2 DEF Private
    <3>4. ASSUME NEW e \in Locations \ Private', entry_value'[e] # NULL
          PROVE  \E p \in Slots : index'[p] = e
      <4>1. CASE e = location[t]
        BY <1>2, <3>1, <4>1 DEF TypeOK
      <4>2. CASE e # location[t]
        <5>1. PICK p \in Slots : index[p] = e
          BY <3>1, <3>3, <3>4, <4>2 DEF PoolState
        <5> QED
          BY <1>2, <2>2, <3>1, <5>1, NodeKinds DEF TypeOK
      <4> QED
        BY <4>1, <4>2
    <3>5. \A u \in Threads :
            op'[u] # NULL /\ op'[u].name = "cas" /\ out'[u] = NOT_FOUND => location'[u] # 0
      BY <3>1, <3>2 DEF PoolState
    <3> QED
      BY <3>1, <3>4, <3>5 DEF PoolState
  <2> QED
    BY <2>1, <2>2
<1>9. CASE ReadEntry(t)
  <2>1. out'[t] # NOT_FOUND
    BY <1>2, <1>3, <1>9 DEF ReadEntry, TryUpdate, Finish, Probe, TypeOK, ThreadState, Inserting
  <2> QED
    BY <1>1, <1>9, <2>1, PoolKept DEF ReadEntry, tableVars
<1>10. CASE CasValue(t)
  <2>1. out'[t] # NOT_FOUND
    BY <1>2, <1>3, <1>10 DEF CasValue, Finish, TypeOK, ThreadState, Inserting, LinState, Matched
  <2>2. found[t] \in Locations \ Private
    BY <1>10, FoundIsPublic DEF CasValue, Examining
  <2>3. \A e \in Private : entry_value'[e] = entry_value[e]
    BY <1>2, <1>10, <2>2 DEF CasValue, TypeOK, Private
  <2> QED
    BY <1>1, <1>10, <2>1, <2>3, PoolKept DEF CasValue
<1>11. CASE RereadEntry(t)
  <2>1. out'[t] # NOT_FOUND
    BY <1>2, <1>3, <1>11 DEF RereadEntry, TryUpdate, Finish, Probe, TypeOK, ThreadState, Inserting
  <2> QED
    BY <1>1, <1>11, <2>1, PoolKept DEF RereadEntry, tableVars
<1>12. CASE EndCompareAndSet(t)
  <2>1. /\ pc[t] = "finish" /\ op' = [op EXCEPT ![t] = NULL] /\ index' = index
        /\ location' = [location EXCEPT ![t] = 0]
    BY <1>12 DEF EndCompareAndSet
  <2>2. \A u \in Threads \ {t} : /\ location'[u] = location[u] /\ out'[u] = out[u]
                                 /\ op'[u] = op[u]
    BY <1>1 DEF Others
  <2>3. \A u \in Threads :
          op'[u] # NULL /\ op'[u].name = "cas" /\ out'[u] = NOT_FOUND => location'[u] # 0
    BY <1>2, <2>1, <2>2 DEF PoolState, TypeOK
  <2>4. CASE location[t] # 0 /\ out[t] # NOT_FOUND
    <3>1. /\ free' = free \cup {location[t]} /\ location[t] \in Locations
          /\ entry_value' = [entry_value EXCEPT ![location[t]] = NULL]
      BY <1>2, <1>12, <2>4 DEF EndCompareAndSet, TypeOK
    <3>2. \A e \in free' : entry_value'[e] = NULL
      BY <1>2, <3>1 DEF PoolState, TypeOK
    <3>3. Private \subseteq Private'
      BY <2>2, <3>1 DEF Private
    <3>4. \A e \in Locations : entry_value'[e] # NULL => entry_value[e] # NULL
      BY <1>2, <3>1 DEF TypeOK
    <3>5. \A e \in Locations \ Private' :
            entry_value'[e] # NULL => \E p \in Slots : index'[p] = e
      BY <2>1, <3>3, <3>4 DEF PoolState
    <3> QED
      BY <2>3, <3>2, <3>5 DEF PoolState
  <2>5. CASE ~(location[t] # 0 /\ out[t] # NOT_FOUND)
    <3>1. UNCHANGED <<free, entry_value>>
      BY <1>12, <2>5 DEF EndCompareAndSet
    <3>2. Private \subseteq Private'
      BY <2>2, <2>5, <3>1 DEF Private
    <3> QED
      BY <2>1, <2>3, <3>1, <3>2 DEF PoolState
  <2> QED
    BY <2>4, <2>5
<1>13. CASE LookupNode(t) \/ LookupEntry(t) \/ TryIncref(t) \/ DeleteReread(t)
  <2>1. /\ UNCHANGED <<free, location, entry_value, op>>
        /\ pc[t] \in {"lookup", "lookup_entry", "try_incref", "delete_reread"}
    BY <1>13 DEF LookupNode, LookupEntry, TryIncref, DeleteReread, tableVars
  <2>2. op[t].name # "cas"
    BY <1>2, <2>1 DEF LinState
  <2>3. location[t] = 0
    BY <1>2, <2>2 DEF ThreadState
  <2> QED
    BY <1>1, <2>1, <2>2, <2>3, PoolKept
<1>14. CASE DeleteValue(t)
  <2>1. op[t].name # "cas" /\ UNCHANGED <<free, location, op>>
    BY <1>2, <1>14 DEF DeleteValue, LinState
  <2>2. found[t] \in Locations \ Private
    BY <1>14, FoundIsPublic DEF DeleteValue, Examining
  <2>3. \A e \in Private : entry_value'[e] = entry_value[e]
    BY <1>2, <1>14, <2>2 DEF DeleteValue, TypeOK, Private
  <2>4. location[t] = 0
    BY <1>2, <2>1 DEF ThreadState
  <2> QED
    BY <1>1, <2>1, <2>3, <2>4, PoolKept
<1>15. CASE WriteTombstone(t)
  <2>1. pc[t] = "tombstone" /\ UNCHANGED <<free, location, op, out, entry_value>>
    BY <1>15 DEF WriteTombstone
  <2>2. location[t] = 0
    BY <1>2, <2>1 DEF ThreadState, Inserting
  <2> QED
    BY <1>1, <2>1, <2>2, PoolKept
<1>16. CASE EndLookup(t)
  <2>1. /\ op[t].name # "cas" /\ op'[t] = NULL /\ UNCHANGED <<free, location, entry_value>>
    BY <1>2, <1>16 DEF EndLookup, tableVars, TypeOK
  <2>2. location[t] = 0
    BY <1>2, <2>1 DEF ThreadState
  <2> QED
    BY <1>1, <2>1, <2>2, PoolKept
<1> QED
  BY <1>0, <1>4, <1>5, <1>6, <1>7, <1>8, <1>9, <1>10, <1>11, <1>12, <1>13, <1>14, <1>15, <1>16
-----------------------------------------------------------------------------
\* A step that leaves the map alone leaves the keys that are bound alone.
LEMMA BoundKept ==
  ASSUME [k \in Keys |-> Binding(k)]' = [k \in Keys |-> Binding(k)]
  PROVE  Bound' = Bound
<1>1. ASSUME NEW k \in Keys PROVE Binding(k)' = Binding(k)
  <2>1. [j \in Keys |-> Binding(j)]'[k] = Binding(k)'
    OBVIOUS
  <2>2. [j \in Keys |-> Binding(j)][k] = Binding(k)
    OBVIOUS
  <2> QED
    BY <2>1, <2>2
<1> QED
  BY <1>1 DEF Bound

\* The same when one key is bound to w.
LEMMA BoundRebinds ==
  ASSUME NEW k \in Keys, NEW w,
         [j \in Keys |-> Binding(j)]' = [[j \in Keys |-> Binding(j)] EXCEPT ![k] = w]
  PROVE  Bound' = IF w = NOT_FOUND THEN Bound \ {k} ELSE Bound \cup {k}
<1>1. ASSUME NEW j \in Keys PROVE Binding(j)' = IF j = k THEN w ELSE Binding(j)
  <2>1. [i \in Keys |-> Binding(i)]'[j] = Binding(j)'
    OBVIOUS
  <2>2. [[i \in Keys |-> Binding(i)] EXCEPT ![k] = w][j] = IF j = k THEN w ELSE Binding(j)
    OBVIOUS
  <2> QED
    BY <2>1, <2>2
<1> QED
  BY <1>1 DEF Bound

\* A thread that is not in a call has no answer, and no answer is owed.
LEMMA OwedAnswers ==
  ASSUME AllInv, NEW t \in Threads
  PROVE  /\ op[t] = NULL => out[t] = NULL
         /\ op[t] = NULL \/ out[t] = NULL => Owed(t) = 0
<1>1. pc[t] = "idle" <=> op[t] = NULL
  BY DEF AllInv, Inv, ProbeInvariant, ThreadState
<1>2. pc[t] = "idle" => out[t] = NULL
  BY DEF AllInv, Inv, ProbeInvariant, ThreadState
<1> QED
  BY <1>1, <1>2, ConstantsDistinct DEF Owed

\* Whatever a step of the threads does, the keys it adds or removes are those it
\* owes, and what it does not owe any more it has counted.
Accounted(t) ==
  /\ \A u \in Threads \ {t} : local_len'[u] = local_len[u] /\ Owed(u)' = Owed(u)
  /\ local_len'[t] - local_len[t] \in {-1, 0, 1}
  /\ IsFiniteSet(Bound')
  /\ Cardinality(Bound') - Cardinality(Bound)
       = local_len'[t] + Owed(t)' - (local_len[t] + Owed(t))

\* A call ends, and what it owed is counted.
LEMMA EndAccounted ==
  ASSUME AllInv, AllInv', [Map!Next]_(Map!vars), IsFiniteSet(Bound), NEW t \in Threads, Ends(t)
  PROVE  Accounted(t)
<1>1. op'[t] = NULL /\ op[t] # NULL /\ out'[t] = NULL
  BY DEF Ends, AllInv, Inv, TypeOK
<1>2. [k \in Keys |-> Binding(k)]' = [k \in Keys |-> Binding(k)]
  BY <1>1 DEF Map!Next, Map!vars, Map!Invoke, Map!Commit, Map!Observe, Map!Abandon, Map!Respond
<1>3. Bound' = Bound
  BY <1>2, BoundKept
<1>4. Cardinality(Bound) \in Nat
  BY FS_CardinalityType
<1>5. local_len[t] \in Int /\ Owed(t) \in Int /\ Owed(t) \in {-1, 0, 1}
  BY OwedType DEF AllInv, Inv, TypeOK
<1>6. local_len'[t] = local_len[t] + Owed(t) /\ Owed(t)' = 0
  BY <1>1 DEF Ends, AllInv, Inv, TypeOK, Owed
<1>7. \A u \in Threads \ {t} : local_len'[u] = local_len[u] /\ Owed(u)' = Owed(u)
  BY DEF Ends, AllInv, Inv, TypeOK, Owed
<1> QED
  BY <1>3, <1>4, <1>5, <1>6, <1>7 DEF Accounted

\* A call commits: it owes one key, or owes nothing because it has replaced a value.
LEMMA CommitAccounted ==
  ASSUME AllInv, AllInv', IsFiniteSet(Bound), NEW t \in Threads, Map!Commit(t),
         local_len' = local_len
  PROVE  Accounted(t)
<1>1. /\ op[t] # NULL /\ out[t] = NULL /\ op' = op /\ op[t] \in Map!Calls
  BY DEF Map!Commit, Map!Pending, AllInv, Inv, TypeOK
<1>2. PICK k \in Keys : k = op[t].key
  BY <1>1, CallType
<1>3. /\ out' = [out EXCEPT ![t] = Binding(k)]
      /\ op[t].name = "cas" => op[t].desired \in Values
      /\ Binding(k) \in Values \cup {NOT_FOUND}
  BY <1>1, <1>2, CallType, BindingType DEF Map!Commit, AllInv, Inv
<1>4. out'[t] = Binding(k) /\ \A u \in Threads \ {t} : out'[u] = out[u]
  BY <1>3 DEF AllInv, Inv, TypeOK
<1>5. \A u \in Threads \ {t} : local_len'[u] = local_len[u] /\ Owed(u)' = Owed(u)
  BY <1>1, <1>4 DEF Owed
<1>6. Cardinality(Bound) \in Nat /\ Owed(t) = 0 /\ local_len[t] \in Int
  BY <1>1, FS_CardinalityType, OwedAnswers DEF AllInv, Inv, TypeOK
<1>7. CASE /\ op[t].name = "cas"
           /\ [j \in Keys |-> Binding(j)]' = [[j \in Keys |-> Binding(j)] EXCEPT ![k] = op[t].desired]
  <2>1. Bound' = Bound \cup {k}
    BY <1>3, <1>7, BoundRebinds, ConstantsDistinct
  <2>2. CASE Binding(k) = NOT_FOUND
    <3>1. k \notin Bound /\ Owed(t)' = 1
      BY <1>1, <1>4, <1>7, <2>2 DEF Bound, Owed
    <3>2. IsFiniteSet(Bound') /\ Cardinality(Bound') = Cardinality(Bound) + 1
      BY <2>1, <3>1, FS_AddElement
    <3> QED
      BY <1>5, <1>6, <3>1, <3>2 DEF Accounted
  <2>3. CASE Binding(k) \in Values
    <3>1. Bound' = Bound /\ Owed(t)' = 0
      BY <1>1, <1>4, <1>7, <2>1, <2>3, ConstantsDistinct DEF Bound, Owed
    <3> QED
      BY <1>5, <1>6, <3>1 DEF Accounted
  <2> QED
    BY <1>3, <2>2, <2>3
<1>8. CASE /\ op[t].name = "del" /\ Binding(k) # NOT_FOUND
           /\ [j \in Keys |-> Binding(j)]' = [[j \in Keys |-> Binding(j)] EXCEPT ![k] = NOT_FOUND]
  <2>1. Bound' = Bound \ {k} /\ k \in Bound
    BY <1>8, BoundRebinds DEF Bound
  <2>2. Owed(t)' = -1
    BY <1>1, <1>3, <1>4, <1>8 DEF Owed
  <2>3. IsFiniteSet(Bound') /\ Cardinality(Bound') = Cardinality(Bound) - 1
    BY <2>1, FS_RemoveElement
  <2> QED
    BY <1>5, <1>6, <2>2, <2>3 DEF Accounted
<1> QED
  BY <1>2, <1>7, <1>8 DEF Map!Commit, Map!Rebind

\* The other steps change no key and owe nothing new.
LEMMA GoAccounted ==
  ASSUME AllInv, AllInv', [Map!Next]_(Map!vars), IsFiniteSet(Bound), NEW w \in Threads, Goes(w)
  PROVE  \E t \in Threads : Accounted(t)
<1>0. /\ local_len' = local_len /\ local_len \in [Threads -> Int]
      /\ \A u \in Threads : op[u] # NULL => op'[u] = op[u]
      /\ op \in [Threads -> Map!Calls \cup {NULL}] /\ out \in [Threads -> Results \cup {NULL}]
      /\ Cardinality(Bound) \in Nat
  BY FS_CardinalityType DEF Goes, AllInv, Inv, TypeOK
<1>1. ASSUME NEW t \in Threads, [k \in Keys |-> Binding(k)]' = [k \in Keys |-> Binding(k)],
             \A u \in Threads : Owed(u)' = Owed(u)
      PROVE  Accounted(t)
  <2>1. Bound' = Bound
    BY <1>1, BoundKept
  <2>2. Owed(t) \in Int
    BY OwedType
  <2> QED
    BY <1>0, <1>1, <2>1, <2>2 DEF Accounted
<1>2. ASSUME NEW t \in Threads, NEW call \in Map!Calls, Map!Invoke(t, call) PROVE Accounted(t)
  <2>1. /\ op[t] = NULL /\ op' = [op EXCEPT ![t] = call] /\ out' = out
        /\ [k \in Keys |-> Binding(k)]' = [k \in Keys |-> Binding(k)]
    BY <1>2 DEF Map!Invoke
  <2>2. out[t] = NULL
    BY <2>1, OwedAnswers
  <2>3. ASSUME NEW u \in Threads PROVE Owed(u)' = Owed(u)
    BY <1>0, <2>1, <2>2, ConstantsDistinct DEF Owed
  <2> QED
    BY <1>1, <2>1, <2>3
<1>3. ASSUME NEW t \in Threads, Map!Observe(t) \/ Map!Abandon(t) PROVE Accounted(t)
  <2>1. /\ op[t] # NULL /\ out[t] = NULL /\ op' = op
        /\ [k \in Keys |-> Binding(k)]' = [k \in Keys |-> Binding(k)]
        /\ \E x : /\ out' = [out EXCEPT ![t] = x]
                  /\ \/ op[t].name = "cas" /\ x = EXPECTATION_FAILED
                     \/ op[t].name = "del" /\ x = NOT_FOUND
                     \/ op[t].name = "get"
                     \/ x \in {ERROR, MUST_GROW}
    BY <1>3 DEF Map!Observe, Map!Abandon, Map!Pending
  <2>2. \A u \in Threads : Owed(u)' = Owed(u)
    BY <1>0, <2>1, ConstantsDistinct DEF Owed
  <2> QED
    BY <1>1, <2>1, <2>2
<1>4. ASSUME NEW t \in Threads, Map!Respond(t) PROVE FALSE
  <2>1. op[t] # NULL /\ op'[t] = NULL
    BY <1>0, <1>4, OwedAnswers DEF Map!Respond
  <2> QED
    BY <1>0, <2>1
<1>5. ASSUME NEW t \in Threads, Map!Commit(t) PROVE Accounted(t)
  BY <1>0, <1>5, CommitAccounted
<1>6. ASSUME UNCHANGED Map!vars PROVE Accounted(w)
  <2>1. op' = op /\ out' = out /\ [k \in Keys |-> Binding(k)]' = [k \in Keys |-> Binding(k)]
    BY <1>6 DEF Map!vars
  <2>2. \A u \in Threads : Owed(u)' = Owed(u)
    BY <2>1 DEF Owed
  <2> QED
    BY <1>1, <2>1, <2>2
<1> QED
  BY <1>2, <1>3, <1>4, <1>5, <1>6 DEF Map!Next

\* Every step of the table is accounted for.
LEMMA StepAccounted ==
  ASSUME AllInv, PoolState, IsFiniteSet(Bound), Next
  PROVE  \E t \in Threads : Accounted(t)
<1>1. AllInv' /\ [Map!Next]_(Map!vars)
  BY NextSim
<1>2. PICK t \in Threads : Goes(t) \/ Ends(t)
  BY StepKinds
<1> QED
  BY <1>1, <1>2, GoAccounted, EndAccounted
-----------------------------------------------------------------------------
\* Locations are numbers, and in a page.
LEMMA PageType ==
  /\ \A e \in Locations : e \in Nat
  /\ \A e \in Nat : PageOf(e) \in Nat
<1>1. EntriesInPage \in Nat /\ EntriesInPage > 1 /\ Size \in Nat
  BY PageAssumption, SizeAssumption
<1> QED
  BY <1>1 DEF PageOf, Locations

\* What an iterator or a batch knows depends on the table alone, ...
LEMMA ViewKept ==
  ASSUME UNCHANGED <<tableVars, threadVars>>, NEW s, IterOK(s), BatchOK(s)
  PROVE  IterOK(s)' /\ BatchOK(s)'
<1> USE DEF tableVars, threadVars
<1>1. Live' = Live
  BY DEF Live, IsEntry
<1>2. IterOK(s)'
  <2>1. Before(s)' = Before(s) /\ Pairs(Before(s))' = Pairs(Before(s))
    BY DEF Before, Pairs
  <2>2. \A e : SameShare(s, e)' <=> SameShare(s, e)
    BY DEF SameShare
  <2> QED
    BY <1>1, <2>1, <2>2 DEF IterOK
<1>3. Private' = Private
  BY DEF Private
<1>4. ASSUME NEW k PROVE Binding(k)' = Binding(k)
  BY DEF Binding, LiveAt, IsEntry
<1>5. ASSUME NEW d PROVE LiveAt(SlotAt(s.key, d), s.key)' <=> LiveAt(SlotAt(s.key, d), s.key)
  BY DEF LiveAt, SlotAt, IsEntry
<1>6. BatchOK(s)'
  BY <1>3, <1>4, <1>5 DEF BatchOK, SlotAt
<1> QED
  BY <1>2, <1>6

\* ... and what approx_len() knows on the counters.
LEMMA TaskKept ==
  ASSUME UNCHANGED vars, NEW s, TaskOK(s)
  PROVE  TaskOK(s)'
<1>1. Left(s.todo)' = Left(s.todo)
  BY DEF Left, vars
<1>2. ApproxOK(s)'
  BY <1>1 DEF TaskOK, ApproxOK
<1> QED
  BY <1>2, ViewKept DEF TaskOK, vars

\* The keys and what is owed depend on the table alone, too.
LEMMA AccountKept ==
  ASSUME UNCHANGED vars
  PROVE  Bound' = Bound /\ \A t \in Threads : Owed(t)' = Owed(t) /\ local_len'[t] = local_len[t]
<1> USE DEF vars, tableVars, threadVars
<1>1. ASSUME NEW k PROVE Binding(k)' = Binding(k)
  BY DEF Binding, LiveAt, IsEntry
<1>2. Bound' = Bound
  BY <1>1 DEF Bound
<1> QED
  BY <1>2 DEF Owed

\* The table's part of the invariant, when nothing happens to it.
LEMMA TableKept ==
  ASSUME AllInv, PoolState, UNCHANGED vars
  PROVE  AllInv' /\ PoolState' /\ Private' = Private
<1>1. AllInv'
  BY NextSim
<1>2. Private' = Private
  BY DEF Private, vars, tableVars, threadVars
<1> QED
  BY <1>1, <1>2 DEF PoolState, vars, tableVars, threadVars

\* A reader's step that reads the table and has nothing to do with len().
LEMMA ReaderMoves ==
  ASSUME BulkInv, UNCHANGED <<vars, len, len_dirty, sync_op, gap>>,
         NEW r \in Readers, NEW s \in Tasks, Become(r, s), TaskOK(s),
         task[r].pc \notin InLen, s.pc \notin InLen,
         s.pc = "approx" => \A q \in Readers : task[q].pc = "len zero" => s.moved
  PROVE  BulkInv'
<1>1. AllInv' /\ PoolState'
  BY TableKept DEF BulkInv
<1>2. /\ task \in [Readers -> Tasks] /\ task'[r] = s /\ task' \in [Readers -> Tasks]
      /\ \A q \in Readers \ {r} : task'[q] = task[q]
  BY DEF BulkInv, BulkTypes, Become
<1>3. BulkTypes'
  BY <1>2 DEF BulkInv, BulkTypes
<1>4. PageState'
  BY DEF BulkInv, PageState, vars, tableVars
<1>5. ASSUME NEW x \in Running' PROVE TaskOK(x)'
  <2>1. TaskOK(x)
    BY <1>2 DEF BulkInv, Running
  <2> QED
    BY <2>1, TaskKept
<1>6. LenState'
  <2>1. Zeroing' = Zeroing
    BY <1>2 DEF Zeroing, InLen
  <2>2. Balance' = Balance
    BY <2>1, AccountKept DEF Balance
  <2>3. Bound' = Bound
    BY AccountKept
  <2>4. local_len' = local_len /\ pc' = pc
    BY DEF vars, threadVars
  <2> QED
    BY <1>2, <2>1, <2>2, <2>3, <2>4 DEF BulkInv, LenState, InLen
<1>7. MovedState'
  BY <1>2 DEF BulkInv, MovedState, InLen
<1> QED
  BY <1>1, <1>3, <1>4, <1>5, <1>6, <1>7 DEF BulkInv
-----------------------------------------------------------------------------
\* The operation a reader is in tells what it keeps.
LEMMA TaskFields ==
  ASSUME NEW s \in Tasks
  PROVE  /\ s.pc = "len zero" => s \in ZeroTasks
         /\ s.pc = "approx" => s \in ApproxTasks
         /\ s.pc \in InIter => s \in IterTasks
         /\ s.pc \in InBatch => s \in BatchTasks
         /\ s.pc \in {"idle", "len begin", "len sum", "len end", "len zero", "approx"}
              \cup InIter \cup InBatch
<1>1. CASE s \in [pc : {"idle", "len begin", "len sum"}]
  BY <1>1 DEF InIter, InBatch
<1>2. CASE s \in [pc : {"len end"}, result : Int]
  BY <1>2 DEF InIter, InBatch
<1>3. CASE s \in ZeroTasks
  BY <1>3 DEF ZeroTasks, InIter, InBatch
<1>4. CASE s \in ApproxTasks
  BY <1>4 DEF ApproxTasks, InIter, InBatch
<1>5. CASE s \in IterTasks
  BY <1>5 DEF IterTasks, InIter, InBatch
<1>6. CASE s \in BatchTasks
  BY <1>6 DEF BatchTasks, InIter, InBatch
<1> QED
  BY <1>1, <1>2, <1>3, <1>4, <1>5, <1>6 DEF Tasks

\* A task that is not a bulk read of the table is as it should be.
LEMMA PlainTask ==
  ASSUME NEW s \in Tasks, s.pc \in {"idle", "len begin", "len sum", "len zero", "len end"}
  PROVE  TaskOK(s)
BY DEF TaskOK, ApproxOK, IterOK, BatchOK, InIter, InBatch

\* A reader starts.
LEMMA StartMoves ==
  ASSUME BulkInv, NEW r \in Readers, NEW s \in Tasks, Start(r, s), TaskOK(s), s.pc \notin InLen,
         s.pc = "approx" => \A q \in Readers : task[q].pc = "len zero" => s.moved
  PROVE  BulkInv'
<1>1. task[r] = Idle
  BY DEF Start
<1>2. Idle.pc \notin InLen
  BY DEF Idle, InLen
<1> QED
  BY <1>1, <1>2, ReaderMoves DEF Start

\* A call of len() waits for the mutexes.
LEMMA CallLenInv ==
  ASSUME BulkInv, NEW r \in Readers, CallLen(r)
  PROVE  BulkInv'
<1> DEFINE s == [pc |-> "len begin"]
<1>1. s \in Tasks /\ s.pc = "len begin"
  BY DEF Tasks
<1>2. Start(r, s)
  BY DEF CallLen
<1> HIDE DEF s
<1>3. s.pc \in {"idle", "len begin", "len sum", "len zero", "len end"}
      /\ s.pc \notin InLen /\ s.pc # "approx"
  BY <1>1 DEF InLen
<1>4. TaskOK(s)
  BY <1>1, <1>3, PlainTask
<1> QED
  BY <1>1, <1>2, <1>3, <1>4, StartMoves

\* A reader is handed its result.
LEMMA ReturnInv ==
  ASSUME BulkInv, NEW r \in Readers, Return(r)
  PROVE  BulkInv'
<1>1. Idle \in Tasks /\ Idle.pc = "idle"
  BY DEF Tasks, Idle
<1>2. TaskOK(Idle)
  BY <1>1, PlainTask
<1>3. task[r].pc \notin InLen
  BY DEF Return, InLen
<1> HIDE DEF Idle
<1> QED
  BY <1>1, <1>2, <1>3, ReaderMoves DEF Return, InLen
-----------------------------------------------------------------------------
\* approx_len() starts with what is counted everywhere.
LEMMA CallApproxLenInv ==
  ASSUME BulkInv, NEW r \in Readers, CallApproxLen(r)
  PROVE  BulkInv'
<1>1. PICK b \in BOOLEAN : b <=> \E q \in Readers : task[q].pc = "len zero"
  OBVIOUS
<1>2. PICK l \in Int : l = len
  BY DEF BulkInv, BulkTypes
<1>3. local_len \in [Threads -> Int]
  BY DEF BulkInv, AllInv, Inv, TypeOK
<1>4. PICK n \in Int : n = LocalLens
  BY <1>3, TotalType DEF LocalLens
<1>5. PICK s : s = [pc |-> "approx", total |-> l, todo |-> Threads,
                    counted |-> l + n, added |-> 0, removed |-> 0, moved |-> b]
  OBVIOUS
<1>6. Start(r, s)
  <2>1. b = \E q \in Readers : task[q].pc = "len zero"
    BY <1>1
  <2> QED
    BY <1>2, <1>4, <1>5, <2>1 DEF CallApproxLen
<1>7. s \in Tasks /\ s.pc = "approx" /\ s.moved = b
  <2>1. l + n \in Int
    OBVIOUS
  <2> QED
    BY <1>5, <2>1 DEF Tasks, ApproxTasks
<1>8. Left(Threads) = local_len
  BY <1>3 DEF Left
<1>9. ApproxOK(s)
  <2>1. /\ s.total = l /\ s.todo = Threads /\ s.counted = l + n /\ s.added = 0 /\ s.removed = 0
    BY <1>5
  <2>2. Total(Left(s.todo)) = n
    BY <1>4, <1>8, <2>1 DEF LocalLens
  <2> QED
    BY <2>1, <2>2 DEF ApproxOK
<1>10. TaskOK(s)
  BY <1>7, <1>9 DEF TaskOK, IterOK, BatchOK, InIter, InBatch
<1> QED
  BY <1>1, <1>6, <1>7, <1>10, StartMoves DEF InLen

\* What approx_len() reads it does not have to read any more.
LEMMA ReadLocalLenInv ==
  ASSUME BulkInv, NEW r \in Readers, ReadLocalLen(r)
  PROVE  BulkInv'
<1>1. PICK s \in Tasks : s = task[r]
  BY DEF BulkInv, BulkTypes
<1>2. s.pc = "approx" /\ s \in ApproxTasks /\ TaskOK(s)
  BY <1>1, TaskFields DEF ReadLocalLen, BulkInv, Running
<1>3. PICK t \in s.todo : Become(r, [s EXCEPT !.total = @ + local_len[t], !.todo = @ \ {t}])
  BY <1>1 DEF ReadLocalLen
<1>4. t \in Threads /\ local_len \in [Threads -> Int] /\ local_len[t] \in Int
  BY <1>2 DEF BulkInv, AllInv, Inv, TypeOK, ApproxTasks
<1>5. PICK x : x = [s EXCEPT !.total = @ + local_len[t], !.todo = @ \ {t}]
  OBVIOUS
<1>6. /\ x \in ApproxTasks /\ x.pc = "approx" /\ x.moved = s.moved
      /\ x.total = s.total + local_len[t] /\ x.todo = s.todo \ {t}
      /\ x.counted = s.counted /\ x.added = s.added /\ x.removed = s.removed
      /\ s.total \in Int /\ s.counted \in Int /\ s.added \in Nat /\ s.removed \in Nat
  <2>1. /\ s.total \in Int /\ s.counted \in Int /\ s.added \in Nat /\ s.removed \in Nat
        /\ s.todo \subseteq Threads /\ s.moved \in BOOLEAN
    BY <1>2 DEF ApproxTasks
  <2>2. x = [pc |-> "approx", total |-> s.total + local_len[t], todo |-> s.todo \ {t},
             counted |-> s.counted, added |-> s.added, removed |-> s.removed, moved |-> s.moved]
    BY <1>2, <1>5 DEF ApproxTasks
  <2>3. s.total + local_len[t] \in Int /\ s.todo \ {t} \subseteq Threads
    BY <1>4, <2>1
  <2> QED
    BY <2>1, <2>2, <2>3 DEF ApproxTasks
<1>7. /\ Left(s.todo) \in [Threads -> Int] /\ Left(x.todo) \in [Threads -> Int]
      /\ \A u \in Threads \ {t} : Left(x.todo)[u] = Left(s.todo)[u]
      /\ Left(s.todo)[t] = local_len[t] /\ Left(x.todo)[t] = 0
  BY <1>3, <1>4, <1>6 DEF Left
<1>8. /\ Total(Left(s.todo)) \in Int
      /\ Total(Left(x.todo)) = Total(Left(s.todo)) + 0 - local_len[t]
  BY <1>4, <1>7, TotalChange
<1>9. x.total + Total(Left(x.todo)) = s.total + Total(Left(s.todo))
  BY <1>4, <1>6, <1>8
<1>10. TaskOK(x)
  BY <1>2, <1>6, <1>9 DEF TaskOK, ApproxOK, IterOK, BatchOK, InIter, InBatch
<1>11. x \in Tasks
  BY <1>6 DEF Tasks
<1>12. \A q \in Readers : task[q].pc = "len zero" => x.moved
  BY <1>1, <1>2, <1>6 DEF BulkInv, MovedState
<1> QED
  BY <1>1, <1>2, <1>3, <1>5, <1>6, <1>10, <1>11, <1>12, ReaderMoves DEF ReadLocalLen, InLen
-----------------------------------------------------------------------------
\* A batch starts with the bindings its keys have.
LEMMA CallBatchGetItemInv ==
  ASSUME BulkInv, NEW r \in Readers, CallBatchGetItem(r)
  PROVE  BulkInv'
<1>1. PICK batch \in SUBSET Keys : \E k \in batch :
        Start(r, [pc |-> "batch", key |-> k, todo |-> batch \ {k}, distance |-> 0, found |-> 0,
                  results |-> [j \in batch |-> NULL], seen |-> [j \in Keys |-> {Binding(j)}]])
  BY DEF CallBatchGetItem
<1>2. PICK k \in batch :
        Start(r, [pc |-> "batch", key |-> k, todo |-> batch \ {k}, distance |-> 0, found |-> 0,
                  results |-> [j \in batch |-> NULL], seen |-> [j \in Keys |-> {Binding(j)}]])
  BY <1>1
<1>3. PICK x : x = [j \in Keys |-> {Binding(j)}]
  OBVIOUS
<1>4. x \in [Keys -> SUBSET (Values \cup {NOT_FOUND})]
  BY <1>3, BindingType DEF BulkInv, AllInv, Inv
<1>5. PICK f : f = [j \in batch |-> NULL]
  OBVIOUS
<1>6. f \in Batches /\ DOMAIN f = batch
  BY <1>5 DEF Batches
<1>7. PICK s : s = [pc |-> "batch", key |-> k, todo |-> batch \ {k}, distance |-> 0,
                    found |-> 0, results |-> f, seen |-> x]
  OBVIOUS
<1>8. /\ s.pc = "batch" /\ s.key = k /\ s.todo = batch \ {k} /\ s.distance = 0
      /\ s.results = f /\ s.seen = x /\ s \in BatchTasks
  BY <1>4, <1>6, <1>7 DEF BatchTasks, InBatch
<1>9. Start(r, s)
  BY <1>2, <1>3, <1>5, <1>7
<1>10. s \in Tasks
  BY <1>8 DEF Tasks
<1>11. BatchOK(s)
  <2>1. \A j \in Keys : Binding(j) \in x[j]
    BY <1>3
  <2> QED
    BY <1>6, <1>8, <2>1, SizeAssumption DEF BatchOK
<1>12. TaskOK(s)
  BY <1>8, <1>11 DEF TaskOK, ApproxOK, IterOK, InIter
<1> QED
  BY <1>8, <1>9, <1>10, <1>12, StartMoves DEF InLen

\* A batch is looking for its key, or has ended with it: the next key, if there is
\* one, is looked up.
Probing(s) == s.pc \in {"batch", "batch entry"}
Ended(s, x) ==
  \/ x.pc = "batch end" /\ s.todo = {} /\ x.todo = {}
  \/ x.pc = "batch" /\ \A k \in s.todo : k \in x.todo \/ k = x.key

\* What is answered for one key was its binding, so the next one can be looked up.
LEMMA AnswerMoves ==
  ASSUME BulkInv, NEW r \in Readers, NEW s \in BatchTasks, s = task[r],
         Probing(s), NEW v \in s.seen[s.key], Answer(r, v),
         UNCHANGED <<vars, len, len_dirty, sync_op, gap>>
  PROVE  BulkInv'
<1>1. /\ s.key \in Keys /\ s.todo \subseteq Keys /\ s.results \in Batches
      /\ s.seen \in [Keys -> SUBSET (Values \cup {NOT_FOUND})]
  BY DEF BatchTasks
<1>2. BatchOK(s)
  BY DEF BulkInv, Running, TaskOK
<1>3. PICK f : f = [s.results EXCEPT ![s.key] = v]
  OBVIOUS
<1>4. f \in Batches /\ DOMAIN f = DOMAIN s.results
  <2>1. PICK batch \in SUBSET Keys : s.results \in [batch -> Values \cup {NULL, NOT_FOUND}]
    BY <1>1 DEF Batches
  <2>2. v \in Values \cup {NULL, NOT_FOUND}
    BY <1>1
  <2>3. f \in [batch -> Values \cup {NULL, NOT_FOUND}]
    BY <1>3, <2>1, <2>2
  <2> QED
    BY <2>1, <2>3 DEF Batches
<1>5. ASSUME NEW x \in BatchTasks, Become(r, x), x.results = f, x.seen = s.seen, x.distance = 0,
             Ended(s, x)
      PROVE  BulkInv'
  <2>1. \A k \in DOMAIN f :
          k \in x.todo \/ (k = x.key /\ x.pc # "batch end") \/ f[k] \in x.seen[k]
    <3> SUFFICES ASSUME NEW k \in DOMAIN f
                 PROVE  k \in x.todo \/ (k = x.key /\ x.pc # "batch end") \/ f[k] \in s.seen[k]
      BY <1>5
    <3>1. CASE k = s.key
      BY <1>3, <1>4, <3>1
    <3>2. CASE k \in s.todo
      BY <1>5, <3>2 DEF Ended
    <3>3. CASE s.results[k] \in s.seen[k] /\ k # s.key
      BY <1>3, <1>4, <3>3
    <3> QED
      BY <1>2, <1>4, <3>1, <3>2, <3>3 DEF BatchOK, InBatch, Probing
  <2>2. BatchOK(x)
    <3>1. \A k \in Keys : Binding(k) \in x.seen[k]
      BY <1>2, <1>5 DEF BatchOK, InBatch, Probing
    <3>2. 0 < Size /\ \A d : d \notin 0..(0 - 1)
      BY SizeAssumption
    <3> QED
      BY <1>5, <2>1, <3>1, <3>2 DEF BatchOK, Ended
  <2>3. /\ TaskOK(x) /\ x \in Tasks /\ x.pc \notin InLen /\ task[r].pc \notin InLen
        /\ x.pc # "approx"
    BY <1>5, <2>2 DEF TaskOK, ApproxOK, IterOK, InIter, InLen, Tasks, Probing, Ended
  <2> QED
    BY <1>5, <2>3, ReaderMoves
<1>6. PICK y : y = [s EXCEPT !.results = [@ EXCEPT ![s.key] = v], !.distance = 0, !.found = 0]
  OBVIOUS
<1>7. y = [pc |-> s.pc, key |-> s.key, todo |-> s.todo, distance |-> 0, found |-> 0,
           results |-> f, seen |-> s.seen]
  BY <1>3, <1>6 DEF BatchTasks
<1>8. CASE y.todo = {} /\ Become(r, [y EXCEPT !.pc = "batch end"])
  <2>1. PICK x : x = [y EXCEPT !.pc = "batch end"]
    OBVIOUS
  <2>2. x = [pc |-> "batch end", key |-> s.key, todo |-> s.todo, distance |-> 0,
             found |-> 0, results |-> f, seen |-> s.seen]
    BY <1>7, <2>1
  <2>3. x \in BatchTasks
    BY <1>1, <1>4, <2>2 DEF BatchTasks, InBatch
  <2>4. /\ x.results = f /\ x.seen = s.seen /\ x.distance = 0 /\ x.pc = "batch end"
        /\ s.todo = {} /\ x.todo = {}
    BY <1>7, <1>8, <2>2
  <2> QED
    BY <1>5, <1>8, <2>1, <2>3, <2>4 DEF Ended
<1>9. ASSUME NEW k \in y.todo,
             Become(r, [y EXCEPT !.pc = "batch", !.key = k, !.todo = @ \ {k}])
      PROVE  BulkInv'
  <2>1. PICK x : x = [y EXCEPT !.pc = "batch", !.key = k, !.todo = @ \ {k}]
    OBVIOUS
  <2>2. x = [pc |-> "batch", key |-> k, todo |-> s.todo \ {k}, distance |-> 0,
             found |-> 0, results |-> f, seen |-> s.seen]
    BY <1>7, <2>1
  <2>3. k \in Keys
    BY <1>1, <1>7, <1>9
  <2>4. x \in BatchTasks
    BY <1>1, <1>4, <2>2, <2>3 DEF BatchTasks, InBatch
  <2>5. /\ x.results = f /\ x.seen = s.seen /\ x.distance = 0 /\ x.pc = "batch"
        /\ \A j \in s.todo : j \in x.todo \/ j = x.key
    BY <2>2
  <2> QED
    BY <1>5, <1>9, <2>1, <2>4, <2>5 DEF Ended
<1> QED
  BY <1>6, <1>8, <1>9 DEF Answer

\* The probe passes a slot where no live entry of the key is.
LEMMA ProbeOnMoves ==
  ASSUME BulkInv, NEW r \in Readers, NEW s \in BatchTasks, s = task[r],
         Probing(s), ProbeOn(r),
         index[SlotAt(s.key, s.distance)] # EMPTY, ~LiveAt(SlotAt(s.key, s.distance), s.key),
         UNCHANGED <<vars, len, len_dirty, sync_op, gap>>
  PROVE  BulkInv'
<1>1. s.key \in Keys /\ s.distance \in Nat
  BY DEF BatchTasks
<1>2. BatchOK(s)
  BY DEF BulkInv, Running, TaskOK
<1>3. PICK n \in Nat : n = s.distance
  BY <1>1
<1>4. ASSUME NEW d \in 0..n
      PROVE  index[SlotAt(s.key, d)] # EMPTY /\ ~LiveAt(SlotAt(s.key, d), s.key)
  <2>1. CASE d = n
    BY <1>3, <2>1
  <2>2. CASE d \in 0..(n - 1)
    BY <1>2, <1>3, <2>2 DEF BatchOK, InBatch, Probing
  <2> QED
    BY <2>1, <2>2
<1>5. CASE n + 1 >= Size
  <2>1. Binding(s.key) = NOT_FOUND
    BY <1>1, <1>4, <1>5, AbsentKey DEF BulkInv, AllInv
  <2>2. NOT_FOUND \in s.seen[s.key]
    BY <1>1, <1>2, <2>1 DEF BatchOK, InBatch, Probing
  <2>3. Answer(r, NOT_FOUND)
    BY <1>3, <1>5 DEF ProbeOn
  <2> QED
    BY <2>2, <2>3, AnswerMoves
<1>6. CASE ~(n + 1 >= Size)
  <2>1. PICK x : x = [s EXCEPT !.pc = "batch", !.distance = @ + 1]
    OBVIOUS
  <2>2. Become(r, x)
    BY <1>3, <1>6, <2>1 DEF ProbeOn
  <2>3. /\ x.pc = "batch" /\ x.key = s.key /\ x.todo = s.todo /\ x.distance = n + 1
        /\ x.results = s.results /\ x.seen = s.seen /\ x \in BatchTasks
    <3>0. PICK m \in Nat : m = n + 1
      OBVIOUS
    <3>1. x = [pc |-> "batch", key |-> s.key, todo |-> s.todo, distance |-> m,
               found |-> s.found, results |-> s.results, seen |-> s.seen]
      BY <1>3, <2>1, <3>0 DEF BatchTasks
    <3>2. /\ s.key \in Keys /\ s.todo \subseteq Keys /\ s.found \in {0} \cup Locations
          /\ s.results \in Batches /\ s.seen \in [Keys -> SUBSET (Values \cup {NOT_FOUND})]
      BY DEF BatchTasks
    <3> QED
      BY <3>0, <3>1, <3>2 DEF BatchTasks, InBatch
  <2>4. x.distance < Size
    BY <1>6, <2>3, SizeAssumption
  <2>5. \A d \in 0..(x.distance - 1) :
          index[SlotAt(x.key, d)] # EMPTY /\ ~LiveAt(SlotAt(x.key, d), x.key)
    <3>1. x.distance - 1 = n
      BY <2>3
    <3> QED
      BY <1>4, <2>3, <3>1
  <2>6. BatchOK(x)
    BY <1>2, <2>3, <2>4, <2>5 DEF BatchOK, InBatch, Probing
  <2>7. TaskOK(x) /\ x \in Tasks /\ x.pc \notin InLen /\ task[r].pc \notin InLen
    BY <2>3, <2>6 DEF TaskOK, ApproxOK, IterOK, InIter, InLen, Tasks, Probing
  <2> QED
    BY <2>2, <2>3, <2>7, ReaderMoves
<1> QED
  BY <1>5, <1>6

\* A batch reads a node: an empty one shows that the key is absent.
LEMMA BatchNodeInv ==
  ASSUME BulkInv, NEW r \in Readers, BatchNode(r)
  PROVE  BulkInv'
<1>1. PICK s \in Tasks : s = task[r]
  BY DEF BulkInv, BulkTypes
<1>2. s.pc = "batch" /\ s \in BatchTasks /\ BatchOK(s)
  BY <1>1, TaskFields DEF BatchNode, BulkInv, Running, TaskOK, InBatch
<1>3. /\ s.key \in Keys /\ s.distance \in Nat /\ SlotAt(s.key, s.distance) \in Slots
      /\ \A d \in 0..(s.distance - 1) :
           index[SlotAt(s.key, d)] # EMPTY /\ ~LiveAt(SlotAt(s.key, d), s.key)
      /\ Binding(s.key) \in s.seen[s.key]
  BY <1>2, SlotAtType DEF BatchTasks, BatchOK, InBatch
<1>4. PICK p \in Slots : p = SlotAt(s.key, s.distance)
  BY <1>3
<1>5. UNCHANGED <<vars, len, len_dirty, sync_op, gap>>
  BY DEF BatchNode
<1>6. CASE index[p] = EMPTY /\ Answer(r, NOT_FOUND)
  <2>1. Binding(s.key) = NOT_FOUND
    BY <1>3, <1>4, <1>6, AbsentKey DEF BulkInv, AllInv
  <2> QED
    BY <1>1, <1>2, <1>3, <1>5, <1>6, <2>1, AnswerMoves DEF Probing
<1>7. CASE index[p] # EMPTY /\ ~CheckTag(index[p], s.key) /\ ProbeOn(r)
  <2>1. ~LiveAt(p, s.key)
    BY <1>7 DEF LiveAt, CheckTag
  <2> QED
    BY <1>1, <1>2, <1>4, <1>5, <1>7, <2>1, ProbeOnMoves DEF Probing
<1>8. CASE /\ CheckTag(index[p], s.key)
           /\ Become(r, [s EXCEPT !.pc = "batch entry", !.found = index[p]])
  <2>1. index[p] \in Locations \ Private
    BY <1>8 DEF CheckTag, IsEntry, BulkInv, AllInv, Inv, ProbeInvariant, NodeState
  <2>2. PICK x : x = [s EXCEPT !.pc = "batch entry", !.found = index[p]]
    OBVIOUS
  <2>3. /\ x.pc = "batch entry" /\ x.key = s.key /\ x.todo = s.todo /\ x.distance = s.distance
        /\ x.results = s.results /\ x.seen = s.seen /\ x.found = index[p] /\ x \in BatchTasks
    BY <1>2, <2>1, <2>2 DEF BatchTasks, InBatch
  <2>4. BatchOK(x)
    BY <1>2, <1>4, <2>1, <2>3 DEF BatchOK, InBatch
  <2>5. TaskOK(x) /\ x \in Tasks /\ x.pc \notin InLen /\ task[r].pc \notin InLen
    BY <1>1, <1>2, <2>3, <2>4 DEF TaskOK, ApproxOK, IterOK, InIter, InLen, Tasks
  <2> QED
    BY <1>5, <1>8, <2>2, <2>3, <2>5, ReaderMoves
<1> QED
  BY <1>1, <1>4, <1>6, <1>7, <1>8 DEF BatchNode

\* A batch reads an entry: a live one of the key has its value.
LEMMA BatchEntryInv ==
  ASSUME BulkInv, NEW r \in Readers, BatchEntry(r)
  PROVE  BulkInv'
<1>1. PICK s \in Tasks : s = task[r]
  BY DEF BulkInv, BulkTypes
<1>2. s.pc = "batch entry" /\ s \in BatchTasks /\ BatchOK(s)
  BY <1>1, TaskFields DEF BatchEntry, BulkInv, Running, TaskOK, InBatch
<1>3. /\ s.key \in Keys /\ s.distance \in Nat /\ SlotAt(s.key, s.distance) \in Slots
      /\ Binding(s.key) \in s.seen[s.key] /\ s.found \in Locations
  BY <1>2, SlotAtType DEF BatchTasks, BatchOK, InBatch
<1>4. PICK p \in Slots : p = SlotAt(s.key, s.distance)
  BY <1>3
<1>5. index[p] = s.found \/ (index[p] = TOMBSTONE /\ entry_value[s.found] = NULL)
  BY <1>2, <1>4 DEF BatchOK, InBatch
<1>6. UNCHANGED <<vars, len, len_dirty, sync_op, gap>>
  BY DEF BatchEntry
<1>7. CASE /\ ~(entry_value[s.found] # NULL /\ entry_key[s.found] = s.key)
           /\ ProbeOn(r)
  <2>1. index[p] # EMPTY /\ ~LiveAt(p, s.key)
    BY <1>3, <1>5, <1>7, NodeKinds DEF LiveAt
  <2> QED
    BY <1>1, <1>2, <1>4, <1>6, <1>7, <2>1, ProbeOnMoves DEF Probing
<1>8. CASE /\ entry_value[s.found] # NULL /\ entry_key[s.found] = s.key
           /\ Answer(r, entry_value[s.found])
  <2>1. LiveAt(p, s.key) /\ index[p] = s.found
    BY <1>3, <1>5, <1>8 DEF LiveAt, IsEntry
  <2>2. Binding(s.key) = entry_value[s.found]
    BY <1>3, <2>1, BindingLive DEF BulkInv, AllInv, Inv
  <2> QED
    BY <1>1, <1>2, <1>3, <1>6, <1>8, <2>2, AnswerMoves DEF Probing
<1>9. CASE Become(r, Idle)
  <2>1. Idle \in Tasks /\ Idle.pc = "idle"
    BY DEF Tasks, Idle
  <2>2. TaskOK(Idle)
    BY <2>1, PlainTask
  <2>3. task[r].pc \notin InLen
    BY <1>1, <1>2 DEF InLen
  <2> HIDE DEF Idle
  <2> QED
    BY <1>6, <1>9, <2>1, <2>2, <2>3, ReaderMoves DEF InLen
<1> QED
  BY <1>1, <1>7, <1>8, <1>9 DEF BatchEntry
-----------------------------------------------------------------------------
\* A product grows with its factors.
LEMMA Grows ==
  ASSUME NEW d \in Nat \ {0}, NEW p \in Int, NEW q \in Int, p < q
  PROVE  d * p + d <= d * q
<1>1. PICK m \in Nat : q = p + 1 + m
  <2>1. q - p - 1 \in Nat /\ q = p + 1 + (q - p - 1)
    OBVIOUS
  <2> QED
    BY <2>1
<1>2. d * q = d * p + d + d * m
  BY <1>1
<1>3. d * m \in Nat /\ d * p \in Int
  OBVIOUS
<1> QED
  BY <1>2, <1>3

\* Quotient and remainder.
LEMMA DivMod ==
  ASSUME NEW d \in Nat \ {0}, NEW x \in Nat
  PROVE  /\ x \div d \in Nat /\ x % d \in Nat /\ x % d < d
         /\ x = d * (x \div d) + (x % d)
OBVIOUS

\* There is one quotient and one remainder.
LEMMA DivModUnique ==
  ASSUME NEW d \in Nat \ {0}, NEW q \in Nat, NEW r \in Nat, r < d
  PROVE  (d * q + r) \div d = q /\ (d * q + r) % d = r
<1>1. PICK x \in Nat : x = d * q + r
  OBVIOUS
<1>2. PICK a \in Nat, b \in Nat : a = x \div d /\ b = x % d /\ b < d /\ x = d * a + b
  BY DivMod
<1>3. d * a \in Int /\ d * q \in Int
  OBVIOUS
<1>4. a = q
  <2>1. CASE a < q
    <3>1. d * a + d <= d * q
      BY <2>1, Grows
    <3> QED
      BY <1>1, <1>2, <1>3, <3>1
  <2>2. CASE q < a
    <3>1. d * q + d <= d * a
      BY <2>2, Grows
    <3> QED
      BY <1>1, <1>2, <1>3, <3>1
  <2> QED
    BY <2>1, <2>2
<1> QED
  BY <1>1, <1>2, <1>3, <1>4

\* Numbers with the same remainder are at least the divisor apart.
LEMMA ModGap ==
  ASSUME NEW n \in Nat \ {0}, NEW q \in Nat, NEW g \in Nat, q < g, g < q + n
  PROVE  g % n # q % n
<1> SUFFICES ASSUME g % n = q % n PROVE FALSE
  OBVIOUS
<1>1. PICK a \in Nat, b \in Nat : b = g % n /\ g = n * a + b
  BY DivMod
<1>2. PICK c \in Nat : q = n * c + b
  <2>1. q \div n \in Nat /\ q = n * (q \div n) + (q % n)
    BY DivMod
  <2>2. q % n = b
    BY <1>1
  <2> QED
    BY <2>1, <2>2
<1>3. n * a \in Int /\ n * c \in Int
  OBVIOUS
<1>4. CASE c < a
  <2>1. n * c + n <= n * a
    BY <1>4, Grows
  <2> QED
    BY <1>1, <1>2, <1>3, <2>1
<1>5. CASE a < c
  <2>1. n * a + n <= n * c
    BY <1>5, Grows
  <2> QED
    BY <1>1, <1>2, <1>3, <2>1
<1>6. CASE a = c
  BY <1>1, <1>2, <1>3, <1>6
<1> QED
  BY <1>4, <1>5, <1>6

\* The divisor does not change the remainder.
LEMMA ModShift ==
  ASSUME NEW n \in Nat \ {0}, NEW q \in Nat
  PROVE  (q + n) % n = q % n
<1>1. PICK a \in Nat, b \in Nat : b = q % n /\ b < n /\ q = n * a + b
  BY DivMod
<1>2. n * (a + 1) = n * a + n /\ n * a \in Int
  OBVIOUS
<1>3. q + n = n * (a + 1) + b
  BY <1>1, <1>2
<1>4. a + 1 \in Nat
  OBVIOUS
<1>5. (n * (a + 1) + b) % n = b
  BY <1>1, <1>4, DivModUnique
<1> QED
  BY <1>1, <1>3, <1>5

\* An entry's page, and its place in the page.
LEMMA PageParts ==
  ASSUME NEW x \in Nat
  PROVE  \E r \in Nat : /\ r < EntriesInPage /\ r = x % EntriesInPage
                        /\ PageOf(x) \in Nat /\ x = EntriesInPage * PageOf(x) + r
<1>1. EntriesInPage \in Nat \ {0}
  BY PageAssumption
<1> QED
  BY <1>1, DivMod DEF PageOf

\* Entries are in the order of their pages.
LEMMA PagesInOrder ==
  ASSUME NEW x \in Nat, NEW y \in Nat, PageOf(x) < PageOf(y)
  PROVE  x < y
<1>1. PICK d \in Nat \ {0} : d = EntriesInPage
  BY PageAssumption
<1>2. PICK r \in Nat : r < d /\ PageOf(x) \in Nat /\ x = d * PageOf(x) + r
  BY <1>1, PageParts
<1>3. PICK s \in Nat : PageOf(y) \in Nat /\ y = d * PageOf(y) + s
  BY <1>1, PageParts
<1>4. d * PageOf(x) + d <= d * PageOf(y)
  BY <1>2, <1>3, Grows
<1>5. d * PageOf(x) \in Int /\ d * PageOf(y) \in Int
  BY <1>2, <1>3
<1> QED
  BY <1>2, <1>3, <1>4, <1>5

\* Where the iterator of every n-th page goes from the position x.
Onwards(x, n) ==
  IF (x + 1) % EntriesInPage = 0
  THEN x - (x % EntriesInPage) + n * EntriesInPage
  ELSE x + 1

\* It goes on to a later entry of the same share of the pages, and skips none.
LEMMA OnwardsSkips ==
  ASSUME NEW x \in Nat, NEW n \in Nat \ {0}
  PROVE  /\ Onwards(x, n) \in Nat /\ x < Onwards(x, n)
         /\ PageOf(Onwards(x, n)) % n = PageOf(x) % n
         /\ \A e \in Nat : x < e /\ e < Onwards(x, n) => PageOf(e) % n # PageOf(x) % n
<1>1. PICK d \in Nat \ {0} : d = EntriesInPage
  BY PageAssumption
<1>parts. PICK q \in Nat, r \in Nat : q = PageOf(x) /\ r = x % d /\ r < d /\ x = d * q + r
  BY <1>1, PageParts
<1>2. r < d /\ x = d * q + r
  BY <1>parts
<1>page. q = PageOf(x) /\ r = x % d
  BY <1>parts
<1>3. d * q \in Nat
  OBVIOUS
<1>4. CASE r < d - 1
  <2>1. PICK m \in Nat : m = r + 1 /\ m < d /\ m # 0
    BY <1>4
  <2>2. x + 1 = d * q + m
    BY <1>2, <1>3, <2>1
  <2>3. (d * q + m) \div d = q /\ (d * q + m) % d = m
    BY <2>1, DivModUnique
  <2>4. (x + 1) \div d = q /\ (x + 1) % d # 0
    BY <2>1, <2>2, <2>3
  <2>5. Onwards(x, n) = x + 1 /\ PageOf(x + 1) = q
    BY <1>1, <2>4 DEF Onwards, PageOf
  <2> QED
    BY <1>page, <2>5
<1>5. CASE r = d - 1
  <2>1. x + 1 = d * (q + 1) + 0
    BY <1>2, <1>3, <1>5
  <2>2. q + 1 \in Nat /\ q + n \in Nat
    OBVIOUS
  <2>3. (d * (q + 1) + 0) % d = 0
    BY <2>2, DivModUnique
  <2>4. Onwards(x, n) = x - r + n * d
    BY <1>1, <1>page, <2>1, <2>3 DEF Onwards
  <2>5. n * d = d * n /\ d * (q + n) = d * q + d * n /\ d * n \in Nat /\ d * n >= d
    <3>1. n * d = d * n /\ d * (q + n) = d * q + d * n /\ d * n \in Nat
      OBVIOUS
    <3>2. 0 < n
      OBVIOUS
    <3>3. d * 0 + d <= d * n
      BY <3>2, Grows
    <3> QED
      BY <3>1, <3>3
  <2>6. PICK y \in Nat : y = Onwards(x, n) /\ y = d * (q + n) + 0 /\ x < y
    <3>1. x - r + n * d = d * (q + n) + 0
      BY <1>2, <1>3, <2>5
    <3>2. d * (q + n) + 0 \in Nat
      BY <2>2
    <3>3. x < d * (q + n) + 0
      BY <1>2, <1>3, <1>5, <2>5
    <3> QED
      BY <2>4, <3>1, <3>2, <3>3
  <2>7. PageOf(y) = q + n
    <3>1. (d * (q + n) + 0) \div d = q + n
      BY <2>2, DivModUnique
    <3> QED
      BY <1>1, <2>6, <3>1 DEF PageOf
  <2>8. PageOf(y) % n = q % n
    BY <2>7, ModShift
  <2>9. ASSUME NEW e \in Nat, x < e, e < y PROVE PageOf(e) % n # q % n
    <3>1. PICK g \in Nat, s \in Nat : g = PageOf(e) /\ s < d /\ e = d * g + s
      BY <1>1, PageParts
    <3>2. d * g \in Int
      OBVIOUS
    <3>3. q < g
      <4>1. CASE g < q
        <5>1. d * g + d <= d * q
          BY <4>1, Grows
        <5> QED
          BY <1>2, <1>3, <2>9, <3>1, <3>2, <5>1
      <4>2. CASE g = q
        BY <1>2, <1>3, <1>5, <2>9, <3>1, <4>2
      <4> QED
        BY <4>1, <4>2
    <3>4. g < q + n
      <4>1. CASE q + n < g
        <5>1. d * (q + n) + d <= d * g
          BY <2>2, <4>1, Grows
        <5>2. d * (q + n) \in Int
          BY <2>2
        <5> QED
          BY <2>6, <2>9, <3>1, <3>2, <5>1, <5>2
      <4>2. CASE q + n = g
        BY <2>6, <2>9, <3>1, <3>2, <4>2
      <4> QED
        BY <2>2, <4>1, <4>2
    <3> QED
      BY <3>1, <3>3, <3>4, ModGap
  <2> QED
    BY <1>page, <2>6, <2>8, <2>9
<1> QED
  BY <1>2, <1>4, <1>5
-----------------------------------------------------------------------------
\* The entries that make up the dictionary.
LEMMA LiveEntries ==
  ASSUME AllInv, NEW e \in Live
  PROVE  /\ e \in Locations \ Private /\ e \notin free
         /\ entry_value[e] \in Values /\ entry_key[e] \in Keys
<1>1. PICK p \in Slots : IsEntry(index[p]) /\ e = index[p] /\ entry_value[e] # NULL
  BY DEF Live
<1>2. e \in Locations \ Private /\ entry_key[e] \in Keys
  BY <1>1 DEF AllInv, Inv, ProbeInvariant, NodeState, IsEntry
<1> QED
  BY <1>1, <1>2 DEF Private, AllInv, Inv, TypeOK

\* With no writer about, whatever has a value is in the dictionary.
LEMMA QuietEntries ==
  ASSUME AllInv, PoolState, \A t \in Threads : pc[t] = "idle",
         NEW e \in Locations, entry_value[e] # NULL
  PROVE  e \in Live
<1>1. \A t \in Threads : location[t] = 0
  BY DEF AllInv, Inv, ProbeInvariant, ThreadState
<1>2. e \notin Private
  BY <1>1 DEF Private, PoolState
<1>3. PICK p \in Slots : index[p] = e
  BY <1>2 DEF PoolState
<1> QED
  BY <1>3 DEF Live, IsEntry

\* An iterator's step.
LEMMA IterMoves ==
  ASSUME BulkInv, UNCHANGED <<vars, len, len_dirty, sync_op, gap>>, NEW r \in Readers,
         task[r] \in IterTasks, NEW x \in IterTasks, Become(r, x), IterOK(x)
  PROVE  BulkInv'
<1>1. \A y \in IterTasks : y.pc \in InIter
  BY DEF IterTasks
<1>2. \A a \in InIter : a # "approx" /\ a \notin InLen /\ a \notin InBatch
  BY DEF InIter, InLen, InBatch
<1>3. x.pc # "approx" /\ x.pc \notin InLen /\ x.pc \notin InBatch /\ task[r].pc \notin InLen
  BY <1>1, <1>2
<1>4. x \in Tasks /\ TaskOK(x)
  BY <1>3 DEF Tasks, TaskOK, ApproxOK, BatchOK
<1> QED
  BY <1>3, <1>4, ReaderMoves

\* An iterator that is under way, field by field.
LEMMA IterTask ==
  ASSUME BulkInv, NEW r \in Readers, task[r].pc \in InIter
  PROVE  /\ task[r] \in IterTasks /\ IterOK(task[r])
         /\ task[r].partitions \in Nat \ {0} /\ task[r].position \in Nat /\ task[r].gap \in Nat
         /\ task[r].value \in Values \cup {NULL} /\ task[r].yielded \subseteq Keys \X Values
         /\ task[r].stable \subseteq Locations /\ task[r].alone \in BOOLEAN
<1>1. task[r] \in Tasks
  BY DEF BulkInv, BulkTypes
<1>2. task[r] \in IterTasks
  BY <1>1, TaskFields
<1>3. IterOK(task[r])
  BY DEF BulkInv, Running, TaskOK
<1> QED
  BY <1>2, <1>3 DEF IterTasks

\* An iterator that goes on passes nothing but its position.
LEMMA PassesPosition ==
  ASSUME NEW s \in IterTasks, NEW x \in IterTasks, x.stable = s.stable,
         x.partitions = s.partitions, x.position = Onwards(s.position, s.partitions),
         \A e \in s.stable : SameShare(s, e)
  PROVE  /\ \A e : SameShare(x, e) <=> SameShare(s, e)
         /\ Before(x) = Before(s) \cup ({s.position} \cap s.stable)
<1>1. s.position \in Nat /\ s.partitions \in Nat \ {0} /\ s.stable \subseteq Locations
  BY DEF IterTasks
<1>2. PICK p \in Nat, n \in Nat \ {0}, y \in Nat :
        /\ p = s.position /\ n = s.partitions /\ y = x.position
        /\ p < y /\ PageOf(y) % n = PageOf(p) % n
        /\ \A e \in Nat : p < e /\ e < y => PageOf(e) % n # PageOf(p) % n
  <2>1. PICK p \in Nat, n \in Nat \ {0} : p = s.position /\ n = s.partitions
    BY <1>1
  <2>2. /\ Onwards(p, n) \in Nat /\ p < Onwards(p, n)
        /\ PageOf(Onwards(p, n)) % n = PageOf(p) % n
        /\ \A e \in Nat : p < e /\ e < Onwards(p, n) => PageOf(e) % n # PageOf(p) % n
    BY OnwardsSkips
  <2>3. PICK y \in Nat : y = Onwards(p, n)
    BY <2>2
  <2> QED
    BY <2>1, <2>2, <2>3
<1>3. \A e : SameShare(x, e) <=> SameShare(s, e)
  BY <1>2 DEF SameShare
<1>4. ASSUME NEW e \in s.stable PROVE e < y <=> e < p \/ e = p
  <2>1. e \in Nat /\ PageOf(e) % n = PageOf(p) % n
    BY <1>1, <1>2, PageType DEF SameShare
  <2> QED
    BY <1>2, <2>1
<1> QED
  BY <1>2, <1>3, <1>4 DEF Before
-----------------------------------------------------------------------------
\* No entry of the iterator's pages is before the first of them.
LEMMA CallFastIterInv ==
  ASSUME BulkInv, NEW r \in Readers, CallFastIter(r)
  PROVE  BulkInv'
<1>0. PICK n \in Partitions : \E i \in 0..(n - 1) :
        Start(r, [pc |-> "iter next", partitions |-> n, position |-> i * EntriesInPage,
                  gap |-> 0, value |-> NULL, yielded |-> {},
                  stable |-> {e \in Live : PageOf(e) % n = i},
                  alone |-> \A t \in Threads : ~Writing(t)])
  BY DEF CallFastIter
<1>1. PICK i \in 0..(n - 1) :
        Start(r, [pc |-> "iter next", partitions |-> n, position |-> i * EntriesInPage,
                  gap |-> 0, value |-> NULL, yielded |-> {},
                  stable |-> {e \in Live : PageOf(e) % n = i},
                  alone |-> \A t \in Threads : ~Writing(t)])
  BY <1>0
<1>2. n \in Nat \ {0} /\ i \in Nat /\ i < n
  BY PageAssumption
<1>3. PICK d \in Nat \ {0} : d = EntriesInPage
  BY PageAssumption
<1>4. PICK p \in Nat : p = i * EntriesInPage
  BY <1>2, <1>3
<1>5. PICK b \in BOOLEAN : b = \A t \in Threads : ~Writing(t)
  OBVIOUS
<1>6. PICK S : S = {e \in Live : PageOf(e) % n = i}
  OBVIOUS
<1>7. S \subseteq Locations /\ S \subseteq Live
  BY <1>6, LiveEntries DEF BulkInv
<1>8. PICK x : x = [pc |-> "iter next", partitions |-> n, position |-> p, gap |-> 0,
                    value |-> NULL, yielded |-> {}, stable |-> S, alone |-> b]
  OBVIOUS
<1>9. Start(r, x)
  BY <1>1, <1>4, <1>5, <1>6, <1>8
<1>10. x \in IterTasks
  BY <1>2, <1>7, <1>8 DEF IterTasks, InIter
<1>11. /\ x.pc = "iter next" /\ x.partitions = n /\ x.position = p
       /\ x.yielded = {} /\ x.stable = S /\ x.alone = b
  BY <1>8
<1>12. PageOf(p) = i /\ i % n = i
  <2>1. p = d * i + 0 /\ i = n * 0 + i
    BY <1>2, <1>3, <1>4
  <2>2. (d * i + 0) \div d = i
    BY <1>2, <1>3, DivModUnique
  <2>3. (n * 0 + i) % n = i
    BY <1>2, DivModUnique
  <2> QED
    BY <1>3, <2>1, <2>2, <2>3 DEF PageOf
<1>13. \A e : SameShare(x, e) <=> PageOf(e) % n = i
  BY <1>11, <1>12 DEF SameShare
<1>14. Before(x) = {}
  <2> SUFFICES ASSUME NEW e \in S, e < p PROVE FALSE
    BY <1>11 DEF Before
  <2>1. e \in Nat /\ PageOf(e) \in Nat /\ PageOf(e) % n = i
    BY <1>6, <1>7, PageType
  <2>2. PICK g \in Nat, m \in Nat : g = PageOf(e) /\ e = d * g + m
    BY <1>3, <2>1, PageParts
  <2>3. g < i
    <3>1. d * g \in Int /\ d * i \in Int /\ p = d * i
      BY <1>2, <1>3, <1>4
    <3>2. CASE i < g
      <4>1. d * i + d <= d * g
        BY <1>2, <3>2, Grows
      <4> QED
        BY <2>2, <3>1, <4>1
    <3>3. CASE i = g
      BY <2>2, <3>1, <3>3
    <3> QED
      BY <1>2, <3>2, <3>3
  <2>4. g = n * 0 + g /\ g < n
    BY <1>2, <2>3
  <2>5. (n * 0 + g) % n = g
    BY <1>2, <2>4, DivModUnique
  <2> QED
    BY <1>2, <2>1, <2>2, <2>3, <2>4, <2>5
<1>15. IterOK(x)
  <2>1. Pairs({}) = {}
    BY DEF Pairs
  <2>2. b => \A t \in Threads : pc[t] = "idle"
    BY <1>5 DEF Writing
  <2> QED
    BY <1>6, <1>7, <1>11, <1>13, <1>14, <2>1, <2>2 DEF IterOK
<1>16. x \in Tasks /\ TaskOK(x) /\ x.pc \notin InLen /\ x.pc # "approx"
  BY <1>10, <1>11, <1>15 DEF Tasks, TaskOK, ApproxOK, BatchOK, InLen, InBatch
<1> QED
  BY <1>9, <1>16, StartMoves

\* What is in the dictionary is in an allocated page.
LEMMA LoadGapInv ==
  ASSUME BulkInv, NEW r \in Readers, LoadGap(r)
  PROVE  BulkInv'
<1>1. PICK s : s = task[r]
  OBVIOUS
<1>2. s.pc = "iter next" /\ s.pc \in InIter
  BY <1>1 DEF LoadGap, InIter
<1>3. s \in IterTasks /\ IterOK(s)
  BY <1>1, <1>2, IterTask
<1>4. PICK x : x = [s EXCEPT !.pc = "iter", !.gap = gap]
  OBVIOUS
<1>5. x = [pc |-> "iter", partitions |-> s.partitions, position |-> s.position, gap |-> gap,
           value |-> s.value, yielded |-> s.yielded, stable |-> s.stable, alone |-> s.alone]
  BY <1>3, <1>4 DEF IterTasks
<1>6. x \in IterTasks
  BY <1>1, <1>2, <1>5, IterTask DEF IterTasks, InIter, BulkInv, BulkTypes
<1>7. /\ x.pc = "iter" /\ x.partitions = s.partitions /\ x.position = s.position
      /\ x.gap = gap /\ x.yielded = s.yielded /\ x.stable = s.stable /\ x.alone = s.alone
  BY <1>5
<1>8. Before(x) = Before(s) /\ \A e : SameShare(x, e) <=> SameShare(s, e)
  BY <1>7 DEF Before, SameShare
<1>9. \A e \in s.stable : PageOf(e) <= gap
  BY <1>2, <1>3, LiveEntries DEF BulkInv, IterOK, PageState
<1>10. IterOK(x)
  BY <1>2, <1>3, <1>7, <1>8, <1>9 DEF IterOK
<1> QED
  BY <1>1, <1>3, <1>4, <1>6, <1>10, IterMoves DEF LoadGap

\* The iterator reads an entry's value: the entries without one are not part of the
\* dictionary, and an iterator that is left alone finds no others.
LEMMA ReadValueInv ==
  ASSUME BulkInv, NEW r \in Readers, ReadValue(r)
  PROVE  BulkInv'
<1>1. PICK s : s = task[r]
  OBVIOUS
<1>2. s.pc = "iter" /\ s.pc \in InIter
  BY <1>1 DEF ReadValue, InIter
<1>3. /\ s \in IterTasks /\ IterOK(s)
      /\ s.partitions \in Nat \ {0} /\ s.position \in Nat /\ s.gap \in Nat
      /\ s.value \in Values \cup {NULL} /\ s.yielded \subseteq Keys \X Values
      /\ s.stable \subseteq Locations /\ s.alone \in BOOLEAN
  BY <1>1, <1>2, IterTask
<1>4. PICK v : v = IF s.position \in Locations THEN entry_value[s.position] ELSE NULL
  OBVIOUS
<1>5. v \in Values \cup {NULL}
  BY <1>4 DEF BulkInv, AllInv, Inv, TypeOK
<1>6. UNCHANGED <<vars, len, len_dirty, sync_op, gap>>
  BY DEF ReadValue
<1>7. CASE PageOf(s.position) > s.gap /\ Become(r, [s EXCEPT !.pc = "iter end"])
  <2>1. PICK x : x = [s EXCEPT !.pc = "iter end"]
    OBVIOUS
  <2>2. x = [pc |-> "iter end", partitions |-> s.partitions, position |-> s.position,
             gap |-> s.gap, value |-> s.value, yielded |-> s.yielded,
             stable |-> s.stable, alone |-> s.alone]
    BY <1>3, <2>1 DEF IterTasks
  <2>3. x \in IterTasks
    BY <1>3, <2>2 DEF IterTasks, InIter
  <2>4. /\ x.pc = "iter end" /\ x.partitions = s.partitions /\ x.position = s.position
        /\ x.gap = s.gap /\ x.yielded = s.yielded /\ x.stable = s.stable /\ x.alone = s.alone
    BY <2>2
  <2>5. Before(x) = Before(s) /\ \A e : SameShare(x, e) <=> SameShare(s, e)
    BY <2>4 DEF Before, SameShare
  <2>6. IterOK(x)
    BY <1>2, <1>3, <1>7, <2>4, <2>5 DEF IterOK
  <2> QED
    BY <1>1, <1>3, <1>6, <1>7, <2>1, <2>3, <2>6, IterMoves
<1>8. CASE v = NULL /\ Become(r, Advance(s))
  <2>1. PICK x : x = Advance(s)
    OBVIOUS
  <2>2. PICK y \in Nat : y = Onwards(s.position, s.partitions)
    BY <1>3, OnwardsSkips
  <2>3. x = [pc |-> "iter", partitions |-> s.partitions, position |-> y,
             gap |-> s.gap, value |-> s.value, yielded |-> s.yielded,
             stable |-> s.stable, alone |-> s.alone]
    BY <1>2, <1>3, <2>1, <2>2 DEF IterTasks, Advance, Onwards
  <2>4. x \in IterTasks
    BY <1>3, <2>3 DEF IterTasks, InIter
  <2>5. /\ x.pc = "iter" /\ x.partitions = s.partitions
        /\ x.position = Onwards(s.position, s.partitions)
        /\ x.gap = s.gap /\ x.yielded = s.yielded /\ x.stable = s.stable /\ x.alone = s.alone
    BY <2>2, <2>3
  <2>6. /\ s.stable \subseteq Live /\ \A e \in s.stable : SameShare(s, e)
    BY <1>2, <1>3 DEF IterOK
  <2>7. s.position \notin s.stable
    BY <1>4, <1>8, <2>6, LiveEntries, ConstantsDistinct DEF BulkInv
  <2>8. Before(x) = Before(s) /\ \A e : SameShare(x, e) <=> SameShare(s, e)
    <3>1. /\ Before(x) = Before(s) \cup ({s.position} \cap s.stable)
          /\ \A e : SameShare(x, e) <=> SameShare(s, e)
      BY <1>3, <2>4, <2>5, <2>6, PassesPosition
    <3> QED
      BY <2>7, <3>1
  <2>9. IterOK(x)
    BY <1>2, <1>3, <2>5, <2>8 DEF IterOK
  <2> QED
    BY <1>1, <1>3, <1>6, <1>8, <2>1, <2>4, <2>9, IterMoves
<1>9. CASE v # NULL /\ Become(r, [s EXCEPT !.pc = "iter key", !.value = v])
  <2>1. PICK x : x = [s EXCEPT !.pc = "iter key", !.value = v]
    OBVIOUS
  <2>2. x = [pc |-> "iter key", partitions |-> s.partitions, position |-> s.position,
             gap |-> s.gap, value |-> v, yielded |-> s.yielded,
             stable |-> s.stable, alone |-> s.alone]
    BY <1>3, <2>1 DEF IterTasks
  <2>3. x \in IterTasks
    BY <1>3, <1>5, <2>2 DEF IterTasks, InIter
  <2>4. /\ x.pc = "iter key" /\ x.partitions = s.partitions /\ x.position = s.position
        /\ x.gap = s.gap /\ x.yielded = s.yielded /\ x.stable = s.stable /\ x.alone = s.alone
        /\ x.value = v
    BY <2>2
  <2>5. Before(x) = Before(s) /\ \A e : SameShare(x, e) <=> SameShare(s, e)
    BY <2>4 DEF Before, SameShare
  <2>6. s.position \in Locations /\ v = entry_value[s.position] /\ v \in Values
    BY <1>4, <1>5, <1>9
  <2>7. s.alone => s.position \in s.stable
    <3> SUFFICES ASSUME s.alone PROVE s.position \in s.stable
      OBVIOUS
    <3>1. \A t \in Threads : pc[t] = "idle"
      BY <1>2, <1>3 DEF IterOK
    <3>2. s.position \in Live
      BY <1>9, <2>6, <3>1, QuietEntries DEF BulkInv
    <3>3. SameShare(s, s.position)
      BY DEF SameShare
    <3> QED
      BY <1>2, <1>3, <3>2, <3>3 DEF IterOK
  <2>8. IterOK(x)
    BY <1>2, <1>3, <2>4, <2>5, <2>6, <2>7 DEF IterOK
  <2> QED
    BY <1>1, <1>3, <1>6, <1>9, <2>1, <2>3, <2>8, IterMoves
<1> QED
  BY <1>1, <1>4, <1>7, <1>8, <1>9 DEF ReadValue

\* The iterator reads the entry's key, and returns the pair or raises.
LEMMA ReadKeyInv ==
  ASSUME BulkInv, NEW r \in Readers, ReadKey(r)
  PROVE  BulkInv'
<1>1. PICK s : s = task[r]
  OBVIOUS
<1>2. s.pc = "iter key" /\ s.pc \in InIter
  BY <1>1 DEF ReadKey, InIter
<1>3. /\ s \in IterTasks /\ IterOK(s)
      /\ s.partitions \in Nat \ {0} /\ s.position \in Nat /\ s.gap \in Nat
      /\ s.value \in Values \cup {NULL} /\ s.yielded \subseteq Keys \X Values
      /\ s.stable \subseteq Locations /\ s.alone \in BOOLEAN
  BY <1>1, <1>2, IterTask
<1>4. PICK k : k = entry_key[s.position]
  OBVIOUS
<1>5. /\ s.position \in Locations /\ s.value \in Values
      /\ s.stable \subseteq Live /\ \A e \in s.stable : SameShare(s, e)
      /\ s.alone => s.position \in s.stable /\ s.value = entry_value[s.position]
  BY <1>2, <1>3 DEF IterOK
<1>6. UNCHANGED <<vars, len, len_dirty, sync_op, gap>>
  BY DEF ReadKey
<1>7. CASE /\ k # NULL
           /\ Become(r, [Advance(s) EXCEPT !.pc = "iter next",
                                           !.yielded = @ \cup {<<k, s.value>>}])
  <2>1. PICK x : x = [Advance(s) EXCEPT !.pc = "iter next", !.yielded = @ \cup {<<k, s.value>>}]
    OBVIOUS
  <2>2. PICK y \in Nat : y = Onwards(s.position, s.partitions)
    BY <1>3, OnwardsSkips
  <2>3. PICK Y : Y = s.yielded \cup {<<k, s.value>>}
    OBVIOUS
  <2>4. Y \subseteq Keys \X Values
    BY <1>3, <1>4, <1>5, <1>7, <2>3 DEF BulkInv, AllInv, Inv, TypeOK
  <2>next. PICK nxt : nxt = Advance(s)
    OBVIOUS
  <2>5. nxt = [pc |-> "iter key", partitions |-> s.partitions, position |-> y,
             gap |-> s.gap, value |-> s.value, yielded |-> s.yielded,
             stable |-> s.stable, alone |-> s.alone]
    BY <1>2, <1>3, <2>2, <2>next DEF IterTasks, Advance, Onwards
  <2>6. x = [pc |-> "iter next", partitions |-> s.partitions, position |-> y,
             gap |-> s.gap, value |-> s.value, yielded |-> Y,
             stable |-> s.stable, alone |-> s.alone]
    <3>0. nxt.yielded = s.yielded
      BY <2>5
    <3>1. x = [nxt EXCEPT !.pc = "iter next", !.yielded = Y]
      BY <2>1, <2>3, <2>next, <3>0
    <3> QED
      BY <2>5, <3>1
  <2>7. x \in IterTasks
    BY <1>3, <2>4, <2>6 DEF IterTasks, InIter
  <2>8. /\ x.pc = "iter next" /\ x.partitions = s.partitions
        /\ x.position = Onwards(s.position, s.partitions)
        /\ x.yielded = Y /\ x.stable = s.stable /\ x.alone = s.alone
    BY <2>2, <2>6
  <2>9. /\ Before(x) = Before(s) \cup ({s.position} \cap s.stable)
        /\ \A e : SameShare(x, e) <=> SameShare(s, e)
    BY <1>3, <1>5, <2>7, <2>8, PassesPosition
  <2>10. \A e \in Before(x) : \E z \in Y : z[1] = entry_key[e]
    <3> SUFFICES ASSUME NEW e \in Before(x) PROVE \E z \in Y : z[1] = entry_key[e]
      OBVIOUS
    <3>1. CASE e \in Before(s)
      BY <1>2, <1>3, <2>3, <3>1 DEF IterOK
    <3>2. CASE e = s.position
      <4>1. <<k, s.value>> \in Y /\ <<k, s.value>>[1] = entry_key[e]
        BY <1>4, <2>3, <3>2
      <4> QED
        BY <4>1
    <3> QED
      BY <2>9, <3>1, <3>2
  <2>11. s.alone => Y = Pairs(Before(x))
    <3> SUFFICES ASSUME s.alone PROVE Y = Pairs(Before(x))
      OBVIOUS
    <3>1. s.yielded = Pairs(Before(s)) /\ s.value = entry_value[s.position]
      BY <1>2, <1>3, <1>5 DEF IterOK
    <3>2. Before(x) = Before(s) \cup {s.position}
      BY <1>5, <2>9
    <3> QED
      BY <1>4, <2>3, <3>1, <3>2 DEF Pairs
  <2>12. IterOK(x)
    BY <1>2, <1>3, <2>8, <2>9, <2>10, <2>11 DEF IterOK
  <2> QED
    BY <1>1, <1>3, <1>6, <1>7, <2>1, <2>7, <2>12, IterMoves
<1>8. CASE /\ k = NULL \/ entry_value[s.position] # s.value
           /\ Become(r, [s EXCEPT !.pc = "iter raised"])
  <2>1. PICK x : x = [s EXCEPT !.pc = "iter raised"]
    OBVIOUS
  <2>2. x = [pc |-> "iter raised", partitions |-> s.partitions, position |-> s.position,
             gap |-> s.gap, value |-> s.value, yielded |-> s.yielded,
             stable |-> s.stable, alone |-> s.alone]
    BY <1>3, <2>1 DEF IterTasks
  <2>3. x \in IterTasks
    BY <1>3, <2>2 DEF IterTasks, InIter
  <2>4. /\ x.pc = "iter raised" /\ x.partitions = s.partitions /\ x.position = s.position
        /\ x.yielded = s.yielded /\ x.stable = s.stable /\ x.alone = s.alone
    BY <2>2
  <2>5. Before(x) = Before(s) /\ \A e : SameShare(x, e) <=> SameShare(s, e)
    BY <2>4 DEF Before, SameShare
  <2>6. ~s.alone
    BY <1>4, <1>5, <1>8, LiveEntries, ConstantsDistinct DEF BulkInv
  <2>7. IterOK(x)
    BY <1>2, <1>3, <2>4, <2>5, <2>6 DEF IterOK
  <2> QED
    BY <1>1, <1>3, <1>6, <1>8, <2>1, <2>3, <2>7, IterMoves
<1> QED
  BY <1>1, <1>4, <1>7, <1>8 DEF ReadKey
-----------------------------------------------------------------------------
\* Nobody else is in len() when one reader is.
LEMMA OneInLen ==
  ASSUME LenState, NEW r \in Readers, sync_op = r \/ sync_op = NoReader
  PROVE  \A q \in Readers \ {r} : task[q].pc \notin InLen
BY ReadersAssumption DEF LenState

\* len() begins or ends.
LEMMA LenMoves ==
  ASSUME BulkInv, UNCHANGED <<vars, len, len_dirty, gap>>,
         sync_op' \in Readers \cup {NoReader},
         NEW r \in Readers, NEW s \in Tasks, Become(r, s),
         task[r].pc # "len zero", s.pc \in {"idle", "len sum", "len end"},
         \A q \in Readers : sync_op' = q <=> task'[q].pc \in InLen,
         sync_op' # NoReader => \A t \in Threads : pc[t] = "idle",
         s.pc = "len end" => ~len_dirty /\ s.result = len
  PROVE  BulkInv'
<1>1. AllInv' /\ PoolState'
  BY TableKept DEF BulkInv
<1>2. /\ task \in [Readers -> Tasks] /\ task'[r] = s /\ task' \in [Readers -> Tasks]
      /\ \A q \in Readers \ {r} : task'[q] = task[q]
  BY DEF BulkInv, BulkTypes, Become
<1>3. BulkTypes'
  BY <1>2 DEF BulkInv, BulkTypes
<1>4. PageState'
  BY DEF BulkInv, PageState, vars, tableVars
<1>5. ASSUME NEW x \in Running' PROVE TaskOK(x)'
  <2>1. TaskOK(s)
    BY PlainTask
  <2>2. TaskOK(x)
    BY <1>2, <2>1 DEF BulkInv, Running
  <2> QED
    BY <2>2, TaskKept
<1>6. LenState'
  <2>1. Zeroing' = Zeroing
    BY <1>2 DEF Zeroing
  <2>2. Balance' = Balance
    BY <2>1, AccountKept DEF Balance
  <2>3. Bound' = Bound
    BY AccountKept
  <2>4. local_len' = local_len /\ pc' = pc
    BY DEF vars, threadVars
  <2> QED
    BY <1>2, <2>1, <2>2, <2>3, <2>4 DEF BulkInv, LenState
<1>7. MovedState'
  BY <1>2 DEF BulkInv, MovedState
<1> QED
  BY <1>1, <1>3, <1>4, <1>5, <1>6, <1>7 DEF BulkInv

\* len() has all the mutexes: no writer is under way.
LEMMA BeginLenInv ==
  ASSUME BulkInv, NEW r \in Readers, BeginLen(r)
  PROVE  BulkInv'
<1>1. PICK x : x = IF len_dirty THEN [pc |-> "len sum"] ELSE [pc |-> "len end", result |-> len]
  OBVIOUS
<1>2. x \in Tasks /\ x.pc \in {"len sum", "len end"} /\ (x.pc = "len end" => ~len_dirty /\ x.result = len)
  <2>1. CASE len_dirty
    BY <1>1, <2>1 DEF Tasks
  <2>2. CASE ~len_dirty
    BY <1>1, <2>2 DEF Tasks, BulkInv, BulkTypes
  <2> QED
    BY <2>1, <2>2
<1>3. /\ task[r].pc = "len begin" /\ sync_op = NoReader /\ sync_op' = r /\ Become(r, x)
      /\ \A t \in Threads : pc[t] = "idle"
      /\ UNCHANGED <<vars, len, len_dirty, gap>>
  BY <1>1 DEF BeginLen, Writing
<1>4. /\ task'[r] = x /\ \A q \in Readers \ {r} : task'[q] = task[q]
  BY <1>3 DEF Become, BulkInv, BulkTypes
<1>5. \A q \in Readers : sync_op' = q <=> task'[q].pc \in InLen
  BY <1>2, <1>3, <1>4, OneInLen DEF BulkInv, InLen
<1> QED
  BY <1>2, <1>3, <1>5, LenMoves

\* len() gives the mutexes back.
LEMMA EndLenInv ==
  ASSUME BulkInv, NEW r \in Readers, EndLen(r)
  PROVE  BulkInv'
<1>1. Idle \in Tasks /\ Idle.pc = "idle"
  BY DEF Tasks, Idle
<1>2. /\ task[r].pc = "len end" /\ sync_op' = NoReader /\ Become(r, Idle)
      /\ UNCHANGED <<vars, len, len_dirty, gap>>
  BY DEF EndLen
<1>3. sync_op = r
  BY <1>2 DEF BulkInv, LenState, InLen
<1>4. task'[r] = Idle /\ \A q \in Readers \ {r} : task'[q] = task[q]
  BY <1>2 DEF Become, BulkInv, BulkTypes
<1> HIDE DEF Idle
<1>5. \A q \in Readers : sync_op' = q <=> task'[q].pc \in InLen
  BY <1>1, <1>2, <1>3, <1>4, OneInLen, ReadersAssumption DEF BulkInv, InLen
<1> QED
  BY <1>1, <1>2, <1>5, LenMoves

\* The pages that are allocated stay allocated.
LEMMA AllocatePageInv ==
  ASSUME BulkInv, AllocatePage
  PROVE  BulkInv'
<1>1. UNCHANGED <<vars, len, len_dirty, sync_op, task, reads>>
  BY DEF AllocatePage
<1>2. AllInv' /\ PoolState'
  BY <1>1, TableKept DEF BulkInv
<1>3. PICK g \in Nat : gap = g
  BY DEF BulkInv, BulkTypes
<1>4. gap' = g + 1 /\ gap' \in Nat
  BY <1>3 DEF AllocatePage
<1>5. BulkTypes'
  BY <1>1, <1>4 DEF BulkInv, BulkTypes
<1>6. PageState'
  <2> SUFFICES ASSUME NEW e \in Locations \ free PROVE PageOf(e) <= gap'
    BY <1>1 DEF PageState, vars, tableVars
  <2>1. PICK n \in Nat : n = PageOf(e)
    BY PageType
  <2>2. n <= g
    BY <1>3, <2>1 DEF BulkInv, PageState
  <2> QED
    BY <1>4, <2>1, <2>2
<1>7. ASSUME NEW x \in Running' PROVE TaskOK(x)'
  BY <1>1, TaskKept DEF BulkInv, Running
<1>8. LenState'
  <2>1. Zeroing' = Zeroing
    BY <1>1 DEF Zeroing
  <2>2. Balance' = Balance
    BY <1>1, <2>1, AccountKept DEF Balance
  <2>3. Bound' = Bound
    BY <1>1, AccountKept
  <2>4. local_len' = local_len /\ pc' = pc
    BY <1>1 DEF vars, threadVars
  <2> QED
    BY <1>1, <2>1, <2>2, <2>3, <2>4 DEF BulkInv, LenState
<1>9. MovedState'
  BY <1>1 DEF BulkInv, MovedState
<1> QED
  BY <1>2, <1>5, <1>6, <1>7, <1>8, <1>9 DEF BulkInv
-----------------------------------------------------------------------------
\* The counters are added to len, once, while nobody counts anything.
LEMMA StoreLenInv ==
  ASSUME BulkInv, NEW r \in Readers, StoreLen(r)
  PROVE  BulkInv'
<1>1. UNCHANGED vars
  BY DEF StoreLen
<1>2. AllInv' /\ PoolState' /\ PageState'
  BY <1>1, TableKept DEF StoreLen, BulkInv, PageState, vars, tableVars
<1>3. /\ task[r].pc = "len sum" /\ sync_op = r /\ sync_op' = sync_op /\ len_dirty' = FALSE
      /\ gap' = gap /\ task \in [Readers -> Tasks]
  BY DEF StoreLen, BulkInv, BulkTypes, LenState, InLen
<1>4. \A q \in Readers \ {r} : task[q].pc \notin InLen
  BY <1>3, OneInLen DEF BulkInv
<1>5. \A t \in Threads : pc[t] = "idle" /\ Owed(t) = 0
  <2>1. \A t \in Threads : pc[t] = "idle"
    BY <1>3, ReadersAssumption DEF BulkInv, LenState
  <2> QED
    BY <2>1, OwedAnswers DEF BulkInv, AllInv, Inv, ProbeInvariant, ThreadState
<1>6. local_len \in [Threads -> Int]
  BY DEF BulkInv, AllInv, Inv, TypeOK
<1>7. Balance = local_len
  <2>1. Zeroing = {}
    BY <1>3, <1>4 DEF Zeroing, InLen
  <2> QED
    BY <1>5, <1>6, <2>1 DEF Balance
<1>8. PICK n \in Int : n = len + LocalLens
  BY <1>6, TotalType DEF LocalLens, BulkInv, BulkTypes
<1>9. len' = n /\ Cardinality(Bound) = n /\ IsFiniteSet(Bound)
  BY <1>7, <1>8 DEF StoreLen, LocalLens, BulkInv, LenState
<1>10. PICK x : x = [pc |-> "len zero", result |-> n, todo |-> Threads]
  OBVIOUS
<1>11. x \in Tasks /\ x.pc = "len zero" /\ x.result = n /\ x.todo = Threads
  BY <1>10 DEF Tasks, ZeroTasks
<1>12. task'[r] = x
  BY <1>9, <1>10 DEF StoreLen
<1>13. ASSUME NEW q \in Readers \ {r}
       PROVE  /\ task'[q] \in Tasks /\ task'[q].pc = task[q].pc
              /\ task[q].pc # "approx" => task'[q] = task[q]
              /\ task[q].pc = "approx" => task'[q].moved
  <2>1. task'[q] = IF task[q].pc = "approx" THEN [task[q] EXCEPT !.moved = TRUE] ELSE task[q]
    BY DEF StoreLen
  <2>2. PICK s \in Tasks : s = task[q]
    BY <1>3
  <2>3. CASE s.pc = "approx"
    <3>1. s \in ApproxTasks
      BY <2>3, TaskFields
    <3>2. PICK y : y = [s EXCEPT !.moved = TRUE]
      OBVIOUS
    <3>3. y \in ApproxTasks /\ y.pc = "approx" /\ y.moved
      BY <3>1, <3>2 DEF ApproxTasks
    <3> QED
      BY <2>1, <2>2, <2>3, <3>2, <3>3 DEF Tasks
  <2>4. CASE s.pc # "approx"
    BY <2>1, <2>2, <2>4
  <2> QED
    BY <2>3, <2>4
<1>14. task' \in [Readers -> Tasks]
  <2>1. PICK f : f = task'
    OBVIOUS
  <2>2. f = [q \in Readers |-> f[q]]
    BY <2>1 DEF StoreLen
  <2>3. \A q \in Readers : f[q] \in Tasks
    BY <1>11, <1>12, <1>13, <2>1
  <2> QED
    BY <2>1, <2>2, <2>3
<1>15. BulkTypes'
  BY <1>3, <1>9, <1>14 DEF BulkInv, BulkTypes
<1>16. ASSUME NEW y \in Running' PROVE TaskOK(y)'
  <2>1. PICK q \in Readers : y = task'[q]
    BY DEF Running
  <2>2. TaskOK(y)
    <3>1. CASE q = r
      BY <1>11, <1>12, <2>1, <3>1, PlainTask
    <3>2. CASE q # r /\ task[q].pc = "approx"
      BY <1>13, <2>1, <3>2 DEF TaskOK, ApproxOK, IterOK, BatchOK, InIter, InBatch
    <3>3. CASE q # r /\ task[q].pc # "approx"
      BY <1>13, <2>1, <3>3 DEF BulkInv, Running
    <3> QED
      BY <3>1, <3>2, <3>3
  <2> QED
    BY <1>1, <2>2, TaskKept
<1>17. MovedState'
  BY <1>11, <1>12, <1>13 DEF MovedState
<1>18. LenState'
  <2>1. Zeroing' = Threads
    BY <1>11, <1>12 DEF Zeroing
  <2>2. \A q \in Readers : sync_op' = q <=> task'[q].pc \in InLen
    BY <1>3, <1>4, <1>11, <1>12, <1>13 DEF InLen
  <2>3. \A q \in Readers : task'[q].pc \in {"len zero", "len end"} => task'[q].result = len'
    BY <1>4, <1>9, <1>11, <1>12, <1>13 DEF InLen
  <2>4. Bound' = Bound
    BY <1>1, AccountKept
  <2>5. Balance' = [t \in Threads |-> 0]
    BY <2>1 DEF Balance
  <2>6. Total([t \in Threads |-> 0]) = 0
    BY TotalZero
  <2>7. Cardinality(Bound') = len' + Total(Balance')
    BY <1>9, <2>4, <2>5, <2>6
  <2>8. pc' = pc
    BY <1>1 DEF vars, threadVars
  <2>9. Total(Balance)' = Total(Balance')
    BY DEF Total, Units
  <2> QED
    BY <1>3, <1>5, <1>9, <2>1, <2>2, <2>3, <2>4, <2>7, <2>8, <2>9 DEF LenState
<1> QED
  BY <1>2, <1>15, <1>16, <1>17, <1>18 DEF BulkInv

\* A counter that is part of len is set to zero.
LEMMA ZeroLocalLenInv ==
  ASSUME BulkInv, NEW r \in Readers, ZeroLocalLen(r)
  PROVE  BulkInv'
<1>1. UNCHANGED <<tableVars, threadVars, calls, seen, len, len_dirty, sync_op, gap>>
  BY DEF ZeroLocalLen
<1>2. PICK s \in Tasks : s = task[r]
  BY DEF BulkInv, BulkTypes
<1>3. s.pc = "len zero" /\ s \in ZeroTasks /\ s.todo \subseteq Threads /\ s.result \in Int
  BY <1>2, TaskFields DEF ZeroLocalLen, ZeroTasks
<1>4. PICK t \in s.todo :
        /\ local_len' = [local_len EXCEPT ![t] = 0]
        /\ Become(r, IF s.todo \ {t} = {} THEN [pc |-> "len end", result |-> s.result]
                     ELSE [s EXCEPT !.todo = s.todo \ {t}])
  BY <1>2 DEF ZeroLocalLen
<1>5. /\ local_len \in [Threads -> Int] /\ local_len' \in [Threads -> Int]
      /\ local_len'[t] = 0 /\ \A u \in Threads \ {t} : local_len'[u] = local_len[u]
  <2>1. local_len \in [Threads -> Int] /\ t \in Threads
    BY <1>3 DEF BulkInv, AllInv, Inv, TypeOK
  <2>2. local_len' = [local_len EXCEPT ![t] = 0]
    BY <1>4
  <2> QED
    BY <2>1, <2>2
<1>6. AllInv' /\ PoolState' /\ PageState'
  <2>1. Private' = Private
    BY <1>1 DEF Private, tableVars, threadVars
  <2> QED
    BY <1>1, <1>5, <2>1, CountersOnly DEF BulkInv, PoolState, PageState, tableVars, threadVars
<1>7. PICK x : x = IF s.todo \ {t} = {} THEN [pc |-> "len end", result |-> s.result]
                   ELSE [s EXCEPT !.todo = s.todo \ {t}]
  OBVIOUS
<1>8. /\ x \in Tasks /\ x.result = s.result /\ x.pc \in {"len zero", "len end"}
      /\ x.pc = "len zero" => x.todo = s.todo \ {t}
      /\ x.pc = "len end" => s.todo \ {t} = {}
  <2>1. CASE s.todo \ {t} = {}
    BY <1>3, <1>7, <2>1 DEF Tasks
  <2>2. CASE s.todo \ {t} # {}
    <3>1. x = [pc |-> "len zero", result |-> s.result, todo |-> s.todo \ {t}]
      BY <1>3, <1>7, <2>2 DEF ZeroTasks
    <3> QED
      BY <1>3, <3>1 DEF Tasks, ZeroTasks
  <2> QED
    BY <2>1, <2>2
<1>9. /\ task \in [Readers -> Tasks] /\ task' \in [Readers -> Tasks] /\ task'[r] = x
      /\ \A q \in Readers \ {r} : task'[q] = task[q]
  BY <1>4, <1>7, <1>8 DEF Become, BulkInv, BulkTypes
<1>10. BulkTypes'
  BY <1>1, <1>9 DEF BulkInv, BulkTypes
<1>11. sync_op = r /\ \A q \in Readers \ {r} : task[q].pc \notin InLen
  <2>1. sync_op = r
    BY <1>2, <1>3 DEF BulkInv, LenState, InLen
  <2> QED
    BY <2>1, OneInLen DEF BulkInv
<1>12. \A u \in Threads : pc[u] = "idle" /\ Owed(u) = 0 /\ Owed(u)' = Owed(u)
  <2>1. \A u \in Threads : pc[u] = "idle"
    BY <1>11, ReadersAssumption DEF BulkInv, LenState
  <2> QED
    BY <1>1, <2>1, OwedAnswers DEF BulkInv, AllInv, Inv, ProbeInvariant, ThreadState, Owed, threadVars
<1>13. Zeroing = s.todo /\ Zeroing' = s.todo \ {t}
  <2>1. Zeroing = s.todo
    BY <1>2, <1>3, <1>11 DEF Zeroing, InLen
  <2>2. \A q \in Readers : task'[q].pc = "len zero" => q = r
    BY <1>9, <1>11 DEF InLen
  <2>3. Zeroing' = s.todo \ {t}
    BY <1>3, <1>8, <1>9, <2>2 DEF Zeroing
  <2> QED
    BY <2>1, <2>3
<1>14. LenState'
  <2>1. Balance' = Balance
    <3>1. \A u \in Threads : Balance[u] = IF u \in s.todo THEN 0 ELSE local_len[u] + Owed(u)
      BY <1>13 DEF Balance
    <3>2. \A u \in Threads : Balance'[u] = IF u \in s.todo \ {t} THEN 0 ELSE local_len'[u] + Owed(u)'
      BY <1>13 DEF Balance
    <3>3. \A u \in Threads : Balance'[u] = Balance[u]
      <4> SUFFICES ASSUME NEW u \in Threads PROVE Balance'[u] = Balance[u]
        OBVIOUS
      <4>1. CASE u = t
        <5>1. local_len'[t] = 0 /\ Owed(t)' = 0
          BY <1>5, <1>12, <4>1
        <5> QED
          BY <3>1, <3>2, <4>1, <5>1
      <4>2. CASE u # t
        BY <1>5, <1>12, <3>1, <3>2, <4>2
      <4> QED
        BY <4>1, <4>2
    <3> QED
      BY <3>3 DEF Balance
  <2>2. Bound' = Bound
    <3>1. ASSUME NEW k PROVE Binding(k)' = Binding(k)
      BY <1>1 DEF Binding, LiveAt, IsEntry, tableVars
    <3> QED
      BY <3>1 DEF Bound
  <2>3. pc' = pc
    BY <1>1 DEF threadVars
  <2>4. \A q \in Readers : sync_op' = q <=> task'[q].pc \in InLen
    BY <1>1, <1>8, <1>9, <1>11 DEF InLen
  <2>5. ~len_dirty /\ s.result = len
    BY <1>2, <1>3 DEF BulkInv, LenState
  <2>6. \A q \in Readers : task'[q].pc \in {"len zero", "len end"} => task'[q].result = len
    BY <1>8, <1>9, <1>11, <2>5 DEF InLen
  <2>7. \A u \in Threads \ Zeroing' : local_len'[u] = 0
    BY <1>5, <1>13, <2>5 DEF BulkInv, LenState
  <2>8. Total(Balance)' = Total(Balance)
    BY <2>1 DEF Total, Units
  <2> QED
    BY <1>1, <1>12, <2>2, <2>3, <2>4, <2>5, <2>6, <2>7, <2>8 DEF BulkInv, LenState
<1>15. MovedState'
  BY <1>2, <1>3, <1>8, <1>9 DEF BulkInv, MovedState
<1>16. ASSUME NEW y \in Running' PROVE TaskOK(y)'
  <2>1. TaskOK(y)
    BY <1>8, <1>9, PlainTask DEF BulkInv, Running
  <2>2. y.pc = "approx" => y.moved
    BY <1>2, <1>3, <1>8, <1>9 DEF BulkInv, MovedState, Running
  <2>3. ApproxOK(y)'
    BY <2>2 DEF ApproxOK
  <2> QED
    BY <1>1, <2>1, <2>3, ViewKept DEF TaskOK
<1> QED
  BY <1>6, <1>10, <1>14, <1>15, <1>16 DEF BulkInv
-----------------------------------------------------------------------------
\* A writer's step, and what is known of the table before and after it.
Writes ==
  /\ BulkInv /\ WriterStep /\ Next
  /\ AllInv' /\ TableAges /\ PoolState'

\* A writer's step is a step of the table.
LEMMA WriterWrites ==
  ASSUME BulkInv, WriterStep
  PROVE  Writes
<1>1. Next
  BY DEF WriterStep
<1>2. AllInv' /\ TableAges
  BY <1>1, NextSim, NextInv DEF BulkInv, AllInv
<1>3. PoolState'
  BY <1>1, <1>2, PoolStep DEF BulkInv
<1> QED
  BY <1>1, <1>2, <1>3 DEF Writes

\* A writer that does something is in a call before the step or after it.
LEMMA SomeoneWrites ==
  ASSUME Writes
  PROVE  \E t \in Threads : pc[t] # "idle" \/ pc'[t] # "idle"
BY StepKinds DEF Writes, BulkInv, Goes, Ends

\* No writer is under way while len() holds the mutexes.
LEMMA WriterExcludesLen ==
  ASSUME Writes
  PROVE  sync_op = NoReader
<1> SUFFICES ASSUME sync_op # NoReader PROVE FALSE
  OBVIOUS
<1>1. \A t \in Threads : pc[t] = "idle"
  BY DEF Writes, BulkInv, LenState
<1>2. PICK t \in Threads : pc'[t] # "idle"
  BY <1>1, SomeoneWrites
<1> QED
  BY <1>1, <1>2 DEF Writes, WriterStep

\* Entries are handed out from allocated pages.
LEMMA WriterPages ==
  ASSUME Writes
  PROVE  PageState'
<1>1. ASSUME NEW e \in free, e \notin free'
      PROVE  \E t \in Threads : location[t] = 0 /\ location'[t] = e
  <2>1. PICK t \in Threads :
          \/ \E call \in Map!Calls : Call(t, call)
          \/ GetEmptyEntry(t) \/ NoEmptyEntry(t) \/ ReadNode(t) \/ CasNode(t)
          \/ ReadEntry(t) \/ CasValue(t) \/ RereadEntry(t) \/ EndCompareAndSet(t)
          \/ LookupNode(t) \/ LookupEntry(t) \/ TryIncref(t)
          \/ DeleteValue(t) \/ DeleteReread(t) \/ WriteTombstone(t) \/ EndLookup(t)
    BY DEF Writes, Next
  <2>2. CASE GetEmptyEntry(t)
    <3>1. location[t] = 0 /\ location \in [Threads -> {0} \cup Locations]
      BY <2>2 DEF GetEmptyEntry, Writes, BulkInv, AllInv, Inv, TypeOK, ProbeInvariant, ThreadState
    <3>2. location' = [location EXCEPT ![t] = e]
      BY <1>1, <2>2 DEF GetEmptyEntry
    <3> QED
      BY <3>1, <3>2
  <2>3. CASE ~GetEmptyEntry(t)
    <3>1. free \subseteq free'
      BY <2>1, <2>3 DEF Call, NoEmptyEntry, ReadNode, CasNode, ReadEntry, CasValue, RereadEntry,
         EndCompareAndSet, LookupNode, LookupEntry, TryIncref, DeleteValue, DeleteReread,
         WriteTombstone, EndLookup, tableVars
    <3> QED
      BY <1>1, <3>1
  <2> QED
    BY <2>2, <2>3
<1>2. gap' = gap
  BY DEF Writes, WriterStep
<1>3. ASSUME NEW e \in Locations \ free' PROVE PageOf(e) <= gap
  <2>1. CASE e \notin free
    BY <2>1 DEF Writes, BulkInv, PageState
  <2>2. CASE e \in free
    <3>1. PICK t \in Threads : location[t] = 0 /\ location'[t] = e
      BY <1>1, <1>3, <2>2
    <3> QED
      BY <3>1, NodeKinds DEF Writes, WriterStep
  <2> QED
    BY <2>1, <2>2
<1> QED
  BY <1>2, <1>3 DEF PageState

\* What a step means to a reader that has nothing to do with the writers.
LEMMA PlainWatched ==
  ASSUME Writes, NEW r \in Readers, NEW s \in Tasks, s = task[r],
         s.pc \in {"idle", "len begin", "len sum", "len zero", "len end"}
  PROVE  task'[r] = s /\ TaskOK(s)'
<1>1. task'[r] = s
  BY DEF Writes, WriterStep, Watched
<1> QED
  BY <1>1 DEF TaskOK, ApproxOK, IterOK, BatchOK, InIter, InBatch

\* What a step means to an approx_len(): it may miss what is counted meanwhile.
LEMMA ApproxWatched ==
  ASSUME Writes, NEW r \in Readers, NEW s \in Tasks, s = task[r], s.pc = "approx"
  PROVE  \E x \in Tasks : task'[r] = x /\ x.pc = s.pc /\ TaskOK(x)'
<1>1. /\ s \in ApproxTasks /\ s.total \in Int /\ s.counted \in Int /\ s.added \in Nat
      /\ s.removed \in Nat /\ s.todo \subseteq Threads /\ s.moved \in BOOLEAN
  BY TaskFields DEF ApproxTasks
<1>2. ApproxOK(s)
  BY DEF Writes, BulkInv, Running, TaskOK
<1>3. PICK f \in [Threads -> Int], g \in [Threads -> Int] : f = local_len /\ g = local_len'
  BY DEF Writes, BulkInv, AllInv, Inv, TypeOK
<1>4. PICK t \in Threads : /\ \A u \in Threads \ {t} : g[u] = f[u]
                           /\ g[t] - f[t] \in {-1, 0, 1}
  BY <1>3, StepAccounted DEF Writes, BulkInv, LenState, Accounted
<1>5. PICK c \in {-1, 0, 1} : c = g[t] - f[t]
  BY <1>4
<1>6. /\ Total(f) \in Int /\ Total(g) \in Int /\ Total(g) = Total(f) + c
      /\ g[t] \in Int /\ f[t] \in Int /\ c \in Int
  <2>1. Total(f) \in Int /\ Total(g) = Total(f) + g[t] - f[t] /\ g[t] \in Int /\ f[t] \in Int
    BY <1>4, TotalChange
  <2>2. c \in Int
    OBVIOUS
  <2> QED
    BY <1>5, <2>1, <2>2
<1>7. LocalLens' - LocalLens = c
  <2>1. LocalLens = Total(f) /\ LocalLens' = Total(g)
    BY <1>3 DEF LocalLens, Total, Units
  <2> QED
    BY <1>6, <2>1
<1>8. PICK a \in Nat, b \in Nat : /\ a = s.added + (IF c > 0 THEN 1 ELSE 0)
                                  /\ b = s.removed + (IF c < 0 THEN 1 ELSE 0)
  BY <1>1
<1>9. PICK x : x = [s EXCEPT !.added = a, !.removed = b]
  OBVIOUS
<1>10. task'[r] = x
  <2>1. task'[r] = [s EXCEPT !.added = @ + (IF LocalLens' - LocalLens > 0 THEN 1 ELSE 0),
                             !.removed = @ + (IF LocalLens' - LocalLens < 0 THEN 1 ELSE 0)]
    BY DEF Writes, WriterStep, Watched
  <2>2. task'[r] = [s EXCEPT !.added = @ + (IF c > 0 THEN 1 ELSE 0),
                             !.removed = @ + (IF c < 0 THEN 1 ELSE 0)]
    BY <1>7, <2>1
  <2> QED
    BY <1>8, <1>9, <2>2
<1>11. x = [pc |-> "approx", total |-> s.total, todo |-> s.todo, counted |-> s.counted,
            added |-> a, removed |-> b, moved |-> s.moved]
  BY <1>1, <1>9 DEF ApproxTasks
<1>12. /\ x \in ApproxTasks /\ x.pc = "approx" /\ x.total = s.total /\ x.todo = s.todo
       /\ x.counted = s.counted /\ x.added = a /\ x.removed = b /\ x.moved = s.moved
  BY <1>1, <1>11 DEF ApproxTasks
<1>13. PICK L \in [Threads -> Int], M \in [Threads -> Int] :
         /\ L = [u \in Threads |-> IF u \in s.todo THEN f[u] ELSE 0]
         /\ M = [u \in Threads |-> IF u \in s.todo THEN g[u] ELSE 0]
  <2>1. ASSUME NEW h \in [Threads -> Int]
        PROVE  [u \in Threads |-> IF u \in s.todo THEN h[u] ELSE 0] \in [Threads -> Int]
    OBVIOUS
  <2> QED
    BY <2>1, Zenon
<1>14. Left(s.todo) = L /\ Left(x.todo)' = M
  BY <1>3, <1>12, <1>13 DEF Left
<1>15. /\ Total(L) \in Int /\ Total(M) \in Int
       /\ Total(M) = Total(L) + c \/ Total(M) = Total(L)
  <2>1. \A u \in Threads \ {t} : M[u] = L[u]
    BY <1>4, <1>13
  <2>2. Total(L) \in Int /\ Total(M) = Total(L) + M[t] - L[t] /\ M[t] \in Int /\ L[t] \in Int
    BY <2>1, TotalChange
  <2>3. (M[t] = g[t] /\ L[t] = f[t]) \/ (M[t] = 0 /\ L[t] = 0)
    BY <1>13
  <2> QED
    BY <1>5, <1>6, <2>2, <2>3
<1>16. Total(Left(x.todo))' = Total(M)
  BY <1>14 DEF Total, Units
<1>17. ~s.moved => /\ s.counted - b <= s.total + Total(M)
                   /\ s.total + Total(M) <= s.counted + a
  <2> SUFFICES ASSUME ~s.moved
               PROVE  /\ s.counted - b <= s.total + Total(M)
                      /\ s.total + Total(M) <= s.counted + a
    OBVIOUS
  <2>1. /\ s.counted - s.removed <= s.total + Total(L)
        /\ s.total + Total(L) <= s.counted + s.added
    BY <1>2, <1>14 DEF ApproxOK
  <2>2. c = -1 \/ c = 0 \/ c = 1
    OBVIOUS
  <2> QED
    BY <1>1, <1>8, <1>15, <2>1, <2>2
<1>18. ApproxOK(x)'
  BY <1>12, <1>16, <1>17 DEF ApproxOK
<1>19. TaskOK(x)' /\ x \in Tasks
  BY <1>12, <1>18 DEF TaskOK, IterOK, BatchOK, InIter, InBatch, Tasks
<1> QED
  BY <1>10, <1>12, <1>19

\* What a step means to an iterator: it is not alone, and need not return the
\* entries that are deleted.
LEMMA IterWatched ==
  ASSUME Writes, NEW r \in Readers, task[r].pc \in InIter
  PROVE  \E x \in Tasks : task'[r] = x /\ x.pc = task[r].pc /\ TaskOK(x)'
<1>1. PICK s : s = task[r]
  OBVIOUS
<1>2. /\ s \in IterTasks /\ IterOK(s)
      /\ s.partitions \in Nat \ {0} /\ s.position \in Nat /\ s.gap \in Nat
      /\ s.value \in Values \cup {NULL} /\ s.yielded \subseteq Keys \X Values
      /\ s.stable \subseteq Locations /\ s.alone \in BOOLEAN /\ s.pc \in InIter
  BY <1>1, IterTask DEF Writes
<1>3. PICK L : L = Live'
  OBVIOUS
<1>4. PICK b \in BOOLEAN : b = (s.alone /\ \A t \in Threads : pc'[t] = "idle")
  OBVIOUS
<1>5. PICK x : x = [s EXCEPT !.stable = s.stable \cap L, !.alone = b]
  OBVIOUS
<1>6. task'[r] = x
  <2>1. task'[r] = [s EXCEPT !.stable = @ \cap Live',
                             !.alone = @ /\ \A t \in Threads : ~Writing(t)']
    BY <1>1, <1>2 DEF Writes, WriterStep, Watched, InIter
  <2>2. (s.alone /\ \A t \in Threads : ~Writing(t)') = b
    BY <1>4 DEF Writing
  <2> QED
    BY <1>3, <1>5, <2>1, <2>2
<1>7. x = [pc |-> s.pc, partitions |-> s.partitions, position |-> s.position, gap |-> s.gap,
           value |-> s.value, yielded |-> s.yielded, stable |-> s.stable \cap L, alone |-> b]
  BY <1>2, <1>5 DEF IterTasks
<1>8. x \in IterTasks
  BY <1>2, <1>7 DEF IterTasks
<1>9. /\ x.pc = s.pc /\ x.partitions = s.partitions /\ x.position = s.position
      /\ x.gap = s.gap /\ x.value = s.value /\ x.yielded = s.yielded
      /\ x.stable = s.stable \cap L /\ x.alone = b
  BY <1>7
<1>10. ~b
  <2> SUFFICES ASSUME b PROVE FALSE
    OBVIOUS
  <2>1. \A t \in Threads : pc[t] = "idle"
    BY <1>2, <1>4 DEF IterOK
  <2> QED
    BY <1>4, <2>1, SomeoneWrites
<1>11. \A e \in s.stable : entry_key'[e] = entry_key[e]
  BY <1>2, LiveEntries DEF IterOK, Writes, BulkInv, TableAges
<1>12. \A e : SameShare(x, e)' <=> SameShare(s, e)
  BY <1>9 DEF SameShare
<1>13. Before(x)' = {e \in x.stable : e < s.position}
  BY <1>9 DEF Before
<1>14. \A e \in Before(x)' : \E y \in x.yielded : y[1] = entry_key'[e]
  <2> SUFFICES ASSUME NEW e \in x.stable, e < s.position
               PROVE  \E y \in s.yielded : y[1] = entry_key'[e]
    BY <1>9, <1>13
  <2>1. e \in Before(s) /\ entry_key'[e] = entry_key[e]
    BY <1>9, <1>11 DEF Before
  <2> QED
    BY <1>2, <2>1 DEF IterOK
<1>15. IterOK(x)'
  BY <1>2, <1>3, <1>9, <1>10, <1>12, <1>14 DEF IterOK
<1>16. TaskOK(x)' /\ x \in Tasks
  <2>1. \A a \in InIter : a # "approx" /\ a \notin InBatch
    BY DEF InIter, InBatch
  <2> QED
    BY <1>2, <1>8, <1>9, <1>15, <2>1 DEF TaskOK, ApproxOK, BatchOK, Tasks
<1> QED
  BY <1>1, <1>6, <1>9, <1>16

\* What a step means to a batch: its slots only age, and it has seen the new
\* binding.
LEMMA BatchWatched ==
  ASSUME Writes, NEW r \in Readers, task[r].pc \in InBatch
  PROVE  \E x \in Tasks : task'[r] = x /\ x.pc = task[r].pc /\ TaskOK(x)'
<1>1. PICK s \in Tasks : s = task[r]
  BY DEF Writes, BulkInv, BulkTypes
<1>2. s \in BatchTasks /\ BatchOK(s) /\ s.pc \in InBatch
  BY <1>1, TaskFields DEF Writes, BulkInv, Running, TaskOK
<1>3. /\ s.key \in Keys /\ s.todo \subseteq Keys /\ s.distance \in Nat
      /\ s.found \in {0} \cup Locations /\ s.results \in Batches
      /\ s.seen \in [Keys -> SUBSET (Values \cup {NOT_FOUND})]
  BY <1>2 DEF BatchTasks
<1>4. PICK B : B = [k \in Keys |-> s.seen[k] \cup {Binding(k)'}]
  OBVIOUS
<1>5. B \in [Keys -> SUBSET (Values \cup {NOT_FOUND})]
  <2>1. ASSUME NEW k \in Keys PROVE Binding(k)' \in Values \cup {NOT_FOUND}
    <3>1. TypeOK' /\ OneLiveEntryPerKey'
      BY DEF Writes, AllInv, Inv
    <3>2. ASSUME NEW p \in Slots, LiveAt(p, k)' PROVE Binding(k)' \in Values
      <4>1. Binding(k)' = entry_value'[index'[p]]
        BY <3>1, <3>2, BindingLiveNext
      <4> QED
        BY <3>1, <3>2, <4>1 DEF LiveAt, IsEntry, TypeOK
    <3> QED
      BY <3>2, BindingAbsentNext
  <2> QED
    BY <1>3, <1>4, <2>1
<1>6. PICK x : x = [s EXCEPT !.seen = B]
  OBVIOUS
<1>7. task'[r] = x
  <2>1. task'[r] = [s EXCEPT !.seen = [k \in Keys |-> @[k] \cup {Binding(k)'}]]
    BY <1>1, <1>2 DEF Writes, WriterStep, Watched, InBatch
  <2> QED
    BY <1>4, <1>6, <2>1
<1>8. x = [pc |-> s.pc, key |-> s.key, todo |-> s.todo, distance |-> s.distance,
           found |-> s.found, results |-> s.results, seen |-> B]
  BY <1>2, <1>6 DEF BatchTasks
<1>9. x \in BatchTasks
  BY <1>2, <1>3, <1>5, <1>8 DEF BatchTasks
<1>10. /\ x.pc = s.pc /\ x.key = s.key /\ x.todo = s.todo /\ x.distance = s.distance
       /\ x.found = s.found /\ x.results = s.results /\ x.seen = B
  BY <1>8
<1>11. \A k \in Keys : Binding(k)' \in B[k]
  BY <1>4
<1>12. \A k \in DOMAIN s.results :
         k \in s.todo \/ (k = s.key /\ s.pc # "batch end") \/ s.results[k] \in B[k]
  <2>1. \A k \in DOMAIN s.results : k \in Keys
    BY <1>3 DEF Batches
  <2> QED
    BY <1>2, <1>4, <2>1 DEF BatchOK
<1>13. ASSUME s.pc # "batch end", NEW d \in 0..(s.distance - 1)
       PROVE  index'[SlotAt(s.key, d)] # EMPTY /\ ~LiveAt(SlotAt(s.key, d), s.key)'
  <2>1. SlotAt(s.key, d) \in Slots
    BY <1>3, SlotAtType
  <2>2. index[SlotAt(s.key, d)] # EMPTY /\ ~LiveAt(SlotAt(s.key, d), s.key)
    BY <1>2, <1>13 DEF BatchOK
  <2>3. PICK p \in Slots : p = SlotAt(s.key, d)
    BY <2>1
  <2>4. index'[p] # EMPTY /\ ~LiveAt(p, s.key)'
    BY <1>3, <2>2, <2>3, DeadStaysDead DEF Writes, BulkInv, AllInv, Inv
  <2> QED
    BY <2>3, <2>4
<1>14. ASSUME s.pc = "batch entry"
       PROVE  /\ s.found \in Locations \ Private'
              /\ \/ index'[SlotAt(s.key, s.distance)] = s.found
                 \/ /\ index'[SlotAt(s.key, s.distance)] = TOMBSTONE
                    /\ entry_value'[s.found] = NULL
  <2>1. /\ s.found \in Locations \ Private
        /\ \/ index[SlotAt(s.key, s.distance)] = s.found
           \/ index[SlotAt(s.key, s.distance)] = TOMBSTONE /\ entry_value[s.found] = NULL
    BY <1>2, <1>14 DEF BatchOK
  <2>2. PICK p \in Slots : p = SlotAt(s.key, s.distance)
    BY <1>3, SlotAtType
  <2>3. s.found \in Locations \ Private'
    BY <2>1 DEF Writes, TableAges
  <2>4. CASE index[p] = s.found
    BY <2>1, <2>2, <2>3, <2>4, BuriedOnly DEF Writes, BulkInv, IsEntry
  <2>5. CASE index[p] = TOMBSTONE /\ entry_value[s.found] = NULL
    BY <2>1, <2>2, <2>3, <2>5, NodeKinds DEF Writes, TableAges
  <2> QED
    BY <2>1, <2>2, <2>4, <2>5
<1>15. BatchOK(x)'
  <2>1. SlotAt(x.key, x.distance)' = SlotAt(s.key, s.distance)
    BY <1>10 DEF SlotAt
  <2>2. ASSUME s.pc # "batch end", NEW d \in 0..(x.distance - 1)
        PROVE  index'[SlotAt(x.key, d)] # EMPTY /\ ~LiveAt(SlotAt(x.key, d), x.key)'
    BY <1>10, <1>13, <2>2
  <2>3. s.pc = "batch end" => s.todo = {}
    BY <1>2 DEF BatchOK
  <2>4. s.pc # "batch end" => s.distance < Size
    BY <1>2 DEF BatchOK
  <2> QED
    BY <1>10, <1>11, <1>12, <1>14, <2>1, <2>2, <2>3, <2>4 DEF BatchOK
<1>16. TaskOK(x)' /\ x \in Tasks
  <2>1. \A a \in InBatch : a # "approx" /\ a \notin InIter
    BY DEF InIter, InBatch
  <2> QED
    BY <1>2, <1>9, <1>10, <1>15, <2>1 DEF TaskOK, ApproxOK, IterOK, Tasks
<1> QED
  BY <1>1, <1>7, <1>10, <1>16
-----------------------------------------------------------------------------
\* What a step means to any reader.
LEMMA EveryWatched ==
  ASSUME Writes, NEW r \in Readers
  PROVE  \E x \in Tasks : task'[r] = x /\ x.pc = task[r].pc /\ TaskOK(x)'
<1>1. PICK s \in Tasks : s = task[r]
  BY DEF Writes, BulkInv, BulkTypes
<1>2. \/ s.pc \in {"idle", "len begin", "len sum", "len zero", "len end"}
      \/ s.pc = "approx" \/ s.pc \in InIter \/ s.pc \in InBatch
  BY TaskFields
<1>3. CASE s.pc \in {"idle", "len begin", "len sum", "len zero", "len end"}
  BY <1>1, <1>3, PlainWatched
<1>4. CASE s.pc = "approx"
  BY <1>1, <1>4, ApproxWatched
<1>5. CASE s.pc \in InIter
  BY <1>1, <1>5, IterWatched
<1>6. CASE s.pc \in InBatch
  BY <1>1, <1>6, BatchWatched
<1> QED
  BY <1>2, <1>3, <1>4, <1>5, <1>6

\* The writers keep the account.
LEMMA WriterLen ==
  ASSUME Writes
  PROVE  LenState' /\ MovedState'
<1>1. sync_op = NoReader /\ UNCHANGED <<len, sync_op>>
  BY WriterExcludesLen DEF Writes, WriterStep
<1>2. ASSUME NEW q \in Readers PROVE task[q].pc \notin InLen /\ task'[q].pc = task[q].pc
  <2>1. task[q].pc \notin InLen
    BY <1>1, ReadersAssumption DEF Writes, BulkInv, LenState
  <2> QED
    BY <2>1, EveryWatched
<1>3. Zeroing = {} /\ Zeroing' = {}
  BY <1>2 DEF Zeroing, InLen
<1>4. /\ local_len \in [Threads -> Int] /\ local_len' \in [Threads -> Int]
      /\ len \in Int /\ IsFiniteSet(Bound) /\ Cardinality(Bound) \in Nat
      /\ Cardinality(Bound) = len + Total(Balance)
  BY FS_CardinalityType DEF Writes, BulkInv, BulkTypes, AllInv, Inv, TypeOK, LenState
<1>5. PICK f \in [Threads -> Int], g \in [Threads -> Int] :
        /\ f = Balance /\ g = Balance'
        /\ \A t \in Threads : f[t] = local_len[t] + Owed(t) /\ g[t] = local_len'[t] + Owed(t)'
  <2>1. \A t \in Threads : Owed(t) \in Int /\ Owed(t)' \in Int
    BY OwedType DEF Owed
  <2>2. Balance = [t \in Threads |-> local_len[t] + Owed(t)]
    BY <1>3 DEF Balance
  <2>3. Balance' = [t \in Threads |-> local_len'[t] + Owed(t)']
    BY <1>3 DEF Balance
  <2>4. Balance \in [Threads -> Int] /\ Balance' \in [Threads -> Int]
    BY <1>4, <2>1, <2>2, <2>3
  <2>5. \A t \in Threads : /\ Balance[t] = local_len[t] + Owed(t)
                           /\ Balance'[t] = local_len'[t] + Owed(t)'
    BY <2>2, <2>3
  <2> QED
    BY <2>4, <2>5
<1>6. PICK t \in Threads : Accounted(t)
  BY <1>4, StepAccounted DEF Writes, BulkInv
<1>7. /\ IsFiniteSet(Bound') /\ Cardinality(Bound') \in Nat
      /\ Cardinality(Bound') - Cardinality(Bound) = g[t] - f[t]
      /\ \A u \in Threads \ {t} : g[u] = f[u]
  <2>1. IsFiniteSet(Bound') /\ Cardinality(Bound') \in Nat
    BY <1>6, FS_CardinalityType DEF Accounted
  <2>2. Cardinality(Bound') - Cardinality(Bound) = g[t] - f[t]
    <3>1. PICK a \in Int, b \in Int : /\ a = f[t] /\ a = local_len[t] + Owed(t)
                                     /\ b = g[t] /\ b = local_len'[t] + Owed(t)'
      BY <1>5
    <3>2. Cardinality(Bound') - Cardinality(Bound) = b - a
      <4>1. /\ local_len[t] \in Int /\ local_len'[t] \in Int
            /\ Owed(t) \in Int /\ Owed(t)' \in Int
        BY <1>4, OwedType DEF Owed
      <4>2. Cardinality(Bound') - Cardinality(Bound)
              = local_len'[t] + Owed(t)' - (local_len[t] + Owed(t))
        BY <1>6 DEF Accounted
      <4> QED
        BY <1>4, <2>1, <3>1, <4>1, <4>2
    <3> QED
      BY <3>1, <3>2
  <2>3. ASSUME NEW u \in Threads \ {t} PROVE g[u] = f[u]
    BY <1>5, <1>6 DEF Accounted
  <2> QED
    BY <2>1, <2>2, <2>3
<1>8. Total(f) \in Int /\ Total(g) = Total(f) + g[t] - f[t] /\ g[t] \in Int /\ f[t] \in Int
  BY <1>7, TotalChange
<1>9. Cardinality(Bound') = len + Total(g)
  BY <1>4, <1>5, <1>7, <1>8
<1>10. Total(Balance)' = Total(g)
  BY <1>5 DEF Total, Units
<1>11. ~len_dirty' => \A u \in Threads \ Zeroing' : local_len'[u] = 0
  BY <1>3 DEF Writes, WriterStep, BulkInv, LenState
<1>12. \A q \in Readers : /\ sync_op' = q <=> task'[q].pc \in InLen
                          /\ task'[q].pc \notin {"len zero", "len end"}
  BY <1>1, <1>2, ReadersAssumption DEF InLen
<1>13. LenState'
  BY <1>1, <1>7, <1>9, <1>10, <1>11, <1>12 DEF LenState
<1>14. MovedState'
  BY <1>12 DEF MovedState
<1> QED
  BY <1>13, <1>14

\* The writers' steps keep the invariant.
LEMMA WriterStepInv ==
  ASSUME BulkInv, WriterStep
  PROVE  BulkInv'
<1>1. Writes
  BY WriterWrites
<1>2. AllInv' /\ PoolState' /\ PageState' /\ LenState' /\ MovedState'
  BY <1>1, WriterPages, WriterLen DEF Writes
<1>3. task' = [r \in Readers |-> task'[r]]
  BY DEF WriterStep
<1>4. task' \in [Readers -> Tasks]
  <2>1. PICK f : f = task'
    OBVIOUS
  <2>2. \A r \in Readers : f[r] \in Tasks
    BY <1>1, <2>1, EveryWatched
  <2>3. f = [r \in Readers |-> f[r]]
    BY <1>3, <2>1
  <2> QED
    BY <2>1, <2>2, <2>3
<1>5. BulkTypes'
  <2>1. len_dirty' \in BOOLEAN
    BY DEF WriterStep
  <2> QED
    BY <1>4, <2>1 DEF WriterStep, BulkInv, BulkTypes
<1>6. ASSUME NEW y \in Running' PROVE TaskOK(y)'
  <2>1. PICK r \in Readers : y = task'[r]
    BY DEF Running
  <2>2. PICK x \in Tasks : task'[r] = x /\ TaskOK(x)'
    BY <1>1, EveryWatched
  <2>3. y = x
    BY <2>1, <2>2
  <2> QED
    BY <2>2, <2>3
<1> QED
  BY <1>2, <1>5, <1>6 DEF BulkInv
-----------------------------------------------------------------------------
\* The first entry is in the first page.
LEMMA FirstEntry == 1 \in Locations /\ PageOf(1) = 0
<1>1. EntriesInPage \in Nat /\ EntriesInPage > 1 /\ Size \in Nat /\ Size > 1
  BY PageAssumption, SizeAssumption
<1>2. PICK d \in Nat \ {0} : d = EntriesInPage /\ 1 < d
  BY <1>1
<1>3. 1 = d * 0 + 1
  BY <1>2
<1>4. (d * 0 + 1) \div d = 0
  BY <1>2, DivModUnique
<1> QED
  BY <1>1, <1>2, <1>3, <1>4 DEF Locations, PageOf

\* A dictionary that was built with nothing.
LEMMA BuiltEmpty ==
  ASSUME Built({}), InitThreads
  PROVE  /\ AllInv /\ PoolState /\ Bound = {} /\ len = 0
         /\ \A e \in Locations : e \in free
<1>1. InitTable
  BY DEF Built, InitTable
<1>2. AllInv
  BY <1>1, InitSim DEF Init
<1>3. PoolState
  BY <1>1 DEF InitTable, InitThreads, PoolState
<1>4. \A k \in Keys : Binding(k) = NOT_FOUND
  BY <1>1, NodeKinds DEF InitTable, Binding, LiveAt
<1>5. Bound = {} /\ len = 0
  BY <1>4, FS_EmptySet DEF Bound, Built
<1> QED
  BY <1>1, <1>2, <1>3, <1>5 DEF InitTable

\* A dictionary that was built with one key.
LEMMA BuiltWithOne ==
  ASSUME NEW k \in Keys, Built({k}), InitThreads
  PROVE  /\ AllInv /\ PoolState /\ Bound = {k} /\ len = 1
         /\ \A e \in Locations \ {1} : e \in free
<1>1. PICK v \in Values : entry_value = [e \in Locations |-> IF e = 1 THEN v ELSE NULL]
  BY DEF Built
<1>2. /\ index = [p \in Slots |-> IF p = Distance0[k] THEN 1 ELSE EMPTY]
      /\ entry_key = [e \in Locations |-> IF e = 1 THEN k ELSE NULL]
      /\ free = Locations \ {1} /\ len = 1
  <2>1. {k} # {} /\ (CHOOSE j \in {k} : TRUE) = k /\ Cardinality({k}) = 1
    BY FS_Singleton
  <2>2. \A p : (\E j \in {k} : Distance0[j] = p) <=> p = Distance0[k]
    OBVIOUS
  <2> QED
    BY <2>1, <2>2 DEF Built
<1>3. /\ 1 \in Locations /\ Distance0[k] \in Slots /\ EMPTY # 1 /\ v # NULL
      /\ SlotAt(k, 0) = Distance0[k]
  <2>1. Distance0[k] \in 0..(Size - 1)
    BY HashAssumption
  <2>2. PICK n \in Nat : n = Distance0[k] /\ n < Size
    BY <2>1, SizeAssumption
  <2>3. n = Size * 0 + n
    BY <2>2, SizeAssumption
  <2>4. (Size * 0 + n) % Size = n
    BY <2>2, DivModUnique, SizeAssumption
  <2>5. n + 0 = n
    OBVIOUS
  <2>6. SlotAt(k, 0) = Distance0[k]
    BY <2>2, <2>3, <2>4, <2>5 DEF SlotAt
  <2> QED
    BY <2>1, <2>6, FirstEntry, ConstantsDistinct DEF Slots, EMPTY
<1>4. \A p \in Slots : IsEntry(index[p]) <=> p = Distance0[k]
  BY <1>2, <1>3, NodeKinds
<1>5. \A j : \A p \in Slots : LiveAt(p, j) <=> p = Distance0[k] /\ j = k
  BY <1>1, <1>2, <1>3, <1>4 DEF LiveAt
<1>6. TypeOK
  BY <1>1, <1>2, <1>3, EqAssumption, SizeAssumption DEF TypeOK, InitThreads, Labels
<1>7. Private = Locations \ {1}
  BY <1>2 DEF Private, InitThreads
<1>8. Ownership /\ \A t \in Threads : ThreadState(t) /\ ProbeState(t)
  BY <1>2, NodeKinds, SizeAssumption
     DEF Ownership, ThreadState, ProbeState, InitThreads, Inserting, Examining, Locations
<1>9. ASSUME NEW p \in Slots PROVE NodeState(p)
  <2> SUFFICES ASSUME IsEntry(index[p])
               PROVE  /\ index[p] \notin Private /\ entry_key[index[p]] \in Keys
                      /\ \A q \in Slots : index[q] = index[p] => q = p
                      /\ \E d \in 0..(Size - 1) :
                           /\ p = SlotAt(entry_key[index[p]], d)
                           /\ \A c \in 0..(d - 1) : index[SlotAt(entry_key[index[p]], c)] # EMPTY
    BY DEF NodeState
  <2>1. p = Distance0[k] /\ index[p] = 1 /\ entry_key[1] = k
    BY <1>2, <1>3, <1>4
  <2>2. \A q \in Slots : index[q] = 1 => q = p
    BY <1>2, <1>3, <2>1
  <2>3. 0 \in 0..(Size - 1) /\ \A c : c \notin 0..(0 - 1)
    BY SizeAssumption
  <2> QED
    BY <1>3, <1>7, <2>1, <2>2, <2>3
<1>10. OneLiveEntryPerKey
  BY <1>5 DEF OneLiveEntryPerKey
<1>11. BurialInv
  BY DEF BurialInv, OneUndertaker, Burial, InitThreads, Examining
<1>12. \A t \in Threads : LinState(t)
  BY ConstantsDistinct DEF InitThreads, LinState, Matched
<1>13. AllInv
  BY <1>6, <1>8, <1>9, <1>10, <1>11, <1>12 DEF AllInv, Inv, ProbeInvariant
<1>14. PoolState
  <2>1. \A e \in free : entry_value[e] = NULL
    BY <1>1, <1>2
  <2>2. \A e \in Locations \ Private : \E p \in Slots : index[p] = e
    BY <1>2, <1>3, <1>7
  <2> QED
    BY <2>1, <2>2 DEF PoolState, InitThreads
<1>15. Bound = {k}
  <2>1. \A j \in Keys \ {k} : Binding(j) = NOT_FOUND
    BY <1>5, BindingAbsent
  <2>2. Binding(k) = entry_value[index[Distance0[k]]]
    BY <1>3, <1>5, <1>10, BindingLive
  <2>3. Binding(k) = v
    BY <1>1, <1>2, <1>3, <2>2
  <2> QED
    BY <2>1, <2>3, ConstantsDistinct DEF Bound
<1> QED
  BY <1>2, <1>13, <1>14, <1>15

\* The initial states satisfy the invariant.
LEMMA BulkInitInv == BulkInit => BulkInv
<1> SUFFICES ASSUME BulkInit PROVE BulkInv
  OBVIOUS
<1>1. InitThreads /\ len_dirty = FALSE /\ sync_op = NoReader /\ gap = 0
      /\ task = [r \in Readers |-> Idle]
  BY DEF BulkInit
<1>2. /\ AllInv /\ PoolState /\ IsFiniteSet(Bound) /\ len \in Nat /\ Cardinality(Bound) = len
      /\ \A e \in Locations \ {1} : e \in free
  <2>1. CASE Built({})
    BY <1>1, <2>1, BuiltEmpty, FS_EmptySet
  <2>2. ASSUME NEW k \in Keys, Built({k})
        PROVE  /\ AllInv /\ PoolState /\ IsFiniteSet(Bound) /\ len \in Nat
               /\ Cardinality(Bound) = len /\ \A e \in Locations \ {1} : e \in free
    <3>1. /\ AllInv /\ PoolState /\ Bound = {k} /\ len = 1
          /\ \A e \in Locations \ {1} : e \in free
      BY <1>1, <2>2, BuiltWithOne
    <3>2. IsFiniteSet({k}) /\ Cardinality({k}) = 1
      BY FS_Singleton
    <3> QED
      BY <3>1, <3>2
  <2> QED
    BY <2>1, <2>2 DEF BulkInit
<1>3. Idle \in Tasks /\ Idle.pc = "idle"
  BY DEF Idle, Tasks
<1> HIDE DEF Idle
<1>4. BulkTypes
  <2>1. len \in Int /\ gap \in Nat
    BY <1>1, <1>2
  <2>2. task \in [Readers -> Tasks]
    BY <1>1, <1>3
  <2> QED
    BY <1>1, <2>1, <2>2 DEF BulkTypes
<1>5. PageState
  <2> SUFFICES ASSUME NEW e \in Locations \ free PROVE PageOf(e) <= 0
    BY <1>1 DEF PageState
  <2>1. e = 1
    BY <1>2
  <2> QED
    BY <2>1, FirstEntry
<1>6. LenState
  <2>1. Zeroing = {}
    BY <1>1, <1>3 DEF Zeroing
  <2>2. \A t \in Threads : local_len[t] = 0 /\ Owed(t) = 0
    BY <1>1 DEF InitThreads, Owed
  <2>3. Balance \in [Threads -> Int] /\ \A t \in Threads : Balance[t] = 0
    BY <2>1, <2>2 DEF Balance
  <2>4. Total(Balance) = 0
    BY <2>3, TotalZero
  <2>5. Cardinality(Bound) = len + Total(Balance)
    BY <1>2, <2>4
  <2> QED
    BY <1>1, <1>2, <1>3, <2>2, <2>5, ReadersAssumption DEF LenState, InLen
<1>7. MovedState
  BY <1>1, <1>3 DEF MovedState
<1>8. \A s \in Running : TaskOK(s)
  <2>1. TaskOK(Idle)
    BY <1>3, PlainTask
  <2> QED
    BY <1>1, <2>1 DEF Running
<1> QED
  BY <1>2, <1>4, <1>5, <1>6, <1>7, <1>8 DEF BulkInv

\* Every step keeps it.
LEMMA BulkNextInv == BulkInv /\ [BulkNext]_bulkVars => BulkInv'
<1> SUFFICES ASSUME BulkInv, [BulkNext]_bulkVars PROVE BulkInv'
  OBVIOUS
<1>1. CASE WriterStep \/ AllocatePage
  BY <1>1, WriterStepInv, AllocatePageInv
<1>2. ASSUME NEW r \in Readers,
             \/ CallLen(r) \/ BeginLen(r) \/ StoreLen(r) \/ ZeroLocalLen(r) \/ EndLen(r)
             \/ CallApproxLen(r) \/ ReadLocalLen(r)
      PROVE  BulkInv'
  BY <1>2, CallLenInv, BeginLenInv, StoreLenInv, ZeroLocalLenInv, EndLenInv,
     CallApproxLenInv, ReadLocalLenInv
<1>3. ASSUME NEW r \in Readers,
             \/ CallFastIter(r) \/ LoadGap(r) \/ ReadValue(r) \/ ReadKey(r)
             \/ CallBatchGetItem(r) \/ BatchNode(r) \/ BatchEntry(r) \/ Return(r)
      PROVE  BulkInv'
  BY <1>3, CallFastIterInv, LoadGapInv, ReadValueInv, ReadKeyInv,
     CallBatchGetItemInv, BatchNodeInv, BatchEntryInv, ReturnInv
<1>4. CASE UNCHANGED bulkVars
  <2>1. UNCHANGED <<vars, len, len_dirty, sync_op, gap, task>>
    BY <1>4 DEF bulkVars, readVars
  <2>2. AllInv' /\ PoolState'
    BY <2>1, TableKept DEF BulkInv
  <2>3. BulkTypes' /\ PageState' /\ MovedState'
    BY <2>1 DEF BulkInv, BulkTypes, PageState, MovedState, vars, tableVars
  <2>4. LenState'
    <3>1. Zeroing' = Zeroing
      BY <2>1 DEF Zeroing
    <3>2. Balance' = Balance
      BY <2>1, <3>1, AccountKept DEF Balance
    <3>3. Bound' = Bound
      BY <2>1, AccountKept
    <3>4. local_len' = local_len /\ pc' = pc
      BY <2>1 DEF vars, threadVars
    <3> QED
      BY <2>1, <3>1, <3>2, <3>3, <3>4 DEF BulkInv, LenState
  <2>5. \A s \in Running' : TaskOK(s)'
    BY <2>1, TaskKept DEF BulkInv, Running
  <2> QED
    BY <2>2, <2>3, <2>4, <2>5 DEF BulkInv
<1> QED
  BY <1>1, <1>2, <1>3, <1>4 DEF BulkNext
-----------------------------------------------------------------------------
\* When nothing is owed and the counters are zero, len is the number of keys.
LEMMA Settled ==
  ASSUME len \in Int, Zeroing = {}, Cardinality(Bound) = len + Total(Balance),
         \A t \in Threads : Owed(t) = 0 /\ local_len[t] = 0
  PROVE  Cardinality(Bound) = len
<1>1. Balance \in [Threads -> Int] /\ \A t \in Threads : Balance[t] = 0
  BY DEF Balance
<1>2. Total(Balance) = 0
  BY <1>1, TotalZero
<1> QED
  BY <1>2

\* AtomicDict_Len: whatever the threads, the keys, the pages and the
\* interleaving, what len() returns is the number of keys at that moment.
THEOREM LenIsExact == BulkSpec => []LenIsCurrent
<1>1. BulkInv => LenIsCurrent
  <2> SUFFICES ASSUME BulkInv, NEW r \in Readers, task[r].pc = "len end"
               PROVE  task[r].result = Cardinality(Bound)
    BY DEF LenIsCurrent
  <2>1. /\ ~len_dirty /\ task[r].result = len /\ sync_op = r
        /\ Cardinality(Bound) = len + Total(Balance) /\ len \in Int
        /\ \A t \in Threads \ Zeroing : local_len[t] = 0
    BY DEF BulkInv, LenState, InLen, BulkTypes
  <2>2. \A q \in Readers \ {r} : task[q].pc \notin InLen
    BY <2>1, OneInLen DEF BulkInv
  <2>3. Zeroing = {}
    BY <2>2 DEF Zeroing, InLen
  <2>4. \A t \in Threads : Owed(t) = 0 /\ local_len[t] = 0
    <3>1. \A t \in Threads : pc[t] = "idle"
      BY <2>1, ReadersAssumption DEF BulkInv, LenState
    <3> QED
      BY <2>1, <2>3, <3>1, OwedAnswers
         DEF BulkInv, AllInv, Inv, ProbeInvariant, ThreadState
  <2>5. Cardinality(Bound) = len
    BY <2>1, <2>3, <2>4, Settled
  <2> QED
    BY <2>1, <2>5
<1> QED
  BY <1>1, BulkInitInv, BulkNextInv, PTL DEF BulkSpec

\* AtomicDict_ApproxLen: what it misses was counted while it ran, unless a len()
\* was moving the counters.
THEOREM ApproxLenIsBounded == BulkSpec => []ApproxLenIsClose
<1>1. BulkInv => ApproxLenIsClose
  <2> SUFFICES ASSUME BulkInv, NEW r \in Readers, NEW s, s = task[r], s.pc = "approx",
                      s.todo = {}, ~s.moved
               PROVE  s.counted - s.removed <= s.total /\ s.total <= s.counted + s.added
    BY DEF ApproxLenIsClose
  <2>1. s \in ApproxTasks /\ ApproxOK(s)
    BY TaskFields DEF BulkInv, BulkTypes, Running, TaskOK
  <2>2. Left({}) \in [Threads -> Int] /\ \A t \in Threads : Left({})[t] = 0
    BY DEF Left
  <2>3. Total(Left({})) = 0
    BY <2>2, TotalZero
  <2>4. s.total \in Int /\ s.total + Total(Left(s.todo)) = s.total
    BY <2>1, <2>3 DEF ApproxTasks
  <2> QED
    BY <2>1, <2>4 DEF ApproxOK
<1> QED
  BY <1>1, BulkInitInv, BulkNextInv, PTL DEF BulkSpec

\* AtomicDictFastIterator_Next: an iteration that ends has returned every key of
\* its pages that was there all the time, and nothing else when it was alone; it
\* raises only when it was not.
THEOREM IterationsAreComplete == BulkSpec => []IterationIsComplete
<1>1. BulkInv => IterationIsComplete
  <2> SUFFICES ASSUME BulkInv, NEW r \in Readers, NEW s, s = task[r]
               PROVE  /\ s.pc = "iter end" =>
                           /\ \A e \in s.stable : \E y \in s.yielded : y[1] = entry_key[e]
                           /\ s.alone => s.yielded = Pairs(s.stable)
                      /\ s.pc = "iter raised" => ~s.alone
    BY DEF IterationIsComplete, Pairs
  <2>1. s.pc = "iter raised" => ~s.alone
    BY IterTask DEF IterOK, InIter
  <2>2. ASSUME s.pc = "iter end"
        PROVE  /\ \A e \in s.stable : \E y \in s.yielded : y[1] = entry_key[e]
               /\ s.alone => s.yielded = Pairs(s.stable)
    <3>1. s.pc \in InIter /\ s.position \in Nat /\ s.gap \in Nat /\ s.stable \subseteq Locations
      BY <2>2, IterTask DEF InIter
    <3>2. IterOK(s)
      BY <3>1, IterTask
    <3>3. PICK n \in Nat, g \in Nat : n = PageOf(s.position) /\ g = s.gap /\ n > g
      BY <2>2, <3>1, <3>2, PageType DEF IterOK
    <3>4. ASSUME NEW e \in s.stable PROVE e < s.position
      <4>1. PICK m \in Nat : m = PageOf(e) /\ e \in Nat
        BY <3>1, PageType
      <4>2. m <= g
        BY <2>2, <3>1, <3>2, <3>3, <4>1 DEF IterOK
      <4>3. m < n
        BY <3>3, <4>2
      <4> QED
        BY <3>1, <3>3, <4>1, <4>3, PagesInOrder
    <3>5. Before(s) = s.stable
      BY <3>4 DEF Before
    <3> QED
      BY <3>1, <3>2, <3>5 DEF IterOK
  <2> QED
    BY <2>1, <2>2
<1> QED
  BY <1>1, BulkInitInv, BulkNextInv, PTL DEF BulkSpec

\* AtomicDict_BatchGetItem: every value it returns, and every absence, was the
\* key's at some moment of the call.
THEOREM BatchesAreCurrent == BulkSpec => []BatchReadsAreCurrent
<1>1. BulkInv => BatchReadsAreCurrent
  <2> SUFFICES ASSUME BulkInv, NEW r \in Readers, NEW s, s = task[r], s.pc = "batch end",
                      NEW k \in DOMAIN s.results
               PROVE  s.results[k] \in s.seen[k]
    BY DEF BatchReadsAreCurrent
  <2>1. BatchOK(s)
    BY DEF BulkInv, Running, TaskOK
  <2> QED
    BY <2>1 DEF BatchOK, InBatch
<1> QED
  BY <1>1, BulkInitInv, BulkNextInv, PTL DEF BulkSpec
=============================================================================
