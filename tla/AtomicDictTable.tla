-------------------------- MODULE AtomicDictTable --------------------------
(***************************************************************************)
(* One generation of AtomicDict's hash table: the open-addressing index of *)
(* nodes, the entries the nodes point to, and the operations of insert.c,  *)
(* delete.c and lookup.c on them, one action per shared memory access.     *)
(*                                                                         *)
(* A slot of the index holds EMPTY, TOMBSTONE or the location of an entry. *)
(* An entry's key and hash are written before its location is published    *)
(* and never after, so read_entry's loads are one step.  Entries are       *)
(* reserved exclusively (module Reservation) and the table does not move   *)
(* under a writer (module Resize): both are taken for granted here.        *)
(***************************************************************************)
EXTENDS Integers, FiniteSets

CONSTANTS
  Threads, Keys, Values,
  Size,        \* slots of the index, SIZE_OF(meta)
  Distance0,   \* key -> the first slot of its probe sequence
  Tag,         \* key -> the hash bits kept in its node
  Hash,        \* key -> its full hash
  EqCanRaise,  \* may a key's __eq__ raise an exception?
  MaxCalls,    \* bound on the number of calls
  NULL, NOT_FOUND, ANY, EXPECTATION_FAILED, ERROR, MUST_GROW

ASSUME SizeAssumption == Size \in Nat \ {0}
ASSUME HashAssumption ==
  /\ Distance0 \in [Keys -> 0..(Size - 1)]
  /\ Tag \in [Keys -> Nat]
  /\ Hash \in [Keys -> Nat]
  /\ \A j, k \in Keys : Hash[j] = Hash[k] => Tag[j] = Tag[k]
ASSUME EqAssumption == EqCanRaise \in BOOLEAN /\ MaxCalls \in Nat
ASSUME ConstantsDistinct ==
  /\ \A x \in {NULL, NOT_FOUND, ANY, EXPECTATION_FAILED, ERROR, MUST_GROW} :
       x \notin Values
  /\ NULL \notin {NOT_FOUND, ANY, EXPECTATION_FAILED, ERROR, MUST_GROW}
  /\ NOT_FOUND \notin {ANY, EXPECTATION_FAILED, ERROR, MUST_GROW}
  /\ EXPECTATION_FAILED \notin {ERROR, MUST_GROW}
  /\ NULL \notin Keys
  /\ NULL \notin [name : {"cas"}, key : Keys,
                  expected : Values \cup {NOT_FOUND, ANY}, desired : Values]
  /\ NULL \notin [name : {"del", "get"}, key : Keys]

VARIABLES
  index,        \* slot -> EMPTY, TOMBSTONE or an entry's location
  entry_key,    \* location -> key, or NULL
  entry_value,  \* location -> value, or NULL
  free,         \* locations that can still be handed out by get_empty_entry
  calls,        \* how many calls have been made
  local_len,    \* thread -> its accessor's share of len()
  pc,           \* thread -> the access it makes next
  op,           \* thread -> the call it executes, or NULL
  out,          \* thread -> the call's result, or NULL
  distance,     \* thread -> how far it has probed
  location,     \* thread -> the entry it holds for an insertion, or 0
  found,        \* thread -> the entry it is looking at, or 0
  value,        \* thread -> the value it last read there, or NULL
  seen          \* history: thread -> the bindings of its key so far

tableVars == <<index, entry_key, entry_value, free>>
threadVars == <<pc, op, out, distance, location, found, value>>
vars == <<tableVars, threadVars, local_len, calls, seen>>

EMPTY == 0
TOMBSTONE == -1
Slots == 0..(Size - 1)
Locations == 1..(Size - 1)   \* entry 0 is never handed out

MayInsert(t) == op[t].expected \in {NOT_FOUND, ANY}
SlotAt(k, d) == (Distance0[k] + d) % Size   \* the slot of k's probe at distance d
Slot(t) == SlotAt(op[t].key, distance[t])
IsEntry(node) == node \in Locations
CheckTag(node, key) == IsEntry(node) /\ Tag[entry_key[node]] = Tag[key]

\* The bindings the published entries stand for.
LiveAt(p, k) ==
  /\ IsEntry(index[p])
  /\ entry_key[index[p]] = k
  /\ entry_value[index[p]] # NULL
Binding(k) ==
  IF \E p \in Slots : LiveAt(p, k)
  THEN entry_value[index[CHOOSE p \in Slots : LiveAt(p, k)]]
  ELSE NOT_FOUND

Map == INSTANCE AtomicMap WITH
         map <- [k \in Keys |-> Binding(k)],
         Failures <- {ERROR, MUST_GROW}

\* Every pending call on key k sees its new binding v.
Witness(k, v) ==
  seen' = [t \in Threads |->
             IF op[t] # NULL /\ out[t] = NULL /\ op[t].key = k
             THEN seen[t] \cup {v} ELSE seen[t]]

Goto(t, label) == pc' = [pc EXCEPT ![t] = label]
Finish(t, result) ==
  /\ out' = [out EXCEPT ![t] = result]
  /\ Goto(t, "finish")
-----------------------------------------------------------------------------
\* A dictionary that was built empty, ...
InitTable ==
  /\ index = [p \in Slots |-> EMPTY]
  /\ entry_key = [e \in Locations |-> NULL]
  /\ entry_value = [e \in Locations |-> NULL]
  /\ free = Locations

\* ... and the threads that are going to use it.
InitThreads ==
  /\ calls = 0
  /\ local_len = [t \in Threads |-> 0]
  /\ pc = [t \in Threads |-> "idle"]
  /\ op = [t \in Threads |-> NULL]
  /\ out = [t \in Threads |-> NULL]
  /\ distance = [t \in Threads |-> 0]
  /\ location = [t \in Threads |-> 0]
  /\ found = [t \in Threads |-> 0]
  /\ value = [t \in Threads |-> NULL]
  /\ seen = [t \in Threads |-> {}]

Init == InitTable /\ InitThreads

\* AtomicDict_CompareAndSet, AtomicDict_DelItem and AtomicDict_GetItemOrDefault
\* up to their first access to the table; __setitem__ is a "cas" from ANY.
Call(t, call) ==
  /\ pc[t] = "idle"
  /\ calls < MaxCalls
  /\ calls' = calls + 1
  /\ op' = [op EXCEPT ![t] = call]
  /\ seen' = [seen EXCEPT ![t] = {Binding(call.key)}]
  /\ Goto(t, IF call.name # "cas" THEN "lookup"
             ELSE IF call.expected \in {NOT_FOUND, ANY} THEN "get_empty_entry"
             ELSE "read_node")
  /\ UNCHANGED <<tableVars, local_len, out, distance, location, found, value>>

\* Mutant: the entry is filled in with `expected` instead of `desired`.
FillsInExpected(t) ==
  /\ pc[t] = "get_empty_entry"
  /\ \E e \in free :
       /\ free' = free \ {e}
       /\ location' = [location EXCEPT ![t] = e]
       /\ entry_key' = [entry_key EXCEPT ![e] = op[t].key]
       /\ entry_value' = [entry_value EXCEPT ![e] = op[t].expected]
  /\ Goto(t, "read_node")
  /\ UNCHANGED <<calls, index, local_len, op, out, distance, found, value, seen>>

\* A reserved entry is filled in while it is still private to the thread.
GetEmptyEntry(t) ==
  /\ pc[t] = "get_empty_entry"
  /\ \E e \in free :
       /\ free' = free \ {e}
       /\ location' = [location EXCEPT ![t] = e]
       /\ entry_key' = [entry_key EXCEPT ![e] = op[t].key]
       /\ entry_value' = [entry_value EXCEPT ![e] = op[t].desired]
  /\ Goto(t, "read_node")
  /\ UNCHANGED <<calls, index, local_len, op, out, distance, found, value, seen>>

\* get_empty_entry hands out nothing: the thread's buffer is empty and there is
\* no page left to reserve from, or a page could not be allocated.
NoEmptyEntry(t) ==
  /\ pc[t] = "get_empty_entry"
  /\ \E failure \in {MUST_GROW, ERROR} : Finish(t, failure)
  /\ UNCHANGED <<calls, tableVars, local_len, op, distance, location, found, value, seen>>

\* The probe moves to the next slot; it gives up after a whole turn.
Probe(t, label, exhausted) ==
  /\ distance' = [distance EXCEPT ![t] = @ + 1]
  /\ IF distance[t] + 1 >= Size
     THEN Finish(t, exhausted)
     ELSE Goto(t, label) /\ UNCHANGED out

\* expected_insert_or_update: read the node at the current distance.
ReadNode(t) ==
  /\ pc[t] = "read_node"
  /\ LET node == index[Slot(t)] IN
     \/ /\ node = EMPTY
        /\ IF MayInsert(t)
           THEN Goto(t, "cas_node") /\ UNCHANGED out
           ELSE Finish(t, EXPECTATION_FAILED)
        /\ UNCHANGED <<distance, found>>
     \/ /\ node # EMPTY
        /\ ~CheckTag(node, op[t].key)
        /\ Probe(t, "read_node", MUST_GROW)
        /\ UNCHANGED found
     \/ /\ CheckTag(node, op[t].key)
        /\ found' = [found EXCEPT ![t] = node]
        /\ Goto(t, "read_entry")
        /\ UNCHANGED <<distance, out>>
  /\ UNCHANGED <<calls, tableVars, local_len, op, location, value, seen>>

\* Mutant: a slot lost to another thread is passed without looking at its node.
SkipsLostSlot(t) ==
  /\ pc[t] = "cas_node"
  /\ \/ /\ index[Slot(t)] = EMPTY
        /\ index' = [index EXCEPT ![Slot(t)] = location[t]]
        /\ Witness(op[t].key, op[t].desired)
        /\ Finish(t, NOT_FOUND)
        /\ UNCHANGED distance
     \/ /\ index[Slot(t)] # EMPTY
        /\ Probe(t, "read_node", MUST_GROW)
        /\ UNCHANGED <<index, seen>>
  /\ UNCHANGED <<calls, entry_key, entry_value, free, local_len, op, location, found, value>>

\* atomic_write_node_at: publish the entry, or look at the slot's winner.
CasNode(t) ==
  /\ pc[t] = "cas_node"
  /\ \/ /\ index[Slot(t)] = EMPTY
        /\ index' = [index EXCEPT ![Slot(t)] = location[t]]
        /\ Witness(op[t].key, op[t].desired)
        /\ Finish(t, NOT_FOUND)
     \/ /\ index[Slot(t)] # EMPTY
        /\ Goto(t, "read_node")
        /\ UNCHANGED <<index, out, seen>>
  /\ UNCHANGED <<calls, entry_key, entry_value, free, local_len, op, distance,
                 location, found, value>>

\* Mutant: an entry that was deleted meanwhile is given a value again.
RevivesDeleted(t, v) ==
  IF op[t].expected \notin {ANY, v}
  THEN Finish(t, EXPECTATION_FAILED) /\ UNCHANGED <<distance, value>>
  ELSE /\ value' = [value EXCEPT ![t] = v]
       /\ Goto(t, "cas_value")
       /\ UNCHANGED <<out, distance>>

\* What expected_update_entry does with the value v it has just read.
TryUpdate(t, v) ==
  IF op[t].expected \notin {ANY, v}
  THEN Finish(t, EXPECTATION_FAILED) /\ UNCHANGED <<distance, value>>
  ELSE IF v = NULL
  THEN Probe(t, "read_node", MUST_GROW) /\ UNCHANGED value
  ELSE /\ value' = [value EXCEPT ![t] = v]
       /\ Goto(t, "cas_value")
       /\ UNCHANGED <<out, distance>>

\* expected_update_entry: read the entry and compare its key.
ReadEntry(t) ==
  /\ pc[t] = "read_entry"
  /\ LET v == entry_value[found[t]]
         k == entry_key[found[t]]
     IN \/ /\ ~(v # NULL /\ k = op[t].key)
           /\ Probe(t, "read_node", MUST_GROW)
           /\ UNCHANGED value
        \/ /\ v # NULL /\ Hash[k] = Hash[op[t].key] /\ EqCanRaise
           /\ Finish(t, ERROR)
           /\ UNCHANGED <<distance, value>>
        \/ /\ v # NULL /\ k = op[t].key
           /\ TryUpdate(t, v)
  /\ UNCHANGED <<calls, tableVars, local_len, op, location, found, seen>>

\* Mutant: the value is stored, not compared and exchanged.
StoresValue(t) ==
  /\ pc[t] = "cas_value"
  /\ entry_value' = [entry_value EXCEPT ![found[t]] = op[t].desired]
  /\ Witness(op[t].key, op[t].desired)
  /\ Finish(t, value[t])
  /\ UNCHANGED <<calls, index, entry_key, free, local_len, op, distance, location,
                 found, value>>

CasValue(t) ==
  /\ pc[t] = "cas_value"
  /\ \/ /\ entry_value[found[t]] = value[t]
        /\ entry_value' = [entry_value EXCEPT ![found[t]] = op[t].desired]
        /\ Witness(op[t].key, op[t].desired)
        /\ Finish(t, value[t])
     \/ /\ entry_value[found[t]] # value[t]
        /\ Goto(t, "reread_entry")
        /\ UNCHANGED <<entry_value, out, seen>>
  /\ UNCHANGED <<calls, index, entry_key, free, local_len, op, distance, location,
                 found, value>>

RereadEntry(t) ==
  /\ pc[t] = "reread_entry"
  /\ TryUpdate(t, entry_value[found[t]])
  /\ UNCHANGED <<calls, tableVars, local_len, op, location, found, seen>>

\* The end of AtomicDict_CompareAndSet: an entry that was not published is
\* cleared and put back, an insertion is counted.
EndCompareAndSet(t) ==
  /\ pc[t] = "finish"
  /\ op[t].name = "cas"
  /\ LET e == location[t] IN
     IF e # 0 /\ out[t] # NOT_FOUND
     THEN /\ entry_key' = [entry_key EXCEPT ![e] = NULL]
          /\ entry_value' = [entry_value EXCEPT ![e] = NULL]
          /\ free' = free \cup {e}
          /\ UNCHANGED local_len
     ELSE /\ local_len' = [local_len EXCEPT ![t] = @ + (IF e # 0 THEN 1 ELSE 0)]
          /\ UNCHANGED <<entry_key, entry_value, free>>
  /\ Goto(t, "idle")
  /\ op' = [op EXCEPT ![t] = NULL]
  /\ out' = [out EXCEPT ![t] = NULL]
  /\ seen' = [seen EXCEPT ![t] = {}]
  /\ distance' = [distance EXCEPT ![t] = 0]
  /\ location' = [location EXCEPT ![t] = 0]
  /\ found' = [found EXCEPT ![t] = 0]
  /\ value' = [value EXCEPT ![t] = NULL]
  /\ UNCHANGED <<calls, index>>
-----------------------------------------------------------------------------
\* lookup: read the node at the current distance.
LookupNode(t) ==
  /\ pc[t] = "lookup"
  /\ LET node == index[Slot(t)] IN
     \/ /\ node = EMPTY
        /\ Finish(t, NOT_FOUND)
        /\ UNCHANGED <<distance, found>>
     \/ /\ node # EMPTY
        /\ ~CheckTag(node, op[t].key)
        /\ Probe(t, "lookup", NOT_FOUND)
        /\ UNCHANGED found
     \/ /\ CheckTag(node, op[t].key)
        /\ found' = [found EXCEPT ![t] = node]
        /\ Goto(t, "lookup_entry")
        /\ UNCHANGED <<distance, out>>
  /\ UNCHANGED <<calls, tableVars, local_len, op, location, value, seen>>

\* lookup: read the entry and compare its key.
LookupEntry(t) ==
  /\ pc[t] = "lookup_entry"
  /\ LET v == entry_value[found[t]]
         k == entry_key[found[t]]
     IN \/ /\ ~(v # NULL /\ k = op[t].key)
           /\ Probe(t, "lookup", NOT_FOUND)
           /\ UNCHANGED value
        \/ /\ v # NULL /\ Hash[k] = Hash[op[t].key] /\ EqCanRaise
           /\ Finish(t, ERROR)
           /\ UNCHANGED <<distance, value>>
        \/ /\ v # NULL /\ k = op[t].key
           /\ value' = [value EXCEPT ![t] = v]
           /\ Goto(t, IF op[t].name = "get" THEN "try_incref" ELSE "delete")
           /\ UNCHANGED <<distance, out>>
  /\ UNCHANGED <<calls, tableVars, local_len, op, location, found, seen>>

\* AtomicDict_GetItemOrDefault: _Py_TryIncref can fail, and the lookup starts
\* again, only once the entry no longer holds the value.
TryIncref(t) ==
  /\ pc[t] = "try_incref"
  /\ \/ /\ Finish(t, value[t])
        /\ UNCHANGED <<distance, found, value>>
     \/ /\ entry_value[found[t]] # value[t]
        /\ distance' = [distance EXCEPT ![t] = 0]
        /\ found' = [found EXCEPT ![t] = 0]
        /\ value' = [value EXCEPT ![t] = NULL]
        /\ Goto(t, "lookup")
        /\ UNCHANGED out
  /\ UNCHANGED <<calls, tableVars, local_len, op, location, seen>>

\* delete_: the compare-and-exchange of the value with NULL.
DeleteValue(t) ==
  /\ pc[t] = "delete"
  /\ \/ /\ entry_value[found[t]] = value[t]
        /\ entry_value' = [entry_value EXCEPT ![found[t]] = NULL]
        /\ Witness(op[t].key, NOT_FOUND)
        /\ out' = [out EXCEPT ![t] = value[t]]
        /\ Goto(t, "tombstone")
     \/ /\ entry_value[found[t]] # value[t]
        /\ Goto(t, "delete_reread")
        /\ UNCHANGED <<entry_value, out, seen>>
  /\ UNCHANGED <<calls, index, entry_key, free, local_len, op, distance, location,
                 found, value>>

\* Mutant: a deletion that lost to another one deletes the entry again.
DeletesTwice(t) ==
  /\ pc[t] = "delete_reread"
  /\ value' = [value EXCEPT ![t] = entry_value[found[t]]]
  /\ Goto(t, "delete")
  /\ UNCHANGED <<calls, tableVars, local_len, op, out, distance, location, found, seen>>

DeleteReread(t) ==
  /\ pc[t] = "delete_reread"
  /\ LET v == entry_value[found[t]] IN
     IF v = NULL
     THEN Finish(t, NOT_FOUND) /\ UNCHANGED value
     ELSE /\ value' = [value EXCEPT ![t] = v]
          /\ Goto(t, "delete")
          /\ UNCHANGED out
  /\ UNCHANGED <<calls, tableVars, local_len, op, distance, location, found, seen>>

\* Mutant: the entry of a deleted key goes back to the buffer.
ReusesEntry(t) ==
  /\ pc[t] = "tombstone"
  /\ index' = [index EXCEPT ![Slot(t)] = TOMBSTONE]
  /\ free' = free \cup {found[t]}
  /\ Goto(t, "finish")
  /\ UNCHANGED <<calls, entry_key, entry_value, local_len, op, out, distance,
                 location, found, value, seen>>

\* delete_: replace the node by a tombstone.
WriteTombstone(t) ==
  /\ pc[t] = "tombstone"
  /\ index' = IF index[Slot(t)] = found[t]
              THEN [index EXCEPT ![Slot(t)] = TOMBSTONE]
              ELSE index
  /\ Goto(t, "finish")
  /\ UNCHANGED <<calls, entry_key, entry_value, free, local_len, op, out, distance,
                 location, found, value, seen>>

\* The end of AtomicDict_DelItem (a deletion is counted) and of the gets.
EndLookup(t) ==
  /\ pc[t] = "finish"
  /\ op[t].name # "cas"
  /\ local_len' = [local_len EXCEPT ![t] =
                     @ - (IF op[t].name = "del" /\ out[t] \in Values THEN 1 ELSE 0)]
  /\ Goto(t, "idle")
  /\ op' = [op EXCEPT ![t] = NULL]
  /\ out' = [out EXCEPT ![t] = NULL]
  /\ seen' = [seen EXCEPT ![t] = {}]
  /\ distance' = [distance EXCEPT ![t] = 0]
  /\ found' = [found EXCEPT ![t] = 0]
  /\ value' = [value EXCEPT ![t] = NULL]
  /\ UNCHANGED <<calls, tableVars, location>>
-----------------------------------------------------------------------------
Next ==
  \E t \in Threads :
    \/ \E call \in Map!Calls : Call(t, call)
    \/ GetEmptyEntry(t) \/ NoEmptyEntry(t) \/ ReadNode(t) \/ CasNode(t)
    \/ ReadEntry(t) \/ CasValue(t) \/ RereadEntry(t) \/ EndCompareAndSet(t)
    \/ LookupNode(t) \/ LookupEntry(t) \/ TryIncref(t)
    \/ DeleteValue(t) \/ DeleteReread(t) \/ WriteTombstone(t) \/ EndLookup(t)

Spec == Init /\ [][Next]_vars
-----------------------------------------------------------------------------
Labels ==
  {"idle", "get_empty_entry", "read_node", "cas_node", "read_entry", "cas_value",
   "reread_entry", "lookup", "lookup_entry", "try_incref", "delete",
   "delete_reread", "tombstone", "finish"}
Results == Values \cup {NOT_FOUND, EXPECTATION_FAILED, ERROR, MUST_GROW}

\* The variables keep their types (entry locations, thread-local cursors).
TypeOK ==
  /\ index \in [Slots -> Locations \cup {EMPTY, TOMBSTONE}]
  /\ entry_key \in [Locations -> Keys \cup {NULL}]
  /\ entry_value \in [Locations -> Values \cup {NULL}]
  /\ free \subseteq Locations
  /\ calls \in 0..MaxCalls
  /\ local_len \in [Threads -> Int]
  /\ pc \in [Threads -> Labels]
  /\ op \in [Threads -> Map!Calls \cup {NULL}]
  /\ out \in [Threads -> Results \cup {NULL}]
  /\ distance \in [Threads -> 0..Size]
  /\ location \in [Threads -> {0} \cup Locations]
  /\ found \in [Threads -> {0} \cup Locations]
  /\ value \in [Threads -> Values \cup {NULL}]
  /\ seen \in [Threads -> SUBSET (Values \cup {NOT_FOUND})]

\* However inserts of the same key race with each other and with deletions,
\* the index never leads to two live entries with that key
\* (expected_insert_or_update's probe, compare-and-exchange and re-read).
OneLiveEntryPerKey ==
  \A p, q \in Slots, k \in Keys : LiveAt(p, k) /\ LiveAt(q, k) => p = q

\* delete_ asserts that its tombstone is written: nobody else changes the node
\* of an entry whose value this thread has set to NULL.
TombstoneIsWritten ==
  \A t \in Threads : pc[t] = "tombstone" => index[Slot(t)] = found[t]

\* The index always keeps an empty slot, on which every probe, every lookup and
\* the migration of the last cluster (block_wise_migrate) rely to stop.
SomeSlotIsEmpty == \E p \in Slots : index[p] = EMPTY

\* A published entry keeps its key, and once its value is NULL it stays NULL: a
\* lookup may hold a location for as long as it likes, with no lock.
PublishedEntriesAreStable ==
  [][\A p \in Slots : IsEntry(index[p]) =>
       /\ entry_key'[index[p]] = entry_key[index[p]]
       /\ entry_value[index[p]] = NULL => entry_value'[index[p]] = NULL]_vars

\* Entries that no reader can have reached: not handed out, or held by a thread
\* that has not published it.
Private ==
  free \cup {location[t] : t \in {u \in Threads : location[u] # 0 /\ out[u] # NOT_FOUND}}

Inserting == {"read_node", "cas_node", "read_entry", "cas_value", "reread_entry"}
Examining == {"read_entry", "cas_value", "reread_entry", "lookup_entry",
              "try_incref", "delete", "delete_reread", "tombstone"}

\* Each reserved entry has one owner.
Ownership ==
  \A t \in Threads :
    /\ location[t] \notin free
    /\ \A u \in Threads : t # u /\ location[t] # 0 => location[u] # location[t]

\* How the thread's own variables go together.
ThreadState(t) ==
  /\ pc[t] = "idle" <=> op[t] = NULL
  /\ pc[t] \in {"get_empty_entry"} \cup Inserting => op[t].name = "cas"
  /\ pc[t] \in {"idle", "get_empty_entry"} \cup Inserting => out[t] = NULL
  /\ pc[t] \in {"idle", "get_empty_entry"} => distance[t] = 0 /\ location[t] = 0
  /\ pc[t] = "cas_node" => location[t] # 0
  /\ pc[t] \in Inserting /\ MayInsert(t) => location[t] # 0
  /\ pc[t] \in Examining => found[t] \in Locations \ Private
  /\ pc[t] = "cas_value" => value[t] # NULL
  /\ pc[t] # "finish" => distance[t] < Size
  /\ location[t] # 0 => pc[t] \in Inserting \cup {"finish"} /\ op[t].name = "cas"
  /\ location[t] # 0 /\ out[t] # NOT_FOUND => entry_key[location[t]] = op[t].key

\* An inserting thread has left behind it no empty slot and no live entry of
\* its key, and the node it examines can only have been buried meanwhile.
ProbeState(t) ==
  pc[t] \in Inserting =>
    /\ \A d \in 0..(distance[t] - 1) :
         /\ index[SlotAt(op[t].key, d)] # EMPTY
         /\ ~LiveAt(SlotAt(op[t].key, d), op[t].key)
    /\ pc[t] \in Examining => index[Slot(t)] \in {found[t], TOMBSTONE}

\* A node points to an entry of its own that is no longer private, and no slot
\* of the probe sequence that led to it is empty.
NodeState(p) ==
  IsEntry(index[p]) =>
    /\ index[p] \notin Private
    /\ entry_key[index[p]] \in Keys
    /\ \A q \in Slots : index[q] = index[p] => q = p
    /\ \E d \in 0..(Size - 1) :
         /\ p = SlotAt(entry_key[index[p]], d)
         /\ \A c \in 0..(d - 1) : index[SlotAt(entry_key[index[p]], c)] # EMPTY

\* The strengthening that makes OneLiveEntryPerKey inductive: who owns an entry
\* (get_empty_entry), and what expected_insert_or_update knows about the slots
\* it has already passed.
ProbeInvariant ==
  /\ Ownership
  /\ \A t \in Threads : ThreadState(t) /\ ProbeState(t)
  /\ \A p \in Slots : NodeState(p)

\* Every call is atomic: the table implements the abstract map.
Linearizable == Map!Spec
=============================================================================
