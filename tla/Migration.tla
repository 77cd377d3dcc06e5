----------------------------- MODULE Migration -----------------------------
(***************************************************************************)
(* How resize.c copies the nodes of an index to one of twice the size,     *)
(* block by block and by several threads at once, with no synchronisation  *)
(* between blocks.                                                         *)
(*                                                                         *)
(* Who migrates a block does not matter here (module Resize), so each      *)
(* block is a process.  The memory of the new index is not initialised: a  *)
(* block's thread first clears the slots it is going to use.  A hash is    *)
(* reduced to its log_size + 1 most significant bits, which are a slot of  *)
(* the new index.                                                          *)
(***************************************************************************)
EXTENDS Integers, FiniteSets, FiniteSetsExt

CONSTANTS
  Size,        \* slots of the old index
  BlockSize,   \* ATOMIC_DICT_BLOCKWISE_MIGRATE_SIZE, divides Size
  MaxDistance, \* UINT8_MAX: what a node can say of its distance
  EMPTY, TOMBSTONE, GARBAGE

ASSUME MigrationAssumption ==
  /\ Size \in Nat \ {0} /\ BlockSize \in Nat \ {0} /\ MaxDistance \in Nat
  /\ Size % BlockSize = 0

VARIABLES
  old,    \* slot -> node of the index to migrate, which no thread writes to
  new,    \* slot -> node of the new index
  pc,     \* block -> what its thread does next
  i,      \* block -> the old slot it looks at; it goes on past the end of old
  count   \* block -> migrated_count

vars == <<old, new, pc, i, count>>

Slots == 0..(Size - 1)
NewSlots == 0..(2 * Size - 1)
BlocksOf == {s \in Slots : s % BlockSize = 0}   \* a block is named by its first slot
EndOf(b) == b + BlockSize

\* Both indexes are circular.
OldSlot(s) == s % Size
NewSlot(s) == s % (2 * Size)

Cap(d) == IF d > MaxDistance THEN MaxDistance ELSE d
\* The node of the key in old slot id, distance slots from where its hash says.
Node(id, hash, distance) == [id |-> id, hash |-> hash, distance |-> Cap(distance)]
IsNode(n) == n \notin {EMPTY, TOMBSTONE, GARBAGE}
OldNode(s) == old[OldSlot(s)]
Empties(from, to) == {s \in from..to : OldNode(s) = EMPTY}

ASSUME SlotsAssumption ==
  /\ EMPTY # TOMBSTONE /\ EMPTY # GARBAGE
  /\ {EMPTY, TOMBSTONE, GARBAGE} \cap NewSlots = {}
  /\ \A s \in Slots, h \in NewSlots, d \in 0..MaxDistance :
       IsNode([id |-> s, hash |-> h, distance |-> d])
-----------------------------------------------------------------------------
\* The indexes that inserts and deletes can build: there is an empty slot, and
\* none on the way from the slot a node's hash chooses to the node.
Reachable(hashes) ==
  /\ \E s \in Slots : hashes[s] = EMPTY
  /\ \A s \in Slots : hashes[s] \in NewSlots =>
       \A d \in 0..(OldSlot(s - (hashes[s] \div 2))) : hashes[OldSlot(s - d)] # EMPTY

Init ==
  /\ \E hashes \in [Slots -> NewSlots \cup {EMPTY, TOMBSTONE}] :
       /\ Reachable(hashes)
       /\ old = [s \in Slots |->
                   IF hashes[s] \in NewSlots
                   THEN Node(s, hashes[s], OldSlot(s - (hashes[s] \div 2)))
                   ELSE hashes[s]]
  /\ new = [s \in NewSlots |-> GARBAGE]
  /\ pc = [b \in BlocksOf |-> "start"]
  /\ i = [b \in BlocksOf |-> b]
  /\ count = [b \in BlocksOf |-> 0]

\* Mutant: one old slot too few is cleared.
ClearsLess(start, end) ==
  LET cleared == {NewSlot(s) : s \in (2 * start)..(2 * end - 1)}
  IN [s \in NewSlots |-> IF s \in cleared THEN EMPTY ELSE new[s]]

\* initialize_in_new_meta: clear what old slots [start, end] map to.
Clear(start, end) ==
  LET cleared == {NewSlot(s) : s \in (2 * start)..(2 * (end + 1) - 1)}
  IN [s \in NewSlots |-> IF s \in cleared THEN EMPTY ELSE new[s]]

\* Mutant: the hash bit that the larger index needs is left out.
DropsHashBit(n, s) == NewSlot(2 * (s - n.distance))

\* migrate_node_d0: the slot the hash chooses in the new index, computed without
\* the hash (which is in the entry) as long as the node knows its distance.
NewD0(n, s) ==
  IF n.distance < MaxDistance
  THEN NewSlot(2 * (s - n.distance) + (n.hash % 2))
  ELSE n.hash

\* The distances at which migrate_node finds an empty slot.
FreeDistances(n, s) ==
  {d \in 0..(2 * Size - 1) : new[NewSlot(NewD0(n, s) + d)] = EMPTY}

\* migrate_node: write the node to the first empty slot.
MigrateNode(b, s) ==
  LET n == OldNode(s) IN
  IF IsNode(n)
  THEN /\ count' = [count EXCEPT ![b] = @ + 1]
       /\ new' = IF FreeDistances(n, s) = {} THEN new
                 ELSE LET d == Min(FreeDistances(n, s)) IN
                      [new EXCEPT ![NewSlot(NewD0(n, s) + d)] = Node(n.id, n.hash, d)]
  ELSE UNCHANGED <<new, count>>

\* block_wise_migrate: skip to the first empty slot of the block.  The nodes
\* before it belong to the thread that migrates the previous block.
Start(b) ==
  /\ pc[b] = "start"
  /\ LET empties == Empties(b, EndOf(b) - 1) IN
     \/ /\ empties = {}
        /\ pc' = [pc EXCEPT ![b] = "done"]
        /\ UNCHANGED <<new, i>>
     \/ /\ empties # {}
        /\ new' = Clear(Min(empties), EndOf(b))
        /\ i' = [i EXCEPT ![b] = Min(empties)]
        /\ pc' = [pc EXCEPT ![b] = "block"]
  /\ UNCHANGED <<old, count>>

MigrateBlock(b) ==
  /\ pc[b] = "block"
  /\ i[b] < EndOf(b)
  /\ MigrateNode(b, i[b])
  /\ i' = [i EXCEPT ![b] = @ + 1]
  /\ UNCHANGED <<old, pc>>

\* The cluster at the end of the block goes on in the next ones, up to the first
\* empty slot j.
EndBlock(b) ==
  /\ pc[b] = "block"
  /\ i[b] = EndOf(b)
  /\ LET j == Min(Empties(EndOf(b), EndOf(b) + Size - 1)) IN
     \/ /\ j = EndOf(b)
        /\ pc' = [pc EXCEPT ![b] = "done"]
        /\ UNCHANGED new
     \/ /\ j > EndOf(b)
        /\ new' = Clear(EndOf(b), j - 1)
        /\ pc' = [pc EXCEPT ![b] = "tail"]
  /\ UNCHANGED <<old, i, count>>

\* Mutant: the end of the cluster is not noticed.
TailNeverEnds(b) ==
  /\ pc[b] = "tail"
  /\ OldNode(i[b]) # EMPTY
  /\ MigrateNode(b, i[b])
  /\ i' = [i EXCEPT ![b] = @ + 1]
  /\ UNCHANGED <<old, pc>>

MigrateTail(b) ==
  /\ pc[b] = "tail"
  /\ \/ /\ OldNode(i[b]) = EMPTY
        /\ pc' = [pc EXCEPT ![b] = "done"]
        /\ UNCHANGED <<new, i, count>>
     \/ /\ OldNode(i[b]) # EMPTY
        /\ MigrateNode(b, i[b])
        /\ i' = [i EXCEPT ![b] = @ + 1]
        /\ UNCHANGED pc
  /\ UNCHANGED old

Next ==
  \E b \in BlocksOf : Start(b) \/ MigrateBlock(b) \/ EndBlock(b) \/ MigrateTail(b)

\* A thread that has claimed a block goes on with it.
Spec == Init /\ [][Next]_vars /\ WF_vars(Next)
-----------------------------------------------------------------------------
AllDone == \A b \in BlocksOf : pc[b] = "done"
Position(id) == {s \in NewSlots : IsNode(new[s]) /\ new[s].id = id}
\* One element for each node that a block's thread has counted.
Counted == UNION {{b} \X (1..count[b]) : b \in BlocksOf}

\* The variables keep their types.
TypeOK ==
  /\ \A s \in NewSlots : IsNode(new[s]) => new[s].id \in Slots /\ new[s].distance \in 0..MaxDistance
  /\ pc \in [BlocksOf -> {"start", "block", "tail", "done"}]
  /\ i \in [BlocksOf -> 0..(2 * Size)]
  /\ count \in [BlocksOf -> 0..Size]

\* The new index holds each node of the old one once and nothing else: no node
\* is lost to another thread's clearing, no slot is left uninitialised and no
\* tombstone is copied.  What the threads have counted, for the debug build's
\* assertion in block_wise_migrate and for the new generation, is right, too.
MigrationIsComplete ==
  /\ TypeOK
  /\ AllDone =>
       /\ \A s \in Slots : IsNode(old[s]) => Cardinality(Position(s)) = 1
       /\ \A s \in NewSlots : new[s] = EMPTY \/ IsNode(new[s])
       /\ Cardinality(Counted) = Cardinality({s \in Slots : IsNode(old[s])})

\* A lookup in the new index finds each key that has been migrated: no empty slot
\* on its way, and the node's distance is right as far as it goes.
MigratedAreFindable ==
  AllDone =>
    \A s \in NewSlots : IsNode(new[s]) =>
      LET d == NewSlot(s - new[s].hash) IN
      /\ \A c \in 0..d : new[NewSlot(new[s].hash + c)] # EMPTY
      /\ new[s].distance = Cap(d)

\* Each block's thread stops at an empty slot.
MigrationEnds == <>AllDone
=============================================================================
