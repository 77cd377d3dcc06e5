------------------------------- MODULE Resize -------------------------------
(***************************************************************************)
(* How AtomicDict's table is replaced by one of twice the size while other *)
(* threads keep calling it: resize.c, and the accessor list and locks of   *)
(* accessor_storage.c.                                                     *)
(*                                                                         *)
(* Every table (AtomicDictMeta) is named by its generation.  A writer      *)
(* works on a table while it holds its own accessor's self_mutex.  The     *)
(* thread that wins resize_leader locks everybody out, prepares the new    *)
(* table, and migrates the index together with the threads it locked out:  *)
(* they claim blocks of nodes one after the other.  What migrating a block *)
(* does to the index is not modelled here.                                 *)
(***************************************************************************)
EXTENDS Integers, Sequences, Functions

CONSTANTS
  Threads,
  Blocks,         \* blocks of the index to migrate
  MaxGeneration,  \* bound on the number of tables
  MaxCalls,       \* bound on the number of calls
  CanFail,        \* may allocating a new table fail?
  NULL

ASSUME ResizeAssumption ==
  /\ Blocks \in Nat \ {0}
  /\ MaxGeneration \in Nat \ {0}
  /\ MaxCalls \in Nat
  /\ CanFail \in BOOLEAN
  /\ NULL \notin Threads

VARIABLES
  metadata,            \* the generation in use
  resize_leader,       \* generation -> thread that replaces it, or NULL
  new_metadata_ready,  \* generation -> has the event been set?
  node_migration_done, \* generation -> has the event been set?
  resize_done,         \* generation -> has the event been set?
  participants,        \* generation -> one of 0, 1, 2 for each accessor
  node_to_migrate,     \* generation -> the next block to claim
  migrated,            \* generation -> block -> the thread that migrated it, or NULL
  accessors,           \* the list of threads that have an accessor
  sync_op, accessors_lock, self_mutex,   \* who holds each mutex, or NULL
  calls,               \* how many calls have been made
  pc,                  \* thread -> what it does next
  job,                 \* thread -> "write", "grow", "lead" or "len"
  meta,                \* thread -> the generation it works with
  cursor,              \* thread -> its place in a loop over the accessors
  block                \* thread -> the block it migrates

tableVars == <<metadata, resize_leader, new_metadata_ready, node_migration_done,
               resize_done, participants, node_to_migrate, migrated>>
locks == <<sync_op, accessors_lock, self_mutex>>
vars == <<tableVars, accessors, locks, calls, pc, job, meta, cursor, block>>

Generations == 1..MaxGeneration
Set(event, g) == [event EXCEPT ![g] = TRUE]
Goto(t, label) == pc' = [pc EXCEPT ![t] = label]
LeaveLoop(t, label) == Goto(t, label) /\ cursor' = [cursor EXCEPT ![t] = 1]
Advance(t) == cursor' = [cursor EXCEPT ![t] = @ + 1]
-----------------------------------------------------------------------------
Init ==
  /\ metadata = 1
  /\ resize_leader = [g \in Generations |-> NULL]
  /\ new_metadata_ready = [g \in Generations |-> FALSE]
  /\ node_migration_done = [g \in Generations |-> FALSE]
  /\ resize_done = [g \in Generations |-> FALSE]
  /\ participants = [g \in Generations |-> <<>>]
  /\ node_to_migrate = [g \in Generations |-> 0]
  /\ migrated = [g \in Generations |-> [b \in 0..(Blocks - 1) |-> NULL]]
  /\ \E creator \in Threads : accessors = <<creator>>
  /\ sync_op = NULL /\ accessors_lock = NULL
  /\ self_mutex = [t \in Threads |-> NULL]
  /\ calls = 0
  /\ pc = [t \in Threads |-> "idle"]
  /\ job = [t \in Threads |-> "write"]
  /\ meta = [t \in Threads |-> 1]
  /\ cursor = [t \in Threads |-> 1]
  /\ block = [t \in Threads |-> 0]

\* AtomicDict_CompareAndSet or AtomicDict_DelItem begins; AtomicDict_Len begins.
StartWrite(t) ==
  /\ pc[t] = "idle"
  /\ calls < MaxCalls
  /\ calls' = calls + 1
  /\ job' = [job EXCEPT ![t] = "write"]
  /\ Goto(t, IF t \in Range(accessors) THEN "get_meta" ELSE "register")
  /\ UNCHANGED <<tableVars, accessors, locks, meta, cursor, block>>

StartLen(t) ==
  /\ pc[t] = "idle"
  /\ calls < MaxCalls
  /\ calls' = calls + 1
  /\ job' = [job EXCEPT ![t] = "len"]
  /\ Goto(t, "lock_sync_op")
  /\ UNCHANGED <<tableVars, accessors, locks, meta, cursor, block>>

\* get_or_create_accessor_storage, under accessors_lock.
Register(t) ==
  /\ pc[t] = "register"
  /\ accessors_lock = NULL
  /\ accessors' = Append(accessors, t)
  /\ Goto(t, "get_meta")
  /\ UNCHANGED <<calls, tableVars, locks, job, meta, cursor, block>>

GetMeta(t) ==
  /\ pc[t] = "get_meta"
  /\ meta' = [meta EXCEPT ![t] = metadata]
  /\ Goto(t, "try_lock")
  /\ UNCHANGED <<calls, tableVars, accessors, locks, job, cursor, block>>

\* lock_accessor_storage_or_help_resize.
TryLock(t) ==
  /\ pc[t] = "try_lock"
  /\ \/ /\ self_mutex[t] = NULL
        /\ self_mutex' = [self_mutex EXCEPT ![t] = t]
        /\ Goto(t, "check")
     \/ /\ self_mutex[t] # NULL
        /\ Goto(t, "help")
        /\ UNCHANGED self_mutex
  /\ UNCHANGED <<calls, tableVars, accessors, sync_op, accessors_lock, job, meta, cursor, block>>

Help(t) ==
  /\ pc[t] = "help"
  /\ Goto(t, IF resize_leader[meta[t]] = NULL THEN "lock" ELSE "follow")
  /\ UNCHANGED <<calls, tableVars, accessors, locks, job, meta, cursor, block>>

Lock(t) ==
  /\ pc[t] = "lock"
  /\ self_mutex[t] = NULL
  /\ self_mutex' = [self_mutex EXCEPT ![t] = t]
  /\ Goto(t, "check")
  /\ UNCHANGED <<calls, tableVars, accessors, sync_op, accessors_lock, job, meta, cursor, block>>

\* Mutant: resize_leader is not looked at again once the mutex is held.
ChecksNothing(t) ==
  /\ pc[t] = "check"
  /\ Goto(t, "critical")
  /\ UNCHANGED <<calls, tableVars, accessors, locks, job, meta, cursor, block>>

\* maybe_help_resize with the mutex held.
Check(t) ==
  /\ pc[t] = "check"
  /\ \/ /\ resize_leader[meta[t]] = NULL
        /\ Goto(t, "critical")
        /\ UNCHANGED self_mutex
     \/ /\ resize_leader[meta[t]] # NULL
        /\ self_mutex' = [self_mutex EXCEPT ![t] = NULL]
        /\ Goto(t, "follow")
  /\ UNCHANGED <<calls, tableVars, accessors, sync_op, accessors_lock, job, meta, cursor, block>>

\* The operation on the table is over: return, or grow first.
Unlock(t) ==
  /\ pc[t] = "critical"
  /\ self_mutex' = [self_mutex EXCEPT ![t] = NULL]
  /\ \/ Goto(t, "idle") /\ UNCHANGED job
     \/ Goto(t, "grow") /\ job' = [job EXCEPT ![t] = "grow"]
  /\ UNCHANGED <<calls, tableVars, accessors, sync_op, accessors_lock, meta, cursor, block>>

\* grow: by the time the table is read again, another thread may have grown it;
\* this thread grows it once more.
GrowGetMeta(t) ==
  /\ pc[t] = "grow"
  /\ meta' = [meta EXCEPT ![t] = metadata]
  /\ Goto(t, IF metadata < MaxGeneration THEN "resize" ELSE "idle")
  /\ UNCHANGED <<calls, tableVars, accessors, locks, job, cursor, block>>

\* resize: compete for the leadership.
CasLeader(t) ==
  /\ pc[t] = "resize"
  /\ \/ /\ resize_leader[meta[t]] = NULL
        /\ resize_leader' = [resize_leader EXCEPT ![meta[t]] = t]
        /\ job' = [job EXCEPT ![t] = "lead"]
        /\ Goto(t, "new_meta")
     \/ /\ resize_leader[meta[t]] # NULL
        /\ Goto(t, "follow")
        /\ UNCHANGED <<resize_leader, job>>
  /\ UNCHANGED <<calls, metadata, new_metadata_ready, node_migration_done, resize_done,
                 participants, node_to_migrate, migrated, accessors, locks, meta,
                 cursor, block>>
-----------------------------------------------------------------------------
\* leader_resize: AtomicDictMeta_New, before any lock is taken.
NewMeta(t) ==
  /\ pc[t] = "new_meta"
  /\ \/ Goto(t, "lock_sync_op")
     \/ CanFail /\ Goto(t, "fail_resize_done")
  /\ UNCHANGED <<calls, tableVars, accessors, locks, job, meta, cursor, block>>

\* begin_synchronous_operation.
LockSyncOp(t) ==
  /\ pc[t] = "lock_sync_op"
  /\ sync_op = NULL
  /\ sync_op' = t
  /\ Goto(t, "lock_accessors")
  /\ UNCHANGED <<calls, tableVars, accessors, accessors_lock, self_mutex, job, meta, cursor, block>>

LockAccessors(t) ==
  /\ pc[t] = "lock_accessors"
  /\ accessors_lock = NULL
  /\ accessors_lock' = t
  /\ Goto(t, "lock_mutexes")
  /\ UNCHANGED <<calls, tableVars, accessors, sync_op, self_mutex, job, meta, cursor, block>>

LockMutexes(t) ==
  /\ pc[t] = "lock_mutexes"
  /\ \/ /\ cursor[t] <= Len(accessors)
        /\ self_mutex[accessors[cursor[t]]] = NULL
        /\ self_mutex' = [self_mutex EXCEPT ![accessors[cursor[t]]] = t]
        /\ Advance(t)
        /\ UNCHANGED pc
     \/ /\ cursor[t] > Len(accessors)
        /\ LeaveLoop(t, IF job[t] = "len" THEN "unlock_sync_op" ELSE "prepare")
        /\ UNCHANGED self_mutex
  /\ UNCHANGED <<calls, tableVars, accessors, sync_op, accessors_lock, job, meta, block>>

\* leader_resize: copy the pages, one participant per accessor.
Prepare(t) ==
  /\ pc[t] = "prepare"
  /\ \/ /\ participants' = [participants EXCEPT ![meta[t]] =
                              [i \in 1..Len(accessors) |-> 0]]
        /\ Goto(t, "ready")
     \/ /\ CanFail
        /\ Goto(t, "unlock_sync_op")
        /\ UNCHANGED participants
  /\ UNCHANGED <<calls, metadata, resize_leader, new_metadata_ready, node_migration_done,
                 resize_done, node_to_migrate, migrated, accessors, locks, job,
                 meta, cursor, block>>

\* Mutant: the followers are not told that the new table is ready.
KeepsFollowersWaiting(t) ==
  /\ pc[t] = "ready"
  /\ Goto(t, "common")
  /\ UNCHANGED <<calls, tableVars, accessors, locks, job, meta, cursor, block>>

SetReady(t) ==
  /\ pc[t] = "ready"
  /\ new_metadata_ready' = Set(new_metadata_ready, meta[t])
  /\ Goto(t, "common")
  /\ UNCHANGED <<calls, metadata, resize_leader, node_migration_done, resize_done,
                 participants, node_to_migrate, migrated, accessors, locks, job,
                 meta, cursor, block>>

\* follower_resize.
Follow(t) ==
  /\ pc[t] = "follow"
  /\ new_metadata_ready[meta[t]]
  /\ Goto(t, "common")
  /\ UNCHANGED <<calls, tableVars, accessors, locks, job, meta, cursor, block>>
-----------------------------------------------------------------------------
\* common_resize, run by the leader and by the followers.
Accessor(t) == CHOOSE i \in 1..Len(accessors) : accessors[i] = t
AfterCommon(t) == IF job[t] = "lead" THEN "swap" ELSE "wait_resized"

\* Mutant: a thread takes part in a migration that is already over.
ParticipatesLate(t) ==
  /\ pc[t] = "common"
  /\ Goto(t, "participate")
  /\ UNCHANGED <<calls, tableVars, accessors, locks, job, meta, cursor, block>>

CommonResize(t) ==
  /\ pc[t] = "common"
  /\ Goto(t, IF node_migration_done[meta[t]] THEN AfterCommon(t) ELSE "participate")
  /\ UNCHANGED <<calls, tableVars, accessors, locks, job, meta, cursor, block>>

Participate(t) ==
  /\ pc[t] = "participate"
  /\ participants' = [participants EXCEPT ![meta[t]][Accessor(t)] = 1]
  /\ Goto(t, "claim")
  /\ UNCHANGED <<calls, metadata, resize_leader, new_metadata_ready, node_migration_done,
                 resize_done, node_to_migrate, migrated, accessors, locks, job,
                 meta, cursor, block>>

\* Mutant: a block is read and taken in two steps, here: not taken at all.
ClaimsAgain(t) ==
  /\ pc[t] = "claim"
  /\ block' = [block EXCEPT ![t] = node_to_migrate[meta[t]]]
  /\ Goto(t, "migrate")
  /\ UNCHANGED <<calls, tableVars, accessors, locks, job, meta, cursor>>

\* migrate_nodes: claim a block, if there is one left.  The counter runs past
\* the end by at most one block for each thread.
Claim(t) ==
  /\ pc[t] = "claim"
  /\ node_to_migrate' = [node_to_migrate EXCEPT ![meta[t]] = @ + 1]
  /\ \/ /\ node_to_migrate[meta[t]] < Blocks
        /\ block' = [block EXCEPT ![t] = node_to_migrate[meta[t]]]
        /\ Goto(t, "migrate")
     \/ /\ node_to_migrate[meta[t]] >= Blocks
        /\ block' = [block EXCEPT ![t] = 0]
        /\ Goto(t, "leave")
  /\ UNCHANGED <<calls, metadata, resize_leader, new_metadata_ready, node_migration_done,
                 resize_done, participants, migrated, accessors, locks, job, meta,
                 cursor>>

Migrate(t) ==
  /\ pc[t] = "migrate"
  /\ migrated' = [migrated EXCEPT ![meta[t]][block[t]] = t]
  /\ Goto(t, "claim")
  /\ UNCHANGED <<calls, metadata, resize_leader, new_metadata_ready, node_migration_done,
                 resize_done, participants, node_to_migrate, accessors, locks, job,
                 meta, cursor, block>>

Leave(t) ==
  /\ pc[t] = "leave"
  /\ participants' = [participants EXCEPT ![meta[t]][Accessor(t)] = 2]
  /\ Goto(t, "recount")
  /\ UNCHANGED <<calls, metadata, resize_leader, new_metadata_ready, node_migration_done,
                 resize_done, node_to_migrate, migrated, accessors, locks, job,
                 meta, cursor, block>>

\* The accessor's local_inserted becomes the number of nodes it has migrated.
Recount(t) ==
  /\ pc[t] = "recount"
  /\ Goto(t, "scan")
  /\ UNCHANGED <<calls, tableVars, accessors, locks, job, meta, cursor, block>>

\* nodes_migration_done reads the participants one by one.
Scan(t) ==
  /\ pc[t] = "scan"
  /\ IF cursor[t] > Len(participants[meta[t]])
     THEN LeaveLoop(t, "set_migrated")
     ELSE IF participants[meta[t]][cursor[t]] = 1
     THEN LeaveLoop(t, "wait_migrated")
     ELSE Advance(t) /\ UNCHANGED pc
  /\ UNCHANGED <<calls, tableVars, accessors, locks, job, meta, block>>

SetMigrated(t) ==
  /\ pc[t] = "set_migrated"
  /\ node_migration_done' = Set(node_migration_done, meta[t])
  /\ Goto(t, "wait_migrated")
  /\ UNCHANGED <<calls, metadata, resize_leader, new_metadata_ready, resize_done,
                 participants, node_to_migrate, migrated, accessors, locks, job,
                 meta, cursor, block>>

\* Mutant: the event is still set from the resize before.
InheritsTheEvent(t) ==
  /\ pc[t] = "wait_migrated"
  /\ \E g \in 1..meta[t] : node_migration_done[g]
  /\ Goto(t, AfterCommon(t))
  /\ UNCHANGED <<calls, tableVars, accessors, locks, job, meta, cursor, block>>

WaitMigrated(t) ==
  /\ pc[t] = "wait_migrated"
  /\ node_migration_done[meta[t]]
  /\ Goto(t, AfterCommon(t))
  /\ UNCHANGED <<calls, tableVars, accessors, locks, job, meta, cursor, block>>

\* The follower's last wait, then the call it helped from starts again; a call
\* that grew the table itself may have been over before that.
WaitResized(t) ==
  /\ pc[t] = "wait_resized"
  /\ resize_done[meta[t]]
  /\ \/ Goto(t, "get_meta")
     \/ job[t] = "grow" /\ Goto(t, "idle")
  /\ job' = [job EXCEPT ![t] = "write"]
  /\ UNCHANGED <<calls, tableVars, accessors, locks, meta, cursor, block>>
-----------------------------------------------------------------------------
\* leader_resize: the new table takes over.
SwapMetadata(t) ==
  /\ pc[t] = "swap"
  /\ metadata' = IF metadata = meta[t] THEN meta[t] + 1 ELSE metadata
  /\ Goto(t, "set_resized")
  /\ UNCHANGED <<calls, resize_leader, new_metadata_ready, node_migration_done, resize_done,
                 participants, node_to_migrate, migrated, accessors, locks, job,
                 meta, cursor, block>>

SetResized(t) ==
  /\ pc[t] = "set_resized"
  /\ resize_done' = Set(resize_done, meta[t])
  /\ Goto(t, "unlock_sync_op")
  /\ UNCHANGED <<calls, metadata, resize_leader, new_metadata_ready, node_migration_done,
                 participants, node_to_migrate, migrated, accessors, locks, job,
                 meta, cursor, block>>

\* Mutant: sync_op stays locked.
KeepsSyncOp(t) ==
  /\ pc[t] = "unlock_sync_op"
  /\ Goto(t, "unlock_mutexes")
  /\ UNCHANGED <<calls, tableVars, accessors, locks, job, meta, cursor, block>>

\* end_synchronous_operation.
UnlockSyncOp(t) ==
  /\ pc[t] = "unlock_sync_op"
  /\ sync_op' = NULL
  /\ Goto(t, "unlock_mutexes")
  /\ UNCHANGED <<calls, tableVars, accessors, accessors_lock, self_mutex, job, meta,
                 cursor, block>>

UnlockMutexes(t) ==
  /\ pc[t] = "unlock_mutexes"
  /\ cursor[t] <= Len(accessors)
  /\ self_mutex' = [self_mutex EXCEPT ![accessors[cursor[t]]] = NULL]
  /\ Advance(t)
  /\ UNCHANGED <<calls, tableVars, accessors, sync_op, accessors_lock, pc, job, meta, block>>

\* The length has been computed, the resize is over, or it has failed.
UnlockAccessors(t) ==
  /\ pc[t] = "unlock_mutexes"
  /\ cursor[t] > Len(accessors)
  /\ accessors_lock' = NULL
  /\ \/ job[t] = "len" /\ LeaveLoop(t, "idle")
     \/ job[t] = "lead" /\ resize_done[meta[t]] /\ LeaveLoop(t, "idle")
     \/ job[t] = "lead" /\ resize_done[meta[t]] /\ LeaveLoop(t, "get_meta")
     \/ job[t] = "lead" /\ ~resize_done[meta[t]] /\ LeaveLoop(t, "fail_resize_done")
  /\ job' = [job EXCEPT ![t] = "write"]
  /\ UNCHANGED <<calls, tableVars, accessors, sync_op, self_mutex, meta, block>>

\* leader_resize, fail: the three events are set, in this order.
FailEvents(t) ==
  /\ \/ /\ pc[t] = "fail_resize_done"
        /\ resize_done' = Set(resize_done, meta[t])
        /\ Goto(t, "fail_migrated")
        /\ UNCHANGED <<node_migration_done, new_metadata_ready>>
     \/ /\ pc[t] = "fail_migrated"
        /\ node_migration_done' = Set(node_migration_done, meta[t])
        /\ Goto(t, "fail_ready")
        /\ UNCHANGED <<resize_done, new_metadata_ready>>
     \/ /\ pc[t] = "fail_ready"
        /\ new_metadata_ready' = Set(new_metadata_ready, meta[t])
        /\ Goto(t, "idle")
        /\ UNCHANGED <<resize_done, node_migration_done>>
  /\ UNCHANGED <<calls, metadata, resize_leader, participants, node_to_migrate, migrated,
                 accessors, locks, job, meta, cursor, block>>

Step(t) ==
  \/ Register(t) \/ GetMeta(t) \/ TryLock(t) \/ Help(t) \/ Lock(t) \/ Check(t)
  \/ Unlock(t) \/ GrowGetMeta(t) \/ CasLeader(t) \/ NewMeta(t) \/ LockSyncOp(t)
  \/ LockAccessors(t) \/ LockMutexes(t) \/ Prepare(t) \/ SetReady(t) \/ Follow(t)
  \/ CommonResize(t) \/ Participate(t) \/ Claim(t) \/ Migrate(t) \/ Leave(t)
  \/ Recount(t) \/ Scan(t) \/ SetMigrated(t) \/ WaitMigrated(t) \/ WaitResized(t)
  \/ SwapMetadata(t) \/ SetResized(t) \/ UnlockSyncOp(t) \/ UnlockMutexes(t)
  \/ UnlockAccessors(t) \/ FailEvents(t)

Next == \E t \in Threads : StartWrite(t) \/ StartLen(t) \/ Step(t)

Spec == Init /\ [][Next]_vars

\* Threads keep being scheduled, and PyMutex hands a contended mutex over to
\* the waiting thread: a step that is possible again and again is taken.
FairSpec == Spec /\ \A t \in Threads : SF_vars(Step(t))
-----------------------------------------------------------------------------
Labels ==
  {"idle", "register", "get_meta", "try_lock", "help", "lock", "check", "critical",
   "grow", "resize", "new_meta", "lock_sync_op", "lock_accessors", "lock_mutexes",
   "prepare", "ready", "follow", "common", "participate", "claim", "migrate", "leave",
   "recount", "scan", "set_migrated", "wait_migrated", "wait_resized", "swap",
   "set_resized", "unlock_sync_op", "unlock_mutexes", "fail_resize_done",
   "fail_migrated", "fail_ready"}

\* The variables keep their types.
TypeOK ==
  /\ metadata \in Generations
  /\ resize_leader \in [Generations -> Threads \cup {NULL}]
  /\ new_metadata_ready \in [Generations -> BOOLEAN]
  /\ node_migration_done \in [Generations -> BOOLEAN]
  /\ resize_done \in [Generations -> BOOLEAN]
  /\ participants \in [Generations -> Seq(0..2)]
  /\ node_to_migrate \in [Generations -> Nat]
  /\ migrated \in [Generations -> [0..(Blocks - 1) -> Threads \cup {NULL}]]
  /\ accessors \in Seq(Threads)
  /\ sync_op \in Threads \cup {NULL} /\ accessors_lock \in Threads \cup {NULL}
  /\ self_mutex \in [Threads -> Threads \cup {NULL}]
  /\ calls \in 0..MaxCalls
  /\ pc \in [Threads -> Labels]
  /\ job \in [Threads -> {"write", "grow", "lead", "len"}]
  /\ meta \in [Threads -> Generations]
  /\ cursor \in [Threads -> Nat \ {0}] /\ block \in [Threads -> Nat]

\* A writer that has passed maybe_help_resize works on the table in use, and
\* nobody migrates that table under it: the leader is chosen first and the
\* mutexes are taken after, the writer takes its mutex first and looks for a
\* leader after.
WritersAreLockedOut ==
  \A t \in Threads : pc[t] = "critical" =>
    /\ meta[t] = metadata
    /\ participants[metadata] = <<>>

\* A table is only ever replaced after all of it has been migrated.
NoNodeIsLost ==
  \A g \in 1..(metadata - 1), b \in 0..(Blocks - 1) : migrated[g][b] # NULL

\* The assertions on the three compare-and-exchanges of a resize: a thread takes
\* part in a migration at most once and within the leader's participants, and
\* only the leader replaces the table.
AssertionsHold ==
  /\ TypeOK
  /\ \A t \in Threads :
       /\ pc[t] = "participate" => /\ \E i \in 1..Len(participants[meta[t]]) : accessors[i] = t
                                   /\ participants[meta[t]][Accessor(t)] = 0
       /\ pc[t] = "leave" => participants[meta[t]][Accessor(t)] = 1
       /\ pc[t] = "swap" => metadata = meta[t]

\* A call that is over, failed resizes included, holds no mutex.
NoMutexIsLeaked ==
  \A t \in Threads : pc[t] \in {"idle", "get_meta", "follow", "fail_resize_done"} =>
    t \notin {sync_op, accessors_lock} \cup {self_mutex[u] : u \in Threads}

\* No block is migrated twice: the new index gets no node twice.
BlocksMigrateOnce ==
  [][\A g \in Generations, b \in 0..(Blocks - 1) :
       migrated[g][b] # NULL => migrated'[g][b] = migrated[g][b]
                                /\ \A t \in Threads : ~(pc[t] = "migrate" /\ pc'[t] = "claim"
                                      /\ meta[t] = g /\ block[t] = b)]_vars

\* Every call of a dictionary that may be resized meanwhile returns: a leader, the
\* followers, the writers and len() wait for each other's mutexes and events.
CallsReturn == \A t \in Threads : pc[t] # "idle" ~> pc[t] = "idle"

\* A thread waits for a mutex (PyMutex_Lock) or for an event (AtomicEvent_Wait):
\* everything else a call does, it does at once.
Waits(t) ==
  \/ pc[t] \in {"register", "lock_accessors"} /\ accessors_lock # NULL
  \/ pc[t] = "lock" /\ self_mutex[t] # NULL
  \/ pc[t] = "lock_sync_op" /\ sync_op # NULL
  \/ pc[t] = "lock_mutexes" /\ cursor[t] <= Len(accessors)
       /\ self_mutex[accessors[cursor[t]]] # NULL
  \/ pc[t] = "follow" /\ ~new_metadata_ready[meta[t]]
  \/ pc[t] = "wait_migrated" /\ ~node_migration_done[meta[t]]
  \/ pc[t] = "wait_resized" /\ ~resize_done[meta[t]]

\* Nobody waits for everybody: as long as some call has not returned, some thread
\* can go on, whichever mutexes and events the leader, its followers, the writers
\* and len() wait for.
NoDeadlock ==
  (\E t \in Threads : pc[t] # "idle") => \E t \in Threads : pc[t] # "idle" /\ ~Waits(t)
=============================================================================
