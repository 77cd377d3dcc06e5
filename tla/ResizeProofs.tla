---------------------------- MODULE ResizeProofs ----------------------------
(***************************************************************************)
(* The resize protocol loses no node and lets no writer into a table that  *)
(* is being migrated, for every number of threads, blocks and generations, *)
(* failed resizes included.                                                *)
(*                                                                         *)
(* The invariant has four parts.                                           *)
(*                                                                         *)
(*   Shape      which job a thread can have at which label, and that it    *)
(*              has an accessor;                                           *)
(*   LockState  who holds which mutex, exactly: the thread that holds the  *)
(*              list of accessors holds their mutexes up to its cursor;    *)
(*   GenState,  how far the resize of each generation is, and who may take *)
(*   LeadState  it further: its leader, of which there is one;             *)
(*   SeatState, that a thread takes part in a migration once, on a seat of *)
(*   WorkState  its own, and who is still at work on which block.          *)
(*                                                                         *)
(* A writer in its critical section holds the mutex of its own accessor; a *)
(* leader whose migration has begun holds all of them.  A thread that has  *)
(* read a seat as not at work has seen all blocks claimed before, so its   *)
(* occupant never works again: after a full scan, nobody does.             *)
(***************************************************************************)
EXTENDS Resize, SequenceTheorems, TLAPS

Common == {"common", "participate", "claim", "migrate", "leave", "recount", "scan",
           "set_migrated", "wait_migrated"}
Joining == Common \ {"common"}
Fails == {"fail_resize_done", "fail_migrated", "fail_ready"}
Locking == {"lock_sync_op", "lock_accessors", "lock_mutexes", "unlock_sync_op",
            "unlock_mutexes"}
LeadersOnly == {"new_meta", "prepare", "ready", "swap", "set_resized"}
WritersOnly == {"register", "get_meta", "try_lock", "help", "lock", "check", "critical"}

AccessorAt(i, t) == i \in 1..Len(accessors) /\ accessors[i] = t
HasAccessor(t) == \E i \in 1..Len(accessors) : accessors[i] = t
Empty(g) == Len(participants[g]) = 0

\* Which job a thread can have where, and its accessor.
Shape(t) ==
  /\ pc[t] \in LeadersOnly => job[t] = "lead"
  /\ pc[t] \in Locking => job[t] \in {"lead", "len"}
  /\ pc[t] \in WritersOnly => job[t] = "write"
  /\ pc[t] \in {"grow", "resize"} => job[t] = "grow"
  /\ pc[t] \in {"follow", "wait_resized"} => job[t] \in {"write", "grow"}
  /\ pc[t] \in Common \cup Fails => job[t] # "len"
  /\ pc[t] \notin {"lock_mutexes", "scan", "unlock_mutexes"} => cursor[t] = 1
  /\ pc[t] \in {"lock_mutexes", "unlock_mutexes"} => cursor[t] <= Len(accessors) + 1
  /\ pc[t] = "register" => \A i \in 1..Len(accessors) : accessors[i] # t
  /\ pc[t] \notin {"idle", "register"} /\ job[t] # "len" => HasAccessor(t)

\* Every thread has at most one accessor.
Accessors ==
  /\ Len(accessors) > 0
  /\ \A i, j \in 1..Len(accessors) : accessors[i] = accessors[j] => i = j
-----------------------------------------------------------------------------
Working(t) == pc[t] \in {"check", "critical"}
HoldsList(t) ==
  \/ pc[t] \in {"lock_mutexes", "unlock_sync_op", "unlock_mutexes", "prepare", "ready",
                "swap", "set_resized"}
  \/ pc[t] \in Common /\ job[t] = "lead"
HoldsSync(t) == pc[t] = "lock_accessors" \/ (HoldsList(t) /\ pc[t] # "unlock_mutexes")

\* The accessors whose mutex thread t has taken on behalf of all.
Taken(t) ==
  {i \in 1..Len(accessors) :
     /\ HoldsList(t)
     /\ pc[t] = "lock_mutexes" => i < cursor[t]
     /\ pc[t] = "unlock_mutexes" => i >= cursor[t]}

LockState ==
  \A t \in Threads :
    /\ sync_op = t <=> HoldsSync(t)
    /\ accessors_lock = t <=> HoldsList(t)
    /\ \A u \in Threads :
         self_mutex[u] = t <=> (u = t /\ Working(t)) \/ \E i \in Taken(t) : accessors[i] = u
-----------------------------------------------------------------------------
\* Nothing has happened to generation g.
Pristine(g) ==
  /\ ~new_metadata_ready[g] /\ ~node_migration_done[g] /\ ~resize_done[g]
  /\ Empty(g)

AllMigrated(g) == \A b \in 0..(Blocks - 1) : migrated[g][b] # NULL

\* Thread t leads a resize whose migration has begun and that is not over.
Migrating(t) == job[t] = "lead" /\ pc[t] \in Common \cup {"ready", "swap"}

\* Thread t leads a resize.
Leads(t) == pc[t] \in Fails \/ (job[t] = "lead" /\ pc[t] # "idle")

GenState(g) ==
  /\ resize_leader[g] = NULL => Pristine(g) /\ g >= metadata
  /\ resize_leader[g] # NULL => g < MaxGeneration /\ g <= metadata
  /\ resize_done[g] => Empty(g) \/ g < metadata
  /\ new_metadata_ready[g] => node_migration_done[g] \/ ~Empty(g)
  /\ node_migration_done[g] => Empty(g) \/ AllMigrated(g)
  /\ g < metadata => AllMigrated(g)
  /\ g = metadata /\ ~Empty(g) => Migrating(resize_leader[g])

\* The resize that thread t leads has failed.
Failing(t) == meta[t] = metadata /\ Empty(meta[t])

LeadState(t) ==
  /\ meta[t] <= metadata
  /\ pc[t] = "resize" => meta[t] < MaxGeneration
  /\ Leads(t) => resize_leader[meta[t]] = t
  /\ pc[t] \in {"new_meta", "lock_sync_op", "lock_accessors", "lock_mutexes", "prepare"}
       /\ job[t] = "lead" => Pristine(meta[t]) /\ meta[t] = metadata
  /\ Migrating(t) => /\ meta[t] = metadata /\ ~Empty(meta[t])
                     /\ Len(participants[meta[t]]) = Len(accessors)
  /\ pc[t] = "swap" => node_migration_done[meta[t]]
  /\ pc[t] = "set_resized" => meta[t] < metadata
  /\ pc[t] \in {"unlock_sync_op", "unlock_mutexes"} /\ job[t] = "lead" =>
       IF resize_done[meta[t]] THEN meta[t] < metadata ELSE Failing(t)
  /\ pc[t] \in Fails => Failing(t)
  /\ pc[t] = "fail_ready" => node_migration_done[meta[t]]
  /\ pc[t] = "common" => new_metadata_ready[meta[t]]
  /\ pc[t] = "critical" => meta[t] = metadata
-----------------------------------------------------------------------------
\* Thread t is busy with the table it has read from metadata.
Bound(t) == pc[t] \notin {"idle", "register", "get_meta", "grow"} /\ job[t] # "len"

\* Thread t has taken part in the migration of its table.
Joined == {"claim", "migrate", "leave", "recount", "scan", "set_migrated",
           "wait_migrated", "wait_resized", "swap", "set_resized", "unlock_sync_op",
           "unlock_mutexes"}

AtWork(t, g) == pc[t] = "migrate" /\ meta[t] = g

SeatState(t) ==
  /\ pc[t] \in Joining => ~Empty(meta[t])
  /\ Bound(t) /\ ~Empty(meta[t]) =>
       \E i \in 1..Len(participants[meta[t]]) : AccessorAt(i, t)
  /\ \A g \in Generations : \A i \in 1..Len(participants[g]) :
       AccessorAt(i, t) =>
         /\ participants[g][i] # 0 =>
              \/ meta[t] = g /\ Bound(t) /\ pc[t] \in Joined
              \/ g < metadata /\ ~(meta[t] = g /\ Bound(t))
         /\ pc[t] \in {"claim", "migrate", "leave"} /\ meta[t] = g => participants[g][i] = 1

WorkState(t) ==
  /\ pc[t] = "migrate" =>
       /\ block[t] < Blocks /\ block[t] < node_to_migrate[meta[t]]
       /\ migrated[meta[t]][block[t]] = NULL
       /\ \A u \in Threads : AtWork(u, meta[t]) /\ block[u] = block[t] => u = t
  /\ pc[t] \in {"leave", "recount", "scan", "set_migrated"} =>
       node_to_migrate[meta[t]] >= Blocks
  /\ pc[t] = "scan" => \A i \in 1..Len(accessors) :
                         i < cursor[t] => ~AtWork(accessors[i], meta[t])
  /\ pc[t] = "set_migrated" => \A u \in Threads : ~AtWork(u, meta[t])

\* A block of generation g is migrated, at work or not yet claimed.
BlockState(g) ==
  /\ Len(participants[g]) <= Len(accessors)
  /\ \A b \in 0..(Blocks - 1) :
       IF b < node_to_migrate[g]
       THEN migrated[g][b] # NULL \/ \E t \in Threads : AtWork(t, g) /\ block[t] = b
       ELSE migrated[g][b] = NULL

Inv ==
  /\ TypeOK /\ Accessors /\ LockState
  /\ \A t \in Threads : Shape(t) /\ LeadState(t) /\ SeatState(t) /\ WorkState(t)
  /\ \A g \in Generations : GenState(g) /\ BlockState(g)
-----------------------------------------------------------------------------
\* A step of thread t, of a new call or of one that has begun.
Moves(t) == StartWrite(t) \/ StartLen(t) \/ Step(t)
\* TypeOK in two parts: what the threads do next, and what they share.
LocalTypes ==
  /\ calls \in 0..MaxCalls
  /\ pc \in [Threads -> Labels]
  /\ job \in [Threads -> {"write", "grow", "lead", "len"}]
  /\ meta \in [Threads -> Generations]
  /\ cursor \in [Threads -> Nat \ {0}] /\ block \in [Threads -> Nat]

TableTypes ==
  /\ metadata \in Generations
  /\ resize_leader \in [Generations -> Threads \cup {NULL}]
  /\ new_metadata_ready \in [Generations -> BOOLEAN]
  /\ node_migration_done \in [Generations -> BOOLEAN]
  /\ resize_done \in [Generations -> BOOLEAN]
  /\ participants \in [Generations -> Seq(0..2)]
  /\ node_to_migrate \in [Generations -> Nat]
  /\ migrated \in [Generations -> [0..(Blocks - 1) -> Threads \cup {NULL}]]
  /\ accessors \in Seq(Threads)
  /\ sync_op \in Threads \cup {NULL} /\ accessors_lock \in Threads \cup {NULL}
  /\ self_mutex \in [Threads -> Threads \cup {NULL}]

\* Writing a participant's state leaves a list of participants as long as it was.
LEMMA SeatWrite ==
  ASSUME NEW s \in Seq(0..2), NEW i, NEW v \in 0..2
  PROVE  /\ [s EXCEPT ![i] = v] \in Seq(0..2)
         /\ Len([s EXCEPT ![i] = v]) = Len(s)
         /\ \A j \in 1..Len(s) :
              [s EXCEPT ![i] = v][j] = IF j = i THEN v ELSE s[j]
  <1>1. CASE i \in 1..Len(s)
    BY <1>1, ExceptSeq
  <1>2. CASE i \notin 1..Len(s)
    <2>1. [s EXCEPT ![i] = v] = s
      BY <1>2
    <2> QED  BY <2>1, <1>2
  <1> QED  BY <1>1, <1>2

\* Every step keeps the types.
LEMMA TypeStep ==
  ASSUME Inv, NEW t \in Threads, Moves(t)
  PROVE  TypeOK'
  <1>0. /\ TypeOK /\ LocalTypes /\ TableTypes
        /\ Shape(t) /\ LeadState(t) /\ GenState(meta[t])
    BY DEF Inv, TypeOK, LocalTypes, TableTypes
  <1>a. {"idle", "register", "get_meta", "try_lock", "help", "lock", "check", "critical",
         "grow", "resize", "new_meta", "lock_sync_op", "lock_accessors", "lock_mutexes",
         "prepare", "ready", "follow", "common", "participate", "claim", "migrate",
         "leave", "recount", "scan", "set_migrated", "wait_migrated", "wait_resized",
         "swap", "set_resized", "unlock_sync_op", "unlock_mutexes", "fail_resize_done",
         "fail_migrated", "fail_ready"} \subseteq Labels
    BY DEF Labels
  <1>b. MaxCalls \in Nat
    BY ResizeAssumption
  <1> USE DEF tableVars, locks, Goto, LeaveLoop, Advance, Set
  <1>1. CASE StartWrite(t)
    <2>1. LocalTypes'
      BY <1>1, <1>0, <1>a, <1>b DEF StartWrite, LocalTypes, Range
    <2>2. TableTypes'
      BY <1>1, <1>0 DEF StartWrite, TableTypes
    <2> QED  BY <2>1, <2>2 DEF TypeOK, LocalTypes, TableTypes
  <1>2. CASE StartLen(t)
    <2>1. LocalTypes'
      BY <1>2, <1>0, <1>a, <1>b DEF StartLen, LocalTypes
    <2>2. TableTypes'
      BY <1>2, <1>0 DEF StartLen, TableTypes
    <2> QED  BY <2>1, <2>2 DEF TypeOK, LocalTypes, TableTypes
  <1>3. CASE Register(t)
    <2>1. LocalTypes'
      BY <1>3, <1>0, <1>a DEF Register, LocalTypes
    <2>2. TableTypes'
      BY <1>3, <1>0 DEF Register, TableTypes
    <2> QED  BY <2>1, <2>2 DEF TypeOK, LocalTypes, TableTypes
  <1>4. CASE GetMeta(t)
    <2>1. LocalTypes'
      BY <1>4, <1>0, <1>a DEF GetMeta, LocalTypes, TableTypes
    <2>2. TableTypes'
      BY <1>4, <1>0 DEF GetMeta, TableTypes
    <2> QED  BY <2>1, <2>2 DEF TypeOK, LocalTypes, TableTypes
  <1>5. CASE TryLock(t)
    <2>1. LocalTypes'
      BY <1>5, <1>0, <1>a DEF TryLock, LocalTypes
    <2>2. TableTypes'
      BY <1>5, <1>0 DEF TryLock, TableTypes
    <2> QED  BY <2>1, <2>2 DEF TypeOK, LocalTypes, TableTypes
  <1>6. CASE Help(t)
    <2>1. LocalTypes'
      BY <1>6, <1>0, <1>a DEF Help, LocalTypes
    <2>2. TableTypes'
      BY <1>6, <1>0 DEF Help, TableTypes
    <2> QED  BY <2>1, <2>2 DEF TypeOK, LocalTypes, TableTypes
  <1>7. CASE Lock(t)
    <2>1. LocalTypes'
      BY <1>7, <1>0, <1>a DEF Lock, LocalTypes
    <2>2. TableTypes'
      BY <1>7, <1>0 DEF Lock, TableTypes
    <2> QED  BY <2>1, <2>2 DEF TypeOK, LocalTypes, TableTypes
  <1>8. CASE Check(t)
    <2>1. LocalTypes'
      BY <1>8, <1>0, <1>a DEF Check, LocalTypes
    <2>2. TableTypes'
      BY <1>8, <1>0 DEF Check, TableTypes
    <2> QED  BY <2>1, <2>2 DEF TypeOK, LocalTypes, TableTypes
  <1>9. CASE Unlock(t)
    <2>1. LocalTypes'
      BY <1>9, <1>0, <1>a DEF Unlock, LocalTypes
    <2>2. TableTypes'
      BY <1>9, <1>0 DEF Unlock, TableTypes
    <2> QED  BY <2>1, <2>2 DEF TypeOK, LocalTypes, TableTypes
  <1>10. CASE GrowGetMeta(t)
    <2>1. LocalTypes'
      BY <1>10, <1>0, <1>a DEF GrowGetMeta, LocalTypes, TableTypes
    <2>2. TableTypes'
      BY <1>10, <1>0 DEF GrowGetMeta, TableTypes
    <2> QED  BY <2>1, <2>2 DEF TypeOK, LocalTypes, TableTypes
  <1>11. CASE CasLeader(t)
    <2>1. LocalTypes'
      BY <1>11, <1>0, <1>a DEF CasLeader, LocalTypes
    <2>2. TableTypes'
      <3>1. resize_leader' \in [Generations -> Threads \cup {NULL}]
        BY <1>11, <1>0 DEF CasLeader, TableTypes
      <3> QED  BY <1>11, <1>0, <3>1 DEF CasLeader, TableTypes
    <2> QED  BY <2>1, <2>2 DEF TypeOK, LocalTypes, TableTypes
  <1>12. CASE NewMeta(t)
    <2>1. LocalTypes'
      BY <1>12, <1>0, <1>a DEF NewMeta, LocalTypes
    <2>2. TableTypes'
      BY <1>12, <1>0 DEF NewMeta, TableTypes
    <2> QED  BY <2>1, <2>2 DEF TypeOK, LocalTypes, TableTypes
  <1>13. CASE LockSyncOp(t)
    <2>1. LocalTypes'
      BY <1>13, <1>0, <1>a DEF LockSyncOp, LocalTypes
    <2>2. TableTypes'
      BY <1>13, <1>0 DEF LockSyncOp, TableTypes
    <2> QED  BY <2>1, <2>2 DEF TypeOK, LocalTypes, TableTypes
  <1>14. CASE LockAccessors(t)
    <2>1. LocalTypes'
      BY <1>14, <1>0, <1>a DEF LockAccessors, LocalTypes
    <2>2. TableTypes'
      BY <1>14, <1>0 DEF LockAccessors, TableTypes
    <2> QED  BY <2>1, <2>2 DEF TypeOK, LocalTypes, TableTypes
  <1>15. CASE LockMutexes(t)
    <2>1. pc' \in [Threads -> Labels] /\ cursor' \in [Threads -> Nat \ {0}]
      <3>1. cursor[t] + 1 \in Nat \ {0}
        BY <1>0 DEF LocalTypes
      <3>2. CASE UNCHANGED pc /\ Advance(t)
        BY <3>1, <3>2, <1>0 DEF LocalTypes
      <3>3. CASE \E l \in Labels : LeaveLoop(t, l)
        BY <3>3, <1>0 DEF LocalTypes
      <3> QED  BY <1>15, <1>a, <3>2, <3>3 DEF LockMutexes
    <2>2. LocalTypes'
      BY <1>15, <1>0, <1>a, <2>1 DEF LockMutexes, LocalTypes
    <2>3. TableTypes'
      BY <1>15, <1>0 DEF LockMutexes, TableTypes
    <2> QED  BY <2>2, <2>3 DEF TypeOK, LocalTypes, TableTypes
  <1>16. CASE Prepare(t)
    <2>1. LocalTypes'
      BY <1>16, <1>0, <1>a DEF Prepare, LocalTypes
    <2>2. [i \in 1..Len(accessors) |-> 0] \in Seq(0..2)
      BY <1>0 DEF TableTypes
    <2>3. participants' \in [Generations -> Seq(0..2)]
      BY <1>16, <1>0, <2>2 DEF Prepare, TableTypes
    <2>4. TableTypes'
      BY <1>16, <1>0, <2>3 DEF Prepare, TableTypes
    <2> QED  BY <2>1, <2>4 DEF TypeOK, LocalTypes, TableTypes
  <1>17. CASE SetReady(t)
    <2>1. LocalTypes'
      BY <1>17, <1>0, <1>a DEF SetReady, LocalTypes
    <2>2. TableTypes'
      BY <1>17, <1>0 DEF SetReady, TableTypes
    <2> QED  BY <2>1, <2>2 DEF TypeOK, LocalTypes, TableTypes
  <1>18. CASE Follow(t)
    <2>1. LocalTypes'
      BY <1>18, <1>0, <1>a DEF Follow, LocalTypes
    <2>2. TableTypes'
      BY <1>18, <1>0 DEF Follow, TableTypes
    <2> QED  BY <2>1, <2>2 DEF TypeOK, LocalTypes, TableTypes
  <1>19. CASE CommonResize(t)
    <2>1. LocalTypes'
      BY <1>19, <1>0, <1>a DEF CommonResize, LocalTypes, AfterCommon
    <2>2. TableTypes'
      BY <1>19, <1>0 DEF CommonResize, TableTypes
    <2> QED  BY <2>1, <2>2 DEF TypeOK, LocalTypes, TableTypes
  <1>20. CASE Participate(t)
    <2>1. LocalTypes'
      BY <1>20, <1>0, <1>a DEF Participate, LocalTypes
    <2>2. [participants[meta[t]] EXCEPT ![Accessor(t)] = 1] \in Seq(0..2)
      <3>1. participants[meta[t]] \in Seq(0..2)
        BY <1>0 DEF LocalTypes, TableTypes
      <3> QED  BY <3>1, SeatWrite
    <2>3. TableTypes'
      BY <1>20, <1>0, <2>2 DEF Participate, TableTypes, LocalTypes
    <2> QED  BY <2>1, <2>3 DEF TypeOK, LocalTypes, TableTypes
  <1>21. CASE Claim(t)
    <2>a. meta[t] \in Generations /\ node_to_migrate \in [Generations -> Nat]
      BY <1>0 DEF LocalTypes, TableTypes
    <2>0. node_to_migrate[meta[t]] \in Nat /\ node_to_migrate[meta[t]] + 1 \in Nat
      BY <2>a
    <2>1. pc' \in [Threads -> Labels] /\ block' \in [Threads -> Nat]
      BY <1>21, <1>0, <1>a, <2>0 DEF Claim, LocalTypes
    <2>2. LocalTypes'
      BY <1>21, <1>0, <1>a, <2>1 DEF Claim, LocalTypes
    <2>3. TableTypes'
      BY <1>21, <1>0, <2>0 DEF Claim, TableTypes
    <2> QED  BY <2>2, <2>3 DEF TypeOK, LocalTypes, TableTypes
  <1>22. CASE Migrate(t)
    <2>1. LocalTypes'
      BY <1>22, <1>0, <1>a DEF Migrate, LocalTypes
    <2>2. TableTypes'
      BY <1>22, <1>0 DEF Migrate, TableTypes
    <2> QED  BY <2>1, <2>2 DEF TypeOK, LocalTypes, TableTypes
  <1>23. CASE Leave(t)
    <2>1. LocalTypes'
      BY <1>23, <1>0, <1>a DEF Leave, LocalTypes
    <2>2. [participants[meta[t]] EXCEPT ![Accessor(t)] = 2] \in Seq(0..2)
      <3>1. participants[meta[t]] \in Seq(0..2)
        BY <1>0 DEF LocalTypes, TableTypes
      <3> QED  BY <3>1, SeatWrite
    <2>3. TableTypes'
      BY <1>23, <1>0, <2>2 DEF Leave, TableTypes, LocalTypes
    <2> QED  BY <2>1, <2>3 DEF TypeOK, LocalTypes, TableTypes
  <1>24. CASE Recount(t)
    <2>1. LocalTypes'
      BY <1>24, <1>0, <1>a DEF Recount, LocalTypes
    <2>2. TableTypes'
      BY <1>24, <1>0 DEF Recount, TableTypes
    <2> QED  BY <2>1, <2>2 DEF TypeOK, LocalTypes, TableTypes
  <1>25. CASE Scan(t)
    <2>1. LocalTypes'
      <3>1. CASE UNCHANGED pc /\ Advance(t)
        <4>1. cursor[t] + 1 \in Nat \ {0}
          BY <1>0 DEF LocalTypes
        <4> QED  BY <1>25, <1>0, <3>1, <4>1 DEF Scan, LocalTypes
      <3>2. CASE \E l \in Labels : LeaveLoop(t, l)
        BY <1>25, <1>0, <3>2 DEF Scan, LocalTypes
      <3> QED  BY <1>25, <1>a, <3>1, <3>2 DEF Scan
    <2>2. TableTypes'
      BY <1>25, <1>0 DEF Scan, TableTypes
    <2> QED  BY <2>1, <2>2 DEF TypeOK, LocalTypes, TableTypes
  <1>26. CASE SetMigrated(t)
    <2>1. LocalTypes'
      BY <1>26, <1>0, <1>a DEF SetMigrated, LocalTypes
    <2>2. TableTypes'
      BY <1>26, <1>0 DEF SetMigrated, TableTypes
    <2> QED  BY <2>1, <2>2 DEF TypeOK, LocalTypes, TableTypes
  <1>27. CASE WaitMigrated(t)
    <2>1. LocalTypes'
      BY <1>27, <1>0, <1>a DEF WaitMigrated, LocalTypes, AfterCommon
    <2>2. TableTypes'
      BY <1>27, <1>0 DEF WaitMigrated, TableTypes
    <2> QED  BY <2>1, <2>2 DEF TypeOK, LocalTypes, TableTypes
  <1>28. CASE WaitResized(t)
    <2>1. LocalTypes'
      BY <1>28, <1>0, <1>a DEF WaitResized, LocalTypes
    <2>2. TableTypes'
      BY <1>28, <1>0 DEF WaitResized, TableTypes
    <2> QED  BY <2>1, <2>2 DEF TypeOK, LocalTypes, TableTypes
  <1>29. CASE SwapMetadata(t)
    <2>1. LocalTypes'
      BY <1>29, <1>0, <1>a DEF SwapMetadata, LocalTypes
    <2>2. resize_leader[meta[t]] # NULL /\ meta[t] \in Generations
      BY <1>29, <1>0, ResizeAssumption
         DEF SwapMetadata, LocalTypes, Shape, LeadState, Leads, LeadersOnly
    <2>3. metadata' \in Generations
      <3>1. meta[t] < MaxGeneration
        BY <1>0, <2>2 DEF GenState
      <3>2. metadata \in Generations /\ metadata' \in {meta[t] + 1, metadata}
        BY <1>29, <1>0 DEF SwapMetadata, TableTypes
      <3> QED  BY <2>2, <3>1, <3>2, ResizeAssumption DEF Generations
    <2>4. TableTypes'
      BY <1>29, <1>0, <2>3 DEF SwapMetadata, TableTypes
    <2> QED  BY <2>1, <2>4 DEF TypeOK, LocalTypes, TableTypes
  <1>30. CASE SetResized(t)
    <2>1. LocalTypes'
      BY <1>30, <1>0, <1>a DEF SetResized, LocalTypes
    <2>2. TableTypes'
      BY <1>30, <1>0 DEF SetResized, TableTypes
    <2> QED  BY <2>1, <2>2 DEF TypeOK, LocalTypes, TableTypes
  <1>31. CASE UnlockSyncOp(t)
    <2>1. LocalTypes'
      BY <1>31, <1>0, <1>a DEF UnlockSyncOp, LocalTypes
    <2>2. TableTypes'
      BY <1>31, <1>0 DEF UnlockSyncOp, TableTypes
    <2> QED  BY <2>1, <2>2 DEF TypeOK, LocalTypes, TableTypes
  <1>32. CASE UnlockMutexes(t)
    <2>1. LocalTypes'
      BY <1>32, <1>0, <1>a DEF UnlockMutexes, LocalTypes
    <2>2. TableTypes'
      BY <1>32, <1>0 DEF UnlockMutexes, TableTypes
    <2> QED  BY <2>1, <2>2 DEF TypeOK, LocalTypes, TableTypes
  <1>33. CASE UnlockAccessors(t)
    <2>1. pc' \in [Threads -> Labels] /\ cursor' \in [Threads -> Nat \ {0}]
      <3>1. \E l \in Labels : LeaveLoop(t, l)
        BY <1>33, <1>a DEF UnlockAccessors
      <3> QED  BY <3>1, <1>0 DEF LocalTypes
    <2>2. LocalTypes'
      BY <1>33, <1>0, <1>a, <2>1 DEF UnlockAccessors, LocalTypes
    <2>3. TableTypes'
      BY <1>33, <1>0 DEF UnlockAccessors, TableTypes
    <2> QED  BY <2>2, <2>3 DEF TypeOK, LocalTypes, TableTypes
  <1>34. CASE FailEvents(t)
    <2>1. LocalTypes'
      BY <1>34, <1>0, <1>a DEF FailEvents, LocalTypes
    <2>2. TableTypes'
      BY <1>34, <1>0 DEF FailEvents, TableTypes
    <2> QED  BY <2>1, <2>2 DEF TypeOK, LocalTypes, TableTypes
  <1> QED
    BY <1>1, <1>2, <1>3, <1>4, <1>5, <1>6, <1>7, <1>8, <1>9, <1>10, <1>11, <1>12, <1>13,
       <1>14, <1>15, <1>16, <1>17, <1>18, <1>19, <1>20, <1>21, <1>22, <1>23, <1>24, <1>25,
       <1>26, <1>27, <1>28, <1>29, <1>30, <1>31, <1>32, <1>33, <1>34 DEF Moves, Step
\* A step that moves a thread between labels where it holds the same.
SameHolds(t) ==
  /\ UNCHANGED <<accessors, locks>>
  /\ \A u \in Threads \ {t} :
       pc'[u] = pc[u] /\ job'[u] = job[u] /\ cursor'[u] = cursor[u]
  /\ HoldsList(t)' <=> HoldsList(t)
  /\ HoldsSync(t)' <=> HoldsSync(t)
  /\ Working(t)' <=> Working(t)
  /\ \/ HoldsList(t) => {pc[t], pc'[t]} \cap {"lock_mutexes", "unlock_mutexes"} = {}
     \/ Taken(t)' = Taken(t)

\* Such a step keeps the account of the mutexes.
LEMMA SameHoldsSameLocks ==
  ASSUME LockState, NEW t \in Threads, SameHolds(t)
  PROVE  LockState'
  <1> SUFFICES ASSUME NEW v \in Threads
      PROVE  /\ HoldsSync(v)' <=> HoldsSync(v)
             /\ HoldsList(v)' <=> HoldsList(v)
             /\ Working(v)' <=> Working(v)
             /\ Taken(v)' = Taken(v)
    BY DEF LockState, SameHolds, locks
  <1>1. CASE v = t
    BY <1>1 DEF SameHolds, Taken
  <1>2. CASE v # t
    BY <1>2 DEF SameHolds, Taken, HoldsSync, HoldsList, Working
  <1> QED  BY <1>1, <1>2

\* Most steps lock and unlock nothing.
LEMMA LockQuiet ==
  ASSUME TypeOK, NEW t \in Threads, Shape(t), Moves(t)
  PROVE  \/ SameHolds(t)
         \/ Register(t) \/ TryLock(t) \/ Lock(t) \/ Check(t) \/ Unlock(t) \/ LockSyncOp(t)
         \/ LockAccessors(t) \/ LockMutexes(t) \/ UnlockSyncOp(t) \/ UnlockMutexes(t)
         \/ UnlockAccessors(t)
  <1>0. LocalTypes
    BY DEF TypeOK, LocalTypes
  <1> USE <1>0 DEF LocalTypes, SameHolds, HoldsSync, HoldsList, Working, Shape, Common,
          LeadersOnly,
          WritersOnly, Locking, Fails, tableVars, locks, Goto, LeaveLoop, Advance
  <1>1. CASE StartWrite(t)
    BY <1>1 DEF StartWrite, Range
  <1>2. CASE StartLen(t)
    BY <1>2 DEF StartLen
  <1>3. CASE GetMeta(t)
    BY <1>3 DEF GetMeta
  <1>4. CASE Help(t)
    BY <1>4 DEF Help
  <1>5. CASE GrowGetMeta(t)
    BY <1>5 DEF GrowGetMeta
  <1>6. CASE CasLeader(t)
    BY <1>6 DEF CasLeader
  <1>7. CASE NewMeta(t)
    BY <1>7 DEF NewMeta
  <1>8. CASE Prepare(t)
    BY <1>8 DEF Prepare
  <1>9. CASE SetReady(t)
    BY <1>9 DEF SetReady
  <1>10. CASE Follow(t)
    BY <1>10 DEF Follow
  <1>11. CASE CommonResize(t)
    BY <1>11 DEF CommonResize, AfterCommon
  <1>12. CASE Participate(t)
    BY <1>12 DEF Participate
  <1>13. CASE Claim(t)
    BY <1>13 DEF Claim
  <1>14. CASE Migrate(t)
    BY <1>14 DEF Migrate
  <1>15. CASE Leave(t)
    BY <1>15 DEF Leave
  <1>16. CASE Recount(t)
    BY <1>16 DEF Recount
  <1>17. CASE Scan(t)
    BY <1>17 DEF Scan
  <1>18. CASE SetMigrated(t)
    BY <1>18 DEF SetMigrated
  <1>19. CASE WaitMigrated(t)
    BY <1>19 DEF WaitMigrated, AfterCommon
  <1>20. CASE WaitResized(t)
    BY <1>20 DEF WaitResized
  <1>21. CASE SwapMetadata(t)
    BY <1>21 DEF SwapMetadata
  <1>22. CASE SetResized(t)
    BY <1>22 DEF SetResized
  <1>23. CASE FailEvents(t)
    BY <1>23 DEF FailEvents
  <1> QED
    BY <1>1, <1>2, <1>3, <1>4, <1>5, <1>6, <1>7, <1>8, <1>9, <1>10, <1>11, <1>12, <1>13,
       <1>14, <1>15, <1>16, <1>17, <1>18, <1>19, <1>20, <1>21, <1>22, <1>23 DEF Moves,
       Step
\* A thread that does not move holds what it held.
LEMMA OthersHold ==
  ASSUME NEW v \in Threads, UNCHANGED accessors,
         pc'[v] = pc[v], job'[v] = job[v], cursor'[v] = cursor[v]
  PROVE  /\ HoldsSync(v)' <=> HoldsSync(v)
         /\ HoldsList(v)' <=> HoldsList(v)
         /\ Working(v)' <=> Working(v)
         /\ Taken(v)' = Taken(v)
  BY DEF Taken, HoldsSync, HoldsList, Working

\* The account of the mutexes is right after every step.
LEMMA LockStep ==
  ASSUME Inv, NEW t \in Threads, Moves(t)
  PROVE  LockState'
  <1>0. TypeOK /\ LockState /\ Shape(t) /\ Accessors /\ NULL \notin Threads
    BY ResizeAssumption DEF Inv
  <1> USE <1>0
  <1>1. CASE SameHolds(t)
    BY <1>1, SameHoldsSameLocks
  \* The thread's own mutex.
  <1>2. ASSUME UNCHANGED <<accessors, sync_op, accessors_lock, cursor>>,
               NEW k, job' = [job EXCEPT ![t] = k] \/ UNCHANGED job,
               ~HoldsList(t), ~HoldsList(t)', ~HoldsSync(t), ~HoldsSync(t)',
               NEW l, pc' = [pc EXCEPT ![t] = l],
               \/ /\ self_mutex[t] = NULL /\ Working(t)'
                  /\ self_mutex' = [self_mutex EXCEPT ![t] = t]
               \/ /\ Working(t) /\ ~Working(t)'
                  /\ self_mutex' = [self_mutex EXCEPT ![t] = NULL]
        PROVE  LockState'
    <2>1. ASSUME NEW v \in Threads, v # t
          PROVE  /\ HoldsSync(v)' <=> HoldsSync(v)
                 /\ HoldsList(v)' <=> HoldsList(v)
                 /\ Working(v)' <=> Working(v)
                 /\ Taken(v)' = Taken(v)
      <3>1. pc'[v] = pc[v] /\ job'[v] = job[v] /\ cursor'[v] = cursor[v]
        BY <1>2, <2>1 DEF TypeOK
      <3> QED  BY <1>2, <3>1, OthersHold
    <2>2. Taken(t) = {} /\ Taken(t)' = {}
      BY <1>2 DEF Taken
    <2>3. ASSUME NEW v \in Threads
          PROVE  (sync_op = v <=> HoldsSync(v))' /\ (accessors_lock = v <=> HoldsList(v))'
      BY <1>2, <2>1, <2>3 DEF LockState
    <2>4. ASSUME NEW v \in Threads, NEW u \in Threads
          PROVE  (self_mutex[u] = v <=>
                    (u = v /\ Working(v)) \/ \E i \in Taken(v) : accessors[i] = u)'
      <3>1. self_mutex[u] = v <=> (u = v /\ Working(v)) \/ \E i \in Taken(v) : accessors[i] = u
        BY DEF LockState
      <3>2. self_mutex'[u] = IF u = t THEN self_mutex'[t] ELSE self_mutex[u]
        BY <1>2 DEF TypeOK
      <3>3. (Working(t) /\ self_mutex'[t] = NULL) \/ (self_mutex[t] = NULL /\ self_mutex'[t] = t)
        BY <1>2 DEF TypeOK
      <3>4. self_mutex[t] = t <=> Working(t)
        BY <2>2 DEF LockState
      <3>5. CASE v = t
        BY <1>2, <2>2, <3>1, <3>2, <3>3, <3>4, <3>5
      <3>6. CASE v # t
        BY <1>2, <2>1, <3>1, <3>2, <3>3, <3>4, <3>6
      <3> QED  BY <3>5, <3>6
    <2> QED  BY <2>3, <2>4 DEF LockState
  <1>3. CASE TryLock(t)
    <2>1. CASE self_mutex[t] # NULL
      BY <1>3, <2>1, SameHoldsSameLocks
         DEF TryLock, SameHolds, TypeOK, locks, Goto, HoldsList, HoldsSync, Working, Common
    <2>2. CASE self_mutex[t] = NULL
      BY <1>3, <2>2, <1>2 DEF TryLock, TypeOK, Goto, HoldsList, HoldsSync, Working, Common
    <2> QED  BY <2>1, <2>2
  <1>4. CASE Lock(t)
    BY <1>4, <1>2 DEF Lock, TypeOK, Goto, HoldsList, HoldsSync, Working, Common
  <1>5. CASE Check(t)
    <2>1. CASE resize_leader[meta[t]] = NULL
      BY <1>5, <2>1, SameHoldsSameLocks
         DEF Check, SameHolds, TypeOK, locks, Goto, HoldsList, HoldsSync, Working, Common
    <2>2. CASE resize_leader[meta[t]] # NULL
      BY <1>5, <2>2, <1>2 DEF Check, TypeOK, Goto, HoldsList, HoldsSync, Working, Common
    <2> QED  BY <2>1, <2>2
  <1>6. CASE Unlock(t)
    <2>1. ~HoldsList(t) /\ ~HoldsSync(t) /\ Working(t)
      BY <1>6 DEF Unlock, HoldsList, HoldsSync, Working, Common
    <2>2. CASE Goto(t, "idle") /\ UNCHANGED job
      BY <1>6, <2>1, <2>2, <1>2 DEF Unlock, TypeOK, Goto, HoldsList, HoldsSync, Working,
         Common
    <2>3. CASE Goto(t, "grow") /\ job' = [job EXCEPT ![t] = "grow"]
      BY <1>6, <2>1, <2>3, <1>2 DEF Unlock, TypeOK, Goto, HoldsList, HoldsSync, Working,
         Common
    <2> QED  BY <1>6, <2>2, <2>3 DEF Unlock
  \* sync_op, before and after the list of accessors.
  <1>7. ASSUME UNCHANGED <<accessors, accessors_lock, self_mutex, job, cursor>>,
               NEW l, pc' = [pc EXCEPT ![t] = l],
               HoldsList(t)' <=> HoldsList(t), ~Working(t), ~Working(t)',
               Taken(t)' = Taken(t),
               \/ sync_op = NULL /\ sync_op' = t /\ HoldsSync(t)'
               \/ HoldsSync(t) /\ sync_op' = NULL /\ ~HoldsSync(t)'
        PROVE  LockState'
    <2>1. ASSUME NEW v \in Threads, v # t
          PROVE  /\ HoldsSync(v)' <=> HoldsSync(v)
                 /\ HoldsList(v)' <=> HoldsList(v)
                 /\ Working(v)' <=> Working(v)
                 /\ Taken(v)' = Taken(v)
      <3>1. pc'[v] = pc[v] /\ job'[v] = job[v] /\ cursor'[v] = cursor[v]
        BY <1>7, <2>1 DEF TypeOK
      <3> QED  BY <1>7, <3>1, OthersHold
    <2>2. ASSUME NEW v \in Threads
          PROVE  (sync_op = v <=> HoldsSync(v))' /\ (accessors_lock = v <=> HoldsList(v))'
      <3>1. (sync_op = v <=> HoldsSync(v)) /\ (sync_op = t <=> HoldsSync(t))
            /\ (accessors_lock = v <=> HoldsList(v))
        BY DEF LockState
      <3> QED  BY <1>7, <2>1, <2>2, <3>1
    <2>3. ASSUME NEW v \in Threads, NEW u \in Threads
          PROVE  (self_mutex[u] = v <=>
                    (u = v /\ Working(v)) \/ \E i \in Taken(v) : accessors[i] = u)'
      BY <1>7, <2>1 DEF LockState
    <2> QED  BY <2>2, <2>3 DEF LockState
  <1>8. CASE LockSyncOp(t)
    <2>1. ~HoldsList(t) /\ ~HoldsList(t)' /\ HoldsSync(t)' /\ ~Working(t) /\ ~Working(t)'
      BY <1>8 DEF LockSyncOp, TypeOK, Goto, HoldsList, HoldsSync, Working, Common
    <2>2. Taken(t)' = Taken(t)
      BY <2>1 DEF Taken
    <2> QED  BY <1>8, <2>1, <2>2, <1>7 DEF LockSyncOp, Goto
  <1>9. CASE UnlockSyncOp(t)
    <2>1. /\ HoldsList(t) /\ HoldsList(t)' /\ HoldsSync(t) /\ ~HoldsSync(t)'
          /\ ~Working(t) /\ ~Working(t)'
      BY <1>9 DEF UnlockSyncOp, TypeOK, Goto, HoldsList, HoldsSync, Working, Common
    <2>2. Taken(t)' = Taken(t)
      BY <1>9, <2>1 DEF UnlockSyncOp, TypeOK, Goto, Taken, Shape
    <2> QED  BY <1>9, <2>1, <2>2, <1>7 DEF UnlockSyncOp, Goto
  \* The list of accessors: whoever takes it or gives it back holds no mutex of it.
  <1>10. ASSUME UNCHANGED <<accessors, sync_op, self_mutex>>,
                \A v \in Threads \ {t} :
                  pc'[v] = pc[v] /\ job'[v] = job[v] /\ cursor'[v] = cursor[v],
                HoldsSync(t)' <=> HoldsSync(t), ~Working(t), ~Working(t)',
                Taken(t) = {}, Taken(t)' = {},
                \/ accessors_lock = NULL /\ accessors_lock' = t /\ HoldsList(t)'
                \/ HoldsList(t) /\ accessors_lock' = NULL /\ ~HoldsList(t)'
         PROVE  LockState'
    <2>1. ASSUME NEW v \in Threads, v # t
          PROVE  /\ HoldsSync(v)' <=> HoldsSync(v)
                 /\ HoldsList(v)' <=> HoldsList(v)
                 /\ Working(v)' <=> Working(v)
                 /\ Taken(v)' = Taken(v)
      BY <1>10, <2>1, OthersHold
    <2>2. ASSUME NEW v \in Threads
          PROVE  (sync_op = v <=> HoldsSync(v))' /\ (accessors_lock = v <=> HoldsList(v))'
      <3>1. /\ sync_op = v <=> HoldsSync(v)
            /\ accessors_lock = v <=> HoldsList(v)
            /\ accessors_lock = t <=> HoldsList(t)
        BY DEF LockState
      <3> QED  BY <1>10, <2>1, <2>2, <3>1
    <2>3. ASSUME NEW v \in Threads, NEW u \in Threads
          PROVE  (self_mutex[u] = v <=>
                    (u = v /\ Working(v)) \/ \E i \in Taken(v) : accessors[i] = u)'
      BY <1>10, <2>1 DEF LockState
    <2> QED  BY <2>2, <2>3 DEF LockState
  <1>11. CASE LockAccessors(t)
    <2>1. /\ ~HoldsList(t) /\ HoldsList(t)' /\ HoldsSync(t) /\ HoldsSync(t)'
          /\ ~Working(t) /\ ~Working(t)'
      BY <1>11 DEF LockAccessors, TypeOK, Goto, HoldsList, HoldsSync, Working, Common
    <2>2. Taken(t) = {} /\ Taken(t)' = {}
      BY <1>11, <2>1 DEF LockAccessors, TypeOK, Goto, Taken, Shape
    <2> QED  BY <1>11, <2>1, <2>2, <1>10 DEF LockAccessors, Goto, TypeOK
  <1>12. CASE UnlockAccessors(t)
    <2>1. /\ HoldsList(t) /\ ~HoldsList(t)' /\ ~HoldsSync(t) /\ ~HoldsSync(t)'
          /\ ~Working(t) /\ ~Working(t)'
      BY <1>12 DEF UnlockAccessors, LeaveLoop, TypeOK, Goto, HoldsList, HoldsSync, Working,
                   Common
    <2>2. Taken(t) = {} /\ Taken(t)' = {}
      BY <1>12, <2>1 DEF UnlockAccessors, TypeOK, Taken
    <2>3. \A v \in Threads \ {t} :
             pc'[v] = pc[v] /\ job'[v] = job[v] /\ cursor'[v] = cursor[v]
      BY <1>12 DEF UnlockAccessors, LeaveLoop, Goto, TypeOK
    <2> QED  BY <1>12, <2>1, <2>2, <2>3, <1>10 DEF UnlockAccessors, Goto, TypeOK
  \* The mutexes of the accessors, one at a time.
  <1>13. ASSUME UNCHANGED <<accessors, sync_op, accessors_lock, pc, job>>, Advance(t),
                NEW a \in Threads, HoldsList(t), ~Working(t),
                \/ /\ self_mutex[a] = NULL /\ self_mutex' = [self_mutex EXCEPT ![a] = t]
                   /\ \A u \in Threads : (\E i \in Taken(t)' : accessors[i] = u)
                                         <=> (u = a \/ \E i \in Taken(t) : accessors[i] = u)
                \/ /\ \E i \in Taken(t) : accessors[i] = a
                   /\ self_mutex' = [self_mutex EXCEPT ![a] = NULL]
                   /\ \A u \in Threads : (\E i \in Taken(t)' : accessors[i] = u)
                                         <=> (u # a /\ \E i \in Taken(t) : accessors[i] = u)
         PROVE  LockState'
    <2>1. ASSUME NEW v \in Threads, v # t
          PROVE  /\ HoldsSync(v)' <=> HoldsSync(v)
                 /\ HoldsList(v)' <=> HoldsList(v)
                 /\ Working(v)' <=> Working(v)
                 /\ Taken(v)' = Taken(v)
      <3>1. cursor'[v] = cursor[v]
        BY <1>13, <2>1 DEF TypeOK, Advance
      <3> QED  BY <1>13, <2>1, <3>1, OthersHold
    <2>2. /\ HoldsSync(t)' <=> HoldsSync(t)
          /\ HoldsList(t)' <=> HoldsList(t)
          /\ ~Working(t)'
      BY <1>13 DEF HoldsSync, HoldsList, Working
    <2>3. ASSUME NEW v \in Threads
          PROVE  (sync_op = v <=> HoldsSync(v))' /\ (accessors_lock = v <=> HoldsList(v))'
      <3>1. (sync_op = v <=> HoldsSync(v)) /\ (accessors_lock = v <=> HoldsList(v))
        BY DEF LockState
      <3> QED  BY <1>13, <2>1, <2>2, <2>3, <3>1
    <2>4. ASSUME NEW v \in Threads, NEW u \in Threads
          PROVE  (self_mutex[u] = v <=>
                    (u = v /\ Working(v)) \/ \E i \in Taken(v) : accessors[i] = u)'
      <3>1. self_mutex[u] = v <=> (u = v /\ Working(v)) \/ \E i \in Taken(v) : accessors[i] = u
        BY DEF LockState
      <3>2. (\E i \in Taken(t) : accessors[i] = a) => self_mutex[a] = t
        BY <1>13 DEF LockState
      <3>3. self_mutex'[u] = IF u = a THEN self_mutex'[a] ELSE self_mutex[u]
        BY <1>13 DEF TypeOK
      <3>4. \/ self_mutex[a] = NULL /\ self_mutex'[a] = t
            \/ self_mutex[a] = t /\ self_mutex'[a] = NULL
        BY <1>13, <3>2 DEF TypeOK
      <3>5. CASE v = t
        BY <1>13, <2>2, <3>1, <3>3, <3>4, <3>5 DEF TypeOK
      <3>6. CASE v # t
        BY <1>13, <2>1, <3>1, <3>3, <3>4, <3>6
      <3> QED  BY <3>5, <3>6
    <2> QED  BY <2>3, <2>4 DEF LockState
  <1>14. CASE LockMutexes(t)
    <2>0. HoldsList(t) /\ ~Working(t)
      BY <1>14 DEF LockMutexes, HoldsList, Working
    <2>a. cursor[t] \in Nat \ {0} /\ Len(accessors) \in Nat /\ accessors \in Seq(Threads)
      BY DEF TypeOK
    <2>1. CASE cursor[t] > Len(accessors)
      <3>0. /\ \E l \in {"unlock_sync_op", "prepare"} : LeaveLoop(t, l)
            /\ UNCHANGED <<accessors, sync_op, accessors_lock, self_mutex, job>>
        BY <1>14, <2>a, <2>1 DEF LockMutexes
      <3>1. /\ HoldsList(t)' /\ HoldsSync(t)' /\ HoldsSync(t)
            /\ ~Working(t)' /\ pc'[t] \notin {"lock_mutexes", "unlock_mutexes"}
        BY <1>14, <3>0 DEF LockMutexes, LeaveLoop, Goto, TypeOK, HoldsList, HoldsSync,
           Working
      <3>2. Taken(t)' = Taken(t)
        BY <1>14, <2>0, <2>a, <2>1, <3>0, <3>1 DEF LockMutexes, Taken
      <3>3. SameHolds(t)
        BY <2>0, <3>0, <3>1, <3>2 DEF LeaveLoop, Goto, TypeOK, SameHolds, locks, Working
      <3> QED  BY <3>3, SameHoldsSameLocks
    <2>2. CASE cursor[t] <= Len(accessors)
      <3> DEFINE a == accessors[cursor[t]]
      <3>0. /\ UNCHANGED <<accessors, sync_op, accessors_lock, pc, job>> /\ Advance(t)
            /\ self_mutex[a] = NULL /\ self_mutex' = [self_mutex EXCEPT ![a] = t]
        BY <1>14, <2>a, <2>2 DEF LockMutexes
      <3>1. a \in Threads /\ cursor[t] \in 1..Len(accessors) /\ cursor'[t] = cursor[t] + 1
        <4>1. cursor[t] \in 1..Len(accessors)
          BY <2>a, <2>2
        <4> QED  BY <2>a, <3>0, <4>1 DEF TypeOK, Advance
      <3>2. Taken(t)' = Taken(t) \cup {cursor[t]}
        <4>1. pc[t] = "lock_mutexes" /\ pc'[t] = "lock_mutexes" /\ HoldsList(t)'
          BY <1>14, <3>0 DEF LockMutexes, HoldsList
        <4> QED  BY <2>0, <2>a, <3>0, <3>1, <4>1 DEF Taken
      <3>3. \A u \in Threads : (\E i \in Taken(t)' : accessors[i] = u)
                               <=> (u = a \/ \E i \in Taken(t) : accessors[i] = u)
        BY <3>2
      <3> QED  BY <2>0, <3>0, <3>1, <3>3, <1>13
    <2> QED  BY <2>a, <2>1, <2>2
  <1>15. CASE UnlockMutexes(t)
    <2> DEFINE a == accessors[cursor[t]]
    <2>1. HoldsList(t) /\ ~Working(t)
      BY <1>15 DEF UnlockMutexes, HoldsList, Working
    <2>2. a \in Threads /\ cursor[t] \in 1..Len(accessors) /\ cursor'[t] = cursor[t] + 1
      <3>1. cursor[t] \in Nat \ {0} /\ Len(accessors) \in Nat /\ accessors \in Seq(Threads)
        BY DEF TypeOK
      <3>2. cursor[t] \in 1..Len(accessors)
        BY <1>15, <3>1 DEF UnlockMutexes
      <3> QED  BY <1>15, <3>1, <3>2 DEF UnlockMutexes, TypeOK, Advance
    <2>3. Taken(t)' = Taken(t) \ {cursor[t]} /\ cursor[t] \in Taken(t)
      <3>1. /\ pc[t] = "unlock_mutexes" /\ pc'[t] = "unlock_mutexes" /\ HoldsList(t)'
            /\ UNCHANGED accessors
        BY <1>15 DEF UnlockMutexes, HoldsList
      <3> QED  BY <2>1, <2>2, <3>1 DEF Taken
    <2>4. \A i \in Taken(t) : accessors[i] = a => i = cursor[t]
      BY <2>2 DEF Accessors, Taken
    <2>5. \A u \in Threads : (\E i \in Taken(t)' : accessors[i] = u)
                             <=> (u # a /\ \E i \in Taken(t) : accessors[i] = u)
      BY <2>3, <2>4
    <2>6. /\ UNCHANGED <<accessors, sync_op, accessors_lock, pc, job>> /\ Advance(t)
          /\ self_mutex' = [self_mutex EXCEPT ![a] = NULL]
      BY <1>15 DEF UnlockMutexes
    <2>7. \E i \in Taken(t) : accessors[i] = a
      BY <2>3
    <2> QED  BY <2>1, <2>2, <2>5, <2>6, <2>7, <1>13
  <1>16. CASE Register(t)
    <2>1. ASSUME NEW v \in Threads
          PROVE  /\ HoldsSync(v)' <=> HoldsSync(v)
                 /\ ~HoldsList(v) /\ ~HoldsList(v)'
                 /\ Working(v)' <=> Working(v)
      <3>1. ~HoldsList(v)
        BY <1>16 DEF Register, LockState
      <3>2. CASE v = t
        BY <1>16, <3>1, <3>2 DEF Register, Goto, TypeOK, HoldsSync, HoldsList, Working,
           Common
      <3>3. CASE v # t
        BY <1>16, <3>1, <3>3 DEF Register, Goto, TypeOK, HoldsSync, HoldsList, Working
      <3> QED  BY <3>2, <3>3
    <2>2. \A v \in Threads : Taken(v) = {} /\ Taken(v)' = {}
      BY <2>1 DEF Taken
    <2> QED  BY <1>16, <2>1, <2>2 DEF Register, locks, LockState
  <1> QED
    BY <1>1, <1>3, <1>4, <1>5, <1>6, <1>8, <1>9, <1>11, <1>12, <1>14, <1>15, <1>16,
       LockQuiet
-----------------------------------------------------------------------------
\* What a step of thread t leaves alone: the other threads.
Others(t) ==
  \A u \in Threads \ {t} :
    /\ pc'[u] = pc[u] /\ job'[u] = job[u] /\ meta'[u] = meta[u]
    /\ cursor'[u] = cursor[u] /\ block'[u] = block[u]

\* A step of a thread does not touch what the other threads do next.
LEMMA StepIsLocal ==
  ASSUME TypeOK, NEW t \in Threads, Moves(t)
  PROVE  Others(t)
  <1>0. LocalTypes
    BY DEF TypeOK, LocalTypes
  <1> USE <1>0 DEF LocalTypes, Others, tableVars, locks, Goto, LeaveLoop, Advance
  <1>1. CASE StartWrite(t)
    BY <1>1 DEF StartWrite
  <1>2. CASE StartLen(t)
    BY <1>2 DEF StartLen
  <1>3. CASE Register(t)
    BY <1>3 DEF Register
  <1>4. CASE GetMeta(t)
    BY <1>4 DEF GetMeta
  <1>5. CASE TryLock(t)
    BY <1>5 DEF TryLock
  <1>6. CASE Help(t)
    BY <1>6 DEF Help
  <1>7. CASE Lock(t)
    BY <1>7 DEF Lock
  <1>8. CASE Check(t)
    BY <1>8 DEF Check
  <1>9. CASE Unlock(t)
    BY <1>9 DEF Unlock
  <1>10. CASE GrowGetMeta(t)
    BY <1>10 DEF GrowGetMeta
  <1>11. CASE CasLeader(t)
    BY <1>11 DEF CasLeader
  <1>12. CASE NewMeta(t)
    BY <1>12 DEF NewMeta
  <1>13. CASE LockSyncOp(t)
    BY <1>13 DEF LockSyncOp
  <1>14. CASE LockAccessors(t)
    BY <1>14 DEF LockAccessors
  <1>15. CASE LockMutexes(t)
    BY <1>15 DEF LockMutexes
  <1>16. CASE Prepare(t)
    BY <1>16 DEF Prepare
  <1>17. CASE SetReady(t)
    BY <1>17 DEF SetReady
  <1>18. CASE Follow(t)
    BY <1>18 DEF Follow
  <1>19. CASE CommonResize(t)
    BY <1>19 DEF CommonResize
  <1>20. CASE Participate(t)
    BY <1>20 DEF Participate
  <1>21. CASE Claim(t)
    BY <1>21 DEF Claim
  <1>22. CASE Migrate(t)
    BY <1>22 DEF Migrate
  <1>23. CASE Leave(t)
    BY <1>23 DEF Leave
  <1>24. CASE Recount(t)
    BY <1>24 DEF Recount
  <1>25. CASE Scan(t)
    BY <1>25 DEF Scan
  <1>26. CASE SetMigrated(t)
    BY <1>26 DEF SetMigrated
  <1>27. CASE WaitMigrated(t)
    BY <1>27 DEF WaitMigrated
  <1>28. CASE WaitResized(t)
    BY <1>28 DEF WaitResized
  <1>29. CASE SwapMetadata(t)
    BY <1>29 DEF SwapMetadata
  <1>30. CASE SetResized(t)
    BY <1>30 DEF SetResized
  <1>31. CASE UnlockSyncOp(t)
    BY <1>31 DEF UnlockSyncOp
  <1>32. CASE UnlockMutexes(t)
    BY <1>32 DEF UnlockMutexes
  <1>33. CASE UnlockAccessors(t)
    BY <1>33 DEF UnlockAccessors
  <1>34. CASE FailEvents(t)
    BY <1>34 DEF FailEvents
  <1> QED
    BY <1>1, <1>2, <1>3, <1>4, <1>5, <1>6, <1>7, <1>8, <1>9, <1>10, <1>11, <1>12, <1>13,
       <1>14, <1>15, <1>16, <1>17, <1>18, <1>19, <1>20, <1>21, <1>22, <1>23, <1>24, <1>25,
       <1>26, <1>27, <1>28, <1>29, <1>30, <1>31, <1>32, <1>33, <1>34 DEF Moves, Step

\* Accessors are only ever appended, one for each thread.
LEMMA AccessorsStep ==
  ASSUME Inv, NEW t \in Threads, Moves(t)
  PROVE  /\ Accessors'
         /\ Len(accessors) \in Nat /\ Len(accessors') \in Nat
         /\ Len(accessors) <= Len(accessors')
         /\ \A i \in 1..Len(accessors) : accessors'[i] = accessors[i]
         /\ \/ UNCHANGED accessors
            \/ /\ Register(t) /\ pc'[t] = "get_meta"
               /\ Len(accessors') = Len(accessors) + 1
               /\ accessors'[Len(accessors) + 1] = t
  <1>0. Accessors /\ Shape(t) /\ accessors \in Seq(Threads) /\ pc \in [Threads -> Labels]
    BY DEF Inv, TypeOK
  <1>1. CASE UNCHANGED accessors
    BY <1>0, <1>1 DEF Accessors
  <1>2. CASE Register(t)
    BY <1>0, <1>2 DEF Register, Goto, Accessors, Shape
  <1>3. UNCHANGED accessors \/ Register(t)
    BY DEF Moves, Step, tableVars, locks,
         StartWrite, StartLen, GetMeta, TryLock, Help, Lock, Check, Unlock,
         GrowGetMeta, CasLeader, NewMeta, LockSyncOp, LockAccessors, LockMutexes, Prepare,
         SetReady, Follow, CommonResize, Participate, Claim, Migrate, Leave, Recount, Scan,
         SetMigrated, WaitMigrated, WaitResized, SwapMetadata, SetResized, UnlockSyncOp,
         UnlockMutexes, UnlockAccessors, FailEvents
  <1> QED  BY <1>1, <1>2, <1>3

\* A thread is looked up in the list of accessors.
LEMMA RangeOfAccessors ==
  ASSUME accessors \in Seq(Threads), NEW t \in Threads
  PROVE  t \in Range(accessors) <=> HasAccessor(t)
  <1>1. DOMAIN accessors = 1..Len(accessors)
    OBVIOUS
  <1>2. Range(accessors) = {accessors[i] : i \in DOMAIN accessors}
    BY DEF Range
  <1> QED  BY <1>1, <1>2 DEF HasAccessor

\* Every thread stays where its job can be.
LEMMA ShapeStep ==
  ASSUME Inv, NEW t \in Threads, Moves(t), NEW u \in Threads
  PROVE  Shape(u)'
  <1>0. /\ LocalTypes /\ accessors \in Seq(Threads) /\ cursor[u] \in Nat
        /\ Shape(t) /\ Shape(u) /\ Others(t)
        /\ Len(accessors) \in Nat /\ Len(accessors') \in Nat
        /\ Len(accessors) <= Len(accessors')
        /\ \A i \in 1..Len(accessors) : accessors'[i] = accessors[i]
        /\ \/ UNCHANGED accessors
           \/ Register(t) /\ Len(accessors') = Len(accessors) + 1
              /\ accessors'[Len(accessors) + 1] = t
    BY StepIsLocal, AccessorsStep DEF Inv, TypeOK, LocalTypes
  <1>a. CASE u # t
    <2>1. /\ pc'[u] = pc[u] /\ job'[u] = job[u] /\ cursor'[u] = cursor[u]
      BY <1>0, <1>a DEF Others
    <2>2. HasAccessor(u) => HasAccessor(u)'
      BY <1>0 DEF HasAccessor
    <2>3. (\A i \in 1..Len(accessors) : accessors[i] # u)
          => \A i \in 1..Len(accessors') : accessors'[i] # u
      BY <1>0, <1>a
    <2> QED  BY <1>0, <2>1, <2>2, <2>3 DEF Shape
  <1> SUFFICES ASSUME u = t
      PROVE  Shape(t)'
    BY <1>a
  <1>b. HasAccessor(t) => HasAccessor(t)'
    BY <1>0 DEF HasAccessor
  <1> USE <1>0, <1>b
      DEF LocalTypes, Shape, Common, LeadersOnly, WritersOnly, Locking, Fails,
          tableVars, locks, Goto, LeaveLoop, Advance
  <1>1. CASE StartWrite(t)
    <2>1. t \in Range(accessors) <=> HasAccessor(t)
      BY RangeOfAccessors
    <2>2. UNCHANGED accessors => HasAccessor(t)' = HasAccessor(t)
      BY DEF HasAccessor
    <2> QED  BY <1>1, <2>1, <2>2 DEF StartWrite, HasAccessor
  <1>2. CASE StartLen(t)
    BY <1>2 DEF StartLen
  <1>3. CASE Register(t)
    BY <1>3 DEF Register, WritersOnly, HasAccessor
  <1>4. CASE GetMeta(t)
    BY <1>4 DEF GetMeta
  <1>5. CASE TryLock(t)
    BY <1>5 DEF TryLock
  <1>6. CASE Help(t)
    BY <1>6 DEF Help
  <1>7. CASE Lock(t)
    BY <1>7 DEF Lock
  <1>8. CASE Check(t)
    BY <1>8 DEF Check
  <1>9. CASE Unlock(t)
    BY <1>9 DEF Unlock
  <1>10. CASE GrowGetMeta(t)
    BY <1>10 DEF GrowGetMeta
  <1>11. CASE CasLeader(t)
    BY <1>11 DEF CasLeader
  <1>12. CASE NewMeta(t)
    BY <1>12 DEF NewMeta
  <1>13. CASE LockSyncOp(t)
    BY <1>13 DEF LockSyncOp
  <1>14. CASE LockAccessors(t)
    BY <1>14 DEF LockAccessors
  <1>15. CASE LockMutexes(t)
    <2>1. UNCHANGED <<accessors, job>> /\ cursor[t] \in Nat /\ pc[t] = "lock_mutexes"
      BY <1>15 DEF LockMutexes
    <2>2. CASE \E l \in {"unlock_sync_op", "prepare"} : LeaveLoop(t, l)
      BY <1>15, <2>1, <2>2 DEF LockMutexes
    <2>3. CASE cursor[t] <= Len(accessors) /\ Advance(t) /\ UNCHANGED pc
      <3>1. cursor'[t] <= Len(accessors) + 1
        BY <2>1, <2>3
      <3> QED  BY <2>1, <2>3, <3>1
    <2> QED  BY <1>15, <2>2, <2>3 DEF LockMutexes
  <1>16. CASE Prepare(t)
    BY <1>16 DEF Prepare
  <1>17. CASE SetReady(t)
    BY <1>17 DEF SetReady
  <1>18. CASE Follow(t)
    BY <1>18 DEF Follow
  <1>19. CASE CommonResize(t)
    BY <1>19 DEF CommonResize, AfterCommon
  <1>20. CASE Participate(t)
    BY <1>20 DEF Participate
  <1>21. CASE Claim(t)
    BY <1>21 DEF Claim
  <1>22. CASE Migrate(t)
    BY <1>22 DEF Migrate
  <1>23. CASE Leave(t)
    BY <1>23 DEF Leave
  <1>24. CASE Recount(t)
    BY <1>24 DEF Recount
  <1>25. CASE Scan(t)
    BY <1>25 DEF Scan
  <1>26. CASE SetMigrated(t)
    BY <1>26 DEF SetMigrated
  <1>27. CASE WaitMigrated(t)
    BY <1>27 DEF WaitMigrated, AfterCommon
  <1>28. CASE WaitResized(t)
    BY <1>28 DEF WaitResized
  <1>29. CASE SwapMetadata(t)
    BY <1>29 DEF SwapMetadata
  <1>30. CASE SetResized(t)
    BY <1>30 DEF SetResized
  <1>31. CASE UnlockSyncOp(t)
    BY <1>31 DEF UnlockSyncOp
  <1>32. CASE UnlockMutexes(t)
    <2>1. /\ UNCHANGED <<accessors, job, pc>> /\ cursor[t] \in Nat /\ pc[t] = "unlock_mutexes"
          /\ cursor[t] <= Len(accessors) /\ Advance(t)
      BY <1>32 DEF UnlockMutexes
    <2>2. cursor'[t] <= Len(accessors) + 1
      BY <2>1
    <2> QED  BY <2>1, <2>2
  <1>33. CASE UnlockAccessors(t)
    BY <1>33 DEF UnlockAccessors
  <1>34. CASE FailEvents(t)
    <2>1. UNCHANGED <<accessors, job, cursor>> /\ pc[t] \in Fails
          /\ \E l \in {"fail_migrated", "fail_ready", "idle"} : Goto(t, l)
      BY <1>34 DEF FailEvents
    <2> QED  BY <2>1
  <1> QED
    BY <1>1, <1>2, <1>3, <1>4, <1>5, <1>6, <1>7, <1>8, <1>9, <1>10, <1>11, <1>12, <1>13,
       <1>14, <1>15, <1>16, <1>17, <1>18, <1>19, <1>20, <1>21, <1>22, <1>23, <1>24, <1>25,
       <1>26, <1>27, <1>28, <1>29, <1>30, <1>31, <1>32, <1>33, <1>34 DEF Moves, Step
-----------------------------------------------------------------------------
\* Which steps change a table.
LEMMA TableQuiet ==
  ASSUME NEW t \in Threads, Moves(t)
  PROVE  \/ UNCHANGED tableVars
         \/ CasLeader(t) \/ Prepare(t) \/ SetReady(t) \/ Participate(t) \/ Claim(t)
         \/ Migrate(t) \/ Leave(t) \/ SetMigrated(t) \/ SwapMetadata(t) \/ SetResized(t)
         \/ FailEvents(t)
  BY DEF Moves, Step, StartWrite, StartLen, Register, GetMeta, TryLock, Help, Lock, Check,
         Unlock, GrowGetMeta, NewMeta, LockSyncOp, LockAccessors, LockMutexes, Follow,
         CommonResize, Recount, Scan, WaitMigrated, WaitResized, UnlockSyncOp,
         UnlockMutexes, UnlockAccessors

\* A leader does not leave a migration before it has swapped the tables.
LEMMA MigratingStep ==
  ASSUME TypeOK, NEW t \in Threads, Moves(t), Migrating(t), ~SwapMetadata(t)
  PROVE  Migrating(t)'
  <1>0. LocalTypes
    BY DEF TypeOK, LocalTypes
  <1> USE <1>0 DEF LocalTypes, Migrating, Common, tableVars, locks, Goto, LeaveLoop, Advance
  <1>1. CASE SetReady(t)
    BY <1>1 DEF SetReady
  <1>2. CASE CommonResize(t)
    BY <1>2 DEF CommonResize, AfterCommon
  <1>3. CASE Participate(t)
    BY <1>3 DEF Participate
  <1>4. CASE Claim(t)
    BY <1>4 DEF Claim
  <1>5. CASE Migrate(t)
    BY <1>5 DEF Migrate
  <1>6. CASE Leave(t)
    BY <1>6 DEF Leave
  <1>7. CASE Recount(t)
    BY <1>7 DEF Recount
  <1>8. CASE Scan(t)
    BY <1>8 DEF Scan
  <1>9. CASE SetMigrated(t)
    BY <1>9 DEF SetMigrated
  <1>10. CASE WaitMigrated(t)
    BY <1>10 DEF WaitMigrated, AfterCommon
  <1>11. SetReady(t) \/ CommonResize(t) \/ Participate(t) \/ Claim(t) \/ Migrate(t)
      \/ Leave(t) \/ Recount(t) \/ Scan(t) \/ SetMigrated(t) \/ WaitMigrated(t)
    BY DEF Moves, Step, StartWrite, StartLen, Register, GetMeta, TryLock, Help, Lock,
       Check, Unlock, GrowGetMeta, CasLeader, NewMeta, LockSyncOp, LockAccessors,
       LockMutexes, Prepare, Follow, WaitResized, SetResized, UnlockSyncOp, UnlockMutexes,
       UnlockAccessors, FailEvents
  <1> QED
    BY <1>1, <1>2, <1>3, <1>4, <1>5, <1>6, <1>7, <1>8, <1>9, <1>10, <1>11

\* Nobody else leads the same resize.
LEMMA OneLeader ==
  ASSUME Inv, NEW t \in Threads, NEW u \in Threads, Leads(t), Leads(u), meta[t] = meta[u]
  PROVE  t = u
  BY DEF Inv, LeadState

\* A leader that migrates holds the list of accessors, and all their mutexes.
LEMMA MigratorHolds ==
  ASSUME Inv, NEW t \in Threads, Migrating(t) \/ pc[t] = "prepare"
  PROVE  /\ accessors_lock = t
         /\ \A u \in Threads : HasAccessor(u) => self_mutex[u] = t
  <1>1. LockState /\ Shape(t)
    BY DEF Inv
  <1>2. HoldsList(t) /\ pc[t] \notin {"lock_mutexes", "unlock_mutexes"}
    BY DEF Migrating, HoldsList, Common
  <1>3. Taken(t) = 1..Len(accessors)
    BY <1>2 DEF Taken
  <1> QED  BY <1>1, <1>2, <1>3 DEF LockState, HasAccessor

\* So there is one of them, and no writer is in its critical section.
LEMMA MigratorAlone ==
  ASSUME Inv, NEW t \in Threads, NEW u \in Threads, u # t,
         Migrating(t) \/ pc[t] = "prepare"
  PROVE  ~Migrating(u) /\ pc[u] # "critical"
  <1>1. ~Migrating(u)
    BY MigratorHolds
  <1>2. ASSUME pc[u] = "critical"
        PROVE  FALSE
    <2>1. Shape(u) /\ LockState
      BY DEF Inv
    <2>2. HasAccessor(u)
      BY <1>2, <2>1 DEF Shape, WritersOnly
    <2>3. self_mutex[u] = u
      BY <1>2, <2>1 DEF LockState, Working
    <2> QED  BY <2>2, <2>3, MigratorHolds
  <1> QED  BY <1>1, <1>2
\* The invariant, at one thread.
LEMMA Parts ==
  ASSUME Inv, NEW t \in Threads
  PROVE  /\ TypeOK /\ Accessors /\ LockState
         /\ Shape(t) /\ LeadState(t) /\ SeatState(t) /\ WorkState(t)
         /\ meta[t] \in Generations /\ GenState(meta[t]) /\ BlockState(meta[t])
         /\ meta[t] \in Int /\ metadata \in Generations /\ metadata \in Int
         /\ GenState(metadata)
         /\ MaxGeneration \in Int /\ Blocks \in Nat \ {0} /\ NULL \notin Threads
  <1>1. TypeOK /\ meta[t] \in Generations /\ metadata \in Generations
    BY DEF Inv, TypeOK
  <1>2. meta[t] \in Int /\ metadata \in Int
    BY <1>1, ResizeAssumption DEF Generations
  <1> QED  BY <1>1, <1>2, ResizeAssumption DEF Inv

\* A thread that takes part in a migration has a seat, and writes to it only.
LEMMA SeatStep ==
  ASSUME Inv, NEW t \in Threads, Participate(t) \/ Leave(t)
  PROVE  /\ Accessor(t) \in 1..Len(participants[meta[t]])
         /\ AccessorAt(Accessor(t), t)
         /\ \A g \in Generations :
              /\ Len(participants'[g]) = Len(participants[g])
              /\ \A i \in 1..Len(participants[g]) :
                   participants'[g][i] =
                     IF g = meta[t] /\ i = Accessor(t)
                     THEN IF pc[t] = "participate" THEN 1 ELSE 2
                     ELSE participants[g][i]
  <1>0. pc[t] \in {"participate", "leave"}
    BY DEF Participate, Leave
  <1>1. PICK i \in 1..Len(participants[meta[t]]) : AccessorAt(i, t)
    BY <1>0, Parts DEF SeatState, Joining, Common, Bound, Shape
  <1>2. Accessor(t) = i
    BY <1>1, Parts DEF Accessor, AccessorAt, Accessors
  <1> DEFINE v == IF pc[t] = "participate" THEN 1 ELSE 2
  <1>3. participants' = [participants EXCEPT ![meta[t]][Accessor(t)] = v]
    BY DEF Participate, Leave
  <1>4. participants \in [Generations -> Seq(0..2)] /\ meta[t] \in Generations /\ v \in 0..2
    BY Parts DEF TypeOK
  <1>5. ASSUME NEW g \in Generations
        PROVE  /\ Len(participants'[g]) = Len(participants[g])
               /\ \A j \in 1..Len(participants[g]) :
                    participants'[g][j] =
                      IF g = meta[t] /\ j = Accessor(t) THEN v ELSE participants[g][j]
    <2>1. CASE g = meta[t]
      <3>1. participants'[g] = [participants[g] EXCEPT ![Accessor(t)] = v]
        BY <1>3, <1>4, <2>1
      <3> QED  BY <1>4, <2>1, <3>1, SeatWrite
    <2>2. CASE g # meta[t]
      BY <1>3, <1>4, <2>2
    <2> QED  BY <2>1, <2>2
  <1> QED  BY <1>1, <1>2, <1>5

\* How far the resize of a table is, after every step.
LEMMA GenStep ==
  ASSUME Inv, NEW t \in Threads, Moves(t), NEW g \in Generations
  PROVE  GenState(g)'
  <1>0. /\ TypeOK /\ Shape(t) /\ LeadState(t) /\ GenState(g) /\ GenState(meta[t])
        /\ Others(t) /\ meta[t] \in Generations /\ NULL \notin Threads
        /\ g \in Int /\ metadata \in Int /\ meta[t] \in Int /\ MaxGeneration \in Int
    <2>1. TypeOK /\ GenState(g)
      BY DEF Inv
    <2>2. g \in Int
      BY ResizeAssumption DEF Generations
    <2> QED  BY <2>1, <2>2, StepIsLocal, Parts
  <1>m. ASSUME NEW v \in Threads, Migrating(v), ~SwapMetadata(t)
        PROVE  Migrating(v)'
    <2>1. CASE v = t
      BY <1>0, <1>m, <2>1, MigratingStep
    <2>2. CASE v # t
      BY <1>0, <1>m, <2>2 DEF Others, Migrating
    <2> QED  BY <2>1, <2>2
  <1>n. resize_leader[g] # NULL => resize_leader[g] \in Threads
    BY <1>0 DEF TypeOK
  \* The events and the blocks of g, if the tables and the leaders stay.
  <1>k. ASSUME UNCHANGED <<metadata, resize_leader>>, ~SwapMetadata(t),
               Len(participants'[g]) = 0 <=> Empty(g),
               AllMigrated(g) => AllMigrated(g)',
               resize_leader[g] = NULL =>
                 /\ ~new_metadata_ready'[g] /\ ~node_migration_done'[g] /\ ~resize_done'[g],
               resize_done'[g] => Empty(g) \/ g < metadata,
               new_metadata_ready'[g] => node_migration_done'[g] \/ ~Empty(g),
               node_migration_done'[g] => Empty(g) \/ AllMigrated(g)'
        PROVE  GenState(g)'
    <2>1. Empty(g)' <=> Empty(g)
      BY <1>k DEF Empty
    <2>2. g = metadata /\ ~Empty(g) => Migrating(resize_leader[g])'
      <3> SUFFICES ASSUME g = metadata, ~Empty(g)
          PROVE  Migrating(resize_leader[g])'
        OBVIOUS
      <3>1. resize_leader[g] \in Threads /\ Migrating(resize_leader[g])
        BY <1>0, <1>n DEF GenState, Pristine
      <3>2. resize_leader'[g] = resize_leader[g]
        BY <1>k
      <3> QED  BY <1>m, <1>k, <3>1, <3>2
    <2> QED  BY <1>0, <1>k, <2>1, <2>2 DEF GenState, Pristine
  <1>1. CASE UNCHANGED tableVars /\ ~SwapMetadata(t)
    BY <1>0, <1>1, <1>k DEF GenState, Pristine, Empty, AllMigrated, tableVars
  <1>2. CASE CasLeader(t)
    <2>1. CASE resize_leader[meta[t]] # NULL
      <3>1. UNCHANGED tableVars /\ ~SwapMetadata(t)
        BY <1>2, <2>1 DEF CasLeader, tableVars, SwapMetadata
      <3> QED  BY <3>1, <1>1
    <2>2. CASE resize_leader[meta[t]] = NULL
      <3>1. /\ resize_leader' = [resize_leader EXCEPT ![meta[t]] = t]
            /\ UNCHANGED <<metadata, new_metadata_ready, node_migration_done, resize_done,
                           participants, migrated>>
            /\ ~SwapMetadata(t)
        BY <1>2, <2>2 DEF CasLeader, SwapMetadata
      <3>2. CASE g = meta[t]
        <4>1. resize_leader'[g] = t /\ g < MaxGeneration /\ Pristine(g) /\ g = metadata
          BY <1>0, <1>2, <2>2, <3>1, <3>2 DEF CasLeader, LeadState, GenState, TypeOK
        <4> QED  BY <1>0, <3>1, <4>1 DEF GenState, Pristine, Empty
      <3>3. CASE g # meta[t]
        <4>1. resize_leader'[g] = resize_leader[g]
          BY <1>0, <3>1, <3>3 DEF TypeOK
        <4>2. g = metadata /\ ~Empty(g) => Migrating(resize_leader[g])'
          BY <1>0, <1>n, <1>m, <3>1, <4>1 DEF GenState, Pristine
        <4> QED  BY <1>0, <3>1, <4>1, <4>2 DEF GenState, Pristine, Empty, AllMigrated
      <3> QED  BY <3>2, <3>3
    <2> QED  BY <2>1, <2>2
  <1>3. CASE Prepare(t)
    <2>1. CASE UNCHANGED participants
      <3>1. UNCHANGED tableVars /\ ~SwapMetadata(t)
        BY <1>3, <2>1 DEF Prepare, tableVars, SwapMetadata
      <3> QED  BY <3>1, <1>1
    <2>2. CASE participants' = [participants EXCEPT ![meta[t]] = [i \in 1..Len(accessors) |-> 0]]
                               /\ Goto(t, "ready")
      <3>1. /\ UNCHANGED <<metadata, resize_leader, new_metadata_ready, node_migration_done,
                           resize_done, migrated, job>>
            /\ ~SwapMetadata(t) /\ pc[t] = "prepare"
        BY <1>3 DEF Prepare, SwapMetadata
      <3>2. CASE g = meta[t]
        <4>1. resize_leader[g] = t /\ Pristine(g) /\ g = metadata /\ job[t] = "lead"
          BY <1>0, <3>1, <3>2 DEF LeadState, Shape, LeadersOnly, Leads
        <4>2. Migrating(t)'
          BY <1>0, <2>2, <3>1, <4>1 DEF Migrating, Goto, TypeOK
        <4> QED  BY <1>0, <3>1, <4>1, <4>2 DEF GenState, Pristine
      <3>3. CASE g # meta[t]
        <4>1. participants'[g] = participants[g]
          BY <1>0, <2>2, <3>3 DEF TypeOK
        <4> QED  BY <1>0, <3>1, <4>1, <1>k DEF GenState, Pristine, Empty, AllMigrated
      <3> QED  BY <3>2, <3>3
    <2> QED  BY <1>3, <2>1, <2>2 DEF Prepare
  <1>4. CASE SetReady(t)
    <2>1. /\ UNCHANGED <<metadata, resize_leader, node_migration_done, resize_done,
                         participants, migrated>>
          /\ ~SwapMetadata(t)
          /\ new_metadata_ready'[g] => new_metadata_ready[g] \/ g = meta[t]
      BY <1>0, <1>4 DEF SetReady, SwapMetadata, Set, TypeOK
    <2>2. resize_leader[meta[t]] = t /\ ~Empty(meta[t])
      BY <1>0, <1>4 DEF SetReady, LeadState, Shape, LeadersOnly, Leads, Migrating
    <2> QED  BY <1>0, <2>1, <2>2, <1>k DEF GenState, Pristine, Empty, AllMigrated
  <1>5. CASE Participate(t) \/ Leave(t)
    <2>1. /\ UNCHANGED <<metadata, resize_leader, new_metadata_ready, node_migration_done,
                         resize_done, migrated>>
          /\ ~SwapMetadata(t)
      BY <1>5 DEF Participate, Leave, SwapMetadata
    <2>2. Len(participants'[g]) = Len(participants[g])
      BY <1>5, SeatStep
    <2> QED  BY <1>0, <2>1, <2>2, <1>k DEF GenState, Pristine, Empty, AllMigrated
  <1>6. CASE Claim(t)
    BY <1>0, <1>6, <1>k DEF Claim, SwapMetadata, GenState, Pristine, Empty, AllMigrated
  <1>7. CASE Migrate(t)
    <2>1. /\ UNCHANGED <<metadata, resize_leader, new_metadata_ready, node_migration_done,
                         resize_done, participants>>
          /\ ~SwapMetadata(t)
      BY <1>7 DEF Migrate, SwapMetadata
    <2>2. AllMigrated(g) => AllMigrated(g)'
      BY <1>0, <1>7 DEF Migrate, AllMigrated, TypeOK
    <2> QED  BY <1>0, <2>1, <2>2, <1>k DEF GenState, Pristine, Empty
  <1>8. CASE SetMigrated(t)
    <2>1. /\ UNCHANGED <<metadata, resize_leader, new_metadata_ready, resize_done,
                         participants, migrated>>
          /\ ~SwapMetadata(t)
          /\ node_migration_done'[g] => node_migration_done[g] \/ g = meta[t]
          /\ node_migration_done[g] => node_migration_done'[g]
      BY <1>0, <1>8 DEF SetMigrated, SwapMetadata, Set, TypeOK
    <2>2. AllMigrated(meta[t])
      <3>1. /\ node_to_migrate[meta[t]] >= Blocks /\ node_to_migrate[meta[t]] \in Nat
            /\ \A v \in Threads : ~AtWork(v, meta[t])
        BY <1>0, <1>8, Parts DEF SetMigrated, WorkState, TypeOK
      <3>2. ASSUME NEW b \in 0..(Blocks - 1)
            PROVE  b < node_to_migrate[meta[t]]
        BY <3>1, Parts
      <3> QED  BY <3>1, <3>2, Parts DEF BlockState, AllMigrated
    <2>3. resize_leader[meta[t]] # NULL
      <3>1. ~Empty(meta[t])
        BY <1>8, Parts DEF SetMigrated, SeatState, Joining, Common
      <3> QED  BY <1>0, <3>1 DEF GenState, Pristine
    <2> QED  BY <1>0, <2>1, <2>2, <2>3, <1>k DEF GenState, Pristine, Empty, AllMigrated
  <1>9. CASE SwapMetadata(t)
    <2>1. /\ UNCHANGED <<resize_leader, new_metadata_ready, node_migration_done, resize_done,
                         participants, migrated>>
          /\ metadata = meta[t] /\ metadata' = meta[t] + 1 /\ resize_leader[meta[t]] = t
          /\ node_migration_done[meta[t]] /\ ~Empty(meta[t])
      BY <1>0, <1>9 DEF SwapMetadata, LeadState, Shape, LeadersOnly, Leads, Migrating
    <2>2. AllMigrated(meta[t])
      BY <1>0, <2>1 DEF GenState
    <2>3. CASE g = meta[t]
      BY <1>0, <2>1, <2>2, <2>3 DEF GenState, Pristine, Empty, AllMigrated
    <2>4. CASE g # meta[t]
      BY <1>0, <2>1, <2>4 DEF GenState, Pristine, Empty, AllMigrated
    <2> QED  BY <2>3, <2>4
  <1>10. CASE SetResized(t)
    <2>1. /\ UNCHANGED <<metadata, resize_leader, new_metadata_ready, node_migration_done,
                         participants, migrated>>
          /\ ~SwapMetadata(t)
          /\ resize_done'[g] => resize_done[g] \/ g = meta[t]
      BY <1>0, <1>10 DEF SetResized, SwapMetadata, Set, TypeOK
    <2>2. meta[t] < metadata /\ resize_leader[meta[t]] = t
      BY <1>0, <1>10 DEF SetResized, LeadState, Shape, LeadersOnly, Leads
    <2> QED  BY <1>0, <2>1, <2>2, <1>k DEF GenState, Pristine, Empty, AllMigrated
  <1>11. CASE FailEvents(t)
    <2>1. /\ resize_leader[meta[t]] = t /\ Empty(meta[t])
          /\ UNCHANGED <<metadata, resize_leader, participants, migrated>> /\ ~SwapMetadata(t)
          /\ pc[t] = "fail_ready" => node_migration_done[meta[t]]
      BY <1>0, <1>11 DEF FailEvents, SwapMetadata, LeadState, Leads, Fails, Failing
    <2>2. CASE g = meta[t]
      BY <1>0, <1>11, <2>1, <2>2, <1>k
         DEF FailEvents, Set, GenState, Empty, AllMigrated, TypeOK
    <2>3. CASE g # meta[t]
      <3>1. UNCHANGED <<new_metadata_ready[g], node_migration_done[g], resize_done[g]>>
        BY <1>0, <1>11, <2>3 DEF FailEvents, Set, TypeOK
      <3> QED  BY <1>0, <2>1, <3>1, <1>k DEF GenState, Pristine, Empty, AllMigrated
    <2> QED  BY <2>2, <2>3
  <1> QED
    BY <1>1, <1>2, <1>3, <1>4, <1>5, <1>6, <1>7, <1>8, <1>9, <1>10, <1>11, TableQuiet

\* A step keeps what is known of the other threads's resizes.
LEMMA LeadOthers ==
  ASSUME Inv, NEW t \in Threads, Moves(t), NEW u \in Threads, u # t
  PROVE  LeadState(u)'
  <1>0. /\ TypeOK /\ LeadState(u) /\ meta[u] \in Generations
        /\ meta[u] \in Int /\ meta[t] \in Int /\ metadata \in Int /\ meta[t] \in Generations
        /\ pc'[u] = pc[u] /\ job'[u] = job[u] /\ meta'[u] = meta[u]
        /\ NULL \notin Threads
    BY Parts, StepIsLocal DEF Others
  <1>1. (Leads(u)' <=> Leads(u)) /\ (Migrating(u)' <=> Migrating(u))
    BY <1>0 DEF Leads, Migrating
  <1>2. Leads(t) /\ Leads(u) => meta[u] # meta[t]
    BY OneLeader
  <1>3. Migrating(u) => UNCHANGED accessors
    BY MigratorHolds, AccessorsStep, <1>0 DEF Register
  <1>a. /\ Migrating(u) => Leads(u)
        /\ pc[u] = "swap" => Leads(u)
        /\ pc[u] = "set_resized" => Leads(u)
        /\ pc[u] \in Fails => Leads(u)
        /\ pc[u] = "fail_ready" => Leads(u)
        /\ pc[u] \in {"new_meta", "lock_sync_op", "lock_accessors", "lock_mutexes", "prepare"}
             /\ job[u] = "lead" => Leads(u)
        /\ pc[u] \in {"unlock_sync_op", "unlock_mutexes"} /\ job[u] = "lead" => Leads(u)
    BY Parts DEF Shape, LeadersOnly, Leads, Migrating, Common, Fails
  \* The leader's view of its own table, if nobody else touches it.
  <1>k. ASSUME UNCHANGED metadata,
               new_metadata_ready[meta[u]] => new_metadata_ready'[meta[u]],
               Leads(u) =>
                 /\ UNCHANGED <<resize_leader[meta[u]], resize_done[meta[u]],
                                new_metadata_ready[meta[u]], Len(participants[meta[u]])>>
                 /\ \/ UNCHANGED node_migration_done[meta[u]]
                    \/ ~Empty(meta[u]) /\ node_migration_done'[meta[u]]
        PROVE  LeadState(u)'
    <2>1. CASE Leads(u)
      <3>1. /\ Empty(meta[u])' <=> Empty(meta[u])
            /\ Failing(u)' <=> Failing(u)
            /\ Pristine(meta[u]) => Pristine(meta[u])'
        BY <1>0, <1>k, <2>1 DEF Empty, Failing, Pristine
      <3> QED  BY <1>0, <1>1, <1>3, <1>k, <2>1, <3>1 DEF LeadState
    <2>2. CASE ~Leads(u)
      BY <1>0, <1>1, <1>a, <1>k, <2>2 DEF LeadState
    <2> QED  BY <2>1, <2>2
  <1>4. CASE UNCHANGED tableVars
    BY <1>0, <1>4, <1>k DEF tableVars
  <1>5. CASE CasLeader(t)
    <2>1. UNCHANGED <<metadata, new_metadata_ready, node_migration_done, resize_done, participants>>
      BY <1>5 DEF CasLeader
    <2>2. Leads(u) => UNCHANGED resize_leader[meta[u]]
      BY <1>0, <1>5 DEF CasLeader, LeadState, TypeOK
    <2> QED  BY <1>0, <1>k, <2>1, <2>2
  <1>6. CASE Prepare(t)
    <2>1. Leads(t)
      BY <1>6, Parts DEF Prepare, Shape, LeadersOnly, Leads
    <2>2. UNCHANGED <<metadata, resize_leader, new_metadata_ready, node_migration_done, resize_done>>
      BY <1>6 DEF Prepare
    <2>3. meta[u] # meta[t] => participants'[meta[u]] = participants[meta[u]]
      BY <1>0, <1>6 DEF Prepare, TypeOK
    <2> QED  BY <1>0, <1>2, <1>k, <2>1, <2>2, <2>3
  <1>7. CASE SetReady(t)
    <2>1. Leads(t)
      BY <1>7, Parts DEF SetReady, Shape, LeadersOnly, Leads
    <2>2. UNCHANGED <<metadata, resize_leader, node_migration_done, resize_done, participants>>
      BY <1>7 DEF SetReady
    <2>3. /\ new_metadata_ready[meta[u]] => new_metadata_ready'[meta[u]]
          /\ meta[u] # meta[t] => new_metadata_ready'[meta[u]] = new_metadata_ready[meta[u]]
      BY <1>0, <1>7 DEF SetReady, Set, TypeOK
    <2> QED  BY <1>0, <1>2, <1>k, <2>1, <2>2, <2>3
  <1>8. CASE Participate(t) \/ Leave(t)
    <2>1. UNCHANGED <<metadata, resize_leader, new_metadata_ready, node_migration_done, resize_done>>
      BY <1>8 DEF Participate, Leave
    <2>2. Len(participants'[meta[u]]) = Len(participants[meta[u]])
      BY <1>0, <1>8, SeatStep
    <2> QED  BY <1>0, <1>k, <2>1, <2>2
  <1>9. CASE Claim(t) \/ Migrate(t)
    BY <1>0, <1>9, <1>k DEF Claim, Migrate
  <1>10. CASE SetMigrated(t)
    <2>1. UNCHANGED <<metadata, resize_leader, new_metadata_ready, resize_done, participants>>
      BY <1>10 DEF SetMigrated
    <2>2. ~Empty(meta[t])
      BY <1>10, Parts DEF SetMigrated, SeatState, Joining, Common
    <2>3. IF meta[u] = meta[t] THEN node_migration_done'[meta[u]]
          ELSE node_migration_done'[meta[u]] = node_migration_done[meta[u]]
      BY <1>0, <1>10 DEF SetMigrated, Set, TypeOK
    <2> QED  BY <1>0, <1>k, <2>1, <2>2, <2>3
  <1>11. CASE SwapMetadata(t)
    <2>1. /\ UNCHANGED <<resize_leader, new_metadata_ready, node_migration_done, resize_done,
                         participants>>
          /\ metadata = meta[t] /\ metadata' = meta[t] + 1 /\ Leads(t) /\ Migrating(t)
      BY <1>11, Parts DEF SwapMetadata, LeadState, Shape, LeadersOnly, Leads, Migrating
    <2>2. ~Migrating(u) /\ pc[u] # "critical" /\ (Leads(u) => meta[u] # metadata)
      BY <1>2, <2>1, MigratorAlone
    <2> QED  BY <1>0, <1>1, <1>a, <2>1, <2>2 DEF LeadState, Failing, Empty
  <1>12. CASE SetResized(t)
    <2>1. Leads(t)
      BY <1>12, Parts DEF SetResized, Shape, LeadersOnly, Leads
    <2>2. UNCHANGED <<metadata, resize_leader, new_metadata_ready, node_migration_done, participants>>
      BY <1>12 DEF SetResized
    <2>3. meta[u] # meta[t] => resize_done'[meta[u]] = resize_done[meta[u]]
      BY <1>0, <1>12 DEF SetResized, Set, TypeOK
    <2> QED  BY <1>0, <1>2, <1>k, <2>1, <2>2, <2>3
  <1>13. CASE FailEvents(t)
    <2>1. Leads(t) /\ UNCHANGED <<metadata, resize_leader, participants>>
      BY <1>13 DEF FailEvents, Leads, Fails
    <2>2. /\ new_metadata_ready[meta[u]] => new_metadata_ready'[meta[u]]
          /\ meta[u] # meta[t] =>
               UNCHANGED <<new_metadata_ready[meta[u]], node_migration_done[meta[u]],
                           resize_done[meta[u]]>>
      BY <1>0, <1>13 DEF FailEvents, Set, TypeOK
    <2> QED  BY <1>0, <1>2, <1>k, <2>1, <2>2
  <1> QED
    BY <1>4, <1>5, <1>6, <1>7, <1>8, <1>9, <1>10, <1>11, <1>12, <1>13, TableQuiet
\* A step keeps what is known of the resize the thread itself leads or follows.
LEMMA LeadOwn ==
  ASSUME Inv, NEW t \in Threads, Moves(t)
  PROVE  LeadState(t)'
  <1>0. /\ LocalTypes
        /\ resize_leader \in [Generations -> Threads \cup {NULL}]
        /\ new_metadata_ready \in [Generations -> BOOLEAN]
        /\ node_migration_done \in [Generations -> BOOLEAN]
        /\ resize_done \in [Generations -> BOOLEAN]
        /\ participants \in [Generations -> Seq(0..2)]
        /\ Shape(t) /\ LeadState(t) /\ GenState(meta[t])
        /\ meta[t] \in Generations /\ meta[t] \in Int
        /\ metadata \in Int /\ metadata \in Generations /\ MaxGeneration \in Int
        /\ NULL \notin Threads /\ Len(accessors) \in Nat /\ Len(accessors) > 0
    <2>1. Len(accessors) \in Nat /\ Len(accessors) > 0
      BY Parts DEF TypeOK, Accessors
    <2> QED  BY <2>1, Parts DEF TypeOK, LocalTypes
  <1> USE <1>0
      DEF LocalTypes, LeadState, Leads, Migrating, Failing, Pristine, Empty, Fails, Common,
          tableVars, locks, Goto, LeaveLoop, Advance, Set
  <1>1. CASE StartWrite(t)
    BY <1>1 DEF StartWrite
  <1>2. CASE StartLen(t)
    BY <1>2 DEF StartLen
  <1>3. CASE Register(t)
    <2>1. UNCHANGED <<tableVars, job, meta>> /\ pc'[t] = "get_meta" /\ job[t] = "write"
      BY <1>3 DEF Register, Shape, WritersOnly
    <2> QED  BY <2>1
  <1>4. CASE GetMeta(t)
    <2>1. /\ UNCHANGED <<tableVars, job>> /\ meta'[t] = metadata
          /\ pc'[t] = "try_lock" /\ job[t] = "write"
      BY <1>4 DEF GetMeta, Shape, WritersOnly
    <2> QED  BY <2>1
  <1>5. CASE TryLock(t)
    BY <1>5 DEF TryLock
  <1>6. CASE Help(t)
    BY <1>6 DEF Help
  <1>7. CASE Lock(t)
    BY <1>7 DEF Lock
  <1>8. CASE Check(t)
    <2>1. /\ UNCHANGED <<tableVars, job, meta>> /\ job[t] = "write"
          /\ pc'[t] \in {"critical", "follow"}
          /\ pc'[t] = "critical" => resize_leader[meta[t]] = NULL
      BY <1>8 DEF Check, Shape, WritersOnly
    <2>2. resize_leader[meta[t]] = NULL => meta[t] = metadata
      BY DEF GenState
    <2> QED  BY <2>1, <2>2
  <1>9. CASE Unlock(t)
    BY <1>9 DEF Unlock
  <1>10. CASE GrowGetMeta(t)
    <2>1. /\ UNCHANGED <<tableVars, job>> /\ meta'[t] = metadata /\ job[t] = "grow"
          /\ pc'[t] = IF metadata < MaxGeneration THEN "resize" ELSE "idle"
      BY <1>10 DEF GrowGetMeta, Shape
    <2> QED  BY <2>1
  <1>11. CASE CasLeader(t)
    <2>0. UNCHANGED <<metadata, new_metadata_ready, node_migration_done, resize_done,
                      participants, accessors, meta>>
          /\ pc[t] = "resize" /\ job[t] = "grow"
      BY <1>11 DEF CasLeader, Shape
    <2>1. CASE resize_leader[meta[t]] = NULL
      <3>1. /\ resize_leader'[meta[t]] = t /\ pc'[t] = "new_meta" /\ job'[t] = "lead"
        BY <1>11, <2>1 DEF CasLeader
      <3>2. Pristine(meta[t]) /\ meta[t] = metadata
        BY <2>1 DEF GenState
      <3> QED  BY <2>0, <3>1, <3>2
    <2>2. CASE resize_leader[meta[t]] # NULL
      <3>1. UNCHANGED <<resize_leader, job>> /\ pc'[t] = "follow"
        BY <1>11, <2>2 DEF CasLeader
      <3> QED  BY <2>0, <3>1
    <2> QED  BY <2>1, <2>2
  <1>12. CASE NewMeta(t)
    <2>1. /\ UNCHANGED <<tableVars, accessors, job, meta>> /\ pc[t] = "new_meta" /\ job[t] = "lead"
          /\ pc'[t] \in {"lock_sync_op", "fail_resize_done"}
      BY <1>12 DEF NewMeta, Shape, LeadersOnly
    <2> QED  BY <2>1
  <1>13. CASE LockSyncOp(t)
    BY <1>13 DEF LockSyncOp
  <1>14. CASE LockAccessors(t)
    BY <1>14 DEF LockAccessors
  <1>15. CASE LockMutexes(t)
    BY <1>15 DEF LockMutexes
  <1>16. CASE Prepare(t)
    <2>0. /\ UNCHANGED <<metadata, resize_leader, new_metadata_ready, node_migration_done,
                         resize_done, accessors, job, meta>>
          /\ pc[t] = "prepare" /\ job[t] = "lead"
      BY <1>16 DEF Prepare, Shape, LeadersOnly
    <2>1. CASE Goto(t, "unlock_sync_op") /\ UNCHANGED participants
      BY <2>0, <2>1
    <2>2. CASE /\ participants' = [participants EXCEPT ![meta[t]] =
                                     [i \in 1..Len(accessors) |-> 0]]
               /\ Goto(t, "ready")
      <3>1. participants'[meta[t]] = [i \in 1..Len(accessors) |-> 0]
        BY <2>2
      <3>2. Len(participants'[meta[t]]) = Len(accessors) /\ pc'[t] = "ready"
        BY <2>2, <3>1
      <3> QED  BY <2>0, <3>2
    <2> QED  BY <1>16, <2>1, <2>2 DEF Prepare
  <1>17. CASE SetReady(t)
    BY <1>17 DEF SetReady
  <1>18. CASE Follow(t)
    <2>1. /\ UNCHANGED <<tableVars, job, meta>> /\ job[t] \in {"write", "grow"}
          /\ pc'[t] = "common" /\ new_metadata_ready[meta[t]]
      BY <1>18 DEF Follow, Shape
    <2> QED  BY <2>1
  <1>19. CASE CommonResize(t)
    BY <1>19 DEF CommonResize, AfterCommon
  <1>20. CASE Participate(t)
    <2>1. Len(participants'[meta[t]]) = Len(participants[meta[t]])
      BY <1>20, <1>0, SeatStep
    <2> QED  BY <1>20, <2>1 DEF Participate
  <1>21. CASE Claim(t)
    BY <1>21 DEF Claim
  <1>22. CASE Migrate(t)
    BY <1>22 DEF Migrate
  <1>23. CASE Leave(t)
    <2>1. Len(participants'[meta[t]]) = Len(participants[meta[t]])
      BY <1>23, <1>0, SeatStep
    <2> QED  BY <1>23, <2>1 DEF Leave
  <1>24. CASE Recount(t)
    BY <1>24 DEF Recount
  <1>25. CASE Scan(t)
    <2>1. /\ UNCHANGED <<tableVars, accessors, job, meta>> /\ pc[t] = "scan"
          /\ pc'[t] \in {"scan", "set_migrated", "wait_migrated"}
      BY <1>25 DEF Scan
    <2> QED  BY <2>1
  <1>26. CASE SetMigrated(t)
    BY <1>26 DEF SetMigrated
  <1>27. CASE WaitMigrated(t)
    BY <1>27 DEF WaitMigrated, AfterCommon
  <1>28. CASE WaitResized(t)
    BY <1>28 DEF WaitResized
  <1>29. CASE SwapMetadata(t)
    BY <1>29 DEF SwapMetadata
  <1>30. CASE SetResized(t)
    BY <1>30 DEF SetResized
  <1>31. CASE UnlockSyncOp(t)
    BY <1>31 DEF UnlockSyncOp
  <1>32. CASE UnlockMutexes(t)
    BY <1>32 DEF UnlockMutexes
  <1>33. CASE UnlockAccessors(t)
    BY <1>33 DEF UnlockAccessors
  <1>34. CASE FailEvents(t)
    <2>0. /\ UNCHANGED <<metadata, resize_leader, participants, job, meta>>
          /\ pc[t] \in Fails /\ pc'[t] \in Fails \cup {"idle"}
          /\ pc'[t] = "fail_ready" => node_migration_done'[meta[t]]
      BY <1>34 DEF FailEvents
    <2> QED  BY <2>0
  <1> QED
    BY <1>1, <1>2, <1>3, <1>4, <1>5, <1>6, <1>7, <1>8, <1>9, <1>10, <1>11, <1>12, <1>13,
       <1>14, <1>15, <1>16, <1>17, <1>18, <1>19, <1>20, <1>21, <1>22, <1>23, <1>24, <1>25,
       <1>26, <1>27, <1>28, <1>29, <1>30, <1>31, <1>32, <1>33, <1>34 DEF Moves, Step

\* What is known of the resizes that the threads lead and follow holds after a step.
LEMMA LeadStep ==
  ASSUME Inv, NEW t \in Threads, Moves(t), NEW u \in Threads
  PROVE  LeadState(u)'
  BY LeadOthers, LeadOwn
-----------------------------------------------------------------------------
\* metadata only grows, and only SwapMetadata changes it.
LEMMA MetadataStep ==
  ASSUME Inv, NEW t \in Threads, Moves(t)
  PROVE  metadata' \in Int /\ metadata <= metadata'
  <1>0. metadata \in Int /\ meta[t] \in Int
    BY Parts
  <1>1. CASE SwapMetadata(t)
    BY <1>0, <1>1 DEF SwapMetadata
  <1>2. CASE UNCHANGED metadata
    BY <1>0, <1>2
  <1>3. SwapMetadata(t) \/ UNCHANGED metadata
    BY TableQuiet DEF tableVars, CasLeader, Prepare, SetReady, Participate, Claim, Migrate,
                      Leave, SetMigrated, SetResized, FailEvents
  <1> QED  BY <1>1, <1>2, <1>3

\* The participants of a table are set up by its leader; then each thread writes
\* its own seat.
LEMMA ParticipantsQuiet ==
  ASSUME NEW t \in Threads, Moves(t)
  PROVE  UNCHANGED participants \/ Prepare(t) \/ Participate(t) \/ Leave(t)
  BY TableQuiet DEF tableVars, CasLeader, SetReady, Claim, Migrate, SetMigrated,
                    SwapMetadata, SetResized, FailEvents

\* Lengths and indices are numbers.
LEMMA SeatTypes ==
  ASSUME Inv, NEW g \in Generations
  PROVE  /\ participants[g] \in Seq(0..2) /\ Len(participants[g]) \in Nat
         /\ Len(accessors) \in Nat /\ Len(participants[g]) <= Len(accessors)
         /\ g \in Int
  <1>1. participants \in [Generations -> Seq(0..2)] /\ accessors \in Seq(Threads)
        /\ BlockState(g)
    BY DEF Inv, TypeOK
  <1>2. g \in Int
    BY ResizeAssumption DEF Generations
  <1>3. participants[g] \in Seq(0..2)
    BY <1>1
  <1> QED  BY <1>1, <1>2, <1>3 DEF BlockState

\* A step of thread t leaves the seats of the others alone.
LEMMA SeatOthers ==
  ASSUME Inv, NEW t \in Threads, Moves(t), NEW u \in Threads, u # t
  PROVE  SeatState(u)'
  <1>0. /\ TypeOK /\ SeatState(u) /\ Shape(u) /\ meta[u] \in Generations
        /\ meta[t] \in Generations /\ metadata \in Int
        /\ pc'[u] = pc[u] /\ job'[u] = job[u] /\ meta'[u] = meta[u]
        /\ metadata' \in Int /\ metadata <= metadata'
    BY Parts, StepIsLocal, MetadataStep DEF Others
  <1>1. Bound(u)' <=> Bound(u)
    BY <1>0 DEF Bound
  <1>2. ASSUME NEW i \in Int
        PROVE  AccessorAt(i, u)' <=> AccessorAt(i, u)
    BY AccessorsStep DEF AccessorAt
  <1>3. CASE UNCHANGED participants
    <2>1. /\ pc'[u] \in Joining => ~Empty(meta[u])'
          /\ Bound(u)' /\ ~Empty(meta[u])' =>
               \E i \in 1..Len(participants[meta[u]])' : AccessorAt(i, u)'
      <3>1. Len(participants[meta[u]]) \in Nat
        BY <1>0, SeatTypes
      <3> QED  BY <1>0, <1>1, <1>2, <1>3, <3>1 DEF SeatState, Empty
    <2>2. ASSUME NEW g \in Generations, NEW i \in 1..Len(participants[g]), AccessorAt(i, u)'
          PROVE  /\ participants[g][i] # 0 =>
                      \/ meta[u] = g /\ Bound(u) /\ pc[u] \in Joined
                      \/ g < metadata' /\ ~(meta[u] = g /\ Bound(u))
                 /\ pc[u] \in {"claim", "migrate", "leave"} /\ meta[u] = g
                      => participants[g][i] = 1
      <3>1. AccessorAt(i, u) /\ g \in Int
        BY <1>2, <2>2, SeatTypes
      <3> QED  BY <1>0, <3>1 DEF SeatState
    <2> QED  BY <1>0, <1>1, <1>3, <2>1, <2>2 DEF SeatState
  <1>4. CASE Prepare(t) /\ ~UNCHANGED participants
    <2>1. /\ participants' = [participants EXCEPT ![meta[t]] = [i \in 1..Len(accessors) |-> 0]]
          /\ UNCHANGED <<metadata, accessors>>
      BY <1>4 DEF Prepare
    <2>2. Pristine(meta[t])
      BY <1>4, Parts DEF Prepare, LeadState, Shape, LeadersOnly
    <2>3. \A g \in Generations \ {meta[t]} : participants'[g] = participants[g]
      BY <1>0, <2>1 DEF TypeOK
    <2>4. participants'[meta[t]] = [i \in 1..Len(accessors) |-> 0]
      BY <1>0, <2>1 DEF TypeOK
    <2>5. Len(participants'[meta[t]]) = Len(accessors) /\ Len(accessors) \in Nat
      BY <1>0, <2>4, SeatTypes
    <2>6. /\ pc'[u] \in Joining => ~Empty(meta[u])'
          /\ Bound(u)' /\ ~Empty(meta[u])' =>
               \E i \in 1..Len(participants[meta[u]])' : AccessorAt(i, u)'
      <3>1. CASE meta[u] = meta[t]
        <4>1. pc[u] \notin Joining
          BY <1>0, <2>2, <3>1 DEF SeatState, Pristine
        <4>2. Bound(u) => HasAccessor(u)
          BY <1>0 DEF Bound, Shape
        <4> QED  BY <1>0, <1>1, <1>2, <2>5, <3>1, <4>1, <4>2 DEF HasAccessor, AccessorAt
      <3>2. CASE meta[u] # meta[t]
        <4>1. participants'[meta[u]] = participants[meta[u]] /\ Len(participants[meta[u]]) \in Nat
          BY <1>0, <2>3, <3>2, SeatTypes
        <4> QED  BY <1>0, <1>1, <1>2, <4>1 DEF SeatState, Empty
      <3> QED  BY <3>1, <3>2
    <2>7. ASSUME NEW g \in Generations, NEW i \in 1..Len(participants'[g]), AccessorAt(i, u)'
          PROVE  /\ participants'[g][i] # 0 =>
                      \/ meta[u] = g /\ Bound(u) /\ pc[u] \in Joined
                      \/ g < metadata' /\ ~(meta[u] = g /\ Bound(u))
                 /\ pc[u] \in {"claim", "migrate", "leave"} /\ meta[u] = g
                      => participants'[g][i] = 1
      <3>1. CASE g = meta[t]
        <4>1. participants'[g][i] = 0
          BY <2>4, <2>5, <2>7, <3>1
        <4>2. meta[u] = g => pc[u] \notin {"claim", "migrate", "leave"}
          BY <1>0, <2>2, <3>1 DEF SeatState, Pristine, Joining, Common
        <4> QED  BY <4>1, <4>2
      <3>2. CASE g # meta[t]
        <4>1. participants'[g] = participants[g] /\ Len(participants[g]) \in Nat
          BY <2>3, <3>2, SeatTypes
        <4>2. AccessorAt(i, u)
          BY <1>2, <2>7, <4>1
        <4> QED  BY <1>0, <2>1, <2>7, <4>1, <4>2 DEF SeatState
      <3> QED  BY <3>1, <3>2
    <2> QED  BY <1>0, <1>1, <2>6, <2>7 DEF SeatState
  <1>5. CASE Participate(t) \/ Leave(t)
    <2>1. /\ AccessorAt(Accessor(t), t)
          /\ \A g \in Generations :
               /\ Len(participants'[g]) = Len(participants[g])
               /\ \A i \in 1..Len(participants[g]) :
                    i # Accessor(t) => participants'[g][i] = participants[g][i]
      BY <1>5, SeatStep
    <2>2. /\ pc'[u] \in Joining => ~Empty(meta[u])'
          /\ Bound(u)' /\ ~Empty(meta[u])' =>
               \E i \in 1..Len(participants[meta[u]])' : AccessorAt(i, u)'
      <3>1. Len(participants'[meta[u]]) = Len(participants[meta[u]]) /\ Len(participants[meta[u]]) \in Nat
        BY <1>0, <2>1, SeatTypes
      <3> QED  BY <1>0, <1>1, <1>2, <3>1 DEF SeatState, Empty
    <2>3. ASSUME NEW g \in Generations, NEW i \in 1..Len(participants'[g]), AccessorAt(i, u)'
          PROVE  /\ participants'[g][i] # 0 =>
                      \/ meta[u] = g /\ Bound(u) /\ pc[u] \in Joined
                      \/ g < metadata' /\ ~(meta[u] = g /\ Bound(u))
                 /\ pc[u] \in {"claim", "migrate", "leave"} /\ meta[u] = g
                      => participants'[g][i] = 1
      <3>1. Len(participants'[g]) = Len(participants[g]) /\ Len(participants[g]) \in Nat /\ g \in Int
        BY <2>1, SeatTypes
      <3>2. AccessorAt(i, u) /\ i \in 1..Len(participants[g])
        BY <1>2, <2>3, <3>1
      <3>3. participants'[g][i] = participants[g][i]
        BY <2>1, <3>2 DEF AccessorAt
      <3> QED  BY <1>0, <3>1, <3>2, <3>3 DEF SeatState
    <2> QED  BY <1>0, <1>1, <2>2, <2>3 DEF SeatState
  <1> QED  BY <1>3, <1>4, <1>5, ParticipantsQuiet
\* A thread takes its seat once.
LEMMA SeatOwn ==
  ASSUME Inv, NEW t \in Threads, Moves(t)
  PROVE  SeatState(t)'
  <1>0. /\ LocalTypes /\ participants \in [Generations -> Seq(0..2)]
        /\ SeatState(t) /\ Shape(t) /\ LeadState(t) /\ GenState(meta[t])
        /\ meta[t] \in Generations /\ meta[t] \in Int /\ metadata \in Int
    BY Parts DEF TypeOK, LocalTypes
  <1>t. ASSUME NEW g \in Generations, NEW i \in 1..Len(participants[g]), AccessorAt(i, t),
               participants[g][i] # 0
        PROVE  meta[t] = g \/ g < metadata
    BY <1>0, <1>t DEF SeatState
  \* A step that moves the thread on, with the same table.
  <1>k. ASSUME UNCHANGED <<participants, metadata, accessors, meta[t]>>,
               Bound(t)' => Bound(t),
               pc'[t] \in Joining => pc[t] \in Joining \/ ~Empty(meta[t]),
               pc'[t] \in {"claim", "migrate", "leave"} => pc[t] \in {"claim", "migrate"},
               Bound(t) /\ pc[t] \in Joined =>
                 \/ Empty(meta[t])
                 \/ Bound(t)' /\ pc'[t] \in Joined
                 \/ ~Bound(t)' /\ meta[t] < metadata
        PROVE  SeatState(t)'
    <2>1. \A i : AccessorAt(i, t)' <=> AccessorAt(i, t)
      BY <1>k DEF AccessorAt
    <2>2. Empty(meta[t])' <=> Empty(meta[t])
      BY <1>k DEF Empty
    <2>3. ASSUME NEW g \in Generations, NEW i \in 1..Len(participants[g]), AccessorAt(i, t)
          PROVE  /\ participants[g][i] # 0 =>
                      \/ meta[t] = g /\ Bound(t)' /\ pc'[t] \in Joined
                      \/ g < metadata /\ ~(meta[t] = g /\ Bound(t)')
                 /\ pc'[t] \in {"claim", "migrate", "leave"} /\ meta[t] = g
                      => participants[g][i] = 1
      <3>1. ~Empty(g)
        BY <2>3, SeatTypes DEF Empty
      <3> QED  BY <1>0, <1>k, <2>3, <3>1 DEF SeatState
    <2> QED  BY <1>0, <1>k, <2>1, <2>2, <2>3 DEF SeatState
  <1> USE <1>0
      DEF LocalTypes, Bound, Joining, Joined, Common, tableVars, locks, Goto, LeaveLoop, Advance
  <1>1. CASE StartWrite(t)
    BY <1>k, <1>1 DEF StartWrite
  <1>2. CASE StartLen(t)
    BY <1>k, <1>2 DEF StartLen
  <1>3. CASE TryLock(t)
    BY <1>k, <1>3 DEF TryLock
  <1>4. CASE Help(t)
    BY <1>k, <1>4 DEF Help
  <1>5. CASE Lock(t)
    BY <1>k, <1>5 DEF Lock
  <1>6. CASE Check(t)
    BY <1>k, <1>6 DEF Check
  <1>7. CASE Unlock(t)
    BY <1>k, <1>7 DEF Unlock
  <1>8. CASE CasLeader(t)
    <2>1. /\ UNCHANGED <<participants, metadata, accessors, meta>> /\ pc[t] = "resize"
          /\ pc'[t] \in {"new_meta", "follow"} /\ job'[t] \in {job[t], "lead"}
      BY <1>8 DEF CasLeader
    <2>2. job[t] = "grow"
      BY <2>1 DEF Shape
    <2> QED  BY <1>k, <2>1, <2>2
  <1>9. CASE NewMeta(t)
    BY <1>k, <1>9 DEF NewMeta
  <1>10. CASE LockSyncOp(t)
    BY <1>k, <1>10 DEF LockSyncOp
  <1>11. CASE LockAccessors(t)
    BY <1>k, <1>11 DEF LockAccessors
  <1>12. CASE LockMutexes(t)
    BY <1>k, <1>12 DEF LockMutexes
  <1>13. CASE SetReady(t)
    BY <1>k, <1>13 DEF SetReady
  <1>14. CASE Follow(t)
    BY <1>k, <1>14 DEF Follow
  <1>15. CASE Claim(t)
    BY <1>k, <1>15 DEF Claim
  <1>16. CASE Migrate(t)
    BY <1>k, <1>16 DEF Migrate
  <1>17. CASE Recount(t)
    BY <1>k, <1>17 DEF Recount
  <1>18. CASE Scan(t)
    BY <1>k, <1>18 DEF Scan
  <1>19. CASE SetMigrated(t)
    BY <1>k, <1>19 DEF SetMigrated
  <1>20. CASE WaitMigrated(t)
    BY <1>k, <1>20 DEF WaitMigrated, AfterCommon
  <1>21. CASE SetResized(t)
    BY <1>k, <1>21 DEF SetResized
  <1>22. CASE UnlockSyncOp(t)
    BY <1>k, <1>22 DEF UnlockSyncOp
  <1>23. CASE UnlockMutexes(t)
    BY <1>k, <1>23 DEF UnlockMutexes
  <1>24. CASE FailEvents(t)
    BY <1>k, <1>24 DEF FailEvents
  <1>25. CASE CommonResize(t)
    <2>1. new_metadata_ready[meta[t]] /\ (~node_migration_done[meta[t]] => ~Empty(meta[t]))
      BY <1>25 DEF CommonResize, LeadState, GenState
    <2> QED  BY <1>25, <1>k, <2>1 DEF CommonResize, AfterCommon
  <1>26. CASE WaitResized(t)
    <2>1. Empty(meta[t]) \/ meta[t] < metadata
      BY <1>26 DEF WaitResized, GenState
    <2> QED  BY <1>26, <1>k, <2>1 DEF WaitResized
  <1>27. CASE UnlockAccessors(t)
    <2>1. job[t] = "lead" => (IF resize_done[meta[t]] THEN meta[t] < metadata ELSE Empty(meta[t]))
      BY <1>27 DEF UnlockAccessors, LeadState, Failing
    <2> QED  BY <1>27, <1>k, <2>1 DEF UnlockAccessors
  <1>28. CASE Prepare(t) /\ UNCHANGED participants
    <2>1. Empty(meta[t])
      BY <1>28 DEF Prepare, LeadState, Shape, LeadersOnly, Pristine
    <2> QED  BY <1>28, <1>k, <2>1 DEF Prepare
  <1>29. CASE Register(t)
    <2>1. ~Bound(t)' /\ pc'[t] = "get_meta" /\ UNCHANGED participants
      BY <1>29 DEF Register
    <2>2. ASSUME NEW g \in Generations, NEW i \in 1..Len(participants[g]), AccessorAt(i, t)'
          PROVE  FALSE
      <3>1. Len(participants[g]) \in Nat /\ Len(accessors) \in Nat /\ i \in 1..Len(accessors)
        BY <2>2, SeatTypes
      <3>2. accessors[i] = t
        BY <2>2, <3>1, AccessorsStep DEF AccessorAt
      <3> QED  BY <1>29, <3>1, <3>2 DEF Register, Shape
    <2> QED  BY <2>1, <2>2 DEF SeatState
  <1>30. CASE GetMeta(t) \/ GrowGetMeta(t)
    <2>1. /\ UNCHANGED <<metadata, participants, accessors>> /\ meta'[t] = metadata
          /\ ~Bound(t) /\ pc'[t] \in {"try_lock", "resize", "idle"} /\ HasAccessor(t)
      BY <1>30 DEF GetMeta, GrowGetMeta, Shape, WritersOnly, HasAccessor
    <2>2. ~Empty(metadata) => Len(participants[metadata]) = Len(accessors)
      <3> SUFFICES ASSUME ~Empty(metadata)
          PROVE  Len(participants[metadata]) = Len(accessors)
        OBVIOUS
      <3>1. PICK v \in Threads : Migrating(v)
        BY Parts DEF TypeOK, GenState, Pristine
      <3> QED  BY <3>1, Parts DEF LeadState
    <2>3. ASSUME NEW g \in Generations, NEW i \in 1..Len(participants[g]), AccessorAt(i, t)
          PROVE  participants[g][i] # 0 => g < metadata
      BY <2>1, <2>3 DEF SeatState
    <2>4. \A i : AccessorAt(i, t)' <=> AccessorAt(i, t)
      BY <2>1 DEF AccessorAt
    <2>5. \A g \in Generations : g \in Int
      BY SeatTypes
    <2>6. /\ pc'[t] \in Joining => ~Empty(meta[t])'
          /\ Bound(t)' /\ ~Empty(meta[t])' =>
               \E i \in 1..Len(participants'[meta'[t]]) : AccessorAt(i, t)'
      BY <2>1, <2>2, <2>4 DEF Empty, HasAccessor, AccessorAt
    <2>7. ASSUME NEW g \in Generations, NEW i \in 1..Len(participants'[g]), AccessorAt(i, t)'
          PROVE  /\ participants'[g][i] # 0 =>
                      \/ meta'[t] = g /\ Bound(t)' /\ pc'[t] \in Joined
                      \/ g < metadata' /\ ~(meta'[t] = g /\ Bound(t)')
                 /\ pc'[t] \in {"claim", "migrate", "leave"} /\ meta'[t] = g
                      => participants'[g][i] = 1
      <3>1. i \in 1..Len(participants[g]) /\ AccessorAt(i, t)
        BY <2>1, <2>4, <2>7
      <3>2. participants[g][i] # 0 => g < metadata
        BY <2>3, <3>1, Zenon
      <3> QED  BY <2>1, <2>5, <3>2
    <2> QED  BY <2>6, <2>7 DEF SeatState
  <1>31. CASE Prepare(t) /\ ~UNCHANGED participants
    <2>1. /\ participants' = [participants EXCEPT ![meta[t]] = [i \in 1..Len(accessors) |-> 0]]
          /\ UNCHANGED <<metadata, accessors, meta>> /\ pc'[t] = "ready"
          /\ pc[t] = "prepare" /\ job[t] = "lead" /\ job'[t] = "lead"
      BY <1>31 DEF Prepare, Shape, LeadersOnly
    <2>2. \A g \in Generations \ {meta[t]} : participants'[g] = participants[g]
      BY <2>1
    <2>3. participants'[meta[t]] = [i \in 1..Len(accessors) |-> 0]
      BY <2>1
    <2>4. Len(participants'[meta[t]]) = Len(accessors) /\ Len(accessors) \in Nat
      BY <2>3, SeatTypes
    <2>5. HasAccessor(t)
      BY <2>1 DEF Shape
    <2>6. \A i : AccessorAt(i, t)' <=> AccessorAt(i, t)
      BY <2>1 DEF AccessorAt
    <2>7. \E i \in 1..Len(participants'[meta[t]]) : AccessorAt(i, t)'
      BY <2>4, <2>5, <2>6 DEF HasAccessor, AccessorAt
    <2>8. ASSUME NEW g \in Generations, NEW i \in 1..Len(participants'[g]), AccessorAt(i, t)
          PROVE  participants'[g][i] # 0 => g < metadata /\ meta[t] # g
      <3>1. CASE g = meta[t]
        BY <2>3, <2>4, <2>8, <3>1
      <3>2. CASE g # meta[t]
        BY <2>2, <2>8, <3>2 DEF SeatState
      <3> QED  BY <3>1, <3>2
    <2> QED  BY <2>1, <2>6, <2>7, <2>8 DEF SeatState
  <1>32. CASE Participate(t) \/ Leave(t)
    <2>1. /\ UNCHANGED <<metadata, accessors, meta, job>> /\ job[t] # "len"
          /\ \/ pc[t] = "participate" /\ pc'[t] = "claim"
             \/ pc[t] = "leave" /\ pc'[t] = "recount"
      BY <1>32 DEF Participate, Leave, Shape
    <2>2. \A i : AccessorAt(i, t)' <=> AccessorAt(i, t)
      BY <2>1 DEF AccessorAt
    <2>3. /\ AccessorAt(Accessor(t), t)
          /\ Accessor(t) \in 1..Len(participants[meta[t]])
          /\ \A g \in Generations :
              /\ Len(participants'[g]) = Len(participants[g])
              /\ \A i \in 1..Len(participants[g]) :
                   participants'[g][i] =
                     IF g = meta[t] /\ i = Accessor(t)
                     THEN IF pc[t] = "participate" THEN 1 ELSE 2
                     ELSE participants[g][i]
      BY <1>32, SeatStep
    <2>4. \A i : AccessorAt(i, t) => i = Accessor(t)
      BY <2>3, Parts DEF Accessors, AccessorAt
    <2>5. ~Empty(meta[t])'
      BY <2>1, <2>3 DEF SeatState, Empty
    <2>6. ASSUME NEW g \in Generations, NEW i \in 1..Len(participants[g]), AccessorAt(i, t)
          PROVE  /\ participants'[g][i] # 0 => meta[t] = g \/ g < metadata
                 /\ meta[t] = g /\ pc[t] = "participate" => participants'[g][i] = 1
      BY <2>3, <2>4, <2>6 DEF SeatState
    <2>7. /\ pc'[t] \in Joining => ~Empty(meta[t])'
          /\ Bound(t)' /\ ~Empty(meta[t])' =>
               \E i \in 1..Len(participants'[meta'[t]]) : AccessorAt(i, t)'
      BY <2>1, <2>2, <2>3, <2>5
    <2>8. ASSUME NEW g \in Generations, NEW i \in 1..Len(participants'[g]), AccessorAt(i, t)'
          PROVE  /\ participants'[g][i] # 0 =>
                      \/ meta'[t] = g /\ Bound(t)' /\ pc'[t] \in Joined
                      \/ g < metadata' /\ ~(meta'[t] = g /\ Bound(t)')
                 /\ pc'[t] \in {"claim", "migrate", "leave"} /\ meta'[t] = g
                      => participants'[g][i] = 1
      <3>1. i \in 1..Len(participants[g]) /\ AccessorAt(i, t)
        BY <2>2, <2>3, <2>8
      <3> QED  BY <2>1, <2>6, <2>8, <3>1
    <2> QED  BY <2>7, <2>8 DEF SeatState
  <1>33. CASE SwapMetadata(t)
    <2>1. /\ UNCHANGED <<participants, accessors, meta, job>> /\ metadata = meta[t]
          /\ pc[t] = "swap" /\ pc'[t] = "set_resized" /\ job[t] = "lead"
          /\ metadata' = meta[t] + 1
      BY <1>33 DEF SwapMetadata, Shape, LeadersOnly, LeadState, Migrating
    <2>2. \A i : AccessorAt(i, t)' <=> AccessorAt(i, t)
      BY <2>1 DEF AccessorAt
    <2>3. \A g \in Generations : g \in Int
      BY SeatTypes
    <2>4. /\ pc'[t] \in Joining => ~Empty(meta[t])'
          /\ Bound(t)' /\ ~Empty(meta[t])' =>
               \E i \in 1..Len(participants'[meta'[t]]) : AccessorAt(i, t)'
      BY <2>1, <2>2 DEF SeatState, Empty
    <2>5. ASSUME NEW g \in Generations, NEW i \in 1..Len(participants'[g]), AccessorAt(i, t)'
          PROVE  /\ participants'[g][i] # 0 =>
                      \/ meta'[t] = g /\ Bound(t)' /\ pc'[t] \in Joined
                      \/ g < metadata' /\ ~(meta'[t] = g /\ Bound(t)')
                 /\ pc'[t] \in {"claim", "migrate", "leave"} /\ meta'[t] = g
                      => participants'[g][i] = 1
      <3>1. i \in 1..Len(participants[g]) /\ AccessorAt(i, t)
        BY <2>1, <2>2, <2>5
      <3>2. participants[g][i] # 0 => meta[t] = g \/ g < metadata
        BY <1>t, <3>1, Zenon
      <3> QED  BY <2>1, <2>3, <3>2
    <2> QED  BY <2>4, <2>5 DEF SeatState
  <1> QED
    BY <1>1, <1>2, <1>3, <1>4, <1>5, <1>6, <1>7, <1>8, <1>9, <1>10, <1>11, <1>12, <1>13,
       <1>14, <1>15, <1>16, <1>17, <1>18, <1>19, <1>20, <1>21, <1>22, <1>23, <1>24, <1>25,
       <1>26, <1>27, <1>28, <1>29, <1>30, <1>31, <1>32, <1>33 DEF Moves, Step

\* A thread takes part in a migration once, on a seat of its own.
LEMMA SeatsStep ==
  ASSUME Inv, NEW t \in Threads, Moves(t), NEW u \in Threads
  PROVE  SeatState(u)'
  BY SeatOthers, SeatOwn
-----------------------------------------------------------------------------
\* How a thread gets to work on a block, and to the scan.
LEMMA EntersWork ==
  ASSUME TypeOK, NEW t \in Threads, Moves(t)
  PROVE  /\ pc'[t] \in {"migrate", "leave", "recount", "scan", "set_migrated"} =>
              Claim(t) \/ Leave(t) \/ Recount(t) \/ Scan(t)
         /\ pc[t] = "migrate" => Migrate(t)
  <1>a. pc[t] = "migrate" => Migrate(t)
    BY DEF Moves, Step, StartWrite, StartLen, Register, GetMeta, TryLock, Help, Lock,
       Check, Unlock, GrowGetMeta, CasLeader, NewMeta, LockSyncOp, LockAccessors,
       LockMutexes, Prepare, SetReady, Follow, CommonResize, Participate, Claim, Leave,
       Recount, Scan, SetMigrated, WaitMigrated, WaitResized, SwapMetadata, SetResized,
       UnlockSyncOp, UnlockMutexes, UnlockAccessors, FailEvents
  <1>b. CASE Migrate(t)
    BY <1>a, <1>b DEF Migrate, Goto, TypeOK
  <1>0. LocalTypes
    BY DEF TypeOK, LocalTypes
  <1> USE <1>0 DEF LocalTypes, tableVars, locks, Goto, LeaveLoop, Advance
  <1>1. CASE StartWrite(t)
    BY <1>1 DEF StartWrite
  <1>2. CASE StartLen(t)
    BY <1>2 DEF StartLen
  <1>3. CASE Register(t)
    BY <1>3 DEF Register
  <1>4. CASE GetMeta(t)
    BY <1>4 DEF GetMeta
  <1>5. CASE TryLock(t)
    BY <1>5 DEF TryLock
  <1>6. CASE Help(t)
    BY <1>6 DEF Help
  <1>7. CASE Lock(t)
    BY <1>7 DEF Lock
  <1>8. CASE Check(t)
    BY <1>8 DEF Check
  <1>9. CASE Unlock(t)
    BY <1>9 DEF Unlock
  <1>10. CASE GrowGetMeta(t)
    BY <1>10 DEF GrowGetMeta
  <1>11. CASE CasLeader(t)
    BY <1>11 DEF CasLeader
  <1>12. CASE NewMeta(t)
    BY <1>12 DEF NewMeta
  <1>13. CASE LockSyncOp(t)
    BY <1>13 DEF LockSyncOp
  <1>14. CASE LockAccessors(t)
    BY <1>14 DEF LockAccessors
  <1>15. CASE LockMutexes(t)
    BY <1>15 DEF LockMutexes
  <1>16. CASE Prepare(t)
    BY <1>16 DEF Prepare
  <1>17. CASE SetReady(t)
    BY <1>17 DEF SetReady
  <1>18. CASE Follow(t)
    BY <1>18 DEF Follow
  <1>19. CASE CommonResize(t)
    BY <1>19 DEF CommonResize, AfterCommon
  <1>20. CASE Participate(t)
    BY <1>20 DEF Participate
  <1>21. CASE SetMigrated(t)
    BY <1>21 DEF SetMigrated
  <1>22. CASE WaitMigrated(t)
    BY <1>22 DEF WaitMigrated, AfterCommon
  <1>23. CASE WaitResized(t)
    BY <1>23 DEF WaitResized
  <1>24. CASE SwapMetadata(t)
    BY <1>24 DEF SwapMetadata
  <1>25. CASE SetResized(t)
    BY <1>25 DEF SetResized
  <1>26. CASE UnlockSyncOp(t)
    BY <1>26 DEF UnlockSyncOp
  <1>27. CASE UnlockMutexes(t)
    BY <1>27 DEF UnlockMutexes
  <1>28. CASE UnlockAccessors(t)
    BY <1>28 DEF UnlockAccessors
  <1>29. CASE FailEvents(t)
    BY <1>29 DEF FailEvents
  <1> QED
    BY <1>a, <1>b, <1>1, <1>2, <1>3, <1>4, <1>5, <1>6, <1>7, <1>8, <1>9, <1>10, <1>11,
       <1>12, <1>13, <1>14, <1>15, <1>16, <1>17, <1>18, <1>19, <1>20, <1>21, <1>22, <1>23,
       <1>24, <1>25, <1>26, <1>27, <1>28, <1>29 DEF Moves, Step

\* Blocks are only claimed by Claim and only migrated by Migrate.
LEMMA BlocksQuiet ==
  ASSUME NEW t \in Threads, Moves(t)
  PROVE  /\ UNCHANGED node_to_migrate \/ Claim(t)
         /\ UNCHANGED migrated \/ Migrate(t)
         /\ ~(Claim(t) /\ Migrate(t))
  BY TableQuiet DEF tableVars, CasLeader, Prepare, SetReady, Participate, Leave, Claim,
                    Migrate, SetMigrated, SwapMetadata, SetResized, FailEvents

\* Who is at work on which block, after a step.
LEMMA WorkerStep ==
  ASSUME Inv, NEW t \in Threads, Moves(t), NEW v \in Threads, NEW g
  PROVE  /\ AtWork(v, g)' /\ ~(v = t /\ Claim(t)) => AtWork(v, g) /\ block'[v] = block[v]
         /\ AtWork(v, g) /\ ~(v = t /\ Migrate(t)) => AtWork(v, g)' /\ block'[v] = block[v]
  <1>1. TypeOK /\ Others(t)
    BY Parts, StepIsLocal
  <1>2. CASE v # t
    BY <1>1, <1>2 DEF Others, AtWork
  <1>3. CASE v = t
    <2>1. /\ Leave(t) => pc'[t] = "recount"
          /\ Recount(t) => pc'[t] = "scan"
          /\ Scan(t) => pc'[t] # "migrate"
      BY <1>1 DEF Leave, Recount, Scan, LeaveLoop, Goto, TypeOK
    <2> QED  BY <1>1, <1>3, <2>1, EntersWork DEF AtWork
  <1> QED  BY <1>2, <1>3
\* A step that claims and migrates no block keeps the account of the work.
LEMMA WorkQuiet ==
  ASSUME Inv, NEW t \in Threads, Moves(t), NEW u \in Threads, ~Claim(t), ~Migrate(t)
  PROVE  WorkState(u)'
  <1>0. /\ TypeOK /\ WorkState(u) /\ Shape(u) /\ meta[u] \in Generations
        /\ UNCHANGED <<node_to_migrate, migrated>>
        /\ cursor[u] \in Nat \ {0}
    BY Parts, BlocksQuiet DEF TypeOK
  <1>1. \A v \in Threads, g \in Generations :
          /\ pc'[v] = "migrate" /\ meta'[v] = g <=> AtWork(v, g)
          /\ AtWork(v, g) => block'[v] = block[v]
    BY WorkerStep DEF AtWork
  <1>2. meta'[u] \in Generations
    BY TypeStep DEF TypeOK
  <1>3. pc'[u] = "migrate" =>
          /\ block'[u] < Blocks /\ block'[u] < node_to_migrate'[meta'[u]]
          /\ migrated'[meta'[u]][block'[u]] = NULL
          /\ \A v \in Threads : pc'[v] = "migrate" /\ meta'[v] = meta'[u] /\ block'[v] = block'[u]
                             => v = u
    <2> SUFFICES ASSUME pc'[u] = "migrate"
        PROVE  /\ block'[u] < Blocks /\ block'[u] < node_to_migrate'[meta'[u]]
               /\ migrated'[meta'[u]][block'[u]] = NULL
               /\ \A v \in Threads : pc'[v] = "migrate" /\ meta'[v] = meta'[u] /\ block'[v] = block'[u]
                             => v = u
      OBVIOUS
    <2>1. AtWork(u, meta'[u]) /\ block'[u] = block[u]
      BY <1>1, <1>2
    <2>2. pc[u] = "migrate" /\ meta'[u] = meta[u]
      BY <2>1 DEF AtWork
    <2> QED  BY <1>0, <1>1, <1>2, <2>1, <2>2 DEF WorkState
  <1>4. CASE u # t
    <2>1. pc'[u] = pc[u] /\ meta'[u] = meta[u] /\ cursor'[u] = cursor[u]
      BY <1>0, <1>4, StepIsLocal DEF Others
    <2>2. ASSUME pc[u] = "scan", NEW i \in 1..Len(accessors'), i < cursor[u]
          PROVE  ~(pc'[accessors'[i]] = "migrate" /\ meta'[accessors'[i]] = meta[u])
      <3>1. CASE i \in 1..Len(accessors)
        <4>1. accessors'[i] = accessors[i] /\ accessors[i] \in Threads
          BY <1>0, <3>1, AccessorsStep DEF TypeOK
        <4>2. ~AtWork(accessors[i], meta[u])
          BY <1>0, <2>2, <3>1 DEF WorkState
        <4> QED  BY <1>0, <1>1, <4>1, <4>2
      <3>2. CASE i \notin 1..Len(accessors)
        <4>1. accessors'[i] = t /\ pc'[t] = "get_meta"
          BY <2>2, <3>2, AccessorsStep
        <4> QED  BY <4>1
      <3> QED  BY <3>1, <3>2
    <2>3. pc[u] = "set_migrated" => \A v \in Threads : ~(pc'[v] = "migrate" /\ meta'[v] = meta[u])
      BY <1>0, <1>1 DEF WorkState
    <2>4. pc[u] \in {"leave", "recount", "scan", "set_migrated"} =>
            node_to_migrate[meta[u]] >= Blocks
      BY <1>0 DEF WorkState
    <2> QED  BY <1>0, <1>3, <2>1, <2>2, <2>3, <2>4 DEF WorkState, AtWork
  <1>5. CASE u = t
    <2>1. CASE pc'[t] \notin {"migrate", "leave", "recount", "scan", "set_migrated"}
      BY <1>5, <2>1 DEF WorkState
    <2>2. CASE Leave(t)
      <3>1. pc[t] = "leave" /\ pc'[t] = "recount" /\ meta'[t] = meta[t]
        BY <1>0, <2>2 DEF Leave, Goto, TypeOK
      <3> QED  BY <1>0, <1>5, <3>1 DEF WorkState
    <2>3. CASE Recount(t)
      <3>1. pc[t] = "recount" /\ pc'[t] = "scan" /\ meta'[t] = meta[t] /\ cursor'[t] = 1
        BY <1>0, <1>5, <2>3 DEF Recount, Goto, TypeOK, Shape
      <3> QED  BY <1>0, <1>5, <3>1 DEF WorkState
    <2>4. CASE Scan(t)
      <3>0. /\ UNCHANGED <<accessors, participants, meta>> /\ pc[t] = "scan"
            /\ Len(participants[meta[t]]) \in Nat /\ Len(accessors) \in Nat
            /\ Len(participants[meta[t]]) <= Len(accessors)
            /\ node_to_migrate[meta[t]] >= Blocks
        BY <1>0, <1>5, <2>4, SeatTypes DEF Scan, tableVars, WorkState
      <3>1. CASE cursor[t] > Len(participants[meta[t]])
        <4>1. pc'[t] = "set_migrated"
          BY <1>0, <2>4, <3>1 DEF Scan, LeaveLoop, Goto, TypeOK
        <4>2. ASSUME NEW v \in Threads, AtWork(v, meta[t])
              PROVE  FALSE
          <5>1. ~Empty(meta[t]) /\ Bound(v)
            BY <4>2, Parts DEF AtWork, SeatState, Joining, Common, Bound, Shape
          <5>2. PICK i \in 1..Len(participants[meta[t]]) : AccessorAt(i, v)
            BY <4>2, <5>1, Parts DEF SeatState, AtWork
          <5>3. i \in 1..Len(accessors) /\ i < cursor[t] /\ accessors[i] = v
            BY <1>0, <1>5, <3>0, <3>1, <5>2 DEF AccessorAt
          <5> QED  BY <1>0, <1>5, <3>0, <4>2, <5>3 DEF WorkState
        <4> QED  BY <1>0, <1>1, <1>5, <3>0, <4>1, <4>2 DEF WorkState, AtWork
      <3>2. CASE cursor[t] <= Len(participants[meta[t]]) /\ participants[meta[t]][cursor[t]] = 1
        <4>1. pc'[t] = "wait_migrated"
          <5>1. ~(cursor[t] > Len(participants[meta[t]]))
            BY <1>0, <1>5, <3>0, <3>2
          <5> QED  BY <1>0, <2>4, <3>2, <5>1 DEF Scan, LeaveLoop, Goto, TypeOK
        <4> QED  BY <1>5, <4>1 DEF WorkState
      <3>3. CASE cursor[t] <= Len(participants[meta[t]]) /\ participants[meta[t]][cursor[t]] # 1
        <4>1. pc'[t] = "scan" /\ cursor'[t] = cursor[t] + 1
          BY <1>0, <1>5, <2>4, <3>0, <3>3 DEF Scan, Advance, TypeOK
        <4>2. cursor[t] \in 1..Len(participants[meta[t]]) /\ cursor[t] \in 1..Len(accessors)
          BY <1>0, <1>5, <3>0, <3>3
        <4>3. accessors[cursor[t]] \in Threads /\ AccessorAt(cursor[t], accessors[cursor[t]])
          BY <1>0, <4>2 DEF TypeOK, AccessorAt
        <4>4. ~AtWork(accessors[cursor[t]], meta[t])
          BY <1>0, <1>5, <3>3, <4>2, <4>3, Parts DEF AtWork, SeatState
        <4>5. \A i \in 1..Len(accessors) : i < cursor[t] => ~AtWork(accessors[i], meta[t])
          BY <1>0, <1>5, <3>0 DEF WorkState
        <4>6. ASSUME NEW i \in 1..Len(accessors), i < cursor'[t]
              PROVE  ~(pc'[accessors[i]] = "migrate" /\ meta'[accessors[i]] = meta[t])
          <5>1. i < cursor[t] \/ i = cursor[t]
            BY <1>0, <1>5, <3>0, <4>1, <4>6
          <5>2. accessors[i] \in Threads /\ meta[t] \in Generations
            BY <1>0, <1>5 DEF TypeOK
          <5>3. ~AtWork(accessors[i], meta[t])
            BY <4>4, <4>5, <5>1
          <5> QED  BY <1>1, <5>2, <5>3
        <4> QED  BY <1>0, <1>5, <3>0, <4>1, <4>6 DEF WorkState, AtWork
      <3> QED  BY <1>0, <1>5, <3>0, <3>1, <3>2, <3>3
    <2> QED  BY <1>0, <2>1, <2>2, <2>3, <2>4, EntersWork
  <1> QED  BY <1>4, <1>5
\* A claimed block is nobody else's, and none is claimed any more once somebody scans.
LEMMA WorkClaim ==
  ASSUME Inv, NEW t \in Threads, Moves(t), NEW u \in Threads, Claim(t)
  PROVE  WorkState(u)'
  <1> DEFINE n == node_to_migrate[meta[t]]
  <1>0. /\ TypeOK /\ WorkState(u) /\ meta[u] \in Generations /\ meta[t] \in Generations
        /\ BlockState(meta[t]) /\ Blocks \in Nat \ {0} /\ block[u] \in Nat
        /\ n \in Nat /\ node_to_migrate[meta[u]] \in Nat
        /\ UNCHANGED <<meta, cursor, accessors, migrated>>
    <2>1. TypeOK /\ meta[u] \in Generations /\ meta[t] \in Generations
      BY Parts
    <2>2. n \in Nat /\ node_to_migrate[meta[u]] \in Nat /\ block[u] \in Nat
      BY <2>1 DEF TypeOK
    <2> QED  BY <2>1, <2>2, Parts DEF Claim
  <1>1. node_to_migrate'[meta[u]] = IF meta[u] = meta[t] THEN n + 1 ELSE node_to_migrate[meta[u]]
    BY <1>0 DEF Claim, TypeOK
  <1>2. /\ pc[t] = "claim"
        /\ \/ n < Blocks /\ pc'[t] = "migrate" /\ block'[t] = n
           \/ n >= Blocks /\ pc'[t] = "leave"
        /\ \A v \in Threads \ {t} : pc'[v] = pc[v] /\ block'[v] = block[v]
    BY <1>0 DEF Claim, Goto, TypeOK
  <1>3. \A v \in Threads : pc[v] = "migrate" => block[v] < node_to_migrate[meta[v]]
    BY DEF Inv, WorkState
  <1>4. CASE u = t
    <2>1. CASE pc'[t] = "migrate"
      <3>1. n < Blocks /\ block'[t] = n /\ n \in 0..(Blocks - 1) /\ n < n + 1
        BY <1>0, <1>2, <2>1
      <3>2. migrated[meta[t]][n] = NULL
        <4>1. ~(n < node_to_migrate[meta[t]])
          BY <1>0
        <4> QED  BY <1>0, <3>1, <4>1 DEF BlockState
      <3>3. ASSUME NEW v \in Threads, pc'[v] = "migrate", meta[v] = meta[t], block'[v] = n, v # t
            PROVE  FALSE
        BY <1>0, <1>2, <1>3, <3>3
      <3> QED  BY <1>0, <1>1, <1>4, <2>1, <3>1, <3>2, <3>3 DEF WorkState, AtWork
    <2>2. CASE pc'[t] = "leave"
      <3>1. node_to_migrate'[meta[t]] >= Blocks
        BY <1>0, <1>1, <1>2, <1>4, <2>2
      <3> QED  BY <1>0, <1>4, <2>2, <3>1 DEF WorkState
    <2> QED  BY <1>2, <2>1, <2>2
  <1>5. CASE u # t
    <2>0. pc'[u] = pc[u] /\ block'[u] = block[u]
      BY <1>2, <1>5
    <2>1. ASSUME pc[u] = "migrate"
          PROVE  /\ block[u] < Blocks /\ block[u] < node_to_migrate'[meta[u]]
                 /\ migrated[meta[u]][block[u]] = NULL
                 /\ \A v \in Threads : pc'[v] = "migrate" /\ meta[v] = meta[u]
                                       /\ block'[v] = block[u] => v = u
      <3>1. /\ block[u] < Blocks /\ block[u] < node_to_migrate[meta[u]]
            /\ migrated[meta[u]][block[u]] = NULL
            /\ \A v \in Threads : AtWork(v, meta[u]) /\ block[v] = block[u] => v = u
        BY <1>0, <2>1 DEF WorkState
      <3>2. block[u] < node_to_migrate'[meta[u]]
        BY <1>0, <1>1, <3>1
      <3>3. ASSUME NEW v \in Threads, pc'[v] = "migrate", meta[v] = meta[u], block'[v] = block[u]
            PROVE  v = u
        <4>1. CASE v = t
          BY <1>0, <1>2, <3>1, <3>3, <4>1
        <4>2. CASE v # t
          BY <1>2, <3>1, <3>3, <4>2 DEF AtWork
        <4> QED  BY <4>1, <4>2
      <3> QED  BY <3>1, <3>2, <3>3
    <2>2. pc[u] \in {"leave", "recount", "scan", "set_migrated"} =>
            node_to_migrate'[meta[u]] >= Blocks
      BY <1>0, <1>1 DEF WorkState
    <2>3. ASSUME pc[u] \in {"scan", "set_migrated"}, NEW v \in Threads,
                 pc'[v] = "migrate" /\ meta[v] = meta[u]
          PROVE  AtWork(v, meta[u])
      <3>1. node_to_migrate[meta[u]] >= Blocks
        BY <1>0, <2>3 DEF WorkState
      <3>2. v # t
        BY <1>0, <1>2, <2>3, <3>1
      <3> QED  BY <1>2, <2>3, <3>2 DEF AtWork
    <2>4. pc[u] = "scan" => \A i \in 1..Len(accessors) : i < cursor[u] =>
            ~(pc'[accessors[i]] = "migrate" /\ meta[accessors[i]] = meta[u])
      <3>1. \A i \in 1..Len(accessors) : accessors[i] \in Threads
        BY <1>0 DEF TypeOK
      <3> QED  BY <1>0, <2>3, <3>1 DEF WorkState
    <2>5. pc[u] = "set_migrated" =>
            \A v \in Threads : ~(pc'[v] = "migrate" /\ meta[v] = meta[u])
      BY <1>0, <2>3 DEF WorkState
    <2> QED  BY <1>0, <2>0, <2>1, <2>2, <2>4, <2>5 DEF WorkState, AtWork
  <1> QED  BY <1>4, <1>5

\* A thread that has migrated its block is not at work.
LEMMA WorkMigrate ==
  ASSUME Inv, NEW t \in Threads, Moves(t), NEW u \in Threads, Migrate(t)
  PROVE  WorkState(u)'
  <1>0. /\ TypeOK /\ WorkState(u) /\ WorkState(t)
        /\ meta[u] \in Generations /\ meta[t] \in Generations
        /\ UNCHANGED <<meta, cursor, accessors, node_to_migrate, block>>
    BY Parts DEF Migrate
  <1>1. /\ pc[t] = "migrate" /\ pc'[t] = "claim"
        /\ \A v \in Threads \ {t} : pc'[v] = pc[v]
    BY <1>0 DEF Migrate, Goto, TypeOK
  <1>2. CASE u = t
    BY <1>1, <1>2 DEF WorkState
  <1>3. CASE u # t
    <2>1. ASSUME pc[u] = "migrate"
          PROVE  migrated'[meta[u]][block[u]] = NULL
      <3>1. ~(meta[u] = meta[t] /\ block[u] = block[t]) /\ migrated[meta[u]][block[u]] = NULL
        BY <1>0, <1>1, <1>3, <2>1 DEF WorkState, AtWork
      <3> QED  BY <1>0, <3>1 DEF Migrate, TypeOK
    <2>2. \A v \in Threads : pc'[v] = "migrate" => pc[v] = "migrate"
      BY <1>1
    <2>3. \A i \in 1..Len(accessors) : accessors[i] \in Threads
      BY <1>0 DEF TypeOK
    <2> QED  BY <1>0, <1>1, <1>3, <2>1, <2>2, <2>3 DEF WorkState, AtWork
  <1> QED  BY <1>2, <1>3

\* The account of the work holds after every step.
LEMMA WorkStep ==
  ASSUME Inv, NEW t \in Threads, Moves(t), NEW u \in Threads
  PROVE  WorkState(u)'
  BY WorkQuiet, WorkClaim, WorkMigrate

\* Every block stays migrated, at work or unclaimed.
LEMMA BlockStep ==
  ASSUME Inv, NEW t \in Threads, Moves(t), NEW g \in Generations
  PROVE  BlockState(g)'
  <1>0. /\ TypeOK /\ BlockState(g) /\ meta[t] \in Generations /\ node_to_migrate[g] \in Nat
        /\ Blocks \in Nat \ {0} /\ NULL \notin Threads /\ WorkState(t)
    <2>1. BlockState(g) /\ TypeOK
      BY DEF Inv
    <2>2. node_to_migrate[g] \in Nat
      BY <2>1 DEF TypeOK
    <2> QED  BY <2>1, <2>2, Parts
  <1>1. Len(participants'[g]) <= Len(accessors')
    <2>0. /\ Len(participants[g]) \in Nat /\ Len(accessors) \in Nat /\ Len(accessors') \in Nat
          /\ Len(participants[g]) <= Len(accessors) /\ Len(accessors) <= Len(accessors')
      BY SeatTypes, AccessorsStep
    <2>1. CASE UNCHANGED participants
      BY <2>0, <2>1
    <2>2. CASE Participate(t) \/ Leave(t)
      BY <2>0, <2>2, SeatStep
    <2>3. CASE Prepare(t) /\ ~UNCHANGED participants
      <3>1. /\ participants' = [participants EXCEPT ![meta[t]] = [i \in 1..Len(accessors) |-> 0]]
            /\ UNCHANGED accessors
        BY <2>3 DEF Prepare
      <3>2. participants'[g] = IF g = meta[t] THEN [i \in 1..Len(accessors) |-> 0]
                               ELSE participants[g]
        BY <1>0, <3>1 DEF TypeOK
      <3>3. CASE g = meta[t]
        <4>1. Len(participants'[g]) = Len(accessors)
          BY <2>0, <3>2, <3>3
        <4> QED  BY <2>0, <3>1, <4>1
      <3>4. CASE g # meta[t]
        BY <2>0, <3>1, <3>2, <3>4
      <3> QED  BY <3>3, <3>4
    <2> QED  BY <2>1, <2>2, <2>3, ParticipantsQuiet
  <1>2. ASSUME NEW b \in 0..(Blocks - 1)
        PROVE  IF b < node_to_migrate'[g]
               THEN migrated'[g][b] # NULL
                    \/ \E v \in Threads : pc'[v] = "migrate" /\ meta'[v] = g /\ block'[v] = b
               ELSE migrated'[g][b] = NULL
    <2>0. IF b < node_to_migrate[g]
          THEN migrated[g][b] # NULL \/ \E v \in Threads : AtWork(v, g) /\ block[v] = b
          ELSE migrated[g][b] = NULL
      BY <1>0, <1>2 DEF BlockState
    <2>1. CASE ~Claim(t) /\ ~Migrate(t)
      <3>1. UNCHANGED <<node_to_migrate, migrated>>
        BY <2>1, BlocksQuiet
      <3>2. \A v \in Threads : AtWork(v, g) => /\ pc'[v] = "migrate" /\ meta'[v] = g
                                               /\ block'[v] = block[v]
        BY <2>1, WorkerStep DEF AtWork
      <3> QED  BY <2>0, <3>1, <3>2
    <2>2. CASE Claim(t)
      <3>0. UNCHANGED migrated /\ b \in Int /\ pc[t] = "claim"
        BY <1>2, <2>2 DEF Claim
      <3>1. \A v \in Threads : AtWork(v, g) => /\ pc'[v] = "migrate" /\ meta'[v] = g
                                               /\ block'[v] = block[v]
        BY <2>2, WorkerStep, BlocksQuiet DEF AtWork
      <3>2. CASE g # meta[t] \/ b # node_to_migrate[g]
        <4>1. b < node_to_migrate'[g] <=> b < node_to_migrate[g]
          <5>1. node_to_migrate'[g] = IF g = meta[t] THEN node_to_migrate[g] + 1
                                      ELSE node_to_migrate[g]
            BY <1>0, <2>2 DEF Claim, TypeOK
          <5> QED  BY <1>0, <3>0, <3>2, <5>1
        <4> QED  BY <2>0, <3>0, <3>1, <4>1
      <3>3. CASE g = meta[t] /\ b = node_to_migrate[g]
        <4>1. node_to_migrate[meta[t]] < Blocks /\ ~(node_to_migrate[meta[t]] >= Blocks)
          BY <1>0, <1>2, <3>3
        <4>2. pc'[t] = "migrate" /\ block'[t] = b /\ meta'[t] = g
          BY <1>0, <2>2, <3>3, <4>1 DEF Claim, Goto, TypeOK
        <4>3. b < node_to_migrate'[g]
          BY <1>0, <2>2, <3>3 DEF Claim, TypeOK
        <4> QED  BY <4>2, <4>3
      <3> QED  BY <3>2, <3>3
    <2>3. CASE Migrate(t)
      <3>0. /\ UNCHANGED node_to_migrate /\ pc[t] = "migrate"
            /\ block[t] < node_to_migrate[meta[t]]
        BY <1>0, <2>3 DEF Migrate, WorkState
      <3>1. migrated'[g][b] = IF g = meta[t] /\ b = block[t] THEN t ELSE migrated[g][b]
        BY <1>0, <1>2, <2>3 DEF Migrate, TypeOK
      <3>2. \A v \in Threads : AtWork(v, g) => \/ v = t
                                               \/ /\ pc'[v] = "migrate" /\ meta'[v] = g
                                                  /\ block'[v] = block[v]
        BY WorkerStep DEF AtWork
      <3>3. CASE g = meta[t] /\ b = block[t]
        BY <1>0, <3>0, <3>1, <3>3
      <3>4. CASE ~(g = meta[t] /\ b = block[t])
        BY <2>0, <3>0, <3>1, <3>2, <3>4 DEF AtWork
      <3> QED  BY <3>3, <3>4
    <2> QED  BY <2>1, <2>2, <2>3
  <1> QED  BY <1>1, <1>2 DEF BlockState, AtWork
-----------------------------------------------------------------------------
\* The invariant holds initially.
LEMMA InitInv ==
  ASSUME Init
  PROVE  Inv
  <1> USE ResizeAssumption
  <1>1. PICK creator \in Threads : accessors = <<creator>>
    BY DEF Init
  <1>2. /\ accessors \in Seq(Threads) /\ Len(accessors) = 1 /\ accessors[1] = creator
    BY <1>1
  <1>3. 1 \in Generations /\ \A g \in Generations : g \in Int /\ g >= 1
    BY DEF Generations
  <1>4. /\ \A t \in Threads : /\ pc[t] = "idle" /\ job[t] = "write" /\ meta[t] = 1
                              /\ cursor[t] = 1 /\ block[t] = 0 /\ self_mutex[t] = NULL
        /\ \A g \in Generations :
             /\ resize_leader[g] = NULL /\ ~new_metadata_ready[g] /\ ~node_migration_done[g]
             /\ ~resize_done[g] /\ participants[g] = <<>> /\ node_to_migrate[g] = 0
             /\ \A b \in 0..(Blocks - 1) : migrated[g][b] = NULL
        /\ metadata = 1 /\ sync_op = NULL /\ accessors_lock = NULL
    BY DEF Init
  <1>5. TypeOK
    <2>1. /\ new_metadata_ready \in [Generations -> BOOLEAN]
          /\ node_migration_done \in [Generations -> BOOLEAN]
          /\ resize_done \in [Generations -> BOOLEAN]
          /\ participants \in [Generations -> Seq(0..2)]
      BY DEF Init
    <2>2. pc \in [Threads -> Labels]
      BY DEF Init, Labels
    <2>3. /\ resize_leader \in [Generations -> Threads \cup {NULL}]
          /\ node_to_migrate \in [Generations -> Nat]
          /\ migrated \in [Generations -> [0..(Blocks - 1) -> Threads \cup {NULL}]]
          /\ self_mutex \in [Threads -> Threads \cup {NULL}]
          /\ calls \in 0..MaxCalls
      BY DEF Init
    <2>4. /\ job \in [Threads -> {"write", "grow", "lead", "len"}]
          /\ meta \in [Threads -> Generations]
          /\ cursor \in [Threads -> Nat \ {0}] /\ block \in [Threads -> Nat]
      BY <1>3 DEF Init
    <2> QED  BY <1>2, <1>3, <1>4, <2>1, <2>2, <2>3, <2>4 DEF TypeOK
  <1>6. Accessors
    BY <1>2 DEF Accessors
  <1>7. LockState
    BY <1>4 DEF LockState, HoldsSync, HoldsList, Working, Taken, Common
  <1>8. ASSUME NEW t \in Threads
        PROVE  Shape(t) /\ LeadState(t) /\ WorkState(t)
    <2>1. Shape(t)
      BY <1>4 DEF Shape, LeadersOnly, Locking, WritersOnly, Common, Fails
    <2>2. LeadState(t)
      BY <1>4 DEF LeadState, Leads, Fails, Migrating, Common
    <2>3. WorkState(t)
      BY <1>4 DEF WorkState
    <2> QED  BY <2>1, <2>2, <2>3
  <1>9. \A g \in Generations : Len(participants[g]) = 0
    BY <1>4
  <1>10. ASSUME NEW t \in Threads
         PROVE  SeatState(t)
    BY <1>4, <1>9 DEF SeatState, Joining, Common, Bound
  <1>11. ASSUME NEW g \in Generations
         PROVE  GenState(g) /\ BlockState(g)
    <2>1. GenState(g)
      BY <1>3, <1>4, <1>9 DEF GenState, Pristine, Empty
    <2>2. BlockState(g)
      BY <1>2, <1>4, <1>9 DEF BlockState
    <2> QED  BY <2>1, <2>2
  <1> QED  BY <1>5, <1>6, <1>7, <1>8, <1>10, <1>11 DEF Inv

\* Every step keeps the invariant.
LEMMA StepInv ==
  ASSUME Inv, [Next]_vars
  PROVE  Inv'
  <1>1. CASE UNCHANGED vars
    <2> USE <1>1 DEF vars, tableVars, locks
    <2>1. TypeOK' /\ Accessors'
      BY DEF Inv, TypeOK, Accessors
    <2>2. LockState'
      BY DEF Inv, LockState, HoldsSync, HoldsList, Working, Taken
    <2>3. ASSUME NEW t \in Threads
          PROVE  (Shape(t) /\ LeadState(t))'
      BY DEF Inv, Shape, LeadState, HasAccessor, Empty, Pristine, Migrating, Leads, Failing
    <2>4. ASSUME NEW t \in Threads
          PROVE  (SeatState(t) /\ WorkState(t))'
      BY DEF Inv, SeatState, WorkState, AccessorAt, Empty, Bound, AtWork
    <2>5. ASSUME NEW g \in Generations
          PROVE  (GenState(g) /\ BlockState(g))'
      BY DEF Inv, GenState, BlockState, Empty, Pristine, AllMigrated, Migrating, AtWork
    <2> QED  BY <2>1, <2>2, <2>3, <2>4, <2>5 DEF Inv, Generations
  <1>2. ASSUME NEW t \in Threads, Moves(t)
        PROVE  Inv'
    <2>1. TypeOK' /\ Accessors' /\ LockState'
      BY <1>2, TypeStep, AccessorsStep, LockStep
    <2>2. ASSUME NEW u \in Threads
          PROVE  (Shape(u) /\ LeadState(u) /\ SeatState(u) /\ WorkState(u))'
      BY <1>2, ShapeStep, LeadStep, SeatsStep, WorkStep
    <2>3. ASSUME NEW g \in Generations
          PROVE  (GenState(g) /\ BlockState(g))'
      BY <1>2, GenStep, BlockStep
    <2>4. Generations' = Generations
      BY DEF Generations
    <2> QED  BY <2>1, <2>2, <2>3, <2>4 DEF Inv
  <1> QED  BY <1>1, <1>2 DEF Next, Moves

\* The invariant is one.
LEMMA InvHolds == Spec => []Inv
  BY InitInv, StepInv, PTL DEF Spec

\* A writer that has passed maybe_help_resize works on the table in use, and that
\* table is not being migrated, with any number of threads and resizes.
THEOREM NoWriterDuringMigration == Spec => []WritersAreLockedOut
  <1>1. Inv => WritersAreLockedOut
    <2> SUFFICES ASSUME Inv, NEW t \in Threads, pc[t] = "critical"
        PROVE  meta[t] = metadata /\ participants[metadata] = <<>>
      BY DEF WritersAreLockedOut
    <2>1. meta[t] = metadata
      BY Parts DEF LeadState
    <2>2. ASSUME ~Empty(metadata)
          PROVE  FALSE
      <3>1. PICK v \in Threads : Migrating(v)
        BY <2>2, Parts DEF GenState, Pristine, TypeOK
      <3>2. v # t
        BY <3>1 DEF Migrating, Common
      <3> QED  BY <3>1, <3>2, MigratorAlone
    <2>3. participants[metadata] \in Seq(0..2)
      BY Parts, SeatTypes
    <2> QED  BY <2>1, <2>2, <2>3, EmptySeq DEF Empty
  <1> QED  BY <1>1, InvHolds, PTL

\* A table is replaced after every one of its blocks has been migrated.
THEOREM EveryNodeIsMigrated == Spec => []NoNodeIsLost
  <1>1. Inv => NoNodeIsLost
    <2> SUFFICES ASSUME Inv, NEW g \in 1..(metadata - 1), NEW b \in 0..(Blocks - 1)
        PROVE  migrated[g][b] # NULL
      BY DEF NoNodeIsLost
    <2>1. TypeOK
      BY DEF Inv
    <2>2. g \in Generations /\ g < metadata
      BY <2>1, ResizeAssumption DEF TypeOK, Generations
    <2>3. GenState(g)
      BY <2>2 DEF Inv
    <2> QED  BY <2>2, <2>3 DEF GenState, AllMigrated
  <1> QED  BY <1>1, InvHolds, PTL

\* The assertions on the compare-and-exchanges of a resize hold: a thread's seat is
\* within the leader's participants and free when it takes it, taken when it leaves
\* it, and only the leader replaces the table.
THEOREM ResizeAssertionsHold == Spec => []AssertionsHold
  <1>1. Inv => AssertionsHold
    <2> SUFFICES ASSUME Inv
        PROVE  AssertionsHold
      OBVIOUS
    <2>1. TypeOK
      BY DEF Inv
    <2>2. ASSUME NEW t \in Threads, pc[t] \in {"participate", "leave"}
          PROVE  /\ \E i \in 1..Len(participants[meta[t]]) : accessors[i] = t
                 /\ participants[meta[t]][Accessor(t)] = IF pc[t] = "leave" THEN 1 ELSE 0
      <3>0. /\ SeatState(t) /\ Shape(t) /\ meta[t] \in Generations /\ Accessors
        BY Parts
      <3>1. Bound(t) /\ ~Empty(meta[t])
        BY <2>2, <3>0 DEF Bound, Shape, SeatState, Joining, Common
      <3>2. PICK i \in 1..Len(participants[meta[t]]) : AccessorAt(i, t)
        BY <3>0, <3>1 DEF SeatState
      <3>3. Accessor(t) = i
        BY <3>0, <3>2 DEF Accessor, AccessorAt, Accessors
      <3>4. CASE pc[t] = "participate"
        <4>1. pc[t] \notin Joined
          BY <3>4 DEF Joined
        <4>2. participants[meta[t]][i] = 0
          BY <3>0, <3>1, <3>2, <4>1 DEF SeatState
        <4> QED  BY <3>2, <3>3, <3>4, <4>2 DEF AccessorAt
      <3>5. CASE pc[t] = "leave"
        <4>1. participants[meta[t]][i] = 1
          BY <3>0, <3>2, <3>5 DEF SeatState
        <4> QED  BY <3>2, <3>3, <3>5, <4>1 DEF AccessorAt
      <3> QED  BY <2>2, <3>4, <3>5
    <2>3. ASSUME NEW t \in Threads, pc[t] = "swap"
          PROVE  metadata = meta[t]
      BY <2>3, Parts DEF LeadState, Migrating, Shape, LeadersOnly
    <2> QED  BY <2>1, <2>2, <2>3 DEF AssertionsHold
  <1> QED  BY <1>1, InvHolds, PTL

\* A call that is over holds no mutex, on the error paths of a resize either.
THEOREM EveryMutexIsReleased == Spec => []NoMutexIsLeaked
  <1>1. Inv => NoMutexIsLeaked
    <2> SUFFICES ASSUME Inv, NEW t \in Threads,
                        pc[t] \in {"idle", "get_meta", "follow", "fail_resize_done"}
        PROVE  /\ sync_op # t /\ accessors_lock # t
               /\ \A u \in Threads : self_mutex[u] # t
      BY DEF NoMutexIsLeaked
    <2>1. ~HoldsSync(t) /\ ~HoldsList(t) /\ ~Working(t)
      BY DEF HoldsSync, HoldsList, Working, Common
    <2>2. Taken(t) = {}
      BY <2>1 DEF Taken
    <2> QED  BY <2>1, <2>2, Parts DEF LockState
  <1> QED  BY <1>1, InvHolds, PTL

\* A block that is in the new table is not migrated into it again.
THEOREM NoBlockIsMigratedTwice == Spec => BlocksMigrateOnce
  <1> DEFINE Once ==
        \A g \in Generations, b \in 0..(Blocks - 1) :
          migrated[g][b] # NULL => migrated'[g][b] = migrated[g][b]
                                   /\ \A t \in Threads : ~(pc[t] = "migrate" /\ pc'[t] = "claim"
                                         /\ meta[t] = g /\ block[t] = b)
  <1>1. Inv /\ [Next]_vars => [Once]_vars
    <2> SUFFICES ASSUME Inv, NEW t \in Threads, Moves(t),
                        NEW g \in Generations, NEW b \in 0..(Blocks - 1), migrated[g][b] # NULL
        PROVE  /\ migrated'[g][b] = migrated[g][b]
               /\ \A u \in Threads : ~(pc[u] = "migrate" /\ meta[u] = g /\ block[u] = b)
      BY DEF Next, Moves
    <2>1. \A u \in Threads : ~(pc[u] = "migrate" /\ meta[u] = g /\ block[u] = b)
      BY Parts DEF WorkState
    <2>2. CASE Migrate(t)
      BY <2>1, <2>2, Parts DEF Migrate, TypeOK
    <2>3. CASE ~Migrate(t)
      BY <2>1, <2>3, BlocksQuiet
    <2> QED  BY <2>1, <2>2, <2>3
  <1> QED  BY <1>1, InvHolds, PTL DEF Spec, BlocksMigrateOnce
-----------------------------------------------------------------------------
(***************************************************************************)
(* Deadlock.  What the invariant above does not say is that whoever waits  *)
(* for an event waits for somebody.  A seat that reads 1 is that of a      *)
(* thread at its blocks (Occupied), so that a thread which goes to sleep   *)
(* because of it leaves another one that will scan the seats later         *)
(* (Awaited); a leader stays until its two other events are set (Led), and *)
(* is at the labels where it sets them (EventState).  Mutexes cannot close *)
(* a circle: only the holder of the list of accessors waits for a mutex    *)
(* while it has one, and a writer with a mutex waits for nothing.          *)
(***************************************************************************)
AtSeat == {"claim", "migrate", "leave"}
Busy == AtSeat \cup {"recount", "scan", "set_migrated"}

\* A seat that is taken and not left.
Occupied ==
  \A t \in Threads, g \in Generations : \A i \in 1..Len(participants[g]) :
    AccessorAt(i, t) /\ participants[g][i] = 1 => meta[t] = g /\ pc[t] \in AtSeat

\* Somebody will set the event of a migration that threads wait for.
Awaited ==
  \A t \in Threads : pc[t] = "wait_migrated" =>
    \/ node_migration_done[meta[t]]
    \/ \E u \in Threads : meta[u] = meta[t] /\ pc[u] \in Busy

\* A leader does not leave before it has told its followers.
Led(g) ==
  resize_leader[g] # NULL =>
    \/ new_metadata_ready[g] /\ resize_done[g]
    \/ Leads(resize_leader[g]) /\ meta[resize_leader[g]] = g

\* Followers have a leader, and a leader has set the events that it has passed.
EventState(t) ==
  /\ pc[t] \in Common \cup {"follow", "wait_resized"} => resize_leader[meta[t]] # NULL
  /\ Leads(t) /\ pc[t] \in Common \cup {"swap", "set_resized"} => new_metadata_ready[meta[t]]
  /\ Leads(t) /\ pc[t] \in {"unlock_sync_op", "unlock_mutexes"} /\ resize_done[meta[t]] =>
       new_metadata_ready[meta[t]]
  /\ pc[t] \in {"fail_migrated", "fail_ready"} => resize_done[meta[t]]

WakeInv ==
  /\ Occupied /\ Awaited
  /\ \A g \in Generations : Led(g)
  /\ \A t \in Threads : EventState(t)

\* Thread t has found a participant at work.
SeesWork(t) ==
  /\ pc[t] = "scan" /\ cursor[t] \in 1..Len(participants[meta[t]])
  /\ participants[meta[t]][cursor[t]] = 1

\* Events stay set and leaders stay named; the end of a resize is told by its leader.
LEMMA EventsGrow ==
  ASSUME Inv, NEW t \in Threads, Moves(t), NEW g \in Generations
  PROVE  /\ new_metadata_ready[g] => new_metadata_ready'[g]
         /\ node_migration_done[g] => node_migration_done'[g]
         /\ resize_done[g] => resize_done'[g]
         /\ resize_done'[g] => resize_done[g] \/ (Leads(t) /\ meta[t] = g)
         /\ \/ resize_leader'[g] = resize_leader[g]
            \/ /\ resize_leader[g] = NULL /\ resize_leader'[g] = t
               /\ meta'[t] = g /\ Leads(t)'
  <1>0. /\ TypeOK /\ Shape(t) /\ meta[t] \in Generations /\ t \in Threads
    BY Parts
  <1>1. CASE CasLeader(t)
    <2>1. /\ UNCHANGED <<new_metadata_ready, node_migration_done, resize_done, meta>>
      BY <1>1 DEF CasLeader
    <2>2. CASE resize_leader[meta[t]] = NULL
      <3>1. /\ resize_leader' = [resize_leader EXCEPT ![meta[t]] = t]
            /\ pc'[t] = "new_meta" /\ job'[t] = "lead"
        BY <1>0, <1>1, <2>2 DEF CasLeader, Goto, TypeOK
      <3> QED  BY <1>0, <2>1, <2>2, <3>1 DEF TypeOK, Leads
    <2>3. CASE resize_leader[meta[t]] # NULL
      BY <1>1, <2>1, <2>3 DEF CasLeader
    <2> QED  BY <2>2, <2>3
  <1>2. CASE SetReady(t)
    BY <1>0, <1>2 DEF SetReady, Set, TypeOK
  <1>3. CASE SetMigrated(t)
    BY <1>0, <1>3 DEF SetMigrated, Set, TypeOK
  <1>4. CASE SetResized(t)
    BY <1>0, <1>4 DEF SetResized, Set, TypeOK, Shape, LeadersOnly, Leads
  <1>5. CASE FailEvents(t)
    BY <1>0, <1>5 DEF FailEvents, Set, TypeOK, Leads, Fails
  <1>6. CASE UNCHANGED <<resize_leader, new_metadata_ready, node_migration_done, resize_done>>
    BY <1>6
  <1> QED
    BY <1>1, <1>2, <1>3, <1>4, <1>5, <1>6, TableQuiet
       DEF tableVars, Prepare, Participate, Claim, Migrate, Leave, SwapMetadata

\* What a thread's own step does to the events, to its lead and to its work.
LEMMA WakeOwn ==
  ASSUME Inv, NEW t \in Threads, EventState(t), Moves(t)
  PROVE  /\ EventState(t)'
         /\ Leads(t) => \/ Leads(t)' /\ meta'[t] = meta[t]
                        \/ new_metadata_ready'[meta[t]] /\ resize_done'[meta[t]]
         /\ pc[t] \in Busy => \/ pc'[t] \in Busy /\ meta'[t] = meta[t]
                              \/ node_migration_done'[meta[t]]
                              \/ SeesWork(t)
         /\ pc'[t] = "wait_migrated" => \/ node_migration_done'[meta'[t]]
                                        \/ SeesWork(t) /\ meta'[t] = meta[t]
         /\ pc[t] \in AtSeat => Leave(t) \/ (pc'[t] \in AtSeat /\ meta'[t] = meta[t])
  <1>0. /\ LocalTypes
        /\ resize_leader \in [Generations -> Threads \cup {NULL}]
        /\ new_metadata_ready \in [Generations -> BOOLEAN]
        /\ node_migration_done \in [Generations -> BOOLEAN]
        /\ resize_done \in [Generations -> BOOLEAN]
        /\ Shape(t) /\ LeadState(t) /\ meta[t] \in Generations /\ NULL \notin Threads
        /\ cursor[t] \in Nat \ {0} /\ Len(participants[meta[t]]) \in Nat
    BY Parts, SeatTypes DEF TypeOK, LocalTypes
  <1> USE <1>0
      DEF LocalTypes, EventState, Leads, Fails, Common, Busy, AtSeat,
          tableVars, locks, Goto, LeaveLoop, Advance, Set
  <1>1. CASE StartWrite(t)
    BY <1>1 DEF StartWrite
  <1>2. CASE StartLen(t)
    BY <1>2 DEF StartLen
  <1>3. CASE Register(t)
    <2>1. /\ UNCHANGED <<tableVars, job, meta>> /\ pc'[t] = "get_meta" /\ job[t] = "write"
          /\ pc[t] = "register"
      BY <1>3 DEF Register, Shape, WritersOnly
    <2> QED  BY <2>1
  <1>4. CASE GetMeta(t)
    <2>1. /\ UNCHANGED <<tableVars, job>> /\ pc'[t] = "try_lock" /\ job[t] = "write"
          /\ pc[t] = "get_meta"
      BY <1>4 DEF GetMeta, Shape, WritersOnly
    <2> QED  BY <2>1
  <1>5. CASE TryLock(t)
    <2>1. /\ UNCHANGED <<tableVars, job, meta>> /\ pc'[t] \in {"check", "help"}
          /\ job[t] = "write" /\ pc[t] = "try_lock"
      BY <1>5 DEF TryLock, Shape, WritersOnly
    <2> QED  BY <2>1
  <1>6. CASE Help(t)
    <2>1. /\ UNCHANGED <<tableVars, job, meta>> /\ job[t] = "write" /\ pc[t] = "help"
          /\ pc'[t] = IF resize_leader[meta[t]] = NULL THEN "lock" ELSE "follow"
      BY <1>6 DEF Help, Shape, WritersOnly
    <2> QED  BY <2>1
  <1>7. CASE Lock(t)
    BY <1>7 DEF Lock
  <1>8. CASE Check(t)
    <2>1. /\ UNCHANGED <<tableVars, job, meta>> /\ job[t] = "write" /\ pc[t] = "check"
          /\ \/ pc'[t] = "critical"
             \/ pc'[t] = "follow" /\ resize_leader[meta[t]] # NULL
      BY <1>8 DEF Check, Shape, WritersOnly
    <2> QED  BY <2>1
  <1>9. CASE Unlock(t)
    <2>1. /\ UNCHANGED <<tableVars, meta>> /\ job[t] = "write" /\ pc[t] = "critical"
          /\ pc'[t] \in {"idle", "grow"} /\ job'[t] \in {"write", "grow"}
      BY <1>9 DEF Unlock, Shape, WritersOnly
    <2> QED  BY <2>1
  <1>10. CASE GrowGetMeta(t)
    <2>1. /\ UNCHANGED <<tableVars, job>> /\ job[t] = "grow" /\ pc[t] = "grow"
          /\ pc'[t] \in {"resize", "idle"}
      BY <1>10 DEF GrowGetMeta, Shape
    <2> QED  BY <2>1
  <1>11. CASE CasLeader(t)
    <2>1. /\ pc[t] = "resize" /\ job[t] = "grow" /\ UNCHANGED meta
          /\ \/ pc'[t] = "new_meta"
             \/ /\ pc'[t] = "follow" /\ UNCHANGED <<job, resize_leader>>
                /\ resize_leader[meta[t]] # NULL
      BY <1>11 DEF CasLeader, Shape
    <2> QED  BY <2>1
  <1>12. CASE NewMeta(t)
    <2>1. /\ UNCHANGED <<tableVars, job, meta>> /\ job[t] = "lead" /\ pc[t] = "new_meta"
          /\ pc'[t] \in {"lock_sync_op", "fail_resize_done"}
      BY <1>12 DEF NewMeta, Shape, LeadersOnly
    <2> QED  BY <2>1
  <1>13. CASE LockSyncOp(t)
    BY <1>13 DEF LockSyncOp
  <1>14. CASE LockAccessors(t)
    BY <1>14 DEF LockAccessors
  <1>15. CASE LockMutexes(t)
    <2>1. /\ UNCHANGED <<tableVars, job, meta>> /\ pc[t] = "lock_mutexes"
          /\ pc'[t] \in {"lock_mutexes", "unlock_sync_op", "prepare"}
          /\ pc'[t] = "unlock_sync_op" => job[t] = "len"
      BY <1>15 DEF LockMutexes
    <2> QED  BY <2>1
  <1>16. CASE Prepare(t)
    <2>1. /\ UNCHANGED <<resize_leader, new_metadata_ready, resize_done, job, meta>>
          /\ pc[t] = "prepare" /\ job[t] = "lead" /\ pc'[t] \in {"ready", "unlock_sync_op"}
      BY <1>16 DEF Prepare, Shape, LeadersOnly
    <2>2. ~resize_done[meta[t]]
      BY <2>1 DEF LeadState, Pristine
    <2> QED  BY <2>1, <2>2
  <1>17. CASE SetReady(t)
    <2>1. /\ UNCHANGED <<resize_leader, resize_done, job, meta>> /\ new_metadata_ready'[meta[t]]
          /\ pc[t] = "ready" /\ pc'[t] = "common" /\ job[t] = "lead"
      BY <1>17 DEF SetReady, Shape, LeadersOnly
    <2>2. resize_leader[meta[t]] = t
      BY <2>1 DEF LeadState
    <2> QED  BY <2>1, <2>2
  <1>18. CASE Follow(t)
    BY <1>18 DEF Follow
  <1>19. CASE CommonResize(t)
    <2>1. /\ UNCHANGED <<tableVars, job, meta>> /\ pc[t] = "common"
          /\ \/ pc'[t] = "participate"
             \/ pc'[t] = "swap" /\ job[t] = "lead"
             \/ pc'[t] = "wait_resized" /\ job[t] # "lead"
      BY <1>19 DEF CommonResize, AfterCommon
    <2> QED  BY <2>1
  <1>20. CASE Participate(t)
    BY <1>20 DEF Participate
  <1>21. CASE Claim(t)
    <2>1. /\ UNCHANGED <<resize_leader, new_metadata_ready, resize_done, job, meta>>
          /\ pc[t] = "claim" /\ pc'[t] \in {"migrate", "leave"}
      BY <1>21 DEF Claim
    <2> QED  BY <2>1
  <1>22. CASE Migrate(t)
    <2>1. /\ UNCHANGED <<resize_leader, new_metadata_ready, resize_done, job, meta>>
          /\ pc[t] = "migrate" /\ pc'[t] = "claim"
      BY <1>22 DEF Migrate
    <2> QED  BY <2>1
  <1>23. CASE Leave(t)
    <2>1. /\ UNCHANGED <<resize_leader, new_metadata_ready, resize_done, job, meta>>
          /\ pc[t] = "leave" /\ pc'[t] = "recount"
      BY <1>23 DEF Leave
    <2> QED  BY <1>23, <2>1
  <1>24. CASE Recount(t)
    BY <1>24 DEF Recount
  <1>25. CASE Scan(t)
    <2>1. /\ UNCHANGED <<tableVars, job, meta>> /\ pc[t] = "scan"
          /\ \/ pc'[t] \in {"scan", "set_migrated"}
             \/ pc'[t] = "wait_migrated" /\ SeesWork(t)
      BY <1>25 DEF Scan, SeesWork
    <2> QED  BY <2>1
  <1>26. CASE SetMigrated(t)
    <2>1. /\ UNCHANGED <<resize_leader, new_metadata_ready, resize_done, job, meta>>
          /\ pc[t] = "set_migrated" /\ pc'[t] = "wait_migrated"
          /\ node_migration_done'[meta[t]]
      BY <1>26 DEF SetMigrated
    <2> QED  BY <2>1
  <1>27. CASE WaitMigrated(t)
    <2>1. /\ UNCHANGED <<tableVars, job, meta>> /\ pc[t] = "wait_migrated"
          /\ pc'[t] = IF job[t] = "lead" THEN "swap" ELSE "wait_resized"
      BY <1>27 DEF WaitMigrated, AfterCommon
    <2> QED  BY <2>1
  <1>28. CASE WaitResized(t)
    <2>1. /\ UNCHANGED <<tableVars, meta>> /\ pc[t] = "wait_resized" /\ job'[t] = "write"
          /\ pc'[t] \in {"get_meta", "idle"} /\ job[t] # "lead"
      BY <1>28 DEF WaitResized, Shape
    <2> QED  BY <2>1
  <1>29. CASE SwapMetadata(t)
    BY <1>29 DEF SwapMetadata
  <1>30. CASE SetResized(t)
    <2>1. /\ UNCHANGED <<resize_leader, new_metadata_ready, job, meta>>
          /\ pc[t] = "set_resized" /\ pc'[t] = "unlock_sync_op" /\ job[t] = "lead"
      BY <1>30 DEF SetResized, Shape, LeadersOnly
    <2> QED  BY <2>1
  <1>31. CASE UnlockSyncOp(t)
    BY <1>31 DEF UnlockSyncOp
  <1>32. CASE UnlockMutexes(t)
    BY <1>32 DEF UnlockMutexes
  <1>33. CASE UnlockAccessors(t)
    <2>1. /\ UNCHANGED <<tableVars, meta>> /\ pc[t] = "unlock_mutexes" /\ job'[t] = "write"
          /\ \/ job[t] = "len" /\ pc'[t] = "idle"
             \/ job[t] = "lead" /\ resize_done[meta[t]] /\ pc'[t] \in {"idle", "get_meta"}
             \/ job[t] = "lead" /\ pc'[t] = "fail_resize_done"
      BY <1>33 DEF UnlockAccessors
    <2> QED  BY <2>1
  <1>34. CASE FailEvents(t)
    <2>1. /\ UNCHANGED <<resize_leader, job, meta>>
          /\ \/ pc[t] = "fail_resize_done" /\ pc'[t] = "fail_migrated" /\ resize_done'[meta[t]]
             \/ pc[t] = "fail_migrated" /\ pc'[t] = "fail_ready" /\ UNCHANGED resize_done
             \/ pc[t] = "fail_ready" /\ pc'[t] = "idle" /\ UNCHANGED resize_done
                  /\ new_metadata_ready'[meta[t]]
      BY <1>34 DEF FailEvents
    <2> QED  BY <2>1
  <1> QED
    BY <1>1, <1>2, <1>3, <1>4, <1>5, <1>6, <1>7, <1>8, <1>9, <1>10, <1>11, <1>12, <1>13,
       <1>14, <1>15, <1>16, <1>17, <1>18, <1>19, <1>20, <1>21, <1>22, <1>23, <1>24, <1>25,
       <1>26, <1>27, <1>28, <1>29, <1>30, <1>31, <1>32, <1>33, <1>34 DEF Moves, Step

\* What a step of another thread leaves of it.
LEMMA EventStateStep ==
  ASSUME Inv, WakeInv, NEW t \in Threads, Moves(t), NEW u \in Threads
  PROVE  EventState(u)'
  <1>1. CASE u = t
    BY <1>1, WakeOwn DEF WakeInv
  <1>2. CASE u # t
    <2>0. /\ pc'[u] = pc[u] /\ job'[u] = job[u] /\ meta'[u] = meta[u]
          /\ meta[u] \in Generations /\ EventState(u) /\ NULL \notin Threads
      BY <1>2, Parts, StepIsLocal DEF Others, WakeInv
    <2>1. Leads(u)' <=> Leads(u)
      BY <2>0 DEF Leads
    <2>2. /\ new_metadata_ready[meta[u]] => new_metadata_ready'[meta[u]]
          /\ resize_done[meta[u]] => resize_done'[meta[u]]
          /\ resize_done'[meta[u]] => resize_done[meta[u]] \/ (Leads(t) /\ meta[t] = meta[u])
          /\ resize_leader[meta[u]] # NULL => resize_leader'[meta[u]] # NULL
      BY <2>0, EventsGrow
    <2>3. Leads(u) => ~(Leads(t) /\ meta[t] = meta[u])
      BY <1>2, OneLeader
    <2> QED  BY <2>0, <2>1, <2>2, <2>3 DEF EventState
  <1> QED  BY <1>1, <1>2

\* A leader is still at it or has told its followers, after every step.
LEMMA LedStep ==
  ASSUME Inv, WakeInv, NEW t \in Threads, Moves(t), NEW g \in Generations
  PROVE  Led(g)'
  <1>0. Led(g) /\ EventState(t) /\ NULL \notin Threads
    BY Parts DEF WakeInv
  <1>1. CASE resize_leader[g] = NULL
    BY <1>0, <1>1, EventsGrow DEF Led
  <1>2. CASE resize_leader[g] # NULL
    <2> DEFINE l == resize_leader[g]
    <2>1. resize_leader'[g] = l /\ l \in Threads
      BY <1>2, EventsGrow, Parts DEF TypeOK
    <2>2. CASE new_metadata_ready[g] /\ resize_done[g]
      BY <2>2, EventsGrow DEF Led
    <2>3. CASE Leads(l) /\ meta[l] = g
      <3>1. CASE l = t
        BY <1>0, <2>1, <2>3, <3>1, WakeOwn DEF Led
      <3>2. CASE l # t
        <4>1. pc'[l] = pc[l] /\ job'[l] = job[l] /\ meta'[l] = meta[l]
          BY <2>1, <3>2, Parts, StepIsLocal DEF Others
        <4> QED  BY <2>1, <2>3, <4>1 DEF Led, Leads
      <3> QED  BY <3>1, <3>2
    <2> QED  BY <1>0, <1>2, <2>2, <2>3 DEF Led
  <1> QED  BY <1>1, <1>2

\* Only a thread that works on its blocks has a seat that reads 1, after every step.
LEMMA OccupiedStep ==
  ASSUME Inv, WakeInv, NEW t \in Threads, Moves(t)
  PROVE  Occupied'
  <1> SUFFICES ASSUME NEW u \in Threads, NEW g \in Generations, NEW i \in 1..Len(participants'[g]),
                      AccessorAt(i, u)', participants'[g][i] = 1
      PROVE  meta'[u] = g /\ pc'[u] \in AtSeat
    BY DEF Occupied, Generations
  <1>0. /\ participants \in [Generations -> Seq(0..2)] /\ LocalTypes /\ Accessors
        /\ Shape(t) /\ LeadState(t) /\ EventState(t) /\ meta[t] \in Generations
        /\ Len(participants[g]) \in Nat /\ Len(accessors) \in Nat
        /\ Len(participants[g]) <= Len(accessors)
    BY Parts, SeatTypes DEF TypeOK, LocalTypes, WakeInv
  <1>a. u # t => pc'[u] = pc[u] /\ meta'[u] = meta[u]
    BY Parts, StepIsLocal DEF Others
  \* The seat read 1 before the step, too.
  <1>k. ASSUME i \in 1..Len(participants[g]), participants[g][i] = 1, ~Leave(t) \/ u # t
        PROVE  meta'[u] = g /\ pc'[u] \in AtSeat
    <2>1. AccessorAt(i, u)
      BY <1>0, <1>k, AccessorsStep DEF AccessorAt
    <2>2. meta[u] = g /\ pc[u] \in AtSeat
      BY <1>k, <2>1 DEF WakeInv, Occupied
    <2> QED  BY <1>0, <1>a, <1>k, <2>2, WakeOwn
  <1>1. CASE UNCHANGED participants /\ ~Leave(t)
    BY <1>1, <1>k
  <1>2. CASE Prepare(t) /\ ~UNCHANGED participants
    <2>1. participants' = [participants EXCEPT ![meta[t]] = [j \in 1..Len(accessors) |-> 0]]
      BY <1>2 DEF Prepare
    <2>2. CASE g = meta[t]
      <3>1. participants'[g] = [j \in 1..Len(accessors) |-> 0]
        BY <1>0, <2>1, <2>2
      <3>2. Len(participants'[g]) = Len(accessors)
        BY <1>0, <3>1
      <3> QED  BY <3>1, <3>2
    <2>3. CASE g # meta[t]
      <3>1. participants'[g] = participants[g] /\ ~Leave(t)
        BY <1>0, <1>2, <2>1, <2>3 DEF Prepare, Leave
      <3> QED  BY <1>k, <3>1
    <2> QED  BY <2>2, <2>3
  <1>3. CASE Participate(t) \/ Leave(t)
    <2>1. /\ AccessorAt(Accessor(t), t)
          /\ Len(participants'[g]) = Len(participants[g])
          /\ \A j \in 1..Len(participants[g]) :
               participants'[g][j] =
                 IF g = meta[t] /\ j = Accessor(t)
                 THEN IF pc[t] = "participate" THEN 1 ELSE 2
                 ELSE participants[g][j]
      BY <1>3, SeatStep
    <2>2. /\ UNCHANGED <<accessors, meta>>
          /\ \/ pc[t] = "participate" /\ pc'[t] = "claim"
             \/ pc[t] = "leave" /\ pc'[t] = "recount"
      BY <1>0, <1>3 DEF Participate, Leave, Goto, LocalTypes
    <2>3. i \in 1..Len(participants[g]) /\ AccessorAt(i, u)
      BY <2>1, <2>2 DEF AccessorAt
    <2>4. i = Accessor(t) <=> u = t
      BY <1>0, <2>1, <2>3 DEF AccessorAt, Accessors
    <2>5. CASE g = meta[t] /\ u = t
      BY <2>1, <2>2, <2>3, <2>4, <2>5 DEF AtSeat
    <2>6. CASE ~(g = meta[t] /\ u = t)
      <3>1. participants[g][i] = 1
        BY <2>1, <2>3, <2>4, <2>6
      <3>2. meta[u] = g /\ pc[u] \in AtSeat
        BY <2>3, <3>1 DEF WakeInv, Occupied
      <3> QED  BY <1>a, <2>6, <3>2
    <2> QED  BY <2>5, <2>6
  <1> QED  BY <1>1, <1>2, <1>3, ParticipantsQuiet

\* Whoever waits for the end of a migration waits for somebody, after every step.
LEMMA AwaitedStep ==
  ASSUME Inv, WakeInv, NEW t \in Threads, Moves(t)
  PROVE  Awaited'
  <1> SUFFICES ASSUME NEW v \in Threads, pc'[v] = "wait_migrated",
                      ~node_migration_done'[meta'[v]]
      PROVE  \E u \in Threads : meta'[u] = meta'[v] /\ pc'[u] \in Busy
    BY DEF Awaited
  <1>0. /\ EventState(t) /\ meta[t] \in Generations /\ meta[v] \in Generations
        /\ Others(t) /\ accessors \in Seq(Threads)
    BY Parts, StepIsLocal DEF WakeInv, TypeOK
  \* The participant that a scan has found is at work still.
  <1>1. ASSUME SeesWork(t)
        PROVE  \E u \in Threads : meta'[u] = meta[t] /\ pc'[u] \in Busy
    <2> DEFINE i == cursor[t]
               u == accessors[i]
    <2>1. /\ i \in 1..Len(participants[meta[t]]) /\ participants[meta[t]][i] = 1
          /\ pc[t] = "scan"
      BY <1>1 DEF SeesWork
    <2>2. i \in 1..Len(accessors)
      BY <1>0, <2>1, SeatTypes
    <2>3. u \in Threads /\ AccessorAt(i, u)
      BY <1>0, <2>2 DEF AccessorAt
    <2>4. meta[u] = meta[t] /\ pc[u] \in AtSeat
      BY <1>0, <2>1, <2>3 DEF WakeInv, Occupied
    <2>5. u # t
      BY <2>1, <2>4 DEF AtSeat
    <2>6. meta'[u] = meta[u] /\ pc'[u] = pc[u]
      BY <1>0, <2>3, <2>5 DEF Others
    <2> QED  BY <2>3, <2>4, <2>6 DEF Busy
  <1>2. CASE v = t
    BY <1>0, <1>1, <1>2, WakeOwn
  <1>3. CASE v # t
    <2>1. pc[v] = "wait_migrated" /\ meta'[v] = meta[v]
      BY <1>0, <1>3 DEF Others
    <2>2. ~node_migration_done[meta[v]]
      BY <1>0, <2>1, EventsGrow
    <2>3. PICK u \in Threads : meta[u] = meta[v] /\ pc[u] \in Busy
      BY <2>1, <2>2 DEF WakeInv, Awaited
    <2>4. CASE u = t
      BY <1>0, <1>1, <2>1, <2>3, <2>4, WakeOwn
    <2>5. CASE u # t
      <3>1. meta'[u] = meta[u] /\ pc'[u] = pc[u]
        BY <1>0, <2>5 DEF Others
      <3> QED  BY <2>1, <2>3, <3>1
    <2> QED  BY <2>4, <2>5
  <1> QED  BY <1>2, <1>3

\* With the invariant of the locks and tables, this is an invariant.
LEMMA WakeHolds == Spec => []WakeInv
  <1>1. ASSUME Init PROVE WakeInv
    <2>1. /\ \A t \in Threads : pc[t] = "idle" /\ job[t] = "write"
          /\ \A g \in Generations : resize_leader[g] = NULL /\ Len(participants[g]) = 0
      BY <1>1 DEF Init
    <2> QED
      BY <2>1 DEF WakeInv, Occupied, Awaited, Led, EventState, Common, Leads, Fails
  <1>2. ASSUME Inv, WakeInv, [Next]_vars PROVE WakeInv'
    <2>1. CASE UNCHANGED vars
      <3> USE <2>1 DEF vars, tableVars, locks
      <3>1. Occupied' /\ Awaited'
        BY <1>2 DEF WakeInv, Occupied, Awaited, AccessorAt, Generations
      <3>2. \A g \in Generations : Led(g)'
        BY <1>2 DEF WakeInv, Led, Leads
      <3>3. \A t \in Threads : EventState(t)'
        BY <1>2 DEF WakeInv, EventState, Leads
      <3> QED  BY <3>1, <3>2, <3>3 DEF WakeInv, Generations
    <2>2. ASSUME NEW t \in Threads, Moves(t) PROVE WakeInv'
      <3>1. Occupied' /\ Awaited'
        BY <1>2, <2>2, OccupiedStep, AwaitedStep
      <3>2. \A g \in Generations : Led(g)'
        BY <1>2, <2>2, LedStep
      <3>3. \A u \in Threads : EventState(u)'
        BY <1>2, <2>2, EventStateStep
      <3> QED  BY <3>1, <3>2, <3>3 DEF WakeInv, Generations
    <2> QED  BY <1>2, <2>1, <2>2 DEF Next, Moves
  <1> QED  BY <1>1, <1>2, InvHolds, PTL DEF Spec

\* A thread that waits for the end of a migration is not all there is.
LEMMA MigrationGoesOn ==
  ASSUME Inv, WakeInv, NEW t \in Threads, pc[t] = "wait_migrated", Waits(t)
  PROVE  \E u \in Threads : pc[u] # "idle" /\ ~Waits(u)
  <1>1. ~node_migration_done[meta[t]]
    BY DEF Waits
  <1>2. PICK u \in Threads : pc[u] \in Busy
    BY <1>1 DEF WakeInv, Awaited
  <1> QED  BY <1>2 DEF Waits, Busy, AtSeat

\* The holder of the list of accessors, which waits for one of the mutexes, waits for a
\* writer at work.
LEMMA ListHolderGoesOn ==
  ASSUME Inv, WakeInv, accessors_lock # NULL
  PROVE  \E u \in Threads : pc[u] # "idle" /\ ~Waits(u)
  <1> DEFINE h == accessors_lock
  <1>0. h \in Threads /\ accessors \in Seq(Threads) /\ LockState /\ Accessors /\ NULL \notin Threads
    BY ResizeAssumption DEF Inv, TypeOK
  <1>1. HoldsList(h)
    BY <1>0 DEF LockState
  <1>2. pc[h] # "idle"
    BY <1>1 DEF HoldsList, Common
  <1>3. CASE ~Waits(h)
    BY <1>0, <1>2, <1>3
  <1>4. CASE Waits(h) /\ pc[h] = "wait_migrated"
    BY <1>0, <1>4, MigrationGoesOn
  <1>5. CASE Waits(h) /\ pc[h] = "lock_mutexes"
    <2> DEFINE i == cursor[h]
               v == accessors[i]
    <2>1. i <= Len(accessors) /\ self_mutex[v] # NULL
      BY <1>5 DEF Waits
    <2>2. i \in 1..Len(accessors)
      BY <1>0, <2>1, Parts DEF TypeOK
    <2>3. v \in Threads
      BY <1>0, <2>2
    <2>4. PICK u \in Threads : self_mutex[v] = u
      BY <2>1, <2>3, Parts DEF TypeOK
    <2>5. CASE Working(u)
      BY <2>5 DEF Working, Waits
    <2>6. CASE ~Working(u)
      <3>1. PICK j \in Taken(u) : accessors[j] = v
        BY <1>0, <2>3, <2>4, <2>6 DEF LockState
      <3>2. HoldsList(u) /\ j \in 1..Len(accessors)
        BY <3>1 DEF Taken
      <3>3. u = h
        BY <1>0, <3>2 DEF LockState
      <3>4. j = i
        BY <1>0, <2>2, <3>1, <3>2 DEF Accessors
      <3>5. i < cursor[h]
        BY <1>5, <3>1, <3>3, <3>4 DEF Taken
      <3> QED  BY <1>0, <2>2, <3>5
    <2> QED  BY <2>5, <2>6
  <1>6. Waits(h) => pc[h] \in {"wait_migrated", "lock_mutexes"}
    BY <1>1 DEF Waits, HoldsList, Common
  <1> QED  BY <1>3, <1>4, <1>5, <1>6

\* With the list free, no mutex is held by a thread that waits.
LEMMA MutexesAreFree ==
  ASSUME Inv, accessors_lock = NULL, \A u \in Threads : pc[u] # "idle" => Waits(u)
  PROVE  sync_op = NULL /\ \A v \in Threads : self_mutex[v] = NULL
  <1>0. LockState /\ TypeOK /\ NULL \notin Threads
    BY ResizeAssumption DEF Inv
  <1>1. \A u \in Threads : ~HoldsList(u)
    BY <1>0 DEF LockState
  <1>2. ASSUME NEW u \in Threads, sync_op = u PROVE FALSE
    <2>1. pc[u] = "lock_accessors"
      BY <1>0, <1>1, <1>2 DEF LockState, HoldsSync
    <2> QED  BY <2>1 DEF Waits
  <1>3. ASSUME NEW u \in Threads, NEW v \in Threads, self_mutex[v] = u PROVE FALSE
    <2>1. Taken(u) = {}
      BY <1>1 DEF Taken
    <2>2. Working(u)
      BY <1>0, <1>3, <2>1 DEF LockState
    <2> QED  BY <2>2 DEF Working, Waits
  <1> QED  BY <1>0, <1>2, <1>3 DEF TypeOK

\* Then a leader goes on until it has told its followers.
LEMMA LeaderGoesOn ==
  ASSUME Inv, WakeInv, accessors_lock = NULL, sync_op = NULL,
         NEW g \in Generations, resize_leader[g] # NULL,
         ~(new_metadata_ready[g] /\ resize_done[g])
  PROVE  \E u \in Threads : pc[u] # "idle" /\ ~Waits(u)
  <1> DEFINE l == resize_leader[g]
  <1>0. l \in Threads /\ Leads(l) /\ LockState /\ Shape(l) /\ NULL \notin Threads
    BY ResizeAssumption DEF Inv, TypeOK, WakeInv, Led
  <1>1. pc[l] # "idle"
    BY <1>0 DEF Leads, Fails
  <1>2. ~HoldsList(l)
    BY <1>0 DEF LockState
  <1>3. CASE pc[l] \in Fails
    BY <1>0, <1>1, <1>3 DEF Waits, Fails
  <1>4. CASE job[l] = "lead"
    <2>1. pc[l] \notin WritersOnly \cup {"follow", "wait_resized"}
      BY <1>0, <1>4 DEF Shape
    <2>2. pc[l] # "lock_mutexes" /\ pc[l] # "wait_migrated"
      BY <1>2, <1>4 DEF HoldsList, Common
    <2> QED  BY <1>0, <1>1, <2>1, <2>2 DEF Waits, WritersOnly
  <1> QED  BY <1>0, <1>3, <1>4 DEF Leads

\* The leader of a resize, its followers, the writers and len() never wait for each
\* other in a circle: with any number of threads, blocks and generations, as long as a
\* call has not returned some thread is not waiting.
THEOREM NobodyWaitsForEverybody == Spec => []NoDeadlock
  <1>1. Inv /\ WakeInv => NoDeadlock
    <2> SUFFICES ASSUME Inv, WakeInv, NEW t \in Threads, pc[t] # "idle",
                        \A u \in Threads : pc[u] # "idle" => Waits(u)
        PROVE  FALSE
      BY DEF NoDeadlock
    <2>1. accessors_lock = NULL
      BY ListHolderGoesOn
    <2>2. sync_op = NULL /\ \A v \in Threads : self_mutex[v] = NULL
      BY <2>1, MutexesAreFree
    <2>3. pc[t] # "wait_migrated"
      BY MigrationGoesOn
    <2>4. pc[t] # "lock_mutexes"
      BY <2>1, Parts DEF LockState, HoldsList
    <2>5. \/ pc[t] = "follow" /\ ~new_metadata_ready[meta[t]]
          \/ pc[t] = "wait_resized" /\ ~resize_done[meta[t]]
      BY <2>1, <2>2, <2>3, <2>4 DEF Waits
    <2>6. resize_leader[meta[t]] # NULL
      BY <2>5 DEF WakeInv, EventState
    <2> QED  BY <2>1, <2>2, <2>5, <2>6, LeaderGoesOn, Parts
  <1> QED  BY <1>1, InvHolds, WakeHolds, PTL
=============================================================================
