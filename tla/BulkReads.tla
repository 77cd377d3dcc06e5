----------------------------- MODULE BulkReads -----------------------------
(***************************************************************************)
(* The operations that read a whole dictionary while others change it:     *)
(* len() and approx_len() (atomic_dict.c), fast_iter() (iter.c) and        *)
(* batch_getitem() (lookup.c), next to the writers of AtomicDictTable.     *)
(*                                                                         *)
(* Only len() keeps the writers out: begin_synchronous_operation takes     *)
(* every accessor's mutex, which compare_and_set and __delitem__ hold from *)
(* their first access to the table to their last (module Resize).  The     *)
(* accessors are registered from the start, and the generation does not    *)
(* change.                                                                 *)
(***************************************************************************)
EXTENDS AtomicDictTable

CONSTANTS
  Readers, NoReader,
  EntriesInPage,   \* ATOMIC_DICT_ENTRIES_IN_PAGE
  Partitions,      \* the numbers of partitions fast_iter is called with
  MaxReads         \* bound on the number of bulk reads

\* A page holds more than the entry 0 that is never handed out, and the index has
\* room for the first entry that is.
ASSUME PageAssumption ==
  /\ EntriesInPage \in Nat \ {0, 1} /\ Size > 1
  /\ Partitions \subseteq Nat \ {0}
ASSUME ReadersAssumption == NoReader \notin Readers /\ MaxReads \in Nat
ASSUME ThreadsAssumption == IsFiniteSet(Threads)

VARIABLES
  len,        \* self->len: what the last len() has counted
  len_dirty,  \* have accessors counted anything since?
  sync_op,    \* the reader that holds all the mutexes, or NoReader
  gap,        \* greatest_allocated_page
  task,       \* reader -> the bulk read it executes
  reads       \* how many bulk reads have been made

readVars == <<len, len_dirty, sync_op, gap, task, reads>>
bulkVars == <<vars, readVars>>

Idle == [pc |-> "idle"]
Locking == {"len begin", "len sum", "len zero", "len end"}
PageOf(e) == e \div EntriesInPage

\* The sum of the integers f[t], one element for each unit that is added and one
\* for each that is taken away.
Units(f) == UNION {{t} \X (1..f[t]) : t \in Threads}
Total(f) == Cardinality(Units(f)) - Cardinality(Units([t \in Threads |-> -f[t]]))
LocalLens == Total(local_len)

Bound == {k \in Keys : Binding(k) # NOT_FOUND}
Live == {index[p] : p \in {q \in Slots : IsEntry(index[q]) /\ entry_value[index[q]] # NULL}}

\* compare_and_set and __delitem__ hold their thread's mutex.
Writing(t) == pc[t] # "idle"

Become(r, state) == task' = [task EXCEPT ![r] = state]
-----------------------------------------------------------------------------
\* What a writer's step changes for a reader that is under way.  These fields
\* are only for the properties: the changes counted during an approx_len(), the
\* entries a fast_iter() must not miss, and whether it was left alone, the
\* bindings a batch_getitem() may return.
Watched(s) ==
  CASE s.pc = "approx" ->
         LET change == LocalLens' - LocalLens
         IN [s EXCEPT !.added = @ + (IF change > 0 THEN 1 ELSE 0),
                      !.removed = @ + (IF change < 0 THEN 1 ELSE 0)]
    [] s.pc \in {"iter next", "iter", "iter key", "iter end", "iter raised"} ->
         [s EXCEPT !.stable = @ \cap Live',
                   !.alone = @ /\ \A t \in Threads : ~Writing(t)']
    [] s.pc \in {"batch", "batch entry", "batch end"} ->
         [s EXCEPT !.seen = [k \in Keys |-> @[k] \cup {Binding(k)'}]]
    [] OTHER -> s

\* A step of AtomicDictTable: a writer starts only when len() does not hold its
\* mutex, entries come from allocated pages, and accessor_len_inc leaves
\* len_dirty set.  A single get neither holds a mutex nor changes anything.
WriterStep ==
  /\ Next
  /\ \A t \in Threads :
       /\ pc[t] = "idle" /\ pc'[t] # "idle" => sync_op = NoReader /\ op'[t].name # "get"
       /\ location[t] = 0 /\ location'[t] # 0 => PageOf(location'[t]) <= gap
  /\ len_dirty' = (len_dirty \/ local_len' # local_len)
  /\ task' = [r \in Readers |-> Watched(task[r])]
  /\ UNCHANGED <<len, sync_op, gap, reads>>

\* reserve_entry's next page (module Reservation).
AllocatePage ==
  /\ gap < PageOf(Size - 1)
  /\ gap' = gap + 1
  /\ UNCHANGED <<vars, len, len_dirty, sync_op, task, reads>>
-----------------------------------------------------------------------------
\* A reader starts one of its operations in the state s.  Readers that take no
\* lock cannot tell whether there are others, so one of them runs at a time.
Start(r, s) ==
  /\ task[r] = Idle
  /\ s.pc = "len begin" \/ \A q \in Readers : task[q] = Idle \/ task[q].pc \in Locking
  /\ reads < MaxReads
  /\ reads' = reads + 1
  /\ Become(r, s)
  /\ UNCHANGED <<vars, len, len_dirty, sync_op, gap>>

\* AtomicDict_Len: begin_synchronous_operation, and Len_impl's two ways.
CallLen(r) == Start(r, [pc |-> "len begin"])

BeginLen(r) ==
  /\ task[r].pc = "len begin"
  /\ sync_op = NoReader
  /\ \A t \in Threads : ~Writing(t)
  /\ sync_op' = r
  /\ Become(r, IF len_dirty THEN [pc |-> "len sum"] ELSE [pc |-> "len end", result |-> len])
  /\ UNCHANGED <<vars, len, len_dirty, gap, reads>>

\* Mutant: len() takes the sum of the counters for the length.
ForgetsLen(r) ==
  /\ task[r].pc = "len sum"
  /\ len' = LocalLens
  /\ len_dirty' = FALSE
  /\ Become(r, [pc |-> "len zero", result |-> len', todo |-> Threads])
  /\ UNCHANGED <<vars, sync_op, gap, reads>>

StoreLen(r) ==
  /\ task[r].pc = "len sum"
  /\ len' = len + LocalLens
  /\ len_dirty' = FALSE
  /\ task' = [q \in Readers |->
                IF q = r THEN [pc |-> "len zero", result |-> len', todo |-> Threads]
                ELSE IF task[q].pc = "approx" THEN [task[q] EXCEPT !.moved = TRUE]
                ELSE task[q]]
  /\ UNCHANGED <<vars, sync_op, gap, reads>>

\* The counters are set to zero one by one, under the eyes of approx_len().
ZeroLocalLen(r) ==
  /\ task[r].pc = "len zero"
  /\ \E t \in task[r].todo :
       /\ local_len' = [local_len EXCEPT ![t] = 0]
       /\ LET rest == task[r].todo \ {t} IN
          Become(r, IF rest = {} THEN [pc |-> "len end", result |-> task[r].result]
                    ELSE [task[r] EXCEPT !.todo = rest])
  /\ UNCHANGED <<tableVars, threadVars, calls, seen, len, len_dirty, sync_op, gap, reads>>

EndLen(r) ==
  /\ task[r].pc = "len end"
  /\ sync_op' = NoReader
  /\ Become(r, Idle)
  /\ UNCHANGED <<vars, len, len_dirty, gap, reads>>
-----------------------------------------------------------------------------
\* AtomicDict_ApproxLen: self->len, then the counters, with no lock.
CallApproxLen(r) ==
  Start(r, [pc |-> "approx", total |-> len, todo |-> Threads,
            counted |-> len + LocalLens, added |-> 0, removed |-> 0,
            moved |-> \E q \in Readers : task[q].pc = "len zero"])

\* Mutant: the walk over the accessors misses one.
SkipsAccessor(r) ==
  /\ task[r].pc = "approx"
  /\ \E t \in task[r].todo :
       Become(r, [task[r] EXCEPT !.total = @ + local_len[t], !.todo = {}])
  /\ UNCHANGED <<vars, len, len_dirty, sync_op, gap, reads>>

\* sum_of_accessors_len.
ReadLocalLen(r) ==
  /\ task[r].pc = "approx"
  /\ \E t \in task[r].todo :
       Become(r, [task[r] EXCEPT !.total = @ + local_len[t], !.todo = @ \ {t}])
  /\ UNCHANGED <<vars, len, len_dirty, sync_op, gap, reads>>
-----------------------------------------------------------------------------
\* AtomicDict_FastIter: an iterator over every n-th page.
CallFastIter(r) ==
  \E n \in Partitions : \E i \in 0..(n - 1) :
    Start(r, [pc |-> "iter next", partitions |-> n, position |-> i * EntriesInPage,
              gap |-> 0, value |-> NULL, yielded |-> {},
              stable |-> {e \in Live : PageOf(e) % n = i},
              alone |-> \A t \in Threads : ~Writing(t)])

\* AtomicDictFastIterator_Next loads the number of pages once, ...
LoadGap(r) ==
  /\ task[r].pc = "iter next"
  /\ Become(r, [task[r] EXCEPT !.pc = "iter", !.gap = gap])
  /\ UNCHANGED <<vars, len, len_dirty, sync_op, gap, reads>>

\* Mutant: at the end of a page the iterator goes on to the next one.
GoesToNextPage(s) == [s EXCEPT !.position = @ + 1]

Advance(s) ==
  [s EXCEPT !.position =
     IF (@ + 1) % EntriesInPage = 0
     THEN @ - (@ % EntriesInPage) + s.partitions * EntriesInPage
     ELSE @ + 1]

\* ... goes to the next entry that has a value, ...
ReadValue(r) ==
  /\ task[r].pc = "iter"
  /\ LET s == task[r]
         v == IF s.position \in Locations THEN entry_value[s.position] ELSE NULL
     IN Become(r, IF PageOf(s.position) > s.gap THEN [s EXCEPT !.pc = "iter end"]
                  ELSE IF v = NULL THEN Advance(s)
                  ELSE [s EXCEPT !.pc = "iter key", !.value = v])
  /\ UNCHANGED <<vars, len, len_dirty, sync_op, gap, reads>>

\* ... and returns it with the key it reads then.  The key may be gone, and
\* _Py_TryIncref may fail when the entry does not hold the value any more:
\* that is ConcurrentUsageDetected.
ReadKey(r) ==
  /\ task[r].pc = "iter key"
  /\ LET s == task[r]
         k == entry_key[s.position]
     IN \/ /\ k # NULL
           /\ Become(r, [Advance(s) EXCEPT !.pc = "iter next", !.yielded = @ \cup {<<k, s.value>>}])
        \/ /\ k = NULL \/ entry_value[s.position] # s.value
           /\ Become(r, [s EXCEPT !.pc = "iter raised"])
  /\ UNCHANGED <<vars, len, len_dirty, sync_op, gap, reads>>
-----------------------------------------------------------------------------
\* AtomicDict_BatchGetItem: the keys of the batch are looked up one by one (the
\* prefetches before change nothing).
CallBatchGetItem(r) ==
  \E batch \in SUBSET Keys : \E k \in batch :
    Start(r, [pc |-> "batch", key |-> k, todo |-> batch \ {k}, distance |-> 0, found |-> 0,
              results |-> [j \in batch |-> NULL], seen |-> [j \in Keys |-> {Binding(j)}]])

\* The key's value in the batch is replaced, and the next key is looked up.
Answer(r, v) ==
  LET s == [task[r] EXCEPT !.results = [@ EXCEPT ![task[r].key] = v],
                           !.distance = 0, !.found = 0]
  IN \/ s.todo = {} /\ Become(r, [s EXCEPT !.pc = "batch end"])
     \/ \E k \in s.todo :
          Become(r, [s EXCEPT !.pc = "batch", !.key = k, !.todo = @ \ {k}])

ProbeOn(r) ==
  IF task[r].distance + 1 >= Size
  THEN Answer(r, NOT_FOUND)
  ELSE Become(r, [task[r] EXCEPT !.pc = "batch", !.distance = @ + 1])

\* lookup's read of a node, and of the entry it leads to.
BatchNode(r) ==
  /\ task[r].pc = "batch"
  /\ LET node == index[SlotAt(task[r].key, task[r].distance)] IN
     \/ node = EMPTY /\ Answer(r, NOT_FOUND)
     \/ node # EMPTY /\ ~CheckTag(node, task[r].key) /\ ProbeOn(r)
     \/ /\ CheckTag(node, task[r].key)
        /\ Become(r, [task[r] EXCEPT !.pc = "batch entry", !.found = node])
  /\ UNCHANGED <<vars, len, len_dirty, sync_op, gap, reads>>

\* Mutant: a deleted entry is taken for the key's.
AnswersDeleted(r) ==
  /\ task[r].pc = "batch entry"
  /\ LET v == entry_value[task[r].found]
         k == entry_key[task[r].found]
     IN \/ k # task[r].key /\ ProbeOn(r)
        \/ k = task[r].key /\ Answer(r, v)
  /\ UNCHANGED <<vars, len, len_dirty, sync_op, gap, reads>>

BatchEntry(r) ==
  /\ task[r].pc = "batch entry"
  /\ LET v == entry_value[task[r].found]
         k == entry_key[task[r].found]
     IN \/ ~(v # NULL /\ k = task[r].key) /\ ProbeOn(r)
        \/ v # NULL /\ k = task[r].key /\ Answer(r, v)
        \/ /\ v # NULL /\ Hash[k] = Hash[task[r].key] /\ EqCanRaise
           /\ Become(r, Idle)
  /\ UNCHANGED <<vars, len, len_dirty, sync_op, gap, reads>>

\* The reader is handed its result.
Return(r) ==
  /\ \/ task[r].pc \in {"iter end", "iter raised", "batch end"}
     \/ task[r].pc = "approx" /\ task[r].todo = {}
  /\ Become(r, Idle)
  /\ UNCHANGED <<vars, len, len_dirty, sync_op, gap, reads>>
-----------------------------------------------------------------------------
\* AtomicDict(initial) has at most one key here: unsafe_insert finds its first
\* slot empty, its entry is the first one, and only self->len counts it.
Built(initial) ==
  /\ index = [p \in Slots |-> IF \E k \in initial : Distance0[k] = p THEN 1 ELSE EMPTY]
  /\ entry_key = [e \in Locations |-> IF e = 1 /\ initial # {} THEN CHOOSE k \in initial : TRUE
                                      ELSE NULL]
  /\ \E v \in Values :
       entry_value = [e \in Locations |-> IF e = 1 /\ initial # {} THEN v ELSE NULL]
  /\ free = Locations \ (IF initial = {} THEN {} ELSE {1})
  /\ len = Cardinality(initial)

BulkInit ==
  /\ \E initial \in {{}} \cup {{k} : k \in Keys} : Built(initial)
  /\ InitThreads
  /\ len_dirty = FALSE
  /\ sync_op = NoReader
  /\ gap = 0
  /\ task = [r \in Readers |-> Idle]
  /\ reads = 0

BulkNext ==
  \/ WriterStep
  \/ AllocatePage
  \/ \E r \in Readers :
       \/ CallLen(r) \/ BeginLen(r) \/ StoreLen(r) \/ ZeroLocalLen(r) \/ EndLen(r)
       \/ CallApproxLen(r) \/ ReadLocalLen(r)
       \/ CallFastIter(r) \/ LoadGap(r) \/ ReadValue(r) \/ ReadKey(r)
       \/ CallBatchGetItem(r) \/ BatchNode(r) \/ BatchEntry(r)
       \/ Return(r)

BulkSpec == BulkInit /\ [][BulkNext]_bulkVars
-----------------------------------------------------------------------------
\* len() returns how many keys the dictionary has at that moment, however the
\* writers' changes are spread over the accessors' counters and over the
\* lengths that earlier calls have put away (AtomicDict_Len_impl).
LenIsCurrent ==
  \A r \in Readers : task[r].pc = "len end" => task[r].result = Cardinality(Bound)

\* approx_len() is off by no more than what the writers counted while it ran,
\* up or down, unless a len() was moving the counters into self->len.
ApproxLenIsClose ==
  \A r \in Readers :
    LET s == task[r] IN
      s.pc = "approx" => (s.todo = {} /\ ~s.moved =>
        s.counted - s.removed <= s.total /\ s.total <= s.counted + s.added)

\* A fast_iter() that ends has returned, of its partition, every key that was
\* there all the time, whatever happened around it; and when nothing did, it
\* has not raised and has returned nothing else.
IterationIsComplete ==
  \A r \in Readers :
    LET s == task[r] IN
      /\ s.pc = "iter end" =>
           /\ \A e \in s.stable : \E y \in s.yielded : y[1] = entry_key[e]
           /\ s.alone => s.yielded = {<<entry_key[e], entry_value[e]>> : e \in s.stable}
      /\ s.pc = "iter raised" => ~s.alone

\* What batch_getitem() puts in the batch was the key's value, or its absence,
\* at some moment of the call.
BatchReadsAreCurrent ==
  \A r \in Readers :
    task[r].pc = "batch end" =>
      \A k \in DOMAIN task[r].results : task[r].results[k] \in task[r].seen[k]
=============================================================================
