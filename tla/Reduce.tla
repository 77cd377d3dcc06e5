------------------------------- MODULE Reduce -------------------------------
(***************************************************************************)
(* AtomicDict.reduce and its specialisations (insert.c): a thread folds    *)
(* its iterable into a local table, one entry per key, and then merges     *)
(* every entry into the shared dictionary with get and compare_and_set,    *)
(* starting over whenever another thread changed the key.                  *)
(*                                                                         *)
(* The aggregate is one of the specialised ones (module ReduceFunctions).  *)
(* The shared dictionary is atomic (module AtomicMap); other threads may   *)
(* also delete keys from it.  Values are compared by value where the code  *)
(* compares them by identity: what flush_one stores depends on no more.    *)
(***************************************************************************)
EXTENDS ReduceFunctions

CONSTANTS
  Threads, Keys,
  Aggregates,  \* the aggregates that are used
  Iterable,    \* aggregate -> thread -> the [key, value] items it reduces, in order
  CanRaise,    \* may `aggregate`, the iterator or a lookup raise?
  MaxDeletes   \* bound on the deletions by other threads

ASSUME ReduceAssumption ==
  /\ \A f \in Aggregates, t \in Threads : \A i \in DOMAIN Iterable[f][t] :
       Iterable[f][t][i].key \in Keys
  /\ CanRaise \in BOOLEAN
  /\ MaxDeletes \in Nat

VARIABLES
  function,  \* which aggregate all the calls use
  dict,      \* key -> the shared value, or NOT_FOUND
  pc,        \* thread -> what it does next
  item,      \* thread -> how many items it has folded
  entries,   \* thread -> its local table: a sequence of [key, desired]
  start,     \* thread -> the entry it flushes first, from 0
  flushed,   \* thread -> how many entries it has merged
  current,   \* thread -> flush_one's current
  expected,  \* thread -> flush_one's expected
  desired,   \* thread -> flush_one's desired
  raised,    \* thread -> does its call go on with an exception set?
  deletes,   \* how many keys were deleted
  merged     \* history: key -> the items merged since it was last deleted

flushVars == <<current, expected, desired>>
vars == <<function, dict, pc, item, entries, start, flushed, flushVars, raised, deletes, merged>>

Items(t) == Iterable[function][t]
Value(t, i) == Given(function, Items(t)[i].value)
Aggregate(old, new) == Specialized(function, old, new)

\* The aggregate's exception is not looked at where it returns.
KeepException(t, old, new) ==
  raised' = [raised EXCEPT ![t] = @ \/ LeavesException(function, old, new)]

Goto(t, label) == pc' = [pc EXCEPT ![t] = label]

\* reduce_flush visits the entries in order from a start of its own.
EntryAt(t, i) == entries[t][((start[t] + i) % Len(entries[t])) + 1]
Entry(t) == EntryAt(t, flushed[t])

\* flush_one begins with expected = NOT_FOUND and desired = new.
BeginFlushOne(t, new) ==
  /\ current' = [current EXCEPT ![t] = NOT_FOUND]
  /\ expected' = [expected EXCEPT ![t] = NOT_FOUND]
  /\ desired' = [desired EXCEPT ![t] = new]
-----------------------------------------------------------------------------
Init ==
  /\ function \in Aggregates
  /\ dict = [k \in Keys |-> NOT_FOUND]
  /\ pc = [t \in Threads |-> "fold"]
  /\ item = [t \in Threads |-> 0]
  /\ entries = [t \in Threads |-> <<>>]
  /\ start = [t \in Threads |-> 0]
  /\ flushed = [t \in Threads |-> 0]
  /\ current = [t \in Threads |-> NOT_FOUND]
  /\ expected = [t \in Threads |-> NOT_FOUND]
  /\ desired = [t \in Threads |-> NOT_FOUND]
  /\ raised = [t \in Threads |-> FALSE]
  /\ deletes = 0
  /\ merged = [k \in Keys |-> {}]

\* reduce_table_set: replace the entry of key k, or append one.
TableSet(table, k, new) ==
  IF \E i \in DOMAIN table : table[i].key = k
  THEN [i \in DOMAIN table |->
          IF table[i].key = k THEN [key |-> k, desired |-> new] ELSE table[i]]
  ELSE Append(table, [key |-> k, desired |-> new])

\* reduce_table_get, with NOT_FOUND for a key that has no entry yet.
TableGet(table, k) ==
  IF \E i \in DOMAIN table : table[i].key = k
  THEN table[CHOOSE i \in DOMAIN table : table[i].key = k].desired
  ELSE NOT_FOUND

\* AtomicDict_Reduce_impl: the next item goes into the local table.
Fold(t) ==
  /\ pc[t] = "fold"
  /\ item[t] < Len(Items(t))
  /\ LET i == item[t] + 1
         k == Items(t)[i].key
         old == TableGet(entries[t], k)
     IN /\ item' = [item EXCEPT ![t] = i]
        /\ entries' = [entries EXCEPT ![t] = TableSet(@, k, Aggregate(old, Value(t, i)))]
        /\ KeepException(t, old, Value(t, i))
  /\ UNCHANGED <<function, dict, pc, start, flushed, flushVars, deletes, merged>>

\* The iterable is exhausted: AtomicDict_Reduce_impl fails if an aggregate left
\* an exception (of another type than StopIteration, which PyIter_NextItem
\* clears); otherwise reduce_flush picks where to start.
BeginFlush(t) ==
  /\ pc[t] = "fold"
  /\ item[t] = Len(Items(t))
  /\ \/ /\ raised[t]
        /\ Goto(t, "failed")
        /\ UNCHANGED <<start, flushVars>>
     \/ /\ ~raised[t]
        /\ entries[t] = <<>>
        /\ Goto(t, "done")
        /\ UNCHANGED <<start, flushVars>>
     \/ /\ ~raised[t]
        /\ \E s \in 0..(Len(entries[t]) - 1) :
             /\ start' = [start EXCEPT ![t] = s]
             /\ BeginFlushOne(t, entries[t][s + 1].desired)
        /\ Goto(t, "get")
  /\ UNCHANGED <<function, dict, item, entries, flushed, raised, deletes, merged>>

\* flush_one: the get at the top of the loop.
Get(t) ==
  /\ pc[t] = "get"
  /\ current' = [current EXCEPT ![t] = dict[Entry(t).key]]
  /\ Goto(t, IF dict[Entry(t).key] = expected[t] THEN "cas" ELSE "aggregate")
  /\ UNCHANGED <<function, dict, item, entries, start, flushed, expected, desired, raised, deletes, merged>>

\* The items of thread t for key k.
ItemsOf(t, k) == {<<t, i>> : i \in {j \in 1..Len(Items(t)) : Items(t)[j].key = k}}

\* flush_one: the compare_and_set.  After the last entry the call returns; with an
\* exception set, the interpreter makes a SystemError of its None.
CompareAndSet(t) ==
  /\ pc[t] = "cas"
  /\ LET k == Entry(t).key IN
     \/ /\ dict[k] = expected[t]
        /\ dict' = [dict EXCEPT ![k] = desired[t]]
        /\ merged' = [merged EXCEPT ![k] = @ \cup ItemsOf(t, k)]
        /\ flushed' = [flushed EXCEPT ![t] = @ + 1]
        /\ IF flushed[t] + 1 = Len(entries[t])
           THEN Goto(t, IF raised[t] THEN "failed" ELSE "done") /\ UNCHANGED flushVars
           ELSE /\ Goto(t, "get")
                /\ BeginFlushOne(t, EntryAt(t, flushed[t] + 1).desired)
     \/ /\ dict[k] # expected[t]
        /\ Goto(t, "aggregate")
        /\ UNCHANGED <<dict, flushed, flushVars, merged>>
  /\ UNCHANGED <<function, item, entries, start, raised, deletes>>

\* Mutants: a retry aggregates with the last attempt's `desired`; `expected`
\* stays what it was.
AggregatesDesired(t) ==
  /\ pc[t] = "aggregate"
  /\ desired' = [desired EXCEPT ![t] = Aggregate(current[t], desired[t])]
  /\ expected' = [expected EXCEPT ![t] = current[t]]
  /\ KeepException(t, current[t], desired[t])
  /\ Goto(t, "get")
  /\ UNCHANGED <<function, dict, item, entries, start, flushed, current, deletes, merged>>
KeepsExpected(t) ==
  /\ pc[t] = "aggregate"
  /\ desired' = [desired EXCEPT ![t] = Aggregate(current[t], Entry(t).desired)]
  /\ KeepException(t, current[t], Entry(t).desired)
  /\ Goto(t, "get")
  /\ UNCHANGED <<function, dict, item, entries, start, flushed, current, expected, deletes, merged>>

\* flush_one: aggregate what was read with `new`, never with `desired`.
CallAggregate(t) ==
  /\ pc[t] = "aggregate"
  /\ desired' = [desired EXCEPT ![t] = Aggregate(current[t], Entry(t).desired)]
  /\ expected' = [expected EXCEPT ![t] = current[t]]
  /\ KeepException(t, current[t], Entry(t).desired)
  /\ Goto(t, "get")
  /\ UNCHANGED <<function, dict, item, entries, start, flushed, current, deletes, merged>>

\* The iterator, a key's hash or comparison, or the aggregate raises: the call
\* fails where it stands.  reduce_specialized_and and reduce_specialized_or never
\* return NULL: what becomes of their exceptions is in KeepException.
Raise(t) ==
  /\ CanRaise
  /\ pc[t] = "aggregate" => function \notin {"and", "or"}
  /\ pc[t] \in {"fold", "get", "cas", "aggregate"}
  /\ Goto(t, "failed")
  /\ UNCHANGED <<function, dict, item, entries, start, flushed, flushVars, raised, deletes, merged>>

\* Another thread deletes a key.
Delete(k) ==
  /\ deletes < MaxDeletes
  /\ dict[k] # NOT_FOUND
  /\ deletes' = deletes + 1
  /\ merged' = [merged EXCEPT ![k] = {}]
  /\ dict' = [dict EXCEPT ![k] = NOT_FOUND]
  /\ UNCHANGED <<function, pc, item, entries, start, flushed, flushVars, raised>>

Step(t) == Fold(t) \/ BeginFlush(t) \/ Get(t) \/ CompareAndSet(t) \/ CallAggregate(t)

Next == (\E t \in Threads : Step(t) \/ Raise(t)) \/ (\E k \in Keys : Delete(k))

Spec == Init /\ [][Next]_vars

\* Threads are scheduled, and the program's callables terminate.
FairSpec == Spec /\ \A t \in Threads : WF_vars(Step(t))
-----------------------------------------------------------------------------
IsValue(v) == v = NOT_FOUND \/ v[1] \in {"int", "bool", "list", "opaque"}

\* Types; a thread's cursors stay inside its iterable and its local table.
TypeOK ==
  /\ \A k \in Keys : IsValue(dict[k])
  /\ \A t \in Threads :
       /\ pc[t] \in {"fold", "get", "cas", "aggregate", "done", "failed"}
       /\ item[t] \in 0..Len(Items(t))
       /\ \A i \in 1..Len(entries[t]) :
            entries[t][i].key \in Keys /\ IsValue(entries[t][i].desired)
       /\ flushed[t] \in 0..Len(entries[t])
       /\ start[t] \in 0..Len(entries[t])
       /\ IsValue(current[t]) /\ IsValue(expected[t]) /\ IsValue(desired[t])
       /\ raised[t] \in BOOLEAN
  /\ deletes \in 0..MaxDeletes

\* In every state a key holds what Python's built-in gives for the items merged
\* into it since it was last deleted, each counted once: a lost race, a retry or
\* a failure half-way neither loses nor repeats a contribution, and nothing
\* depends on how the items are split between the local tables.  A reduce that
\* has returned has merged all of its items.  An object whose __bool__ raises counts
\* as true in all() and any(), and the call goes on (LeavesException).
MatchesBuiltin ==
  /\ TypeOK
  /\ \A k \in Keys :
       IF merged[k] = {} THEN dict[k] = NOT_FOUND
       ELSE /\ dict[k] # NOT_FOUND
            /\ IsBuiltin(function, [x \in merged[k] |-> Value(x[1], x[2])], dict[k])
  /\ deletes = 0 => \A t \in Threads, k \in Keys :
       pc[t] = "done" => ItemsOf(t, k) \subseteq merged[k]

\* What the stub promises of reduce_and and reduce_or (_cereggii.pyi:567-583 and
\* 602-618, "atomic_dict[key] = not not value"): they leave truth values in the
\* dictionary.  The code stores the first value of a key as it is.
StoresTruthValues ==
  function \in {"and", "or"} => \A k \in Keys : dict[k] = NOT_FOUND \/ dict[k][1] = "bool"

\* Every reduce returns: a compare_and_set only fails, and a value is only
\* aggregated again, because another call changed the key.
ReduceReturns == \A t \in Threads : <>(pc[t] \in {"done", "failed"})
=============================================================================
