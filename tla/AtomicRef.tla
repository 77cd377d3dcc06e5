------------------------------ MODULE AtomicRef ------------------------------
(***************************************************************************)
(* AtomicRef (atomic_ref.c): a cell that owns a reference to a Python      *)
(* object, read and replaced by threads that hold no lock.  The property   *)
(* of interest is the reference count: the cell's own reference must be    *)
(* handed over exactly once, whoever wins.                                 *)
(*                                                                         *)
(* An object whose count drops to 0 is deallocated.  _Py_TryIncref is      *)
(* CPython's: it fails on an object whose count has reached 0, and the     *)
(* free-threaded build keeps that memory readable for as long as a thread  *)
(* may still look at it.  A step of one action is one atomic access.       *)
(***************************************************************************)
EXTENDS Integers, FiniteSets

CONSTANTS
  Threads, Objects,
  Ops,        \* which of "get", "set", "cas", "swap" the program calls
  MaxCalls,   \* bound on the number of calls
  NULL

ASSUME OpsAssumption == Ops \subseteq {"get", "set", "cas", "swap"} /\ MaxCalls \in Nat

VARIABLES
  reference,  \* the object the cell refers to
  rc,         \* object -> its reference count
  held,       \* thread -> object -> the references the thread owns
  calls,      \* how many calls have been made
  pc,         \* thread -> the access it makes next
  op,         \* thread -> the call it executes, or NULL
  loaded,     \* thread -> the object AtomicRef_Get is trying to acquire
  current,    \* thread -> current_reference of AtomicRef_Set
  expected,   \* thread -> the local `expected` of AtomicRef_Set
  mismatched  \* history: has a set replaced another object than its current?

vars == <<reference, rc, held, calls, pc, op, loaded, current, expected, mismatched>>

Calls ==
  [name : Ops \cap {"get"}]
    \cup [name : Ops \cap {"set", "swap"}, desired : Objects]
    \cup [name : Ops \cap {"cas"}, expected : Objects, desired : Objects]

Alive(o) == rc[o] > 0
Goto(t, label) == pc' = [pc EXCEPT ![t] = label]

\* The thread owns one more reference to o, without a new one being made.
Take(t, o) == held' = [held EXCEPT ![t][o] = @ + 1]

ASSUME RefAssumption == IsFiniteSet(Threads) /\ NULL \notin Objects \cup Calls
-----------------------------------------------------------------------------
\* Each thread starts with a reference to every object.
Init ==
  /\ reference \in Objects
  /\ held = [t \in Threads |-> [o \in Objects |-> 1]]
  /\ rc = [o \in Objects |-> Cardinality(Threads) + (IF o = reference THEN 1 ELSE 0)]
  /\ calls = 0
  /\ pc = [t \in Threads |-> "idle"]
  /\ op = [t \in Threads |-> NULL]
  /\ loaded = [t \in Threads |-> NULL]
  /\ current = [t \in Threads |-> NULL]
  /\ expected = [t \in Threads |-> NULL]
  /\ mismatched = FALSE

\* A call can only name objects its thread holds.  set, compare_and_set and
\* get_and_set first give the cell its reference to the desired object.
Call(t, call) ==
  /\ pc[t] = "idle"
  /\ calls < MaxCalls
  /\ call.name = "cas" => held[t][call.expected] > 0
  /\ call.name # "get" => held[t][call.desired] > 0
  /\ calls' = calls + 1
  /\ op' = [op EXCEPT ![t] = call]
  /\ rc' = IF call.name = "get" THEN rc ELSE [rc EXCEPT ![call.desired] = @ + 1]
  /\ Goto(t, IF call.name \in {"get", "set"} THEN "load" ELSE call.name)
  /\ UNCHANGED <<reference, held, loaded, current, expected, mismatched>>

\* AtomicRef_Get: the load of the cell.
Load(t) ==
  /\ pc[t] = "load"
  /\ loaded' = [loaded EXCEPT ![t] = reference]
  /\ Goto(t, "try_incref")
  /\ UNCHANGED <<reference, rc, held, calls, op, current, expected, mismatched>>

\* AtomicRef_Get: _Py_TryIncref, and what its caller does with the result.
\* Only AtomicRef_Set's first AtomicRef_Get sets `expected`.
TryIncref(t) ==
  /\ pc[t] = "try_incref"
  /\ LET o == loaded[t] IN
     \/ /\ ~Alive(o)
        /\ Goto(t, "load")
        /\ UNCHANGED <<rc, held, op, current, expected>>
     \/ /\ Alive(o)
        /\ rc' = [rc EXCEPT ![o] = @ + 1]
        /\ IF op[t].name = "get"
           THEN /\ Take(t, o)
                /\ op' = [op EXCEPT ![t] = NULL]
                /\ Goto(t, "idle")
                /\ UNCHANGED <<current, expected>>
           ELSE /\ current' = [current EXCEPT ![t] = o]
                /\ expected' = [expected EXCEPT ![t] = IF @ = NULL THEN o ELSE @]
                /\ Goto(t, "set")
                /\ UNCHANGED <<held, op>>
  /\ loaded' = [loaded EXCEPT ![t] = NULL]
  /\ UNCHANGED <<reference, calls, mismatched>>

\* Mutant: a lost race does not drop the reference of the AtomicRef_Get.
KeepsReference(t) ==
  /\ pc[t] = "set"
  /\ \/ /\ reference = expected[t]
        /\ reference' = op[t].desired
        /\ mismatched' = (mismatched \/ expected[t] # current[t])
        /\ Goto(t, "release")
        /\ UNCHANGED <<current, expected>>
     \/ /\ reference # expected[t]
        /\ expected' = [expected EXCEPT ![t] = reference]
        /\ current' = [current EXCEPT ![t] = NULL]
        /\ Goto(t, "load")
        /\ UNCHANGED <<reference, mismatched>>
  /\ UNCHANGED <<rc, held, calls, op, loaded>>

\* AtomicRef_Set: the compare-and-exchange.  When it fails it stores what it
\* saw in `expected`, the reference in current is dropped and another is taken.
SetCas(t) ==
  /\ pc[t] = "set"
  /\ \/ /\ reference = expected[t]
        /\ reference' = op[t].desired
        /\ mismatched' = (mismatched \/ expected[t] # current[t])
        /\ Goto(t, "release")
        /\ UNCHANGED <<rc, current, expected>>
     \/ /\ reference # expected[t]
        /\ expected' = [expected EXCEPT ![t] = reference]
        /\ rc' = [rc EXCEPT ![current[t]] = @ - 1]
        /\ current' = [current EXCEPT ![t] = NULL]
        /\ Goto(t, "load")
        /\ UNCHANGED <<reference, mismatched>>
  /\ UNCHANGED <<held, calls, op, loaded>>

\* AtomicRef_Set: the two decrements at the end.
Release(t) ==
  /\ pc[t] = "release"
  /\ rc' = [rc EXCEPT ![current[t]] = @ - 2]
  /\ current' = [current EXCEPT ![t] = NULL]
  /\ expected' = [expected EXCEPT ![t] = NULL]
  /\ op' = [op EXCEPT ![t] = NULL]
  /\ Goto(t, "idle")
  /\ UNCHANGED <<reference, held, calls, loaded, mismatched>>

\* AtomicRef_CompareAndSet: the compare-and-exchange.
Cas(t) ==
  /\ pc[t] = "cas"
  /\ reference' = IF reference = op[t].expected THEN op[t].desired ELSE reference
  /\ Goto(t, IF reference = op[t].expected THEN "cas_won" ELSE "cas_lost")
  /\ UNCHANGED <<rc, held, calls, op, loaded, current, expected, mismatched>>

\* AtomicRef_CompareAndSet: the decrement of the object that left the cell, or
\* of the one that did not enter it.
EndCas(t) ==
  /\ pc[t] \in {"cas_won", "cas_lost"}
  /\ rc' = [rc EXCEPT ![IF pc[t] = "cas_won" THEN op[t].expected
                        ELSE op[t].desired] = @ - 1]
  /\ op' = [op EXCEPT ![t] = NULL]
  /\ Goto(t, "idle")
  /\ UNCHANGED <<reference, held, calls, loaded, current, expected, mismatched>>

\* AtomicRef_GetAndSet: the cell's reference passes to the caller.
Exchange(t) ==
  /\ pc[t] = "swap"
  /\ reference' = op[t].desired
  /\ Take(t, reference)
  /\ op' = [op EXCEPT ![t] = NULL]
  /\ Goto(t, "idle")
  /\ UNCHANGED <<rc, calls, loaded, current, expected, mismatched>>

\* The program: a thread gives up a reference it owns.
Drop(t, o) ==
  /\ pc[t] = "idle"
  /\ held[t][o] > 0
  /\ held' = [held EXCEPT ![t][o] = @ - 1]
  /\ rc' = [rc EXCEPT ![o] = @ - 1]
  /\ UNCHANGED <<reference, calls, pc, op, loaded, current, expected, mismatched>>

Next ==
  \E t \in Threads :
    \/ \E call \in Calls : Call(t, call)
    \/ Load(t) \/ TryIncref(t) \/ SetCas(t) \/ Release(t)
    \/ Cas(t) \/ EndCas(t) \/ Exchange(t)
    \/ \E o \in Objects : Drop(t, o)

Spec == Init /\ [][Next]_vars
-----------------------------------------------------------------------------
\* Types; no count drops below zero (a double Py_DECREF), unless a set went wrong.
TypeOK ==
  /\ reference \in Objects
  /\ rc \in [Objects -> Int]
  /\ mismatched \/ \A o \in Objects : rc[o] >= 0
  /\ held \in [Threads -> [Objects -> Nat]]
  /\ calls \in 0..MaxCalls
  /\ pc \in [Threads -> {"idle", "load", "try_incref", "set", "release", "cas",
                         "cas_won", "cas_lost", "swap"}]
  /\ op \in [Threads -> Calls \cup {NULL}]
  /\ loaded \in [Threads -> Objects \cup {NULL}]
  /\ current \in [Threads -> Objects \cup {NULL}]
  /\ expected \in [Threads -> Objects \cup {NULL}]

\* One element for each reference, when every thread t has count[t] of them.
References(count) == UNION {{t} \X (1..count[t]) : t \in Threads}

Holders(o) == Cardinality(References([t \in Threads |-> held[t][o]]))

\* The references to o that t's call in progress owns: the one made for the
\* cell until it is in the cell, the one AtomicRef_Get made for AtomicRef_Set,
\* and the cell's own once t has taken o out of it.
Owned(t, o) ==
  LET Here(labels, object) == IF pc[t] \in labels /\ object = o THEN 1 ELSE 0 IN
  IF op[t] = NULL \/ op[t].name = "get" THEN 0
  ELSE Here({"load", "try_incref", "set", "cas", "cas_lost", "swap"}, op[t].desired)
       + Here({"set", "release"}, current[t])
       + Here({"release"}, current[t])
       + (IF op[t].name = "cas" THEN Here({"cas_won"}, op[t].expected) ELSE 0)

\* The reference count of every object is what the cell, the threads and the
\* calls in progress own: the cell's reference to the object it lets go of is
\* dropped or handed over exactly once, however the calls interleave.  It goes
\* wrong only once a set has replaced an object that is not its current.
RefcountsBalance ==
  /\ TypeOK
  /\ ~mismatched => \A o \in Objects :
       rc[o] = (IF reference = o THEN 1 ELSE 0) + Holders(o)
               + Cardinality(References([t \in Threads |-> Owned(t, o)]))

\* When no call is running, no reference has been lost or dropped twice: what
\* AtomicRef_Set's two closing decrements ("for the AtomicRef_Get", "because
\* not holding it anymore") are for.
QuiescentRefcounts ==
  (\A t \in Threads : pc[t] = "idle")
    => \A o \in Objects : rc[o] = (IF reference = o THEN 1 ELSE 0) + Holders(o)
=============================================================================
