------------------------------ MODULE DictInit ------------------------------
(***************************************************************************)
(* AtomicDict.__init__ (atomic_dict.c) may be called by several threads:   *)
(* the one that turns metadata from None to True builds the dictionary,    *)
(* the others spin until there is one and fail.  What is built is the      *)
(* subject of module Reservation.                                          *)
(***************************************************************************)
CONSTANT Threads

VARIABLES
  metadata,   \* "None", "True" while one thread builds, then "meta"
  failed,     \* has the thread that builds given up?
  result,     \* thread -> how its __init__ ended
  pc          \* thread -> what it does next


Goto(t, label) == pc' = [pc EXCEPT ![t] = label]
End(t, r) == result' = [result EXCEPT ![t] = r] /\ Goto(t, "idle")

\* AtomicDict_new.
Init ==
  /\ metadata = "None"
  /\ failed = FALSE
  /\ result = [t \in Threads |-> "none"]
  /\ pc = [t \in Threads |-> "idle"]

Call(t) == pc[t] = "idle" /\ Goto(t, "reserve") /\ UNCHANGED <<metadata, failed, result>>

Reserve(t) ==
  /\ pc[t] = "reserve"
  /\ Goto(t, IF metadata = "None" THEN "build" ELSE "spin")
  /\ metadata' = IF metadata = "None" THEN "True" ELSE metadata
  /\ UNCHANGED <<failed, result>>

\* Mutant: a thread that did not get the reservation returns immediately.
SpinsOnNone(t) ==
  pc[t] = "spin" /\ metadata # "None" /\ End(t, "more_than_once") /\ UNCHANGED <<metadata, failed>>

\* The loop on AtomicRef_Get, which goes on while the value is None or True.
Spin(t) ==
  pc[t] = "spin" /\ metadata = "meta" /\ End(t, "more_than_once") /\ UNCHANGED <<metadata, failed>>

\* Arguments that are refused, an allocation or a __hash__ that fails.
BuildFails(t) ==
  pc[t] = "build" /\ failed' = TRUE /\ End(t, "failed") /\ UNCHANGED metadata

\* AtomicRef_CompareAndSet(self->metadata, Py_True, meta): it would fail, and
\* __init__ with it, if anybody else had changed metadata meanwhile.
Publish(t) ==
  pc[t] = "build" /\ metadata = "True" /\ metadata' = "meta" /\ End(t, "ok") /\ UNCHANGED failed

Step(t) == Reserve(t) \/ Spin(t) \/ BuildFails(t) \/ Publish(t)
-----------------------------------------------------------------------------
\* Whoever returns from __init__ other than by a failed construction leaves a
\* dictionary that is ready, never a half-built one, and it was built by one
\* thread: only the builder sees True as something to replace.
InitialisedOnce ==
  /\ \A t \in Threads : result[t] \in {"ok", "more_than_once"} => metadata = "meta"
  /\ \A t, u \in Threads :
       pc[t] = "build" => metadata = "True" /\ (pc[u] = "build" => t = u)
=============================================================================
