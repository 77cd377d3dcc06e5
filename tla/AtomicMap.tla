----------------------------- MODULE AtomicMap -----------------------------
(***************************************************************************)
(* What AtomicDict promises to the threads that call it: every call of     *)
(* compare_and_set, __setitem__, __delitem__ and get takes effect at one   *)
(* instant between its invocation and its response.                        *)
(*                                                                         *)
(* A call that changes the map does so in Commit.  A call that changes     *)
(* nothing (a get, a delete of an absent key, a failed expectation) may    *)
(* answer with any binding its key had while the call was pending: seen[t] *)
(* is the set of those bindings.                                           *)
(***************************************************************************)
CONSTANTS
  Threads, Keys, Values,
  NOT_FOUND,           \* the binding of an absent key
  ANY,                 \* the expectation every binding meets
  EXPECTATION_FAILED,  \* the answer of a compare_and_set that did nothing
  Failures,            \* answers of calls abandoned with no effect
  NULL                 \* no call, no answer

VARIABLES
  map,   \* key -> its value, or NOT_FOUND
  op,    \* thread -> the call it has pending, or NULL
  seen,  \* thread -> the bindings of its key since the invocation
  out    \* thread -> the answer, once the call has taken effect

vars == <<map, op, seen, out>>

Calls ==
  [name : {"cas"}, key : Keys,
   expected : Values \cup {NOT_FOUND, ANY}, desired : Values]
    \cup [name : {"del", "get"}, key : Keys]

Pending(t) == op[t] # NULL /\ out[t] = NULL

Init ==
  /\ map \in [Keys -> Values \cup {NOT_FOUND}]
  /\ op = [t \in Threads |-> NULL]
  /\ seen = [t \in Threads |-> {}]
  /\ out = [t \in Threads |-> NULL]

Invoke(t, call) ==
  /\ op[t] = NULL
  /\ op' = [op EXCEPT ![t] = call]
  /\ seen' = [seen EXCEPT ![t] = {map[call.key]}]
  /\ UNCHANGED <<map, out>>

\* The binding of key k changes to v; every pending call on k can see it.
Rebind(k, v) ==
  /\ map' = [map EXCEPT ![k] = v]
  /\ seen' = [t \in Threads |->
                IF Pending(t) /\ op[t].key = k THEN seen[t] \cup {v} ELSE seen[t]]

Commit(t) ==
  /\ Pending(t)
  /\ LET k == op[t].key IN
     /\ \/ /\ op[t].name = "cas"
           /\ op[t].expected \in {ANY, map[k]}
           /\ Rebind(k, op[t].desired)
        \/ /\ op[t].name = "del"
           /\ map[k] # NOT_FOUND
           /\ Rebind(k, NOT_FOUND)
     /\ out' = [out EXCEPT ![t] = map[k]]
  /\ UNCHANGED op

Observe(t) ==
  /\ Pending(t)
  /\ \E v \in seen[t] :
       \/ /\ op[t].name = "cas"
          /\ op[t].expected \notin {ANY, v}
          /\ out' = [out EXCEPT ![t] = EXPECTATION_FAILED]
       \/ /\ op[t].name = "del"
          /\ v = NOT_FOUND
          /\ out' = [out EXCEPT ![t] = NOT_FOUND]
       \/ /\ op[t].name = "get"
          /\ out' = [out EXCEPT ![t] = v]
  /\ UNCHANGED <<map, op, seen>>

\* A key comparison raised, or the table must grow before the call is retried.
Abandon(t) ==
  /\ Pending(t)
  /\ \E failure \in Failures : out' = [out EXCEPT ![t] = failure]
  /\ UNCHANGED <<map, op, seen>>

Respond(t) ==
  /\ out[t] # NULL
  /\ op' = [op EXCEPT ![t] = NULL]
  /\ seen' = [seen EXCEPT ![t] = {}]
  /\ out' = [out EXCEPT ![t] = NULL]
  /\ UNCHANGED map

Next ==
  \E t \in Threads :
    \/ \E call \in Calls : Invoke(t, call)
    \/ Commit(t)
    \/ Observe(t)
    \/ Abandon(t)
    \/ Respond(t)

Spec == Init /\ [][Next]_vars
=============================================================================
