--------------------------- MODULE CountDownLatch ---------------------------
(***************************************************************************)
(* CountDownLatch (count_down_latch.py): an AtomicInt64 that threads count *)
(* down, and the AtomicEvent that releases the waiters.  The count and the *)
(* event are separate: the thread whose compare_and_set brings the count   *)
(* to zero sets the event afterwards.                                      *)
(***************************************************************************)
EXTENDS Naturals

CONSTANTS Threads, NoThread, MaxSpurious,
          Counts   \* the counts a latch may be built with

VARIABLES
  count,                        \* _count
  current,                      \* thread -> current_count of its loop
  pc,                           \* thread -> what it does next
  mutex, state, at, spurious    \* _reached_zero

reached_zero == INSTANCE AtomicEvent

eventVars == <<mutex, state, at, spurious>>

Goto(t, label) == pc' = [pc EXCEPT ![t] = label]

\* __init__: a latch of zero is built open.
Init ==
  /\ count \in Counts
  /\ current = [t \in Threads |-> 0]
  /\ pc = [t \in Threads |-> "idle"]
  /\ reached_zero!Init
  /\ state = IF count = 0 THEN 1 ELSE 0

\* decrement() and decrement_and_get().
CallDecrement(t) ==
  pc[t] = "idle" /\ Goto(t, "get") /\ UNCHANGED <<count, current, eventVars>>

Get(t) ==
  /\ pc[t] = "get"
  /\ current' = [current EXCEPT ![t] = count]
  /\ Goto(t, IF count = 0 THEN "idle" ELSE "cas")
  /\ UNCHANGED <<count, eventVars>>

\* Mutant: the decremented count is stored, not compared and exchanged.
StoresCount(t) ==
  /\ pc[t] = "cas"
  /\ count' = current[t] - 1
  /\ IF current[t] - 1 = 0
     THEN Goto(t, "set") /\ reached_zero!CallSet(t)
     ELSE Goto(t, "idle") /\ UNCHANGED eventVars
  /\ UNCHANGED current

\* Mutant: the thread looks for zero in the count it read, not in the new one.
ReleasesNobody(t) ==
  /\ pc[t] = "cas"
  /\ \/ /\ count = current[t]
        /\ count' = current[t] - 1
        /\ Goto(t, "idle")
     \/ /\ count # current[t]
        /\ Goto(t, "get")
        /\ UNCHANGED count
  /\ UNCHANGED <<current, eventVars>>

Cas(t) ==
  /\ pc[t] = "cas"
  /\ \/ /\ count = current[t]
        /\ count' = current[t] - 1
        /\ IF current[t] - 1 = 0
           THEN Goto(t, "set") /\ reached_zero!CallSet(t)
           ELSE Goto(t, "idle") /\ UNCHANGED eventVars
     \/ /\ count # current[t]
        /\ Goto(t, "get")
        /\ UNCHANGED <<count, eventVars>>
  /\ UNCHANGED current

CallWait(t) ==
  pc[t] = "idle" /\ Goto(t, "wait") /\ reached_zero!CallWait(t) /\ UNCHANGED <<count, current>>

\* _reached_zero's set() or wait() has returned, and so does the call.
Return(t) ==
  pc[t] \in {"set", "wait"} /\ at[t] = "out" /\ Goto(t, "idle")
    /\ UNCHANGED <<count, current, eventVars>>

InEvent(t) == reached_zero!Step(t) /\ UNCHANGED <<count, current, pc>>
WakeUp(t) == reached_zero!WakeUp(t) /\ UNCHANGED <<count, current, pc>>

Call(t) == CallDecrement(t) \/ CallWait(t)
Step(t) == Get(t) \/ Cas(t) \/ Return(t) \/ InEvent(t)
-----------------------------------------------------------------------------
\* The event is set exactly when the count is zero, but for the time it takes
\* the one thread that counted down to zero to set it: nobody passes wait()
\* early, no second thread sets it, and nobody is left to wait for nothing
\* (decrement_and_get's loop and its test for zero after the exchange).
EventFollowsCount ==
  LET releasing == {t \in Threads : pc[t] = "set"} IN
    /\ state = 1 \/ releasing # {} => count = 0
    /\ count = 0 /\ state = 0 => releasing # {}
    /\ \A t, u \in releasing : t = u
=============================================================================
