------------------------------ MODULE CallOnce ------------------------------
(***************************************************************************)
(* call_once (misc.py): one thread, the leader, runs the function; the     *)
(* others wait for an AtomicEvent and take the leader's result, or raise   *)
(* its exception.                                                          *)
(***************************************************************************)
EXTENDS Naturals

CONSTANTS Threads, NoThread, MaxSpurious,
          Outcomes,   \* what func may return, or raise as an Exception
          NotSet      \* _not_set

VARIABLES
  leader,                       \* has the AtomicRef been exchanged for True?
  outcome,                      \* result or exception, or NotSet
  runs,                         \* history: how many times func was called
  aborted,                      \* did func raise what `except Exception` misses?
  got,                          \* thread -> what its last call returned or raised
  pc,                           \* thread -> what it does next
  mutex, state, at, spurious    \* done

done == INSTANCE AtomicEvent

eventVars == <<mutex, state, at, spurious>>

Goto(t, label) == pc' = [pc EXCEPT ![t] = label]

Init ==
  /\ leader = FALSE
  /\ outcome = NotSet
  /\ runs = 0
  /\ aborted = FALSE
  /\ got = [t \in Threads |-> NotSet]
  /\ pc = [t \in Threads |-> "idle"]
  /\ done!Init /\ state = 0

Call(t) ==
  /\ pc[t] = "idle"
  /\ Goto(t, "is_set")
  /\ got' = [got EXCEPT ![t] = NotSet]
  /\ UNCHANGED <<leader, outcome, runs, aborted, eventVars>>

IsSet(t) ==
  /\ pc[t] = "is_set"
  /\ Goto(t, IF state = 1 THEN "read" ELSE "elect")
  /\ UNCHANGED <<leader, outcome, runs, aborted, got, eventVars>>

\* Mutant: losing the election is taken for the end of the leader's call.
DoesNotWait(t) ==
  /\ pc[t] = "elect"
  /\ leader' = TRUE
  /\ Goto(t, IF leader THEN "read" ELSE "func")
  /\ UNCHANGED <<outcome, runs, aborted, got, eventVars>>

\* leader.compare_and_set(expected=False, desired=True).
Elect(t) ==
  /\ pc[t] = "elect"
  /\ \/ /\ ~leader
        /\ leader' = TRUE
        /\ Goto(t, "func")
        /\ UNCHANGED eventVars
     \/ /\ leader
        /\ Goto(t, "wait")
        /\ done!CallWait(t)
        /\ UNCHANGED leader
  /\ UNCHANGED <<outcome, runs, aborted, got>>

\* The leader keeps what func returns or raises, and sets the event; a
\* BaseException that is no Exception leaves the wrapper at once.
Func(t) ==
  /\ pc[t] = "func"
  /\ runs' = runs + 1
  /\ \/ /\ \E o \in Outcomes : outcome' = o
        /\ Goto(t, "set")
        /\ done!CallSet(t)
        /\ UNCHANGED aborted
     \/ /\ aborted' = TRUE
        /\ Goto(t, "idle")
        /\ UNCHANGED <<outcome, eventVars>>
  /\ UNCHANGED <<leader, got>>

\* The leader waits like everybody else.
LeaderWaits(t) ==
  /\ pc[t] = "set" /\ at[t] = "out"
  /\ Goto(t, "wait")
  /\ done!CallWait(t)
  /\ UNCHANGED <<leader, outcome, runs, aborted, got>>

Read(t) ==
  /\ pc[t] = "read" \/ (pc[t] = "wait" /\ at[t] = "out")
  /\ got' = [got EXCEPT ![t] = outcome]
  /\ Goto(t, "idle")
  /\ UNCHANGED <<leader, outcome, runs, aborted, eventVars>>

InEvent(t) == done!Step(t) /\ UNCHANGED <<leader, outcome, runs, aborted, got, pc>>
WakeUp(t) == done!WakeUp(t) /\ UNCHANGED <<leader, outcome, runs, aborted, got, pc>>

Step(t) == IsSet(t) \/ Elect(t) \/ Func(t) \/ LeaderWaits(t) \/ Read(t) \/ InEvent(t)
-----------------------------------------------------------------------------
\* func is called once, and nobody leaves with anything else than what that
\* call gave: a caller reads result and exception only after they were
\* assigned, whether it saw the event set or waited for it.
SameOutcomeForAll ==
  /\ runs <= 1
  /\ \A t \in Threads : got[t] \in {NotSet, outcome}
  /\ \A t \in Threads : pc[t] = "read" \/ (pc[t] = "wait" /\ at[t] = "out")
                         => outcome # NotSet
=============================================================================
