---------------------------- MODULE Synchronizers ----------------------------
(***************************************************************************)
(* Threads of one program that wait for each other: on a CountDownLatch,   *)
(* on a call_once function and on the construction of an AtomicDict.       *)
(* A thread makes one call at a time; the latch and the function each have *)
(* an AtomicEvent of their own.                                            *)
(***************************************************************************)
EXTENDS Naturals

CONSTANTS
  Threads, NoThread, NotSet, Counts, Outcomes,
  MaxSpurious,   \* bound on the spurious wake-ups of each event
  MaxCalls       \* bound on the number of calls a thread makes

ASSUME NoThreadAssumption == NoThread \notin Threads
ASSUME OutcomesAssumption == NotSet \notin Outcomes
ASSUME BoundsAssumption == Counts \subseteq Nat /\ {MaxSpurious, MaxCalls} \subseteq Nat

VARIABLES
  count, current, latchPc,
  latchMutex, latchState, latchAt, latchSpurious,
  leader, outcome, runs, aborted, got, oncePc,
  onceMutex, onceState, onceAt, onceSpurious,
  metadata, failed, result, initPc,
  calls   \* thread -> how many calls it has made

Latch == INSTANCE CountDownLatch WITH
           pc <- latchPc, mutex <- latchMutex, state <- latchState,
           at <- latchAt, spurious <- latchSpurious
Once == INSTANCE CallOnce WITH
          pc <- oncePc, mutex <- onceMutex, state <- onceState,
          at <- onceAt, spurious <- onceSpurious
Dict == INSTANCE DictInit WITH pc <- initPc

latchVars == <<count, current, latchPc, latchMutex, latchState, latchAt, latchSpurious>>
onceVars == <<leader, outcome, runs, aborted, got, oncePc,
              onceMutex, onceState, onceAt, onceSpurious>>
dictVars == <<metadata, failed, result, initPc>>
vars == <<latchVars, onceVars, dictVars, calls>>

Idle(t) == latchPc[t] = "idle" /\ oncePc[t] = "idle" /\ initPc[t] = "idle"

Init ==
  /\ Latch!Init /\ Once!Init /\ Dict!Init
  /\ calls = [t \in Threads |-> 0]

Call(t) ==
  /\ Idle(t) /\ calls[t] < MaxCalls
  /\ calls' = [calls EXCEPT ![t] = @ + 1]
  /\ \/ Latch!Call(t) /\ UNCHANGED <<onceVars, dictVars>>
     \/ Once!Call(t) /\ UNCHANGED <<latchVars, dictVars>>
     \/ Dict!Call(t) /\ UNCHANGED <<latchVars, onceVars>>

Step(t) ==
  /\ \/ Latch!Step(t) /\ UNCHANGED <<onceVars, dictVars>>
     \/ Once!Step(t) /\ UNCHANGED <<latchVars, dictVars>>
     \/ Dict!Step(t) /\ UNCHANGED <<latchVars, onceVars>>
  /\ UNCHANGED calls

WakeUp(t) ==
  /\ \/ Latch!WakeUp(t) /\ UNCHANGED onceVars
     \/ Once!WakeUp(t) /\ UNCHANGED latchVars
  /\ UNCHANGED <<dictVars, calls>>

Next == \E t \in Threads : Call(t) \/ Step(t) \/ WakeUp(t)

\* A thread inside a call is scheduled, and a mutex that stays free is taken.
FairSpec == Init /\ [][Next]_vars /\ \A t \in Threads : WF_vars(Step(t))
-----------------------------------------------------------------------------
\* The latch's event is set exactly when its count has come down to zero, but
\* for the time the one thread that brought it there needs to set it.
EventFollowsCount == Latch!EventFollowsCount

\* call_once calls its function once, and every caller takes what that gave.
SameOutcomeForAll == Once!SameOutcomeForAll

\* No __init__ returns to find a half-built dictionary, or builds it again.
InitialisedOnce == Dict!InitialisedOnce

\* AtomicEvent's mutex, flag and condition variable are an event to both its
\* users: no wait returns early, and none misses the wake-up.
ImplementsEvent == Latch!reached_zero!Abstract!Spec /\ Once!done!Abstract!Spec

\* A call that ought to return: not a wait() on a latch that is still counting.
Pending(t) == ~Idle(t) /\ ~(latchPc[t] = "wait" /\ count > 0)

\* Every call returns: decrement() always, wait() once the count is zero, a
\* call_once function unless the leader's func raised a BaseException that is
\* no Exception, __init__ unless the thread that builds has given up.
CallsReturn ==
  \A t \in Threads :
    Pending(t) ~> \/ Idle(t)
                  \/ oncePc[t] # "idle" /\ aborted
                  \/ initPc[t] # "idle" /\ failed
=============================================================================
