------------------------ MODULE SynchronizersProofs ------------------------
(***************************************************************************)
(* CountDownLatch, call_once and AtomicDict.__init__ are correct for every *)
(* set of threads and every order of their steps.                          *)
(*                                                                         *)
(* Both users of an AtomicEvent rest on the same facts about it (Uses): a  *)
(* thread is in the event's code exactly while its own code waits for it   *)
(* to return, and whoever returns from set() or wait() leaves an event     *)
(* that is set.  The latch adds that the count only falls from one to zero *)
(* once; call_once that there is one leader.                               *)
(***************************************************************************)
EXTENDS Synchronizers, TLAPS

Setting == {"set", "store", "broadcast", "stored"}
Waits == {"wait", "test", "asleep", "woken", "passed"}

\* How a client's threads use its event.
Uses(pc, at, state) ==
  /\ state \in {0, 1}
  /\ at \in [Threads -> Setting \cup Waits \cup {"out"}]
  /\ \A t \in Threads :
       /\ pc[t] \notin {"set", "wait"} => at[t] = "out"
       /\ pc[t] = "set" => at[t] \in Setting \cup {"out"}
       /\ pc[t] = "wait" => at[t] \in Waits \cup {"out"}
       /\ at[t] \in {"broadcast", "stored", "passed"} => state = 1
       /\ pc[t] \in {"set", "wait"} /\ at[t] = "out" => state = 1

LatchInv ==
  /\ count \in Nat /\ current \in [Threads -> Nat]
  /\ latchPc \in [Threads -> {"idle", "get", "cas", "set", "wait"}]
  /\ Uses(latchPc, latchAt, latchState)
  /\ \A t \in Threads : latchPc[t] = "cas" => current[t] > 0
  /\ EventFollowsCount

OnceInv ==
  /\ runs \in {0, 1}
  /\ got \in [Threads -> Outcomes \cup {NotSet}] /\ outcome \in Outcomes \cup {NotSet}
  /\ oncePc \in [Threads -> {"idle", "is_set", "elect", "func", "set", "wait", "read"}]
  /\ Uses(oncePc, onceAt, onceState)
  /\ ~leader => runs = 0
  /\ runs = 0 => outcome = NotSet
  /\ \A t \in Threads :
       /\ oncePc[t] = "func" => leader /\ runs = 0
       /\ oncePc[t] = "set" => outcome # NotSet
       /\ \A u \in Threads : oncePc[t] = "func" /\ oncePc[u] = "func" => t = u
  /\ onceState = 1 => outcome # NotSet
  /\ SameOutcomeForAll

DictInv ==
  /\ metadata \in {"None", "True", "meta"}
  /\ result \in [Threads -> {"none", "ok", "failed", "more_than_once"}]
  /\ initPc \in [Threads -> {"idle", "reserve", "build", "spin"}]
  /\ InitialisedOnce
-----------------------------------------------------------------------------
\* A step inside the latch's event keeps what the latch relies on.
LEMMA LatchEvent ==
  ASSUME LatchInv, NEW t \in Threads, Latch!InEvent(t) \/ Latch!WakeUp(t)
  PROVE  LatchInv'
<1>1. UNCHANGED <<count, current, latchPc>>
  BY DEF Latch!InEvent, Latch!WakeUp
<1>2. /\ Uses(latchPc, latchAt, latchState)'
      /\ latchState' = latchState \/ (latchState' = 1 /\ latchPc[t] = "set")
  BY <1>1
     DEF LatchInv, Uses, Setting, Waits, Latch!InEvent, Latch!WakeUp,
         Latch!reached_zero!Step, Latch!reached_zero!WakeUp,
         Latch!reached_zero!SetLocks, Latch!reached_zero!Store,
         Latch!reached_zero!Broadcast, Latch!reached_zero!SetUnlocks,
         Latch!reached_zero!WaitLocks, Latch!reached_zero!Test,
         Latch!reached_zero!WaitUnlocks, Latch!reached_zero!Move
<1>3. EventFollowsCount'
  BY <1>1, <1>2 DEF LatchInv, EventFollowsCount, Latch!EventFollowsCount
<1>4. QED
  BY <1>1, <1>2, <1>3 DEF LatchInv

\* So do the steps of decrement() and wait(): the count comes down to zero once,
\* by an exchange that found it at one, when nobody is setting the event yet.
LEMMA LatchSteps ==
  ASSUME LatchInv, NEW t \in Threads,
         Latch!Call(t) \/ Latch!Get(t) \/ Latch!Cas(t) \/ Latch!Return(t)
  PROVE  LatchInv'
<1>1. CASE Latch!Call(t) \/ Latch!Get(t)
  BY <1>1
     DEF LatchInv, Uses, Setting, Waits, EventFollowsCount, Latch!EventFollowsCount,
         Latch!Call, Latch!CallDecrement, Latch!CallWait, Latch!Get, Latch!Goto,
         Latch!eventVars, Latch!reached_zero!CallWait, Latch!reached_zero!Move
<1>2. CASE Latch!Cas(t)
  <2>1. CASE count # current[t]
    BY <1>2, <2>1
       DEF LatchInv, Uses, EventFollowsCount, Latch!EventFollowsCount, Latch!Cas,
           Latch!Goto, Latch!eventVars
  <2>2. CASE count = current[t] /\ count # 1
    <3>1. /\ count' = count - 1 /\ count > 1 /\ current' = current
          /\ latchPc' = [latchPc EXCEPT ![t] = "idle"]
          /\ UNCHANGED <<latchMutex, latchState, latchAt, latchSpurious>>
      BY <1>2, <2>2 DEF LatchInv, Latch!Cas, Latch!Goto, Latch!eventVars
    <3>2. QED
      BY <1>2, <3>1
         DEF LatchInv, Uses, EventFollowsCount, Latch!EventFollowsCount, Latch!Cas
  <2>3. CASE count = current[t] /\ count = 1
    <3>1. /\ count' = 0 /\ current' = current
          /\ latchPc' = [latchPc EXCEPT ![t] = "set"]
          /\ latchAt' = [latchAt EXCEPT ![t] = "set"] /\ latchState' = latchState
      BY <1>2, <2>3
         DEF Latch!Cas, Latch!Goto, Latch!reached_zero!CallSet, Latch!reached_zero!Move
    <3>2. latchState = 0 /\ \A u \in Threads : latchPc[u] # "set"
      BY <2>3 DEF LatchInv, Uses, EventFollowsCount, Latch!EventFollowsCount
    <3>3. Uses(latchPc, latchAt, latchState)'
      BY <3>1, <3>2 DEF LatchInv, Uses, Setting
    <3>4. EventFollowsCount'
      BY <3>1, <3>2 DEF LatchInv, EventFollowsCount, Latch!EventFollowsCount
    <3>5. QED
      BY <3>1, <3>3, <3>4 DEF LatchInv
  <2>4. QED
    BY <2>1, <2>2, <2>3
<1>3. CASE Latch!Return(t)
  BY <1>3
     DEF LatchInv, Uses, EventFollowsCount, Latch!EventFollowsCount, Latch!Return,
         Latch!Goto, Latch!eventVars
<1>4. QED
  BY <1>1, <1>2, <1>3
-----------------------------------------------------------------------------
\* A step inside call_once's event keeps what its callers rely on.
LEMMA OnceEvent ==
  ASSUME OnceInv, NEW t \in Threads, Once!InEvent(t) \/ Once!WakeUp(t)
  PROVE  OnceInv'
<1>1. UNCHANGED <<leader, outcome, runs, aborted, got, oncePc>>
  BY DEF Once!InEvent, Once!WakeUp
<1>2. /\ Uses(oncePc, onceAt, onceState)'
      /\ onceState' = onceState \/ (onceState' = 1 /\ oncePc[t] = "set")
  BY <1>1
     DEF OnceInv, Uses, Setting, Waits, Once!InEvent, Once!WakeUp,
         Once!done!Step, Once!done!WakeUp, Once!done!SetLocks, Once!done!Store,
         Once!done!Broadcast, Once!done!SetUnlocks, Once!done!WaitLocks,
         Once!done!Test, Once!done!WaitUnlocks, Once!done!Move
<1>3. onceState' = 1 => outcome # NotSet
  BY <1>1, <1>2 DEF OnceInv
<1>4. SameOutcomeForAll'
  BY <1>1, <1>2, <1>3 DEF OnceInv, Uses, SameOutcomeForAll, Once!SameOutcomeForAll
<1>5. QED
  BY <1>1, <1>2, <1>3, <1>4 DEF OnceInv

\* A caller of call_once starts, looks at the event or waits for it.
LEMMA OnceCallers ==
  ASSUME OnceInv, NEW t \in Threads,
         Once!Call(t) \/ Once!IsSet(t) \/ Once!LeaderWaits(t) \/ Once!Read(t)
  PROVE  OnceInv'
<1> USE DEF OnceInv, Uses, SameOutcomeForAll, Once!SameOutcomeForAll, Once!Goto,
            Once!eventVars
<1>1. CASE Once!Call(t)
  BY <1>1 DEF Once!Call
<1>2. CASE Once!IsSet(t)
  BY <1>2 DEF Once!IsSet
<1>3. CASE Once!LeaderWaits(t)
  BY <1>3 DEF Once!LeaderWaits, Once!done!CallWait, Once!done!Move, Setting, Waits
<1>4. CASE Once!Read(t)
  BY <1>4 DEF Once!Read
<1>5. QED
  BY <1>1, <1>2, <1>3, <1>4

\* One caller is elected, and it calls the function once.
LEMMA OnceLeader ==
  ASSUME OnceInv, NEW t \in Threads, Once!Elect(t) \/ Once!Func(t)
  PROVE  OnceInv'
<1> USE DEF OnceInv, Uses, SameOutcomeForAll, Once!SameOutcomeForAll, Once!Goto,
            Once!eventVars
<1>1. CASE Once!Elect(t) /\ ~leader
  <2>1. /\ leader' /\ runs = 0 /\ oncePc[t] = "elect"
        /\ \A u \in Threads : oncePc[u] # "func"
    BY <1>1 DEF Once!Elect
  <2>2. /\ oncePc' = [oncePc EXCEPT ![t] = "func"]
        /\ UNCHANGED <<onceState, onceAt, outcome, runs, aborted, got>>
    BY <1>1 DEF Once!Elect
  <2>3. QED
    BY <2>1, <2>2
<1>2. CASE Once!Elect(t) /\ leader
  BY <1>2 DEF Once!Elect, Once!done!CallWait, Once!done!Move, Waits
<1>3. CASE Once!Func(t)
  <2>1. /\ leader /\ runs = 0 /\ outcome = NotSet /\ onceState = 0
        /\ \A u \in Threads : /\ got[u] = NotSet
                              /\ oncePc[u] \notin {"set", "read"}
                              /\ oncePc[u] = "func" => u = t
    BY <1>3 DEF Once!Func
  <2>2. CASE aborted' = TRUE /\ Once!Goto(t, "idle") /\ UNCHANGED <<outcome, Once!eventVars>>
    BY <1>3, <2>1, <2>2 DEF Once!Func
  <2>3. CASE (\E o \in Outcomes : outcome' = o) /\ Once!Goto(t, "set") /\ Once!done!CallSet(t)
    BY <1>3, <2>1, <2>3, OutcomesAssumption
       DEF Once!Func, Once!done!CallSet, Once!done!Move, Setting
  <2>4. QED
    BY <1>3, <2>2, <2>3 DEF Once!Func
<1>4. QED
  BY <1>1, <1>2, <1>3
-----------------------------------------------------------------------------
\* Every step of __init__ keeps the one builder.
LEMMA DictSteps ==
  ASSUME DictInv, NEW t \in Threads, Dict!Call(t) \/ Dict!Step(t)
  PROVE  DictInv'
BY DEF DictInv, InitialisedOnce, Dict!InitialisedOnce, Dict!Call, Dict!Step, Dict!Reserve,
       Dict!Spin, Dict!BuildFails, Dict!Publish, Dict!Goto, Dict!End

Inv == LatchInv /\ OnceInv /\ DictInv

\* The three start out unused.
LEMMA InitInv == Init => Inv
<1> SUFFICES ASSUME Init PROVE Inv
  OBVIOUS
<1>1. LatchInv
  BY BoundsAssumption
     DEF Init, Latch!Init, Latch!reached_zero!Init, LatchInv, Uses, EventFollowsCount,
         Latch!EventFollowsCount
<1>2. OnceInv
  BY DEF Init, Once!Init, Once!done!Init, OnceInv, Uses, SameOutcomeForAll,
         Once!SameOutcomeForAll
<1>3. DictInv
  BY DEF Init, Dict!Init, DictInv, InitialisedOnce, Dict!InitialisedOnce
<1>4. QED
  BY <1>1, <1>2, <1>3 DEF Inv

\* A step that is not the latch's leaves its invariant alone, and so on.
LEMMA Untouched ==
  /\ LatchInv /\ UNCHANGED latchVars => LatchInv'
  /\ OnceInv /\ UNCHANGED onceVars => OnceInv'
  /\ DictInv /\ UNCHANGED dictVars => DictInv'
<1>1. LatchInv /\ UNCHANGED latchVars => LatchInv'
  BY DEF LatchInv, Uses, EventFollowsCount, Latch!EventFollowsCount, latchVars
<1>2. OnceInv /\ UNCHANGED onceVars => OnceInv'
  BY DEF OnceInv, Uses, SameOutcomeForAll, Once!SameOutcomeForAll, onceVars
<1>3. DictInv /\ UNCHANGED dictVars => DictInv'
  BY DEF DictInv, InitialisedOnce, Dict!InitialisedOnce, dictVars
<1>4. QED
  BY <1>1, <1>2, <1>3

\* Every step of the program keeps the invariant.
LEMMA NextInv == Inv /\ [Next]_vars => Inv'
<1> SUFFICES ASSUME Inv, [Next]_vars PROVE Inv'
  OBVIOUS
<1>1. ASSUME NEW t \in Threads, Call(t) PROVE Inv'
  BY <1>1, Untouched, LatchSteps, OnceCallers, DictSteps DEF Inv, Call
<1>2. ASSUME NEW t \in Threads, Step(t) PROVE Inv'
  <2>1. CASE Latch!Step(t) /\ UNCHANGED <<onceVars, dictVars>>
    BY <2>1, Untouched, LatchSteps, LatchEvent DEF Inv, Latch!Step
  <2>2. CASE Once!Step(t) /\ UNCHANGED <<latchVars, dictVars>>
    BY <2>2, Untouched, OnceCallers, OnceLeader, OnceEvent DEF Inv, Once!Step
  <2>3. CASE Dict!Step(t) /\ UNCHANGED <<latchVars, onceVars>>
    BY <2>3, Untouched, DictSteps DEF Inv
  <2>4. QED
    BY <1>2, <2>1, <2>2, <2>3 DEF Step
<1>3. ASSUME NEW t \in Threads, WakeUp(t) PROVE Inv'
  BY <1>3, Untouched, LatchEvent, OnceEvent DEF Inv, WakeUp
<1>4. CASE UNCHANGED vars
  BY <1>4, Untouched DEF Inv, vars
<1>5. QED
  BY <1>1, <1>2, <1>3, <1>4 DEF Next
-----------------------------------------------------------------------------
\* CountDownLatch: the event is set when the count has come down to zero, by
\* the one thread whose compare_and_set brought it there, and not before.
THEOREM LatchOpensAtZero == FairSpec => []EventFollowsCount
<1>1. Inv => EventFollowsCount
  BY DEF Inv, LatchInv
<1>2. QED
  BY <1>1, InitInv, NextInv, PTL DEF FairSpec

\* call_once: the function is called once, and every caller returns or raises
\* what that call gave.
THEOREM FunctionRunsOnce == FairSpec => []SameOutcomeForAll
<1>1. Inv => SameOutcomeForAll
  BY DEF Inv, OnceInv
<1>2. QED
  BY <1>1, InitInv, NextInv, PTL DEF FairSpec

\* AtomicDict.__init__: whoever returns from it finds a dictionary that one
\* thread has built completely.
THEOREM OneThreadBuilds == FairSpec => []InitialisedOnce
<1>1. Inv => InitialisedOnce
  BY DEF Inv, DictInv
<1>2. QED
  BY <1>1, InitInv, NextInv, PTL DEF FairSpec
-----------------------------------------------------------------------------
\* To its user, every step of the latch's event is one of an event, or none.
LEMMA LatchRefines ==
  ASSUME LatchInv, NEW t \in Threads,
         Latch!Call(t) \/ Latch!Step(t) \/ Latch!WakeUp(t)
  PROVE  [Latch!reached_zero!Abstract!Next]_(Latch!reached_zero!Abstract!vars)
<1> USE DEF Latch!reached_zero!Abstract!Next, Latch!reached_zero!Abstract!vars,
            Latch!reached_zero!Abstract!Set, Latch!reached_zero!Abstract!Wait,
            Latch!reached_zero!Abstract!Return, Latch!reached_zero!Waiting,
            Latch!reached_zero!Move, LatchInv, Uses
<1>1. CASE Latch!reached_zero!CallWait(t)
  BY <1>1 DEF Latch!reached_zero!CallWait
<1>2. CASE Latch!reached_zero!WaitUnlocks(t)
  BY <1>2 DEF Latch!reached_zero!WaitUnlocks
<1>3. CASE Latch!reached_zero!Store(t)
  BY <1>3 DEF Latch!reached_zero!Store
<1>4. CASE \/ Latch!reached_zero!SetLocks(t) \/ Latch!reached_zero!Broadcast(t)
           \/ Latch!reached_zero!SetUnlocks(t) \/ Latch!reached_zero!WaitLocks(t)
           \/ Latch!reached_zero!Test(t) \/ Latch!reached_zero!WakeUp(t)
           \/ Latch!reached_zero!CallSet(t) \/ UNCHANGED <<latchState, latchAt>>
  BY <1>4
     DEF Latch!reached_zero!SetLocks, Latch!reached_zero!Broadcast,
         Latch!reached_zero!SetUnlocks, Latch!reached_zero!WaitLocks,
         Latch!reached_zero!Test, Latch!reached_zero!WakeUp,
         Latch!reached_zero!CallSet
<1>5. QED
  BY <1>1, <1>2, <1>3, <1>4
     DEF Latch!Call, Latch!CallDecrement, Latch!CallWait, Latch!Step, Latch!Get,
         Latch!Cas, Latch!Return, Latch!InEvent, Latch!WakeUp, Latch!reached_zero!Step,
         Latch!eventVars

\* The same of call_once's event.
LEMMA OnceRefines ==
  ASSUME OnceInv, NEW t \in Threads,
         Once!Call(t) \/ Once!Step(t) \/ Once!WakeUp(t)
  PROVE  [Once!done!Abstract!Next]_(Once!done!Abstract!vars)
<1> USE DEF Once!done!Abstract!Next, Once!done!Abstract!vars,
            Once!done!Abstract!Set, Once!done!Abstract!Wait,
            Once!done!Abstract!Return, Once!done!Waiting,
            Once!done!Move, OnceInv, Uses
<1>1. CASE Once!done!CallWait(t)
  BY <1>1 DEF Once!done!CallWait
<1>2. CASE Once!done!WaitUnlocks(t)
  BY <1>2 DEF Once!done!WaitUnlocks
<1>3. CASE Once!done!Store(t)
  BY <1>3 DEF Once!done!Store
<1>4. CASE \/ Once!done!SetLocks(t) \/ Once!done!Broadcast(t)
           \/ Once!done!SetUnlocks(t) \/ Once!done!WaitLocks(t)
           \/ Once!done!Test(t) \/ Once!done!WakeUp(t)
           \/ Once!done!CallSet(t) \/ UNCHANGED <<onceState, onceAt>>
  BY <1>4
     DEF Once!done!SetLocks, Once!done!Broadcast,
         Once!done!SetUnlocks, Once!done!WaitLocks,
         Once!done!Test, Once!done!WakeUp,
         Once!done!CallSet
<1>5. QED
  BY <1>1, <1>2, <1>3, <1>4
     DEF Once!Call, Once!Step, Once!IsSet, Once!Elect, Once!Func, Once!LeaderWaits,
         Once!Read, Once!InEvent, Once!WakeUp, Once!done!Step, Once!eventVars

\* AtomicEvent, with its mutex, its flag and its condition variable, is an event
\* to CountDownLatch and to call_once: no wait() returns before the event is set,
\* whatever the wake-ups, and it is never unset.  (That a wait() then returns is
\* the rest of ImplementsEvent.)
THEOREM WaitsAreNotEarly ==
  FairSpec => Latch!reached_zero!Abstract!Safety /\ Once!done!Abstract!Safety
<1>1. Init => Latch!reached_zero!Abstract!Init /\ Once!done!Abstract!Init
  BY DEF Init, Latch!Init, Once!Init, Latch!reached_zero!Init, Once!done!Init,
         Latch!reached_zero!Abstract!Init, Once!done!Abstract!Init,
         Latch!reached_zero!Waiting, Once!done!Waiting
<1>2. ASSUME Inv, [Next]_vars
      PROVE  [Latch!reached_zero!Abstract!Next]_(Latch!reached_zero!Abstract!vars)
  <2>1. CASE UNCHANGED latchVars
    BY <2>1
       DEF latchVars, Latch!reached_zero!Abstract!vars, Latch!reached_zero!Waiting
  <2>2. CASE \E t \in Threads : Latch!Call(t) \/ Latch!Step(t) \/ Latch!WakeUp(t)
    BY <1>2, <2>2, LatchRefines DEF Inv
  <2>3. QED
    BY <1>2, <2>1, <2>2 DEF Next, Call, Step, WakeUp, vars
<1>3. ASSUME Inv, [Next]_vars
      PROVE  [Once!done!Abstract!Next]_(Once!done!Abstract!vars)
  <2>1. CASE UNCHANGED onceVars
    BY <2>1 DEF onceVars, Once!done!Abstract!vars, Once!done!Waiting
  <2>2. CASE \E t \in Threads : Once!Call(t) \/ Once!Step(t) \/ Once!WakeUp(t)
    BY <1>3, <2>2, OnceRefines DEF Inv
  <2>3. QED
    BY <1>3, <2>1, <2>2 DEF Next, Call, Step, WakeUp, vars
<1>4. QED
  BY <1>1, <1>2, <1>3, InitInv, NextInv, PTL
     DEF FairSpec, Latch!reached_zero!Abstract!Safety, Once!done!Abstract!Safety
=============================================================================
