---------------------------- MODULE AtomicEvent ----------------------------
(***************************************************************************)
(* AtomicEvent (atomic_event.c): a flag, a mutex and a condition variable. *)
(* A client starts set() or wait() with CallSet or CallWait and goes on    *)
(* when its thread is "out" again; is_set() is a read of `state`.          *)
(*                                                                         *)
(* Waking up is modelled with all that mtx_t and cnd_t allow: cnd_wait     *)
(* releases the mutex and falls asleep in one step, may wake up for no     *)
(* reason, and competes for the mutex afterwards.                          *)
(***************************************************************************)
EXTENDS Naturals

CONSTANTS
  Threads, NoThread,
  MaxSpurious   \* bound on the number of spurious wake-ups

VARIABLES
  mutex,     \* the thread that holds it, or NoThread
  state,     \* 1 once the event is set
  at,        \* thread -> where it is in the event's code
  spurious   \* how many spurious wake-ups there have been

Waiting == {"wait", "test", "asleep", "woken", "passed"}

Move(t, from, to) == at[t] = from /\ at' = [at EXCEPT ![t] = to]
Acquire(t) == mutex = NoThread /\ mutex' = t
Release == mutex' = NoThread

\* AtomicEvent_init; the event may be set before it is shared.
Init ==
  /\ mutex = NoThread
  /\ state \in {0, 1}
  /\ at = [t \in Threads |-> "out"]
  /\ spurious = 0

CallSet(t) == Move(t, "out", "set") /\ UNCHANGED <<mutex, state, spurious>>
CallWait(t) == Move(t, "out", "wait") /\ UNCHANGED <<mutex, state, spurious>>
-----------------------------------------------------------------------------
\* AtomicEvent_Set: lock, store, broadcast, unlock.
SetLocks(t) == Move(t, "set", "store") /\ Acquire(t) /\ UNCHANGED <<state, spurious>>

Store(t) == Move(t, "store", "broadcast") /\ state' = 1 /\ UNCHANGED <<mutex, spurious>>

\* Mutant: cnd_signal for cnd_broadcast, one sleeper is woken.
Signals(t) ==
  /\ at[t] = "broadcast"
  /\ \/ \E u \in Threads :
          at[u] = "asleep" /\ at' = [at EXCEPT ![t] = "stored", ![u] = "woken"]
     \/ (\A u \in Threads : at[u] # "asleep") /\ Move(t, "broadcast", "stored")
  /\ UNCHANGED <<mutex, state, spurious>>

Broadcast(t) ==
  /\ at[t] = "broadcast"
  /\ at' = [u \in Threads |-> IF u = t THEN "stored"
                              ELSE IF at[u] = "asleep" THEN "woken" ELSE at[u]]
  /\ UNCHANGED <<mutex, state, spurious>>

SetUnlocks(t) == Move(t, "stored", "out") /\ Release /\ UNCHANGED <<state, spurious>>
-----------------------------------------------------------------------------
\* wait_gil_released: lock, and sleep for as long as the state is 0.
WaitLocks(t) ==
  /\ Move(t, "wait", "test") \/ Move(t, "woken", "test")
  /\ Acquire(t)
  /\ UNCHANGED <<state, spurious>>

Test(t) ==
  /\ \/ state = 1 /\ Move(t, "test", "passed") /\ UNCHANGED mutex
     \/ state = 0 /\ Move(t, "test", "asleep") /\ Release
  /\ UNCHANGED <<state, spurious>>

WaitUnlocks(t) == Move(t, "passed", "out") /\ Release /\ UNCHANGED <<state, spurious>>

WakeUp(t) ==
  /\ spurious < MaxSpurious
  /\ spurious' = spurious + 1
  /\ Move(t, "asleep", "woken")
  /\ UNCHANGED <<mutex, state>>
-----------------------------------------------------------------------------
\* What a thread does next when it is scheduled.
Step(t) ==
  \/ SetLocks(t) \/ Store(t) \/ Broadcast(t) \/ SetUnlocks(t)
  \/ WaitLocks(t) \/ Test(t) \/ WaitUnlocks(t)

Next == \E t \in Threads : Step(t) \/ WakeUp(t)

Abstract == INSTANCE Event WITH
              isSet <- state = 1,
              waiting <- {t \in Threads : at[t] \in Waiting}
=============================================================================
