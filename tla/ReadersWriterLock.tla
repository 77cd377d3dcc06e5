-------------------------- MODULE ReadersWriterLock --------------------------
(***************************************************************************)
(* ReadersWriterLock (locks.py): three counters under one RLock and its    *)
(* Condition.  Whatever a method does between taking the RLock and         *)
(* releasing it, or waiting on the Condition, is one action.  Condition    *)
(* wakes a thread only when it is notified.                                *)
(*                                                                         *)
(* The clients keep to the documented contract: every acquisition is       *)
(* released, by the thread that made it, and a thread that holds one side  *)
(* of the lock does not ask for the other.                                 *)
(***************************************************************************)
EXTENDS Integers, FiniteSets

CONSTANTS
  Threads, NoThread,
  MaxHolds   \* bound on nested acquisitions of a thread

ASSUME ThreadsAssumption == IsFiniteSet(Threads) /\ NoThread \notin Threads
ASSUME BoundsAssumption == MaxHolds \in Nat

VARIABLES
  readers,        \* _readers
  writer,         \* _writer
  acquisitions,   \* _writer_acquisitions
  reads, writes,  \* thread -> how often it holds either side
  pc              \* thread -> what it does next

vars == <<readers, writer, acquisitions, reads, writes, pc>>

Goto(t, label) == pc' = [pc EXCEPT ![t] = label]

Init ==
  /\ readers = 0
  /\ writer = NoThread
  /\ acquisitions = 0
  /\ reads = [t \in Threads |-> 0]
  /\ writes = [t \in Threads |-> 0]
  /\ pc = [t \in Threads |-> "run"]

\* A thread calls acquire(): the first time, or again on the side it holds.
Call(t) ==
  /\ pc[t] = "run"
  /\ \/ writes[t] = 0 /\ reads[t] < MaxHolds /\ Goto(t, "read")
     \/ reads[t] = 0 /\ writes[t] < MaxHolds /\ Goto(t, "write")
  /\ UNCHANGED <<readers, writer, acquisitions, reads, writes>>
-----------------------------------------------------------------------------
\* Mutant: a reader lets the writers that wait go first.
YieldsToWriters(t) ==
  /\ pc[t] = "read"
  /\ \/ /\ writer # NoThread \/ \E u \in Threads : pc[u] = "write_asleep"
        /\ Goto(t, "read_asleep")
        /\ UNCHANGED <<readers, reads>>
     \/ /\ writer = NoThread /\ \A u \in Threads : pc[u] # "write_asleep"
        /\ readers' = readers + 1
        /\ reads' = [reads EXCEPT ![t] = @ + 1]
        /\ Goto(t, "run")
  /\ UNCHANGED <<writer, acquisitions, writes>>

\* ReaderLock.acquire: sleep while there is a writer.
ReaderAcquire(t) ==
  /\ pc[t] = "read"
  /\ \/ /\ writer # NoThread
        /\ Goto(t, "read_asleep")
        /\ UNCHANGED <<readers, reads>>
     \/ /\ writer = NoThread
        /\ readers' = readers + 1
        /\ reads' = [reads EXCEPT ![t] = @ + 1]
        /\ Goto(t, "run")
  /\ UNCHANGED <<writer, acquisitions, writes>>

\* Mutant: a writer only looks for other writers.
IgnoresReaders(t) ==
  /\ pc[t] = "write"
  /\ \/ /\ writer = t
        /\ acquisitions' = acquisitions + 1
        /\ writes' = [writes EXCEPT ![t] = @ + 1]
        /\ Goto(t, "run")
        /\ UNCHANGED writer
     \/ /\ writer \notin {t, NoThread}
        /\ Goto(t, "write_asleep")
        /\ UNCHANGED <<writer, acquisitions, writes>>
     \/ /\ writer = NoThread
        /\ writer' = t
        /\ acquisitions' = 1
        /\ writes' = [writes EXCEPT ![t] = @ + 1]
        /\ Goto(t, "run")
  /\ UNCHANGED <<readers, reads>>

\* WriterLock.acquire: again by the writer, or sleep until the lock is free.
WriterAcquire(t) ==
  /\ pc[t] = "write"
  /\ \/ /\ writer = t
        /\ acquisitions' = acquisitions + 1
        /\ writes' = [writes EXCEPT ![t] = @ + 1]
        /\ Goto(t, "run")
        /\ UNCHANGED writer
     \/ /\ writer # t
        /\ readers > 0 \/ writer # NoThread
        /\ Goto(t, "write_asleep")
        /\ UNCHANGED <<writer, acquisitions, writes>>
     \/ /\ readers = 0 /\ writer = NoThread
        /\ writer' = t
        /\ acquisitions' = 1
        /\ writes' = [writes EXCEPT ![t] = @ + 1]
        /\ Goto(t, "run")
  /\ UNCHANGED <<readers, reads>>
-----------------------------------------------------------------------------
\* notify_all: whoever sleeps on the Condition tries again.
NotifyAll ==
  pc' = [t \in Threads |-> CASE pc[t] = "read_asleep" -> "read"
                             [] pc[t] = "write_asleep" -> "write"
                             [] OTHER -> pc[t]]

\* Mutant: the last reader but one notifies.
NotifiesEarly(t) ==
  /\ pc[t] = "run" /\ reads[t] > 0
  /\ readers' = readers - 1
  /\ reads' = [reads EXCEPT ![t] = @ - 1]
  /\ IF readers' = 1 THEN NotifyAll ELSE UNCHANGED pc
  /\ UNCHANGED <<writer, acquisitions, writes>>

ReaderRelease(t) ==
  /\ pc[t] = "run" /\ reads[t] > 0
  /\ readers' = readers - 1
  /\ reads' = [reads EXCEPT ![t] = @ - 1]
  /\ IF readers' = 0 THEN NotifyAll ELSE UNCHANGED pc
  /\ UNCHANGED <<writer, acquisitions, writes>>

WriterRelease(t) ==
  /\ pc[t] = "run" /\ writes[t] > 0
  /\ acquisitions' = acquisitions - 1
  /\ writes' = [writes EXCEPT ![t] = @ - 1]
  /\ IF acquisitions' = 0
     THEN writer' = NoThread /\ NotifyAll
     ELSE UNCHANGED <<writer, pc>>
  /\ UNCHANGED <<readers, reads>>

Acquire(t) == ReaderAcquire(t) \/ WriterAcquire(t)
Release(t) == ReaderRelease(t) \/ WriterRelease(t)

Next == \E t \in Threads : Call(t) \/ Acquire(t) \/ Release(t)

\* Threads that are awake get the RLock, and whoever holds the lock leaves it.
FairSpec ==
  Init /\ [][Next]_vars /\ \A t \in Threads : WF_vars(Acquire(t)) /\ WF_vars(Release(t))
-----------------------------------------------------------------------------
\* The acquisitions that are held, thread by thread.
Holds(held) == {h \in Threads \X (1..MaxHolds) : h[2] <= held[h[1]]}

\* A writer is alone with the lock, and the counters that say so are those of
\* the threads that hold it, however often they have entered it again: this is
\* what the assertions of acquire() and release() rest on.
WriterIsAlone ==
  /\ \A t, u \in Threads : writes[t] > 0 /\ t # u => writes[u] = 0 /\ reads[u] = 0
  /\ readers = Cardinality(Holds(reads))
  /\ \A t \in Threads : writer = t <=> writes[t] > 0
  /\ acquisitions = Cardinality(Holds(writes))

\* Nobody sleeps for nothing: a thread on the Condition has another one to wait
\* for, which will notify it when it leaves.  In particular a thread that
\* enters again what it holds never sleeps, and no notification is lost.
SleepersAreBlocked ==
  \A t \in Threads :
    /\ pc[t] = "read_asleep" =>
         \E u \in Threads \ {t} : writes[u] > 0
    /\ pc[t] = "write_asleep" =>
         \E u \in Threads \ {t} : writes[u] > 0 \/ reads[u] > 0
    /\ reads[t] > 0 \/ writes[t] > 0 => pc[t] \notin {"read_asleep", "write_asleep"}

\* Every acquire() returns, unless others keep coming in between: a stream of
\* new readers can starve a writer (acquire() only looks at _readers), and
\* nothing else can.
AcquireReturns ==
  \A t \in Threads :
    \/ []<><<\E u \in Threads \ {t} : Call(u)>>_vars
    \/ pc[t] # "run" ~> pc[t] = "run"
=============================================================================
