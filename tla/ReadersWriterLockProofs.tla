---------------------- MODULE ReadersWriterLockProofs ----------------------
(***************************************************************************)
(* The counters of ReadersWriterLock are exact and nobody sleeps for       *)
(* nothing, for every finite set of threads and every depth of nesting.    *)
(*                                                                         *)
(* The invariant adds to what is to be shown which side of the lock a      *)
(* thread can be asking for.  A counter is the number of acquisitions that *)
(* are held (Holds), so a step of it adds or removes one element of a      *)
(* finite set, and a counter that is not zero names a thread that will     *)
(* notify.                                                                 *)
(***************************************************************************)
EXTENDS ReadersWriterLock, FiniteSetTheorems, TLAPS

Labels == {"run", "read", "write", "read_asleep", "write_asleep"}

TypeOK ==
  /\ writer \in Threads \cup {NoThread}
  /\ reads \in [Threads -> 0..MaxHolds]
  /\ writes \in [Threads -> 0..MaxHolds]
  /\ pc \in [Threads -> Labels]

\* A thread holds, or asks for, one side of the lock.
OneSide(t) ==
  /\ reads[t] = 0 \/ writes[t] = 0
  /\ pc[t] \in {"read", "read_asleep"} => writes[t] = 0 /\ reads[t] < MaxHolds
  /\ pc[t] \in {"write", "write_asleep"} => reads[t] = 0 /\ writes[t] < MaxHolds

Inv ==
  /\ TypeOK
  /\ \A t \in Threads : OneSide(t)
  /\ WriterIsAlone
  /\ SleepersAreBlocked
-----------------------------------------------------------------------------
\* The acquisitions held are finitely many.
LEMMA HoldsFinite ==
  ASSUME NEW held
  PROVE  IsFiniteSet(Holds(held)) /\ Cardinality(Holds(held)) \in Nat
<1>1. IsFiniteSet(Threads \X (1..MaxHolds))
  <2>1. IsFiniteSet(1..MaxHolds)
    BY BoundsAssumption, FS_Interval
  <2>2. QED
    BY <2>1, ThreadsAssumption, FS_Product
<1>2. Holds(held) \in SUBSET (Threads \X (1..MaxHolds))
  BY DEF Holds
<1>3. IsFiniteSet(Holds(held))
  BY <1>1, <1>2, FS_Subset
<1>4. QED
  BY <1>3, FS_CardinalityType

\* One more acquisition.
LEMMA HoldsMore ==
  ASSUME NEW held \in [Threads -> 0..MaxHolds], NEW t \in Threads,
         held[t] < MaxHolds
  PROVE  Cardinality(Holds([held EXCEPT ![t] = @ + 1])) = Cardinality(Holds(held)) + 1
<1> DEFINE h == <<t, held[t] + 1>>
<1>1. h \notin Holds(held) /\ h \in Threads \X (1..MaxHolds)
  BY BoundsAssumption DEF Holds
<1>2. Holds([held EXCEPT ![t] = @ + 1]) = Holds(held) \cup {h}
  BY BoundsAssumption DEF Holds
<1>3. QED
  BY <1>1, <1>2, HoldsFinite, FS_AddElement

\* One less.
LEMMA HoldsLess ==
  ASSUME NEW held \in [Threads -> 0..MaxHolds], NEW t \in Threads, held[t] > 0
  PROVE  Cardinality(Holds([held EXCEPT ![t] = @ - 1])) = Cardinality(Holds(held)) - 1
<1> DEFINE h == <<t, held[t]>>
<1>1. h \in Holds(held)
  BY BoundsAssumption DEF Holds
<1>2. Holds([held EXCEPT ![t] = @ - 1]) = Holds(held) \ {h}
  BY BoundsAssumption DEF Holds
<1>3. QED
  BY <1>1, <1>2, HoldsFinite, FS_RemoveElement

\* A counter is positive exactly when some thread holds that side.
LEMMA HoldsSome ==
  ASSUME NEW held \in [Threads -> 0..MaxHolds]
  PROVE  Cardinality(Holds(held)) > 0 <=> \E t \in Threads : held[t] > 0
<1>1. Holds(held) # {} <=> \E t \in Threads : held[t] > 0
  <2>1. ASSUME NEW t \in Threads, held[t] > 0 PROVE <<t, held[t]>> \in Holds(held)
    BY <2>1, BoundsAssumption DEF Holds
  <2>2. ASSUME NEW h \in Holds(held) PROVE h[1] \in Threads /\ held[h[1]] > 0
    BY BoundsAssumption DEF Holds
  <2>3. QED
    BY <2>1, <2>2
<1>2. QED
  BY <1>1, HoldsFinite, FS_EmptySet

\* Who the writer is, and what a thread that sleeps holds.
LEMMA Facts ==
  ASSUME Inv
  PROVE  /\ MaxHolds \in Nat
         /\ \A t \in Threads : reads[t] \in Nat /\ writes[t] \in Nat
         /\ writer # NoThread => writer \in Threads /\ writes[writer] > 0
         /\ writer = NoThread => \A t \in Threads : writes[t] = 0
         /\ \A t \in Threads : pc[t] \in {"read_asleep", "write_asleep"} =>
              reads[t] = 0 /\ writes[t] = 0
<1>1. \A t \in Threads : reads[t] \in Nat /\ writes[t] \in Nat
  BY BoundsAssumption DEF Inv, TypeOK
<1>2. \A t \in Threads : t # NoThread
  BY ThreadsAssumption
<1>3. \A t \in Threads : writer = t <=> writes[t] > 0
  BY DEF Inv, WriterIsAlone
<1>4. writer # NoThread => writer \in Threads /\ writes[writer] > 0
  BY <1>3 DEF Inv, TypeOK
<1>5. ASSUME writer = NoThread, NEW t \in Threads PROVE writes[t] = 0
  BY <1>1, <1>2, <1>3, <1>5
<1>6. ASSUME NEW t \in Threads, pc[t] \in {"read_asleep", "write_asleep"}
      PROVE  reads[t] = 0 /\ writes[t] = 0
  <2>1. ~(reads[t] > 0) /\ ~(writes[t] > 0)
    BY <1>6 DEF Inv, SleepersAreBlocked
  <2>2. QED
    BY <1>1, <2>1
<1>7. QED
  BY <1>1, <1>4, <1>5, <1>6, BoundsAssumption

\* When the counter of the one writer is 1, so is its thread's own.
LEMMA WriterCounts ==
  ASSUME Inv, NEW t \in Threads, writes[t] > 0
  PROVE  acquisitions - 1 = 0 <=> writes[t] - 1 = 0
<1> DEFINE less == [writes EXCEPT ![t] = @ - 1]
<1>1. less \in [Threads -> 0..MaxHolds]
  BY BoundsAssumption DEF Inv, TypeOK
<1>2. Cardinality(Holds(less)) = acquisitions - 1
  BY HoldsLess DEF Inv, TypeOK, WriterIsAlone
<1>3. Cardinality(Holds(less)) > 0 <=> less[t] > 0
  BY <1>1, HoldsSome DEF Inv, TypeOK, WriterIsAlone
<1>4. Cardinality(Holds(less)) \in Nat /\ acquisitions \in Nat
  BY HoldsFinite DEF Inv, WriterIsAlone
<1>5. writes[t] \in Nat /\ less[t] = writes[t] - 1
  BY BoundsAssumption DEF Inv, TypeOK
<1> HIDE DEF less
<1>6. QED
  BY <1>2, <1>3, <1>4, <1>5
-----------------------------------------------------------------------------
\* The lock starts free.
LEMMA InitInv == Init => Inv
<1> SUFFICES ASSUME Init PROVE Inv
  OBVIOUS
<1> DEFINE none == [t \in Threads |-> 0]
<1>1. TypeOK /\ \A t \in Threads : OneSide(t)
  BY BoundsAssumption DEF Init, TypeOK, OneSide, Labels
<1>2. Cardinality(Holds(none)) = 0
  BY BoundsAssumption, HoldsSome, HoldsFinite
<1>3. WriterIsAlone
  BY <1>2, ThreadsAssumption DEF Init, WriterIsAlone
<1>4. SleepersAreBlocked
  BY DEF Init, SleepersAreBlocked
<1>5. QED
  BY <1>1, <1>3, <1>4 DEF Inv

\* A call of acquire() keeps the invariant.
LEMMA CallInv == ASSUME Inv, NEW t \in Threads, Call(t) PROVE Inv'
<1>1. TypeOK' /\ \A u \in Threads : OneSide(u)'
  BY DEF Inv, TypeOK, OneSide, Labels, Call, Goto
<1>2. WriterIsAlone'
  BY DEF Inv, WriterIsAlone, Holds, Call
<1>3. SleepersAreBlocked'
  BY DEF Inv, TypeOK, SleepersAreBlocked, Call, Goto
<1>4. QED
  BY <1>1, <1>2, <1>3 DEF Inv

\* ReaderLock.acquire keeps the invariant: the writer that a reader goes to
\* sleep for is another thread.
LEMMA ReaderAcquireInv == ASSUME Inv, NEW t \in Threads, ReaderAcquire(t) PROVE Inv'
<1>1. writes[t] = 0 /\ reads[t] < MaxHolds /\ reads[t] \in Nat /\ MaxHolds \in Nat
  BY Facts DEF Inv, OneSide, ReaderAcquire
<1>2. CASE writer # NoThread /\ Goto(t, "read_asleep") /\ UNCHANGED <<readers, reads>>
  <2>1. PICK u \in Threads \ {t} : writes[u] > 0
    BY <1>1, <1>2, Facts
  <2>2. reads[t] = 0
    BY <2>1 DEF Inv, WriterIsAlone
  <2>3. TypeOK' /\ \A v \in Threads : OneSide(v)'
    BY <1>1, <1>2 DEF Inv, TypeOK, OneSide, Labels, ReaderAcquire, Goto
  <2>4. WriterIsAlone'
    BY <1>2 DEF Inv, WriterIsAlone, Holds, ReaderAcquire
  <2>5. pc' = [pc EXCEPT ![t] = "read_asleep"] /\ UNCHANGED <<reads, writes>>
    BY <1>2 DEF ReaderAcquire, Goto
  <2>6. SleepersAreBlocked'
    BY <1>1, <2>1, <2>2, <2>5 DEF Inv, TypeOK, SleepersAreBlocked
  <2>7. QED
    BY <2>3, <2>4, <2>6 DEF Inv
<1>3. CASE /\ writer = NoThread /\ readers' = readers + 1
           /\ reads' = [reads EXCEPT ![t] = @ + 1] /\ Goto(t, "run")
  <2>1. readers' = Cardinality(Holds(reads'))
    BY <1>1, <1>3, HoldsMore DEF Inv, TypeOK, WriterIsAlone
  <2>2. \A u \in Threads : writes[u] = 0
    BY <1>3, Facts
  <2>3. /\ pc' = [pc EXCEPT ![t] = "run"] /\ reads' = [reads EXCEPT ![t] = @ + 1]
        /\ UNCHANGED <<writer, writes, acquisitions>>
    BY <1>3 DEF ReaderAcquire, Goto
  <2>4. TypeOK' /\ \A v \in Threads : OneSide(v)'
    BY <1>1, <2>2, <2>3 DEF Inv, TypeOK, OneSide, Labels
  <2>5. WriterIsAlone'
    BY <2>1, <2>2, <2>3 DEF Inv, WriterIsAlone
  <2>6. SleepersAreBlocked'
    BY <2>2, <2>3, Facts DEF Inv, TypeOK, SleepersAreBlocked
  <2>7. QED
    BY <2>4, <2>5, <2>6 DEF Inv
<1>4. QED
  BY <1>2, <1>3 DEF ReaderAcquire

\* WriterLock.acquire keeps the invariant: the counter that a writer goes to
\* sleep for is some other thread's, and the writer that enters again is counted.
LEMMA WriterAcquireInv == ASSUME Inv, NEW t \in Threads, WriterAcquire(t) PROVE Inv'
<1>1. reads[t] = 0 /\ writes[t] < MaxHolds /\ writes[t] \in Nat /\ MaxHolds \in Nat
  BY Facts DEF Inv, OneSide, WriterAcquire
<1>2. reads' = reads /\ readers' = readers /\ readers = Cardinality(Holds(reads))
  BY DEF Inv, WriterIsAlone, WriterAcquire
<1>3. readers > 0 <=> \E u \in Threads : reads[u] > 0
  BY <1>2, HoldsSome DEF Inv, TypeOK
<1>4. CASE /\ writer # t /\ (readers > 0 \/ writer # NoThread)
           /\ Goto(t, "write_asleep") /\ UNCHANGED <<writer, acquisitions, writes>>
  <2>1. writes[t] = 0
    BY <1>1, <1>4 DEF Inv, WriterIsAlone
  <2>2. PICK u \in Threads \ {t} : writes[u] > 0 \/ reads[u] > 0
    BY <1>1, <1>3, <1>4, Facts
  <2>3. pc' = [pc EXCEPT ![t] = "write_asleep"]
    BY <1>4 DEF Goto
  <2>4. TypeOK' /\ \A v \in Threads : OneSide(v)'
    BY <1>1, <1>2, <1>4, <2>1, <2>3 DEF Inv, TypeOK, OneSide, Labels
  <2>5. WriterIsAlone'
    BY <1>2, <1>4 DEF Inv, WriterIsAlone, Holds
  <2>6. SleepersAreBlocked'
    BY <1>1, <1>2, <1>4, <2>1, <2>2, <2>3 DEF Inv, TypeOK, SleepersAreBlocked
  <2>7. QED
    BY <2>4, <2>5, <2>6 DEF Inv
<1>5. CASE /\ \/ writer = t /\ acquisitions' = acquisitions + 1
              \/ writer = NoThread /\ readers = 0 /\ acquisitions' = 1
           /\ writer' = t
           /\ writes' = [writes EXCEPT ![t] = @ + 1] /\ Goto(t, "run")
  <2>1. \A u \in Threads \ {t} : writes[u] = 0 /\ reads[u] = 0
    <3>1. CASE writer = t
      BY <3>1 DEF Inv, WriterIsAlone
    <3>2. CASE writer = NoThread /\ readers = 0
      BY <1>3, <3>2, Facts
    <3>3. QED
      BY <1>5, <3>1, <3>2
  <2>2. writer = NoThread => acquisitions = 0
    <3>1. writer = NoThread => ~ \E u \in Threads : writes[u] > 0
      BY Facts
    <3>2. Cardinality(Holds(writes)) \in Nat
      BY HoldsFinite
    <3>3. acquisitions > 0 <=> \E u \in Threads : writes[u] > 0
      BY HoldsSome DEF Inv, TypeOK, WriterIsAlone
    <3>4. QED
      BY <3>1, <3>2, <3>3 DEF Inv, WriterIsAlone
  <2>3. acquisitions' = Cardinality(Holds(writes'))
    <3>1. acquisitions' = acquisitions + 1
      BY <1>5, <2>2
    <3>2. Cardinality(Holds(writes')) = Cardinality(Holds(writes)) + 1
      BY <1>1, <1>5, HoldsMore DEF Inv, TypeOK
    <3>3. QED
      BY <3>1, <3>2 DEF Inv, WriterIsAlone
  <2>4. \A u \in Threads : writes'[u] > 0 <=> u = t
    BY <1>1, <1>5, <2>1 DEF Inv, TypeOK
  <2>5. pc' = [pc EXCEPT ![t] = "run"]
    BY <1>5 DEF Goto
  <2>6. TypeOK' /\ \A v \in Threads : OneSide(v)'
    BY <1>1, <1>2, <1>5, <2>5 DEF Inv, TypeOK, OneSide, Labels
  <2>7. \A u \in Threads \ {t} : writes'[u] = 0
    BY <1>5, <2>1 DEF Inv, TypeOK
  <2>8. WriterIsAlone'
    BY <1>2, <1>5, <2>1, <2>3, <2>4, <2>7 DEF WriterIsAlone
  <2>9. SleepersAreBlocked'
    <3> SUFFICES ASSUME NEW u \in Threads, u # t,
                        pc'[u] \in {"read_asleep", "write_asleep"}
                 PROVE  writes'[t] > 0 /\ reads'[u] = 0 /\ writes'[u] = 0
      BY <1>2, <2>4, <2>5, <2>7 DEF Inv, TypeOK, SleepersAreBlocked
    <3> QED
      BY <1>2, <2>1, <2>4, <2>7
  <2>10. QED
    BY <2>6, <2>8, <2>9 DEF Inv
<1>6. QED
  BY <1>4, <1>5 DEF WriterAcquire

\* Once everybody is woken, nobody sleeps, and each is still on its own side.
LEMMA NotifyAllWakes ==
  ASSUME TypeOK, NotifyAll
  PROVE  /\ pc' \in [Threads -> {"run", "read", "write"}]
         /\ \A u \in Threads :
              /\ pc'[u] = "read" => pc[u] \in {"read", "read_asleep"}
              /\ pc'[u] = "write" => pc[u] \in {"write", "write_asleep"}
BY DEF TypeOK, NotifyAll, Labels

\* What a release does to the types and sides of the threads.
LEMMA ReleaseSides ==
  ASSUME Inv, NotifyAll \/ UNCHANGED pc, writer' \in {writer, NoThread},
         reads' \in [Threads -> 0..MaxHolds], writes' \in [Threads -> 0..MaxHolds],
         \A u \in Threads : reads'[u] <= reads[u] /\ writes'[u] <= writes[u]
  PROVE  TypeOK' /\ \A u \in Threads : OneSide(u)'
<1>1. TypeOK'
  BY NotifyAllWakes DEF Inv, TypeOK, Labels
<1>2. ASSUME NEW u \in Threads PROVE OneSide(u)'
  <2>1. /\ reads'[u] \in Nat /\ writes'[u] \in Nat
        /\ reads[u] \in Nat /\ writes[u] \in Nat /\ MaxHolds \in Nat
        /\ reads'[u] <= reads[u] /\ writes'[u] <= writes[u]
    BY Facts, BoundsAssumption
  <2>2. /\ pc'[u] \in {"read", "read_asleep"} => pc[u] \in {"read", "read_asleep"}
        /\ pc'[u] \in {"write", "write_asleep"} => pc[u] \in {"write", "write_asleep"}
    BY NotifyAllWakes DEF Inv
  <2>3. OneSide(u)
    BY DEF Inv
  <2>4. QED
    BY <2>1, <2>2, <2>3 DEF OneSide
<1>3. QED
  BY <1>1, <1>2

\* ReaderLock.release keeps the invariant: while a reader is left, the writers
\* that sleep have it to wait for, and the last one notifies them.
LEMMA ReaderReleaseInv == ASSUME Inv, NEW t \in Threads, ReaderRelease(t) PROVE Inv'
<1>1. readers' = Cardinality(Holds(reads'))
  BY HoldsLess DEF Inv, TypeOK, WriterIsAlone, ReaderRelease
<1>2. /\ reads' \in [Threads -> 0..MaxHolds]
      /\ \A u \in Threads : reads'[u] <= reads[u] /\ (reads[u] = 0 => reads'[u] = 0)
      /\ \A u \in Threads \ {t} : reads'[u] = reads[u]
      /\ UNCHANGED <<writer, acquisitions, writes>>
  BY BoundsAssumption DEF Inv, TypeOK, ReaderRelease
<1>3. TypeOK' /\ \A u \in Threads : OneSide(u)'
  <2>1. \A u \in Threads : writes'[u] <= writes[u]
    BY <1>2, Facts
  <2>2. QED
    BY <1>2, <2>1, ReleaseSides DEF ReaderRelease, Inv, TypeOK
<1>4. WriterIsAlone'
  BY <1>1, <1>2 DEF Inv, WriterIsAlone
<1>5. SleepersAreBlocked'
  <2>1. CASE readers' = 0
    BY <2>1, NotifyAllWakes DEF Inv, ReaderRelease, SleepersAreBlocked
  <2>2. CASE readers' # 0
    <3>1. PICK v \in Threads : reads'[v] > 0
      BY <1>1, <1>2, <2>2, HoldsSome, HoldsFinite
    <3>2. ASSUME NEW u \in Threads, pc[u] \in {"read_asleep", "write_asleep"}
          PROVE  /\ reads[u] = 0 /\ writes[u] = 0 /\ u # v
                 /\ reads'[u] = 0 /\ writes'[u] = 0
      BY <1>2, <3>1, <3>2, Facts
    <3>3. pc' = pc /\ writes' = writes
      BY <2>2 DEF ReaderRelease
    <3>4. QED
      BY <3>1, <3>2, <3>3 DEF Inv, SleepersAreBlocked
  <2>3. QED
    BY <2>1, <2>2
<1>6. QED
  BY <1>3, <1>4, <1>5 DEF Inv

\* WriterLock.release keeps the invariant: the counter reaches zero with the
\* writer's last acquisition, and then everybody is notified.
LEMMA WriterReleaseInv == ASSUME Inv, NEW t \in Threads, WriterRelease(t) PROVE Inv'
<1>1. acquisitions' = Cardinality(Holds(writes'))
  BY HoldsLess DEF Inv, TypeOK, WriterIsAlone, WriterRelease
<1>2. /\ writes' \in [Threads -> 0..MaxHolds]
      /\ writes'[t] = writes[t] - 1
      /\ \A u \in Threads : writes'[u] <= writes[u]
      /\ \A u \in Threads \ {t} : writes'[u] = 0 /\ writes[u] = 0 /\ reads[u] = 0
      /\ UNCHANGED <<readers, reads>>
  BY BoundsAssumption DEF Inv, TypeOK, WriterIsAlone, WriterRelease
<1>3. acquisitions' = 0 <=> writes'[t] = 0
  BY <1>2, WriterCounts DEF WriterRelease
<1>4. TypeOK' /\ \A u \in Threads : OneSide(u)'
  <2>1. \A u \in Threads : reads'[u] <= reads[u]
    BY <1>2, Facts
  <2>2. QED
    BY <1>2, <2>1, ReleaseSides DEF WriterRelease, Inv, TypeOK
<1>5. writes'[t] \in Nat /\ writer = t /\ reads[t] = 0
  BY <1>2, BoundsAssumption, Facts DEF Inv, WriterIsAlone, OneSide, WriterRelease
<1>6. \A u \in Threads : writer' = u <=> writes'[u] > 0
  <2>1. acquisitions' # 0 <=> writes'[t] > 0
    BY <1>3, <1>5
  <2>2. IF acquisitions' = 0 THEN writer' = NoThread ELSE writer' = t
    BY <1>5 DEF WriterRelease
  <2>3. QED
    BY <1>2, <2>1, <2>2, ThreadsAssumption
<1>7. WriterIsAlone'
  BY <1>1, <1>2, <1>5, <1>6 DEF Inv, WriterIsAlone
<1>8. SleepersAreBlocked'
  <2>1. CASE acquisitions' = 0
    BY <2>1, NotifyAllWakes DEF Inv, WriterRelease, SleepersAreBlocked
  <2>2. CASE acquisitions' # 0
    <3>1. pc' = pc /\ pc[t] = "run"
      BY <2>2 DEF WriterRelease
    <3>2. writes'[t] > 0
      BY <1>3, <1>5, <2>2
    <3>3. QED
      BY <1>2, <3>1, <3>2, Facts DEF Inv, SleepersAreBlocked
  <2>3. QED
    BY <2>1, <2>2
<1>9. QED
  BY <1>4, <1>7, <1>8 DEF Inv

\* Every step keeps the invariant.
LEMMA NextInv == Inv /\ [Next]_vars => Inv'
<1> SUFFICES ASSUME Inv, [Next]_vars PROVE Inv'
  OBVIOUS
<1>1. CASE Next
  BY <1>1, CallInv, ReaderAcquireInv, WriterAcquireInv, ReaderReleaseInv,
     WriterReleaseInv DEF Next, Acquire, Release
<1>2. CASE UNCHANGED vars
  BY <1>2 DEF Inv, TypeOK, OneSide, WriterIsAlone, SleepersAreBlocked, Holds, vars
<1>3. QED
  BY <1>1, <1>2
-----------------------------------------------------------------------------
\* ReaderLock and WriterLock exclude each other, and _readers, _writer and
\* _writer_acquisitions are what the threads really hold: no assertion of
\* acquire() or release() fails, however many threads nest however deep.
THEOREM LockIsExclusive == FairSpec => []WriterIsAlone
<1>1. Inv => WriterIsAlone
  BY DEF Inv
<1>2. QED
  BY <1>1, InitInv, NextInv, PTL DEF FairSpec

\* No notify_all is missing from release(): whoever waits on the Condition waits
\* for another thread that holds the lock.
THEOREM NoNotificationIsLost == FairSpec => []SleepersAreBlocked
<1>1. Inv => SleepersAreBlocked
  BY DEF Inv
<1>2. QED
  BY <1>1, InitInv, NextInv, PTL DEF FairSpec
=============================================================================
