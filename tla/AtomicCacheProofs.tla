-------------------------- MODULE AtomicCacheProofs --------------------------
(***************************************************************************)
(* AtomicCache never replaces somebody else's reservation and returns no   *)
(* value that was outdated when the call began, for every finite set of    *)
(* threads and any number of calls.                                        *)
(*                                                                         *)
(* The argument.  While a reservation is in the cell, only its thread      *)
(* changes the cell, so what is there belongs to the newest fill and is    *)
(* newer than anything outdated, unless it has itself expired.  A call     *)
(* that loses the race for a reservation has seen the cell change after it *)
(* began: what it finds there next was filled during the call.             *)
(***************************************************************************)
EXTENDS AtomicCache, FiniteSetTheorems, TLAPS

\* What a cell may hold when only fills after the s-th are fresh.
Fresh(e, s) == \A n \in Fills : e \in {Reserved(n), Filled(n)} => n > s

\* The calls that have not started a fill of their own.
Unfilled == {t \in Threads : pc[t] # "idle" /\ mine[t] = 0}

\* Every call fills at most once.
FillsAreCounted == fills + Cardinality(Unfilled) <= calls

CellState ==
  /\ outdated <= fills
  /\ \A n \in Fills :
       /\ cell \in {Reserved(n), Filled(n)} => n = fills
       /\ cell = Reserved(n) \/ (cell = Filled(n) /\ n \notin expired) => n > outdated

CallState(t) ==
  /\ pc[t] # "idle" => job[t] \in {"get", "invalidate"}
  /\ pc[t] = "idle" => mine[t] = 0
  /\ pc[t] \in {"read", "get", "invalidate", "reserve", "reread", "bury", "wait"} => mine[t] = 0
  /\ pc[t] # "return" => out[t] = NULL
  /\ entry[t] # NOT_FOUND => cell # NOT_FOUND
  /\ since[t] <= outdated
  /\ mine[t] # 0 => mine[t] <= fills /\ mine[t] > since[t]
  /\ \A u \in Threads : mine[t] # 0 /\ mine[u] = mine[t] => u = t
  /\ pc[t] \in {"fill", "publish"} => mine[t] # 0 /\ cell = Reserved(mine[t])
  /\ pc[t] = "set_ready" => mine[t] # 0 /\ entry[t] = Filled(mine[t])
  /\ pc[t] = "get" =>
       \A n \in Fills \ expired : entry[t] = Filled(n) => n > since[t]
  /\ pc[t] \in {"get", "reserve"} => cell = entry[t] \/ Fresh(cell, since[t])
  /\ pc[t] = "reserve" => \A n \in Fills : entry[t] # Reserved(n)
  /\ pc[t] = "reread" => cell # NOT_FOUND /\ Fresh(cell, since[t])
  /\ pc[t] = "bury" => \A n \in Fills : entry[t] # Reserved(n)

Inv ==
  /\ TypeOK
  /\ FillsAreCounted
  /\ CellState
  /\ \A t \in Threads : CallState(t)
  /\ ReturnsFreshValue

\* A step of thread t leaves the other threads alone.
Others(t) ==
  \A u \in Threads \ {t} :
    /\ pc'[u] = pc[u] /\ job'[u] = job[u] /\ entry'[u] = entry[u]
    /\ mine'[u] = mine[u] /\ out'[u] = out[u] /\ since'[u] = since[u]
-----------------------------------------------------------------------------
\* Entries are told apart by their kind and by their fill.
LEMMA EntryKinds ==
  ASSUME NEW m \in Fills, NEW n \in Fills
  PROVE  /\ Reserved(m) # Filled(n)
         /\ Reserved(m) = Reserved(n) => m = n
         /\ Filled(m) = Filled(n) => m = n
         /\ Reserved(m) \notin {NOT_FOUND, TOMBSTONE}
         /\ Filled(m) \notin {NOT_FOUND, TOMBSTONE}
         /\ Filled(m)[2] = m
         /\ Reserved(m) \in Entries /\ Filled(m) \in Entries
<1>1. Reserved(m) # Filled(n) /\ (Reserved(m) = Reserved(n) => m = n)
  BY DEF Reserved, Filled
<1>2. (Filled(m) = Filled(n) => m = n) /\ Filled(m)[2] = m
  BY DEF Filled
<1>3. Reserved(m) \notin {NOT_FOUND, TOMBSTONE} /\ Filled(m) \notin {NOT_FOUND, TOMBSTONE}
  BY PlaceholdersDistinct
<1>4. QED
  BY <1>1, <1>2, <1>3 DEF Entries

\* An entry is a placeholder, a reservation or filled.
LEMMA EntryCases ==
  ASSUME NEW e \in Entries, e \notin {NOT_FOUND, TOMBSTONE}
  PROVE  \E n \in Fills : e \in {Reserved(n), Filled(n)}
BY DEF Entries

\* What the types say of the counters.
LEMMA Counters ==
  ASSUME TypeOK
  PROVE  /\ MaxCalls \in Nat /\ fills \in Nat /\ calls \in Nat /\ outdated \in Nat
         /\ \A t \in Threads : mine[t] \in Nat /\ since[t] \in Nat
         /\ \A n \in Fills : n \in Nat /\ n # 0 /\ n <= MaxCalls
         /\ \A n \in Nat : n # 0 /\ n <= MaxCalls => n \in Fills
         /\ IsFiniteSet(Unfilled) /\ Cardinality(Unfilled) \in Nat
<1>1. Unfilled \in SUBSET Threads
  BY DEF Unfilled
<1>2. IsFiniteSet(Unfilled) /\ Cardinality(Unfilled) \in Nat
  BY <1>1, ThreadsAssumption, FS_Subset, FS_CardinalityType
<1>3. QED
  BY <1>2, CacheAssumption DEF TypeOK, Fills

\* A thread whose call does not start a fill is counted as before.
LEMMA CountKept ==
  ASSUME Inv, NEW t \in Threads, Others(t), UNCHANGED <<fills, calls>>,
         pc'[t] \notin {"idle"} /\ mine'[t] = mine[t] /\ pc[t] # "idle"
  PROVE  FillsAreCounted'
<1>1. Unfilled' = Unfilled
  BY DEF Unfilled, Others
<1>2. QED
  BY <1>1 DEF Inv, FillsAreCounted

\* The other threads' state is kept by a step that leaves the cell alone.
LEMMA OthersKept ==
  ASSUME Inv, NEW t \in Threads, Others(t), UNCHANGED <<cell, fills, expired, outdated>>,
         mine'[t] \in {mine[t], 0}, NEW u \in Threads \ {t}
  PROVE  CallState(u)'
<1>1. CallState(u)
  BY DEF Inv
<1>2. /\ pc'[u] = pc[u] /\ job'[u] = job[u] /\ entry'[u] = entry[u]
      /\ mine'[u] = mine[u] /\ out'[u] = out[u] /\ since'[u] = since[u]
  BY DEF Others
<1>3. \A v \in Threads : mine'[v] \in {mine[v], 0}
  BY DEF Others
<1>4. QED
  BY <1>1, <1>2, <1>3 DEF CallState, Fresh

\* A step of thread t that only moves within its call.
LEMMA QuietStep ==
  ASSUME Inv, NEW t \in Threads, Others(t), UNCHANGED <<cell, fills, expired, outdated, calls>>,
         pc[t] # "idle", pc'[t] # "idle", mine'[t] = mine[t], since'[t] = since[t],
         TypeOK', CallState(t)', out'[t] \in Fills => out'[t] > since[t]
  PROVE  Inv'
<1>1. FillsAreCounted'
  BY CountKept
<1>2. CellState'
  BY DEF Inv, CellState
<1>3. \A u \in Threads : CallState(u)'
  BY OthersKept
<1>4. ReturnsFreshValue'
  BY DEF Inv, ReturnsFreshValue, Others
<1>5. QED
  BY <1>1, <1>2, <1>3, <1>4 DEF Inv
-----------------------------------------------------------------------------
\* The cache starts empty.
LEMMA InitInv == Init => Inv
<1> SUFFICES ASSUME Init PROVE Inv
  OBVIOUS
<1>1. TypeOK
  BY CacheAssumption DEF Init, TypeOK, Entries, Fills
<1>2. Unfilled = {}
  BY DEF Init, Unfilled
<1>3. FillsAreCounted
  BY <1>2, FS_EmptySet DEF Init, FillsAreCounted
<1>4. CellState
  BY EntryKinds DEF Init, CellState
<1>5. \A t \in Threads : CallState(t)
  BY DEF Init, CallState
<1>6. ReturnsFreshValue
  BY PlaceholdersDistinct DEF Init, ReturnsFreshValue
<1>7. QED
  BY <1>1, <1>3, <1>4, <1>5, <1>6 DEF Inv

\* A call begins: it is counted.
LEMMA CallInv ==
  ASSUME Inv, NEW t \in Threads, NEW j \in {"get", "invalidate"}, Call(t, j)
  PROVE  Inv'
<1>1. /\ Others(t) /\ mine'[t] = mine[t] /\ mine[t] = 0 /\ out' = out
      /\ pc'[t] = "read" /\ since'[t] = outdated /\ job'[t] = j /\ entry' = entry
  BY DEF Inv, TypeOK, CallState, Call, Goto, Others
<1>2. TypeOK'
  BY Counters DEF Inv, TypeOK, Call, Goto, cacheVars
<1>3. FillsAreCounted'
  <2>1. Unfilled' = Unfilled \cup {t} /\ t \notin Unfilled
    BY <1>1 DEF Unfilled, Others, Call
  <2>2. Cardinality(Unfilled') = Cardinality(Unfilled) + 1
    BY <2>1, Counters, FS_AddElement DEF Inv
  <2>3. QED
    BY <2>2, Counters DEF Inv, FillsAreCounted, Call, cacheVars
<1>4. CellState'
  BY DEF Inv, CellState, Call, cacheVars
<1>5. CallState(t)'
  BY <1>1, Counters DEF Inv, CallState, Call, cacheVars
<1>6. \A u \in Threads : CallState(u)'
  BY <1>1, <1>5, OthersKept DEF Call, cacheVars
<1>7. ReturnsFreshValue'
  BY <1>1, PlaceholdersDistinct DEF Inv, ReturnsFreshValue, CallState, Call, Others
<1>8. QED
  BY <1>2, <1>3, <1>4, <1>6, <1>7 DEF Inv

\* What is read from the cell is newer than what was outdated before the call.
LEMMA ReadInv == ASSUME Inv, NEW t \in Threads, Read(t) PROVE Inv'
<1>1. /\ Others(t) /\ mine' = mine /\ out' = out /\ since' = since /\ job' = job
      /\ pc[t] = "read" /\ pc'[t] = job[t] /\ entry'[t] = cell
      /\ UNCHANGED <<cell, fills, expired, outdated, calls>>
  BY DEF Inv, TypeOK, Read, Goto, Others, cacheVars
<1>2. job[t] \in {"get", "invalidate"}
  BY <1>1 DEF Inv, CallState
<1>3. TypeOK'
  BY <1>2 DEF Inv, TypeOK, Read, Goto, cacheVars
<1>4. \A n \in Fills \ expired : cell = Filled(n) => n > since[t]
  BY Counters DEF Inv, CellState, CallState
<1>5. CallState(t)'
  BY <1>1, <1>2, <1>4 DEF Inv, CallState
<1>6. out'[t] \in Fills => out'[t] > since[t]
  BY <1>1 DEF Inv, ReturnsFreshValue
<1>7. QED
  BY <1>1, <1>2, <1>3, <1>5, <1>6, QuietStep

\* __getitem__ returns an entry that is there and has not expired.
LEMMA CheckInv == ASSUME Inv, NEW t \in Threads, Check(t) PROVE Inv'
<1>1. /\ Others(t) /\ mine' = mine /\ since' = since /\ job' = job /\ entry' = entry
      /\ pc[t] = "get" /\ UNCHANGED <<cell, fills, expired, outdated, calls>>
  BY DEF Inv, TypeOK, Check, Return, Goto, Others, cacheVars
<1>2. CallState(t) /\ out[t] = NULL /\ NULL \notin Fills
  BY <1>1, PlaceholdersDistinct DEF Inv, CallState
<1>3. CASE NotContains(entry[t]) \/ IsReservation(entry[t])
  <2>1. /\ out' = out /\ pc'[t] \in {"reserve", "wait"}
        /\ pc'[t] = "reserve" => NotContains(entry[t])
    BY <1>1, <1>3 DEF Inv, TypeOK, Check, Goto
  <2>2. TypeOK'
    BY <1>1, <1>3 DEF Inv, TypeOK, Check, Goto, cacheVars
  <2>3. pc'[t] = "reserve" => \A n \in Fills : entry[t] # Reserved(n)
    BY <2>1, EntryKinds DEF NotContains, Inv, TypeOK
  <2>4. CallState(t)'
    BY <1>1, <1>2, <2>1, <2>3 DEF CallState, Fresh
  <2>5. QED
    BY <1>1, <1>2, <2>1, <2>2, <2>4, QuietStep
<1>4. CASE ~NotContains(entry[t]) /\ ~IsReservation(entry[t])
  <2>1. PICK n \in Fills \ expired : entry[t] = Filled(n)
    BY <1>4, EntryCases DEF Inv, TypeOK, NotContains, IsReservation
  <2>2. out' = [out EXCEPT ![t] = n] /\ pc' = [pc EXCEPT ![t] = "return"]
    BY <1>1, <1>4, <2>1, EntryKinds DEF Check, Return, Goto
  <2>3. TypeOK'
    BY <1>1, <2>1, <2>2 DEF Inv, TypeOK, Check, cacheVars
  <2>4. CallState(t)' /\ n > since[t]
    BY <1>1, <1>2, <2>1, <2>2 DEF CallState, Inv, TypeOK
  <2>5. QED
    BY <1>1, <2>2, <2>3, <2>4, QuietStep DEF Inv, TypeOK
<1>5. QED
  BY <1>3, <1>4

\* The other threads' state is kept by a step that puts something fresh in a
\* cell that nobody else has reserved.
LEMMA CellMoved ==
  ASSUME Inv, NEW t \in Threads, Others(t), NEW u \in Threads \ {t},
         fills' \in Nat, outdated' \in Nat, fills <= fills', outdated <= outdated',
         expired \subseteq expired',
         cell' # NOT_FOUND, Fresh(cell', since[u]), pc[u] \notin {"fill", "publish"},
         mine'[t] = mine[t] \/ mine'[t] > fills
  PROVE  CallState(u)'
<1>1. CallState(u)
  BY DEF Inv
<1>2. /\ pc'[u] = pc[u] /\ job'[u] = job[u] /\ entry'[u] = entry[u]
      /\ mine'[u] = mine[u] /\ out'[u] = out[u] /\ since'[u] = since[u]
  BY DEF Others
<1>3. /\ fills \in Nat /\ outdated \in Nat /\ mine[u] \in Nat /\ since[u] \in Nat
  BY Counters DEF Inv
<1>4. \A v \in Threads : mine[u] # 0 /\ mine'[v] = mine[u] => v = u
  <2>1. \A v \in Threads \ {t} : mine'[v] = mine[v]
    BY DEF Others
  <2>2. mine[u] # 0 => mine[u] <= fills /\ mine[t] # mine[u]
    BY <1>1 DEF CallState
  <2>3. mine[u] # 0 => mine'[t] # mine[u]
    BY <1>3, <2>2
  <2>4. QED
    BY <1>1, <2>1, <2>3 DEF CallState
<1>5. since[u] <= outdated' /\ (mine[u] # 0 => mine[u] <= fills')
  BY <1>1, <1>3 DEF CallState
<1>6. pc[u] = "get" =>
        \A n \in Fills \ expired' : entry[u] = Filled(n) => n > since[u]
  BY <1>1 DEF CallState
<1>7. QED
  BY <1>1, <1>2, <1>4, <1>5, <1>6 DEF CallState, Fresh

\* Only a cell without a reservation is reserved, by a call that has not filled.
LEMMA ReserveInv == ASSUME Inv, NEW t \in Threads, Reserve(t) PROVE Inv'
<1>1. /\ Others(t) /\ since' = since /\ job' = job /\ entry' = entry /\ out' = out
      /\ pc[t] = "reserve" /\ UNCHANGED <<expired, outdated, calls>>
  BY DEF Inv, TypeOK, Reserve, Goto, Others
<1>2. CallState(t) /\ out[t] = NULL /\ NULL \notin Fills /\ mine[t] = 0
  BY <1>1, PlaceholdersDistinct DEF Inv, CallState
<1>3. CASE cell # entry[t] /\ Goto(t, "reread") /\ UNCHANGED <<cell, fills, mine>>
  <2>1. pc'[t] = "reread"
    BY <1>3 DEF Inv, TypeOK, Goto
  <2>2. TypeOK'
    BY <1>1, <1>3 DEF Inv, TypeOK, Goto, Reserve
  <2>3. CallState(t)'
    BY <1>1, <1>2, <1>3, <2>1 DEF CallState, Fresh
  <2>4. QED
    BY <1>1, <1>2, <1>3, <2>1, <2>2, <2>3, QuietStep
<1>4. CASE /\ cell = entry[t] /\ fills' = fills + 1 /\ cell' = Reserved(fills + 1)
           /\ mine' = [mine EXCEPT ![t] = fills + 1] /\ Goto(t, "fill")
  <2>1. /\ pc'[t] = "fill" /\ mine'[t] = fills + 1
        /\ \A n \in Fills : cell # Reserved(n)
    BY <1>1, <1>2, <1>4 DEF Inv, TypeOK, Goto, CallState
  <2>2. t \in Unfilled /\ Unfilled' = Unfilled \ {t}
    BY <1>1, <1>2, <2>1, Counters DEF Inv, Unfilled, Others
  <2>3. Cardinality(Unfilled') = Cardinality(Unfilled) - 1 /\ Cardinality(Unfilled') \in Nat
    BY <2>2, Counters, FS_RemoveElement, FS_CardinalityType DEF Inv
  <2>4. FillsAreCounted'
    BY <1>1, <1>4, <2>3, Counters DEF Inv, FillsAreCounted
  <2>5. fills + 1 \in Fills
    BY <1>1, <1>4, <2>3, <2>4, Counters DEF Inv, FillsAreCounted, TypeOK, Fills
  <2>6. cell' \in Entries /\ cell' # NOT_FOUND
    BY <1>4, <2>5, EntryKinds
  <2>7. fills + 1 \in 0..MaxCalls
    BY <2>5 DEF Fills
  <2>8. TypeOK'
    BY <1>1, <1>4, <2>6, <2>7 DEF Inv, TypeOK, Goto, Reserve
  <2>9. \A n \in Fills : cell' \in {Reserved(n), Filled(n)} => n = fills + 1
    BY <1>4, <2>5, EntryKinds
  <2>10. CellState'
    BY <1>1, <1>4, <2>9, Counters DEF Inv, CellState
  <2>11. \A u \in Threads : fills + 1 > since[u] /\ Fresh(cell', since[u])
    BY <2>9, Counters DEF Inv, CellState, CallState, Fresh
  <2>12. \A u \in Threads : mine[u] # fills + 1
    BY <2>5, Counters DEF Inv, CallState
  <2>13. CallState(t)'
    BY <1>1, <1>2, <1>4, <2>1, <2>5, <2>6, <2>11, <2>12, Counters
       DEF Inv, TypeOK, CallState, Others
  <2>14. \A u \in Threads \ {t} : pc[u] \notin {"fill", "publish"}
    BY <2>1, Counters DEF Inv, CallState, TypeOK
  <2>15. \A u \in Threads \ {t} : CallState(u)'
    BY <1>1, <1>4, <2>1, <2>6, <2>11, <2>14, CellMoved, Counters DEF Inv
  <2>16. ReturnsFreshValue'
    BY <1>1 DEF Inv, ReturnsFreshValue
  <2>17. QED
    BY <2>4, <2>8, <2>10, <2>13, <2>15, <2>16 DEF Inv
<1>5. QED
  BY <1>3, <1>4 DEF Reserve

\* What a call that lost the race finds was filled since it began.
LEMMA RereadInv == ASSUME Inv, NEW t \in Threads, Reread(t) PROVE Inv'
<1>1. /\ Others(t) /\ mine' = mine /\ since' = since /\ job' = job /\ entry'[t] = cell
      /\ pc[t] = "reread" /\ UNCHANGED <<cell, fills, expired, outdated, calls>>
  BY DEF Inv, TypeOK, Reread, Return, Goto, Others, cacheVars
<1>2. CallState(t) /\ out[t] = NULL /\ NULL \notin Fills
  BY <1>1, PlaceholdersDistinct DEF Inv, CallState
<1>3. CASE IsReservation(cell)
  <2>1. out' = out /\ pc'[t] = "wait"
    BY <1>3 DEF Inv, TypeOK, Reread, Goto
  <2>2. TypeOK'
    BY <1>1, <1>3 DEF Inv, TypeOK, Reread, Goto, cacheVars
  <2>3. CallState(t)'
    BY <1>1, <1>2, <2>1 DEF CallState
  <2>4. QED
    BY <1>1, <1>2, <2>1, <2>2, <2>3, QuietStep
<1>4. CASE ~IsReservation(cell)
  <2>1. PICK r \in Fills \cup {TOMBSTONE} :
          /\ out' = [out EXCEPT ![t] = r] /\ pc' = [pc EXCEPT ![t] = "return"]
          /\ r \in Fills => r > since[t]
    <3>1. CASE cell = TOMBSTONE
      BY <1>4, <3>1, PlaceholdersDistinct DEF Reread, Return, Goto
    <3>2. CASE cell # TOMBSTONE
      <4>1. PICK n \in Fills : cell = Filled(n)
        BY <1>1, <1>2, <1>4, <3>2, EntryCases DEF Inv, TypeOK, IsReservation, CallState
      <4>2. n > since[t]
        BY <1>1, <1>2, <4>1 DEF CallState, Fresh
      <4>3. out' = [out EXCEPT ![t] = n] /\ pc' = [pc EXCEPT ![t] = "return"]
        BY <1>4, <4>1, EntryKinds DEF Reread, Return, Goto
      <4>4. QED
        BY <4>2, <4>3
    <3>3. QED
      BY <3>1, <3>2
  <2>2. TypeOK'
    BY <1>1, <2>1 DEF Inv, TypeOK, Reread, cacheVars
  <2>3. CallState(t)'
    BY <1>1, <1>2, <2>1 DEF CallState, Inv, TypeOK
  <2>4. QED
    BY <1>1, <2>1, <2>2, <2>3, QuietStep DEF Inv, TypeOK
<1>5. QED
  BY <1>3, <1>4

\* The steps of a call that touch neither the cell nor the result.
LEMMA LocalInv ==
  ASSUME Inv, NEW t \in Threads, Fill(t) \/ Abort(t) \/ Wait(t) \/ Invalidate(t)
  PROVE  Inv'
<1>1. /\ Others(t) /\ mine' = mine /\ since' = since /\ job' = job /\ entry' = entry
      /\ out' = out /\ UNCHANGED <<cell, fills, expired, outdated, calls>>
  BY DEF Inv, TypeOK, Fill, Abort, Wait, Invalidate, Goto, Others, cacheVars
<1>2. CallState(t) /\ out[t] = NULL /\ NULL \notin Fills
  BY PlaceholdersDistinct DEF Inv, CallState, Fill, Abort, Wait, Invalidate
<1>3. \/ pc[t] = "fill" /\ pc'[t] \in {"publish", "return"}
      \/ pc[t] = "wait" /\ pc'[t] = "read"
      \/ pc[t] = "invalidate" /\ pc'[t] \in {"return", "wait", "bury"}
  BY DEF Inv, TypeOK, Fill, Abort, Wait, Invalidate, Goto
<1>4. pc'[t] = "bury" => \A n \in Fills : entry[t] # Reserved(n)
  BY <1>3 DEF Inv, TypeOK, Fill, Abort, Wait, Invalidate, Goto, IsReservation
<1>5. TypeOK'
  BY <1>1 DEF Inv, TypeOK, Fill, Abort, Wait, Invalidate, Goto, cacheVars
<1>6. CallState(t)'
  BY <1>1, <1>2, <1>3, <1>4 DEF CallState
<1>7. QED
  BY <1>1, <1>2, <1>3, <1>5, <1>6, QuietStep

\* The filled entry takes the place of its own reservation.
LEMMA PublishInv == ASSUME Inv, NEW t \in Threads, Publish(t) PROVE Inv'
<1>1. /\ Others(t) /\ mine' = mine /\ since' = since /\ job' = job /\ out' = out
      /\ pc[t] = "publish" /\ UNCHANGED <<fills, expired, outdated, calls>>
  BY DEF Inv, TypeOK, Publish, Goto, Others
<1>2. CallState(t) /\ out[t] = NULL /\ mine[t] # 0 /\ cell = Reserved(mine[t])
  BY <1>1 DEF Inv, CallState
<1>3. mine[t] \in Fills /\ mine[t] = fills /\ mine[t] > outdated
  BY <1>2, Counters DEF Inv, TypeOK, CellState, Fills
<1>4. /\ cell' = Filled(mine[t]) /\ entry'[t] = Filled(mine[t]) /\ pc'[t] = "set_ready"
      /\ entry' = [entry EXCEPT ![t] = Filled(mine[t])]
  BY <1>2 DEF Inv, TypeOK, Publish, Goto
<1>5. cell' \in Entries /\ cell' # NOT_FOUND
      /\ \A n \in Fills : cell' \in {Reserved(n), Filled(n)} => n = mine[t]
  BY <1>3, <1>4, EntryKinds
<1>6. TypeOK'
  BY <1>1, <1>3, <1>4, <1>5, EntryKinds DEF Inv, TypeOK, Publish, Goto
<1>7. FillsAreCounted'
  BY <1>1, <1>4, CountKept
<1>8. CellState'
  BY <1>1, <1>3, <1>5 DEF Inv, CellState
<1>9. \A u \in Threads : Fresh(cell', since[u])
  BY <1>3, <1>5, Counters DEF Inv, CallState, Fresh
<1>10. CallState(t)'
  BY <1>1, <1>2, <1>4, <1>5 DEF CallState
<1>11. \A u \in Threads \ {t} : pc[u] \notin {"fill", "publish"}
  <2> SUFFICES ASSUME NEW u \in Threads \ {t}, pc[u] \in {"fill", "publish"} PROVE FALSE
    OBVIOUS
  <2>1. mine[u] # 0 /\ cell = Reserved(mine[u])
    BY DEF Inv, CallState
  <2>2. mine[u] \in Fills
    BY <2>1, Counters DEF Inv, TypeOK, Fills
  <2>3. mine[u] = mine[t]
    BY <1>2, <1>3, <2>1, <2>2, EntryKinds
  <2>4. QED
    BY <1>2, <2>3 DEF CallState
<1>12. \A u \in Threads \ {t} : CallState(u)'
  BY <1>1, <1>5, <1>9, <1>11, CellMoved, Counters DEF Inv
<1>13. ReturnsFreshValue'
  BY <1>1 DEF Inv, ReturnsFreshValue
<1>14. QED
  BY <1>6, <1>7, <1>8, <1>10, <1>12, <1>13 DEF Inv

\* The call that has filled returns its own value.
LEMMA SetReadyInv == ASSUME Inv, NEW t \in Threads, SetReady(t) PROVE Inv'
<1>1. /\ Others(t) /\ mine' = mine /\ since' = since /\ job' = job /\ entry' = entry
      /\ pc[t] = "set_ready" /\ UNCHANGED <<cell, fills, expired, outdated, calls>>
  BY DEF Inv, TypeOK, SetReady, Return, Goto, Others
<1>2. CallState(t) /\ mine[t] \in Fills /\ entry[t] = Filled(mine[t])
  BY <1>1, Counters DEF Inv, CallState, TypeOK, Fills
<1>3. out' = [out EXCEPT ![t] = mine[t]] /\ pc' = [pc EXCEPT ![t] = "return"]
  BY <1>2, EntryKinds DEF SetReady, Return, Goto
<1>4. TypeOK'
  BY <1>1, <1>2, <1>3 DEF Inv, TypeOK, SetReady
<1>5. CallState(t)' /\ mine[t] > since[t]
  BY <1>1, <1>2, <1>3, Counters DEF Inv, CallState, TypeOK
<1>6. QED
  BY <1>1, <1>3, <1>4, <1>5, QuietStep DEF Inv, TypeOK

\* invalidate buries what it has read, which is no reservation.
LEMMA BuryInv == ASSUME Inv, NEW t \in Threads, Bury(t) PROVE Inv'
<1>1. /\ Others(t) /\ mine' = mine /\ since' = since /\ job' = job /\ entry' = entry
      /\ out' = out /\ pc[t] = "bury" /\ UNCHANGED <<fills, expired, calls>>
  BY DEF Inv, TypeOK, Bury, Goto, Others
<1>2. CallState(t) /\ out[t] = NULL /\ NULL \notin Fills /\ mine[t] = 0
  BY <1>1, PlaceholdersDistinct DEF Inv, CallState
<1>3. CASE cell # entry[t] /\ Goto(t, "read") /\ UNCHANGED <<cell, outdated>>
  <2>1. pc'[t] = "read"
    BY <1>3 DEF Inv, TypeOK, Goto
  <2>2. TypeOK'
    BY <1>1, <1>3 DEF Inv, TypeOK, Goto, Bury
  <2>3. CallState(t)'
    BY <1>1, <1>2, <1>3, <2>1 DEF CallState
  <2>4. QED
    BY <1>1, <1>2, <1>3, <2>1, <2>2, <2>3, QuietStep
<1>4. CASE cell = entry[t] /\ cell' = TOMBSTONE /\ outdated' = fills /\ Goto(t, "return")
  <2>1. pc'[t] = "return" /\ \A n \in Fills : cell # Reserved(n)
    BY <1>1, <1>2, <1>4 DEF Inv, TypeOK, Goto, CallState
  <2>2. cell' \in Entries /\ cell' # NOT_FOUND
        /\ \A n \in Fills : cell' \notin {Reserved(n), Filled(n)}
    BY <1>4, EntryKinds, PlaceholdersDistinct DEF Entries
  <2>3. TypeOK'
    BY <1>1, <1>4, <2>2 DEF Inv, TypeOK, Goto, Bury
  <2>4. FillsAreCounted'
    BY <1>1, <2>1, CountKept
  <2>5. CellState' /\ outdated <= fills
    BY <1>1, <1>4, <2>2, Counters DEF Inv, CellState
  <2>6. CallState(t)'
    BY <1>1, <1>2, <1>4, <2>1, <2>2, <2>5, Counters DEF Inv, CallState
  <2>7. \A u \in Threads \ {t} : pc[u] \notin {"fill", "publish"}
    BY <2>1, Counters DEF Inv, CallState, TypeOK
  <2>8. \A u \in Threads \ {t} : CallState(u)'
    BY <1>1, <1>4, <2>2, <2>5, <2>7, CellMoved, Counters DEF Inv, Fresh
  <2>9. ReturnsFreshValue'
    BY <1>1 DEF Inv, ReturnsFreshValue
  <2>10. QED
    BY <2>3, <2>4, <2>5, <2>6, <2>8, <2>9 DEF Inv
<1>5. QED
  BY <1>3, <1>4 DEF Bury

\* A call that is over is no longer counted.
LEMMA EndCallInv == ASSUME Inv, NEW t \in Threads, EndCall(t) PROVE Inv'
<1>1. /\ Others(t) /\ pc'[t] = "idle" /\ mine'[t] = 0 /\ out'[t] = NULL /\ since'[t] = 0
      /\ entry'[t] = NOT_FOUND /\ UNCHANGED <<cell, fills, expired, outdated, calls>>
  BY DEF Inv, TypeOK, EndCall, Goto, Others, cacheVars
<1>2. TypeOK'
  BY Counters DEF Inv, TypeOK, EndCall, Goto, cacheVars, Entries
<1>3. FillsAreCounted'
  <2>1. Unfilled' \in SUBSET Unfilled
    BY <1>1 DEF Unfilled, Others
  <2>2. Cardinality(Unfilled') <= Cardinality(Unfilled) /\ Cardinality(Unfilled') \in Nat
    BY <2>1, Counters, FS_Subset, FS_CardinalityType DEF Inv
  <2>3. QED
    BY <1>1, <2>2, Counters DEF Inv, FillsAreCounted
<1>4. CellState'
  BY <1>1 DEF Inv, CellState
<1>5. CallState(t)'
  BY <1>1, Counters DEF Inv, CallState
<1>6. \A u \in Threads : CallState(u)'
  BY <1>1, <1>5, OthersKept
<1>7. ReturnsFreshValue'
  BY <1>1, PlaceholdersDistinct DEF Inv, ReturnsFreshValue, Others
<1>8. QED
  BY <1>2, <1>3, <1>4, <1>6, <1>7 DEF Inv

\* The entry that expires belongs to the newest fill.
LEMMA ExpireInv == ASSUME Inv, Expire PROVE Inv'
<1>1. PICK n \in Fills : /\ cell = Filled(n) /\ expired' = expired \cup {n}
                         /\ outdated' = n
  BY DEF Expire
<1>2. UNCHANGED <<cell, fills, ready, calls, pc, job, entry, mine, out, since>>
  BY DEF Expire
<1>3. n = fills /\ outdated <= n
  BY <1>1 DEF Inv, CellState
<1>4. TypeOK'
  BY <1>1, <1>2, CacheAssumption DEF Inv, TypeOK, Fills
<1>5. FillsAreCounted'
  BY <1>2 DEF Inv, FillsAreCounted, Unfilled
<1>6. CellState'
  BY <1>1, <1>2, <1>3, EntryKinds, Counters DEF Inv, CellState
<1>7. \A t \in Threads : since[t] <= n
  BY <1>1, <1>3, Counters DEF Inv, CallState
<1>8. \A t \in Threads : CallState(t)'
  BY <1>1, <1>2, <1>7 DEF Inv, CallState, Fresh
<1>9. ReturnsFreshValue'
  BY <1>2 DEF Inv, ReturnsFreshValue
<1>10. QED
  BY <1>4, <1>5, <1>6, <1>8, <1>9 DEF Inv

\* Every step keeps the invariant.
LEMMA NextInv == Inv /\ [Next]_vars => Inv'
<1> SUFFICES ASSUME Inv, [Next]_vars PROVE Inv'
  OBVIOUS
<1>1. ASSUME NEW t \in Threads, Step(t) PROVE Inv'
  BY <1>1, ReadInv, CheckInv, ReserveInv, RereadInv, LocalInv, PublishInv, SetReadyInv,
     BuryInv, EndCallInv DEF Step
<1>2. ASSUME NEW t \in Threads, Abort(t) \/ \E j \in {"get", "invalidate"} : Call(t, j)
      PROVE  Inv'
  BY <1>2, LocalInv, CallInv
<1>3. CASE UNCHANGED vars
  BY <1>3
     DEF vars, cacheVars, Inv, TypeOK, FillsAreCounted, Unfilled, CellState, CallState,
         Fresh, ReturnsFreshValue
<1>4. QED
  BY <1>1, <1>2, <1>3, ExpireInv DEF Next
-----------------------------------------------------------------------------
\* _do_fill's second compare_and_set, the one "that must not fail", does not:
\* neither an invalidation nor an expiry nor another fill replaces a reservation.
THEOREM FillsArePublished == Spec => []PublishSucceeds
<1>1. Inv => PublishSucceeds
  BY DEF Inv, PublishSucceeds, CallState
<1>2. QED
  BY <1>1, InitInv, NextInv, PTL DEF Spec

\* __getitem__ returns no value that was invalidated, or had expired, before it
\* was called, though it does not look at the expiry again after a lost race.
THEOREM ValuesAreFresh == Spec => []ReturnsFreshValue
<1>1. Inv => ReturnsFreshValue
  BY DEF Inv
<1>2. QED
  BY <1>1, InitInv, NextInv, PTL DEF Spec
=============================================================================
