----------------------------- MODULE AtomicCache -----------------------------
(***************************************************************************)
(* AtomicCache (atomic_cache.py): one key of the cache.  The thread whose  *)
(* compare_and_set puts a reservation in the cache runs `fill`; the others *)
(* wait on the reservation's event and look again.                         *)
(*                                                                         *)
(* The cache's AtomicDict is an atomic cell for the key (AtomicMap).       *)
(* Entries are told apart by identity: a reservation and the entry that    *)
(* replaces it carry the number of the fill they belong to.  An exception  *)
(* raised by `fill` is cached like a value, and not told apart from one.   *)
(***************************************************************************)
EXTENDS Integers, FiniteSets

CONSTANTS
  Threads,
  HasTtl,     \* was the cache built with a time to live?
  CanAbort,   \* may `fill` raise a BaseException, such as KeyboardInterrupt?
  MaxCalls,   \* bound on the number of calls
  NOT_FOUND, TOMBSTONE, NULL

ASSUME CacheAssumption == HasTtl \in BOOLEAN /\ CanAbort \in BOOLEAN /\ MaxCalls \in Nat
ASSUME ThreadsAssumption == IsFiniteSet(Threads)

VARIABLES
  cell,      \* what the dictionary holds for the key
  fills,     \* how many fills have been started
  ready,     \* the reservations whose event is set
  expired,   \* the fills whose entry has outlived the time to live
  calls,     \* how many calls have been made
  pc,        \* thread -> what it does next
  job,       \* thread -> "get", "invalidate" or NULL
  entry,     \* thread -> the local variable `entry`
  mine,      \* thread -> the fill it reserved, or 0
  out,       \* thread -> the fill whose value it returns, TOMBSTONE or NULL
  outdated,  \* history: the newest fill that was invalidated or has expired
  since      \* history: thread -> outdated when its call began

cacheVars == <<cell, fills, ready, expired>>
vars == <<cacheVars, calls, pc, job, entry, mine, out, outdated, since>>

Fills == 1..MaxCalls
Reserved(n) == <<"reserved", n>>
Filled(n) == <<"filled", n>>
Entries == {NOT_FOUND, TOMBSTONE} \cup {Reserved(n) : n \in Fills}
             \cup {Filled(n) : n \in Fills}

\* The placeholders are objects of their own.
ASSUME PlaceholdersDistinct ==
  /\ NOT_FOUND # TOMBSTONE
  /\ \A n \in Fills : {Reserved(n), Filled(n)} \cap {NOT_FOUND, TOMBSTONE} = {}
  /\ NULL \notin Fills /\ TOMBSTONE \notin Fills

IsReservation(e) == \E n \in Fills : e = Reserved(n)

\* Mutant: expiry is ignored.
NeverExpires(e) == e \in {NOT_FOUND, TOMBSTONE}

\* AtomicCache._not_contains; a reservation does not expire.
NotContains(e) ==
  e \in {NOT_FOUND, TOMBSTONE} \/ \E n \in expired : e = Filled(n)

Goto(t, label) == pc' = [pc EXCEPT ![t] = label]
Return(t, e) ==
  /\ out' = [out EXCEPT ![t] = IF e = TOMBSTONE THEN TOMBSTONE ELSE e[2]]
  /\ Goto(t, "return")
-----------------------------------------------------------------------------
Init ==
  /\ cell = NOT_FOUND
  /\ fills = 0
  /\ ready = {}
  /\ expired = {}
  /\ calls = 0
  /\ pc = [t \in Threads |-> "idle"]
  /\ job = [t \in Threads |-> NULL]
  /\ entry = [t \in Threads |-> NOT_FOUND]
  /\ mine = [t \in Threads |-> 0]
  /\ out = [t \in Threads |-> NULL]
  /\ outdated = 0
  /\ since = [t \in Threads |-> 0]

Call(t, j) ==
  /\ pc[t] = "idle"
  /\ calls < MaxCalls
  /\ calls' = calls + 1
  /\ job' = [job EXCEPT ![t] = j]
  /\ since' = [since EXCEPT ![t] = outdated]
  /\ Goto(t, "read")
  /\ UNCHANGED <<cacheVars, entry, mine, out, outdated>>

\* The get at the top of __getitem__'s and invalidate's loops.
Read(t) ==
  /\ pc[t] = "read"
  /\ entry' = [entry EXCEPT ![t] = cell]
  /\ Goto(t, job[t])
  /\ UNCHANGED <<cacheVars, calls, job, mine, out, outdated, since>>

\* __getitem__: fill, wait or return.
Check(t) ==
  /\ pc[t] = "get"
  /\ IF NotContains(entry[t]) THEN Goto(t, "reserve") /\ UNCHANGED out
     ELSE IF IsReservation(entry[t]) THEN Goto(t, "wait") /\ UNCHANGED out
     ELSE Return(t, entry[t])
  /\ UNCHANGED <<cacheVars, calls, job, entry, mine, outdated, since>>

\* _do_fill: the compare_and_set of the reservation.
Reserve(t) ==
  /\ pc[t] = "reserve"
  /\ \/ /\ cell = entry[t]
        /\ fills' = fills + 1
        /\ cell' = Reserved(fills + 1)
        /\ mine' = [mine EXCEPT ![t] = fills + 1]
        /\ Goto(t, "fill")
     \/ /\ cell # entry[t]
        /\ Goto(t, "reread")
        /\ UNCHANGED <<cell, fills, mine>>
  /\ UNCHANGED <<ready, expired, calls, job, entry, out, outdated, since>>

\* _do_fill lost the race: __getitem__ goes on with whatever is there now.
Reread(t) ==
  /\ pc[t] = "reread"
  /\ entry' = [entry EXCEPT ![t] = cell]
  /\ IF IsReservation(cell) THEN Goto(t, "wait") /\ UNCHANGED out
     ELSE Return(t, cell)
  /\ UNCHANGED <<cacheVars, calls, job, mine, outdated, since>>

\* `fill` returns, or raises an Exception that is cached.
Fill(t) ==
  /\ pc[t] = "fill"
  /\ Goto(t, "publish")
  /\ UNCHANGED <<cacheVars, calls, job, entry, mine, out, outdated, since>>

\* `fill` raises a BaseException, which _do_fill does not catch.
Abort(t) ==
  /\ pc[t] = "fill"
  /\ CanAbort
  /\ Goto(t, "return")
  /\ UNCHANGED <<cacheVars, calls, job, entry, mine, out, outdated, since>>

\* _do_fill: the compare_and_set of the filled entry, which raises
\* ExpectationFailed out of __getitem__ should it fail.
Publish(t) ==
  /\ pc[t] = "publish"
  /\ LET won == cell = Reserved(mine[t]) IN
     /\ cell' = IF won THEN Filled(mine[t]) ELSE cell
     /\ entry' = [entry EXCEPT ![t] = Filled(mine[t])]
     /\ Goto(t, IF won THEN "set_ready" ELSE "return")
  /\ UNCHANGED <<fills, ready, expired, calls, job, mine, out, outdated, since>>

\* _do_fill: wake those who wait on the reservation; __getitem__ returns.
SetReady(t) ==
  /\ pc[t] = "set_ready"
  /\ ready' = ready \cup {mine[t]}
  /\ Return(t, entry[t])
  /\ UNCHANGED <<cell, fills, expired, calls, job, entry, mine, outdated, since>>

\* Mutant: the entry is not read again after the wait.
WaitsOnce(t) ==
  /\ pc[t] = "wait"
  /\ entry[t][2] \in ready
  /\ Goto(t, job[t])
  /\ UNCHANGED <<cacheVars, calls, job, entry, mine, out, outdated, since>>

\* entry.ready.wait() returns and the loop starts again.
Wait(t) ==
  /\ pc[t] = "wait"
  /\ entry[t][2] \in ready
  /\ Goto(t, "read")
  /\ UNCHANGED <<cacheVars, calls, job, entry, mine, out, outdated, since>>

\* Mutant: an entry that is being filled is buried, too.
BuriesReservation(t) ==
  /\ pc[t] = "invalidate"
  /\ Goto(t, IF entry[t] = NOT_FOUND THEN "return" ELSE "bury")
  /\ UNCHANGED <<cacheVars, calls, job, entry, mine, out, outdated, since>>

\* invalidate: return, wait, or try to bury the entry.
Invalidate(t) ==
  /\ pc[t] = "invalidate"
  /\ Goto(t, IF entry[t] = NOT_FOUND THEN "return"
             ELSE IF IsReservation(entry[t]) THEN "wait" ELSE "bury")
  /\ UNCHANGED <<cacheVars, calls, job, entry, mine, out, outdated, since>>

Bury(t) ==
  /\ pc[t] = "bury"
  /\ \/ /\ cell = entry[t]
        /\ cell' = TOMBSTONE
        /\ outdated' = fills
        /\ Goto(t, "return")
     \/ /\ cell # entry[t]
        /\ Goto(t, "read")
        /\ UNCHANGED <<cell, outdated>>
  /\ UNCHANGED <<fills, ready, expired, calls, job, entry, mine, out, since>>

EndCall(t) ==
  /\ pc[t] = "return"
  /\ Goto(t, "idle")
  /\ job' = [job EXCEPT ![t] = NULL]
  /\ entry' = [entry EXCEPT ![t] = NOT_FOUND]
  /\ mine' = [mine EXCEPT ![t] = 0]
  /\ out' = [out EXCEPT ![t] = NULL]
  /\ since' = [since EXCEPT ![t] = 0]
  /\ UNCHANGED <<cacheVars, calls, outdated>>

\* time.monotonic() passes the expiry of the cached entry.
Expire ==
  /\ HasTtl
  /\ \E n \in Fills \ expired :
       /\ cell = Filled(n)
       /\ expired' = expired \cup {n}
       /\ outdated' = n
  /\ UNCHANGED <<cell, fills, ready, calls, pc, job, entry, mine, out, since>>

Step(t) ==
  \/ Read(t) \/ Check(t) \/ Reserve(t) \/ Reread(t) \/ Fill(t) \/ Publish(t)
  \/ SetReady(t) \/ Wait(t) \/ Invalidate(t) \/ Bury(t) \/ EndCall(t)

Next ==
  \/ \E t \in Threads :
       \/ \E j \in {"get", "invalidate"} : Call(t, j)
       \/ Step(t) \/ Abort(t)
  \/ Expire

Spec == Init /\ [][Next]_vars

\* Threads are scheduled, and `fill` terminates.
FairSpec == Spec /\ \A t \in Threads : WF_vars(Step(t))
-----------------------------------------------------------------------------
\* The variables keep their types.
TypeOK ==
  /\ cell \in Entries
  /\ fills \in 0..MaxCalls
  /\ ready \subseteq Fills
  /\ expired \subseteq Fills
  /\ calls \in 0..MaxCalls
  /\ pc \in [Threads -> {"idle", "read", "get", "invalidate", "reserve", "reread",
                         "fill", "publish", "set_ready", "wait", "bury", "return"}]
  /\ job \in [Threads -> {"get", "invalidate", NULL}]
  /\ entry \in [Threads -> Entries]
  /\ mine \in [Threads -> 0..MaxCalls]
  /\ out \in [Threads -> Fills \cup {TOMBSTONE, NULL}]
  /\ outdated \in 0..MaxCalls
  /\ since \in [Threads -> 0..MaxCalls]

\* _do_fill's "this CAS must not fail": nothing replaces a reservation but the
\* thread that made it, neither an invalidation nor an expiry.
PublishSucceeds ==
  TypeOK /\ \A t \in Threads : pc[t] = "publish" => cell = Reserved(mine[t])

\* A value that was invalidated, or had expired, before a __getitem__ began is
\* not returned by it, whichever of its paths it takes.
ReturnsFreshValue == \A t \in Threads : out[t] \in Fills => out[t] > since[t]

\* __getitem__ ":returns: The cached or newly computed value", never the
\* placeholder that invalidate leaves in the dictionary.
ReturnsCachedValue == \A t \in Threads : out[t] # TOMBSTONE

\* A fill that raised a BaseException has left its reservation in the cache.
Abandoned == \E n \in Fills : cell = Reserved(n) /\ \A t \in Threads : mine[t] # n

\* Every __getitem__ and every invalidate returns, unless a fill was abandoned:
\* whoever waits is woken and does not wait for the same reservation again.
CallsReturn == \A t \in Threads : pc[t] # "idle" ~> (pc[t] = "idle" \/ Abandoned)
=============================================================================
