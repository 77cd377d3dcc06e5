-------------------------- MODULE AtomicRefProofs --------------------------
(***************************************************************************)
(* AtomicRef drops or hands over the cell's reference exactly once, for    *)
(* every finite set of threads, every set of objects and any number of     *)
(* calls, until a set replaces an object other than its current one.       *)
(*                                                                         *)
(* The argument.  The references to an object are counted as the elements  *)
(* of a set, so that a step of one thread changes their number by what it  *)
(* changes in that thread's share (CountChanges).  Each action then moves  *)
(* as many references between the cell, its thread and its call as it adds *)
(* to the count.  For that, the locals of a call must be what they were    *)
(* made for (CallState).                                                   *)
(***************************************************************************)
EXTENDS AtomicRef, FiniteSetTheorems, TLAPS

Labels == {"idle", "load", "try_incref", "set", "release", "cas", "cas_won", "cas_lost",
           "swap"}

\* TypeOK, but for the sign of the counts, which follows from the balance.
Types ==
  /\ reference \in Objects /\ rc \in [Objects -> Int] /\ mismatched \in BOOLEAN
  /\ held \in [Threads -> [Objects -> Nat]]
  /\ calls \in 0..MaxCalls
  /\ pc \in [Threads -> Labels]
  /\ op \in [Threads -> Calls \cup {NULL}]
  /\ loaded \in [Threads -> Objects \cup {NULL}]
  /\ current \in [Threads -> Objects \cup {NULL}]
  /\ expected \in [Threads -> Objects \cup {NULL}]

\* Which call a thread can be in where, and its locals.
CallState(t) ==
  /\ pc[t] = "idle" <=> op[t] = NULL
  /\ pc[t] \in {"load", "try_incref"} => op[t].name \in {"get", "set"}
  /\ pc[t] \in {"set", "release"} => op[t].name = "set" /\ current[t] \in Objects
  /\ pc[t] = "try_incref" => loaded[t] \in Objects
  /\ pc[t] \in {"cas", "cas_won", "cas_lost"} => op[t].name = "cas"
  /\ pc[t] = "swap" => op[t].name = "swap"

Is(x, o) == IF x = o THEN 1 ELSE 0

Balanced(o) ==
  rc[o] = Is(reference, o) + Cardinality(References([t \in Threads |-> held[t][o]]))
          + Cardinality(References([t \in Threads |-> Owned(t, o)]))

Inv ==
  /\ Types
  /\ \A t \in Threads : CallState(t)
  /\ ~mismatched => \A o \in Objects : Balanced(o)

\* A step of thread t leaves the other threads alone.
Others(t) ==
  \A u \in Threads \ {t} :
    /\ pc'[u] = pc[u] /\ op'[u] = op[u] /\ held'[u] = held[u]
    /\ loaded'[u] = loaded[u] /\ current'[u] = current[u]
-----------------------------------------------------------------------------
\* The numbers from one to n.
LEMMA UpTo ==
  ASSUME NEW n \in Nat
  PROVE  IsFiniteSet(1..n) /\ Cardinality(1..n) = n
<1>1. /\ IsFiniteSet(1..n)
      /\ Cardinality(1..n) = IF 1 > n THEN 0 ELSE n - 1 + 1
  BY FS_Interval
<1> QED
  BY <1>1

\* A reference is a thread and a number.
LEMMA InReferences ==
  ASSUME NEW f, NEW r
  PROVE  r \in References(f) <=> \E u \in Threads : \E n \in 1..f[u] : r = <<u, n>>
  BY DEF References

\* The references of finitely many threads are finitely many.
LEMMA ReferencesFinite ==
  ASSUME NEW f \in [Threads -> Nat]
  PROVE  IsFiniteSet(References(f)) /\ Cardinality(References(f)) \in Nat
<1> DEFINE S == {{t} \X (1..f[t]) : t \in Threads}
           m == [t \in Threads |-> {t} \X (1..f[t])]
<1>1. m \in Surjection(Threads, S)
  BY DEF Surjection
<1>2. IsFiniteSet(S)
  BY <1>1, RefAssumption, FS_Surjection
<1>3. \A T \in S : IsFiniteSet(T)
  <2> SUFFICES ASSUME NEW t \in Threads PROVE IsFiniteSet({t} \X (1..f[t]))
    OBVIOUS
  <2>1. IsFiniteSet({t})
    BY FS_Singleton
  <2>2. IsFiniteSet(1..f[t])
    BY UpTo
  <2> QED
    BY <2>1, <2>2, FS_Product
<1>4. IsFiniteSet(References(f))
  BY <1>2, <1>3, FS_UNION DEF References
<1> QED
  BY <1>4, FS_CardinalityType

\* The references of one thread and those of the others.
LEMMA ReferencesSplit ==
  ASSUME NEW f \in [Threads -> Nat], NEW t \in Threads
  PROVE  LET rest == {r \in References(f) : r[1] # t} IN
         Cardinality(rest) \in Nat /\ Cardinality(References(f)) = Cardinality(rest) + f[t]
<1> DEFINE rest == {r \in References(f) : r[1] # t}
           own == {t} \X (1..f[t])
<1>1. IsFiniteSet(rest) /\ Cardinality(rest) \in Nat
  BY ReferencesFinite, FS_Subset, FS_CardinalityType
<1>2. IsFiniteSet(own) /\ Cardinality(own) = f[t]
  <2>1. /\ IsFiniteSet({t}) /\ Cardinality({t}) = 1
        /\ IsFiniteSet(1..f[t]) /\ Cardinality(1..f[t]) = f[t]
    BY FS_Singleton, UpTo
  <2>2. IsFiniteSet(own) /\ Cardinality(own) = Cardinality({t}) * Cardinality(1..f[t])
    BY <2>1, FS_Product
  <2> QED
    BY <2>1, <2>2
<1>3. References(f) = rest \cup own
  <2>1. \A r : r \in own <=> \E n \in 1..f[t] : r = <<t, n>>
    OBVIOUS
  <2> QED
    BY <2>1, InReferences
<1>4. rest \cap own = {}
  OBVIOUS
<1> HIDE DEF rest, own
<1>5. Cardinality(rest \cup own) = Cardinality(rest) + Cardinality(own) - Cardinality(rest \cap own)
  BY <1>1, <1>2, FS_Union
<1>6. Cardinality(References(f)) = Cardinality(rest) + f[t]
  BY <1>1, <1>2, <1>3, <1>4, <1>5, FS_EmptySet
<1> QED
  BY <1>1, <1>6 DEF rest

\* When one thread's share changes, so does the number of references.
LEMMA CountChanges ==
  ASSUME NEW f \in [Threads -> Nat], NEW g \in [Threads -> Nat], NEW t \in Threads,
         \A u \in Threads \ {t} : g[u] = f[u]
  PROVE  Cardinality(References(g)) = Cardinality(References(f)) + g[t] - f[t]
<1>1. {r \in References(f) : r[1] # t} = {r \in References(g) : r[1] # t}
  <2>1. ASSUME NEW r, r[1] # t PROVE r \in References(f) <=> r \in References(g)
    BY <2>1, InReferences
  <2> QED
    BY <2>1
<1> DEFINE rest == {r \in References(f) : r[1] # t}
<1>2. Cardinality(rest) \in Nat /\ Cardinality(References(f)) = Cardinality(rest) + f[t]
  BY ReferencesSplit
<1>3. Cardinality(References(g)) = Cardinality(rest) + g[t]
  BY <1>1, ReferencesSplit
<1> HIDE DEF rest
<1>4. f[t] \in Nat /\ g[t] \in Nat
  OBVIOUS
<1> QED
  BY <1>2, <1>3, <1>4

\* A call in progress owns finitely many references.
LEMMA OwnedType ==
  ASSUME NEW t, NEW o
  PROVE  Owned(t, o) \in Nat /\ Owned(t, o)' \in Nat
  BY DEF Owned

\* What a call is made of.
LEMMA CallTypes ==
  ASSUME NEW c \in Calls
  PROVE  /\ c # NULL
         /\ c.name \in {"get", "set", "cas", "swap"}
         /\ c.name # "get" => c.desired \in Objects
         /\ c.name = "cas" => c.expected \in Objects
  BY OpsAssumption, RefAssumption DEF Calls

\* The counts balance after a step of thread t if they did before and the step
\* adds to the count what it adds to the cell, to the thread and to its call.
LEMMA BalanceStep ==
  ASSUME Inv, Types', NEW t \in Threads, Others(t), ~mismatched,
         NEW o \in Objects,
         rc'[o] = rc[o] + Is(reference', o) - Is(reference, o)
                  + held'[t][o] - held[t][o] + Owned(t, o)' - Owned(t, o)
  PROVE  Balanced(o)'
<1> DEFINE h == [u \in Threads |-> held[u][o]]
           hh == [u \in Threads |-> held'[u][o]]
           w == [u \in Threads |-> Owned(u, o)]
           ww == [u \in Threads |-> Owned(u, o)']
<1>1. h \in [Threads -> Nat] /\ hh \in [Threads -> Nat]
  BY DEF Inv, Types
<1>2. w \in [Threads -> Nat] /\ ww \in [Threads -> Nat]
  BY OwnedType
<1>3. \A u \in Threads \ {t} : hh[u] = h[u] /\ ww[u] = w[u]
  BY DEF Others, Owned
<1>4. rc[o] = Is(reference, o) + Cardinality(References(h)) + Cardinality(References(w))
  BY DEF Inv, Balanced
<1>5. /\ h[t] = held[t][o] /\ hh[t] = held'[t][o]
      /\ w[t] = Owned(t, o) /\ ww[t] = Owned(t, o)'
  OBVIOUS
<1> HIDE DEF h, hh, w, ww
<1>6. /\ Cardinality(References(hh)) = Cardinality(References(h)) + hh[t] - h[t]
      /\ Cardinality(References(ww)) = Cardinality(References(w)) + ww[t] - w[t]
  BY <1>1, <1>2, <1>3, CountChanges
<1>7. /\ Cardinality(References(h)) \in Nat /\ Cardinality(References(w)) \in Nat
      /\ h[t] \in Nat /\ hh[t] \in Nat /\ w[t] \in Nat /\ ww[t] \in Nat
      /\ Is(reference, o) \in Nat /\ Is(reference', o) \in Nat
  BY <1>1, <1>2, ReferencesFinite DEF Is
<1>8. rc'[o] = Is(reference', o) + Cardinality(References(hh)) + Cardinality(References(ww))
  BY <1>4, <1>5, <1>6, <1>7
<1> QED
  BY <1>8 DEF Balanced, References, Is, hh, ww

\* The balance implies that no count is negative.
LEMMA InvSuffices ==
  Inv => RefcountsBalance
<1> SUFFICES ASSUME Inv PROVE RefcountsBalance
  OBVIOUS
<1>1. ASSUME ~mismatched, NEW o \in Objects
      PROVE  /\ rc[o] >= 0
             /\ rc[o] = (IF reference = o THEN 1 ELSE 0) + Holders(o)
                        + Cardinality(References([t \in Threads |-> Owned(t, o)]))
  <2>1. [t \in Threads |-> held[t][o]] \in [Threads -> Nat]
    BY DEF Inv, Types
  <2>2. [t \in Threads |-> Owned(t, o)] \in [Threads -> Nat]
    BY OwnedType
  <2>3. /\ Cardinality(References([t \in Threads |-> held[t][o]])) \in Nat
        /\ Cardinality(References([t \in Threads |-> Owned(t, o)])) \in Nat
    BY <2>1, <2>2, ReferencesFinite
  <2>4. Balanced(o)
    BY <1>1 DEF Inv
  <2> QED
    BY <2>3, <2>4 DEF Balanced, Holders, Is
<1>2. TypeOK
  BY <1>1 DEF Inv, Types, TypeOK, Labels
<1> QED
  BY <1>1, <1>2 DEF RefcountsBalance

\* Every thread starts with a reference to every object.
LEMMA InitIsGood ==
  Init => Inv
<1> SUFFICES ASSUME Init PROVE Inv
  OBVIOUS
<1>1. Types
  <2>1. Cardinality(Threads) \in Nat
    BY RefAssumption, FS_CardinalityType
  <2> QED
    <3>1. reference \in Objects /\ rc \in [Objects -> Int]
      BY <2>1 DEF Init
    <3>2. held \in [Threads -> [Objects -> Nat]] /\ calls \in 0..MaxCalls
      BY OpsAssumption DEF Init
    <3>3. /\ pc \in [Threads -> Labels] /\ op \in [Threads -> Calls \cup {NULL}]
          /\ loaded \in [Threads -> Objects \cup {NULL}]
          /\ current \in [Threads -> Objects \cup {NULL}]
          /\ expected \in [Threads -> Objects \cup {NULL}]
      BY DEF Init, Labels
    <3>4. mismatched \in BOOLEAN
      BY DEF Init
    <3> QED
      BY <3>1, <3>2, <3>3, <3>4 DEF Types
<1>2. \A t \in Threads : CallState(t)
  BY DEF Init, CallState
<1>3. ASSUME NEW o \in Objects PROVE Balanced(o)
  <2> DEFINE h == [t \in Threads |-> held[t][o]]
             w == [t \in Threads |-> Owned(t, o)]
  <2>1. h = [t \in Threads |-> 1]
    BY DEF Init
  <2>2. w = [t \in Threads |-> 0]
    BY DEF Init, Owned
  <2>3. References(h) = Threads \X (1..1)
    <3> HIDE DEF h
    <3>1. \A t \in Threads : h[t] = 1
      BY <2>1
    <3>2. \A r : r \in References(h) <=> \E u \in Threads : \E n \in 1..1 : r = <<u, n>>
      BY <3>1, InReferences
    <3> QED
      BY <3>2
  <2>4. Cardinality(Threads \X (1..1)) = Cardinality(Threads) /\ Cardinality(Threads) \in Nat
    <3>1. IsFiniteSet(1..1) /\ Cardinality(1..1) = 1
      BY UpTo
    <3>2. Cardinality(Threads \X (1..1)) = Cardinality(Threads) * Cardinality(1..1)
      BY <3>1, RefAssumption, FS_Product
    <3>3. Cardinality(Threads) \in Nat
      BY RefAssumption, FS_CardinalityType
    <3> QED
      BY <3>1, <3>2, <3>3
  <2>5. References(w) = {}
    <3> HIDE DEF w
    <3>1. \A t \in Threads : w[t] = 0
      BY <2>2
    <3> QED
      BY <3>1, InReferences
  <2>6. rc[o] = Cardinality(Threads) + Is(reference, o)
    BY DEF Init, Is
  <2>7. Is(reference, o) \in Nat
    BY DEF Is
  <2>8. Cardinality({}) = 0
    BY FS_EmptySet
  <2> HIDE DEF h, w
  <2>9. rc[o] = Is(reference, o) + Cardinality(References(h)) + Cardinality(References(w))
    BY <2>3, <2>4, <2>5, <2>6, <2>7, <2>8
  <2> QED
    BY <2>9 DEF Balanced, h, w
<1> QED
  BY <1>1, <1>2, <1>3 DEF Inv
-----------------------------------------------------------------------------
\* A step of thread t preserves the invariant if it keeps the types and t's part
\* of it, and the counts follow.
LEMMA StepSuffices ==
  ASSUME Inv, Types', NEW t \in Threads, Others(t), CallState(t)',
         mismatched => mismatched',
         ~mismatched' => \A o \in Objects :
           rc'[o] = rc[o] + Is(reference', o) - Is(reference, o)
                    + held'[t][o] - held[t][o] + Owned(t, o)' - Owned(t, o)
  PROVE  Inv'
<1>1. \A u \in Threads : CallState(u)'
  BY DEF Inv, CallState, Others
<1>2. ~mismatched' => \A o \in Objects : Balanced(o)'
  <2> SUFFICES ASSUME ~mismatched', NEW o \in Objects PROVE Balanced(o)'
    OBVIOUS
  <2> QED
    BY BalanceStep
<1> QED
  BY <1>1, <1>2 DEF Inv

\* A call begins; all but get make a reference for the cell.
LEMMA CallStep ==
  ASSUME Inv, NEW t \in Threads, NEW call \in Calls, Call(t, call)
  PROVE  Inv'
<1>1. /\ call # NULL /\ call.name \in {"get", "set", "cas", "swap"}
      /\ call.name # "get" => call.desired \in Objects
  BY CallTypes
<1>2. /\ pc[t] = "idle" /\ calls < MaxCalls /\ calls' = calls + 1
      /\ op' = [op EXCEPT ![t] = call]
      /\ rc' = IF call.name = "get" THEN rc ELSE [rc EXCEPT ![call.desired] = @ + 1]
      /\ pc' = [pc EXCEPT ![t] = IF call.name \in {"get", "set"} THEN "load" ELSE call.name]
      /\ UNCHANGED <<reference, held, loaded, current, expected, mismatched>>
  BY DEF Call, Goto
<1>3. /\ pc \in [Threads -> Labels] /\ op \in [Threads -> Calls \cup {NULL}]
      /\ rc \in [Objects -> Int] /\ calls \in 0..MaxCalls
      /\ held[t] \in [Objects -> Nat]
  BY DEF Inv, Types
<1>4. /\ pc' \in [Threads -> Labels] /\ op' \in [Threads -> Calls \cup {NULL}]
      /\ op'[t] = call
      /\ pc'[t] = IF call.name \in {"get", "set"} THEN "load" ELSE call.name
      /\ \A u \in Threads \ {t} : pc'[u] = pc[u] /\ op'[u] = op[u]
  BY <1>1, <1>2, <1>3 DEF Labels
<1>5. rc' \in [Objects -> Int] /\ calls' \in 0..MaxCalls
  BY <1>1, <1>2, <1>3, OpsAssumption
<1>6. Types'
  BY <1>2, <1>4, <1>5 DEF Inv, Types
<1>7. Others(t)
  BY <1>2, <1>4 DEF Others
<1>8. CallState(t)'
  BY <1>1, <1>4 DEF CallState
<1>9. ASSUME NEW o \in Objects
      PROVE  rc'[o] = rc[o] + Is(reference', o) - Is(reference, o)
                      + held'[t][o] - held[t][o] + Owned(t, o)' - Owned(t, o)
  <2>1. Owned(t, o) = 0
    BY <1>2 DEF Inv, CallState, Owned
  <2>2. Owned(t, o)' = IF call.name = "get" THEN 0 ELSE Is(call.desired, o)
    BY <1>1, <1>4 DEF Owned, Is
  <2>3. rc'[o] = rc[o] + IF call.name = "get" THEN 0 ELSE Is(call.desired, o)
    BY <1>1, <1>2, <1>3 DEF Is
  <2>4. /\ rc[o] \in Int /\ held[t][o] \in Nat /\ held'[t][o] = held[t][o]
        /\ reference' = reference /\ Is(reference, o) \in Nat
        /\ Is(call.desired, o) \in Nat
    BY <1>2, <1>3 DEF Is
  <2> QED
    BY <2>1, <2>2, <2>3, <2>4
<1> QED
  BY <1>2, <1>6, <1>7, <1>8, <1>9, StepSuffices

\* AtomicRef_Get loads the cell.
LEMMA LoadStep ==
  ASSUME Inv, NEW t \in Threads, Load(t)
  PROVE  Inv'
<1>1. /\ pc[t] = "load" /\ loaded' = [loaded EXCEPT ![t] = reference]
      /\ pc' = [pc EXCEPT ![t] = "try_incref"]
      /\ UNCHANGED <<reference, rc, held, calls, op, current, expected, mismatched>>
  BY DEF Load, Goto
<1>2. /\ pc \in [Threads -> Labels] /\ loaded \in [Threads -> Objects \cup {NULL}]
      /\ reference \in Objects /\ rc \in [Objects -> Int] /\ held[t] \in [Objects -> Nat]
  BY DEF Inv, Types
<1>3. /\ pc' \in [Threads -> Labels] /\ loaded' \in [Threads -> Objects \cup {NULL}]
      /\ pc'[t] = "try_incref" /\ loaded'[t] = reference
      /\ \A u \in Threads \ {t} : pc'[u] = pc[u] /\ loaded'[u] = loaded[u]
  BY <1>1, <1>2 DEF Labels
<1>4. Types'
  BY <1>1, <1>3 DEF Inv, Types
<1>5. Others(t)
  BY <1>1, <1>3 DEF Others
<1>6. CallState(t)'
  BY <1>1, <1>2, <1>3 DEF Inv, CallState
<1>7. ASSUME NEW o \in Objects
      PROVE  rc'[o] = rc[o] + Is(reference', o) - Is(reference, o)
                      + held'[t][o] - held[t][o] + Owned(t, o)' - Owned(t, o)
  <2>1. Owned(t, o)' = Owned(t, o) /\ Owned(t, o) \in Nat
    BY <1>1, <1>3, OwnedType DEF Owned
  <2>2. /\ rc[o] \in Int /\ held[t][o] \in Nat /\ held' = held /\ rc' = rc
        /\ reference' = reference /\ Is(reference, o) \in Nat
    BY <1>1, <1>2 DEF Is
  <2> QED
    BY <2>1, <2>2
<1> QED
  BY <1>1, <1>4, <1>5, <1>6, <1>7, StepSuffices

\* AtomicRef_Get tries to acquire what it loaded.
LEMMA TryIncrefStep ==
  ASSUME Inv, NEW t \in Threads, TryIncref(t)
  PROVE  Inv'
<1> DEFINE x == loaded[t]
<1>1. /\ pc[t] = "try_incref" /\ loaded' = [loaded EXCEPT ![t] = NULL]
      /\ UNCHANGED <<reference, calls, mismatched>>
  BY DEF TryIncref
<1>2. /\ pc \in [Threads -> Labels] /\ loaded \in [Threads -> Objects \cup {NULL}]
      /\ op \in [Threads -> Calls \cup {NULL}]
      /\ current \in [Threads -> Objects \cup {NULL}]
      /\ expected \in [Threads -> Objects \cup {NULL}]
      /\ held \in [Threads -> [Objects -> Nat]]
      /\ rc \in [Objects -> Int] /\ held[t] \in [Objects -> Nat]
  BY DEF Inv, Types
<1>3. x \in Objects /\ op[t] # NULL /\ op[t].name \in {"get", "set"}
  BY <1>1 DEF Inv, CallState
<1>4. /\ loaded' \in [Threads -> Objects \cup {NULL}]
      /\ \A u \in Threads \ {t} : loaded'[u] = loaded[u]
  BY <1>1, <1>2
<1>5. \A o \in Objects : /\ rc[o] \in Int /\ held[t][o] \in Nat
                          /\ Is(reference, o) \in Nat /\ Is(x, o) \in Nat
  BY <1>2 DEF Is
<1> HIDE DEF x
<1>6. CASE pc' = [pc EXCEPT ![t] = "load"] /\ UNCHANGED <<rc, held, op, current, expected>>
  <2>1. /\ pc' \in [Threads -> Labels] /\ pc'[t] = "load"
        /\ \A u \in Threads \ {t} : pc'[u] = pc[u]
    BY <1>2, <1>6 DEF Labels
  <2>2. Types'
    BY <1>1, <1>4, <1>6, <2>1 DEF Inv, Types
  <2>3. Others(t)
    BY <1>4, <1>6, <2>1 DEF Others
  <2>4. CallState(t)'
    BY <1>3, <1>6, <2>1 DEF CallState
  <2>5. ASSUME NEW o \in Objects
        PROVE  rc'[o] = rc[o] + Is(reference', o) - Is(reference, o)
                        + held'[t][o] - held[t][o] + Owned(t, o)' - Owned(t, o)
    <3>1. Owned(t, o)' = Owned(t, o) /\ Owned(t, o) \in Nat
      BY <1>1, <1>6, <2>1, OwnedType DEF Owned
    <3> QED
      BY <1>1, <1>5, <1>6, <3>1
  <2> QED
    BY <1>1, <2>2, <2>3, <2>4, <2>5, StepSuffices
<1>7. CASE /\ rc' = [rc EXCEPT ![x] = @ + 1] /\ op[t].name = "get"
           /\ held' = [held EXCEPT ![t][x] = @ + 1]
           /\ op' = [op EXCEPT ![t] = NULL] /\ pc' = [pc EXCEPT ![t] = "idle"]
           /\ UNCHANGED <<current, expected>>
  <2>1. /\ pc' \in [Threads -> Labels] /\ pc'[t] = "idle"
        /\ op' \in [Threads -> Calls \cup {NULL}] /\ op'[t] = NULL
        /\ \A u \in Threads \ {t} : pc'[u] = pc[u] /\ op'[u] = op[u] /\ held'[u] = held[u]
    BY <1>2, <1>7 DEF Labels
  <2>2. /\ rc' \in [Objects -> Int] /\ held' \in [Threads -> [Objects -> Nat]]
        /\ \A o \in Objects : rc'[o] = rc[o] + Is(x, o) /\ held'[t][o] = held[t][o] + Is(x, o)
    BY <1>2, <1>3, <1>7 DEF Is
  <2>3. Types'
    BY <1>1, <1>4, <1>7, <2>1, <2>2 DEF Inv, Types
  <2>4. Others(t)
    BY <1>4, <1>7, <2>1 DEF Others
  <2>5. CallState(t)'
    BY <2>1 DEF CallState
  <2>6. ASSUME NEW o \in Objects
        PROVE  rc'[o] = rc[o] + Is(reference', o) - Is(reference, o)
                        + held'[t][o] - held[t][o] + Owned(t, o)' - Owned(t, o)
    <3>1. Owned(t, o) = 0 /\ Owned(t, o)' = 0
      BY <1>3, <1>7, <2>1 DEF Owned
    <3> QED
      BY <1>1, <1>5, <2>2, <3>1
  <2> QED
    BY <1>1, <2>3, <2>4, <2>5, <2>6, StepSuffices
<1>8. CASE /\ rc' = [rc EXCEPT ![x] = @ + 1] /\ op[t].name # "get"
           /\ current' = [current EXCEPT ![t] = x]
           /\ expected' = [expected EXCEPT ![t] = IF @ = NULL THEN x ELSE @]
           /\ pc' = [pc EXCEPT ![t] = "set"] /\ UNCHANGED <<held, op>>
  <2>1. /\ pc' \in [Threads -> Labels] /\ pc'[t] = "set"
        /\ current' \in [Threads -> Objects \cup {NULL}] /\ current'[t] = x
        /\ expected' \in [Threads -> Objects \cup {NULL}]
        /\ \A u \in Threads \ {t} : pc'[u] = pc[u] /\ current'[u] = current[u]
    BY <1>2, <1>3, <1>8 DEF Labels
  <2>2. /\ rc' \in [Objects -> Int]
        /\ \A o \in Objects : rc'[o] = rc[o] + Is(x, o)
    BY <1>2, <1>3, <1>8 DEF Is
  <2>3. Types'
    BY <1>1, <1>4, <1>8, <2>1, <2>2 DEF Inv, Types
  <2>4. Others(t)
    BY <1>4, <1>8, <2>1 DEF Others
  <2>5. CallState(t)'
    BY <1>3, <1>8, <2>1 DEF CallState
  <2>6. ASSUME NEW o \in Objects
        PROVE  rc'[o] = rc[o] + Is(reference', o) - Is(reference, o)
                        + held'[t][o] - held[t][o] + Owned(t, o)' - Owned(t, o)
    <3>1. Owned(t, o)' = Owned(t, o) + Is(x, o) /\ Owned(t, o) \in Nat
      BY <1>1, <1>3, <1>8, <2>1 DEF Owned, Is
    <3> QED
      BY <1>1, <1>5, <1>8, <2>2, <3>1
  <2> QED
    BY <1>1, <2>3, <2>4, <2>5, <2>6, StepSuffices
<1> QED
  BY <1>6, <1>7, <1>8 DEF TryIncref, Take, Goto, x

\* What a thread in a call other than get has to do with.
LEMMA InCall ==
  ASSUME Inv, NEW t \in Threads, pc[t] # "idle", op[t].name # "get"
  PROVE  /\ op[t] \in Calls /\ op[t] # NULL /\ op[t].desired \in Objects
         /\ op[t].name = "cas" => op[t].expected \in Objects
<1>1. op[t] # NULL /\ op[t] \in Calls
  BY DEF Inv, Types, CallState
<1> QED
  BY <1>1, CallTypes

\* AtomicRef_Set exchanges, or drops what it acquired and starts again.
LEMMA SetCasStep ==
  ASSUME Inv, NEW t \in Threads, SetCas(t)
  PROVE  Inv'
<1> DEFINE c == current[t]
           d == op[t].desired
<1>1. pc[t] = "set" /\ UNCHANGED <<held, calls, op, loaded>>
  BY DEF SetCas
<1>2. /\ pc \in [Threads -> Labels] /\ rc \in [Objects -> Int] /\ reference \in Objects
      /\ current \in [Threads -> Objects \cup {NULL}]
      /\ expected \in [Threads -> Objects \cup {NULL}]
      /\ held[t] \in [Objects -> Nat] /\ mismatched \in BOOLEAN
  BY DEF Inv, Types
<1>3. op[t].name = "set" /\ c \in Objects
  BY <1>1 DEF Inv, CallState
<1>4. op[t] # NULL /\ d \in Objects
  BY <1>1, <1>3, InCall
<1>5. \A o \in Objects : /\ rc[o] \in Int /\ held[t][o] \in Nat
                          /\ Is(reference, o) \in Nat /\ Is(c, o) \in Nat /\ Is(d, o) \in Nat
  BY <1>2 DEF Is
<1>6. \A o \in Objects : Owned(t, o) = Is(d, o) + Is(c, o)
  BY <1>1, <1>3, <1>4 DEF Owned, Is
<1> HIDE DEF c, d
<1>7. CASE /\ reference = expected[t] /\ reference' = d
           /\ mismatched' = (mismatched \/ expected[t] # c)
           /\ pc' = [pc EXCEPT ![t] = "release"] /\ UNCHANGED <<rc, current, expected>>
  <2>1. /\ pc' \in [Threads -> Labels] /\ pc'[t] = "release"
        /\ \A u \in Threads \ {t} : pc'[u] = pc[u]
    BY <1>2, <1>7 DEF Labels
  <2>2. mismatched' \in BOOLEAN /\ (mismatched => mismatched')
        /\ (~mismatched' => expected[t] = c)
    BY <1>7, Zenon
  <2>3. Types'
    BY <1>1, <1>4, <1>7, <2>1, <2>2 DEF Inv, Types
  <2>4. Others(t)
    BY <1>1, <1>7, <2>1 DEF Others
  <2>5. CallState(t)'
    BY <1>1, <1>3, <1>4, <1>7, <2>1 DEF CallState, c
  <2>6. ASSUME ~mismatched', NEW o \in Objects
        PROVE  rc'[o] = rc[o] + Is(reference', o) - Is(reference, o)
                        + held'[t][o] - held[t][o] + Owned(t, o)' - Owned(t, o)
    <3>1. Owned(t, o)' = Is(c, o) + Is(c, o)
      BY <1>1, <1>3, <1>4, <1>7, <2>1 DEF Owned, Is, c
    <3>2. reference = c
      BY <1>7, <2>2, <2>6
    <3> QED
      BY <1>1, <1>5, <1>6, <1>7, <3>1, <3>2
  <2> QED
    BY <2>2, <2>3, <2>4, <2>5, <2>6, StepSuffices
<1>8. CASE /\ expected' = [expected EXCEPT ![t] = reference]
           /\ rc' = [rc EXCEPT ![c] = @ - 1] /\ current' = [current EXCEPT ![t] = NULL]
           /\ pc' = [pc EXCEPT ![t] = "load"] /\ UNCHANGED <<reference, mismatched>>
  <2>1. /\ pc' \in [Threads -> Labels] /\ pc'[t] = "load"
        /\ current' \in [Threads -> Objects \cup {NULL}]
        /\ expected' \in [Threads -> Objects \cup {NULL}]
        /\ \A u \in Threads \ {t} : pc'[u] = pc[u] /\ current'[u] = current[u]
    BY <1>2, <1>8 DEF Labels
  <2>2. rc' \in [Objects -> Int] /\ \A o \in Objects : rc'[o] = rc[o] - Is(c, o)
    BY <1>2, <1>3, <1>8 DEF Is
  <2>3. Types'
    BY <1>1, <1>8, <2>1, <2>2 DEF Inv, Types
  <2>4. Others(t)
    BY <1>1, <2>1 DEF Others
  <2>5. CallState(t)'
    BY <1>1, <1>3, <1>4, <2>1 DEF CallState
  <2>6. ASSUME NEW o \in Objects
        PROVE  rc'[o] = rc[o] + Is(reference', o) - Is(reference, o)
                        + held'[t][o] - held[t][o] + Owned(t, o)' - Owned(t, o)
    <3>1. Owned(t, o)' = Is(d, o)
      BY <1>1, <1>3, <1>4, <2>1 DEF Owned, Is, d
    <3> QED
      BY <1>1, <1>5, <1>6, <1>8, <2>2, <3>1
  <2> QED
    BY <1>8, <2>3, <2>4, <2>5, <2>6, StepSuffices
<1> QED
  BY <1>7, <1>8 DEF SetCas, Goto, c, d

\* AtomicRef_Set drops the two references to what it replaced.
LEMMA ReleaseStep ==
  ASSUME Inv, NEW t \in Threads, Release(t)
  PROVE  Inv'
<1> DEFINE c == current[t]
<1>1. /\ pc[t] = "release" /\ rc' = [rc EXCEPT ![c] = @ - 2]
      /\ current' = [current EXCEPT ![t] = NULL] /\ expected' = [expected EXCEPT ![t] = NULL]
      /\ op' = [op EXCEPT ![t] = NULL] /\ pc' = [pc EXCEPT ![t] = "idle"]
      /\ UNCHANGED <<reference, held, calls, loaded, mismatched>>
  BY DEF Release, Goto
<1>2. /\ pc \in [Threads -> Labels] /\ rc \in [Objects -> Int]
      /\ op \in [Threads -> Calls \cup {NULL}]
      /\ current \in [Threads -> Objects \cup {NULL}]
      /\ expected \in [Threads -> Objects \cup {NULL}]
      /\ held[t] \in [Objects -> Nat]
  BY DEF Inv, Types
<1>3. op[t].name = "set" /\ c \in Objects /\ op[t] # NULL
  BY <1>1 DEF Inv, CallState
<1> HIDE DEF c
<1>4. /\ pc' \in [Threads -> Labels] /\ pc'[t] = "idle"
      /\ op' \in [Threads -> Calls \cup {NULL}] /\ op'[t] = NULL
      /\ current' \in [Threads -> Objects \cup {NULL}]
      /\ expected' \in [Threads -> Objects \cup {NULL}]
      /\ \A u \in Threads \ {t} :
           pc'[u] = pc[u] /\ op'[u] = op[u] /\ current'[u] = current[u]
  BY <1>1, <1>2 DEF Labels
<1>5. rc' \in [Objects -> Int] /\ \A o \in Objects : rc'[o] = rc[o] - 2 * Is(c, o)
  BY <1>1, <1>2, <1>3 DEF Is
<1>6. Types'
  BY <1>1, <1>4, <1>5 DEF Inv, Types
<1>7. Others(t)
  BY <1>1, <1>4 DEF Others
<1>8. CallState(t)'
  BY <1>4 DEF CallState
<1>9. ASSUME NEW o \in Objects
      PROVE  rc'[o] = rc[o] + Is(reference', o) - Is(reference, o)
                      + held'[t][o] - held[t][o] + Owned(t, o)' - Owned(t, o)
  <2>1. Owned(t, o) = 2 * Is(c, o) /\ Owned(t, o)' = 0
    BY <1>1, <1>3, <1>4 DEF Owned, Is, c
  <2>2. /\ rc[o] \in Int /\ held[t][o] \in Nat /\ Is(reference, o) \in Nat
        /\ Is(c, o) \in Nat
    BY <1>2 DEF Is
  <2> QED
    BY <1>1, <1>5, <2>1, <2>2
<1> QED
  BY <1>1, <1>6, <1>7, <1>8, <1>9, StepSuffices

\* AtomicRef_CompareAndSet exchanges.
LEMMA CasStep ==
  ASSUME Inv, NEW t \in Threads, Cas(t)
  PROVE  Inv'
<1> DEFINE x == op[t].expected
           d == op[t].desired
<1>1. /\ pc[t] = "cas" /\ reference' = IF reference = x THEN d ELSE reference
      /\ pc' = [pc EXCEPT ![t] = IF reference = x THEN "cas_won" ELSE "cas_lost"]
      /\ UNCHANGED <<rc, held, calls, op, loaded, current, expected, mismatched>>
  BY DEF Cas, Goto
<1>2. /\ pc \in [Threads -> Labels] /\ rc \in [Objects -> Int] /\ reference \in Objects
      /\ held[t] \in [Objects -> Nat]
  BY DEF Inv, Types
<1>3. op[t].name = "cas"
  BY <1>1 DEF Inv, CallState
<1>4. op[t] # NULL /\ d \in Objects /\ x \in Objects
  BY <1>1, <1>3, InCall
<1> HIDE DEF x, d
<1>5. /\ pc' \in [Threads -> Labels]
      /\ pc'[t] = IF reference = x THEN "cas_won" ELSE "cas_lost"
      /\ \A u \in Threads \ {t} : pc'[u] = pc[u]
  BY <1>1, <1>2 DEF Labels
<1>6. Types'
  BY <1>1, <1>4, <1>5 DEF Inv, Types
<1>7. Others(t)
  BY <1>1, <1>5 DEF Others
<1>8. CallState(t)'
  BY <1>1, <1>3, <1>4, <1>5 DEF CallState
<1>9. ASSUME NEW o \in Objects
      PROVE  rc'[o] = rc[o] + Is(reference', o) - Is(reference, o)
                      + held'[t][o] - held[t][o] + Owned(t, o)' - Owned(t, o)
  <2>1. /\ Owned(t, o) = Is(d, o)
        /\ Owned(t, o)' = IF reference = x THEN Is(x, o) ELSE Is(d, o)
    BY <1>1, <1>3, <1>4, <1>5 DEF Owned, Is, d, x
  <2>2. /\ rc[o] \in Int /\ held[t][o] \in Nat /\ Is(reference, o) \in Nat
        /\ Is(d, o) \in Nat /\ Is(x, o) \in Nat
    BY <1>2 DEF Is
  <2> QED
    BY <1>1, <2>1, <2>2
<1> QED
  BY <1>1, <1>6, <1>7, <1>8, <1>9, StepSuffices

\* AtomicRef_CompareAndSet drops what left the cell or did not enter it.
LEMMA EndCasStep ==
  ASSUME Inv, NEW t \in Threads, EndCas(t)
  PROVE  Inv'
<1> DEFINE x == IF pc[t] = "cas_won" THEN op[t].expected ELSE op[t].desired
<1>1. /\ pc[t] \in {"cas_won", "cas_lost"} /\ rc' = [rc EXCEPT ![x] = @ - 1]
      /\ op' = [op EXCEPT ![t] = NULL] /\ pc' = [pc EXCEPT ![t] = "idle"]
      /\ UNCHANGED <<reference, held, calls, loaded, current, expected, mismatched>>
  BY DEF EndCas, Goto
<1>2. /\ pc \in [Threads -> Labels] /\ rc \in [Objects -> Int]
      /\ op \in [Threads -> Calls \cup {NULL}] /\ held[t] \in [Objects -> Nat]
  BY DEF Inv, Types
<1>3. op[t].name = "cas"
  BY <1>1 DEF Inv, CallState
<1>4. op[t] # NULL /\ x \in Objects
  BY <1>1, <1>3, InCall
<1> HIDE DEF x
<1>5. /\ pc' \in [Threads -> Labels] /\ pc'[t] = "idle"
      /\ op' \in [Threads -> Calls \cup {NULL}] /\ op'[t] = NULL
      /\ \A u \in Threads \ {t} : pc'[u] = pc[u] /\ op'[u] = op[u]
  BY <1>1, <1>2 DEF Labels
<1>6. rc' \in [Objects -> Int] /\ \A o \in Objects : rc'[o] = rc[o] - Is(x, o)
  BY <1>1, <1>2, <1>4 DEF Is
<1>7. Types'
  BY <1>1, <1>5, <1>6 DEF Inv, Types
<1>8. Others(t)
  BY <1>1, <1>5 DEF Others
<1>9. CallState(t)'
  BY <1>5 DEF CallState
<1>10. ASSUME NEW o \in Objects
       PROVE  rc'[o] = rc[o] + Is(reference', o) - Is(reference, o)
                       + held'[t][o] - held[t][o] + Owned(t, o)' - Owned(t, o)
  <2>1. Owned(t, o) = Is(x, o) /\ Owned(t, o)' = 0
    BY <1>1, <1>3, <1>4, <1>5 DEF Owned, Is, x
  <2>2. /\ rc[o] \in Int /\ held[t][o] \in Nat /\ Is(reference, o) \in Nat
        /\ Is(x, o) \in Nat
    BY <1>2 DEF Is
  <2> QED
    BY <1>1, <1>6, <2>1, <2>2
<1> QED
  BY <1>1, <1>7, <1>8, <1>9, <1>10, StepSuffices

\* AtomicRef_GetAndSet exchanges and passes the cell's reference on.
LEMMA ExchangeStep ==
  ASSUME Inv, NEW t \in Threads, Exchange(t)
  PROVE  Inv'
<1> DEFINE d == op[t].desired
<1>1. /\ pc[t] = "swap" /\ reference' = d /\ held' = [held EXCEPT ![t][reference] = @ + 1]
      /\ op' = [op EXCEPT ![t] = NULL] /\ pc' = [pc EXCEPT ![t] = "idle"]
      /\ UNCHANGED <<rc, calls, loaded, current, expected, mismatched>>
  BY DEF Exchange, Take, Goto
<1>2. /\ pc \in [Threads -> Labels] /\ rc \in [Objects -> Int] /\ reference \in Objects
      /\ op \in [Threads -> Calls \cup {NULL}]
      /\ held \in [Threads -> [Objects -> Nat]] /\ held[t] \in [Objects -> Nat]
  BY DEF Inv, Types
<1>3. op[t].name = "swap"
  BY <1>1 DEF Inv, CallState
<1>4. op[t] # NULL /\ d \in Objects
  BY <1>1, <1>3, InCall
<1> HIDE DEF d
<1>5. /\ pc' \in [Threads -> Labels] /\ pc'[t] = "idle"
      /\ op' \in [Threads -> Calls \cup {NULL}] /\ op'[t] = NULL
      /\ \A u \in Threads \ {t} : pc'[u] = pc[u] /\ op'[u] = op[u] /\ held'[u] = held[u]
  BY <1>1, <1>2 DEF Labels
<1>6. /\ held' \in [Threads -> [Objects -> Nat]]
      /\ \A o \in Objects : held'[t][o] = held[t][o] + Is(reference, o)
  BY <1>1, <1>2 DEF Is
<1>7. Types'
  BY <1>1, <1>4, <1>5, <1>6 DEF Inv, Types
<1>8. Others(t)
  BY <1>1, <1>5 DEF Others
<1>9. CallState(t)'
  BY <1>5 DEF CallState
<1>10. ASSUME NEW o \in Objects
       PROVE  rc'[o] = rc[o] + Is(reference', o) - Is(reference, o)
                       + held'[t][o] - held[t][o] + Owned(t, o)' - Owned(t, o)
  <2>1. Owned(t, o) = Is(d, o) /\ Owned(t, o)' = 0
    BY <1>1, <1>3, <1>4, <1>5 DEF Owned, Is, d
  <2>2. /\ rc[o] \in Int /\ held[t][o] \in Nat /\ Is(reference, o) \in Nat
        /\ Is(d, o) \in Nat
    BY <1>2 DEF Is
  <2> QED
    BY <1>1, <1>6, <2>1, <2>2
<1> QED
  BY <1>1, <1>7, <1>8, <1>9, <1>10, StepSuffices

\* The program gives up a reference.
LEMMA DropStep ==
  ASSUME Inv, NEW t \in Threads, NEW x \in Objects, Drop(t, x)
  PROVE  Inv'
<1>1. /\ pc[t] = "idle" /\ held[t][x] > 0 /\ held' = [held EXCEPT ![t][x] = @ - 1]
      /\ rc' = [rc EXCEPT ![x] = @ - 1]
      /\ UNCHANGED <<reference, calls, pc, op, loaded, current, expected, mismatched>>
  BY DEF Drop
<1>2. /\ rc \in [Objects -> Int] /\ held \in [Threads -> [Objects -> Nat]]
      /\ held[t] \in [Objects -> Nat]
  BY DEF Inv, Types
<1>3. /\ held' \in [Threads -> [Objects -> Nat]] /\ rc' \in [Objects -> Int]
      /\ \A o \in Objects : held'[t][o] = held[t][o] - Is(x, o) /\ rc'[o] = rc[o] - Is(x, o)
      /\ \A u \in Threads \ {t} : held'[u] = held[u]
  BY <1>1, <1>2 DEF Is
<1>4. Types'
  BY <1>1, <1>3 DEF Inv, Types
<1>5. Others(t)
  BY <1>1, <1>3 DEF Others
<1>6. CallState(t)'
  BY <1>1 DEF Inv, CallState
<1>7. ASSUME NEW o \in Objects
      PROVE  rc'[o] = rc[o] + Is(reference', o) - Is(reference, o)
                      + held'[t][o] - held[t][o] + Owned(t, o)' - Owned(t, o)
  <2>1. Owned(t, o)' = Owned(t, o) /\ Owned(t, o) \in Nat
    BY <1>1, OwnedType DEF Owned
  <2>2. /\ rc[o] \in Int /\ held[t][o] \in Nat /\ Is(reference, o) \in Nat
        /\ Is(x, o) \in Nat
    BY <1>2 DEF Is
  <2> QED
    BY <1>1, <1>3, <2>1, <2>2
<1> QED
  BY <1>1, <1>4, <1>5, <1>6, <1>7, StepSuffices

\* A step that changes nothing.
LEMMA Stutter ==
  ASSUME Inv, UNCHANGED vars
  PROVE  Inv'
<1>1. Types'
  BY DEF Inv, Types, vars
<1>2. \A t \in Threads : CallState(t)'
  BY DEF Inv, CallState, vars
<1>3. ~mismatched' => \A o \in Objects : Balanced(o)'
  <2> SUFFICES ASSUME ~mismatched', NEW o \in Objects PROVE Balanced(o)'
    OBVIOUS
  <2>1. [t \in Threads |-> Owned(t, o)'] = [t \in Threads |-> Owned(t, o)]
    BY DEF Owned, vars
  <2>2. rc'[o] = Is(reference', o) + Cardinality(References([t \in Threads |-> held'[t][o]]))
                 + Cardinality(References([t \in Threads |-> Owned(t, o)']))
    BY <2>1 DEF Inv, Balanced, vars
  <2> QED
    BY <2>2 DEF Balanced, References, Is
<1> QED
  BY <1>1, <1>2, <1>3 DEF Inv

\* However get, set, compare_and_set and get_and_set interleave, the count of every
\* object is what the cell, the threads and the calls in progress own, until a set
\* replaces an object that is not its current one.
THEOREM ReferencesBalance ==
  Spec => []RefcountsBalance
<1>1. Inv /\ [Next]_vars => Inv'
  <2> SUFFICES ASSUME Inv, [Next]_vars PROVE Inv'
    OBVIOUS
  <2>1. CASE UNCHANGED vars
    BY <2>1, Stutter
  <2>2. ASSUME NEW t \in Threads, NEW call \in Calls, Call(t, call) PROVE Inv'
    BY <2>2, CallStep
  <2>3. ASSUME NEW t \in Threads, Load(t) \/ TryIncref(t) \/ SetCas(t) \/ Release(t)
        PROVE  Inv'
    BY <2>3, LoadStep, TryIncrefStep, SetCasStep, ReleaseStep
  <2>4. ASSUME NEW t \in Threads, Cas(t) \/ EndCas(t) \/ Exchange(t) PROVE Inv'
    BY <2>4, CasStep, EndCasStep, ExchangeStep
  <2>5. ASSUME NEW t \in Threads, NEW o \in Objects, Drop(t, o) PROVE Inv'
    BY <2>5, DropStep
  <2> QED
    BY <2>1, <2>2, <2>3, <2>4, <2>5 DEF Next
<1> QED
  BY <1>1, InitIsGood, InvSuffices, PTL DEF Spec
=============================================================================
