--------------------------- MODULE ReduceFunctions ---------------------------
(***************************************************************************)
(* The specialised aggregates of AtomicDict.reduce_sum, reduce_and,        *)
(* reduce_or, reduce_max, reduce_min, reduce_list and reduce_count         *)
(* (insert.c), and what a single-threaded Python program would compute     *)
(* with its built-ins from the same items.                                 *)
(*                                                                         *)
(* Python objects are tagged tuples: <<"int", n>>, <<"bool", b>>,          *)
(* <<"list", s>>, and <<"opaque">> for one whose __bool__ raises.          *)
(***************************************************************************)
EXTENDS Integers, Sequences, FiniteSets, Functions

CONSTANT NOT_FOUND

IntObj(n) == <<"int", n>>
BoolObj(b) == <<"bool", b>>
ListObj(s) == <<"list", s>>
OpaqueObj == <<"opaque">>

\* PyObject_IsTrue: 1, 0, or -1 with an exception set.
IsTrue(o) ==
  CASE o[1] = "int" -> IF o[2] # 0 THEN 1 ELSE 0
    [] o[1] = "bool" -> IF o[2] THEN 1 ELSE 0
    [] o[1] = "list" -> IF o[2] # <<>> THEN 1 ELSE 0
    [] o[1] = "opaque" -> -1

\* C's conditions take every int but 0 for true, -1 included.
Holds(o) == IsTrue(o) # 0

\* reduce_specialized_sum, which reduce_count uses too
ReduceSum(current, new) ==
  IF current = NOT_FOUND THEN new ELSE IntObj(current[2] + new[2])

ReduceAnd(current, new) ==
  IF current = NOT_FOUND THEN new ELSE BoolObj(Holds(current) /\ Holds(new))

ReduceOr(current, new) ==
  IF current = NOT_FOUND THEN new ELSE BoolObj(Holds(current) \/ Holds(new))

\* Do reduce_specialized_and and reduce_specialized_or return with an exception
\* set?  && and || leave `new` alone when `current` decides.
LeavesException(function, current, new) ==
  /\ current # NOT_FOUND
  /\ \/ function \in {"and", "or"} /\ IsTrue(current) = -1
     \/ function = "and" /\ IsTrue(current) = 1 /\ IsTrue(new) = -1
     \/ function = "or" /\ IsTrue(current) = 0 /\ IsTrue(new) = -1

ReduceMax(current, new) ==
  IF current = NOT_FOUND THEN new
  ELSE IF current[2] >= new[2] THEN current ELSE new

ReduceMin(current, new) ==
  IF current = NOT_FOUND THEN new
  ELSE IF current[2] <= new[2] THEN current ELSE new

ToList(o) == IF o[1] = "list" THEN o ELSE ListObj(<<o>>)

ReduceList(current, new) ==
  IF current = NOT_FOUND THEN ToList(new)
  ELSE ListObj(ToList(current)[2] \o ToList(new)[2])

\* AtomicDict_ReduceCount pairs every key of its iterable with 1.  (Of a dict it
\* takes the values instead, which makes it reduce_sum.)
Given(function, value) == IF function = "count" THEN IntObj(1) ELSE value

\* The aggregate that each of the methods hands to AtomicDict_Reduce_impl.
Specialized(function, current, new) ==
  CASE function \in {"sum", "count"} -> ReduceSum(current, new)
    [] function = "and" -> ReduceAnd(current, new)
    [] function = "or" -> ReduceOr(current, new)
    [] function = "max" -> ReduceMax(current, new)
    [] function = "min" -> ReduceMin(current, new)
    [] function = "list" -> ReduceList(current, new)
-----------------------------------------------------------------------------
\* The reference.  `items` is a function: the objects a key was given, by
\* whatever names them.
Total(f) == FoldFunction(+, 0, f)
Occurrences(x, s) == Cardinality({i \in DOMAIN s : s[i] = x})

\* Is `result` Python's sum(), all(), any(), max() or min() of the items, or a
\* list of all their elements in some order?  all() and any() are compared by
\* truth value, and would raise at an opaque object, which here counts as true.
IsBuiltin(function, items, result) ==
  CASE function \in {"sum", "count"} ->
         result = IntObj(Total([x \in DOMAIN items |-> items[x][2]]))
    [] function = "and" -> Holds(result) <=> \A x \in DOMAIN items : Holds(items[x])
    [] function = "or" -> Holds(result) <=> \E x \in DOMAIN items : Holds(items[x])
    [] function = "max" ->
         /\ \E x \in DOMAIN items : items[x] = result
         /\ \A x \in DOMAIN items : items[x][2] <= result[2]
    [] function = "min" ->
         /\ \E x \in DOMAIN items : items[x] = result
         /\ \A x \in DOMAIN items : items[x][2] >= result[2]
    [] function = "list" ->
         /\ result[1] = "list"
         /\ Len(result[2]) = Total([x \in DOMAIN items |-> Len(ToList(items[x])[2])])
         /\ \A x \in DOMAIN items : \A e \in Range(ToList(items[x])[2]) :
              Occurrences(e, result[2])
                = Total([y \in DOMAIN items |-> Occurrences(e, ToList(items[y])[2])])
=============================================================================
