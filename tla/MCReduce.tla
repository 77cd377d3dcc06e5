------------------------------ MODULE MCReduce ------------------------------
EXTENDS Reduce

CONSTANTS t1, t2, a, b

Pair(k, v) == [key |-> k, value |-> v]

\* Two threads meet on two keys, one of which the first thread brings twice; a
\* third has nothing to reduce, or an object of its own that has no truth value.
\* A list is given elements and lists.  all() and any() meet an opaque object
\* in the shared dictionary, too.
MCIterable ==
  [f \in Aggregates |-> [t \in Threads |->
     CASE t = t1 -> <<Pair(a, IntObj(2)), Pair(b, IntObj(0)),
                      Pair(a, IF f = "list" THEN ListObj(<<IntObj(3), IntObj(4)>>)
                              ELSE IntObj(-1))>>
       [] t = t2 -> <<Pair(b, IF f = "or" THEN OpaqueObj ELSE IntObj(1)),
                      Pair(a, CASE f = "list" -> ListObj(<<>>)
                                [] f = "and" -> OpaqueObj
                                [] OTHER -> IntObj(4))>>
       [] OTHER -> IF f \in {"and", "or"}
                   THEN <<Pair(a, BoolObj(f = "and")), Pair(a, OpaqueObj)>>
                   ELSE <<>>]]
=============================================================================
