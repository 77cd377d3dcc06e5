--------------------------- MODULE MCAtomicInt64 ---------------------------
EXTENDS AtomicInt64

\* A narrow integer puts every overflow within a few steps.
MCRequests ==
  [name : {"add", "sub", "update"}, arg : {-1, MAX}]
    \cup [name : {"mul", "pow"}, arg : {2}]
    \cup [name : {"and", "or", "xor"}, arg : {-2}]
    \cup [name : {"floordiv"}, arg : {-1, 0, 2}] \cup [name : {"rem"}, arg : {-1, 0, 3}]
    \cup [name : {"lshift"}, arg : {1}] \cup [name : {"rshift"}, arg : {1, Width}]
    \cup [name : {"get"}, arg : {0}]
    \cup [name : {"set", "swap"}, arg : {1, MAX + 1}]
    \cup [name : {"cas"}, expected : {1}, arg : {-2}]

MCInitial == {MIN}
=============================================================================
