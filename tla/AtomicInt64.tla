----------------------------- MODULE AtomicInt64 -----------------------------
(***************************************************************************)
(* AtomicInt64 (atomic_int.c): a fixed-width signed integer that threads   *)
(* update with no lock.  Every read-modify-write (increment_and_get and    *)
(* its kin, update_and_get, the in-place operators) is the same loop: load *)
(* the integer, compute, compare-and-exchange, start over if it changed.   *)
(*                                                                         *)
(* What is computed is C arithmetic.  Where C leaves the result undefined  *)
(* (MIN / -1, MIN % -1, a shift by less than 0 or by Width or more) Outcome*)
(* is the set of what a build may do.  The history variable `model` is the *)
(* Python int to which the same calls were applied one after the other.    *)
(***************************************************************************)
EXTENDS Integers, FiniteSets, Functions

CONSTANTS
  Threads,
  Width,      \* 64 in the code
  Initial,    \* the values the program starts from
  Requests,   \* the calls the program makes: [name, arg (, expected)]
  MaxCalls,   \* bound on the number of calls
  OVERFLOW,   \* OverflowError
  ZERO_DIV,   \* ZeroDivisionError
  RAISED,     \* the callable of an update raised
  CRASH,      \* the processor traps: the process ends, what follows is moot
  NULL

MIN == -(2 ^ (Width - 1))
MAX == 2 ^ (Width - 1) - 1
Ints == MIN..MAX

ASSUME IntAssumption ==
  /\ Width \in Nat \ {0}
  /\ Initial \subseteq Ints
  /\ MaxCalls \in Nat
  /\ {OVERFLOW, ZERO_DIV, RAISED, CRASH, NULL} \cap Int = {}

VARIABLES
  integer,  \* self->integer
  calls,    \* how many calls have been made
  pc,       \* thread -> the access it makes next
  op,       \* thread -> its call, or NULL
  current,  \* thread -> the value it loaded
  desired,  \* thread -> the value it computed
  out,      \* thread -> what its last call returned or raised
  model     \* history: the integer a Python program would hold

vars == <<integer, calls, pc, op, current, desired, out, model>>
-----------------------------------------------------------------------------
\* The bits of a two's complement integer, lowest first.
Bit(x, i) == (x \div (2 ^ i)) % 2
Weight(i) == IF i = Width - 1 THEN MIN ELSE 2 ^ i
BitAnd == [a, b \in 0..1 |-> a * b]
BitOr == [a, b \in 0..1 |-> a + b - a * b]
BitXor == [a, b \in 0..1 |-> (a + b) % 2]
Bits(f, x, y) ==
  FoldFunction(LAMBDA a, b : a + b, 0,
    [i \in 0..(Width - 1) |-> Weight(i) * f[Bit(x, i), Bit(y, i)]])
Wrap(x) == ((x - MIN) % (2 ^ Width)) + MIN

\* C's division truncates towards zero, Python's rounds down.
Sign(x) == IF x < 0 THEN -1 ELSE 1
TruncDiv(x, y) == Sign(x) * Sign(y) * ((Sign(x) * x) \div (Sign(y) * y))
FloorDiv(x, y) == (Sign(y) * x) \div (Sign(y) * y)

\* __builtin_add_overflow and its kin, and PyLong_AsInt64 of a Python int.
OrOverflow(x) == IF x \in Ints THEN x ELSE OVERFLOW

\* AtomicInt64_DivOrSetException: the quotient is computed before the overflow
\* it tests for is reported.
DivOrSetException(x, y) ==
  IF y = 0 THEN {ZERO_DIV}
  ELSE IF x = MIN /\ y = -1 THEN {CRASH, OVERFLOW}
  ELSE {TruncDiv(x, y)}

Remainder(x, y) ==
  IF y = 0 THEN {ZERO_DIV}
  ELSE IF x = MIN /\ y = -1 THEN {CRASH, 0}
  ELSE {x - y * TruncDiv(x, y)}

Shift(x, y, result) == IF y \in 0..(Width - 1) THEN {result} ELSE Ints

\* What the code computes from the loaded value x.  An update's callable is a
\* Python function: here one that doubles the value and adds arg, or raises.
Outcome(name, x, y) ==
  CASE name = "set" -> {y}
    [] name = "add" -> {OrOverflow(x + y)}
    [] name = "sub" -> {OrOverflow(x - y)}
    [] name = "mul" -> {OrOverflow(x * y)}
    [] name = "pow" -> {OrOverflow(x ^ y)}
    [] name = "update" -> {OrOverflow(2 * x + y), RAISED}
    [] name = "and" -> {Bits(BitAnd, x, y)}
    [] name = "or" -> {Bits(BitOr, x, y)}
    [] name = "xor" -> {Bits(BitXor, x, y)}
    [] name = "rshift" -> Shift(x, y, x \div (2 ^ y))
    [] name = "lshift" -> Shift(x, y, Wrap(x * (2 ^ y)))
    [] name = "floordiv" -> DivOrSetException(x, y)
    [] name = "rem" -> Remainder(x, y)

\* What Python's int gives for the same call.
PythonInt(call, x) ==
  LET y == call.arg IN
  CASE call.name \in {"set", "swap"} -> y
    [] call.name = "cas" -> IF x = call.expected THEN y ELSE x
    [] call.name = "get" -> x
    [] call.name = "add" -> x + y
    [] call.name = "sub" -> x - y
    [] call.name = "mul" -> x * y
    [] call.name = "pow" -> x ^ y
    [] call.name = "update" -> 2 * x + y
    [] call.name = "and" -> Bits(BitAnd, x, y)
    [] call.name = "or" -> Bits(BitOr, x, y)
    [] call.name = "xor" -> Bits(BitXor, x, y)
    [] call.name = "rshift" -> x \div (2 ^ y)
    [] call.name = "lshift" -> x * (2 ^ y)
    [] call.name = "floordiv" -> FloorDiv(x, y)
    [] call.name = "rem" -> x - y * FloorDiv(x, y)

\* Where the code is known to give something else: C truncates a quotient, and
\* shifts are C's, which neither checks for overflow nor allows every count.
Differs(call, x) ==
  LET y == call.arg IN
  \/ call.name \in {"floordiv", "rem"} /\ x * y < 0
  \/ call.name \in {"lshift", "rshift"} /\ y \notin 0..(Width - 1)
  \/ call.name = "lshift" /\ x * (2 ^ y) \notin Ints

\* The model follows the code there, and Python everywhere else.
NextModel(call, result) ==
  IF Differs(call, model) THEN result ELSE PythonInt(call, model)
-----------------------------------------------------------------------------
Init ==
  /\ integer \in Initial
  /\ calls = 0
  /\ pc = [t \in Threads |-> "idle"]
  /\ op = [t \in Threads |-> NULL]
  /\ current = [t \in Threads |-> 0]
  /\ desired = [t \in Threads |-> 0]
  /\ out = [t \in Threads |-> NULL]
  /\ model = integer

\* The call ends with a result that is handed to the program.
Return(t, result) ==
  /\ out' = [out EXCEPT ![t] = result]
  /\ op' = [op EXCEPT ![t] = NULL]
  /\ current' = [current EXCEPT ![t] = 0]
  /\ desired' = [desired EXCEPT ![t] = 0]
  /\ pc' = [pc EXCEPT ![t] = "idle"]

\* A call whose arguments do not fit raises before it touches the integer.
Fits(call) == call.arg \in Ints /\ (call.name = "cas" => call.expected \in Ints)

Call(t, call) ==
  /\ pc[t] = "idle"
  /\ calls < MaxCalls
  /\ calls' = calls + 1
  /\ \/ /\ ~Fits(call)
        /\ Return(t, OVERFLOW)
     \/ /\ Fits(call)
        /\ op' = [op EXCEPT ![t] = call]
        /\ out' = [out EXCEPT ![t] = NULL]
        /\ pc' = [pc EXCEPT ![t] = IF call.name \in {"cas", "swap"}
                                   THEN call.name ELSE "load"]
        /\ UNCHANGED <<current, desired>>
  /\ UNCHANGED <<integer, model>>

\* AtomicInt64_Get, alone or at the top of a loop.
Get(t) ==
  /\ pc[t] = "load"
  /\ \/ /\ op[t].name = "get"
        /\ Return(t, integer)
     \/ /\ op[t].name # "get"
        /\ current' = [current EXCEPT ![t] = integer]
        /\ pc' = [pc EXCEPT ![t] = "compute"]
        /\ UNCHANGED <<op, desired, out>>
  /\ UNCHANGED <<integer, calls, model>>

Compute(t) ==
  /\ pc[t] = "compute"
  /\ \E r \in Outcome(op[t].name, current[t], op[t].arg) :
       \/ /\ r \in {OVERFLOW, ZERO_DIV, RAISED, CRASH}
          /\ Return(t, r)
       \/ /\ r \in Int
          /\ desired' = [desired EXCEPT ![t] = r]
          /\ pc' = [pc EXCEPT ![t] = "store"]
          /\ UNCHANGED <<op, current, out>>
  /\ UNCHANGED <<integer, calls, model>>

\* Mutants: the result is stored whatever the integer is by now; the value is
\* not loaded again after a lost race.
StoresBlindly(t) ==
  /\ pc[t] = "store"
  /\ integer' = desired[t]
  /\ model' = NextModel(op[t], desired[t])
  /\ Return(t, desired[t])
  /\ UNCHANGED calls
NeverReloads(t) ==
  /\ pc[t] = "store"
  /\ integer = current[t]
  /\ integer' = desired[t]
  /\ model' = NextModel(op[t], desired[t])
  /\ Return(t, desired[t])
  /\ UNCHANGED calls

\* The compare-and-exchange that closes a loop.
Store(t) ==
  /\ pc[t] = "store"
  /\ \/ /\ integer = current[t]
        /\ integer' = desired[t]
        /\ model' = NextModel(op[t], desired[t])
        /\ Return(t, desired[t])
     \/ /\ integer # current[t]
        /\ pc' = [pc EXCEPT ![t] = "load"]
        /\ UNCHANGED <<integer, op, current, desired, out, model>>
  /\ UNCHANGED calls

CompareAndSet(t) ==
  /\ pc[t] = "cas"
  /\ integer' = IF integer = op[t].expected THEN op[t].arg ELSE integer
  /\ model' = PythonInt(op[t], model)
  /\ Return(t, integer)
  /\ UNCHANGED calls

GetAndSet(t) ==
  /\ pc[t] = "swap"
  /\ integer' = op[t].arg
  /\ model' = PythonInt(op[t], model)
  /\ Return(t, integer)
  /\ UNCHANGED calls

Step(t) == Get(t) \/ Compute(t) \/ Store(t) \/ CompareAndSet(t) \/ GetAndSet(t)

Next == \E t \in Threads : (\E call \in Requests : Call(t, call)) \/ Step(t)

Spec == Init /\ [][Next]_vars

\* Threads are scheduled, and the callables of updates terminate.
FairSpec == Spec /\ \A t \in Threads : WF_vars(Step(t))
-----------------------------------------------------------------------------
\* Types: the integer never leaves its width.
TypeOK ==
  /\ integer \in Ints
  /\ calls \in 0..MaxCalls
  /\ pc \in [Threads -> {"idle", "load", "compute", "store", "cas", "swap"}]
  /\ op \in [Threads -> Requests \cup {NULL}]
  /\ current \in [Threads -> Ints]
  /\ desired \in [Threads -> Ints]
  /\ out \in [Threads -> Ints \cup {OVERFLOW, ZERO_DIV, RAISED, CRASH, NULL}]

\* However the loops interleave, the integer is what a Python int would be
\* after the same successful calls, one at a time: no update is lost, applied
\* twice or applied to a value it was not computed from, and every result that
\* is not an exception is exact, but for the divisions and shifts of Differs.
BehavesLikeInt == TypeOK /\ integer = model

\* Once the program stops making new calls, every pending call returns: a
\* compare-and-exchange only fails because another call succeeded.
CallsReturn == \A t \in Threads : pc[t] # "idle" ~> pc[t] = "idle"
=============================================================================
