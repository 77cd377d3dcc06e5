------------------------------- MODULE Event -------------------------------
(***************************************************************************)
(* What an event promises, whatever it is built from: a wait returns only  *)
(* after the event was set, and then it does return.                       *)
(***************************************************************************)
CONSTANT Threads

VARIABLES
  isSet,    \* has the event been set?
  waiting   \* the threads that are inside wait()

vars == <<isSet, waiting>>

Init == isSet \in BOOLEAN /\ waiting = {}

Set == isSet' = TRUE /\ UNCHANGED waiting

Wait(t) == t \notin waiting /\ waiting' = waiting \cup {t} /\ UNCHANGED isSet

Return(t) == isSet /\ t \in waiting /\ waiting' = waiting \ {t} /\ UNCHANGED isSet

Next == Set \/ \E t \in Threads : Wait(t) \/ Return(t)

\* What an event never does, and all that it does.
Safety == Init /\ [][Next]_vars

Spec == Safety /\ \A t \in Threads : WF_vars(Return(t))
=============================================================================
