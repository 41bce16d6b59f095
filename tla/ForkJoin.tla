------------------------------ MODULE ForkJoin ------------------------------
(***************************************************************************)
(* What the callers of RecordConcurrently (collector/default_collector.go) *)
(* rely on: every task runs to completion, whatever becomes of the others, *)
(* and the call returns after all of them, with every outcome exactly once.*)
(***************************************************************************)
EXTENDS Naturals

CONSTANTS
  N,          \* the number of tasks
  Outcomes,   \* how a task may end
  Pending     \* the outcome of a task that has not ended

VARIABLES
  finished,   \* finished[t]: the outcome of task t, or Pending
  returned,   \* the call has returned
  reports     \* reports[t]: how often the caller was told the outcome of t

vars == <<finished, returned, reports>>

Init ==
  /\ finished = [t \in 1..N |-> Pending]
  /\ returned = FALSE
  /\ reports  = [t \in 1..N |-> 0]

Finish(t, o) ==
  /\ finished[t] = Pending
  /\ finished' = [finished EXCEPT ![t] = o]
  /\ UNCHANGED <<returned, reports>>

Return ==
  /\ ~ returned
  /\ \A t \in 1..N : finished[t] # Pending
  /\ returned' = TRUE
  /\ reports'  = [t \in 1..N |-> 1]
  /\ UNCHANGED finished

Next == (\E t \in 1..N, o \in Outcomes : Finish(t, o)) \/ Return

Spec == Init /\ [][Next]_vars
=============================================================================
