------------------------------- MODULE FanOut -------------------------------
(***************************************************************************)
(* collector/default_collector.go, RecordConcurrently: one goroutine per   *)
(* recorder, a channel with room for every outcome, a WaitGroup, one more  *)
(* goroutine that closes the channel when the group is done, and a loop    *)
(* that ranges over the channel until it is closed.                        *)
(*                                                                         *)
(* GetAllInstances (lib/sapcontrol/current_instance.go) is built the same  *)
(* way; InstanceList builds on the ForkJoin that this module implements.   *)
(*                                                                         *)
(* One call is modelled.  Two steps of the Go runtime would crash the      *)
(* exporter: a send on a closed channel and a negative WaitGroup counter.  *)
(* NoSendOnClosed and TypeOK (wg \in Nat) exclude them.                    *)
(***************************************************************************)
EXTENDS Integers, Sequences

CONSTANTS
  N,          \* the number of recorders
  Outcomes,   \* how a recorder may end
  Failed,     \* the outcomes that are errors
  Pending     \* no outcome yet

ASSUME FanOutAssumption ==
  /\ N \in Nat
  /\ Failed \subseteq Outcomes
  /\ Pending \notin Outcomes

VARIABLES
  main,       \* where the caller's goroutine stands
  started,    \* the number of goroutines that its loop has started
  task,       \* task[t]: where the goroutine of recorder t stands
  outcome,    \* outcome[t]: what recorder t returned
  wg,         \* the counter of the WaitGroup
  results,    \* the buffered channel: the recorders whose outcome is in it
  channel,    \* "open" or "closed": the state of that channel
  closer,     \* where the closing goroutine stands
  received    \* received[t]: how often the range loop received outcome[t]

vars == <<main, started, task, outcome, wg, results, channel, closer, received>>

Tasks == 1..N

\* make(chan error, len(recorders))
Capacity == N

Init ==
  /\ main     = "spawn"
  /\ started  = 0
  /\ task     = [t \in Tasks |-> "new"]
  /\ outcome  = [t \in Tasks |-> Pending]
  /\ wg       = 0
  /\ results  = <<>>
  /\ channel  = "open"
  /\ closer   = "none"
  /\ received = [t \in Tasks |-> 0]

\* One turn of the loop: wg.Add(1), then go.
Spawn ==
  /\ main = "spawn"
  /\ started < N
  /\ started' = started + 1
  /\ wg'   = wg + 1
  /\ task' = [task EXCEPT ![started + 1] = "run"]
  /\ UNCHANGED <<main, outcome, results, channel, closer, received>>

\* After the loop: start the closing goroutine and range over the channel.
StartCloser ==
  /\ main = "spawn"
  /\ started = N
  /\ closer' = "wait"
  /\ main'   = "range"
  /\ UNCHANGED <<started, task, outcome, wg, results, channel, received>>

\* Recorder t returns o, an error or nil.
Finish(t, o) ==
  /\ task[t] = "run"
  /\ task'    = [task EXCEPT ![t] = "send"]
  /\ outcome' = [outcome EXCEPT ![t] = o]
  /\ UNCHANGED <<main, started, wg, results, channel, closer, received>>

\* results <- recorder(ctx, ch)
Send(t) ==
  /\ task[t] = "send"
  /\ channel = "open"
  /\ Len(results) < Capacity
  /\ results' = Append(results, t)
  /\ task'    = [task EXCEPT ![t] = "done"]
  /\ UNCHANGED <<main, started, outcome, wg, channel, closer, received>>

\* Mutant: wg.Done is not deferred and an error path misses it.
DoneUnlessFailed(t) ==
  /\ task[t] = "done"
  /\ outcome[t] \notin Failed
  /\ wg'   = wg - 1
  /\ task' = [task EXCEPT ![t] = "end"]
  /\ UNCHANGED <<main, started, outcome, results, channel, closer, received>>

\* The deferred wg.Done()
Done(t) ==
  /\ task[t] = "done"
  /\ wg'   = wg - 1
  /\ task' = [task EXCEPT ![t] = "end"]
  /\ UNCHANGED <<main, started, outcome, results, channel, closer, received>>

\* Mutant: the channel is closed without waiting.
CloseAtOnce ==
  /\ closer = "wait"
  /\ channel' = "closed"
  /\ closer'  = "end"
  /\ UNCHANGED <<main, started, task, outcome, wg, results, received>>

\* wg.Wait(), then close(results)
Close ==
  /\ closer = "wait"
  /\ wg = 0
  /\ channel' = "closed"
  /\ closer'  = "end"
  /\ UNCHANGED <<main, started, task, outcome, wg, results, received>>

\* One turn of the range loop.  (A failed outcome goes to errs.)
Receive ==
  /\ main = "range"
  /\ results # <<>>
  /\ received' = [received EXCEPT ![Head(results)] = @ + 1]
  /\ results'  = Tail(results)
  /\ UNCHANGED <<main, started, task, outcome, wg, channel, closer>>

\* Mutant: the loop ends on the first error.
ReturnOnError ==
  /\ main = "range"
  /\ \/ results = <<>> /\ channel = "closed"
     \/ \E t \in Tasks : received[t] > 0 /\ outcome[t] \in Failed
  /\ main' = "returned"
  /\ UNCHANGED <<started, task, outcome, wg, results, channel, closer, received>>

\* The range loop ends when the channel is closed and empty.
Return ==
  /\ main = "range"
  /\ results = <<>>
  /\ channel = "closed"
  /\ main' = "returned"
  /\ UNCHANGED <<started, task, outcome, wg, results, channel, closer, received>>

Caller == Spawn \/ StartCloser \/ Receive \/ Return
Worker(t) == (\E o \in Outcomes : Finish(t, o)) \/ Send(t) \/ Done(t)

Next == Caller \/ (\E t \in Tasks : Worker(t)) \/ Close

Spec == Init /\ [][Next]_vars

\* Go runs every runnable goroutine, and every recorder returns: its SOAP calls
\* carry the deadline of the scrape (its other waits are the subject of Scrape).
Fairness == WF_vars(Caller) /\ WF_vars(Close) /\ \A t \in Tasks : WF_vars(Worker(t))

FairSpec == Spec /\ Fairness
-----------------------------------------------------------------------------
TypeOK ==
  /\ main \in {"spawn", "range", "returned"}
  /\ started \in 0..N
  /\ task \in [Tasks -> {"new", "run", "send", "done", "end"}]
  /\ outcome \in [Tasks -> Outcomes \cup {Pending}]
  /\ wg \in Nat
  /\ results \in Seq(Tasks)
  /\ channel \in {"open", "closed"}
  /\ closer \in {"none", "wait", "end"}
  /\ received \in [Tasks -> Nat]
-----------------------------------------------------------------------------
\* No recorder is still running or about to send when the channel is closed: a
\* send on a closed channel would crash the exporter (default_collector.go:80-83).
NoSendOnClosed ==
  channel = "closed" => \A t \in Tasks : task[t] \in {"done", "end"}

\* When the call returns, no recorder is left that could still send a metric:
\* the Prometheus registry closes the metric channel as soon as Collect has
\* returned.  And the errors that are returned are those of all failed
\* recorders, each exactly once ("even if the first recorder returned an error,
\* the second one should still run to completion", default_collector_test.go).
ReturnsComplete ==
  main = "returned" =>
    \A t \in Tasks : task[t] = "end" /\ outcome[t] # Pending /\ received[t] = 1

Abstract == INSTANCE ForkJoin
              WITH finished <- outcome, returned <- main = "returned",
                   reports <- IF main = "returned" THEN received ELSE [t \in Tasks |-> 0]

\* Goroutines, channel and WaitGroup together are an atomic fork and join.
ImplementsForkJoin == Abstract!Spec

\* Every call returns: nobody waits on the channel or the group for ever,
\* whatever the recorders return.
CallReturns == <>(main = "returned")
=============================================================================
