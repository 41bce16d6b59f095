--------------------------- MODULE CollectorProofs ---------------------------
(***************************************************************************)
(* Proofs about collector/default_collector.go and the recorders that use  *)
(* it: RecordConcurrently as FanOut models it, for any number of recorders *)
(* and any outcomes, and then what a scrape shows as Metrics models it, for*)
(* any instances, and answers of any length with any records in them.      *)
(***************************************************************************)
EXTENDS FanOut, Metrics, FiniteSetTheorems, TLAPS

-----------------------------------------------------------------------------
(* RecordConcurrently.                                                     *)

\* The goroutines that the WaitGroup still waits for.
Outstanding == {t \in Tasks : task[t] \in {"run", "send", "done"}}

\* The WaitGroup counts exactly those, and the closer waits for them.
GroupState ==
  /\ wg = Cardinality(Outstanding)
  /\ \A t \in Tasks : task[t] = "new" <=> started < t
  /\ main = "spawn" <=> closer = "none"
  /\ main # "spawn" => started = N
  /\ channel = "open" <=> closer # "end"
  /\ channel = "closed" => Outstanding = {}
  /\ main = "returned" => results = <<>> /\ channel = "closed"

\* An outcome that was sent is in the channel or was received, once in all.
ChannelState ==
  /\ \A t \in Tasks : outcome[t] # Pending <=> task[t] \in {"send", "done", "end"}
  /\ \A i \in 1..Len(results) :
        task[results[i]] \in {"done", "end"} /\ received[results[i]] = 0
  /\ \A i, j \in 1..Len(results) : results[i] = results[j] => i = j
  /\ \A t \in Tasks :
        /\ received[t] \in {0, 1}
        /\ received[t] = 1 => task[t] \in {"done", "end"}
        /\ task[t] \in {"done", "end"} /\ received[t] = 0 =>
              \E i \in 1..Len(results) : results[i] = t

IInv == TypeOK /\ GroupState /\ ChannelState
-----------------------------------------------------------------------------
\* The WaitGroup counts finitely many.
LEMMA OutstandingFinite ==
  /\ IsFiniteSet(Outstanding)
  /\ Cardinality(Outstanding) \in Nat
  /\ Cardinality(Outstanding) = 0 <=> Outstanding = {}
<1>1. IsFiniteSet(Tasks)
  BY FS_Interval, FanOutAssumption DEF Tasks, FanOutAssumption
<1>2. IsFiniteSet(Outstanding)
  BY <1>1, FS_Subset DEF Outstanding
<1> QED
  BY <1>2, FS_CardinalityType, FS_EmptySet

LEMMA InitIInv == Init => IInv
<1> SUFFICES ASSUME Init PROVE IInv
  OBVIOUS
<1>1. Outstanding = {}
  BY DEF Init, Outstanding
<1>2. wg = Cardinality(Outstanding)
  BY <1>1, FS_EmptySet DEF Init
<1>3. TypeOK
  BY FanOutAssumption, SMT DEF Init, TypeOK, Tasks, FanOutAssumption
<1>4. GroupState
  BY <1>1, <1>2, FanOutAssumption, SMT DEF Init, GroupState, Tasks, FanOutAssumption
<1>5. ChannelState
  BY SMT DEF Init, ChannelState, Tasks
<1> QED
  BY <1>3, <1>4, <1>5 DEF IInv

LEMMA StepType == IInv /\ [Next]_vars => TypeOK'
<1> SUFFICES ASSUME IInv, [Next]_vars PROVE TypeOK'
  OBVIOUS
<1> USE FanOutAssumption DEF IInv, TypeOK, Tasks, FanOutAssumption
<1>1. CASE Spawn
  BY <1>1, SMT DEF Spawn
<1>2. CASE StartCloser
  BY <1>2, SMT DEF StartCloser
<1>3. CASE Receive
  BY <1>3, SMT DEF Receive
<1>4. CASE Return
  BY <1>4, SMT DEF Return
<1>5. ASSUME NEW t \in Tasks, NEW o \in Outcomes, Finish(t, o) PROVE TypeOK'
  BY <1>5, SMT DEF Finish
<1>6. ASSUME NEW t \in Tasks, Send(t) PROVE TypeOK'
  BY <1>6, SMT DEF Send
<1>7. ASSUME NEW t \in Tasks, Done(t) PROVE TypeOK'
  <2>1. t \in Outstanding /\ wg = Cardinality(Outstanding)
    BY <1>7, SMT DEF Done, Outstanding, GroupState
  <2>2. wg # 0
    BY <2>1, OutstandingFinite
  <2>3. wg - 1 \in Nat
    BY <2>2, SMT
  <2> QED
    BY <1>7, <2>3, SMT DEF Done
<1>8. CASE Close
  BY <1>8, SMT DEF Close
<1>9. CASE UNCHANGED vars
  BY <1>9, SMT DEF vars
<1> HIDE DEF IInv, TypeOK, Tasks
<1> QED
  BY <1>1, <1>2, <1>3, <1>4, <1>5, <1>6, <1>7, <1>8, <1>9 DEF Next, Caller, Worker

LEMMA StepGroup == IInv /\ [Next]_vars => GroupState'
<1> SUFFICES ASSUME IInv, [Next]_vars PROVE GroupState'
  OBVIOUS
<1> USE FanOutAssumption DEF IInv, TypeOK, GroupState, FanOutAssumption
<1>a. ASSUME Outstanding' = Outstanding, wg' = wg PROVE wg' = Cardinality(Outstanding)'
  BY <1>a
<1>1. CASE Spawn
  <2>1. Outstanding' = Outstanding \cup {started + 1} /\ started + 1 \notin Outstanding
    BY <1>1, SMT DEF Spawn, Outstanding, Tasks
  <2>2. Cardinality(Outstanding') = Cardinality(Outstanding) + 1
    BY <2>1, OutstandingFinite, FS_AddElement
  <2> QED
    BY <1>1, <2>1, <2>2, SMT DEF Spawn, Tasks
<1>2. CASE StartCloser
  BY <1>2, SMT DEF StartCloser, Outstanding
<1>3. CASE Receive
  BY <1>3, SMT DEF Receive, Outstanding
<1>4. CASE Return
  BY <1>4, SMT DEF Return, Outstanding
<1>5. ASSUME NEW t \in Tasks, NEW o \in Outcomes, Finish(t, o) PROVE GroupState'
  <2>1. Outstanding' = Outstanding
    BY <1>5, SMT DEF Finish, Outstanding
  <2> QED
    BY <1>5, <2>1, SMT DEF Finish
<1>6. ASSUME NEW t \in Tasks, Send(t) PROVE GroupState'
  <2>1. Outstanding' = Outstanding
    BY <1>6, SMT DEF Send, Outstanding
  <2>2. main # "returned"
    BY <1>6 DEF Send
  <2> QED
    BY <1>6, <2>1, <2>2, SMT DEF Send
<1>7. ASSUME NEW t \in Tasks, Done(t) PROVE GroupState'
  <2>1. Outstanding' = Outstanding \ {t} /\ t \in Outstanding
    BY <1>7, SMT DEF Done, Outstanding
  <2>2. Cardinality(Outstanding') = Cardinality(Outstanding) - 1
    BY <2>1, OutstandingFinite, FS_RemoveElement
  <2>3. wg' = Cardinality(Outstanding)' /\ Outstanding # {}
    BY <1>7, <2>1, <2>2 DEF Done
  <2> QED
    BY <1>7, <2>3, SMT DEF Done
<1>8. CASE Close
  <2>1. Outstanding = {}
    BY <1>8, OutstandingFinite DEF Close
  <2>2. Outstanding' = Outstanding
    BY <1>8 DEF Close, Outstanding
  <2>3. main # "spawn" /\ main # "returned"
    BY <1>8, SMT DEF Close
  <2>4. wg' = Cardinality(Outstanding)'
    BY <1>8, <2>2 DEF Close
  <2>5. \A t \in Tasks : task'[t] = "new" <=> started' < t
    BY <1>8, SMT DEF Close
  <2> HIDE DEF TypeOK, IInv
  <2> QED
    BY <1>8, <2>1, <2>2, <2>3, <2>4, <2>5 DEF Close, IInv
<1>9. CASE UNCHANGED vars
  BY <1>9, SMT DEF vars, Outstanding
<1> HIDE DEF IInv, TypeOK, GroupState
<1> QED
  BY <1>1, <1>2, <1>3, <1>4, <1>5, <1>6, <1>7, <1>8, <1>9 DEF Next, Caller, Worker

LEMMA StepChannel == IInv /\ [Next]_vars => ChannelState'
<1> SUFFICES ASSUME IInv, [Next]_vars PROVE ChannelState'
  OBVIOUS
<1> USE FanOutAssumption DEF IInv, TypeOK, ChannelState, FanOutAssumption
<1>1. CASE Spawn
  <2>1. task[started + 1] = "new" /\ started + 1 \in Tasks
    BY <1>1, SMT DEF Spawn, GroupState, Tasks
  <2> QED
    BY <1>1, <2>1, SMT DEF Spawn
<1>2. CASE StartCloser
  BY <1>2, SMT DEF StartCloser
<1>3. CASE Receive
  <2> DEFINE h == Head(results)
  <2>1. /\ Len(results) > 0 /\ h = results[1] /\ h \in Tasks
        /\ Len(Tail(results)) = Len(results) - 1
        /\ \A i \in 1..Len(Tail(results)) : Tail(results)[i] = results[i + 1]
    BY <1>3, SMT DEF Receive
  <2>a. received[h] = 0 /\ task[h] \in {"done", "end"}
    BY <2>1, SMT
  <2>b. received' = [received EXCEPT ![h] = received[h] + 1]
    BY <1>3 DEF Receive
  <2>2. /\ results' = Tail(results) /\ received' = [received EXCEPT ![h] = 1]
        /\ task[h] \in {"done", "end"} /\ task' = task /\ outcome' = outcome
    BY <1>3, <2>a, <2>b DEF Receive
  <2> HIDE DEF h
  <2>3. \A i \in 1..Len(results') : results'[i] = results[i + 1] /\ results'[i] # h
    BY <2>1, <2>2, SMT
  <2>4. \A i \in 1..Len(results') :
          task'[results'[i]] \in {"done", "end"} /\ received'[results'[i]] = 0
    BY <2>1, <2>2, <2>3, SMT
  <2>5. ASSUME NEW i \in 1..Len(results'), NEW j \in 1..Len(results'),
               results'[i] = results'[j]
        PROVE  i = j
    <3>1. i + 1 \in 1..Len(results) /\ j + 1 \in 1..Len(results)
      BY <2>1, <2>2, SMT
    <3>2. results[i + 1] = results[j + 1]
      BY <2>3, <2>5
    <3> QED
      BY <3>1, <3>2, SMT
  <2>6. ASSUME NEW t \in Tasks, task[t] \in {"done", "end"}, received'[t] = 0
        PROVE  \E i \in 1..Len(results') : results'[i] = t
    <3>1. t # h /\ received[t] = 0
      BY <2>1, <2>2, <2>6, SMT
    <3>2. PICK i \in 1..Len(results) : results[i] = t
      BY <3>1, <2>6
    <3>3. i - 1 \in 1..Len(results') /\ results'[i - 1] = t
      BY <3>1, <3>2, <2>1, <2>2, <2>3, SMT
    <3> QED
      BY <3>3
  <2>7. \A t \in Tasks : /\ received'[t] \in {0, 1}
                          /\ received'[t] = 1 => task[t] \in {"done", "end"}
    BY <2>1, <2>2, SMT
  <2> QED
    BY <2>2, <2>4, <2>5, <2>6, <2>7
<1>4. CASE Return
  BY <1>4, SMT DEF Return
<1>5. ASSUME NEW t \in Tasks, NEW o \in Outcomes, Finish(t, o) PROVE ChannelState'
  BY <1>5, SMT DEF Finish
<1>6. ASSUME NEW t \in Tasks, Send(t) PROVE ChannelState'
  <2>1. /\ Len(results') = Len(results) + 1 /\ results'[Len(results) + 1] = t
        /\ \A i \in 1..Len(results) : results'[i] = results[i]
        /\ Len(results) \in Nat
    BY <1>6, SMT DEF Send
  <2>2. /\ task' = [task EXCEPT ![t] = "done"] /\ task[t] = "send"
        /\ received' = received /\ outcome' = outcome /\ received[t] = 0
    BY <1>6, SMT DEF Send
  <2>a. \A i \in 1..Len(results) : results[i] \in Tasks /\ results[i] # t
    BY <2>2, SMT
  <2>b. ASSUME NEW i \in 1..Len(results')
        PROVE  \/ i \in 1..Len(results) /\ results'[i] = results[i]
               \/ i = Len(results) + 1 /\ results'[i] = t
    BY <2>1, SMT
  <2>3. ASSUME NEW i \in 1..Len(results')
        PROVE  task'[results'[i]] \in {"done", "end"} /\ received'[results'[i]] = 0
    BY <2>a, <2>b, <2>2, SMT
  <2>4. ASSUME NEW i \in 1..Len(results'), NEW j \in 1..Len(results'),
               results'[i] = results'[j]
        PROVE  i = j
    <3>1. CASE i \in 1..Len(results) /\ j \in 1..Len(results)
      <4>1. results[i] = results[j]
        BY <2>1, <2>4, <3>1
      <4> QED
        BY <3>1, <4>1
    <3>2. CASE i = Len(results) + 1 /\ j = Len(results) + 1
      BY <3>2
    <3>3. CASE i \in 1..Len(results) /\ j = Len(results) + 1
      BY <2>1, <2>4, <2>a, <3>3
    <3>4. CASE i = Len(results) + 1 /\ j \in 1..Len(results)
      BY <2>1, <2>4, <2>a, <3>4
    <3>5. /\ i \in 1..Len(results) \/ i = Len(results) + 1
          /\ j \in 1..Len(results) \/ j = Len(results) + 1
      BY <2>1, SMT
    <3> QED
      BY <3>1, <3>2, <3>3, <3>4, <3>5
  <2>5. ASSUME NEW u \in Tasks, task'[u] \in {"done", "end"}, received[u] = 0
        PROVE  \E i \in 1..Len(results') : results'[i] = u
    <3>1. CASE u = t
      BY <2>1, <3>1, SMT
    <3>2. CASE u # t
      <4>1. PICK i \in 1..Len(results) : results[i] = u
        BY <2>2, <2>5, <3>2, SMT
      <4> QED
        BY <2>1, <4>1, SMT
    <3> QED
      BY <3>1, <3>2
  <2>6. \A u \in Tasks : received[u] = 1 => task'[u] \in {"done", "end"}
    BY <2>2, SMT
  <2>7. \A u \in Tasks : outcome'[u] # Pending <=> task'[u] \in {"send", "done", "end"}
    BY <2>2, SMT
  <2> QED
    BY <2>2, <2>3, <2>4, <2>5, <2>6, <2>7
<1>7. ASSUME NEW t \in Tasks, Done(t) PROVE ChannelState'
  BY <1>7, SMT DEF Done
<1>8. CASE Close
  BY <1>8, SMT DEF Close
<1>9. CASE UNCHANGED vars
  BY <1>9, SMT DEF vars
<1> HIDE DEF IInv, TypeOK, ChannelState
<1> QED
  BY <1>1, <1>2, <1>3, <1>4, <1>5, <1>6, <1>7, <1>8, <1>9 DEF Next, Caller, Worker

\* The inductive invariant holds in every reachable state.
THEOREM Invariance == Spec => []IInv
<1>1. IInv /\ [Next]_vars => IInv'
  BY StepType, StepGroup, StepChannel DEF IInv
<1> QED
  BY InitIInv, <1>1, PTL DEF Spec
-----------------------------------------------------------------------------
\* Every variable keeps its type; the WaitGroup never goes below zero.
THEOREM TypeCorrect == Spec => []TypeOK
BY Invariance, PTL DEF IInv

LEMMA ClosedMeansEnded ==
  ASSUME IInv, channel = "closed", NEW t \in Tasks PROVE task[t] = "end"
<1>1. closer = "end" /\ Outstanding = {} /\ main # "spawn"
  BY SMT DEF IInv, TypeOK, GroupState
<1>2. task[t] # "new"
  BY <1>1, FanOutAssumption, SMT DEF IInv, GroupState, Tasks, FanOutAssumption
<1>3. task[t] \in {"new", "run", "send", "done", "end"}
  BY DEF IInv, TypeOK
<1> QED
  BY <1>1, <1>2, <1>3 DEF Outstanding

\* No recorder can still send when the channel is closed.
THEOREM SendsSafe == Spec => []NoSendOnClosed
<1>1. IInv => NoSendOnClosed
  BY ClosedMeansEnded DEF NoSendOnClosed
<1> QED
  BY Invariance, <1>1, PTL

LEMMA ReturnComplete == IInv => ReturnsComplete
BY ClosedMeansEnded, SMT DEF IInv, TypeOK, GroupState, ChannelState, ReturnsComplete

\* The call returns after every recorder, with every outcome exactly once.
THEOREM ReturnsAll == Spec => []ReturnsComplete
BY Invariance, ReturnComplete, PTL
-----------------------------------------------------------------------------
LEMMA InitRefines == Init => Abstract!Init
BY Zenon DEF Init, Abstract!Init, Tasks

LEMMA StepRefines == IInv /\ IInv' /\ [Next]_vars => [Abstract!Next]_(Abstract!vars)
<1> SUFFICES ASSUME IInv, IInv', [Next]_vars PROVE [Abstract!Next]_(Abstract!vars)
  OBVIOUS
<1> DEFINE Known == IF main = "returned" THEN received ELSE [t \in Tasks |-> 0]
<1> DEFINE Stutter == outcome' = outcome /\ (main = "returned")' = (main = "returned")
                      /\ Known' = Known
<1>s. ASSUME Stutter PROVE [Abstract!Next]_(Abstract!vars)
  BY <1>s DEF Abstract!vars
<1>1. ASSUME Spawn PROVE Stutter
  BY <1>1 DEF Spawn
<1>2. ASSUME StartCloser PROVE Stutter
  BY <1>2 DEF StartCloser
<1>3. ASSUME Receive PROVE Stutter
  BY <1>3 DEF Receive
<1>4. ASSUME Return PROVE Abstract!Return
  <2>1. main = "range" /\ main' = "returned" /\ outcome' = outcome
    BY <1>4 DEF Return
  <2>a. ReturnsComplete'
    BY ReturnComplete, PTL
  <2>2. \A t \in Tasks : task'[t] = "end" /\ outcome'[t] # Pending /\ received'[t] = 1
    BY <2>1, <2>a DEF ReturnsComplete
  <2>3. received' = [t \in Tasks |-> 1]
    BY <2>2, SMT DEF IInv, TypeOK
  <2> QED
    BY <2>1, <2>2, <2>3 DEF Abstract!Return, Tasks
<1>5. ASSUME NEW t \in Tasks, NEW o \in Outcomes, Finish(t, o) PROVE Abstract!Finish(t, o)
  <2>1. outcome[t] = Pending
    BY <1>5, SMT DEF Finish, IInv, TypeOK, ChannelState
  <2> QED
    BY <1>5, <2>1 DEF Finish, Abstract!Finish
<1>6. ASSUME NEW t \in Tasks, Send(t) PROVE Stutter
  BY <1>6 DEF Send
<1>7. ASSUME NEW t \in Tasks, Done(t) PROVE Stutter
  BY <1>7 DEF Done
<1>8. ASSUME Close PROVE Stutter
  BY <1>8 DEF Close
<1>9. ASSUME UNCHANGED vars PROVE Stutter
  BY <1>9 DEF vars
<1> HIDE DEF Stutter
<1> QED
  BY <1>s, <1>1, <1>2, <1>3, <1>4, <1>5, <1>6, <1>7, <1>8, <1>9
     DEF Next, Caller, Worker, Abstract!Next, Tasks

\* Goroutines, channel and WaitGroup together are an atomic fork and join.
THEOREM Refinement == Spec => ImplementsForkJoin
BY InitRefines, StepRefines, Invariance, PTL
   DEF Spec, ImplementsForkJoin, Abstract!Spec
-----------------------------------------------------------------------------
(* What a scrape shows: lists of labels.                                   *)

\* Label names and values are put together of lists.
IsSeq(s) == \E S : s \in Seq(S)

\* s is a followed by b.
Joins(a, b, s) ==
  /\ IsSeq(s) /\ Len(a) \in Nat /\ Len(b) \in Nat /\ Len(s) = Len(a) + Len(b)
  /\ \A k \in 1..Len(a) : s[k] = a[k]
  /\ \A k \in 1..Len(b) : s[Len(a) + k] = b[k]

\* What \o does to lists of anything.
LEMMA Concat == ASSUME NEW a, NEW b, IsSeq(a), IsSeq(b) PROVE Joins(a, b, a \o b)
<1>1. PICK S : a \in Seq(S)
  BY DEF IsSeq
<1>2. PICK T : b \in Seq(T)
  BY DEF IsSeq
<1> DEFINE U == S \cup T
<1>3. a \in Seq(U) /\ b \in Seq(U)
  BY <1>1, <1>2
<1> HIDE DEF U
<1>4. a \o b \in Seq(U)
  BY <1>3
<1> QED
  BY <1>3, <1>4 DEF IsSeq, Joins

\* The values stand under the names they are meant for.
Aligned(labels, names) ==
  /\ IsSeq(labels) /\ IsSeq(names) /\ Len(labels) = Len(names)
  /\ \A k \in 1..Len(labels) : labels[k][1] = names[k]

\* Lists that are aligned one by one are aligned when put together.
LEMMA AlignedConcat ==
  ASSUME NEW a, NEW b, NEW c, NEW d, Aligned(a, c), Aligned(b, d)
  PROVE  Aligned(a \o b, c \o d)
<1>1. /\ IsSeq(a) /\ IsSeq(b) /\ IsSeq(c) /\ IsSeq(d) /\ Len(a) = Len(c) /\ Len(b) = Len(d)
      /\ \A k \in 1..Len(a) : a[k][1] = c[k]
      /\ \A k \in 1..Len(b) : b[k][1] = d[k]
  BY DEF Aligned
<1>2. Joins(a, b, a \o b) /\ Joins(c, d, c \o d)
  BY <1>1, Concat, Zenon
<1> DEFINE s == a \o b  t == c \o d
<1>3. Joins(a, b, s) /\ Joins(c, d, t)
  BY <1>2
<1> HIDE DEF s, t
<1>4. ASSUME NEW k \in 1..Len(s) PROVE s[k][1] = t[k]
  <2>1. CASE k \in 1..Len(a)
    BY <1>1, <1>3, <2>1 DEF Joins
  <2>2. CASE k > Len(a)
    <3>1. k - Len(a) \in 1..Len(b) /\ k = Len(a) + (k - Len(a))
      BY <1>3, <2>2 DEF Joins
    <3> DEFINE n == k - Len(a)
    <3>2. n \in 1..Len(b) /\ k = Len(a) + n
      BY <3>1
    <3> HIDE DEF n
    <3>3. s[k] = b[n]
      BY <1>3, <3>2 DEF Joins
    <3>4. t[k] = d[n]
      BY <1>1, <1>3, <3>2 DEF Joins
    <3> QED
      BY <1>1, <3>2, <3>3, <3>4
  <2> QED
    BY <1>3, <2>1, <2>2 DEF Joins
<1>5. Aligned(s, t)
  BY <1>1, <1>3, <1>4 DEF Aligned, Joins
<1> QED
  BY <1>5 DEF s, t

\* A list of values in which one stands under the name tag, and that one is v.
Marked(labels, tag, v) ==
  /\ IsSeq(labels)
  /\ \E k \in 1..Len(labels) : labels[k] = <<tag, v>>
  /\ \A k \in 1..Len(labels) : \A j : labels[k] = <<tag, j>> => j = v

\* And one in which none does.
Plain(labels, tag) ==
  IsSeq(labels) /\ \A k \in 1..Len(labels) : \A j : labels[k] # <<tag, j>>

\* One of the two lists has the tag, the other has none.
LEMMA MarkedConcat ==
  ASSUME NEW a, NEW b, NEW tag, NEW v
  PROVE  /\ Plain(a, tag) /\ Marked(b, tag, v) => Marked(a \o b, tag, v)
         /\ Marked(a, tag, v) /\ Plain(b, tag) => Marked(a \o b, tag, v)
<1>1. ASSUME (Plain(a, tag) /\ Marked(b, tag, v)) \/ (Marked(a, tag, v) /\ Plain(b, tag))
      PROVE  Marked(a \o b, tag, v)
  <2>1. IsSeq(a) /\ IsSeq(b)
    BY <1>1 DEF Plain, Marked
  <2>2. Joins(a, b, a \o b)
    BY <2>1, Concat, Zenon
  <2> DEFINE s == a \o b
  <2>0. Joins(a, b, s)
    BY <2>2
  <2> HIDE DEF s
  <2>3. \E k \in 1..Len(s) : s[k] = <<tag, v>>
    <3>1. CASE Plain(a, tag) /\ Marked(b, tag, v)
      <4>1. PICK k \in 1..Len(b) : b[k] = <<tag, v>>
        BY <3>1 DEF Marked
      <4>2. Len(a) + k \in 1..Len(s) /\ s[Len(a) + k] = b[k]
        BY <2>0 DEF Joins
      <4> QED
        BY <4>1, <4>2
    <3>2. CASE Marked(a, tag, v) /\ Plain(b, tag)
      <4>1. PICK k \in 1..Len(a) : a[k] = <<tag, v>>
        BY <3>2 DEF Marked
      <4>2. k \in 1..Len(s) /\ s[k] = a[k]
        BY <2>0 DEF Joins
      <4> QED
        BY <4>1, <4>2
    <3> QED
      BY <1>1, <3>1, <3>2
  <2>4. ASSUME NEW k \in 1..Len(s), NEW j, s[k] = <<tag, j>> PROVE j = v
    <3>1. CASE k \in 1..Len(a)
      <4>1. a[k] = <<tag, j>>
        BY <2>0, <2>4, <3>1 DEF Joins
      <4> QED
        BY <1>1, <3>1, <4>1 DEF Plain, Marked
    <3>2. CASE k > Len(a)
      <4>1. k - Len(a) \in 1..Len(b) /\ b[k - Len(a)] = <<tag, j>>
        <5>1. k - Len(a) \in 1..Len(b) /\ k = Len(a) + (k - Len(a))
          BY <2>0, <3>2 DEF Joins
        <5> QED
          BY <2>0, <2>4, <5>1 DEF Joins
      <4> QED
        BY <1>1, <4>1 DEF Plain, Marked
    <3> QED
      BY <2>0, <3>1, <3>2 DEF Joins
  <2>5. Marked(s, tag, v)
    BY <2>0, <2>3, <2>4 DEF Marked, Joins
  <2> QED
    BY <2>5 DEF s
<1> QED
  BY <1>1, Zenon

\* The names decide which tags there are.
LEMMA PlainOf ==
  ASSUME NEW values, NEW names, NEW tag, Aligned(values, names),
         \A k \in 1..Len(names) : names[k] # tag
  PROVE  Plain(values, tag)
  BY DEF Aligned, Plain

\* The tag stands under its name and under no other.
LEMMA MarkedOf ==
  ASSUME NEW values, NEW names, NEW tag, NEW n \in 1..Len(names), Aligned(values, names),
         NEW v, values[n] = <<tag, v>>,
         \A k \in 1..Len(names) : names[k] = tag => k = n
  PROVE  Marked(values, tag, v)
  BY DEF Aligned, Marked

\* To be aligned is what it says, for two lists of the same length.
LEMMA AlignedList ==
  ASSUME NEW V, NEW L, NEW values \in Seq(V), NEW names \in Seq(L), Len(values) = Len(names),
         \A k \in 1..Len(values) : values[k][1] = names[k]
  PROVE  Aligned(values, names)
  BY DEF Aligned, IsSeq

\* The labels that all metrics have.
LEMMA CommonLabels ==
  ASSUME NEW i
  PROVE  /\ Aligned(commonLabels(i), common)
         /\ Marked(commonLabels(i), "instance_name", i)
         /\ \A tag : tag \in {"wp_type", "status"} => Plain(commonLabels(i), tag)
<1> DEFINE V == {<<"instance_name", i>>, <<"instance_number", i>>, <<"SID", i>>,
                 <<"instance_hostname", i>>}
           L == {"instance_name", "instance_number", "SID", "instance_hostname"}
<1>1. commonLabels(i) = <<<<"instance_name", i>>, <<"instance_number", i>>, <<"SID", i>>,
                          <<"instance_hostname", i>>>>
  BY DEF commonLabels, common
<1>2. /\ commonLabels(i) \in Seq(V) /\ common \in Seq(L)
      /\ Len(commonLabels(i)) = 4 /\ Len(common) = 4
      /\ commonLabels(i)[1] = <<"instance_name", i>>
  BY <1>1 DEF common
<1>3. \A k \in 1..4 : commonLabels(i)[k][1] = common[k]
  BY DEF commonLabels, common
<1>4. \A k \in 1..4 : /\ common[k] = "instance_name" => k = 1
                      /\ common[k] # "wp_type" /\ common[k] # "status"
  BY DEF common
<1> HIDE DEF V, L
<1>5. Aligned(commonLabels(i), common)
  BY <1>2, <1>3, AlignedList
<1>6. Marked(commonLabels(i), "instance_name", i)
  BY <1>2, <1>4, <1>5, MarkedOf
<1> QED
  BY <1>2, <1>4, <1>5, <1>6, PlainOf

-----------------------------------------------------------------------------
(* A turn sends what was declared.                                         *)

\* A metric with the labels that were declared, of instance i.
Good(m, i) ==
  /\ Declared(m) /\ Aligned(m.labels, LabelNames(m)) /\ Marked(m.labels, "instance_name", i)

\* makeMetric, given a declared name and labels that fit it.
LEMMA GoodMetric ==
  ASSUME NEW subsystem, NEW name, NEW value, NEW labels, NEW i,
         name \in DOMAIN Descriptors[subsystem], Aligned(labels, Descriptors[subsystem][name]),
         Marked(labels, "instance_name", i)
  PROVE  Good(Metric(subsystem, name, value, labels), i)
  BY DEF Good, Metric, Declared, LabelNames

\* The descriptors of each collector.
LEMMA Tables ==
  /\ Descriptors["start_service"] = StartServiceDescs
  /\ Descriptors["dispatcher"] = DispatcherDescs
  /\ Descriptors["enqueue_server"] = EnqueueDescs
  /\ Descriptors["workprocess"] = WorkProcessDescs
  BY DEF Descriptors

\* The labels in front of the common ones, and behind them.
LEMMA OneLabel ==
  ASSUME NEW tag, NEW x, tag # "instance_name"
  PROVE  /\ Aligned(<<<<tag, x>>>>, <<tag>>) /\ Plain(<<<<tag, x>>>>, "instance_name")
         /\ Len(<<<<tag, x>>>>) = 1 /\ <<<<tag, x>>>>[1] = <<tag, x>>
<1> DEFINE values == <<<<tag, x>>>>
           names  == <<tag>>
           V == {values[k] : k \in 1..1}
<1>1. values \in Seq(V) /\ names \in Seq({tag}) /\ Len(values) = 1 /\ Len(names) = 1
  OBVIOUS
<1>2. values[1] = <<tag, x>> /\ \A k \in 1..1 : values[k][1] = names[k] /\ names[k] # "instance_name"
  OBVIOUS
<1> HIDE DEF values, names, V
<1>3. Aligned(values, names)
  BY <1>1, <1>2, AlignedList
<1>4. Plain(values, "instance_name")
  BY <1>1, <1>2, <1>3, PlainOf
<1> QED
  BY <1>1, <1>2, <1>3, <1>4 DEF values, names

\* recordInstances, in front of the common labels.
LEMMA Features ==
  ASSUME NEW x, NEW y
  PROVE  LET values == <<<<"features", x>>, <<"start_priority", y>>>>
             names  == <<"features", "start_priority">>
         IN /\ Aligned(values, names) /\ Plain(values, "instance_name")
            /\ Len(values) = 2
<1> DEFINE values == <<<<"features", x>>, <<"start_priority", y>>>>
           names  == <<"features", "start_priority">>
           V == {values[k] : k \in 1..2}
<1>1. /\ values \in Seq(V) /\ names \in Seq({"features", "start_priority"})
      /\ Len(values) = 2 /\ Len(names) = 2
  OBVIOUS
<1>2. \A k \in 1..2 : values[k][1] = names[k] /\ names[k] # "instance_name"
  OBVIOUS
<1> HIDE DEF values, names, V
<1>5. Aligned(values, names)
  BY <1>1, <1>2, AlignedList
<1>6. Plain(values, "instance_name")
  BY <1>1, <1>2, <1>5, PlainOf
<1> QED
  BY <1>1, <1>2, <1>5, <1>6 DEF values, names

\* The aggregated lines of the work processes.
LEMMA TypeStatus ==
  ASSUME NEW x, NEW y
  PROVE  LET values == <<<<"wp_type", x>>, <<"status", y>>>>
             names  == <<"wp_type", "status">>
         IN /\ Aligned(values, names) /\ Plain(values, "instance_name")
            /\ Marked(values, "wp_type", x) /\ Marked(values, "status", y)
            /\ values[1] = <<"wp_type", x>> /\ values[2] = <<"status", y>> /\ Len(values) = 2
<1> DEFINE values == <<<<"wp_type", x>>, <<"status", y>>>>
           names  == <<"wp_type", "status">>
           V == {values[k] : k \in 1..2}
<1>1. /\ values \in Seq(V) /\ names \in Seq({"wp_type", "status"}) /\ Len(values) = 2 /\ Len(names) = 2
  OBVIOUS
<1>2. \A k \in 1..2 : values[k][1] = names[k] /\ names[k] # "instance_name"
  OBVIOUS
<1>3. /\ \A k \in 1..2 : names[k] = "wp_type" => k = 1
      /\ \A k \in 1..2 : names[k] = "status" => k = 2
  OBVIOUS
<1>4. values[1] = <<"wp_type", x>> /\ values[2] = <<"status", y>>
  OBVIOUS
<1> HIDE DEF values, names, V
<1>5. Aligned(values, names)
  BY <1>1, <1>2, AlignedList
<1>6. Plain(values, "instance_name")
  BY <1>1, <1>2, <1>5, PlainOf
<1>7. Marked(values, "wp_type", x)
  <2>1. 1 \in 1..Len(names) /\ \A k \in 1..Len(names) : names[k] = "wp_type" => k = 1
    BY <1>1, <1>3
  <2> QED
    BY <1>4, <1>5, <2>1, MarkedOf, Zenon
<1>8. Marked(values, "status", y)
  <2>1. 2 \in 1..Len(names) /\ \A k \in 1..Len(names) : names[k] = "status" => k = 2
    BY <1>1, <1>3
  <2> QED
    BY <1>4, <1>5, <2>1, MarkedOf, Zenon
<1> QED
  BY <1>1, <1>4, <1>5, <1>6, <1>7, <1>8 DEF values, names

\* recordProcesses, in front of the common labels.
LEMMA ProcessLabels ==
  ASSUME NEW u, NEW v, NEW w, NEW x, NEW y, NEW z
  PROVE  LET values == <<<<"name", u>>, <<"pid", v>>, <<"status", w>>, <<"description", x>>,
                       <<"starttime", y>>, <<"elapsedtime", z>>>>
             names  == <<"name", "pid", "status", "description", "starttime", "elapsedtime">>
         IN /\ Aligned(values, names) /\ Plain(values, "instance_name")
            /\ values[3] = <<"status", w>> /\ Len(values) = 6
<1> DEFINE values == <<<<"name", u>>, <<"pid", v>>, <<"status", w>>, <<"description", x>>,
                       <<"starttime", y>>, <<"elapsedtime", z>>>>
           names  == <<"name", "pid", "status", "description", "starttime", "elapsedtime">>
           V == {values[k] : k \in 1..6}
<1>1. /\ values \in Seq(V) /\ names \in Seq({"name", "pid", "status", "description", "starttime", "elapsedtime"})
      /\ Len(values) = 6 /\ Len(names) = 6
  OBVIOUS
<1>2. \A k \in 1..6 : values[k][1] = names[k] /\ names[k] # "instance_name"
  OBVIOUS
<1>4. values[3] = <<"status", w>>
  OBVIOUS
<1> HIDE DEF values, names, V
<1>5. Aligned(values, names)
  BY <1>1, <1>2, AlignedList
<1>6. Plain(values, "instance_name")
  BY <1>1, <1>2, <1>5, PlainOf
<1> QED
  BY <1>1, <1>2, <1>4, <1>5, <1>6 DEF values, names

\* sendWorkProcessMetrics, in front of the common labels.
LEMMA WpLabels ==
  ASSUME NEW t, NEW u, NEW v, NEW w, NEW x, NEW y, NEW z
  PROVE  LET values == <<<<"wp_type", t>>, <<"status", u>>, <<"pid", v>>, <<"name", w>>,
                       <<"description", x>>, <<"client", y>>, <<"user", z>>>>
             names  == <<"wp_type", "status", "pid", "name", "description", "client", "user">>
         IN /\ Aligned(values, names) /\ Plain(values, "instance_name")
            /\ Marked(values, "wp_type", t) /\ Marked(values, "status", u)
            /\ values[1] = <<"wp_type", t>> /\ values[2] = <<"status", u>> /\ values[4] = <<"name", w>>
            /\ Len(values) = 7
<1> DEFINE values == <<<<"wp_type", t>>, <<"status", u>>, <<"pid", v>>, <<"name", w>>,
                       <<"description", x>>, <<"client", y>>, <<"user", z>>>>
           names  == <<"wp_type", "status", "pid", "name", "description", "client", "user">>
           V == {values[k] : k \in 1..7}
<1>1. /\ values \in Seq(V) /\ names \in Seq({"wp_type", "status", "pid", "name", "description", "client", "user"})
      /\ Len(values) = 7 /\ Len(names) = 7
  OBVIOUS
<1>2. \A k \in 1..7 : values[k][1] = names[k] /\ names[k] # "instance_name"
  OBVIOUS
<1>3. /\ \A k \in 1..7 : names[k] = "wp_type" => k = 1
      /\ \A k \in 1..7 : names[k] = "status" => k = 2
  OBVIOUS
<1>4. values[1] = <<"wp_type", t>> /\ values[2] = <<"status", u>> /\ values[4] = <<"name", w>>
  OBVIOUS
<1> HIDE DEF values, names, V
<1>5. Aligned(values, names)
  BY <1>1, <1>2, AlignedList
<1>6. Plain(values, "instance_name")
  BY <1>1, <1>2, <1>5, PlainOf
<1>7. Marked(values, "wp_type", t)
  <2>1. 1 \in 1..Len(names) /\ \A k \in 1..Len(names) : names[k] = "wp_type" => k = 1
    BY <1>1, <1>3
  <2> QED
    BY <1>4, <1>5, <2>1, MarkedOf, Zenon
<1>8. Marked(values, "status", u)
  <2>1. 2 \in 1..Len(names) /\ \A k \in 1..Len(names) : names[k] = "status" => k = 2
    BY <1>1, <1>3
  <2> QED
    BY <1>4, <1>5, <2>1, MarkedOf, Zenon
<1> QED
  BY <1>1, <1>4, <1>5, <1>6, <1>7, <1>8 DEF values, names

\* An operator: where a metric of a recorder's turn comes from.
Origin(r, m) ==
  \/ r = "instances" /\ m.subsystem = "start_service" /\ m.name = "instances"
  \/ r = "processes" /\ m.subsystem = "start_service" /\ m.name # "instances"
  \/ r = "queues"    /\ m.subsystem = "dispatcher"
  \/ r = "enqueue"   /\ m.subsystem = "enqueue_server"
  \/ r = "workprocs" /\ m.subsystem = "workprocess"

\* The recorder r sends this in its turn for i, of an answer with these records.
Turns(r, i, records, sent) ==
  \/ r = "instances" /\ records = <<>> /\ \E c \in StatColours : sent = recordInstances(i, c)
  \/ r = "processes" /\ records \in Lists(Processes) /\ sent = recordProcesses(i, records)
  \/ r = "queues" /\ records \in Lists(Queues) /\ sent = recordQueues(i, records)
  \/ r = "enqueue" /\ records = <<>>
     /\ \E s \in [EnqStates -> StatColours] : sent = recordEnqStats(i, s)
  \/ r = "workprocs" /\ \E l \in Lists(WorkProcs) :
       records = [n \in DOMAIN l |-> l[n].no] /\ sent = recordWorkProcessStats(i, l)

\* Every metric of a turn has the labels its descriptor declares, one recorder after
\* the other.
LEMMA InstancesGood ==
  ASSUME NEW i, NEW c, NEW k \in DOMAIN recordInstances(i, c)
  PROVE  /\ Good(recordInstances(i, c)[k], i) /\ Origin("instances", recordInstances(i, c)[k])
<1> DEFINE before == <<<<"features", i>>, <<"start_priority", i>>>>  after == <<<<"dispstatus", c>>>>
           names == <<"features", "start_priority">> \o common \o <<"dispstatus">>
           labels == before \o commonLabels(i) \o after
<1>1. /\ "instances" \in DOMAIN Descriptors["start_service"]
      /\ Descriptors["start_service"]["instances"] = names
  BY Tables DEF StartServiceDescs
<1>2. Aligned(before, <<"features", "start_priority">>) /\ Plain(before, "instance_name")
  BY Features
<1>3. Aligned(after, <<"dispstatus">>) /\ Plain(after, "instance_name")
  BY OneLabel
<1>4. Aligned(commonLabels(i), common) /\ Marked(commonLabels(i), "instance_name", i)
  BY CommonLabels
<1>5. Aligned(labels, names) /\ Marked(labels, "instance_name", i)
  BY <1>2, <1>3, <1>4, AlignedConcat, MarkedConcat, Zenon
<1>6. recordInstances(i, c)[k] = Metric("start_service", "instances", StateColorToFloat(c), labels)
  BY DEF recordInstances
<1> HIDE DEF labels, names
<1>7. Good(recordInstances(i, c)[k], i)
  BY <1>1, <1>5, <1>6, GoodMetric, Zenon
<1>8. Origin("instances", recordInstances(i, c)[k])
  BY <1>6 DEF Origin, Metric
<1> QED
  BY <1>7, <1>8

LEMMA ProcessesGood ==
  ASSUME NEW i, NEW list, NEW k \in DOMAIN recordProcesses(i, list)
  PROVE  /\ Good(recordProcesses(i, list)[k], i) /\ Origin("processes", recordProcesses(i, list)[k])
<1> DEFINE m == recordProcesses(i, list)[k]
<1>0. Aligned(commonLabels(i), common) /\ Marked(commonLabels(i), "instance_name", i)
  BY CommonLabels
<1>1. CASE k[1] = "line"
  <2> DEFINE p == list[k[2]]
             before == <<<<"name", p.name>>, <<"pid", p.pid>>, <<"status", p>>, <<"description", p>>,
                         <<"starttime", p>>, <<"elapsedtime", p>>>>
             after == <<<<"proc_dispstatus", p.dispstatus>>>>
             bnames == <<"name", "pid", "status", "description", "starttime", "elapsedtime">>
             names == bnames \o common \o <<"proc_dispstatus">>
             labels == before \o commonLabels(i) \o after
  <2>1. /\ "processes" \in DOMAIN Descriptors["start_service"]
        /\ Descriptors["start_service"]["processes"] = names
    BY Tables DEF StartServiceDescs
  <2>2. Aligned(before, bnames) /\ Plain(before, "instance_name")
    BY ProcessLabels, Zenon
  <2>3. Aligned(after, <<"proc_dispstatus">>) /\ Plain(after, "instance_name")
    BY OneLabel, Zenon
  <2>5. Aligned(labels, names) /\ Marked(labels, "instance_name", i)
    <3> HIDE DEF before, after, bnames
    <3> QED
      BY <1>0, <2>2, <2>3, AlignedConcat, MarkedConcat, Zenon
  <2>6. m = Metric("start_service", "processes", StateColorToFloat(p.dispstatus), labels)
    BY <1>1 DEF recordProcesses, processMetric
  <2> HIDE DEF labels, names, m
  <2>7. Good(m, i)
    BY <2>1, <2>5, <2>6, GoodMetric, Zenon
  <2>8. Origin("processes", m)
    BY <2>6 DEF Origin, Metric
  <2> QED
    BY <2>7, <2>8 DEF m
<1>2. CASE k[1] # "line"
  <2>1. k[2] \in Range(StateColors)
    BY <1>2 DEF recordProcesses
  <2>2. m = Metric("start_service", k[2], Count(list, k[2]), commonLabels(i))
    BY <1>2 DEF recordProcesses, perInstance
  <2>3. Range(StateColors) = {"GRAY", "GREEN", "YELLOW", "RED"}
    BY DEF Range, StateColors
  <2>4. /\ k[2] \in DOMAIN Descriptors["start_service"]
        /\ Descriptors["start_service"][k[2]] = common
    BY <2>1, <2>3, Tables DEF StartServiceDescs
  <2>5. Good(m, i)
    <3> HIDE DEF m
    <3> QED
      BY <1>0, <2>2, <2>4, GoodMetric, Zenon
  <2>6. Origin("processes", m)
    <3> HIDE DEF m
    <3> QED
      BY <2>1, <2>2, <2>3 DEF Origin, Metric
  <2> QED
    BY <2>5, <2>6
<1> QED
  BY <1>1, <1>2

LEMMA QueuesGood ==
  ASSUME NEW i, NEW list, NEW k \in DOMAIN recordQueues(i, list)
  PROVE  /\ Good(recordQueues(i, list)[k], i) /\ Origin("queues", recordQueues(i, list)[k])
<1> DEFINE m == recordQueues(i, list)[k]  before == <<<<"type", list[k[1]]>>>>
           labels == before \o commonLabels(i)  names == <<"type">> \o common
<1>1. Aligned(commonLabels(i), common) /\ Marked(commonLabels(i), "instance_name", i)
  BY CommonLabels
<1>2. Aligned(before, <<"type">>) /\ Plain(before, "instance_name")
  BY OneLabel, Zenon
<1>3. k[2] \in QueueStats /\ m = Metric("dispatcher", k[2], 0, labels)
  BY DEF recordQueues
<1>4. k[2] \in DOMAIN Descriptors["dispatcher"] /\ Descriptors["dispatcher"][k[2]] = names
  BY <1>3, Tables DEF DispatcherDescs, QueueStats
<1>5. Aligned(labels, names) /\ Marked(labels, "instance_name", i)
  BY <1>1, <1>2, AlignedConcat, MarkedConcat, Zenon
<1> HIDE DEF m, labels, names
<1>6. Good(m, i)
  BY <1>3, <1>4, <1>5, GoodMetric, Zenon
<1>7. Origin("queues", m)
  BY <1>3 DEF Origin, Metric
<1> QED
  BY <1>6, <1>7 DEF m

LEMMA EnqueueGood ==
  ASSUME NEW i, NEW state, NEW k \in DOMAIN recordEnqStats(i, state)
  PROVE  /\ Good(recordEnqStats(i, state)[k], i) /\ Origin("enqueue", recordEnqStats(i, state)[k])
<1> DEFINE m == recordEnqStats(i, state)[k]
           v == IF k \in EnqStates THEN StateColorToFloat(state[k]) ELSE 0
<1>1. Aligned(commonLabels(i), common) /\ Marked(commonLabels(i), "instance_name", i)
  BY CommonLabels
<1>2. k \in EnqCounts \cup EnqStates /\ m = Metric("enqueue_server", k, v, commonLabels(i))
  BY DEF recordEnqStats
<1>3. k \in DOMAIN EnqueueDescs
  BY <1>2 DEF EnqCounts, EnqStates, EnqueueDescs
<1>4. k \in DOMAIN Descriptors["enqueue_server"] /\ Descriptors["enqueue_server"][k] = common
  BY <1>3, Tables DEF EnqueueDescs
<1> HIDE DEF m, v
<1>5. Good(m, i)
  BY <1>1, <1>2, <1>4, GoodMetric, Zenon
<1>6. Origin("enqueue", m)
  BY <1>2 DEF Origin, Metric
<1> QED
  BY <1>5, <1>6 DEF m

LEMMA WorkProcsGood ==
  ASSUME NEW i, NEW list, NEW k \in DOMAIN recordWorkProcessStats(i, list)
  PROVE  /\ Good(recordWorkProcessStats(i, list)[k], i)
         /\ Origin("workprocs", recordWorkProcessStats(i, list)[k])
<1> DEFINE m == recordWorkProcessStats(i, list)[k]  p == list[k[2]]
           detail == <<"wp_type", "status", "pid", "name", "description", "client", "user">>
           before == <<<<"wp_type", p.type>>, <<"status", p.status>>, <<"pid", p.pid>>, <<"name", p.no>>,
                       <<"description", "any">>, <<"client", "any">>, <<"user", "any">>>>
           few == <<<<"wp_type", k[2][1]>>, <<"status", k[2][2]>>>>
<1>1. Aligned(commonLabels(i), common) /\ Marked(commonLabels(i), "instance_name", i)
  BY CommonLabels
<1>2. Aligned(before, detail) /\ Plain(before, "instance_name")
  BY WpLabels
<1>3. Aligned(few, <<"wp_type", "status">>) /\ Plain(few, "instance_name")
  BY TypeStatus, Zenon
<1>4. /\ Descriptors["workprocess"]["dispatcher_work_processes_status"] = detail \o common
      /\ Descriptors["workprocess"]["dispatcher_work_processes_cpu"] = detail \o common
      /\ Descriptors["workprocess"]["dispatcher_work_processes"] = <<"wp_type", "status">> \o common
      /\ "dispatcher_work_processes" \in DOMAIN Descriptors["workprocess"]
      /\ "dispatcher_work_processes_cpu" \in DOMAIN Descriptors["workprocess"]
      /\ "dispatcher_work_processes_status" \in DOMAIN Descriptors["workprocess"]
  BY Tables DEF WorkProcessDescs
<1>5. /\ Aligned(before \o commonLabels(i), detail \o common)
      /\ Marked(before \o commonLabels(i), "instance_name", i)
  <2> HIDE DEF before, detail
  <2> QED
    BY <1>1, <1>2, AlignedConcat, MarkedConcat, Zenon
<1>6. /\ Aligned(few \o commonLabels(i), <<"wp_type", "status">> \o common)
      /\ Marked(few \o commonLabels(i), "instance_name", i)
  <2> HIDE DEF few
  <2> QED
    BY <1>1, <1>3, AlignedConcat, MarkedConcat, Zenon
<1>7. wpLabels(i, p) = before \o commonLabels(i)
  BY DEF wpLabels
<1>8. \/ m = Metric("workprocess", "dispatcher_work_processes_status", statusValue(p.status), wpLabels(i, p))
      \/ m = Metric("workprocess", "dispatcher_work_processes_cpu", 0, wpLabels(i, p))
      \/ m = Metric("workprocess", "dispatcher_work_processes",
                    wpCounts(list, k[2][1], k[2][2]), few \o commonLabels(i))
  BY DEF recordWorkProcessStats, sendWorkProcessMetrics, wpTotals
<1> HIDE DEF m, p, detail, before, few
<1>9. Good(m, i)
  BY <1>4, <1>5, <1>6, <1>7, <1>8, GoodMetric, Zenon
<1>10. Origin("workprocs", m)
  BY <1>8 DEF Origin, Metric
<1> QED
  BY <1>9, <1>10 DEF m

\* So for a turn of any recorder.
LEMMA SentGood ==
  ASSUME NEW r, NEW i, NEW records, NEW sent, Turns(r, i, records, sent)
  PROVE  \A k \in DOMAIN sent : Good(sent[k], i) /\ Origin(r, sent[k])
<1>1. CASE r = "instances" /\ records = <<>> /\ \E c \in StatColours : sent = recordInstances(i, c)
  BY <1>1, InstancesGood, Zenon
<1>2. CASE r = "processes" /\ sent = recordProcesses(i, records)
  BY <1>2, ProcessesGood, Zenon
<1>3. CASE r = "queues" /\ sent = recordQueues(i, records)
  BY <1>3, QueuesGood, Zenon
<1>4. CASE r = "enqueue" /\ \E s \in [EnqStates -> StatColours] : sent = recordEnqStats(i, s)
  BY <1>4, EnqueueGood, Zenon
<1>5. CASE r = "workprocs" /\ \E l \in Lists(WorkProcs) : sent = recordWorkProcessStats(i, l)
  BY <1>5, WorkProcsGood, Zenon
<1> QED
  BY <1>1, <1>2, <1>3, <1>4, <1>5, Zenon DEF Turns

-----------------------------------------------------------------------------
(* A turn sends a series once.                                             *)

\* No two metrics of a turn are of one series.
Distinct(sent) == \A j, k \in DOMAIN sent : Series(sent[j]) = Series(sent[k]) => j = k

\* What stands in front stays where it is.
LEMMA InFront ==
  ASSUME NEW a, NEW b, IsSeq(a), IsSeq(b), NEW k \in 1..Len(a)
  PROVE  (a \o b)[k] = a[k]
<1>1. Joins(a, b, a \o b)
  BY Concat, Zenon
<1> DEFINE s == a \o b
<1>2. Joins(a, b, s)
  BY <1>1
<1> HIDE DEF s
<1>3. s[k] = a[k]
  BY <1>2 DEF Joins
<1> QED
  BY <1>3 DEF s

\* The third label of a process tells it from all others.
LEMMA ProcessIdentified ==
  ASSUME NEW i, NEW p
  PROVE  processMetric(i, p).labels[3] = <<"status", p>>
<1> DEFINE before == <<<<"name", p.name>>, <<"pid", p.pid>>, <<"status", p>>, <<"description", p>>,
                       <<"starttime", p>>, <<"elapsedtime", p>>>>
           after == <<<<"proc_dispstatus", p.dispstatus>>>>
           middle == before \o commonLabels(i)
<1>1. /\ IsSeq(before) /\ Len(before) = 6 /\ before[3] = <<"status", p>>
      /\ IsSeq(after) /\ IsSeq(commonLabels(i))
  BY ProcessLabels, OneLabel, CommonLabels DEF Aligned
<1> HIDE DEF before, after
<1>2. Joins(before, commonLabels(i), middle)
  BY <1>1, Concat
<1> HIDE DEF middle
<1>3. IsSeq(middle) /\ 3 \in 1..Len(before) /\ 3 \in 1..Len(middle) /\ middle[3] = before[3]
  BY <1>1, <1>2 DEF Joins
<1>4. (middle \o after)[3] = <<"status", p>>
  BY <1>1, <1>3, InFront
<1> QED
  BY <1>4 DEF processMetric, Metric, middle, before, after

\* The fourth label of a work process is its number.
LEMMA WpIdentified ==
  ASSUME NEW i, NEW wp
  PROVE  /\ wpLabels(i, wp)[1] = <<"wp_type", wp.type>> /\ wpLabels(i, wp)[2] = <<"status", wp.status>>
         /\ wpLabels(i, wp)[4] = <<"name", wp.no>>
         /\ Marked(wpLabels(i, wp), "wp_type", wp.type) /\ Marked(wpLabels(i, wp), "status", wp.status)
<1> DEFINE before == <<<<"wp_type", wp.type>>, <<"status", wp.status>>, <<"pid", wp.pid>>, <<"name", wp.no>>,
                       <<"description", "any">>, <<"client", "any">>, <<"user", "any">>>>
<1>1. /\ IsSeq(before) /\ Len(before) = 7 /\ before[1] = <<"wp_type", wp.type>>
      /\ before[2] = <<"status", wp.status>> /\ before[4] = <<"name", wp.no>>
      /\ Marked(before, "wp_type", wp.type) /\ Marked(before, "status", wp.status)
  BY WpLabels DEF Aligned
<1>2. wpLabels(i, wp) = before \o commonLabels(i)
  BY DEF wpLabels
<1> HIDE DEF before
<1>3. IsSeq(commonLabels(i)) /\ Plain(commonLabels(i), "wp_type") /\ Plain(commonLabels(i), "status")
  BY CommonLabels DEF Aligned
<1>4. /\ 1 \in 1..Len(before) /\ 2 \in 1..Len(before) /\ 4 \in 1..Len(before)
  BY <1>1
<1>5. /\ (before \o commonLabels(i))[1] = before[1] /\ (before \o commonLabels(i))[2] = before[2]
      /\ (before \o commonLabels(i))[4] = before[4]
  <2>1. (before \o commonLabels(i))[1] = before[1]
    BY <1>1, <1>3, <1>4, InFront, Zenon
  <2>2. (before \o commonLabels(i))[2] = before[2]
    BY <1>1, <1>3, <1>4, InFront, Zenon
  <2>3. (before \o commonLabels(i))[4] = before[4]
    BY <1>1, <1>3, <1>4, InFront, Zenon
  <2> QED
    BY <2>1, <2>2, <2>3
<1>6. /\ Marked(before \o commonLabels(i), "wp_type", wp.type)
      /\ Marked(before \o commonLabels(i), "status", wp.status)
  BY <1>1, <1>3, MarkedConcat, Zenon
<1> QED
  BY <1>1, <1>2, <1>5, <1>6

TotalLabels(i, t, u) == <<<<"wp_type", t>>, <<"status", u>>>> \o commonLabels(i)

\* And the first two labels of a total are its type and status.
LEMMA TotalIdentified ==
  ASSUME NEW i, NEW t, NEW u
  PROVE  /\ TotalLabels(i, t, u)[1] = <<"wp_type", t>> /\ TotalLabels(i, t, u)[2] = <<"status", u>>
         /\ Marked(TotalLabels(i, t, u), "wp_type", t) /\ Marked(TotalLabels(i, t, u), "status", u)
<1> DEFINE before == <<<<"wp_type", t>>, <<"status", u>>>>
<1>1. /\ IsSeq(before) /\ Len(before) = 2 /\ before[1] = <<"wp_type", t>> /\ before[2] = <<"status", u>>
      /\ Marked(before, "wp_type", t) /\ Marked(before, "status", u)
  BY TypeStatus DEF Aligned
<1> HIDE DEF before
<1>3. IsSeq(commonLabels(i)) /\ Plain(commonLabels(i), "wp_type") /\ Plain(commonLabels(i), "status")
  BY CommonLabels DEF Aligned
<1>4. /\ 1 \in 1..Len(before) /\ 2 \in 1..Len(before)
  BY <1>1
<1>5. (before \o commonLabels(i))[1] = before[1] /\ (before \o commonLabels(i))[2] = before[2]
  BY <1>1, <1>3, <1>4, InFront, Zenon
<1>6. Marked(before \o commonLabels(i), "wp_type", t) /\ Marked(before \o commonLabels(i), "status", u)
  BY <1>1, <1>3, MarkedConcat, Zenon
<1> QED
  BY <1>1, <1>5, <1>6 DEF before, TotalLabels

\* What an element of the turn's family is.
LEMMA ProcessesSent ==
  ASSUME NEW i, NEW list, NEW k \in DOMAIN recordProcesses(i, list)
  PROVE  \/ /\ k[2] \in DOMAIN list /\ k = <<"line", k[2]>>
            /\ recordProcesses(i, list)[k] = processMetric(i, list[k[2]])
         \/ /\ k[2] \in Range(StateColors) /\ k = <<"count", k[2]>>
            /\ recordProcesses(i, list)[k] = perInstance(i, list, k[2])
  BY DEF recordProcesses

\* A line of a work process, of its CPU time, and of a type and status.
LineOf(i, list, k, m) ==
  /\ k[2] \in DOMAIN list /\ k = <<"status", k[2]>>
  /\ m = Metric("workprocess", "dispatcher_work_processes_status",
               statusValue(list[k[2]].status), wpLabels(i, list[k[2]]))

CpuOf(i, list, k, m) ==
  /\ k[2] \in DOMAIN list /\ k = <<"cpu", k[2]>>
  /\ m = Metric("workprocess", "dispatcher_work_processes_cpu", 0, wpLabels(i, list[k[2]]))

TotalOf(i, list, k, m) ==
  \E n \in DOMAIN list :
    /\ k = <<"count", <<list[n].type, list[n].status>>>>
    /\ m = Metric("workprocess", "dispatcher_work_processes",
                 wpCounts(list, list[n].type, list[n].status),
                 TotalLabels(i, list[n].type, list[n].status))

\* A metric of the turn is one of these.
LEMMA WorkProcsSent ==
  ASSUME NEW i, NEW list, NEW k \in DOMAIN recordWorkProcessStats(i, list)
  PROVE  \/ LineOf(i, list, k, recordWorkProcessStats(i, list)[k])
         \/ CpuOf(i, list, k, recordWorkProcessStats(i, list)[k])
         \/ TotalOf(i, list, k, recordWorkProcessStats(i, list)[k])
<1> DEFINE details == sendWorkProcessMetrics(i, list)  totals == wpTotals(i, list)
<1>1. recordWorkProcessStats(i, list)[k] = IF k \in DOMAIN details THEN details[k] ELSE totals[k]
  BY DEF recordWorkProcessStats
<1>2. CASE k \in DOMAIN details
  <2>1. \/ k[1] = "status" /\ k[2] \in DOMAIN list /\ k = <<k[1], k[2]>>
        \/ k[1] = "cpu" /\ k[2] \in DOMAIN list /\ k = <<k[1], k[2]>>
    BY <1>2 DEF sendWorkProcessMetrics
  <2>2. details[k] = IF k[1] = "status"
                     THEN Metric("workprocess", "dispatcher_work_processes_status",
                                 statusValue(list[k[2]].status), wpLabels(i, list[k[2]]))
                     ELSE Metric("workprocess", "dispatcher_work_processes_cpu", 0, wpLabels(i, list[k[2]]))
    BY <1>2 DEF sendWorkProcessMetrics
  <2> HIDE DEF details
  <2> QED
    BY <1>1, <1>2, <2>1, <2>2 DEF LineOf, CpuOf
<1>3. CASE k \notin DOMAIN details
  <2>1. k \in DOMAIN totals
    BY <1>3 DEF recordWorkProcessStats
  <2>2. PICK n \in DOMAIN list : k = <<"count", <<list[n].type, list[n].status>>>>
    BY <2>1 DEF wpTotals
  <2>3. totals[k] = Metric("workprocess", "dispatcher_work_processes",
                           wpCounts(list, list[n].type, list[n].status),
                           TotalLabels(i, list[n].type, list[n].status))
    BY <2>1, <2>2 DEF wpTotals, TotalLabels
  <2> HIDE DEF details, totals
  <2> QED
    BY <1>1, <1>3, <2>2, <2>3 DEF TotalOf
<1> QED
  BY <1>2, <1>3

\* A turn sends a series twice only if the answer lists a record twice.
LEMMA SentDistinct ==
  ASSUME NEW r, NEW i, NEW records, NEW sent, Turns(r, i, records, sent), IsInjective(records)
  PROVE  Distinct(sent)
<1>1. CASE r = "instances" /\ records = <<>> /\ \E c \in StatColours : sent = recordInstances(i, c)
  BY <1>1 DEF Distinct, recordInstances
<1>2. CASE r = "processes" /\ sent = recordProcesses(i, records)
  <2> SUFFICES ASSUME NEW j \in DOMAIN sent, NEW k \in DOMAIN sent,
                      Series(sent[j]) = Series(sent[k])
               PROVE  j = k
    BY DEF Distinct
  <2>1. sent[j].name = sent[k].name /\ sent[j].labels = sent[k].labels
    BY DEF Series
  <2>2. /\ \A p : processMetric(i, p).name = "processes"
        /\ \A c : perInstance(i, records, c).name = c
        /\ "processes" \notin Range(StateColors)
    BY DEF processMetric, perInstance, Metric, Range, StateColors
  <2>3. \A n \in {j, k} :
           \/ n[2] \in DOMAIN records /\ n = <<"line", n[2]>> /\ sent[n] = processMetric(i, records[n[2]])
           \/ n[2] \in Range(StateColors) /\ n = <<"count", n[2]>> /\ sent[n] = perInstance(i, records, n[2])
    BY <1>2, ProcessesSent
  <2>4. CASE j = <<"line", j[2]>> /\ k = <<"line", k[2]>>
    <3>1. /\ j[2] \in DOMAIN records /\ k[2] \in DOMAIN records
          /\ sent[j] = processMetric(i, records[j[2]]) /\ sent[k] = processMetric(i, records[k[2]])
      BY <2>3, <2>4
    <3>2. <<"status", records[j[2]]>> = <<"status", records[k[2]]>>
      BY <2>1, <3>1, ProcessIdentified
    <3> QED
      BY <2>4, <3>1, <3>2 DEF IsInjective
  <2>5. CASE j = <<"count", j[2]>> /\ k = <<"count", k[2]>>
    BY <2>1, <2>2, <2>3, <2>5
  <2> QED
    BY <2>1, <2>2, <2>3, <2>4, <2>5
<1>3. CASE r = "queues" /\ sent = recordQueues(i, records)
  <2> SUFFICES ASSUME NEW j \in DOMAIN sent, NEW k \in DOMAIN sent,
                      Series(sent[j]) = Series(sent[k])
               PROVE  j = k
    BY DEF Distinct
  <2>1. sent[j].name = sent[k].name /\ sent[j].labels = sent[k].labels
    BY DEF Series
  <2>2. \A n \in {j, k} : /\ n[1] \in DOMAIN records /\ n = <<n[1], n[2]>>
                          /\ sent[n].name = n[2]
                          /\ sent[n].labels = <<<<"type", records[n[1]]>>>> \o commonLabels(i)
    BY <1>3 DEF recordQueues, Metric
  <2>3. \A q : (<<<<"type", q>>>> \o commonLabels(i))[1] = <<"type", q>>
    <3> SUFFICES ASSUME NEW q PROVE (<<<<"type", q>>>> \o commonLabels(i))[1] = <<"type", q>>
      OBVIOUS
    <3> DEFINE a == <<<<"type", q>>>>
    <3>1. IsSeq(a) /\ 1 \in 1..Len(a) /\ a[1] = <<"type", q>> /\ IsSeq(commonLabels(i))
      <4>1. Aligned(a, <<"type">>) /\ Len(a) = 1 /\ a[1] = <<"type", q>>
        BY OneLabel
      <4> HIDE DEF a
      <4> QED
        BY <4>1, CommonLabels DEF Aligned
    <3> HIDE DEF a
    <3>2. (a \o commonLabels(i))[1] = <<"type", q>>
      BY <3>1, InFront
    <3> QED
      BY <3>2 DEF a
  <2>4. <<"type", records[j[1]]>> = <<"type", records[k[1]]>>
    <3>1. \A n \in {j, k} : sent[n].labels[1] = <<"type", records[n[1]]>>
      BY <2>2, <2>3
    <3> QED
      BY <2>1, <3>1
  <2> QED
    BY <2>1, <2>2, <2>4 DEF IsInjective
<1>4. CASE r = "enqueue" /\ \E s \in [EnqStates -> StatColours] : sent = recordEnqStats(i, s)
  BY <1>4 DEF Distinct, recordEnqStats, Metric, Series
<1>5. CASE r = "workprocs" /\ \E l \in Lists(WorkProcs) :
             records = [n \in DOMAIN l |-> l[n].no] /\ sent = recordWorkProcessStats(i, l)
  <2>0. PICK l : records = [n \in DOMAIN l |-> l[n].no] /\ sent = recordWorkProcessStats(i, l)
    BY <1>5
  <2> SUFFICES ASSUME NEW j \in DOMAIN sent, NEW k \in DOMAIN sent,
                      Series(sent[j]) = Series(sent[k])
               PROVE  j = k
    BY DEF Distinct
  <2>1. sent[j].name = sent[k].name /\ sent[j].labels = sent[k].labels
    BY DEF Series
  <2> DEFINE Line(x) == /\ x[2] \in DOMAIN l /\ x = <<"status", x[2]>>
                        /\ sent[x].name = "dispatcher_work_processes_status"
                        /\ sent[x].labels = wpLabels(i, l[x[2]])
             Cpu(x) ==  /\ x[2] \in DOMAIN l /\ x = <<"cpu", x[2]>>
                        /\ sent[x].name = "dispatcher_work_processes_cpu"
                        /\ sent[x].labels = wpLabels(i, l[x[2]])
             Total(x) == \E n \in DOMAIN l :
                        /\ x = <<"count", <<l[n].type, l[n].status>>>>
                        /\ sent[x].name = "dispatcher_work_processes"
                        /\ sent[x].labels = TotalLabels(i, l[n].type, l[n].status)
  <2>2. \A x \in {j, k} : Line(x) \/ Cpu(x) \/ Total(x)
    <3> SUFFICES ASSUME NEW x \in DOMAIN sent PROVE Line(x) \/ Cpu(x) \/ Total(x)
      OBVIOUS
    <3>1. /\ x \in DOMAIN recordWorkProcessStats(i, l)
          /\ sent[x] = recordWorkProcessStats(i, l)[x]
      BY <2>0
    <3>2. LineOf(i, l, x, sent[x]) \/ CpuOf(i, l, x, sent[x]) \/ TotalOf(i, l, x, sent[x])
      BY <3>1, WorkProcsSent, Zenon
    <3>3. CASE LineOf(i, l, x, sent[x])
      BY <3>3 DEF LineOf, Metric
    <3>4. CASE CpuOf(i, l, x, sent[x])
      BY <3>4 DEF CpuOf, Metric
    <3>5. CASE TotalOf(i, l, x, sent[x])
      BY <3>5 DEF TotalOf, Metric
    <3> QED
      BY <3>2, <3>3, <3>4, <3>5
  <2>3. CASE (Line(j) /\ Line(k)) \/ (Cpu(j) /\ Cpu(k))
    <3>1. j[2] \in DOMAIN l /\ k[2] \in DOMAIN l /\ wpLabels(i, l[j[2]]) = wpLabels(i, l[k[2]])
      BY <2>1, <2>3
    <3>2. <<"name", l[j[2]].no>> = <<"name", l[k[2]].no>>
      <4>1. /\ wpLabels(i, l[j[2]])[4] = <<"name", l[j[2]].no>>
            /\ wpLabels(i, l[k[2]])[4] = <<"name", l[k[2]].no>>
        BY WpIdentified, Zenon
      <4> QED
        BY <3>1, <4>1
    <3>3. j[2] = k[2]
      BY <2>0, <3>1, <3>2 DEF IsInjective
    <3> QED
      BY <2>3, <3>3
  <2>4. CASE Total(j) /\ Total(k)
    <3>1. PICK m \in DOMAIN l :
               /\ j = <<"count", <<l[m].type, l[m].status>>>>
               /\ sent[j].labels = TotalLabels(i, l[m].type, l[m].status)
      BY <2>4
    <3>2. PICK n \in DOMAIN l :
               /\ k = <<"count", <<l[n].type, l[n].status>>>>
               /\ sent[k].labels = TotalLabels(i, l[n].type, l[n].status)
      BY <2>4
    <3>3. /\ sent[j].labels[1] = <<"wp_type", l[m].type>> /\ sent[j].labels[2] = <<"status", l[m].status>>
          /\ sent[k].labels[1] = <<"wp_type", l[n].type>> /\ sent[k].labels[2] = <<"status", l[n].status>>
      <4>1. /\ TotalLabels(i, l[m].type, l[m].status)[1] = <<"wp_type", l[m].type>>
            /\ TotalLabels(i, l[m].type, l[m].status)[2] = <<"status", l[m].status>>
            /\ TotalLabels(i, l[n].type, l[n].status)[1] = <<"wp_type", l[n].type>>
            /\ TotalLabels(i, l[n].type, l[n].status)[2] = <<"status", l[n].status>>
        <5>1. \A t, u : /\ TotalLabels(i, t, u)[1] = <<"wp_type", t>>
                        /\ TotalLabels(i, t, u)[2] = <<"status", u>>
          BY TotalIdentified
        <5> QED
          BY <5>1
      <4>2. /\ sent[j].labels = TotalLabels(i, l[m].type, l[m].status)
            /\ sent[k].labels = TotalLabels(i, l[n].type, l[n].status)
        BY <3>1, <3>2
      <4> QED
        BY <4>1, <4>2, Zenon
    <3>4. l[m].type = l[n].type /\ l[m].status = l[n].status
      BY <2>1, <3>3
    <3> QED
      BY <3>1, <3>2, <3>4
  <2> QED
    BY <2>1, <2>2, <2>3, <2>4
<1> QED
  BY <1>1, <1>2, <1>3, <1>4, <1>5, Zenon DEF Turns
-----------------------------------------------------------------------------
(* The inductive invariant.                                                *)

\* The metrics that r has sent for i.
Own(r, i) == {m \in metrics : Origin(r, m) /\ Good(m, i)}

\* All of them are of one turn, which is over.
OneTurn(r, i) ==
  \/ Own(r, i) = {}
  \/ /\ i \notin todo[r] /\ pc[r] # "start"
     /\ \E records, sent : /\ Turns(r, i, records, sent) /\ Own(r, i) = Range(sent)
                           /\ ~ refused => Distinct(sent)

Types ==
  /\ todo \in [Recorders -> SUBSET Instances]
  /\ pc \in [Recorders -> {"start", "loop", "done"}]
  /\ panicked \in BOOLEAN /\ refused \in BOOLEAN /\ repeated \in BOOLEAN

\* Every metric is one of these, no panic has happened, and a refusal has its reason.
MetricsIInv ==
  /\ Types
  /\ ~ panicked
  /\ refused => repeated
  /\ \A m \in metrics : \E r \in Recorders, i \in Instances : m \in Own(r, i)
  /\ \A r \in Recorders, i \in Instances : OneTurn(r, i)

\* A metric is of one recorder and one instance.
LEMMA OwnUnique ==
  ASSUME NEW m, NEW q, NEW r, NEW i, NEW j,
         Origin(q, m), Origin(r, m), Good(m, i), Good(m, j)
  PROVE  q = r /\ i = j
<1>1. q = r
  BY DEF Origin
<1>2. i = j
  BY DEF Good, Marked
<1> QED
  BY <1>1, <1>2

\* What identifies a series says whose it is.
LEMMA SeriesOwner ==
  ASSUME NEW m, NEW n, Series(m) = Series(n), NEW r, NEW i, Origin(r, n), Good(n, i)
  PROVE  Origin(r, m) /\ Good(m, i)
<1>1. m.subsystem = n.subsystem /\ m.name = n.name /\ m.labels = n.labels
  BY DEF Series
<1> QED
  BY <1>1 DEF Origin, Good, Declared, LabelNames

\* makeMetric does not panic on a good metric.
LEMMA GoodWellFormed ==
  ASSUME NEW m, NEW i, Good(m, i)
  PROVE  WellFormed(m) /\ \A k \in DOMAIN m.labels : m.labels[k][1] = LabelNames(m)[k]
<1>1. PICK S : m.labels \in Seq(S)
  BY DEF Good, Aligned, IsSeq
<1>2. DOMAIN m.labels = 1..Len(m.labels)
  BY <1>1
<1> QED
  BY <1>2 DEF Good, Aligned, WellFormed

\* A turn of a recorder is one of those.
LEMMA RecordTurns ==
  ASSUME NEW r, NEW i, Record(r, i)
  PROVE  Turn(r, i) /\ \E records, sent : Turns(r, i, records, sent) /\ Shows(records, sent)
<1>1. CASE r = "instances" /\ \E c \in StatColours : Shows(<<>>, recordInstances(i, c))
  <2>1. PICK c \in StatColours : Shows(<<>>, recordInstances(i, c))
    BY <1>1
  <2>2. Turns(r, i, <<>>, recordInstances(i, c))
    BY <1>1, <2>1 DEF Turns
  <2> QED
    BY <2>1, <2>2 DEF Record
<1>2. CASE r = "processes" /\ \E l \in Lists(Processes) : Shows(l, recordProcesses(i, l))
  <2>1. PICK l \in Lists(Processes) : Shows(l, recordProcesses(i, l))
    BY <1>2
  <2>2. Turns(r, i, l, recordProcesses(i, l))
    BY <1>2, <2>1 DEF Turns
  <2> QED
    BY <2>1, <2>2 DEF Record
<1>3. CASE r = "queues" /\ \E l \in Lists(Queues) : Shows(l, recordQueues(i, l))
  <2>1. PICK l \in Lists(Queues) : Shows(l, recordQueues(i, l))
    BY <1>3
  <2>2. Turns(r, i, l, recordQueues(i, l))
    BY <1>3, <2>1 DEF Turns
  <2> QED
    BY <2>1, <2>2 DEF Record
<1>4. CASE r = "enqueue" /\ \E s \in [EnqStates -> StatColours] : Shows(<<>>, recordEnqStats(i, s))
  <2>1. PICK s \in [EnqStates -> StatColours] : Shows(<<>>, recordEnqStats(i, s))
    BY <1>4
  <2>2. Turns(r, i, <<>>, recordEnqStats(i, s))
    BY <1>4, <2>1 DEF Turns
  <2> QED
    BY <2>1, <2>2 DEF Record
<1>5. CASE r = "workprocs" /\ \E l \in Lists(WorkProcs) :
             Shows([n \in DOMAIN l |-> l[n].no], recordWorkProcessStats(i, l))
  <2>1. PICK l \in Lists(WorkProcs) :
               Shows([n \in DOMAIN l |-> l[n].no], recordWorkProcessStats(i, l))
    BY <1>5
  <2>2. Turns(r, i, [n \in DOMAIN l |-> l[n].no], recordWorkProcessStats(i, l))
    BY <1>5, <2>1 DEF Turns
  <2> QED
    BY <2>1, <2>2 DEF Record
<1> QED
  BY <1>1, <1>2, <1>3, <1>4, <1>5, Zenon DEF Record

\* The invariant survives a turn: what is sent is new, and all of it is of one turn.
LEMMA RecordKeeps ==
  ASSUME MetricsIInv, NEW r \in Recorders, NEW i \in Instances, Record(r, i)
  PROVE  MetricsIInv'
<1>1. Turn(r, i)
  BY RecordTurns, Zenon
<1>2. PICK records, sent : Turns(r, i, records, sent) /\ Shows(records, sent)
  BY RecordTurns, Zenon
<1>3. \A k \in DOMAIN sent : Good(sent[k], i) /\ Origin(r, sent[k])
  BY <1>2, SentGood, Zenon
<1>4. /\ metrics' = metrics \cup Range(sent)
      /\ panicked' = (panicked \/ \E k \in DOMAIN sent : ~ WellFormed(sent[k]))
      /\ refused' = (refused \/ \E k \in DOMAIN sent :
                               \/ \E m \in metrics : Series(m) = Series(sent[k])
                               \/ \E j \in DOMAIN sent \ {k} : Series(sent[j]) = Series(sent[k]))
      /\ repeated' = (repeated \/ ~ IsInjective(records))
  BY <1>2, Zenon DEF Shows, Emit
<1>5. /\ pc[r] = "loop" /\ i \in todo[r] /\ pc' = pc
      /\ todo' = [todo EXCEPT ![r] = todo[r] \ {i}]
  BY <1>1 DEF Turn
<1>6. Own(r, i) = {}
  BY <1>5, Zenon DEF MetricsIInv, OneTurn
<1>7. Range(sent) = {sent[k] : k \in DOMAIN sent}
  BY DEF Range
<1>8. Types'
  BY <1>4, <1>5 DEF MetricsIInv, Types
<1>9. ~ panicked'
  BY <1>3, <1>4, GoodWellFormed, Zenon DEF MetricsIInv
<1>10. ASSUME ~ Distinct(sent) PROVE repeated' /\ refused'
  <2>1. ~ IsInjective(records)
    BY <1>2, <1>10, SentDistinct, Zenon
  <2>2. PICK k \in DOMAIN sent, j \in DOMAIN sent : Series(sent[j]) = Series(sent[k]) /\ j # k
    BY <1>10 DEF Distinct
  <2> QED
    BY <1>4, <2>1, <2>2
<1>11. ASSUME refused' PROVE repeated'
  <2>1. CASE refused
    BY <1>4, <2>1 DEF MetricsIInv
  <2>2. CASE \E k \in DOMAIN sent : \E m \in metrics : Series(m) = Series(sent[k])
    <3>1. PICK k \in DOMAIN sent, m \in metrics : Series(m) = Series(sent[k])
      BY <2>2
    <3>2. Origin(r, m) /\ Good(m, i)
      BY <1>3, <3>1, SeriesOwner, Zenon
    <3> QED
      BY <1>6, <3>2 DEF Own
  <2>3. CASE \E k \in DOMAIN sent : \E j \in DOMAIN sent \ {k} : Series(sent[j]) = Series(sent[k])
    BY <1>10, <2>3 DEF Distinct
  <2> QED
    BY <1>4, <1>11, <2>1, <2>2, <2>3, Zenon
<1>12. Own(r, i)' = Range(sent)
  BY <1>3, <1>4, <1>6, <1>7 DEF Own
<1>13. ASSUME NEW q \in Recorders, NEW j \in Instances, q # r \/ j # i
       PROVE  Own(q, j)' = Own(q, j)
  <2>1. \A k \in DOMAIN sent : ~ (Origin(q, sent[k]) /\ Good(sent[k], j))
    BY <1>3, <1>13, OwnUnique, Zenon
  <2> QED
    BY <1>4, <1>7, <2>1 DEF Own
<1>14. ASSUME NEW m \in metrics' PROVE \E q \in Recorders, j \in Instances : m \in Own(q, j)'
  <2>1. CASE m \in metrics
    <3>1. PICK q \in Recorders, j \in Instances : m \in Own(q, j)
      BY <2>1 DEF MetricsIInv
    <3>2. m \in Own(q, j)'
      BY <1>4, <3>1 DEF Own
    <3> QED
      BY <3>2
  <2>2. CASE m \in Range(sent)
    BY <1>12, <2>2
  <2> QED
    BY <1>4, <2>1, <2>2
<1>15. ASSUME NEW q \in Recorders, NEW j \in Instances PROVE OneTurn(q, j)'
  <2>1. CASE q = r /\ j = i
    <3>1. i \notin todo'[r] /\ pc'[r] # "start"
      BY <1>5 DEF MetricsIInv, Types
    <3>2. ~ refused' => Distinct(sent)
      BY <1>10
    <3> QED
      BY <1>2, <1>12, <2>1, <3>1, <3>2 DEF OneTurn
  <2>2. CASE q # r \/ j # i
    <3>1. Own(q, j)' = Own(q, j)
      BY <1>13, <2>2
    <3>2. todo'[q] \subseteq todo[q] /\ pc'[q] = pc[q] /\ (~ refused' => ~ refused)
      BY <1>4, <1>5 DEF MetricsIInv, Types
    <3>3. OneTurn(q, j)
      BY DEF MetricsIInv
    <3>4. CASE Own(q, j) = {}
      BY <3>1, <3>4 DEF OneTurn
    <3>5. CASE Own(q, j) # {}
      <4>1. j \notin todo[q] /\ pc[q] # "start"
        BY <3>3, <3>5 DEF OneTurn
      <4>2. PICK rs, s : /\ Turns(q, j, rs, s) /\ Own(q, j) = Range(s)
                         /\ ~ refused => Distinct(s)
        BY <3>3, <3>5, Zenon DEF OneTurn
      <4>3. /\ j \notin todo'[q] /\ pc'[q] # "start"
            /\ Turns(q, j, rs, s) /\ Own(q, j)' = Range(s) /\ (~ refused' => Distinct(s))
        BY <3>1, <3>2, <4>1, <4>2
      <4> QED
        BY <4>3, Zenon DEF OneTurn
    <3> QED
      BY <3>4, <3>5
  <2> QED
    BY <2>1, <2>2
<1> QED
  BY <1>8, <1>9, <1>11, <1>14, <1>15 DEF MetricsIInv

\* A step that sends nothing and hands out only instances not visited yet.
LEMMA QuietKeeps ==
  ASSUME MetricsIInv, UNCHANGED <<metrics, panicked, refused, repeated>>, Types',
         \A r \in Recorders : \A i \in Instances :
           i \notin todo[r] /\ pc[r] # "start" => i \notin todo'[r] /\ pc'[r] # "start"
  PROVE  MetricsIInv'
<1>1. \A r \in Recorders, i \in Instances : Own(r, i)' = Own(r, i)
  BY DEF Own
<1>2. ASSUME NEW r \in Recorders, NEW i \in Instances PROVE OneTurn(r, i)'
  <2>1. OneTurn(r, i) /\ Own(r, i)' = Own(r, i) /\ refused' = refused
    BY <1>1 DEF MetricsIInv
  <2>2. i \notin todo[r] /\ pc[r] # "start" => i \notin todo'[r] /\ pc'[r] # "start"
    OBVIOUS
  <2>3. CASE Own(r, i) = {}
    BY <2>1, <2>3 DEF OneTurn
  <2>4. CASE Own(r, i) # {}
    <3>1. i \notin todo[r] /\ pc[r] # "start"
      BY <2>1, <2>4 DEF OneTurn
    <3>2. PICK rs, s : /\ Turns(r, i, rs, s) /\ Own(r, i) = Range(s)
                       /\ ~ refused => Distinct(s)
      BY <2>1, <2>4, Zenon DEF OneTurn
    <3>3. /\ i \notin todo'[r] /\ pc'[r] # "start"
          /\ Turns(r, i, rs, s) /\ Own(r, i)' = Range(s) /\ (~ refused' => Distinct(s))
      BY <2>1, <2>2, <3>1, <3>2
    <3> QED
      BY <3>3, Zenon DEF OneTurn
  <2> QED
    BY <2>3, <2>4
<1>3. ASSUME NEW m \in metrics' PROVE \E r \in Recorders, i \in Instances : m \in Own(r, i)'
  <2>1. PICK r \in Recorders, i \in Instances : m \in Own(r, i)
    BY DEF MetricsIInv
  <2>2. m \in Own(r, i)'
    BY <1>1, <2>1
  <2> QED
    BY <2>2
<1> QED
  BY <1>2, <1>3 DEF MetricsIInv

\* And every other step.
LEMMA MetricsKeeps ==
  ASSUME MetricsIInv, [MetricsNext]_seen
  PROVE  MetricsIInv'
<1> USE DEF Types
<1>1. ASSUME NEW r \in Recorders, GetCachedInstanceList(r) PROVE MetricsIInv'
  <2>1. Types' /\ UNCHANGED <<metrics, panicked, refused, repeated>>
    BY <1>1 DEF GetCachedInstanceList, MetricsIInv
  <2>2. \A q \in Recorders : \A i \in Instances :
          i \notin todo[q] /\ pc[q] # "start" => i \notin todo'[q] /\ pc'[q] # "start"
    BY <1>1 DEF GetCachedInstanceList, MetricsIInv
  <2> QED
    BY <2>1, <2>2, QuietKeeps
<1>2. ASSUME NEW r \in Recorders, Ends(r) PROVE MetricsIInv'
  <2>1. Types' /\ UNCHANGED <<metrics, panicked, refused, repeated>>
    BY <1>2 DEF Ends, MetricsIInv
  <2>2. \A q \in Recorders : \A i \in Instances :
          i \notin todo[q] /\ pc[q] # "start" => i \notin todo'[q] /\ pc'[q] # "start"
    BY <1>2 DEF Ends, MetricsIInv
  <2> QED
    BY <2>1, <2>2, QuietKeeps
<1>3. ASSUME NEW r \in Recorders, NEW i \in Instances, Skip(r, i) PROVE MetricsIInv'
  <2>1. Types' /\ UNCHANGED <<metrics, panicked, refused, repeated>>
    BY <1>3 DEF Skip, Turn, MetricsIInv
  <2>2. \A q \in Recorders : \A j \in Instances :
          j \notin todo[q] /\ pc[q] # "start" => j \notin todo'[q] /\ pc'[q] # "start"
    BY <1>3 DEF Skip, Turn, MetricsIInv
  <2> QED
    BY <2>1, <2>2, QuietKeeps
<1>4. ASSUME NEW r \in Recorders, NEW i \in Instances, Record(r, i) PROVE MetricsIInv'
  BY <1>4, RecordKeeps
<1>5. CASE UNCHANGED seen
  <2>1. /\ todo' = todo /\ pc' = pc /\ metrics' = metrics /\ panicked' = panicked
        /\ refused' = refused /\ repeated' = repeated
    BY <1>5 DEF seen
  <2>2. Types'
    BY <2>1 DEF MetricsIInv
  <2> QED
    BY <2>1, <2>2, QuietKeeps
<1> QED
  BY <1>1, <1>2, <1>3, <1>4, <1>5 DEF MetricsNext

\* The shape of the state, and what each metric received so far is.
THEOREM MetricsInvariance == MetricsSpec => []MetricsIInv
<1>1. MetricsInit => MetricsIInv
  BY DEF MetricsInit, MetricsIInv, Types, OneTurn, Own
<1>2. MetricsIInv /\ [MetricsNext]_seen => MetricsIInv'
  BY MetricsKeeps
<1> QED
  BY <1>1, <1>2, PTL DEF MetricsSpec

\* Every label value that is shown stands under the name it was declared with, and
\* no recorder panics on a metric it makes, whatever SAP answers.
THEOREM AllAligned == MetricsSpec => []LabelsAligned
<1>1. MetricsIInv => LabelsAligned
  <2> SUFFICES ASSUME MetricsIInv PROVE LabelsAligned
    OBVIOUS
  <2>1. ASSUME NEW m \in metrics
        PROVE  Declared(m) /\ \A k \in DOMAIN m.labels : m.labels[k][1] = LabelNames(m)[k]
    <3>1. PICK i : Good(m, i)
      BY DEF MetricsIInv, Own
    <3> QED
      BY <3>1, GoodWellFormed DEF WellFormed
  <2> QED
    BY <2>1 DEF LabelsAligned, MetricsIInv
<1> QED
  BY <1>1, MetricsInvariance, PTL

\* A scrape is refused only if SAP lists a record twice: for any number of
\* instances and records.
THEOREM RefusedForARepeat == MetricsSpec => []RefusedOnlyForRepeats
<1>1. MetricsIInv => RefusedOnlyForRepeats
  BY DEF MetricsIInv, RefusedOnlyForRepeats
<1> QED
  BY <1>1, MetricsInvariance, PTL
-----------------------------------------------------------------------------
(* The numbers of a scrape agree.                                          *)

\* f shows each element of S as a different one: there are as many.
LEMMA SameNumber ==
  ASSUME NEW S, IsFiniteSet(S), NEW f, DOMAIN f = S,
         \A x, y \in S : f[x] = f[y] => x = y, f = [x \in S |-> f[x]]
  PROVE  Cardinality({f[x] : x \in S}) = Cardinality(S)
<1> DEFINE T == {f[x] : x \in S}
<1>1. f \in [S -> T]
  OBVIOUS
<1>2. f \in Bijection(S, T)
  BY <1>1 DEF Bijection, Injection, Surjection, IsInjective
<1>3. ExistsBijection(S, T)
  BY <1>2 DEF ExistsBijection
<1> HIDE DEF T
<1>4. Cardinality(T) = Cardinality(S)
  BY <1>3, FS_Bijection
<1> QED
  BY <1>4 DEF T

\* An answer lists finitely many records.
LEMMA FiniteAnswer ==
  ASSUME NEW S, NEW l \in Lists(S)
  PROVE  IsFiniteSet(DOMAIN l)
<1>1. PICK m \in 0..MaxList : l \in [1..m -> S]
  BY DEF Lists, BoundedSeq, SeqOf
<1>2. IsFiniteSet(1..m)
  BY <1>1, FS_Interval
<1> QED
  BY <1>1, <1>2

\* The code of a colour belongs to no other string.
LEMMA ColourCode ==
  ASSUME NEW colour \in Range(StateColors), NEW c
  PROVE  StateColorToFloat(c) = StateColorToFloat(colour) <=> c = colour
<1>1. /\ DOMAIN StateColors = 1..4 /\ Len(StateColors) = 4
      /\ StateColors[1] = "GRAY" /\ StateColors[2] = "GREEN"
      /\ StateColors[3] = "YELLOW" /\ StateColors[4] = "RED"
  BY DEF StateColors
<1>2. \A j, k \in 1..4 : StateColors[j] = StateColors[k] => j = k
  BY <1>1
<1>3. ASSUME NEW n \in 1..4 PROVE StateColorToFloat(StateColors[n]) = n
  <2>1. Contains(StateColors, StateColors[n])
    BY <1>1 DEF Contains
  <2>2. (CHOOSE code \in DOMAIN StateColors : StateColors[code] = StateColors[n]) = n
    BY <1>1, <1>2
  <2> QED
    BY <2>1, <2>2 DEF StateColorToFloat
<1>4. PICK n \in 1..4 : colour = StateColors[n]
  BY <1>1 DEF Range
<1>5. CASE Contains(StateColors, c)
  <2>1. PICK k \in 1..4 : c = StateColors[k]
    BY <1>1, <1>5 DEF Contains
  <2> QED
    BY <1>2, <1>3, <1>4, <2>1
<1>6. CASE ~ Contains(StateColors, c)
  <2>1. StateColorToFloat(c) = 0
    BY <1>6 DEF StateColorToFloat
  <2>2. c # colour
    BY <1>1, <1>4, <1>6 DEF Contains
  <2> QED
    BY <1>3, <1>4, <2>1, <2>2
<1> QED
  BY <1>5, <1>6

\* A colour that is one has one of the four codes.
LEMMA ValidCode ==
  ASSUME NEW c, ValidColor(c)
  PROVE  StateColorToFloat(c) \in DOMAIN StateColors
<1>1. Contains(StateColors, c)
  BY DEF ValidColor, StateColorToFloat
<1>2. \E k \in DOMAIN StateColors : StateColors[k] = c
  BY <1>1 DEF Contains, StateColors
<1> QED
  BY <1>1, <1>2 DEF StateColorToFloat

\* The label that marks a list is the one that it shows.
LEMMA ShownMarked ==
  ASSUME NEW m, NEW tag, NEW v, Marked(m.labels, tag, v), NEW w
  PROVE  Shown(m, tag, w) <=> w = v
<1>1. PICK S : m.labels \in Seq(S)
  BY DEF Marked, IsSeq
<1>2. DOMAIN m.labels = 1..Len(m.labels)
  BY <1>1
<1> QED
  BY <1>2 DEF Marked, Shown

\* The metrics of a subsystem that show i are those of its recorder's turn for i.
LEMMA ShownIsOwn ==
  ASSUME MetricsIInv, NEW m \in metrics, NEW i, Shown(m, "instance_name", i)
  PROVE  i \in Instances /\ \E r \in Recorders : m \in Own(r, i)
<1>1. PICK r \in Recorders, j \in Instances : m \in Own(r, j)
  BY DEF MetricsIInv
<1>2. Marked(m.labels, "instance_name", j)
  BY <1>1 DEF Own, Good
<1>3. i = j
  BY <1>2, ShownMarked
<1> QED
  BY <1>1, <1>3

\* The other way round.
LEMMA OwnIsShown ==
  ASSUME NEW r, NEW i, NEW m \in Own(r, i)
  PROVE  m \in metrics /\ Shown(m, "instance_name", i) /\ Origin(r, m)
<1>1. Marked(m.labels, "instance_name", i)
  BY DEF Own, Good
<1> QED
  BY <1>1, ShownMarked DEF Own

\* A recorder that has sent something for i has had its turn for i.
LEMMA OwnTurn ==
  ASSUME MetricsIInv, NEW r \in Recorders, NEW i \in Instances, Own(r, i) # {}
  PROVE  \E records, sent : /\ Turns(r, i, records, sent) /\ Own(r, i) = Range(sent)
                            /\ ~ refused => Distinct(sent)
  BY Zenon DEF MetricsIInv, OneTurn

\* The turn's line for a process.
LEMMA ProcessFields ==
  ASSUME NEW i, NEW p
  PROVE  /\ processMetric(i, p).subsystem = "start_service" /\ processMetric(i, p).name = "processes"
         /\ processMetric(i, p).value = StateColorToFloat(p.dispstatus)
  BY DEF processMetric, Metric

\* The line that counts a colour.
LEMMA CountFields ==
  ASSUME NEW i, NEW list, NEW c
  PROVE  perInstance(i, list, c).name = c /\ perInstance(i, list, c).value = Count(list, c)
  BY DEF perInstance, Metric

LEMMA ColourNames == "processes" \notin Range(StateColors) /\ "instances" \notin Range(StateColors)
  BY DEF Range, StateColors

\* Every process that is listed has its line.
LEMMA LineSent ==
  ASSUME NEW i, NEW list, NEW n \in DOMAIN list
  PROVE  /\ <<"line", n>> \in DOMAIN recordProcesses(i, list)
         /\ recordProcesses(i, list)[<<"line", n>>] = processMetric(i, list[n])
<1> DEFINE k == <<"line", n>>
<1>1. k \in DOMAIN recordProcesses(i, list) /\ k[1] = "line" /\ k[2] = n
  BY DEF recordProcesses
<1>2. recordProcesses(i, list)[k] =
        IF k[1] = "line" THEN processMetric(i, list[k[2]]) ELSE perInstance(i, list, k[2])
  BY <1>1 DEF recordProcesses
<1> HIDE DEF k
<1>3. recordProcesses(i, list)[k] = processMetric(i, list[n])
  BY <1>1, <1>2
<1> QED
  BY <1>1, <1>3 DEF k

\* Each process that is listed is a line of its own, so that as many lines have a colour
\* as the count says.
LEMMA ProcessCounts == ASSUME MetricsIInv PROVE ProcessCountsAgree
<1> SUFFICES ASSUME ~ refused, NEW i \in Instances, NEW colour \in Range(StateColors),
                    NEW m \in Lines("start_service", colour, i)
             PROVE  m.value = Cardinality({p \in Lines("start_service", "processes", i) :
                                             p.value = StateColorToFloat(colour)})
  BY DEF ProcessCountsAgree
<1>1. /\ m \in metrics /\ m.subsystem = "start_service" /\ m.name = colour
      /\ Shown(m, "instance_name", i)
  BY DEF Lines
<1>2. colour # "instances" /\ colour # "processes"
  BY ColourNames
<1>3. PICK r \in Recorders : m \in Own(r, i)
  BY <1>1, ShownIsOwn
<1>4. r = "processes"
  BY <1>1, <1>2, <1>3, OwnIsShown DEF Origin
<1>5. PICK list, sent : /\ Turns(r, i, list, sent) /\ Own(r, i) = Range(sent) /\ Distinct(sent)
  BY <1>3, OwnTurn
<1>6. list \in Lists(Processes) /\ sent = recordProcesses(i, list)
  BY <1>4, <1>5 DEF Turns
<1> DEFINE Lined == {n \in DOMAIN list : list[n].dispstatus = colour}
           f == [n \in Lined |-> sent[<<"line", n>>]]
<1>7. \A n \in DOMAIN list : /\ <<"line", n>> \in DOMAIN sent
                             /\ sent[<<"line", n>>] = processMetric(i, list[n])
  BY <1>6, LineSent
<1>8. IsFiniteSet(Lined)
  BY <1>6, FiniteAnswer, FS_Subset
<1>9. \A x, y \in Lined : f[x] = f[y] => x = y
  <2> SUFFICES ASSUME NEW x \in Lined, NEW y \in Lined, sent[<<"line", x>>] = sent[<<"line", y>>]
               PROVE  x = y
    OBVIOUS
  <2>1. <<"line", x>> = <<"line", y>>
    BY <1>5, <1>7 DEF Distinct
  <2> QED
    BY <2>1
<1>10. m.value = Cardinality(Lined)
  <2>1. PICK k \in DOMAIN sent : m = sent[k]
    BY <1>3, <1>5 DEF Range
  <2>2. \/ sent[k] = processMetric(i, list[k[2]])
        \/ sent[k] = perInstance(i, list, k[2])
    BY <1>6, ProcessesSent
  <2>3. sent[k] = perInstance(i, list, k[2]) /\ k[2] = colour
    <3>1. sent[k].name = colour
      BY <1>1, <2>1
    <3>2. sent[k] # processMetric(i, list[k[2]])
      BY <1>2, <3>1, ProcessFields
    <3>3. sent[k] = perInstance(i, list, k[2])
      BY <2>2, <3>2
    <3> QED
      BY <3>1, <3>3, CountFields
  <2>4. m.value = Count(list, colour)
    BY <2>1, <2>3, CountFields
  <2> QED
    BY <2>4 DEF Count
<1>11. {p \in Lines("start_service", "processes", i) : p.value = StateColorToFloat(colour)}
       = {f[n] : n \in Lined}
  <2>1. ASSUME NEW p \in Lines("start_service", "processes", i), p.value = StateColorToFloat(colour)
        PROVE  p \in {f[n] : n \in Lined}
    <3>1. /\ p \in metrics /\ p.subsystem = "start_service" /\ p.name = "processes"
          /\ Shown(p, "instance_name", i)
      BY DEF Lines
    <3>2. PICK q \in Recorders : p \in Own(q, i)
      BY <3>1, ShownIsOwn
    <3>3. q = "processes"
      BY <3>1, <3>2, OwnIsShown DEF Origin
    <3>4. PICK k \in DOMAIN sent : p = sent[k]
      BY <1>4, <1>5, <3>2, <3>3 DEF Range
    <3>5. \/ k[2] \in DOMAIN list /\ k = <<"line", k[2]>> /\ sent[k] = processMetric(i, list[k[2]])
          \/ k[2] \in Range(StateColors) /\ sent[k] = perInstance(i, list, k[2])
      BY <1>6, ProcessesSent
    <3>6. k[2] \in DOMAIN list /\ k = <<"line", k[2]>> /\ sent[k] = processMetric(i, list[k[2]])
      <4>1. sent[k].name = "processes"
        BY <3>1, <3>4
      <4>2. CASE k[2] \in Range(StateColors) /\ sent[k] = perInstance(i, list, k[2])
        BY <4>1, <4>2, CountFields, ColourNames
      <4> QED
        BY <3>5, <4>2
    <3>7. StateColorToFloat(list[k[2]].dispstatus) = StateColorToFloat(colour)
      <4>1. sent[k].value = StateColorToFloat(colour)
        BY <2>1, <3>4
      <4> QED
        BY <3>6, <4>1, ProcessFields
    <3>8. k[2] \in Lined
      BY <3>6, <3>7, ColourCode
    <3>9. p = f[k[2]]
      BY <3>4, <3>6, <3>8
    <3> QED
      BY <3>8, <3>9
  <2>2. ASSUME NEW n \in Lined
        PROVE  f[n] \in Lines("start_service", "processes", i) /\ f[n].value = StateColorToFloat(colour)
    <3>1. f[n] = sent[<<"line", n>>] /\ <<"line", n>> \in DOMAIN sent /\ f[n] = processMetric(i, list[n])
      BY <1>7
    <3>2. f[n] \in Own(r, i)
      BY <1>5, <3>1 DEF Range
    <3>3. f[n] \in metrics /\ Shown(f[n], "instance_name", i)
      BY <3>2, OwnIsShown
    <3>4. f[n].subsystem = "start_service" /\ f[n].name = "processes"
          /\ f[n].value = StateColorToFloat(list[n].dispstatus)
      BY <3>1, ProcessFields
    <3> QED
      BY <3>3, <3>4 DEF Lines
  <2> QED
    BY <2>1, <2>2
<1>12. Cardinality({f[n] : n \in Lined}) = Cardinality(Lined)
  <2>1. DOMAIN f = Lined /\ f = [n \in Lined |-> f[n]]
    OBVIOUS
  <2> HIDE DEF f, Lined
  <2> QED
    BY <1>8, <1>9, <2>1, SameNumber
<1> QED
  BY <1>10, <1>11, <1>12

\* What the turn's lines say of a work process, and of a type and status.
LEMMA WpLineFields ==
  ASSUME NEW i, NEW list, NEW k, NEW m, LineOf(i, list, k, m)
  PROVE  /\ m.subsystem = "workprocess" /\ m.name = "dispatcher_work_processes_status"
         /\ k[2] \in DOMAIN list /\ k = <<"status", k[2]>>
         /\ \A t : Shown(m, "wp_type", t) <=> t = list[k[2]].type
         /\ \A u : Shown(m, "status", u) <=> u = list[k[2]].status
         /\ m.labels[1][2] = list[k[2]].type /\ m.labels[2][2] = list[k[2]].status
<1>1. /\ m.subsystem = "workprocess" /\ m.name = "dispatcher_work_processes_status"
      /\ k[2] \in DOMAIN list /\ k = <<"status", k[2]>> /\ m.labels = wpLabels(i, list[k[2]])
  BY DEF LineOf, Metric
<1> DEFINE wp == list[k[2]]
<1>2. m.labels = wpLabels(i, wp)
  BY <1>1
<1> HIDE DEF wp
<1>3. /\ wpLabels(i, wp)[1] = <<"wp_type", wp.type>> /\ wpLabels(i, wp)[2] = <<"status", wp.status>>
      /\ Marked(wpLabels(i, wp), "wp_type", wp.type) /\ Marked(wpLabels(i, wp), "status", wp.status)
  BY WpIdentified, Zenon
<1>4. /\ \A t : Shown(m, "wp_type", t) <=> t = wp.type
      /\ \A u : Shown(m, "status", u) <=> u = wp.status
  <2>1. Marked(m.labels, "wp_type", wp.type) /\ Marked(m.labels, "status", wp.status)
    BY <1>2, <1>3
  <2> QED
    BY <2>1, ShownMarked, Zenon
<1>5. m.labels[1][2] = wp.type /\ m.labels[2][2] = wp.status
  BY <1>2, <1>3
<1> QED
  BY <1>1, <1>4, <1>5 DEF wp

\* The total of a type and status.
LEMMA WpTotalFields ==
  ASSUME NEW i, NEW list, NEW k, NEW m, TotalOf(i, list, k, m)
  PROVE  /\ m.subsystem = "workprocess" /\ m.name = "dispatcher_work_processes"
         /\ m.value = wpCounts(list, m.labels[1][2], m.labels[2][2])
         /\ Shown(m, "wp_type", m.labels[1][2]) /\ Shown(m, "status", m.labels[2][2])
<1>1. PICK n \in DOMAIN list :
             m = Metric("workprocess", "dispatcher_work_processes",
                        wpCounts(list, list[n].type, list[n].status),
                        TotalLabels(i, list[n].type, list[n].status))
  BY DEF TotalOf
<1> DEFINE t == list[n].type  u == list[n].status
<1>2. /\ m.subsystem = "workprocess" /\ m.name = "dispatcher_work_processes"
      /\ m.value = wpCounts(list, t, u) /\ m.labels = TotalLabels(i, t, u)
  BY <1>1 DEF Metric
<1> HIDE DEF t, u
<1>3. /\ TotalLabels(i, t, u)[1] = <<"wp_type", t>> /\ TotalLabels(i, t, u)[2] = <<"status", u>>
      /\ Marked(TotalLabels(i, t, u), "wp_type", t) /\ Marked(TotalLabels(i, t, u), "status", u)
  BY TotalIdentified, Zenon
<1>4. m.labels[1][2] = t /\ m.labels[2][2] = u
  BY <1>2, <1>3
<1>5. Shown(m, "wp_type", t) /\ Shown(m, "status", u)
  BY <1>2, <1>3, ShownMarked
<1> QED
  BY <1>2, <1>4, <1>5

LEMMA CpuFields ==
  ASSUME NEW i, NEW list, NEW k, NEW m, CpuOf(i, list, k, m)
  PROVE  m.name = "dispatcher_work_processes_cpu"
  BY DEF CpuOf, Metric

\* Every work process has its line, and its type and status have theirs.
LEMMA WpLineSent ==
  ASSUME NEW i, NEW list, NEW n \in DOMAIN list
  PROVE  /\ <<"status", n>> \in DOMAIN recordWorkProcessStats(i, list)
         /\ LineOf(i, list, <<"status", n>>, recordWorkProcessStats(i, list)[<<"status", n>>])
<1> DEFINE k == <<"status", n>>
           sent == recordWorkProcessStats(i, list)
<1>1. k \in DOMAIN sendWorkProcessMetrics(i, list)
  BY DEF sendWorkProcessMetrics
<1>2. k \in DOMAIN sent
  BY <1>1 DEF recordWorkProcessStats
<1>3. LineOf(i, list, k, sent[k]) \/ CpuOf(i, list, k, sent[k]) \/ TotalOf(i, list, k, sent[k])
  BY <1>2, WorkProcsSent, Zenon
<1>4. ~ CpuOf(i, list, k, sent[k]) /\ ~ TotalOf(i, list, k, sent[k])
  <2> HIDE DEF sent
  <2> QED
    BY DEF CpuOf, TotalOf
<1> QED
  BY <1>2, <1>3, <1>4

LEMMA WpTotalSent ==
  ASSUME NEW i, NEW list, NEW n \in DOMAIN list
  PROVE  LET k == <<"count", <<list[n].type, list[n].status>>>>
         IN /\ k \in DOMAIN recordWorkProcessStats(i, list)
            /\ TotalOf(i, list, k, recordWorkProcessStats(i, list)[k])
<1> DEFINE k == <<"count", <<list[n].type, list[n].status>>>>
           sent == recordWorkProcessStats(i, list)
<1>1. k \in DOMAIN wpTotals(i, list)
  BY DEF wpTotals
<1>2. k \in DOMAIN sent
  BY <1>1 DEF recordWorkProcessStats
<1>3. LineOf(i, list, k, sent[k]) \/ CpuOf(i, list, k, sent[k]) \/ TotalOf(i, list, k, sent[k])
  BY <1>2, WorkProcsSent, Zenon
<1>4. ~ CpuOf(i, list, k, sent[k]) /\ ~ LineOf(i, list, k, sent[k])
  <2> HIDE DEF sent
  <2> QED
    BY DEF CpuOf, LineOf
<1> QED
  BY <1>2, <1>3, <1>4

\* The same for the work processes, by type and status.
LEMMA WpCountsRight == ASSUME MetricsIInv PROVE WpCountsAgree
<1> DEFINE detailed(i) == Lines("workprocess", "dispatcher_work_processes_status", i)
           counts(i)   == Lines("workprocess", "dispatcher_work_processes", i)
           Of(i, t, s) == {m \in detailed(i) : Shown(m, "wp_type", t) /\ Shown(m, "status", s)}
<1>1. ASSUME NEW i \in Instances, NEW x \in metrics, x.subsystem = "workprocess",
             Shown(x, "instance_name", i), ~ refused
      PROVE  /\ "workprocs" \in Recorders
             /\ \E list, sent :
                  /\ list \in Lists(WorkProcs) /\ sent = recordWorkProcessStats(i, list) /\ Distinct(sent)
                  /\ Own("workprocs", i) = Range(sent) /\ x \in Range(sent)
  <2>1. PICK r \in Recorders : x \in Own(r, i)
    BY <1>1, ShownIsOwn
  <2>2. r = "workprocs"
    BY <1>1, <2>1, OwnIsShown DEF Origin
  <2>3. PICK records, sent : /\ Turns(r, i, records, sent) /\ Own(r, i) = Range(sent)
                             /\ ~ refused => Distinct(sent)
    BY <2>1, OwnTurn
  <2>4. PICK list \in Lists(WorkProcs) : sent = recordWorkProcessStats(i, list)
    BY <2>2, <2>3 DEF Turns
  <2> QED
    BY <1>1, <2>1, <2>2, <2>3, <2>4
<1>2. ASSUME ~ refused, NEW i \in Instances, NEW m \in counts(i)
      PROVE  m.value = Cardinality(Of(i, m.labels[1][2], m.labels[2][2]))
  <2>1. /\ m \in metrics /\ m.subsystem = "workprocess" /\ m.name = "dispatcher_work_processes"
        /\ Shown(m, "instance_name", i)
    BY <1>2 DEF Lines
  <2>2. PICK list, sent :
               /\ list \in Lists(WorkProcs) /\ sent = recordWorkProcessStats(i, list) /\ Distinct(sent)
               /\ Own("workprocs", i) = Range(sent) /\ m \in Range(sent)
    BY <1>1, <1>2, <2>1
  <2> DEFINE t == m.labels[1][2]  u == m.labels[2][2]
             Lined == {n \in DOMAIN list : list[n].type = t /\ list[n].status = u}
             f == [n \in Lined |-> sent[<<"status", n>>]]
  <2>3. m.value = Cardinality(Lined)
    <3>1. PICK k \in DOMAIN sent : m = sent[k]
      BY <2>2 DEF Range
    <3>2. LineOf(i, list, k, m) \/ CpuOf(i, list, k, m) \/ TotalOf(i, list, k, m)
      BY <2>2, <3>1, WorkProcsSent, Zenon
    <3>3. TotalOf(i, list, k, m)
      BY <2>1, <3>2, WpLineFields, CpuFields
    <3>4. m.value = wpCounts(list, t, u)
      BY <3>3, WpTotalFields
    <3> QED
      BY <3>4 DEF wpCounts
  <2>4. \A n \in DOMAIN list : /\ <<"status", n>> \in DOMAIN sent
                               /\ LineOf(i, list, <<"status", n>>, sent[<<"status", n>>])
    BY <2>2, WpLineSent, Zenon
  <2> HIDE DEF t, u
  <2>5. IsFiniteSet(Lined)
    BY <2>2, FiniteAnswer, FS_Subset
  <2>6. \A x, y \in Lined : f[x] = f[y] => x = y
    <3> SUFFICES ASSUME NEW x \in Lined, NEW y \in Lined,
                        sent[<<"status", x>>] = sent[<<"status", y>>]
                 PROVE  x = y
      OBVIOUS
    <3>1. <<"status", x>> = <<"status", y>>
      BY <2>2, <2>4 DEF Distinct
    <3> QED
      BY <3>1
  <2>7. ASSUME NEW d \in Of(i, t, u) PROVE d \in {f[n] : n \in Lined}
    <3>1. /\ d \in metrics /\ d.subsystem = "workprocess"
          /\ d.name = "dispatcher_work_processes_status" /\ Shown(d, "instance_name", i)
          /\ Shown(d, "wp_type", t) /\ Shown(d, "status", u)
      BY DEF Lines
    <3>2. PICK q \in Recorders : d \in Own(q, i)
      BY <3>1, ShownIsOwn
    <3>3. q = "workprocs"
      BY <3>1, <3>2, OwnIsShown DEF Origin
    <3>4. PICK k \in DOMAIN sent : d = sent[k]
      BY <2>2, <3>2, <3>3 DEF Range
    <3>5. LineOf(i, list, k, d) \/ CpuOf(i, list, k, d) \/ TotalOf(i, list, k, d)
      BY <2>2, <3>4, WorkProcsSent, Zenon
    <3>6. LineOf(i, list, k, d)
      BY <3>1, <3>5, WpTotalFields, CpuFields
    <3>7. /\ k[2] \in DOMAIN list /\ k = <<"status", k[2]>>
          /\ t = list[k[2]].type /\ u = list[k[2]].status
      BY <3>1, <3>6, WpLineFields
    <3>8. k[2] \in Lined /\ d = f[k[2]]
      BY <3>4, <3>7
    <3> QED
      BY <3>8
  <2>8. ASSUME NEW n \in Lined PROVE f[n] \in Of(i, t, u)
    <3> DEFINE k == <<"status", n>>
    <3>1. k[2] = n
      OBVIOUS
    <3>2. k \in DOMAIN sent /\ LineOf(i, list, k, sent[k]) /\ f[n] = sent[k]
      BY <2>4
    <3> HIDE DEF k, f
    <3>3. f[n] \in metrics /\ Shown(f[n], "instance_name", i)
      BY <2>2, <3>2, OwnIsShown DEF Range
    <3>4. /\ f[n].subsystem = "workprocess" /\ f[n].name = "dispatcher_work_processes_status"
          /\ Shown(f[n], "wp_type", list[n].type) /\ Shown(f[n], "status", list[n].status)
      BY <3>1, <3>2, WpLineFields
    <3> QED
      BY <3>3, <3>4 DEF Lines
  <2>9. Of(i, t, u) = {f[n] : n \in Lined}
    <3> HIDE DEF Of, f, Lined
    <3> QED
      BY <2>7, <2>8
  <2>10. Cardinality({f[n] : n \in Lined}) = Cardinality(Lined)
    <3>1. DOMAIN f = Lined /\ f = [n \in Lined |-> f[n]]
      OBVIOUS
    <3> HIDE DEF f, Lined
    <3> QED
      BY <2>5, <2>6, <3>1, SameNumber
  <2>11. m.value = Cardinality(Of(i, t, u))
    BY <2>3, <2>9, <2>10
  <2> QED
    BY <2>11 DEF t, u
<1>3. ASSUME ~ refused, NEW i \in Instances, NEW d \in detailed(i)
      PROVE  \E m \in counts(i) :
               Shown(m, "wp_type", d.labels[1][2]) /\ Shown(m, "status", d.labels[2][2])
  <2>1. /\ d \in metrics /\ d.subsystem = "workprocess"
        /\ d.name = "dispatcher_work_processes_status" /\ Shown(d, "instance_name", i)
    BY <1>3 DEF Lines
  <2>2. PICK list, sent :
               /\ list \in Lists(WorkProcs) /\ sent = recordWorkProcessStats(i, list) /\ Distinct(sent)
               /\ Own("workprocs", i) = Range(sent) /\ d \in Range(sent)
    BY <1>1, <1>3, <2>1
  <2>3. PICK k \in DOMAIN sent : d = sent[k]
    BY <2>2 DEF Range
  <2>4. LineOf(i, list, k, d) \/ CpuOf(i, list, k, d) \/ TotalOf(i, list, k, d)
    BY <2>2, <2>3, WorkProcsSent, Zenon
  <2>5. LineOf(i, list, k, d)
    BY <2>1, <2>4, WpTotalFields, CpuFields
  <2>6. /\ k[2] \in DOMAIN list
        /\ d.labels[1][2] = list[k[2]].type /\ d.labels[2][2] = list[k[2]].status
    BY <2>5, WpLineFields
  <2> DEFINE j == <<"count", <<list[k[2]].type, list[k[2]].status>>>>
             m == sent[j]
  <2>7. j \in DOMAIN sent /\ TotalOf(i, list, j, m)
    BY <2>2, <2>6, WpTotalSent
  <2>8. m \in Own("workprocs", i)
    BY <2>2, <2>7 DEF Range
  <2>9. \E n \in DOMAIN list : /\ j = <<"count", <<list[n].type, list[n].status>>>>
                               /\ m.labels = TotalLabels(i, list[n].type, list[n].status)
    BY <2>7 DEF TotalOf, Metric
  <2>10. m.labels = TotalLabels(i, d.labels[1][2], d.labels[2][2])
    BY <2>6, <2>9
  <2> HIDE DEF j, m
  <2>11. /\ m.subsystem = "workprocess" /\ m.name = "dispatcher_work_processes"
    BY <2>7, WpTotalFields
  <2>12. m \in metrics /\ Shown(m, "instance_name", i)
    BY <2>8, OwnIsShown
  <2>13. Shown(m, "wp_type", d.labels[1][2]) /\ Shown(m, "status", d.labels[2][2])
    <3> DEFINE t == d.labels[1][2]  u == d.labels[2][2]
    <3>1. m.labels = TotalLabels(i, t, u)
      BY <2>10
    <3> HIDE DEF t, u
    <3>2. Marked(TotalLabels(i, t, u), "wp_type", t) /\ Marked(TotalLabels(i, t, u), "status", u)
      BY TotalIdentified, Zenon
    <3>3. Marked(m.labels, "wp_type", t) /\ Marked(m.labels, "status", u)
      BY <3>1, <3>2
    <3>4. Shown(m, "wp_type", t) /\ Shown(m, "status", u)
      BY <3>3, ShownMarked, Zenon
    <3> QED
      BY <3>4 DEF t, u
  <2> QED
    BY <2>11, <2>12, <2>13 DEF Lines
<1> QED
  BY <1>2, <1>3 DEF WpCountsAgree

\* An enqueue state that is no colour is not sent, and everything else is.
LEMMA EnqueueRight == ASSUME MetricsIInv PROVE EnqueueStates
<1> SUFFICES ASSUME NEW i \in Instances
             PROVE  LET shown == {m \in metrics : /\ m.subsystem = "enqueue_server"
                                                  /\ Shown(m, "instance_name", i)}
                    IN /\ \A m \in shown : m.name \in EnqStates => m.value \in DOMAIN StateColors
                       /\ shown # {} => EnqCounts \subseteq {m.name : m \in shown}
  BY DEF EnqueueStates
<1> DEFINE shown == {m \in metrics : m.subsystem = "enqueue_server" /\ Shown(m, "instance_name", i)}
<1>1. ASSUME NEW m \in shown
      PROVE  /\ m.name \in EnqStates => m.value \in DOMAIN StateColors
             /\ EnqCounts \subseteq {x.name : x \in shown}
  <2>1. PICK r \in Recorders : m \in Own(r, i)
    BY ShownIsOwn
  <2>2. r = "enqueue"
    BY <2>1, OwnIsShown DEF Origin
  <2>3. PICK records, sent : Turns(r, i, records, sent) /\ Own(r, i) = Range(sent)
    BY <2>1, OwnTurn
  <2>4. PICK state \in [EnqStates -> StatColours] : sent = recordEnqStats(i, state)
    BY <2>2, <2>3 DEF Turns
  <2>5. /\ DOMAIN sent = EnqCounts \cup {s \in EnqStates : ValidColor(state[s])}
        /\ \A k \in DOMAIN sent :
             /\ sent[k].subsystem = "enqueue_server" /\ sent[k].name = k
             /\ sent[k].value = IF k \in EnqStates THEN StateColorToFloat(state[k]) ELSE 0
    BY <2>4 DEF recordEnqStats, Metric
  <2>6. EnqCounts \cap EnqStates = {}
    BY DEF EnqCounts, EnqStates
  <2>7. ASSUME m.name \in EnqStates PROVE m.value \in DOMAIN StateColors
    <3>1. PICK k \in DOMAIN sent : m = sent[k]
      BY <2>1, <2>3 DEF Range
    <3>2. k \in EnqStates /\ ValidColor(state[k]) /\ m.value = StateColorToFloat(state[k])
      BY <2>5, <2>6, <2>7, <3>1
    <3> QED
      BY <3>2, ValidCode
  <2>8. ASSUME NEW k \in EnqCounts PROVE k \in {x.name : x \in shown}
    <3>1. k \in DOMAIN sent /\ sent[k].name = k /\ sent[k].subsystem = "enqueue_server"
      BY <2>5
    <3>2. sent[k] \in Own(r, i)
      BY <2>3, <3>1 DEF Range
    <3>3. sent[k] \in shown
      BY <3>1, <3>2, OwnIsShown
    <3> QED
      BY <3>1, <3>3
  <2> QED
    BY <2>7, <2>8
<1> QED
  BY <1>1

\* The counts that a scrape shows agree with the lines that it shows, for any
\* number of instances and whatever SAP lists.
THEOREM NumbersAgree == MetricsSpec => []CountsAgree
<1>1. MetricsIInv => CountsAgree
  BY ProcessCounts, WpCountsRight, EnqueueRight DEF CountsAgree
<1> QED
  BY <1>1, MetricsInvariance, PTL
=============================================================================
