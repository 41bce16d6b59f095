------------------------- MODULE InstanceListProofs -------------------------
(***************************************************************************)
(* Proofs about GetAllInstances as InstanceList models it, for any         *)
(* instances, SIDs, configuration and readers of the configuration, and    *)
(* about its place behind the cache, which CachedInstances models.         *)
(***************************************************************************)
EXTENDS CachedInstances, FiniteSetTheorems, TLAPS

\* A SID that was known when the call began still stands, so sap_sid is written
\* only in a call that began without one.
SidState ==
  /\ known # NoSid => sapSid = known
  /\ main = "write" => sapSid = NoSid /\ held \in Results /\ held.ok
  /\ main = "crashed" => known = NoSid

\* What FailedInstancesLabelled says, of the list while it is built, and the link
\* between the SIDs in it and sap_sid.
LabelState ==
  main \in {"collect", "write"} \/ list # None =>
    /\ (\E n \in 1..Len(list) : list[n].sid # NoSid) => sapSid # NoSid
    /\ \A n \in 1..Len(list) : ~ list[n].ok =>
         /\ known # NoSid => list[n].sid = known
         /\ (\E m \in 1..(n - 1) : list[m].sid # NoSid) => list[n].sid # NoSid

IInv == TypeOK /\ SidState /\ LabelState
-----------------------------------------------------------------------------
LEMMA InitIInv == Init => IInv
<1> SUFFICES ASSUME Init PROVE IInv
  OBVIOUS
<1> USE InstanceListAssumption DEF Init, InstanceListAssumption
<1>1. TypeOK
  BY DEF TypeOK
<1>2. SidState
  BY DEF SidState
<1>3. LabelState
  BY DEF LabelState
<1> QED
  BY <1>1, <1>2, <1>3 DEF IInv

\* The results are received in order; what is received is a result.
LEMMA HeadIsResult ==
  ASSUME TypeOK, channel # <<>>
  PROVE  Head(channel) \in Results /\ Tail(channel) \in Seq(Results)
BY DEF TypeOK

\* Receive, by what it does with the head of the channel.
LEMMA ReceiveCases ==
  ASSUME TypeOK, Receive
  PROVE  \E res \in Results :
           /\ main = "collect"
           /\ channel' \in Seq(Results)
           /\ UNCHANGED <<tried, props, sapSid, reading, asked, known>>
           /\ \/ ReceiveFailed(res)
              \/ res.ok /\ ~ Learns(res) /\ Take(res) /\ UNCHANGED <<main, held>>
              \/ Learns(res) /\ main' = "write" /\ held' = res /\ UNCHANGED list
<1> DEFINE res == Head(channel)
<1>1. res \in Results /\ Tail(channel) \in Seq(Results) /\ channel' = Tail(channel)
  BY HeadIsResult DEF Receive, ReceiveFailed, Take
<1> QED
  BY <1>1 DEF Receive

LEMMA StepType == IInv /\ [Next]_vars => TypeOK'
<1> SUFFICES ASSUME IInv, [Next]_vars PROVE TypeOK'
  OBVIOUS
<1> USE InstanceListAssumption DEF IInv, TypeOK, InstanceListAssumption
<1>1. CASE GetAllInstances
  BY <1>1 DEF GetAllInstances
<1>2. CASE GetSystemInstanceList
  BY <1>2 DEF GetSystemInstanceList, Accepts
<1>3. CASE ReturnError
  BY <1>3 DEF ReturnError
<1>4. CASE Spawn
  BY <1>4 DEF Spawn
<1>5. ASSUME NEW i \in Instances, StartRead(i) PROVE TypeOK'
  BY <1>5 DEF StartRead
<1>6. ASSUME NEW i \in Instances, EndRead(i) PROVE TypeOK'
  BY <1>6 DEF EndRead
<1>7. ASSUME NEW i \in Instances, CallEnds(i) PROVE TypeOK'
  <2>1. PICK ok \in BOOLEAN, sid \in Sids \cup {NoSid} :
           channel' = Append(channel, [inst |-> i, ok |-> ok, sid |-> sid])
    BY <1>7 DEF CallEnds
  <2>2. [inst |-> i, ok |-> ok, sid |-> sid] \in Results
    BY DEF Results
  <2>3. channel' \in Seq(Results)
    BY <2>1, <2>2
  <2> QED
    BY <1>7, <2>3 DEF CallEnds
<1>8. ASSUME NEW r \in Readers, ConfigRead(r) PROVE TypeOK'
  BY <1>8 DEF ConfigRead
<1>9. CASE Receive
  <2>1. PICK res \in Results :
           /\ main = "collect"
           /\ channel' \in Seq(Results)
           /\ UNCHANGED <<tried, props, sapSid, reading, asked, known>>
           /\ \/ ReceiveFailed(res)
              \/ res.ok /\ ~ Learns(res) /\ Take(res) /\ UNCHANGED <<main, held>>
              \/ Learns(res) /\ main' = "write" /\ held' = res /\ UNCHANGED list
    BY <1>9, ReceiveCases
  <2>2. list \in Seq(Results)
    BY <2>1
  <2>3. CASE ReceiveFailed(res)
    <3>1. [res EXCEPT !.sid = sapSid] \in Results
      BY DEF Results
    <3>2. list' \in Seq(Results)
      BY <2>2, <2>3, <3>1 DEF ReceiveFailed, Take
    <3> QED
      BY <2>1, <2>3, <3>2 DEF ReceiveFailed
  <2>4. CASE res.ok /\ ~ Learns(res) /\ Take(res) /\ UNCHANGED <<main, held>>
    <3>1. list' \in Seq(Results)
      BY <2>2, <2>4 DEF Take
    <3> QED
      BY <2>1, <2>4, <3>1
  <2>5. CASE Learns(res) /\ main' = "write" /\ held' = res /\ UNCHANGED list
    BY <2>1, <2>2, <2>5
  <2> QED
    BY <2>1, <2>3, <2>4, <2>5
<1>10. CASE WriteSid
  BY <1>10 DEF WriteSid, SidState, Results
<1>11. CASE Return
  BY <1>11 DEF Return
<1>12. CASE Crash
  BY <1>12 DEF Crash
<1>13. CASE UNCHANGED vars
  BY <1>13 DEF vars
<1> QED
  BY <1>1, <1>2, <1>3, <1>4, <1>5, <1>6, <1>7, <1>8, <1>9, <1>10, <1>11, <1>12,
     <1>13 DEF Next

LEMMA StepSid == IInv /\ [Next]_vars => SidState'
<1> SUFFICES ASSUME IInv, [Next]_vars PROVE SidState'
  OBVIOUS
<1> USE InstanceListAssumption DEF IInv, SidState, InstanceListAssumption
<1>1. CASE GetAllInstances
  BY <1>1 DEF GetAllInstances
<1>2. CASE GetSystemInstanceList
  BY <1>2 DEF GetSystemInstanceList
<1>3. CASE ReturnError
  BY <1>3 DEF ReturnError
<1>4. CASE Spawn
  BY <1>4 DEF Spawn
<1>5. ASSUME NEW i \in Instances, StartRead(i) PROVE SidState'
  BY <1>5 DEF StartRead
<1>6. ASSUME NEW i \in Instances, EndRead(i) PROVE SidState'
  BY <1>6 DEF EndRead
<1>7. ASSUME NEW i \in Instances, CallEnds(i) PROVE SidState'
  BY <1>7 DEF CallEnds
<1>8. ASSUME NEW r \in Readers, ConfigRead(r) PROVE SidState'
  BY <1>8 DEF ConfigRead
<1>9. CASE Receive
  BY <1>9, ReceiveCases DEF ReceiveFailed, Take, Learns
<1>10. CASE WriteSid
  BY <1>10 DEF WriteSid
<1>11. CASE Return
  BY <1>11 DEF Return
<1>12. CASE Crash
  BY <1>12 DEF Crash, Racing
<1>13. CASE UNCHANGED vars
  BY <1>13 DEF vars
<1> QED
  BY <1>1, <1>2, <1>3, <1>4, <1>5, <1>6, <1>7, <1>8, <1>9, <1>10, <1>11, <1>12,
     <1>13 DEF Next

\* A result is listed: a successful one that leaves the link intact, or a failed
\* one that carries the sap_sid of now.
LEMMA ListedOnce ==
  ASSUME IInv, main \in {"collect", "write"}, NEW res \in Results,
         list' = Append(list, res), UNCHANGED known,
         res.sid # NoSid => sapSid' # NoSid,
         sapSid # NoSid => sapSid' = sapSid,
         ~ res.ok => res.sid = sapSid
  PROVE  LabelState'
<1> USE DEF IInv, LabelState
<1>1. list \in Seq(Results)
  BY DEF TypeOK
<1>2. /\ list' \in Seq(Results)
      /\ Len(list') = Len(list) + 1
      /\ list'[Len(list')] = res
      /\ \A n \in 1..Len(list) : list'[n] = list[n]
  BY <1>1
<1>3. (\E n \in 1..Len(list') : list'[n].sid # NoSid) => sapSid' # NoSid
  BY <1>1, <1>2
<1>4. ASSUME NEW n \in 1..Len(list'), ~ list'[n].ok
      PROVE  /\ known' # NoSid => list'[n].sid = known'
             /\ (\E m \in 1..(n - 1) : list'[m].sid # NoSid) => list'[n].sid # NoSid
  <2>1. CASE n \in 1..Len(list)
    BY <1>1, <1>2, <1>4, <2>1
  <2>2. CASE n = Len(list) + 1
    BY <1>1, <1>2, <1>4, <2>2 DEF SidState
  <2> QED
    BY <1>1, <1>2, <2>1, <2>2
<1> QED
  BY <1>3, <1>4

\* Whatever leaves the list, sap_sid and what was known alone keeps the labels.
LEMMA LabelsUntouched ==
  ASSUME IInv, UNCHANGED <<list, sapSid, known>>,
         main' \in {"collect", "write"} => main \in {"collect", "write"}
  PROVE  LabelState'
BY DEF IInv, LabelState

LEMMA StepLabel == IInv /\ [Next]_vars => LabelState'
<1> SUFFICES ASSUME IInv, [Next]_vars PROVE LabelState'
  OBVIOUS
<1>1. CASE GetAllInstances
  BY <1>1 DEF GetAllInstances, LabelState
<1>2. CASE GetSystemInstanceList
  BY <1>2, LabelsUntouched DEF GetSystemInstanceList
<1>3. CASE ReturnError
  BY <1>3, LabelsUntouched DEF ReturnError
<1>4. CASE Spawn
  BY <1>4 DEF Spawn, LabelState
<1>5. ASSUME NEW i \in Instances, StartRead(i) PROVE LabelState'
  BY <1>5, LabelsUntouched DEF StartRead
<1>6. ASSUME NEW i \in Instances, EndRead(i) PROVE LabelState'
  BY <1>6, LabelsUntouched DEF EndRead
<1>7. ASSUME NEW i \in Instances, CallEnds(i) PROVE LabelState'
  BY <1>7, LabelsUntouched DEF CallEnds
<1>8. ASSUME NEW r \in Readers, ConfigRead(r) PROVE LabelState'
  BY <1>8, LabelsUntouched DEF ConfigRead
<1>9. CASE Receive
  <2>1. PICK res \in Results :
           /\ main = "collect"
           /\ UNCHANGED <<tried, props, sapSid, reading, asked, known>>
           /\ \/ ReceiveFailed(res)
              \/ res.ok /\ ~ Learns(res) /\ Take(res) /\ UNCHANGED <<main, held>>
              \/ Learns(res) /\ main' = "write" /\ held' = res /\ UNCHANGED list
    BY <1>9, ReceiveCases DEF IInv
  <2>2. CASE ReceiveFailed(res)
    <3> DEFINE failed == [res EXCEPT !.sid = sapSid]
    <3>1. failed \in Results /\ failed.sid = sapSid
      BY DEF Results, IInv, TypeOK
    <3>2. list' = Append(list, failed)
      BY <2>2 DEF ReceiveFailed, Take
    <3> QED
      BY <2>1, <3>1, <3>2, ListedOnce
  <2>3. CASE res.ok /\ ~ Learns(res) /\ Take(res)
    BY <2>1, <2>3, ListedOnce DEF Learns, Take
  <2>4. CASE Learns(res) /\ UNCHANGED list
    BY <2>1, <2>4, LabelsUntouched
  <2> QED
    BY <2>1, <2>2, <2>3, <2>4
<1>10. CASE WriteSid
  <2>1. held \in Results /\ held.ok
    BY <1>10 DEF WriteSid, IInv, SidState
  <2> QED
    BY <1>10, <2>1, ListedOnce DEF WriteSid, IInv, SidState
<1>11. CASE Return
  BY <1>11, LabelsUntouched DEF Return
<1>12. CASE Crash
  BY <1>12, LabelsUntouched DEF Crash
<1>13. CASE UNCHANGED vars
  BY <1>13, LabelsUntouched DEF vars
<1> QED
  BY <1>1, <1>2, <1>3, <1>4, <1>5, <1>6, <1>7, <1>8, <1>9, <1>10, <1>11, <1>12,
     <1>13 DEF Next

\* The SID and the labels of one refresh stay as SidState and LabelState say.
THEOREM Invariance == Spec => []IInv
<1>1. IInv /\ [Next]_vars => IInv'
  BY StepType, StepSid, StepLabel DEF IInv
<1> QED
  BY InitIInv, <1>1, PTL DEF Spec
-----------------------------------------------------------------------------
\* The variables of GetAllInstances keep their types.
THEOREM TypeCorrect == Spec => []TypeOK
<1>1. IInv => TypeOK
  BY DEF IInv
<1> QED
  BY Invariance, <1>1, PTL

\* The race on the configuration cannot end the process in a call that began with
\* a SID, whoever reads the configuration meanwhile.
THEOREM CrashFree == Spec => []CrashOnlyWhileUnknown
<1>1. IInv => CrashOnlyWhileUnknown
  BY DEF IInv, SidState, CrashOnlyWhileUnknown
<1> QED
  BY Invariance, <1>1, PTL

\* Every failed instance carries the SID that was known when the refresh began or
\* that an earlier result of the refresh brought.
THEOREM Labelled == Spec => []FailedInstancesLabelled
<1>1. IInv => FailedInstancesLabelled
  <2> SUFFICES ASSUME IInv, Returned PROVE FailedInstancesLabelled
    BY DEF FailedInstancesLabelled
  <2>1. list # None /\ list \in Seq(Results)
    BY DEF IInv, TypeOK, Returned
  <2> QED
    BY <2>1 DEF IInv, LabelState, FailedInstancesLabelled
<1> QED
  BY Invariance, <1>1, PTL

\* A SID once known is never replaced.
THEOREM SidKept == Spec => SidStable
<1>1. IInv /\ [Next]_vars => [sapSid # NoSid => sapSid' = sapSid]_vars
  <2> SUFFICES ASSUME IInv, Next, sapSid # NoSid PROVE sapSid' = sapSid
    OBVIOUS
  <2> USE DEF IInv, SidState
  <2>1. CASE Receive
    BY <2>1 DEF Receive
  <2>2. CASE WriteSid
    BY <2>2 DEF WriteSid
  <2>3. CASE GetAllInstances \/ GetSystemInstanceList \/ ReturnError \/ Spawn \/ Return
    BY <2>3 DEF GetAllInstances, GetSystemInstanceList, ReturnError, Spawn, Return
  <2>4. ASSUME NEW i \in Instances, StartRead(i) \/ EndRead(i) \/ CallEnds(i)
        PROVE  sapSid' = sapSid
    BY <2>4 DEF StartRead, EndRead, CallEnds
  <2>5. ASSUME NEW r \in Readers, ConfigRead(r) PROVE sapSid' = sapSid
    BY <2>5 DEF ConfigRead
  <2>6. CASE Crash
    BY <2>6 DEF Crash
  <2> QED
    BY <2>1, <2>2, <2>3, <2>4, <2>5, <2>6 DEF Next
<1> QED
  BY Invariance, <1>1, PTL DEF Spec, SidStable
-----------------------------------------------------------------------------
(* Every instance once.                                                     *)

\* The instances whose goroutine has still to send, those of a sequence of results,
\* and that of the result whose SID is being written.
Running  == {i \in Instances : props[i] # "none"}
Insts(s) == {s[n].inst : n \in 1..Len(s)}
Held     == IF main = "write" THEN {held.inst} ELSE {}

\* No two results are of one instance.
Once(s) == \A m, n \in 1..Len(s) : s[m].inst = s[n].inst => m = n

\* While a list is built, and when it is returned, every instance of the accepted
\* answer is in just one place, and nothing else is in any.
Placed ==
  /\ asked # {}
  /\ asked = Running \cup Insts(channel) \cup Held \cup Insts(list)
  /\ Running \cap (Insts(channel) \cup Held \cup Insts(list)) = {}
  /\ Insts(channel) \cap (Held \cup Insts(list)) = {}
  /\ Held \cap Insts(list) = {}
  /\ Once(channel) /\ Once(list)

PlaceState ==
  /\ main \in {"idle", "ask", "failed", "spawn"} => channel = <<>> /\ Running = {}
  /\ main \in {"ask", "failed", "spawn"} => list = None
  /\ main \in {"collect", "write"} \/ Returned => Placed

\* What a send and a receive do to the instances of a sequence.
LEMMA Sent ==
  ASSUME NEW s \in Seq(Results), NEW res \in Results
  PROVE  /\ Insts(Append(s, res)) = Insts(s) \cup {res.inst}
         /\ Once(s) /\ res.inst \notin Insts(s) => Once(Append(s, res))
<1>1. /\ Len(Append(s, res)) = Len(s) + 1
      /\ \A n \in 1..Len(s) : Append(s, res)[n] = s[n]
      /\ Append(s, res)[Len(s) + 1] = res
  OBVIOUS
<1>2. Len(s) \in Nat
  OBVIOUS
<1> HIDE DEF Results
<1>3. Insts(Append(s, res)) = Insts(s) \cup {res.inst}
  BY <1>1, <1>2 DEF Insts
<1>4. Once(s) /\ res.inst \notin Insts(s) => Once(Append(s, res))
  BY <1>1, <1>2 DEF Insts, Once
<1> QED
  BY <1>3, <1>4

LEMMA Received ==
  ASSUME NEW s \in Seq(Results), s # <<>>
  PROVE  /\ Insts(s) = Insts(Tail(s)) \cup {Head(s).inst}
         /\ Once(s) => Once(Tail(s)) /\ Head(s).inst \notin Insts(Tail(s))
<1>1. /\ Len(s) \in Nat \ {0} /\ Len(Tail(s)) = Len(s) - 1
      /\ \A n \in 1..Len(Tail(s)) : Tail(s)[n] = s[n + 1]
      /\ Head(s) = s[1]
  OBVIOUS
<1> HIDE DEF Results
<1>2. \A n \in 1..Len(s) : n = 1 \/ n - 1 \in 1..Len(Tail(s))
  BY <1>1
<1>3. \A n \in 1..Len(Tail(s)) : n + 1 \in 1..Len(s) /\ n + 1 # 1
  BY <1>1
<1>4. Insts(s) = Insts(Tail(s)) \cup {Head(s).inst}
  <2>1. ASSUME NEW i \in Insts(s) PROVE i \in Insts(Tail(s)) \cup {Head(s).inst}
    <3>1. PICK n \in 1..Len(s) : i = s[n].inst
      BY <2>1 DEF Insts
    <3>2. CASE n = 1
      BY <1>1, <3>1, <3>2
    <3>3. CASE n - 1 \in 1..Len(Tail(s))
      <4>1. s[n] = Tail(s)[n - 1]
        BY <1>1, <3>3
      <4> QED
        BY <3>1, <3>3, <4>1 DEF Insts
    <3> QED
      BY <1>2, <3>2, <3>3
  <2>2. ASSUME NEW i \in Insts(Tail(s)) \cup {Head(s).inst} PROVE i \in Insts(s)
    BY <1>1, <1>3, <2>2 DEF Insts
  <2> QED
    BY <2>1, <2>2
<1>5. ASSUME Once(s) PROVE Once(Tail(s)) /\ Head(s).inst \notin Insts(Tail(s))
  <2>1. ASSUME NEW m \in 1..Len(Tail(s)), NEW n \in 1..Len(Tail(s)),
               Tail(s)[m].inst = Tail(s)[n].inst
        PROVE  m = n
    <3>1. m + 1 = n + 1
      BY <1>1, <1>3, <1>5, <2>1 DEF Once
    <3> QED
      BY <3>1
  <2>2. ASSUME NEW n \in 1..Len(Tail(s)), Head(s).inst = Tail(s)[n].inst PROVE FALSE
    <3>1. 1 \in 1..Len(s)
      BY <1>1
    <3> QED
      BY <1>1, <1>3, <1>5, <2>2, <3>1 DEF Once
  <2> QED
    BY <2>1, <2>2 DEF Once, Insts
<1> QED
  BY <1>4, <1>5

LEMMA InitPlaces == Init => PlaceState
BY DEF Init, PlaceState, Running, Returned

\* What leaves every place alone keeps them.
LEMMA PlacesUntouched ==
  ASSUME PlaceState, UNCHANGED <<asked, channel, list>>, Running' = Running, Held' = Held,
         main' = main
  PROVE  PlaceState'
<1>1. UNCHANGED <<Insts(channel), Insts(list), Once(channel), Once(list)>>
  BY DEF Insts, Once
<1>2. UNCHANGED <<Placed, Returned>>
  BY <1>1 DEF Placed, Returned
<1> QED
  BY <1>2 DEF PlaceState

LEMMA StepPlaces == IInv /\ PlaceState /\ [Next]_vars => PlaceState'
<1> SUFFICES ASSUME IInv, PlaceState, [Next]_vars PROVE PlaceState'
  OBVIOUS
<1>t. TypeOK /\ SidState
  BY DEF IInv
<1>1. CASE GetAllInstances
  BY <1>1 DEF GetAllInstances, PlaceState, Running, Returned
<1>2. CASE GetSystemInstanceList
  <2>1. CASE main' = "spawn" /\ UNCHANGED <<props, channel, list>>
    BY <1>2, <2>1 DEF GetSystemInstanceList, PlaceState, Running, Returned
  <2>2. CASE main' \in {"ask", "failed"} /\ UNCHANGED <<props, channel, list>>
    BY <1>2, <2>2 DEF GetSystemInstanceList, PlaceState, Running, Returned
  <2> QED
    BY <1>2, <2>1, <2>2 DEF GetSystemInstanceList
<1>3. CASE ReturnError
  BY <1>3 DEF ReturnError, PlaceState, Running, Returned
<1>4. CASE Spawn
  <2>1. main = "spawn" /\ channel' = <<>> /\ asked' = asked /\ asked # {} /\ list' = <<>>
        /\ main' = "collect" /\ asked \subseteq Instances
    BY <1>4, <1>t DEF Spawn, PlaceState, TypeOK
  <2>2. Running' = asked
    BY <1>4, <2>1 DEF Spawn, Running
  <2>3. Insts(<<>>) = {} /\ Once(<<>>) /\ Held' = {}
    BY <2>1 DEF Insts, Once, Held
  <2>4. Insts(channel)' = {} /\ Insts(list)' = {} /\ Once(channel)' /\ Once(list)'
    BY <2>1, <2>3 DEF Insts, Once
  <2> QED
    BY <2>1, <2>2, <2>3, <2>4 DEF PlaceState, Placed
<1>5. ASSUME NEW i \in Instances, StartRead(i) \/ EndRead(i) PROVE PlaceState'
  <2>1. Running' = Running /\ Held' = Held
    BY <1>5, <1>t DEF StartRead, EndRead, Running, Held, TypeOK
  <2> QED
    BY <1>5, <2>1, PlacesUntouched DEF StartRead, EndRead
<1>6. ASSUME NEW i \in Instances, CallEnds(i) PROVE PlaceState'
  <2>1. PICK res \in Results : res.inst = i /\ channel' = Append(channel, res)
    <3>1. PICK ok \in BOOLEAN, sid \in Sids \cup {NoSid} :
             channel' = Append(channel, [inst |-> i, ok |-> ok, sid |-> sid])
      BY <1>6 DEF CallEnds
    <3>2. [inst |-> i, ok |-> ok, sid |-> sid] \in Results
      BY DEF Results
    <3> QED
      BY <3>1, <3>2
  <2>2. Running' = Running \ {i} /\ i \in Running /\ Held' = Held
    BY <1>6, <1>t DEF CallEnds, Running, Held, TypeOK
  <2>3. Insts(channel)' = Insts(channel) \cup {i} /\ Insts(list)' = Insts(list)
        /\ Once(list)' = Once(list)
    BY <1>6, <1>t, <2>1, Sent DEF CallEnds, Insts, Once, TypeOK
  <2>4. Once(channel) /\ i \notin Insts(channel) => Once(channel)'
    BY <1>t, <2>1, Sent DEF Once, TypeOK
  <2>5. main \in {"collect", "write"} /\ main' = main /\ asked' = asked
    BY <1>6, <1>t, <2>2 DEF CallEnds, Alive, PlaceState, TypeOK
  <2>6. Placed'
    BY <2>2, <2>3, <2>4, <2>5 DEF PlaceState, Placed
  <2> QED
    BY <2>5, <2>6 DEF PlaceState
<1>7. ASSUME NEW r \in Readers, ConfigRead(r) PROVE PlaceState'
  BY <1>7, PlacesUntouched DEF ConfigRead, Running, Held
<1>8. CASE Receive
  <2> DEFINE res == Head(channel)
  <2>1. /\ main = "collect" /\ channel' = Tail(channel) /\ UNCHANGED <<props, asked, sapSid>>
        /\ list \in Seq(Results) /\ channel \in Seq(Results) /\ channel # <<>>
        /\ res \in Results /\ Tail(channel) \in Seq(Results)
    BY <1>8, <1>t, HeadIsResult DEF Receive, ReceiveFailed, Take, TypeOK
  <2>2. Placed /\ Held = {} /\ Running' = Running
    BY <2>1 DEF PlaceState, Held, Running
  <2>3. /\ Insts(channel) = Insts(Tail(channel)) \cup {res.inst}
        /\ Once(Tail(channel)) /\ res.inst \notin Insts(Tail(channel))
    BY <2>1, <2>2, Received DEF Placed
  <2>4. ASSUME NEW listed \in Results, listed.inst = res.inst,
               list' = Append(list, listed), main' = main
        PROVE  PlaceState'
    <3>1. listed.inst \notin Insts(list) /\ Once(list) /\ Held' = {}
      BY <2>1, <2>2, <2>3, <2>4 DEF Placed, Held
    <3>2. Insts(Append(list, listed)) = Insts(list) \cup {res.inst} /\ Once(Append(list, listed))
      BY <2>1, <2>4, <3>1, Sent
    <3>3. Insts(list)' = Insts(list) \cup {res.inst} /\ Once(list)'
      BY <2>4, <3>2 DEF Insts, Once
    <3>4. Insts(channel)' = Insts(Tail(channel)) /\ Once(channel)'
      BY <2>1, <2>3 DEF Insts, Once
    <3>5. Placed'
      BY <2>1, <2>2, <2>3, <3>1, <3>3, <3>4 DEF Placed
    <3> QED
      BY <2>1, <2>4, <3>5 DEF PlaceState
  <2>5. CASE ReceiveFailed(res)
    <3>1. /\ [res EXCEPT !.sid = sapSid] \in Results
          /\ [res EXCEPT !.sid = sapSid].inst = res.inst
      BY <2>1, <1>t DEF Results, TypeOK
    <3> QED
      BY <2>4, <2>5, <3>1 DEF ReceiveFailed, Take
  <2>6. CASE Take(res) /\ UNCHANGED main
    BY <2>1, <2>4, <2>6 DEF Take
  <2>7. CASE main' = "write" /\ held' = res /\ UNCHANGED list
    <3>1. Held' = {res.inst} /\ Insts(list)' = Insts(list) /\ Once(list)'
      BY <2>2, <2>7 DEF Held, Insts, Placed, Once
    <3>2. Insts(channel)' = Insts(Tail(channel)) /\ Once(channel)'
      BY <2>1, <2>3 DEF Insts, Once
    <3>3. Placed'
      BY <2>1, <2>2, <2>3, <3>1, <3>2 DEF Placed
    <3> QED
      BY <2>7, <3>3 DEF PlaceState
  <2> QED
    BY <1>8, <2>5, <2>6, <2>7 DEF Receive
<1>9. CASE WriteSid
  <2>1. /\ main = "write" /\ main' = "collect" /\ held \in Results
        /\ list \in Seq(Results) /\ list' = Append(list, held)
        /\ UNCHANGED <<channel, props, asked>>
    BY <1>9, <1>t DEF WriteSid, SidState, TypeOK
  <2>2. Placed /\ Held = {held.inst} /\ Held' = {} /\ Running' = Running
    BY <2>1 DEF PlaceState, Held, Running
  <2>3. Insts(list)' = Insts(list) \cup {held.inst} /\ Once(list)'
    BY <2>1, <2>2, Sent DEF Placed, Insts, Once
  <2>4. UNCHANGED <<Insts(channel), Once(channel)>>
    BY <2>1 DEF Insts, Once
  <2>5. Placed'
    BY <2>1, <2>2, <2>3, <2>4 DEF Placed
  <2> QED
    BY <2>1, <2>5 DEF PlaceState
<1>10. CASE Return
  <2>1. Held' = Held /\ Running' = Running /\ channel' = <<>> /\ Running = {}
    BY <1>10 DEF Return, Running, Held
  <2> QED
    BY <1>10, <2>1 DEF Return, PlaceState, Placed, Insts, Once
<1>11. CASE Crash
  BY <1>11 DEF Crash, PlaceState, Returned
<1>12. CASE UNCHANGED vars
  BY <1>12, PlacesUntouched DEF vars, Running, Held
<1> QED
  BY <1>1, <1>2, <1>3, <1>4, <1>5, <1>6, <1>7, <1>8, <1>9, <1>10, <1>11, <1>12 DEF Next

\* Every instance is in one place of a refresh: to be called, called, or in the list.
THEOREM PlacesInvariance == Spec => []PlaceState
BY Invariance, InitPlaces, StepPlaces, PTL DEF Spec

\* A returned list has every instance that SAP listed exactly once.
THEOREM EveryOnce == Spec => []EveryInstanceOnce
<1>1. IInv /\ PlaceState => EveryInstanceOnce
  <2> SUFFICES ASSUME IInv, PlaceState, Returned PROVE EveryInstanceOnce
    BY DEF EveryInstanceOnce
  <2> DEFINE Nth == [n \in 1..Len(list) |-> list[n].inst]
  <2>1. list \in Seq(Results) /\ Placed /\ Running = {} /\ channel = <<>> /\ Held = {}
    BY DEF IInv, TypeOK, PlaceState, Returned, Held
  <2>2. asked = Insts(list) /\ asked # {} /\ Once(list) /\ Len(list) \in Nat
    BY <2>1 DEF Placed, Insts
  <2>3. Nth \in Bijection(1..Len(list), asked)
    BY <2>2, Zenon DEF Bijection, Injection, Surjection, Insts, Once, IsInjective
  <2>4. ExistsBijection(1..Len(list), asked)
    BY <2>3 DEF ExistsBijection
  <2>5. Cardinality(asked) = Len(list)
    BY <2>2, <2>4, FS_CountingElements
  <2>6. Len(list) > 0
    BY <2>2 DEF Insts
  <2>7. {list[n].inst : n \in DOMAIN list} = asked
    BY <2>1, <2>2 DEF Insts
  <2> QED
    BY <2>5, <2>6, <2>7 DEF EveryInstanceOnce
<1> QED
  BY Invariance, PlacesInvariance, <1>1, PTL
-----------------------------------------------------------------------------
(* Behind the cache.                                                        *)

\* The cache only decides when a call begins and who makes it.
LEMMA CachedStep == [CachedNext]_allVars => [Next]_vars
<1> SUFFICES ASSUME [CachedNext]_allVars PROVE [Next]_vars
  OBVIOUS
<1>1. ASSUME NEW p \in Readers,
             GetCachedInstanceList(p) \/ Hit(p) \/ SetFuncReturns(p)
      PROVE  UNCHANGED vars
  BY <1>1 DEF GetCachedInstanceList, Hit, SetFuncReturns
<1>2. ASSUME NEW p \in Readers, SetFunc(p) PROVE Next
  BY <1>2 DEF SetFunc, Next
<1>3. ASSUME NEW p \in Readers, CachedConfigRead(p) PROVE Next
  BY <1>3 DEF CachedConfigRead, Next
<1>4. CASE Listing
  BY <1>4 DEF Listing, Next
<1>5. CASE Tick \/ UNCHANGED allVars
  BY <1>5 DEF Tick, allVars
<1> QED
  BY <1>1, <1>2, <1>3, <1>4, <1>5 DEF CachedNext

\* Behind the cache GetAllInstances behaves as InstanceList says: every theorem
\* above holds of it there.
THEOREM CachedImplements == CachedSpec => Spec
<1>1. CachedInit => Init
  BY DEF CachedInit
<1> QED
  BY <1>1, CachedStep, PTL DEF CachedSpec, Spec

\* The types of the cache: it keeps lists of results, and Nil for an error.
CacheType ==
  /\ now \in Int
  /\ content \in [{Key} -> [value : Seq(Results) \cup {Nil, None}, exp : Int]]
  /\ status \in [Readers -> {"idle", "pending", "loading"}]
  /\ wanted \in [Readers -> {Key, None}]
  /\ \A p \in Readers : status[p] # "idle" => wanted[p] = Key
  /\ result \in [Readers -> Seq(Results) \cup {Nil, None}]

\* Every step of the cache, by what it may do to the contents and the results.
LEMMA StepCacheType == IInv /\ CacheType /\ [CachedNext]_allVars => CacheType'
<1> SUFFICES ASSUME IInv, CacheType, [CachedNext]_allVars PROVE CacheType'
  OBVIOUS
<1> DEFINE Vals == Seq(Results) \cup {Nil, None}
<1>t. /\ now \in Int
      /\ content \in [{Key} -> [value : Vals, exp : Int]]
      /\ status \in [Readers -> {"idle", "pending", "loading"}]
      /\ wanted \in [Readers -> {Key, None}]
      /\ \A p \in Readers : status[p] # "idle" => wanted[p] = Key
      /\ result \in [Readers -> Vals]
  BY DEF CacheType
<1>v. list \in Vals /\ Nil \in Vals /\ None \in Vals
  BY DEF IInv, TypeOK
<1>w. ASSUME NEW x, x \in Vals PROVE x \in Seq(Results) \cup {Nil, None}
  BY <1>w
<1> HIDE DEF Vals
<1>r. ASSUME NEW p \in Readers, NEW v \in Vals, C!Return(p, v), UNCHANGED now,
             content' \in [{Key} -> [value : Vals, exp : Int]]
      PROVE  CacheType'
  BY <1>r, <1>t, <1>v DEF C!Return, CacheType, Vals
<1>1. ASSUME NEW p \in Readers, GetCachedInstanceList(p) PROVE CacheType'
  BY <1>1, <1>t, <1>v DEF GetCachedInstanceList, C!Invoke, CacheType, Vals
<1>2. ASSUME NEW p \in Readers, Hit(p) PROVE CacheType'
  <2>1. content[wanted[p]].value \in Vals
    BY <1>2, <1>t DEF Hit, C!Hit
  <2> QED
    BY <1>2, <1>r, <1>t, <2>1 DEF Hit, C!Hit
<1>3. ASSUME NEW p \in Readers, SetFunc(p) PROVE CacheType'
  BY <1>3, <1>t DEF SetFunc, C!Load, CacheType, Vals
<1>4. ASSUME NEW p \in Readers, SetFuncReturns(p) PROVE CacheType'
  <2> DEFINE v == IF list = None THEN Nil ELSE list
  <2>1. PICK ttl \in TTLs : C!Loaded(p, v, ttl)
    BY <1>4 DEF SetFuncReturns
  <2>2. v \in Vals
    BY <1>v
  <2>3. (IF ttl > 0 THEN now + ttl ELSE 0) \in Int /\ wanted[p] = Key
    BY <1>t, <2>1, CachedInstancesAssumption DEF CachedInstancesAssumption, C!Loaded
  <2> HIDE DEF v
  <2>4. content' \in [{Key} -> [value : Vals, exp : Int]]
    BY <1>t, <2>1, <2>2, <2>3 DEF C!Loaded
  <2> QED
    BY <1>r, <2>1, <2>2, <2>4 DEF C!Loaded
<1>5. CASE Tick
  <2>1. content' \in [{Key} -> [value : Vals, exp : Int]]
    BY <1>5, <1>t DEF Tick
  <2> QED
    BY <1>5, <1>t, <2>1 DEF Tick, CacheType, Vals
<1>6. CASE UNCHANGED cacheVars
  BY <1>6, <1>t DEF cacheVars, CacheType, Vals
<1> QED
  BY <1>1, <1>2, <1>3, <1>4, <1>5, <1>6
     DEF CachedNext, CachedConfigRead, Listing, allVars

LEMMA InitCacheType == CachedInit => CacheType
BY DEF CachedInit, C!Init, C!NoItem, CacheType

\* While the lists that are served show a SID, sap_sid is set; so sap_sid is not
\* written any more, and could not have been when the process ended.
ShownState ==
  /\ main \in {"write", "crashed"} => sapSid = NoSid
  /\ \A l \in Served : (\E n \in DOMAIN l : l[n].sid # NoSid) => sapSid # NoSid

\* What is served after a step was served before it, or is the list that
\* GetAllInstances has returned.
LEMMA ServedComesFrom ==
  ASSUME IInv, CacheType, [CachedNext]_allVars, NEW l \in Served'
  PROVE  l \in Served \/ (Returned /\ l = list)
<1>1. l \notin {None, Nil} /\ (l = content'[Key].value \/ \E p \in Readers : l = result'[p])
  BY DEF Served, Lists
<1>t. CacheType'
  BY StepCacheType
<1>2. ASSUME UNCHANGED <<content, result>> PROVE l \in Served
  BY <1>2 DEF Served, Lists
<1>3. ASSUME NEW p \in Readers, NEW v, C!Return(p, v),
             content'[Key].value \in {content[Key].value, v},
             v = None \/ v = Nil \/ v \in Served \/ (Returned /\ v = list)
      PROVE  l \in Served \/ (Returned /\ l = list)
  <2>1. \A q \in Readers : result'[q] \in {result[q], v}
    BY <1>3 DEF C!Return, CacheType
  <2> QED
    BY <1>1, <1>3, <2>1 DEF Served, Lists
<1>4. ASSUME NEW p \in Readers, GetCachedInstanceList(p) PROVE l \in Served
  <2>1. content' = content /\ \A q \in Readers : result'[q] \in {result[q], None}
    BY <1>4 DEF GetCachedInstanceList, C!Invoke, CacheType
  <2> QED
    BY <1>1, <2>1 DEF Served, Lists
<1>5. ASSUME NEW p \in Readers, Hit(p) PROVE l \in Served \/ (Returned /\ l = list)
  <2>1. wanted[p] = Key /\ content' = content /\ C!Return(p, content[Key].value)
    BY <1>5 DEF Hit, C!Hit, CacheType
  <2>2. content[Key].value \in {None, Nil} \/ content[Key].value \in Served
    BY DEF Served, Lists
  <2> QED
    BY <1>3, <2>1, <2>2
<1>6. ASSUME NEW p \in Readers, SetFunc(p) PROVE l \in Served
  BY <1>6, <1>2 DEF SetFunc, C!Load
<1>7. ASSUME NEW p \in Readers, SetFuncReturns(p)
      PROVE  l \in Served \/ (Returned /\ l = list)
  <2> DEFINE v == IF list = None THEN Nil ELSE list
  <2>1. PICK ttl \in TTLs : C!Loaded(p, v, ttl)
    BY <1>7 DEF SetFuncReturns
  <2>2. v = Nil \/ (Returned /\ v = list)
    BY <1>7 DEF SetFuncReturns, Returned
  <2> HIDE DEF v
  <2>3. wanted[p] = Key /\ content'[Key].value = v
    BY <2>1 DEF C!Loaded, CacheType
  <2> QED
    BY <1>3, <2>1, <2>2, <2>3 DEF C!Loaded
<1>8. CASE Tick
  <2>1. content'[Key].value = content[Key].value /\ result' = result
    BY <1>8 DEF Tick, CacheType
  <2> QED
    BY <1>1, <2>1 DEF Served, Lists
<1>9. CASE UNCHANGED cacheVars
  BY <1>2, <1>9 DEF cacheVars
<1> QED
  BY <1>4, <1>5, <1>6, <1>7, <1>8, <1>9
     DEF CachedNext, CachedConfigRead, Listing, allVars

\* Every step of GetAllInstances keeps a known SID, and none that ends in the write
\* or in the crash touches sap_sid.
LEMMA SidSteps ==
  ASSUME IInv, [Next]_vars
  PROVE  /\ sapSid # NoSid => sapSid' = sapSid
         /\ main' \in {"write", "crashed"} =>
              sapSid' = sapSid /\ (main \in {"write", "crashed"} \/ sapSid = NoSid)
<1> USE DEF IInv, SidState
<1>1. CASE GetAllInstances \/ ReturnError \/ Spawn \/ Return
  BY <1>1 DEF GetAllInstances, ReturnError, Spawn, Return
<1>2. CASE GetSystemInstanceList
  BY <1>2 DEF GetSystemInstanceList
<1>3. ASSUME NEW i \in Instances, StartRead(i) \/ EndRead(i) \/ CallEnds(i)
      PROVE  UNCHANGED <<main, sapSid>>
  BY <1>3 DEF StartRead, EndRead, CallEnds
<1>4. ASSUME NEW r \in Readers, ConfigRead(r) PROVE UNCHANGED <<main, sapSid>>
  BY <1>4 DEF ConfigRead
<1>5. CASE Receive
  BY <1>5 DEF Receive, ReceiveFailed, Learns
<1>6. CASE WriteSid
  BY <1>6 DEF WriteSid
<1>7. CASE Crash
  BY <1>7 DEF Crash, Racing
<1>8. CASE UNCHANGED vars
  BY <1>8 DEF vars
<1> QED
  BY <1>1, <1>2, <1>3, <1>4, <1>5, <1>6, <1>7, <1>8 DEF Next

LEMMA InitShown == CachedInit => ShownState
BY DEF CachedInit, Init, C!Init, C!NoItem, ShownState, Served, Lists

LEMMA StepShown ==
  IInv /\ CacheType /\ ShownState /\ [CachedNext]_allVars => ShownState'
<1> SUFFICES ASSUME IInv, CacheType, ShownState, [CachedNext]_allVars PROVE ShownState'
  OBVIOUS
<1>1. [Next]_vars
  BY CachedStep
<1>2. main' \in {"write", "crashed"} => sapSid' = NoSid
  BY <1>1, SidSteps DEF ShownState
<1>3. ASSUME NEW l \in Served', NEW n \in DOMAIN l, l[n].sid # NoSid
      PROVE  sapSid' # NoSid
  <2>1. CASE l \in Served
    BY <1>1, <1>3, <2>1, SidSteps DEF ShownState
  <2>2. CASE Returned /\ l = list
    <3>1. list # None /\ list \in Seq(Results)
      BY <2>2 DEF Returned, IInv, TypeOK
    <3>2. sapSid # NoSid
      BY <1>3, <2>2, <3>1 DEF IInv, LabelState
    <3> QED
      BY <1>1, <3>2, SidSteps
  <2> QED
    BY <2>1, <2>2, ServedComesFrom
<1> QED
  BY <1>2, <1>3 DEF ShownState

\* Over any number of refreshes, one runs at a time, and what is shown has a known SID.
THEOREM CachedInvariance == CachedSpec => [](IInv /\ CacheType /\ ShownState)
<1>1. CachedInit => IInv /\ CacheType /\ ShownState
  BY InitIInv, InitCacheType, InitShown DEF CachedInit
<1>2. IInv /\ [CachedNext]_allVars => IInv'
  BY CachedStep, StepType, StepSid, StepLabel DEF IInv
<1> QED
  BY <1>1, <1>2, StepCacheType, StepShown, PTL DEF CachedSpec

\* Once a Collect has a list that shows a SID, no later refresh can end the process
\* by writing sap_sid, with any number of Collects and whatever fails.
THEOREM ShownSafe == CachedSpec => []NoCrashOnceShown
<1>1. ShownState => NoCrashOnceShown
  BY DEF ShownState, NoCrashOnceShown
<1> QED
  BY CachedInvariance, <1>1, PTL

\* GetAllInstances runs only while a Collect is in its set function, so the guard
\* main = "idle" of GetAllInstances keeps no Collect from loading.
THEOREM CallUnderLock ==
  CachedSpec => [](main # "idle" => \E p \in Readers : status[p] = "loading")
<1> DEFINE Covered == main # "idle" => \E p \in Readers : status[p] = "loading"
<1>1. CachedInit => Covered
  BY DEF CachedInit, Init
<1>2. CacheType /\ Covered /\ [CachedNext]_allVars => Covered'
  <2> SUFFICES ASSUME CacheType, Covered, [CachedNext]_allVars, main' # "idle"
               PROVE  \E p \in Readers : status'[p] = "loading"
    OBVIOUS
  <2>1. ASSUME NEW p \in Readers, GetCachedInstanceList(p) \/ Hit(p)
        PROVE  \E q \in Readers : status'[q] = "loading"
    <3>1. PICK q \in Readers : status[q] = "loading"
      BY <2>1 DEF GetCachedInstanceList, Hit, vars
    <3>2. status'[q] = "loading"
      BY <2>1, <3>1 DEF GetCachedInstanceList, Hit, C!Invoke, C!Hit, C!Return, CacheType
    <3> QED
      BY <3>2
  <2>2. ASSUME NEW p \in Readers, SetFunc(p) PROVE status'[p] = "loading"
    BY <2>2 DEF SetFunc, C!Load, CacheType
  <2>3. ASSUME NEW p \in Readers PROVE ~ SetFuncReturns(p)
    BY DEF SetFuncReturns, vars
  <2>4. CASE Listing
    <3>1. main # "idle" /\ status' = status
      BY <2>4 DEF Listing, cacheVars, GetSystemInstanceList, ReturnError, Spawn, StartRead,
                  EndRead, CallEnds, Receive, ReceiveFailed, WriteSid, Return, Crash, Racing
    <3> QED
      BY <3>1
  <2>5. CASE \/ \E p \in Readers : CachedConfigRead(p)
             \/ Tick \/ UNCHANGED allVars
    <3>1. UNCHANGED <<main, status>>
      BY <2>5 DEF CachedConfigRead, ConfigRead, Tick, allVars, vars, cacheVars
    <3> QED
      BY <3>1
  <2> QED
    BY <2>1, <2>2, <2>3, <2>4, <2>5 DEF CachedNext
<1> QED
  BY <1>1, <1>2, CachedInvariance, PTL DEF CachedSpec
=============================================================================
