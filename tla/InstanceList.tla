---------------------------- MODULE InstanceList ----------------------------
(***************************************************************************)
(* lib/sapcontrol: GetAllInstances, the set function behind the cache key  *)
(* "InstanceInfo".                                                         *)
(*                                                                         *)
(* It asks one access point after the other for the instances of the       *)
(* system, then asks every instance for its properties, each in its own    *)
(* goroutine, and lists the results in the order of their arrival.  The    *)
(* channel and the WaitGroup are those of FanOut and are taken for the     *)
(* ForkJoin that it implements: the loop ends when every result is in.     *)
(* The cache runs one GetAllInstances at a time (LockDiscipline).          *)
(*                                                                         *)
(* The SID matters here.  It is a label of every metric; the instances     *)
(* whose properties cannot be had get it from sap_sid, and GetAllInstances *)
(* writes what it learns into sap_sid: in the shared viper configuration,  *)
(* a plain Go map that every goroutine reads at any time.  A read during   *)
(* the write is undefined: nothing may happen, or the runtime may end the  *)
(* process ("concurrent map read and map write").                          *)
(***************************************************************************)
EXTENDS Integers, Sequences, FiniteSets

CONSTANTS
  Instances,    \* the SAP instances there may be
  Readers,      \* the goroutines of other collectors, which read the configuration
  AccessPoints, \* how many URLs GetSystemInstanceList tries (4 in the code)
  Sids,         \* the SIDs that SAPSYSTEMNAME may be
  Configured,   \* the values that the configuration may give sap_sid
  NoSid,        \* the empty string
  None          \* absence: of a result, of a list

ASSUME InstanceListAssumption ==
  /\ AccessPoints \in Nat \ {0}
  /\ NoSid \notin Sids
  /\ Configured \subseteq Sids \cup {NoSid}
  /\ None \notin Instances

VARIABLES
  main,      \* where GetAllInstances stands; "crashed": the process has ended
  tried,     \* how many access points were asked so far
  props,     \* props[i]: where the goroutine of instance i stands
  channel,   \* the results that have been sent and not yet received
  held,      \* the result whose SID the loop is writing to sap_sid
  list,      \* the instances received so far, what the last call returned
  sapSid,    \* the configuration value sap_sid
  reading,   \* the Readers that are inside viper
  asked,     \* the instances of the accepted answer
  known      \* ghost: sap_sid when the call began

vars == <<main, tried, props, channel, held, list, sapSid, reading, asked, known>>

\* GetSingleInstance: an instance with its own SID, or with the error.
Results == [inst : Instances, ok : BOOLEAN, sid : Sids \cup {NoSid}]

Init ==
  /\ main    = "idle"
  /\ tried   = 0
  /\ props   = [i \in Instances |-> "none"]
  /\ channel = <<>>
  /\ held    = None
  /\ list    = None
  /\ sapSid \in Configured
  /\ reading = {}
  /\ asked   = {}
  /\ known   = NoSid

GetAllInstances ==
  /\ main = "idle"
  /\ main'  = "ask"
  /\ tried' = 0
  /\ list'  = None
  /\ asked' = {}
  /\ known' = sapSid
  /\ UNCHANGED <<props, channel, held, sapSid, reading>>
-----------------------------------------------------------------------------
(* GetSystemInstanceList.                                                  *)

\* A list without instances is a reason to try the next access point, as an error.
Accepts(ok, answered) == ok /\ answered # {}

GetSystemInstanceList ==
  /\ main = "ask"
  /\ tried' = tried + 1
  /\ \E ok \in BOOLEAN, answered \in SUBSET Instances :
       IF Accepts(ok, answered)
       THEN main' = "spawn" /\ asked' = answered
       ELSE /\ main' = IF tried' < AccessPoints THEN "ask" ELSE "failed"
            /\ UNCHANGED asked
  /\ UNCHANGED <<props, channel, held, list, sapSid, reading, known>>

\* Every access point failed.
ReturnError ==
  /\ main = "failed"
  /\ main' = "idle"
  /\ UNCHANGED <<tried, props, channel, held, list, sapSid, reading, asked, known>>
-----------------------------------------------------------------------------
(* The goroutines.                                                         *)

\* The process has not ended, which would stop them all.
Alive == main # "crashed"

\* One per listed instance.  The loop that starts them writes nothing that they
\* read, so they may as well start together.
Spawn ==
  /\ main = "spawn"
  /\ props' = [i \in Instances |-> IF i \in asked THEN "started" ELSE "none"]
  /\ main' = "collect"
  /\ list' = <<>>
  /\ UNCHANGED <<tried, channel, held, sapSid, reading, asked, known>>

\* GetInstanceProperties and CreateSoapClient read the configuration.
StartRead(i) ==
  /\ Alive /\ props[i] = "started"
  /\ props' = [props EXCEPT ![i] = "reading"]
  /\ UNCHANGED <<main, tried, channel, held, list, sapSid, reading, asked, known>>

EndRead(i) ==
  /\ Alive /\ props[i] = "reading"
  /\ props' = [props EXCEPT ![i] = "calling"]
  /\ UNCHANGED <<main, tried, channel, held, list, sapSid, reading, asked, known>>

\* The call ends and its result is sent.  The properties of an instance may lack
\* the SID; a failed instance has none.
CallEnds(i) ==
  /\ Alive /\ props[i] = "calling"
  /\ \E ok \in BOOLEAN, sid \in Sids \cup {NoSid} :
       /\ ok \/ sid = NoSid
       /\ channel' = Append(channel, [inst |-> i, ok |-> ok, sid |-> sid])
  /\ props' = [props EXCEPT ![i] = "none"]
  /\ UNCHANGED <<main, tried, held, list, sapSid, reading, asked, known>>

\* Another collector reads an option, between any two of its own steps.
ConfigRead(r) ==
  /\ Alive
  /\ reading' = IF r \in reading THEN reading \ {r} ELSE reading \cup {r}
  /\ UNCHANGED <<main, tried, props, channel, held, list, sapSid, asked, known>>
-----------------------------------------------------------------------------
(* The loop over the results.                                              *)

\* The head of the channel is received, and listed as res.
Take(res) == channel' = Tail(channel) /\ list' = Append(list, res)

\* Mutants: sap_sid is read once, before the loop; a failed instance is left out.
ReceiveFailedEarly(res) ==
  /\ ~ res.ok
  /\ Take([res EXCEPT !.sid = known])
  /\ UNCHANGED <<main, held>>

ReceiveFailedSkips(res) ==
  /\ ~ res.ok
  /\ channel' = Tail(channel)
  /\ UNCHANGED <<main, held, list>>

\* A failed instance gets the SID that is known by now.
ReceiveFailed(res) ==
  /\ ~ res.ok
  /\ Take([res EXCEPT !.sid = sapSid])
  /\ UNCHANGED <<main, held>>

\* Mutant: every answer is written to sap_sid.
LearnsAlways(res) == res.ok

\* The first answer while sap_sid is empty is written to it.
Learns(res) == res.ok /\ sapSid = NoSid

Receive ==
  /\ main = "collect"
  /\ channel # <<>>
  /\ LET res == Head(channel)
     IN  \/ ReceiveFailed(res)
         \/ /\ res.ok /\ ~ Learns(res)
            /\ Take(res)
            /\ UNCHANGED <<main, held>>
         \/ /\ Learns(res)
            /\ channel' = Tail(channel)
            /\ main' = "write"
            /\ held' = res
            /\ UNCHANGED list
  /\ UNCHANGED <<tried, props, sapSid, reading, asked, known>>

\* v.Set returns.
WriteSid ==
  /\ main = "write"
  /\ sapSid' = held.sid
  /\ list'   = Append(list, held)
  /\ held'   = None
  /\ main'   = "collect"
  /\ UNCHANGED <<tried, props, channel, reading, asked, known>>

\* The range loop ends: every goroutine has sent and every result was received.
Return ==
  /\ main = "collect"
  /\ channel = <<>>
  /\ \A i \in Instances : props[i] = "none"
  /\ main' = "idle"
  /\ UNCHANGED <<tried, props, channel, held, list, sapSid, reading, asked, known>>

\* Somebody is in the middle of a read of the map that is being written.
Racing == main = "write" /\ (reading # {} \/ \E i \in Instances : props[i] = "reading")

\* One outcome of a race (the other is that nothing happens).
Crash ==
  /\ Racing
  /\ main' = "crashed"
  /\ UNCHANGED <<tried, props, channel, held, list, sapSid, reading, asked, known>>

Next ==
  \/ GetAllInstances \/ GetSystemInstanceList \/ ReturnError \/ Spawn
  \/ \E i \in Instances : StartRead(i) \/ EndRead(i) \/ CallEnds(i)
  \/ \E r \in Readers : ConfigRead(r)
  \/ Receive \/ WriteSid \/ Return \/ Crash

Spec == Init /\ [][Next]_vars
-----------------------------------------------------------------------------
TypeOK ==
  /\ main \in {"idle", "ask", "failed", "spawn", "collect", "write", "crashed"}
  /\ tried \in 0..AccessPoints
  /\ props \in [Instances -> {"none", "started", "reading", "calling"}]
  /\ channel \in Seq(Results)
  /\ held \in Results \cup {None}
  /\ list \in Seq(Results) \cup {None}
  /\ sapSid \in Sids \cup {NoSid}
  /\ reading \in SUBSET Readers
  /\ asked \in SUBSET Instances
  /\ main = "ask" => tried < AccessPoints
  /\ main \in {"spawn", "collect", "write"} => asked # {}
  /\ main \in {"collect", "write"} => list \in Seq(Results)
  /\ known \in Sids \cup {NoSid}
-----------------------------------------------------------------------------
\* GetAllInstances has returned a list.
Returned == main = "idle" /\ list # None

\* The list has every instance that SAP listed exactly once, in whatever order and
\* with whatever failures the property calls ended: an instance that does not
\* answer is still shown (with its number for a name), not dropped.
EveryInstanceOnce ==
  Returned => /\ Len(list) > 0
              /\ Len(list) = Cardinality(asked)
              /\ {list[n].inst : n \in DOMAIN list} = asked

\* What label a failed instance carries: the SID that was known when the refresh
\* began, or else the one that an earlier result of the same refresh brought.
FailedInstancesLabelled ==
  Returned =>
    \A n \in DOMAIN list : ~ list[n].ok =>
      /\ known # NoSid => list[n].sid = known
      /\ (\E m \in 1..(n - 1) : list[m].sid # NoSid) => list[n].sid # NoSid

\* The write to the shared configuration can end the process only in a call that
\* began without a SID: a configured sap_sid rules it out from the start, and a
\* learnt one rules it out from the next refresh on (current_instance.go:136).
CrashOnlyWhileUnknown == main = "crashed" => known = NoSid

\* A SID once known is never replaced: the label of the failed instances does not
\* change from one refresh to the next, whoever answers first.
SidStable == [][sapSid # NoSid => sapSid' = sapSid]_vars
=============================================================================
