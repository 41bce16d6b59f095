------------------------------- MODULE Metrics -------------------------------
(***************************************************************************)
(* What one scrape shows: the metrics that the recorders of the start      *)
(* service, dispatcher, enqueue server and work process collectors emit    *)
(* from the answers of SAP, and what client_golang makes of them.          *)
(*                                                                         *)
(* Scrape models when the recorders run; this module models what they say. *)
(* A turn of a recorder's loop over the instances is one step, for any     *)
(* answer of SAP.  Label values are positional in the code, so that a      *)
(* value is a pair here: what it means, and which one it is.  The answers  *)
(* are sequences, since SAP may list a record twice; what is sent is a     *)
(* family of metrics, since one may be sent twice, and its order is not    *)
(* looked at.                                                              *)
(***************************************************************************)
EXTENDS Integers, Sequences, FiniteSets, SequencesExt

CONSTANTS
  Together,    \* bound: the sets of recorders whose metrics are looked at together
  Instances,   \* the instances of the system
  Processes,   \* OSProcess records: [name, pid, dispstatus]
  Queues,      \* the queue types of TaskHandlerQueue
  WorkProcs,   \* WorkProcess records: [no, type, status, pid, cpu]; cpu: is it a time?
  StatColours, \* the colours that occur in an enqueue statistic and an instance list
  MaxList      \* bound: how many records an answer lists

Recorders == UNION Together

VARIABLES
  todo,      \* todo[r]: the instances that r has still to visit
  pc,        \* pc[r]: "start", "loop" or "done"
  metrics,   \* the metrics received so far
  panicked,  \* MustNewConstMetric or GetDescriptor has panicked
  refused,   \* the scrape is refused: a series was sent twice
  repeated   \* ghost: SAP listed some record twice in one answer

seen == <<todo, pc, metrics, panicked, refused, repeated>>
-----------------------------------------------------------------------------
(* Colours.                                                                *)

StateColors == <<"GRAY", "GREEN", "YELLOW", "RED">>

\* The code of a colour, 0 (and an error) for a string that is none.
StateColorToFloat(colour) ==
  IF Contains(StateColors, colour)
  THEN CHOOSE code \in DOMAIN StateColors : StateColors[code] = colour
  ELSE 0

ValidColor(colour) == StateColorToFloat(colour) # 0
-----------------------------------------------------------------------------
(* Descriptors.                                                            *)

common == <<"instance_name", "instance_number", "SID", "instance_hostname">>

\* The label names of each metric, in one table per collector.
StartServiceDescs ==
  [n \in {"instances", "processes"} \cup Range(StateColors) |->
     CASE n = "instances" -> <<"features", "start_priority">> \o common \o <<"dispstatus">>
       [] n = "processes" -> <<"name", "pid", "status", "description", "starttime", "elapsedtime">>
                             \o common \o <<"proc_dispstatus">>
       [] OTHER           -> common]            \* processesperinstance_<colour>

DispatcherDescs ==
  [n \in {"queue_now", "queue_high", "queue_max", "queue_writes", "queue_reads"} |->
     <<"type">> \o common]

EnqueueDescs ==
  [n \in   ({"owner", "arguments", "locks"} \X {"now", "high", "max", "state"})
      \cup ({"enqueue"} \X {"requests", "rejects", "errors"})
      \cup ({"dequeue"} \X {"requests", "errors", "all_requests"})
      \cup ({"cleanup", "backup", "reporting", "compress", "verify"} \X {"requests"})
      \cup ({"lock", "lock_wait", "server"} \X {"time"})
      \cup {<<"replication", "state">>} |-> common]

WorkProcessDescs ==
  LET detail == <<"wp_type", "status", "pid", "name", "description", "client", "user">>
  IN [n \in {"dispatcher_work_processes", "dispatcher_work_processes_status",
             "dispatcher_work_processes_cpu"} |->
        IF n = "dispatcher_work_processes" THEN <<"wp_type", "status">> \o common
        ELSE detail \o common]

\* SetDescriptor: each collector has its own descriptors, under its subsystem.
Descriptors ==
  [start_service  |-> StartServiceDescs, dispatcher  |-> DispatcherDescs,
   enqueue_server |-> EnqueueDescs,      workprocess |-> WorkProcessDescs]

Metric(subsystem, name, value, labels) ==
  [subsystem |-> subsystem, name |-> name, value |-> value, labels |-> labels]

Declared(m)   == m.name \in DOMAIN Descriptors[m.subsystem]
LabelNames(m) == Descriptors[m.subsystem][m.name]

\* makeMetric: panics on an undeclared name or on a wrong number of label values.
WellFormed(m) == Declared(m) /\ Len(m.labels) = Len(LabelNames(m))
-----------------------------------------------------------------------------
(* The recorders: what each emits for instance i, given an answer.         *)

\* Mutant: SID and host name change places.
CommonLabelsSwapped(i) ==
  <<<<"instance_name", i>>, <<"instance_number", i>>, <<"instance_hostname", i>>, <<"SID", i>>>>

commonLabels(i) == [k \in 1..4 |-> <<common[k], i>>]

recordInstances(i, colour) ==
  [k \in {"line"} |->
     Metric("start_service", "instances", StateColorToFloat(colour),
            <<<<"features", i>>, <<"start_priority", i>>>> \o commonLabels(i)
            \o <<<<"dispstatus", colour>>>>)]

\* How many processes of a colour there are.
Count(list, colour) == Cardinality({n \in DOMAIN list : list[n].dispstatus = colour})

perInstance(i, list, colour) ==
  Metric("start_service", colour, Count(list, colour), commonLabels(i))

processMetric(i, p) ==
  Metric("start_service", "processes", StateColorToFloat(p.dispstatus),
         <<<<"name", p.name>>, <<"pid", p.pid>>, <<"status", p>>, <<"description", p>>,
           <<"starttime", p>>, <<"elapsedtime", p>>>>
         \o commonLabels(i) \o <<<<"proc_dispstatus", p.dispstatus>>>>)

\* Mutant: Collect calls recordProcessesPerInstance too (start_service.go:66).
BothRecorders(i, list) ==
  [k \in ({"line"} \X (DOMAIN list)) \cup ({"count", "again"} \X Range(StateColors)) |->
     IF k[1] = "line" THEN processMetric(i, list[k[2]]) ELSE perInstance(i, list, k[2])]

recordProcesses(i, list) ==
  [k \in ({"line"} \X (DOMAIN list)) \cup ({"count"} \X Range(StateColors)) |->
     IF k[1] = "line" THEN processMetric(i, list[k[2]]) ELSE perInstance(i, list, k[2])]

\* One line per statistic of every queue; only their labels matter here.
QueueStats == {"queue_now", "queue_high", "queue_max", "queue_writes", "queue_reads"}

recordQueues(i, list) ==
  [k \in (DOMAIN list) \X QueueStats |->
     Metric("dispatcher", k[2], 0, <<<<"type", list[k[1]]>>>> \o commonLabels(i))]

\* What is read of the statistics of the enqueue server: counts, and four colours.
EnqCounts ==
  {<<"owner", "now">>, <<"owner", "high">>, <<"owner", "max">>,
   <<"arguments", "now">>, <<"arguments", "high">>, <<"arguments", "max">>,
   <<"locks", "now">>, <<"locks", "high">>, <<"locks", "max">>,
   <<"enqueue", "requests">>, <<"enqueue", "rejects">>, <<"enqueue", "errors">>,
   <<"dequeue", "requests">>, <<"dequeue", "errors">>, <<"dequeue", "all_requests">>,
   <<"cleanup", "requests">>, <<"backup", "requests">>, <<"reporting", "requests">>,
   <<"compress", "requests">>, <<"verify", "requests">>,
   <<"lock", "time">>, <<"lock_wait", "time">>, <<"server", "time">>}
EnqStates == {<<"owner", "state">>, <<"arguments", "state">>, <<"locks", "state">>,
              <<"replication", "state">>}

\* A state that is no colour is not emitted.
recordEnqStats(i, state) ==
  [k \in EnqCounts \cup {s \in EnqStates : ValidColor(state[s])} |->
     Metric("enqueue_server", k, IF k \in EnqStates THEN StateColorToFloat(state[k]) ELSE 0,
            commonLabels(i))]

\* RUN is 1, WAIT one half, everything else 0 (in halves, to stay with integers).
statusValue(status) ==
  CASE status = "RUN" -> 2 [] status = "WAIT" -> 1 [] OTHER -> 0

\* Reason, client and user may be the same for all of them.
wpLabels(i, wp) ==
  <<<<"wp_type", wp.type>>, <<"status", wp.status>>, <<"pid", wp.pid>>, <<"name", wp.no>>,
    <<"description", "any">>, <<"client", "any">>, <<"user", "any">>>> \o commonLabels(i)

\* The line of a work process, and the one of its CPU time if that is a time.
sendWorkProcessMetrics(i, list) ==
  [k \in ({"status"} \X (DOMAIN list)) \cup ({"cpu"} \X {n \in DOMAIN list : list[n].cpu}) |->
     IF k[1] = "status"
     THEN Metric("workprocess", "dispatcher_work_processes_status", statusValue(list[k[2]].status),
                 wpLabels(i, list[k[2]]))
     ELSE Metric("workprocess", "dispatcher_work_processes_cpu", 0, wpLabels(i, list[k[2]]))]

\* Mutant: the counts are kept by status only, and shown under every type.
wpCountsByStatus(list, type, status) ==
  Cardinality({n \in DOMAIN list : list[n].status = status})

wpCounts(list, type, status) ==
  Cardinality({n \in DOMAIN list : list[n].type = type /\ list[n].status = status})

\* A line for each type and status that occurs.
wpTotals(i, list) ==
  [k \in {"count"} \X {<<list[n].type, list[n].status>> : n \in DOMAIN list} |->
     Metric("workprocess", "dispatcher_work_processes", wpCounts(list, k[2][1], k[2][2]),
            <<<<"wp_type", k[2][1]>>, <<"status", k[2][2]>>>> \o commonLabels(i))]

recordWorkProcessStats(i, list) ==
  LET details == sendWorkProcessMetrics(i, list)
      totals  == wpTotals(i, list)
  IN [k \in DOMAIN details \cup DOMAIN totals |->
        IF k \in DOMAIN details THEN details[k] ELSE totals[k]]
-----------------------------------------------------------------------------
(* The scrape.                                                             *)

MetricsInit ==
  /\ todo     = [r \in Recorders |-> {}]
  /\ \E recorders \in Together :
       pc = [r \in Recorders |-> IF r \in recorders THEN "start" ELSE "done"]
  /\ metrics  = {}
  /\ panicked = FALSE
  /\ refused  = FALSE
  /\ repeated = FALSE

\* A series is a name with its label values, whatever the metric's value is.
Series(m) == <<m.subsystem, m.name, m.labels>>

\* The channel of Collect and the registry behind it.
Emit(sent) ==
  /\ metrics'  = metrics \cup Range(sent)
  /\ panicked' = (panicked \/ \E k \in DOMAIN sent : ~ WellFormed(sent[k]))
  /\ refused'  = (refused \/ \E k \in DOMAIN sent :
                               \/ \E m \in metrics : Series(m) = Series(sent[k])
                               \/ \E j \in DOMAIN sent \ {k} : Series(sent[j]) = Series(sent[k]))

\* GetCachedInstanceList fails: the recorder returns.  Or it lists the instances.
GetCachedInstanceList(r) ==
  /\ pc[r] = "start"
  /\ \/ pc' = [pc EXCEPT ![r] = "done"] /\ UNCHANGED todo
     \/ pc' = [pc EXCEPT ![r] = "loop"] /\ todo' = [todo EXCEPT ![r] = Instances]
  /\ UNCHANGED <<metrics, panicked, refused, repeated>>

Lists(S) == BoundedSeq(S, MaxList)

\* The turn for i ends; what SAP answered to it and what follows from that.
Turn(r, i) ==
  /\ ~ panicked
  /\ pc[r] = "loop" /\ i \in todo[r]
  /\ todo' = [todo EXCEPT ![r] = @ \ {i}]
  /\ UNCHANGED pc

\* records: what SAP tells the records of the answer apart by.
Shows(records, sent) ==
  /\ Emit(sent)
  /\ repeated' = (repeated \/ ~ IsInjective(records))

\* An instance whose process list or call failed, or that is not of the kind the
\* recorder looks for, is left out; the loop goes on.
Skip(r, i) ==
  /\ r # "instances"
  /\ Turn(r, i)
  /\ UNCHANGED <<metrics, panicked, refused, repeated>>

Record(r, i) ==
  /\ Turn(r, i)
  /\ \/ r = "instances" /\ \E c \in StatColours : Shows(<<>>, recordInstances(i, c))
     \/ r = "processes" /\ \E l \in Lists(Processes) : Shows(l, recordProcesses(i, l))
     \/ r = "queues" /\ \E l \in Lists(Queues) : Shows(l, recordQueues(i, l))
     \/ r = "enqueue" /\ \E s \in [EnqStates -> StatColours] : Shows(<<>>, recordEnqStats(i, s))
     \/ r = "workprocs" /\ \E l \in Lists(WorkProcs) :
          Shows([n \in DOMAIN l |-> l[n].no], recordWorkProcessStats(i, l))

Ends(r) ==
  /\ pc[r] = "loop" /\ todo[r] = {}
  /\ pc' = [pc EXCEPT ![r] = "done"]
  /\ UNCHANGED <<todo, metrics, panicked, refused, repeated>>

MetricsNext ==
  \E r \in Recorders :
    \/ GetCachedInstanceList(r) \/ Ends(r)
    \/ \E i \in Instances : Skip(r, i) \/ Record(r, i)

MetricsSpec == MetricsInit /\ [][MetricsNext]_seen
-----------------------------------------------------------------------------
(* Properties.                                                             *)

\* Every label value stands under the name it was declared with: label names and
\* values are two lists, in two functions, that only their order connects
\* (SetDescriptor in the constructors, MakeGaugeMetric in the recorders), and a
\* list that is too short panics in MustNewConstMetric.
LabelsAligned ==
  /\ ~ panicked
  /\ \A m \in metrics :
       Declared(m) /\ \A k \in DOMAIN m.labels : m.labels[k][1] = LabelNames(m)[k]

\* The recorders send a series twice, which makes client_golang refuse the whole
\* scrape, only if SAP lists a record, or the number of a work process, twice: the
\* labels identify the record (start_service.go:148, workprocess.go:138) and the instance.
RefusedOnlyForRepeats == refused => repeated

Shown(m, label, value) == \E k \in DOMAIN m.labels : m.labels[k] = <<label, value>>

\* The lines of a collector's metric for instance i.
Lines(subsystem, name, i) ==
  {m \in metrics : m.subsystem = subsystem /\ m.name = name /\ Shown(m, "instance_name", i)}

\* The four counts of an instance add up to what its processes show: a colour's
\* count is the number of lines of `processes` with that colour, so that only the
\* processes of unknown colour, which have the value 0, are in no count
\* (start_service.go:140-166).
ProcessCountsAgree ==
  ~ refused =>
    \A i \in Instances : \A colour \in Range(StateColors) :
      \A m \in Lines("start_service", colour, i) :
        m.value = Cardinality({p \in Lines("start_service", "processes", i) :
                                 p.value = StateColorToFloat(colour)})

\* The aggregated line of a type and a status counts the detailed lines of that
\* type and status, for every one that is shown (workprocess.go:97-118).
WpCountsAgree ==
  ~ refused =>
    \A i \in Instances :
      LET detailed == Lines("workprocess", "dispatcher_work_processes_status", i)
          counts   == Lines("workprocess", "dispatcher_work_processes", i)
          Of(t, s) == {m \in detailed : Shown(m, "wp_type", t) /\ Shown(m, "status", s)}
      IN /\ \A m \in counts : m.value = Cardinality(Of(m.labels[1][2], m.labels[2][2]))
         /\ \A d \in detailed : \E m \in counts :
              Shown(m, "wp_type", d.labels[1][2]) /\ Shown(m, "status", d.labels[2][2])

\* A state of the enqueue server that is no colour is left out; the counts next
\* to it are shown all the same (enqueue_server.go:133-185).
EnqueueStates ==
  \A i \in Instances :
    LET shown == {m \in metrics : m.subsystem = "enqueue_server" /\ Shown(m, "instance_name", i)}
    IN /\ \A m \in shown : m.name \in EnqStates => m.value \in DOMAIN StateColors
       /\ shown # {} => EnqCounts \subseteq {m.name : m \in shown}

\* The numbers of one scrape agree with one another: the counts of processes and of
\* work processes with the lines they count, and a state of the enqueue server is a
\* colour or missing (start_service.go:126-166, workprocess.go:89-119,
\* enqueue_server.go:122-185).
CountsAgree == ProcessCountsAgree /\ WpCountsAgree /\ EnqueueStates
=============================================================================
