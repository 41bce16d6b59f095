----------------------------- MODULE Conversions -----------------------------
(***************************************************************************)
(* What becomes of two values of SAP on their way out: the CPU time of a   *)
(* work process, which SAP writes with colons and Prometheus takes for a   *)
(* counter, and the colour of an alert, which is a number for Prometheus   *)
(* and a level for Loki.                                                   *)
(*                                                                         *)
(* A work process runs, is restarted under the same number, and is read    *)
(* by one scrape after the other.                                          *)
(***************************************************************************)
EXTENDS Integers, Sequences

CONSTANTS
  Seconds,   \* the CPU times that are looked at
  Forms,     \* with how many parts SAP may write them, 0 for not at all
  MaxPid,    \* bound: restarts of the work process
  Unreadable \* a part that is no number

ASSUME ConversionsAssumption ==
  /\ Seconds \subseteq Nat /\ 0 \in Seconds
  /\ Forms \subseteq 0..4
  /\ MaxPid \in Nat \ {0} /\ Unreadable \notin Nat

VARIABLES
  pid, used, \* the work process and the CPU time it has used
  cpu,       \* its field Cpu, the parts between the colons
  counter,   \* counter[p]: the last value of the series of the process p, or -1
  alert      \* the colour of an alert

times == <<pid, used, cpu, counter, alert>>
-----------------------------------------------------------------------------
(* The time.                                                                *)

Multiplier == <<86400, 3600, 60, 1>>

\* How SAP writes a time: the first part takes what is left.
Written(time, parts) ==
  LET weight(k) == Multiplier[4 - parts + k]
  IN [k \in 1..parts |-> IF k = 1 THEN time \div weight(1)
                         ELSE (time % weight(k - 1)) \div weight(k)]

\* The value of a time whose parts stand for days, hours, minutes and seconds.
Total(part) ==
  IF \E k \in 1..4 : part[k] = Unreadable
  THEN [value |-> 0, err |-> TRUE]
  ELSE [value |-> part[1] * Multiplier[1] + part[2] * Multiplier[2] + part[3] * Multiplier[3]
                  + part[4] * Multiplier[4],
        err |-> FALSE]

\* Mutant: the multipliers are counted from the left.
ParceCPUTimeFromLeft(text) ==
  Total([k \in 1..4 |-> IF k <= Len(text) THEN text[k] ELSE 0])

\* From the right, at most four parts; no text is no time.
ParceCPUTime(text) ==
  LET skip == Len(text) - 4
  IN  Total([k \in 1..4 |-> IF skip + k > 0 THEN text[skip + k] ELSE 0])
-----------------------------------------------------------------------------
(* The colour.                                                              *)

NoColour == ""     \* stands for every text that is no colour

StateColorToFloat(color) ==
  CASE color = "SAPControl-GRAY"   -> [value |-> 1, err |-> FALSE]
    [] color = "SAPControl-GREEN"  -> [value |-> 2, err |-> FALSE]
    [] color = "SAPControl-YELLOW" -> [value |-> 3, err |-> FALSE]
    [] color = "SAPControl-RED"    -> [value |-> 4, err |-> FALSE]
    [] OTHER                       -> [value |-> 0, err |-> TRUE]

StateColorToLevel(color) ==
  CASE color = "SAPControl-GRAY"   -> [value |-> "unknown", err |-> FALSE]
    [] color = "SAPControl-GREEN"  -> [value |-> "info", err |-> FALSE]
    [] color = "SAPControl-YELLOW" -> [value |-> "warning", err |-> FALSE]
    [] color = "SAPControl-RED"    -> [value |-> "error", err |-> FALSE]
    [] OTHER                       -> [value |-> "alert", err |-> TRUE]
-----------------------------------------------------------------------------
StartTimes ==
  /\ pid = 1 /\ used = 0 /\ cpu = <<>>
  /\ counter = [p \in 1..MaxPid |-> -1]
  /\ alert = NoColour

\* SAP fills in the field, leaves it empty or out whatever the time is, or puts
\* something there that is no time.
Writes(time) ==
  \/ \E parts \in Forms : cpu' = Written(time, parts)
  \/ \E parts \in Forms \ {0} : \E bad \in 1..parts :
       cpu' = [Written(time, parts) EXCEPT ![bad] = Unreadable]

Run ==
  /\ \E time \in Seconds : time >= used /\ used' = time /\ Writes(time)
  /\ UNCHANGED <<pid, counter, alert>>

\* The dispatcher starts another process, which begins with no time used.
Restart ==
  /\ pid < MaxPid /\ pid' = pid + 1
  /\ used' = 0 /\ Writes(0)
  /\ UNCHANGED <<counter, alert>>

\* Mutant: the error is ignored.
sendCpuAlways ==
  /\ counter' = [counter EXCEPT ![pid] = ParceCPUTime(cpu).value]
  /\ UNCHANGED <<pid, used, cpu, alert>>

\* sendWorkProcessMetrics: no sample if the time cannot be read.
sendCpu ==
  LET time == ParceCPUTime(cpu)
  IN /\ ~ time.err
     /\ counter' = [counter EXCEPT ![pid] = time.value]
     /\ UNCHANGED <<pid, used, cpu, alert>>

\* An alert of that colour.
Raise(color) ==
  /\ alert' = color
  /\ UNCHANGED <<pid, used, cpu, counter>>
-----------------------------------------------------------------------------
(* Properties.                                                              *)

\* A sample is the CPU time that the process has used, with however many parts SAP
\* wrote it, also beyond a day; a text with an unreadable part gives none, not a
\* smaller time; only no text at all is taken for no time (webservice.go:439-465).
CpuFaithful ==
  LET time == ParceCPUTime(cpu)
  IN ~ time.err => time.value = IF cpu = <<>> THEN 0 ELSE used

\* The series of a process decreases in one case only: SAP sends no time, and the
\* sample is 0 (workprocess.go:143).  Nothing else makes Prometheus see a reset, no
\* unreadable text, no other form, no restart.
CounterFallsOnlyWhenEmpty ==
  [][\A p \in 1..MaxPid :
       counter'[p] < counter[p] => p = pid /\ cpu = <<>> /\ counter'[p] = 0]_times

\* Prometheus and Loki rank two alerts alike, and refuse the same colours.
RankedAlike ==
  LET levels == <<"unknown", "info", "warning", "error">>
      number == StateColorToFloat(alert)
      level  == StateColorToLevel(alert)
  IN /\ number.err = level.err
     /\ ~ number.err => levels[number.value] = level.value
=============================================================================
