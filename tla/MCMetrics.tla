------------------------------ MODULE MCMetrics ------------------------------
(* Values for TLC.  A process runs, one has failed, the third has a status      *)
(* that is no colour; any two hosts may list the same pids.  Two records of     *)
(* work processes have the same number.                                         *)
EXTENDS Metrics

Proc(name, pid, dispstatus) == [name |-> name, pid |-> pid, dispstatus |-> dispstatus]
MCProcesses == {Proc("disp+work", 1, "GREEN"), Proc("msg_server", 2, "RED"),
                Proc("icman", 3, "STOPPED")}

WorkProc(no, type, status, cpu) ==
  [no |-> no, type |-> type, status |-> status, pid |-> no, cpu |-> cpu]
MCWorkProcs == {WorkProc(0, "DIA", "RUN", TRUE), WorkProc(1, "DIA", "WAIT", FALSE),
                WorkProc(2, "BTC", "WAIT", TRUE),
                WorkProc(3, "DIA", "WAIT", TRUE), WorkProc(0, "DIA", "RUN", FALSE)}
==============================================================================
