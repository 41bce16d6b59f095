------------------------------ MODULE MCAlerts ------------------------------
(* Small instances of Alerts for TLC.                                        *)
EXTENDS Alerts
CONSTANTS name1, name2, name3
MCAlertSet ==
  { [name |-> name1, valid |-> TRUE,  time |-> 0],
    [name |-> name2, valid |-> TRUE,  time |-> Unparsable],
    [name |-> name3, valid |-> FALSE, time |-> 0] }
=============================================================================
