------------------------------- MODULE Answers -------------------------------
(***************************************************************************)
(* An answer on its way from SAP to a sample: read off the wire (SoapWire), *)
(* then converted (Conversions).  Only an answer that has been decoded      *)
(* reaches the conversions, but the element may be empty or not be there:   *)
(* the CPU time of the work process table, the colour of an alert.          *)
(***************************************************************************)
EXTENDS Conversions

VARIABLES op, request, sent, got  \* of SoapWire

Wire == INSTANCE SoapWire

wireVars == <<op, request, sent, got>>

AnswersInit == StartTimes /\ Wire!Init

\* The call and the reading of its answer.
Read == (Wire!Call \/ Wire!Answer \/ Wire!Decode) /\ UNCHANGED times

\* The answer of operation o has been decoded.
Decoded(o) == op = o /\ got \notin {<<>>, Wire!Error}

\* The time in a work process table, and what SAP has in it from then on: later
\* answers may leave it out again, an answer without it has no text.
ConvertCpu ==
  /\ Decoded("ABAPGetWPTable")
  /\ Run \/ Restart \/ sendCpu
  /\ got["Cpu"] = "" => cpu' = <<>>
  /\ UNCHANGED wireVars

\* The colour of an alert, none if the answer has none.
ConvertColour == Decoded("GetAlerts") /\ Raise(got["Value"]) /\ UNCHANGED wireVars

AnswersNext == Read \/ ConvertCpu \/ ConvertColour

AnswersSpec == AnswersInit /\ [][AnswersNext]_<<times, wireVars>>
-----------------------------------------------------------------------------
\* As in SoapWire: nothing that is sent, and expected, is lost on the way.
NothingLost == Wire!NothingLost

\* A colour means the same everywhere: every one that SAP can send is one that the
\* exporter has a number and a level for, and Prometheus and Loki rank two alerts
\* alike and refuse the same ones (webservice.go:379-408).
ColoursAgree == Wire!ColoursKnown /\ RankedAlike

=============================================================================
