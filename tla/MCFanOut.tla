------------------------------ MODULE MCFanOut ------------------------------
(* Small instances of FanOut for TLC. *)
EXTENDS FanOut
MCOutcomes == {"nil", "err"}
MCFailed == {"err"}
=============================================================================
