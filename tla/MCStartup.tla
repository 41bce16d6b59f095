------------------------------ MODULE MCStartup ------------------------------
(* Values for TLC: every combination of collectors, with a good, a bad and no   *)
(* Loki, the levels that change something, and alerts of any age, of no age but *)
(* the current one, and of a limited one.                                       *)
EXTENDS Startup

Conf(valid, level, collect, lokiUrl, batch, location, maxAge) ==
  [valid |-> valid, level |-> level, collect |-> collect, loki |-> lokiUrl, batch |-> batch,
   location |-> location, maxAge |-> maxAge]

MCConfigs ==
  {Conf(TRUE, level, collect, "good", 0, "Europe/Moscow", -1) :
     level \in {"debug", "error", "verbose"}, collect \in SUBSET Range(Optional)}
  \cup {Conf(TRUE, "info", {"alerts"}, lokiUrl, 32, "Atlantis", maxAge) :
          lokiUrl \in {"", "bad", "good"}, maxAge \in {-1, 0, 2}}
  \cup {Conf(FALSE, "warning", {}, "", 0, "", 2)}
==============================================================================
