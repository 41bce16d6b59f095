----------------------------- MODULE MCSapControl -----------------------------
(* Values for TLC: two instances on one host, one in another domain that is     *)
(* listed in full, and one whose port for https is closed.                      *)
EXTENDS SapControl

Inst(host, domain, short, http, https) ==
  [host |-> host, domain |-> domain, short |-> short, http |-> http, https |-> https]

MCListed == {Inst("ci", "dom", TRUE, 50013, 50014), Inst("ci", "dom", TRUE, 50113, 50114),
             Inst("app", "far", FALSE, 50013, 0)}
===============================================================================
