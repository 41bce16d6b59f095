------------------------------- MODULE MCConfig -------------------------------
(* Values for TLC: a URL of each shape that New tells apart.                    *)
EXTENDS Config

Url(scheme, host, domain, port) ==
  [scheme |-> scheme, host |-> host, domain |-> domain, port |-> port]

MCUserUrls == {Garbage, Url("http", "ci", "", ""), Url("", "ci", "", "50013"),
               Url("https", "ci", "dom.url", "50014"), Url("https", "app", "", "50114")}
===============================================================================
