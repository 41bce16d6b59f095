------------------------------ MODULE MCScrape ------------------------------
(* Small instances of Scrape for TLC: who records what, what may be cached.  *)
EXTENDS Scrape, TLC
CONSTANTS r1, r2, r3
MCRoles == r1 :> "processes" @@ r2 :> "queues" @@ r3 :> "instances"
TwoRoles == r1 :> "queues" @@ r2 :> "tables"
\* The instances are only compared for equality.
Symmetry == Permutations(Instances)
=============================================================================
