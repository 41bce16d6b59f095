-------------------------- MODULE MCCachedInstances --------------------------
(* Values for TLC.                                                             *)
EXTENDS CachedInstances, TLC
CONSTANTS S1, S2
\* The configuration file may say nothing, what the system answers, or be wrong.
MCSids == {S1, S2}
MCConfigured == {NoSid, S1}
\* A list may also never expire (a negative cache_ttl).
MCTTLs == {-1, 1}
\* The instances and the Collects are only compared for equality.
Symmetry == Permutations(Instances) \cup Permutations(Readers)
=============================================================================
