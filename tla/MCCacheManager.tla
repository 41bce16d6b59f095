--------------------------- MODULE MCCacheManager ---------------------------
(* Values for TLC.                                                           *)
EXTENDS CacheManager

\* Durations as a configuration can give them: negative, or one or two ticks.
MCTTLs == {-2, 1, 2}
=============================================================================
