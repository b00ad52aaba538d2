---------------------------- MODULE MCStatsCache ----------------------------
(* The instance of StatsCache for TLC.                                     *)
EXTENDS StatsCache

=============================================================================
