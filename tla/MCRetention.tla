---------------------------- MODULE MCRetention -----------------------------
(* Small instances of Retention for TLC.                                   *)
EXTENDS Retention

OnlyNodeStatuses == {"node_statuses"}
WithSubtrees == {"node_statuses", "subtrees"}
Blocks == {"blocks"}

Monthlies == [t \in Partitioned |-> {}]

\* subtrees was provisioned with a partition named for month 1 that covers months 1 and 2.
WideSubtrees == [Monthlies EXCEPT !["subtrees"] = {[name |-> 1, first |-> 1, last |-> 2]}]

AnyProvision == {Monthlies, WideSubtrees}

=============================================================================
