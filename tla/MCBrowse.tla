------------------------------ MODULE MCBrowse ------------------------------
(* The instance of Browse for TLC: three peers, of which the first syncs   *)
(* from the second.                                                        *)
EXTENDS Browse

Ann == "ann"
Bob == "bob"
Cy == "cy"
ThreePeers == {Ann, Bob, Cy}

Row(table, p, fields, sync) ==
    [table |-> table, peer |-> p, net |-> "mainnet", fields |-> fields, sync |-> sync]

BlockOf(p) == Row("block", p, {"Hash", "Height", "Header", "DataHubURL"}, NoPeer)
SubtreeOf(p) == Row("subtree", p, {"Hash"}, NoPeer)
StatusOf(p) == Row("node_status", p, {"Version", "MinerName", "SyncPeerHeight"}, NoPeer)
SyncingTo(p, q) == Row("node_status", p, {"CommitHash", "BaseURL", "SyncPeerID", "SyncConnectedAt"}, q)

\* Ann ahead of Bob, Bob and Cy level with each other behind Ann, Ann alone with more blocks
\* than the list takes.
SmallDatabases ==
    {<<BlockOf(Ann), SyncingTo(Ann, Bob), BlockOf(Bob)>>,
     <<StatusOf(Bob), SubtreeOf(Ann), SubtreeOf(Cy), BlockOf(Ann)>>,
     <<BlockOf(Ann), SyncingTo(Ann, Bob), BlockOf(Ann), BlockOf(Ann)>>}

TwoRows == {BlockOf(Ann), StatusOf(Bob)}

=============================================================================
