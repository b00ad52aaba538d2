--------------------------- MODULE NodeStatusStore --------------------------
(***************************************************************************)
(* frontend-react/src/services/nodeStatusStore.ts: the singleton that      *)
(* keeps the last known status of every peer, by network, and the rank of  *)
(* its chain work among the peers of the network.                          *)
(*                                                                         *)
(* A status is what the pages and the store tell apart of it: the peer,    *)
(* the network, when the server received it and its chain work, a natural  *)
(* number (0 when the field is empty).  Every chain work is a hex string   *)
(* of one length, so the store's order on strings is the order on numbers. *)
(***************************************************************************)
EXTENDS Naturals, FiniteSets

CONSTANTS
    Networks,  \* the networks
    Peers,     \* the peer IDs
    Absent     \* what Map.get gives for a peer it does not hold

VARIABLES
    nodeStatuses,  \* nodeStatuses[n][p]: the status kept for peer p of network n
    scores         \* scores[n][p]: its chainworkScore, 0 without a status

storeVars == <<nodeStatuses, scores>>

StoreInit ==
    /\ nodeStatuses = [n \in Networks |-> [p \in Peers |-> Absent]]
    /\ scores = [n \in Networks |-> [p \in Peers |-> 0]]

-----------------------------------------------------------------------------

\* The chain works of the statuses in map, without the empty ones.
Works(map) == {map[p].work : p \in {q \in Peers : map[q] # Absent}} \ {0}

\* The place of p's chain work among the distinct ones, sorted, from 1.
Rank(map, p) ==
    IF map[p] = Absent \/ map[p].work = 0 THEN 0
    ELSE Cardinality({w \in Works(map) : w <= map[p].work})

\* The map of network n becomes map, and all of its scores are computed again.
Recalculate(n, map) ==
    /\ nodeStatuses' = [nodeStatuses EXCEPT ![n] = map]
    /\ scores' = [scores EXCEPT ![n] = [p \in Peers |-> Rank(map, p)]]

\* mutant: whatever arrives last is kept
ArrivedLater(status, existing) == TRUE
Newer(status, existing) == existing = Absent \/ status.at > existing.at

UpdateNodeStatus(status) ==
    LET map == nodeStatuses[status.net]
    IN  IF Newer(status, map[status.peer])
        THEN Recalculate(status.net, [map EXCEPT ![status.peer] = status])
        ELSE UNCHANGED storeVars

\* The newest status of each peer among rows, a set of statuses.
LatestByPeer(rows) ==
    [p \in Peers |->
        LET ofPeer == {s \in rows : s.peer = p}
        IN  IF ofPeer = {} THEN Absent
            ELSE CHOOSE s \in ofPeer : \A t \in ofPeer : t.at <= s.at]

\* What network n held is dropped first.
SetNodeStatuses(n, rows) == Recalculate(n, LatestByPeer(rows))

=============================================================================
