------------------------------ MODULE QueryApi ------------------------------
(***************************************************************************)
(* What the server answers to the pages that browse the database:          *)
(* /api/peers, /api/peers/<peer> and /api/messages, as functions of the    *)
(* rows it finds, and the pages services/api.ts makes of them.             *)
(*                                                                         *)
(* The rows of all tables are one sequence in the order of received_at, so *)
(* that a row's position stands for its time.  A row has its table (named  *)
(* by the message type), peer, network and the set of its optional columns *)
(* that are not empty, one of which may name a peer, `sync'.  The tables   *)
(* of types no topic is subscribed for (mining_ons, handshakes) are empty. *)
(***************************************************************************)
EXTENDS Naturals, Sequences, SequencesExt, FiniteSets

CONSTANTS
    AllTopics,    \* the choice of no topic
    ListLimit,    \* pageSize of the list of messages (10 in the code)
    DetailLimit,  \* rows of each table in a peer's details (10 in the code)
    PeersPerPage, \* peers on a page (12 in the code)
    Null          \* JSON null

Tables == {"block", "subtree", "node_status"}

Least(a, b) == IF a < b THEN a ELSE b

\* The rows of a peer in a table, by position, and the n newest of them.
RowsOf(rows, table, p) == {i \in DOMAIN rows : rows[i].table = table /\ rows[i].peer = p}
Newest(S, n) == {i \in S : Cardinality({j \in S : j > i}) < n}
NewestFirst(S) ==
    [k \in 1..Cardinality(S) |-> CHOOSE i \in S : Cardinality({j \in S : j > i}) = k - 1]

-----------------------------------------------------------------------------
(* /api/messages.                                                          *)

\* A topic <path>-<type>; the server's own have the network alone as path.
Topic(path, type) == [path |-> path, type |-> type]

ByTopic(rows, p, topic) ==
    {i \in RowsOf(rows, topic.type, p) : topic.path = <<rows[i].net>>}

OldestOfEach(rows, p) ==     \* mutant: ascending order
    UNION {{i \in RowsOf(rows, t, p) : Cardinality({j \in RowsOf(rows, t, p) : j < i}) < ListLimit \div 5}
             : t \in Tables}
NewestOfEach(rows, p) == UNION {Newest(RowsOf(rows, t, p), ListLimit \div 5) : t \in Tables}

Message(rows, i, topic) == [id |-> i, topic |-> topic, row |-> rows[i]]

\* With a topic, its newest rows under that topic; without one, a fifth of the limit from
\* every table, whatever the offset.
ApiMessages(rows, p, topic) ==
    IF topic = AllTopics
      THEN LET found == NewestFirst(NewestOfEach(rows, p))
               sorted == [k \in DOMAIN found |->
                            Message(rows, found[k], Topic(<<rows[found[k]].net>>, rows[found[k]].table))]
           IN  SubSeq(sorted, 1, Least(ListLimit, Len(sorted)))
      ELSE LET found == NewestFirst(Newest(ByTopic(rows, p, topic), ListLimit))
           IN  [k \in DOMAIN found |-> Message(rows, found[k], topic)]

\* getMessages, on the first page: a full answer may have a successor.
PagesOf(messages) ==
    LET totalItems == IF Len(messages) < ListLimit THEN Len(messages) ELSE Len(messages) + 1
    IN  (totalItems + ListLimit - 1) \div ListLimit

-----------------------------------------------------------------------------
(* /api/peers.                                                             *)

PeersIn(rows) == {rows[i].peer : i \in DOMAIN rows}
Count(rows, table, p) == Cardinality(RowsOf(rows, table, p))

\* processPeerTable for the three tables.  The query for user agents and heights fails
\* (node_statuses has no user_agent column), so they stay empty.
PeerStat(rows, p) ==
    [id |-> p,
     total |-> Cardinality({i \in DOMAIN rows : rows[i].peer = p}),
     networks |-> {rows[i].net : i \in {j \in DOMAIN rows : rows[j].peer = p}},
     types |-> [t \in {u \in Tables : Count(rows, u, p) > 0} |-> Count(rows, t, p)]]

\* Any order by total: the map is iterated in random order and the sort is not stable.
AnyOrder(stats) == TRUE     \* mutant: no sort
Descending(stats) == \A i, j \in DOMAIN stats : i < j => stats[i].total >= stats[j].total
Listings(rows) ==
    {stats \in SetToSeqs({PeerStat(rows, p) : p \in PeersIn(rows)}) : Descending(stats)}

\* The possible answers to getPeers for a page.
ApiPeers(rows, page) ==
    {[peers |-> SubSeq(stats, (page - 1) * PeersPerPage + 1, Least(page * PeersPerPage, Len(stats))),
      total |-> Len(stats)] : stats \in Listings(rows)}

NoPeers == [peers |-> << >>, total |-> 0]

-----------------------------------------------------------------------------
(* /api/peers/<peer>: first counts and networks, then the lists and times. *)

\* A table without rows of the peer is not in messageTypes; the networks are those of
\* its blocks and subtrees, and node statuses are not asked for them.
ApiCounts(rows, p) ==
    [types |-> PeerStat(rows, p).types,
     networks |-> {rows[i].net : i \in RowsOf(rows, "block", p) \union RowsOf(rows, "subtree", p)}]

NoCounts == [types |-> [t \in {} |-> 0], networks |-> {}]

ApiLists(rows, p) ==
    LET seen == RowsOf(rows, "block", p) \union RowsOf(rows, "subtree", p)
    IN  [nodeStatuses |-> NewestFirst(Newest(RowsOf(rows, "node_status", p), DetailLimit)),
         recentBlocks |-> NewestFirst(Newest(RowsOf(rows, "block", p), DetailLimit)),
         seen |-> {i \in seen : (\A j \in seen : i <= j) \/ (\A j \in seen : i >= j)}]

\* A query that fails leaves its slice nil: JSON null.
NoLists == [nodeStatuses |-> Null, recentBlocks |-> Null, seen |-> {}]

=============================================================================
