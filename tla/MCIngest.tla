------------------------------ MODULE MCIngest ------------------------------
(* Small instances of Ingest for TLC.                                      *)
EXTENDS Ingest, TLC

Mainnet == {<<"mainnet">>}
BlockTopic == NetworkTopic(<<"mainnet">>, "block")

\* Two of the topics GenerateTopics makes for one network; and with them the topic
\* main adds.
BlockAndSubtree == {BlockTopic, NetworkTopic(<<"mainnet">>, "subtree")}
WithNodeStatus == BlockAndSubtree \union {NodeStatusTopic}

ASSUME TopicsAssumption == WithNodeStatus \subseteq SubscribedTopics(Mainnet)

TwoBlocks == [t \in Topics |-> IF t = BlockTopic THEN 2 ELSE 1]
OneEach == [t \in Topics |-> 1]

AnyBlock == [t \in Topics |-> IF t = BlockTopic THEN PayloadKinds ELSE {"plain"}]
PlainAndMalformed == [t \in Topics |-> {"plain", "malformed"}]
PlainOnly == [t \in Topics |-> {"plain"}]

\* Clients are interchangeable (safety runs only).
ClientSymmetry == Permutations(Conns)

=============================================================================
