---------------------------- MODULE MessageViews ----------------------------
(***************************************************************************)
(* How a stored message gets onto the screen: utils/messageParser.ts and   *)
(* components/MessageCards.tsx, as MessageListSection.tsx uses them.  A    *)
(* card is abstracted to its kind, its network badge, the fields it draws  *)
(* and the peers it links to.                                              *)
(***************************************************************************)
EXTENDS Naturals, Sequences, FiniteSets

CONSTANT NoPeer

\* extractNetwork takes what follows the first slash: a topic of /api/messages, a bare
\* network, has none.
ExtractNetwork(topic) == Tail(topic.path)

\* The columns each parse*Message carries over, if they are not empty: a block's header
\* is not among them.
ParsedColumns ==
    [block |-> {"Hash", "Height", "DataHubURL"},
     subtree |-> {"Hash", "DataHubURL"},
     node_status |-> {"BaseURL", "Version", "CommitHash", "BestBlockHash", "BestHeight",
                      "BlockAssemblyDetails", "FSMState", "StartTime", "Uptime", "ClientName",
                      "MinerName", "ListenMode", "ChainWork", "SyncPeerID", "SyncPeerHeight",
                      "SyncPeerBlockHash", "SyncConnectedAt", "MinMiningTxFee"}]

\* parseWebSocketMessage.  /api/messages names no sender, so the peer is the row's.
ParseMessage(message) ==
    [type |-> message.topic.type,
     network |-> ExtractNetwork(message.topic),
     sentFromPeer |-> NoPeer,
     PeerID |-> message.row.peer,
     fields |-> message.row.fields \intersect ParsedColumns[message.topic.type],
     sync |-> message.row.sync]

\* MessageCardBase: the sender and the peer of the message, or the one there is.
PeerLinks(parsed) == {parsed.sentFromPeer, parsed.PeerID} \ {NoPeer}

CardBase(parsed, drawn, links) ==
    [kind |-> parsed.type,
     badge |-> IF parsed.network = << >> THEN <<"UNKNOWN">> ELSE parsed.network,
     drawn |-> drawn,
     links |-> PeerLinks(parsed) \union links]

BlockCard(parsed) ==
    CardBase(parsed, {"Hash", "Height"} \union (parsed.fields \intersect {"Header"}), {})

SubtreeCard(parsed) == CardBase(parsed, {"Hash"}, {})

\* The optional rows of a status, and those drawn below its sync peer only.
OptionalRows == {"CommitHash", "MinerName", "ListenMode", "ChainWork", "MinMiningTxFee"}
SyncRows == {"SyncPeerBlockHash", "SyncConnectedAt"}

NodeStatusCard(parsed) ==
    LET syncing == "SyncPeerID" \in parsed.fields
    IN  CardBase(parsed,
            {"ClientName", "Version", "BestHeight", "FSMState", "BestBlockHash", "Uptime", "StartTime"}
              \union (parsed.fields \intersect OptionalRows)
              \union (IF syncing THEN {"SyncPeerID", "SyncPeerHeight"} \union (parsed.fields \intersect SyncRows)
                                 ELSE {}),
            IF syncing THEN {parsed.sync} ELSE {})

\* The card of a message of the list.
Card(message) ==
    LET parsed == ParseMessage(message)
    IN  CASE parsed.type = "block"       -> BlockCard(parsed)
          [] parsed.type = "subtree"     -> SubtreeCard(parsed)
          [] parsed.type = "node_status" -> NodeStatusCard(parsed)

=============================================================================
