---------------------------- MODULE TopicParser -----------------------------
(***************************************************************************)
(* pkg/parser/message_parser.go: which topics the listener subscribes to,  *)
(* and what ParseMessage makes of a topic.  A topic is the sequence of its *)
(* "/"-separated segments, and a segment the sequence of its "-"-separated *)
(* words; payloads are told apart only by whether they decode.             *)
(***************************************************************************)
EXTENDS Sequences, Naturals

\* GetMessageTypes.
MessageTypes == {"block", "subtree", "node_status"}

\* GenerateTopics: teranode/bitcoin/1.0.0/<network>-<type>; the network's own
\* words, when its name has dashes, are words of the last segment too.
NetworkTopic(network, type) ==
    << <<"teranode">>, <<"bitcoin">>, <<"1.0.0">>, network \o <<type>> >>

GenerateTopics(networks) ==
    {NetworkTopic(network, type) : network \in networks, type \in MessageTypes}

\* The topic main adds to them: bitcoin/node_status.
NodeStatusTopic == << <<"bitcoin">>, <<"node_status">> >>

SubscribedTopics(networks) == GenerateTopics(networks) \union {NodeStatusTopic}

\* The type names of ParseMessage's switch, as the words they are joined from.
JoinedType(words) ==
    CASE words = <<"bestblock">> -> "bestblock"
      [] words = <<"block">> -> "block"
      [] words = <<"miningon">> -> "miningon"
      [] words = <<"subtree">> -> "subtree"
      [] words = <<"handshake">> -> "handshake"
      [] words \in {<<"node_status">>, <<"node", "status">>} -> "node_status"
      [] OTHER -> "unknown"

\* ParseMessage up to the payload: the network and the message type, or a refusal.
Refused == [network |-> <<>>, type |-> "unknown"]

\* mutant: the two-segment format of the comment above the check
ParseTwoSegments(topic) ==
    IF Len(topic) # 2 \/ Len(topic[2]) < 2 THEN Refused
    ELSE [network |-> <<topic[2][1]>>, type |-> JoinedType(Tail(topic[2]))]

ParseTopic(topic) ==
    IF Len(topic) # 4 \/ topic[1] # <<"teranode">> THEN Refused
    ELSE IF topic[2] = <<"node_status">> THEN [network |-> <<"all">>, type |-> "node_status"]
    ELSE IF Len(topic[4]) < 2 THEN Refused
    ELSE [network |-> <<topic[4][1]>>, type |-> JoinedType(Tail(topic[4]))]

Parses(topic) == ParseTopic(topic).type # "unknown"

=============================================================================
