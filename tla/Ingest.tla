------------------------------- MODULE Ingest -------------------------------
(***************************************************************************)
(* cmd/main.go: one goroutine per subscribed topic takes messages from the *)
(* topic's channel, parses them (TopicParser), hands their rows to the     *)
(* batch-insert service and broadcasts them to the WebSocket clients       *)
(* (WsHub), in this order, one message at a time.                          *)
(*                                                                         *)
(* A payload is "plain" (it decodes), "header" (a block whose header       *)
(* parses too; one whose header is empty or bad is plain) or "malformed"   *)
(* (it does not decode).  Handing a row over is a step: the Add returns    *)
(* once the buffer's mutex and the flush it may start let it (BatchInsert).*)
(***************************************************************************)
EXTENDS TopicParser, WsHub

CONSTANTS
    Payloads,     \* Payloads[t]: what peers publish on topic t
    MaxMessages   \* MaxMessages[t], a bound: messages published on topic t

Topics == Broadcasters
PayloadKinds == {"plain", "header", "malformed"}

ASSUME IngestAssumption ==
    /\ Payloads \in [Topics -> SUBSET PayloadKinds]
    /\ MaxMessages \in [Topics -> Nat]

VARIABLES
    published,  \* published[t]: payloads put into topic t's channel, oldest first
    closed,     \* closed[t]: the P2P client has closed the channel
    taken,      \* taken[t]: how many of them the consumer has received
    pc,         \* pc[t]: where t's consumer is
    handed      \* rows <<t, n, table>> handed to the batch service

ingestVars == <<published, closed, taken, pc, handed>>
vars == <<ingestVars, hubVars>>

Init ==
    /\ HubInit
    /\ published = [t \in Topics |-> <<>>]
    /\ closed = [t \in Topics |-> FALSE]
    /\ taken = [t \in Topics |-> 0]
    /\ pc = [t \in Topics |-> "select"]
    /\ handed = {}

GoTo(t, place) == pc' = [pc EXCEPT ![t] = place]
Current(t) == published[t][taken[t]]

-----------------------------------------------------------------------------
(* The P2P client: a peer's message arrives, or the channel is closed.     *)

Publish(t, payload) ==
    /\ ~closed[t]
    /\ Len(published[t]) < MaxMessages[t]
    /\ payload = "header" => ParseTopic(t).type = "block"
    /\ published' = [published EXCEPT ![t] = Append(@, payload)]
    /\ UNCHANGED <<closed, taken, pc, handed, hubVars>>

CloseChannel(t) ==
    /\ ~closed[t]
    /\ closed' = [closed EXCEPT ![t] = TRUE]
    /\ UNCHANGED <<published, taken, pc, handed, hubVars>>

-----------------------------------------------------------------------------
(* The consumer of topic t.                                                *)

ParsedOk(t, payload) == Parses(t) /\ payload # "malformed"

\* A message is received and parsed; an error ends the goroutine.
Receive(t) ==
    /\ pc[t] = "select"
    /\ taken[t] < Len(published[t])
    /\ taken' = [taken EXCEPT ![t] = @ + 1]
    /\ GoTo(t, IF ParsedOk(t, published[t][taken[t] + 1]) THEN "store" ELSE "exited")
    /\ UNCHANGED <<published, closed, handed, hubVars>>

\* The channel is drained and closed: the goroutine ends.
ChannelClosed(t) ==
    /\ pc[t] = "select"
    /\ closed[t]
    /\ taken[t] = Len(published[t])
    /\ GoTo(t, "exited")
    /\ UNCHANGED <<published, closed, taken, handed, hubVars>>

HasHeader(t) == ParseTopic(t).type = "block" /\ Current(t) = "header"

\* mutant: the header of a block is not stored
AfterRowOnly(t) == "broadcast"
\* mutant: a message with a single row is not broadcast
AfterRowContinues(t) == IF HasHeader(t) THEN "header" ELSE "select"
AfterRow(t) == IF HasHeader(t) THEN "header" ELSE "broadcast"

\* The switch on the message's type: one Add, and a second one for a block's header.
Store(t) ==
    /\ pc[t] = "store"
    /\ handed' = handed \union {<<t, taken[t], ParseTopic(t).type>>}
    /\ GoTo(t, AfterRow(t))
    /\ UNCHANGED <<published, closed, taken, hubVars>>

StoreHeader(t) ==
    /\ pc[t] = "header"
    /\ handed' = handed \union {<<t, taken[t], "block_header">>}
    /\ GoTo(t, "broadcast")
    /\ UNCHANGED <<published, closed, taken, hubVars>>

\* BroadcastMessage: take the mutex, visit every registered client, release it.
StartBroadcast(t) ==
    /\ pc[t] = "broadcast"
    /\ LockHub(t, <<t, taken[t]>>)
    /\ GoTo(t, "fanout")
    /\ UNCHANGED <<published, closed, taken, handed>>

Visit(t, c) ==
    /\ pc[t] = "fanout"
    /\ WriteJSON(t, c, <<t, taken[t]>>) \/ WriteFails(t, c)
    /\ UNCHANGED ingestVars

EndBroadcast(t) ==
    /\ pc[t] = "fanout"
    /\ UnlockHub(t)
    /\ GoTo(t, "select")
    /\ UNCHANGED <<published, closed, taken, handed>>

FanOut(t) == (\E c \in Conns : Visit(t, c)) \/ EndBroadcast(t)
Work(t) == Receive(t) \/ Store(t) \/ StoreHeader(t) \/ StartBroadcast(t) \/ FanOut(t)

Next ==
    \/ \E t \in Topics :
         \/ \E payload \in Payloads[t] : Publish(t, payload)
         \/ CloseChannel(t)
         \/ ChannelClosed(t)
         \/ Work(t)
    \/ \E c \in Conns : ConnStep(c) /\ UNCHANGED ingestVars

Spec == Init /\ [][Next]_vars

\* Goroutines are scheduled.  Strong fairness where the runtime gives it: a Go mutex in
\* starvation mode is handed to its longest waiter, and a write that is blocked goes on
\* as soon as the socket takes bytes again.
Scheduling ==
    /\ \A t \in Topics : SF_vars(Work(t))
    /\ \A c \in Conns : SF_vars(Unregister(c) /\ UNCHANGED ingestVars)

\* An assumption on the clients that no code enforces: a stalled one reads again,
\* or its connection breaks.
ClientsRecover ==
    \A c \in Conns : WF_vars((Resume(c) \/ (link[c] = "stalled" /\ Drop(c))) /\ UNCHANGED ingestVars)

StallSpec == Spec /\ Scheduling
FairSpec == StallSpec /\ ClientsRecover

-----------------------------------------------------------------------------
(* Properties.                                                             *)

Message == UNION {{t} \X (1..MaxMessages[t]) : t \in Topics}

\* Every variable stays in its range; the mutex is held by the consumer in its fan-out.
TypeOK ==
    /\ published \in [Topics -> Seq(PayloadKinds)]
    /\ closed \in [Topics -> BOOLEAN]
    /\ taken \in [Topics -> Nat]
    /\ \A t \in Topics : taken[t] <= Len(published[t]) /\ Len(published[t]) <= MaxMessages[t]
    /\ pc \in [Topics -> {"select", "store", "header", "broadcast", "fanout", "exited"}]
    /\ \A t \in Topics : pc[t] = "fanout" <=> hub = t
    /\ hub \in Topics \union {Nobody}
    /\ conns \subseteq Conns
    /\ todo \in [Topics -> SUBSET Conns]
    /\ session \in [Conns -> {"idle", "upgraded", "reading", "closed"}]
    /\ link \in [Conns -> {"up", "stalled", "down"}]
    /\ written \in [Conns -> Seq(Message)]
    /\ log \in Seq(Message)
    /\ joined \in [Conns -> Nat]

\* The rows a message stands for.
RowsOf(t, n) ==
    {<<t, n, ParseTopic(t).type>>}
      \union (IF published[t][n] = "header" THEN {<<t, n, "block_header">>} ELSE {})

\* A message some client was sent, or that a consumer has left behind, has had all of
\* its rows handed to the batch service: the live feed never shows what the tables will
\* not get.
StoredBeforeBroadcast ==
    \A i \in 1..Len(log) : RowsOf(log[i][1], log[i][2]) \subseteq handed

\* A message is broadcast once, in its topic's order, and a consumer that waits for the
\* next one has broadcast all those before: no topic's goroutine runs ahead of its fan-out.
TopicOrderKept ==
    /\ \A i, j \in 1..Len(log) :
          i < j /\ log[i][1] = log[j][1] => log[i][2] < log[j][2]
    /\ \A t \in Topics : pc[t] = "select" =>
          \A n \in 1..taken[t] : \E i \in 1..Len(log) : log[i] = <<t, n>>

\* A generated topic's consumer ends only when its channel is closed and drained, or at a
\* payload that does not decode (the code gives the topic up instead of the message).
\* main also subscribes to bitcoin/node_status, a topic ParseMessage refuses: its consumer
\* ends at its first message, whatever that is, and nothing of it is stored or shown.
ConsumersEndForCause ==
    /\ \A t \in Topics \ {NodeStatusTopic} : pc[t] = "exited" =>
          \/ closed[t] /\ taken[t] = Len(published[t])
          \/ Current(t) = "malformed"
    /\ NodeStatusTopic \in Topics =>
          /\ taken[NodeStatusTopic] \in {0, 1}
          /\ taken[NodeStatusTopic] = 1 => pc[NodeStatusTopic] = "exited"
          /\ \A row \in handed : row[1] # NodeStatusTopic
          /\ \A i \in 1..Len(log) : log[i][1] # NodeStatusTopic

\* A message on a generated topic is stored and broadcast if it and all messages before it
\* on its topic decode, as long as stalled clients recover.
EveryMessageServed ==
    \A m \in Message :
        (/\ m[1] # NodeStatusTopic
         /\ m[2] <= Len(published[m[1]])
         /\ \A i \in 1..m[2] : published[m[1]][i] # "malformed")
          ~> (taken[m[1]] >= m[2] /\ pc[m[1]] \in {"select", "exited"})

\* A broken connection leaves the registry, although its own handler may have to wait
\* for broadcasts that are writing to others.
DeadClientsForgotten ==
    \A c \in Conns : link[c] = "down" /\ session[c] = "reading" ~> c \notin conns

=============================================================================
