---------------------------- MODULE IngestProofs ----------------------------
(***************************************************************************)
(* Proofs about Ingest, and with it about WsHub, for any topics, clients   *)
(* and payloads and any number of messages.                                *)
(***************************************************************************)
EXTENDS Ingest, SequenceTheorems, TLAPS

-----------------------------------------------------------------------------
(* The inductive invariant.                                                *)

\* A consumer at work has received something, the bound is kept, and only blocks have
\* headers.
ConsumerInv ==
    \A t \in Topics :
        /\ Len(published[t]) \in 0..MaxMessages[t]
        /\ pc[t] \in {"store", "header", "broadcast", "fanout"} => taken[t] >= 1
        /\ \A n \in 1..Len(published[t]) :
             published[t][n] = "header" => ParseTopic(t).type = "block"

\* Only the holder of the mutex has connections to visit, all of them registered, and
\* its message is the last one of the log.
HubInv ==
    /\ \A t \in Topics : todo[t] # {} => hub = t
    /\ \A t \in Topics : todo[t] \subseteq conns
    /\ \A t \in Topics : hub = t => Len(log) >= 1 /\ log[Len(log)] = <<t, taken[t]>>

\* Whether the broadcast under way has yet to visit c.
Due(c) == \E b \in Broadcasters : c \in todo[b]

\* What c was sent, position by position.
ClientInv(c) ==
    /\ joined[c] + Len(written[c]) <= Len(log)
    /\ \A i \in 1..Len(written[c]) : written[c][i] = log[joined[c] + i]
    /\ c \in conns /\ Due(c) => Len(log) = joined[c] + Len(written[c]) + 1
    /\ c \in conns /\ ~Due(c) => Len(log) = joined[c] + Len(written[c])
    /\ session[c] \in {"idle", "upgraded"} => written[c] = << >> /\ c \notin conns

\* The log holds the messages up to the one a consumer works at, or up to the one before.
OrderInv ==
    /\ \A i \in 1..Len(log) :
         /\ log[i][2] <= taken[log[i][1]]
         /\ pc[log[i][1]] \in {"store", "header", "broadcast"} => log[i][2] < taken[log[i][1]]
    /\ \A i, j \in 1..Len(log) : i < j /\ log[i][1] = log[j][1] => log[i][2] < log[j][2]
    /\ \A t \in Topics :
         /\ pc[t] \in {"select", "fanout"} =>
              \A n \in 1..taken[t] : \E i \in 1..Len(log) : log[i] = <<t, n>>
         /\ pc[t] \in {"store", "header", "broadcast"} =>
              \A n \in 1..(taken[t] - 1) : \E i \in 1..Len(log) : log[i] = <<t, n>>

\* The rows of a message go to the batch service one after the other.
StoredInv ==
    /\ StoredBeforeBroadcast
    /\ \A t \in Topics :
         /\ pc[t] = "header" => <<t, taken[t], ParseTopic(t).type>> \in handed
         /\ pc[t] = "broadcast" => RowsOf(t, taken[t]) \subseteq handed

\* Why a consumer of a topic that can be parsed has ended.
EndInv ==
    \A t \in Topics \ {NodeStatusTopic} : pc[t] = "exited" =>
        \/ closed[t] /\ taken[t] = Len(published[t])
        \/ taken[t] >= 1 /\ Current(t) = "malformed"

\* The consumer of the topic that cannot be parsed waits for its first message or has ended.
RefusedInv ==
    NodeStatusTopic \in Topics =>
        /\ pc[NodeStatusTopic] \in {"select", "exited"}
        /\ taken[NodeStatusTopic] \in {0, 1}
        /\ taken[NodeStatusTopic] = 1 => pc[NodeStatusTopic] = "exited"
        /\ \A row \in handed : row[1] # NodeStatusTopic
        /\ \A i \in 1..Len(log) : log[i][1] # NodeStatusTopic

BaseInv == TypeOK /\ ConsumerInv

IInv ==
    /\ BaseInv
    /\ HubInv
    /\ \A c \in Conns : ClientInv(c)
    /\ RegistryMatchesHandlers
    /\ OrderInv
    /\ StoredInv

-----------------------------------------------------------------------------
(* Types.                                                                  *)

\* The variables of the hub, and of the consumers, by themselves.
HubType ==
    /\ hub \in Topics \union {Nobody}
    /\ conns \subseteq Conns
    /\ todo \in [Topics -> SUBSET Conns]
    /\ session \in [Conns -> {"idle", "upgraded", "reading", "closed"}]
    /\ link \in [Conns -> {"up", "stalled", "down"}]
    /\ written \in [Conns -> Seq(Message)]
    /\ log \in Seq(Message)
    /\ joined \in [Conns -> Nat]

IngestType ==
    /\ published \in [Topics -> Seq(PayloadKinds)]
    /\ closed \in [Topics -> BOOLEAN]
    /\ taken \in [Topics -> Nat]
    /\ \A t \in Topics : taken[t] <= Len(published[t]) /\ Len(published[t]) <= MaxMessages[t]
    /\ pc \in [Topics -> {"select", "store", "header", "broadcast", "fanout", "exited"}]

\* TypeOK in these parts.
LEMMA TypeParts ==
    TypeOK <=> HubType /\ IngestType /\ \A t \in Topics : pc[t] = "fanout" <=> hub = t
BY DEF TypeOK, HubType, IngestType

\* What a consumer at work has taken is a message.
LEMMA CurrentIsMessage ==
    ASSUME BaseInv, NEW t \in Topics, pc[t] \in {"store", "header", "broadcast", "fanout"}
    PROVE  <<t, taken[t]>> \in Message /\ taken[t] \in 1..Len(published[t])
<1>1. taken[t] \in 1..MaxMessages[t] /\ taken[t] <= Len(published[t]) /\ Len(published[t]) \in Nat
      BY IngestAssumption DEF BaseInv, TypeOK, ConsumerInv
<1> QED BY <1>1 DEF Message

LEMMA InitBase == ASSUME Init PROVE BaseInv
BY HubAssumption, IngestAssumption
   DEF Init, HubInit, BaseInv, TypeOK, ConsumerInv, Topics, Message

LEMMA KnownPayload == \A t \in Topics : \A payload \in Payloads[t] : payload \in PayloadKinds
BY IngestAssumption

\* Publishing appends a payload, and a header only to a topic of blocks.
LEMMA PublishBase ==
    ASSUME BaseInv, NEW t \in Topics, NEW payload \in PayloadKinds, Publish(t, payload)
    PROVE  BaseInv'
<1>1. published[t] \in Seq(PayloadKinds) /\ Len(published[t]) \in Nat
      BY DEF BaseInv, TypeOK
<1>2. /\ Append(published[t], payload) \in Seq(PayloadKinds)
      /\ Len(Append(published[t], payload)) = Len(published[t]) + 1
      /\ \A n \in 1..Len(published[t]) : Append(published[t], payload)[n] = published[t][n]
      /\ Append(published[t], payload)[Len(published[t]) + 1] = payload
      BY <1>1, AppendProperties
<1>3. published' = [published EXCEPT ![t] = Append(published[t], payload)]
      BY DEF Publish
<1>4. \A u \in Topics \ {t} : published'[u] = published[u]
      BY <1>3 DEF BaseInv, TypeOK
<1>5. published'[t] = Append(published[t], payload)
      BY <1>3 DEF BaseInv, TypeOK
<1>6. published' \in [Topics -> Seq(PayloadKinds)]
      BY <1>2, <1>3 DEF BaseInv, TypeOK
<1>7. TypeOK'
  <2>1. ASSUME NEW u \in Topics
        PROVE  taken'[u] <= Len(published'[u]) /\ Len(published'[u]) <= MaxMessages[u]
    <3>1. taken' = taken /\ taken[t] \in Nat /\ MaxMessages[t] \in Nat
          BY IngestAssumption DEF BaseInv, TypeOK, Publish
    <3>2. CASE u = t
          BY <1>1, <1>2, <1>5, <3>1, <3>2 DEF BaseInv, TypeOK, Publish
    <3>3. CASE u # t
          BY <1>4, <3>1, <3>3 DEF BaseInv, TypeOK
    <3> QED BY <3>2, <3>3
  <2> QED BY <2>1, <1>6 DEF BaseInv, TypeOK, Publish, hubVars, Message
<1>8. ConsumerInv'
  <2>1. ASSUME NEW u \in Topics, NEW n \in 1..Len(published'[u]), published'[u][n] = "header"
        PROVE  ParseTopic(u).type = "block"
    <3>1. CASE u # t
          BY <2>1, <3>1, <1>4 DEF BaseInv, ConsumerInv
    <3>2. CASE u = t /\ n = Len(published[t]) + 1
          BY <2>1, <3>2, <1>2, <1>5 DEF Publish
    <3>3. CASE u = t /\ n \in 1..Len(published[t])
          BY <2>1, <3>3, <1>2, <1>5 DEF BaseInv, ConsumerInv
    <3> QED BY <2>1, <3>1, <3>2, <3>3, <1>1, <1>2, <1>5
  <2>2. \A u \in Topics : Len(published'[u]) \in 0..MaxMessages[u]
        BY <1>1, <1>2, <1>4, <1>5, IngestAssumption DEF BaseInv, ConsumerInv, Publish
  <2> QED BY <2>1, <2>2 DEF BaseInv, ConsumerInv, Publish
<1> QED BY <1>7, <1>8 DEF BaseInv

\* The steps of a consumer that leave the hub alone.
LEMMA ConsumerBase ==
    ASSUME BaseInv, NEW t \in Topics,
           CloseChannel(t) \/ ChannelClosed(t) \/ Receive(t) \/ Store(t) \/ StoreHeader(t)
    PROVE  BaseInv'
<1> HubType /\ IngestType /\ ConsumerInv /\ \A u \in Topics : pc[u] = "fanout" <=> hub = u
    BY TypeParts DEF BaseInv
<1>1. UNCHANGED <<published, hubVars>>
      BY DEF CloseChannel, ChannelClosed, Receive, Store, StoreHeader
<1>2. HubType'
      BY <1>1 DEF HubType, hubVars, Message
<1>3. CASE CloseChannel(t)
  <2>1. IngestType'
        BY <1>3 DEF IngestType, CloseChannel
  <2>2. ConsumerInv' /\ \A u \in Topics : pc'[u] = "fanout" <=> hub' = u
        BY <1>1, <1>3 DEF ConsumerInv, CloseChannel, hubVars
  <2> QED BY <1>2, <2>1, <2>2 DEF BaseInv, TypeOK, HubType, IngestType
<1>4. CASE ChannelClosed(t)
  <2>1. IngestType'
        BY <1>4 DEF IngestType, ChannelClosed, GoTo
  <2>2. ConsumerInv' /\ \A u \in Topics : pc'[u] = "fanout" <=> hub' = u
        BY <1>1, <1>4 DEF ConsumerInv, ChannelClosed, GoTo, hubVars, IngestType
  <2> QED BY <1>2, <2>1, <2>2 DEF BaseInv, TypeOK, HubType, IngestType
<1>5. CASE Receive(t)
  <2>1. taken[t] + 1 \in 1..MaxMessages[t]
    <3>1. taken[t] \in Nat /\ Len(published[t]) \in Nat /\ MaxMessages[t] \in Nat
          BY IngestAssumption DEF IngestType
    <3>2. taken[t] < Len(published[t]) /\ Len(published[t]) <= MaxMessages[t]
          BY <1>5 DEF IngestType, Receive
    <3> QED BY <3>1, <3>2
  <2>2. IngestType'
        BY <1>5, <2>1 DEF IngestType, Receive, GoTo
  <2>3. ConsumerInv' /\ \A u \in Topics : pc'[u] = "fanout" <=> hub' = u
        BY <1>1, <1>5, <2>1 DEF ConsumerInv, Receive, GoTo, hubVars, IngestType
  <2> QED BY <1>2, <2>2, <2>3 DEF BaseInv, TypeOK, HubType, IngestType
<1>6. CASE Store(t)
  <2>1. IngestType'
        BY <1>6 DEF IngestType, Store, GoTo, AfterRow
  <2>2. ConsumerInv' /\ \A u \in Topics : pc'[u] = "fanout" <=> hub' = u
        BY <1>1, <1>6 DEF ConsumerInv, Store, GoTo, AfterRow, hubVars, IngestType
  <2> QED BY <1>2, <2>1, <2>2 DEF BaseInv, TypeOK, HubType, IngestType
<1>7. CASE StoreHeader(t)
  <2>1. IngestType'
        BY <1>7 DEF IngestType, StoreHeader, GoTo
  <2>2. ConsumerInv' /\ \A u \in Topics : pc'[u] = "fanout" <=> hub' = u
        BY <1>1, <1>7 DEF ConsumerInv, StoreHeader, GoTo, hubVars, IngestType
  <2> QED BY <1>2, <2>1, <2>2 DEF BaseInv, TypeOK, HubType, IngestType
<1> QED BY <1>3, <1>4, <1>5, <1>6, <1>7

\* The steps of a broadcast.
LEMMA BroadcastBase ==
    ASSUME BaseInv, NEW t \in Topics,
           StartBroadcast(t) \/ FanOut(t)
    PROVE  BaseInv'
<1> HubType /\ IngestType /\ ConsumerInv /\ \A u \in Topics : pc[u] = "fanout" <=> hub = u
    BY TypeParts DEF BaseInv
<1>1. CASE StartBroadcast(t)
  <2>1. <<t, taken[t]>> \in Message
        BY <1>1, CurrentIsMessage DEF StartBroadcast
  <2>2. log' = Append(log, <<t, taken[t]>>) /\ log' \in Seq(Message)
        BY <1>1, <2>1, AppendProperties DEF StartBroadcast, LockHub, HubType
  <2>3. HubType'
        BY <1>1, <2>2 DEF StartBroadcast, LockHub, HubType, Message, Topics
  <2>4. IngestType' /\ ConsumerInv'
        BY <1>1 DEF StartBroadcast, GoTo, IngestType, ConsumerInv
  <2>5. \A u \in Topics : pc'[u] = "fanout" <=> hub' = u
        BY <1>1, HubAssumption DEF StartBroadcast, LockHub, HubFree, GoTo, IngestType, Topics
  <2> QED BY <2>3, <2>4, <2>5 DEF BaseInv, TypeOK, HubType, IngestType
<1>2. ASSUME NEW c \in Conns, Visit(t, c) PROVE BaseInv'
  <2>1. UNCHANGED ingestVars /\ hub' = hub
        BY <1>2 DEF Visit, WriteJSON, WriteFails
  <2>2. <<t, taken[t]>> \in Message
        BY <1>2, CurrentIsMessage DEF Visit
  <2>3. written' \in [Conns -> Seq(Message)]
    <3>1. CASE WriteJSON(t, c, <<t, taken[t]>>)
      <4>1. Append(written[c], <<t, taken[t]>>) \in Seq(Message)
            BY <2>2, AppendProperties DEF HubType
      <4> QED BY <3>1, <4>1 DEF WriteJSON, HubType
    <3>2. CASE WriteFails(t, c)
          BY <3>2 DEF WriteFails, HubType
    <3> QED BY <1>2, <3>1, <3>2 DEF Visit
  <2>4. /\ conns' \subseteq Conns
        /\ todo' \in [Topics -> SUBSET Conns]
        /\ session' = session /\ link' = link /\ log' = log /\ joined' = joined
        BY <1>2 DEF Visit, WriteJSON, WriteFails, HubType, Topics
  <2>5. HubType'
        BY <2>1, <2>3, <2>4 DEF HubType, ingestVars, Message
  <2>6. IngestType' /\ ConsumerInv' /\ \A u \in Topics : pc'[u] = "fanout" <=> hub' = u
        BY <2>1 DEF ingestVars, IngestType, ConsumerInv
  <2> QED BY <2>5, <2>6 DEF BaseInv, TypeOK, HubType, IngestType
<1>3. CASE EndBroadcast(t)
  <2>1. HubType'
        BY <1>3 DEF EndBroadcast, UnlockHub, HubType, Message
  <2>2. IngestType' /\ ConsumerInv'
        BY <1>3 DEF EndBroadcast, GoTo, IngestType, ConsumerInv
  <2>3. \A u \in Topics : pc'[u] = "fanout" <=> hub' = u
        BY <1>3, HubAssumption DEF EndBroadcast, UnlockHub, GoTo, IngestType, Topics
  <2> QED BY <2>1, <2>2, <2>3 DEF BaseInv, TypeOK, HubType, IngestType
<1> QED BY <1>1, <1>2, <1>3 DEF FanOut

\* The steps of a connection's handler and of its client.
LEMMA ConnBase ==
    ASSUME BaseInv, NEW c \in Conns, ConnStep(c), UNCHANGED ingestVars
    PROVE  BaseInv'
<1> HubType /\ IngestType /\ ConsumerInv /\ \A u \in Topics : pc[u] = "fanout" <=> hub = u
    BY TypeParts DEF BaseInv
<1>1. hub' = hub /\ todo' = todo /\ written' = written /\ log' = log
      BY DEF ConnStep, Upgrade, Register, Unregister, Stall, Resume, Drop
<1>2. conns' \subseteq Conns /\ joined' \in [Conns -> Nat]
  <2>1. Len(log) \in Nat
        BY DEF HubType
  <2>2. joined' = joined \/ joined' = [joined EXCEPT ![c] = Len(log)]
        BY DEF ConnStep, Upgrade, Register, Unregister, Stall, Resume, Drop
  <2>3. conns' \in {conns, conns \union {c}, conns \ {c}}
        BY DEF ConnStep, Upgrade, Register, Unregister, Forgotten, Stall, Resume, Drop
  <2> QED BY <2>1, <2>2, <2>3 DEF HubType
<1>3. session' \in [Conns -> {"idle", "upgraded", "reading", "closed"}]
      BY DEF ConnStep, Upgrade, Register, Unregister, Stall, Resume, Drop, HubType
<1>4. link' \in [Conns -> {"up", "stalled", "down"}]
      BY DEF ConnStep, Upgrade, Register, Unregister, Stall, Resume, Drop, HubType
<1>5. HubType'
      BY <1>1, <1>2, <1>3, <1>4 DEF HubType, Message
<1>6. IngestType' /\ ConsumerInv' /\ \A u \in Topics : pc'[u] = "fanout" <=> hub' = u
      BY <1>1 DEF ingestVars, IngestType, ConsumerInv
<1> QED BY <1>5, <1>6 DEF BaseInv, TypeOK, HubType, IngestType

LEMMA BaseStep ==
    ASSUME BaseInv, [Next]_vars
    PROVE  BaseInv'
<1>1. CASE UNCHANGED vars
      BY <1>1 DEF BaseInv, TypeOK, ConsumerInv, Message, vars, ingestVars, hubVars
<1>2. CASE Next
      BY <1>2, KnownPayload, PublishBase, ConsumerBase, BroadcastBase, ConnBase DEF Next, Work
<1> QED BY <1>1, <1>2

\* THEOREM: types, for the hub and its consumers (TypeOK).
THEOREM IngestTypeCorrect == Spec => []TypeOK
<1>1. Init => BaseInv
      BY InitBase
<1>2. BaseInv /\ [Next]_vars => BaseInv'
      BY BaseStep
<1>3. BaseInv => TypeOK
      BY DEF BaseInv
<1> QED BY <1>1, <1>2, <1>3, PTL DEF Spec

-----------------------------------------------------------------------------
(* The hub.                                                                *)

\* While the mutex is free, and for all but its holder, no connection is due.
LEMMA NobodyDue ==
    ASSUME HubInv, NEW t \in Topics, hub # t
    PROVE  todo[t] = {}
BY DEF HubInv

LEMMA FreeHub ==
    ASSUME HubInv, HubFree
    PROVE  \A t \in Topics : todo[t] = {}
BY NobodyDue, HubAssumption DEF HubFree, Topics

\* Handlers and registrations: only a broken connection is forgotten.
LEMMA RegistryStep ==
    ASSUME BaseInv, RegistryMatchesHandlers, [Next]_vars
    PROVE  RegistryMatchesHandlers'
<1> HubType
    BY TypeParts DEF BaseInv
<1>1. CASE UNCHANGED hubVars
      BY <1>1 DEF hubVars, RegistryMatchesHandlers
<1>2. ASSUME NEW t \in Topics, StartBroadcast(t) \/ EndBroadcast(t)
      PROVE  RegistryMatchesHandlers'
      BY <1>2 DEF StartBroadcast, LockHub, EndBroadcast, UnlockHub, RegistryMatchesHandlers
<1>3. ASSUME NEW t \in Topics, NEW c \in Conns, Visit(t, c)
      PROVE  RegistryMatchesHandlers'
      BY <1>3 DEF Visit, WriteJSON, WriteFails, RegistryMatchesHandlers
<1>4. ASSUME NEW c \in Conns, ConnStep(c)
      PROVE  RegistryMatchesHandlers'
  <2>1. CASE Upgrade(c)
        BY <2>1 DEF Upgrade, RegistryMatchesHandlers, HubType
  <2>2. CASE Register(c)
        BY <2>2 DEF Register, RegistryMatchesHandlers, HubType
  <2>3. CASE Unregister(c)
        BY <2>3 DEF Unregister, Forgotten, RegistryMatchesHandlers, HubType
  <2>4. CASE Stall(c) \/ Resume(c) \/ Drop(c)
        BY <2>4 DEF Stall, Resume, Drop, RegistryMatchesHandlers, HubType
  <2> QED BY <1>4, <2>1, <2>2, <2>3, <2>4 DEF ConnStep
<1> QED BY <1>1, <1>2, <1>3, <1>4
        DEF Next, vars, Work, FanOut, Publish, CloseChannel, ChannelClosed, Receive, Store, StoreHeader

\* Who holds the mutex keeps the registry and its own list together.
LEMMA HubStep ==
    ASSUME BaseInv, HubInv, [Next]_vars
    PROVE  HubInv'
<1> HubType /\ IngestType /\ \A u \in Topics : pc[u] = "fanout" <=> hub = u
    BY TypeParts DEF BaseInv
<1>1. CASE UNCHANGED <<hubVars, taken>>
      BY <1>1 DEF hubVars, HubInv
<1>2. ASSUME NEW t \in Topics, Receive(t)
      PROVE  HubInv'
  <2>1. hub # t /\ UNCHANGED hubVars /\ \A u \in Topics \ {t} : taken'[u] = taken[u]
        BY <1>2 DEF Receive, IngestType
  <2> QED BY <2>1 DEF HubInv, hubVars
<1>3. ASSUME NEW t \in Topics, StartBroadcast(t)
      PROVE  HubInv'
  <2>1. /\ Len(log') = Len(log) + 1 /\ Len(log) \in Nat
        /\ log'[Len(log) + 1] = <<t, taken[t]>>
        BY <1>3, AppendProperties, CurrentIsMessage DEF StartBroadcast, LockHub, HubType
  <2>2. hub' = t /\ conns' = conns /\ taken' = taken /\ todo' = [todo EXCEPT ![t] = conns]
        BY <1>3 DEF StartBroadcast, LockHub
  <2>3. \A u \in Topics \ {t} : todo'[u] = {}
        BY <1>3, <2>2, FreeHub DEF StartBroadcast, LockHub, HubType
  <2> QED BY <2>1, <2>2, <2>3 DEF HubInv, HubType
<1>4. ASSUME NEW t \in Topics, NEW c \in Conns, Visit(t, c)
      PROVE  HubInv'
  <2>1. /\ hub = t /\ hub' = hub /\ log' = log /\ taken' = taken
        /\ todo' = [todo EXCEPT ![t] = @ \ {c}]
        /\ conns' \in {conns, conns \ {c}}
        BY <1>4 DEF Visit, WriteJSON, WriteFails, ingestVars
  <2>2. \A u \in Topics \ {t} : todo'[u] = {}
        BY <2>1, NobodyDue DEF HubType
  <2> QED BY <2>1, <2>2 DEF HubInv, HubType
<1>5. ASSUME NEW t \in Topics, EndBroadcast(t)
      PROVE  HubInv'
  <2>1. hub = t /\ hub' = Nobody /\ todo' = todo /\ conns' = conns
        BY <1>5 DEF EndBroadcast, UnlockHub
  <2>2. \A u \in Topics : todo'[u] = {}
        BY <1>5, <2>1, NobodyDue DEF EndBroadcast, UnlockHub
  <2> QED BY <2>1, <2>2, HubAssumption DEF HubInv, Topics
<1>6. ASSUME NEW c \in Conns, ConnStep(c), UNCHANGED ingestVars
      PROVE  HubInv'
  <2>1. UNCHANGED <<hub, todo, log, taken>>
        BY <1>6 DEF ConnStep, Upgrade, Register, Unregister, Stall, Resume, Drop, ingestVars
  <2>2. CASE Register(c) \/ Unregister(c)
    <3>1. HubFree
          BY <2>2 DEF Register, Unregister
    <3> QED BY <2>1, <3>1, FreeHub DEF HubInv
  <2>3. CASE Upgrade(c) \/ Stall(c) \/ Resume(c) \/ Drop(c)
    <3>1. conns' = conns
          BY <2>3 DEF Upgrade, Stall, Resume, Drop
    <3> QED BY <2>1, <3>1 DEF HubInv
  <2> QED BY <1>6, <2>2, <2>3 DEF ConnStep
<1> QED BY <1>1, <1>2, <1>3, <1>4, <1>5, <1>6
        DEF Next, vars, ingestVars, Work, FanOut, Publish, CloseChannel, ChannelClosed, Store, StoreHeader

\* The log grows at its end; nobody is sent anything but through a visit.
LEMMA ClientStart ==
    ASSUME BaseInv, HubInv, NEW t \in Topics, StartBroadcast(t),
           NEW c \in Conns, ClientInv(c)
    PROVE  ClientInv(c)'
<1> HubType
    BY TypeParts DEF BaseInv
<1>1. /\ Len(log') = Len(log) + 1 /\ Len(log) \in Nat
      /\ \A i \in 1..Len(log) : log'[i] = log[i]
      BY AppendProperties, CurrentIsMessage DEF StartBroadcast, LockHub, HubType
<1>2. /\ todo' = [todo EXCEPT ![t] = conns]
      /\ UNCHANGED <<conns, session, written, joined>>
      BY DEF StartBroadcast, LockHub
<1>3. ~Due(c)
      BY FreeHub DEF StartBroadcast, LockHub, Due, Topics
<1>4. c \in conns => Due(c)'
      BY <1>2 DEF Due, HubType, Topics
<1>5. Len(written[c]) \in Nat /\ joined[c] \in Nat
      BY DEF HubType
<1>6. /\ joined'[c] + Len(written'[c]) <= Len(log')
      /\ \A i \in 1..Len(written'[c]) : written'[c][i] = log'[joined'[c] + i]
  <2>1. joined[c] + Len(written[c]) <= Len(log)
        BY DEF ClientInv
  <2>2. ASSUME NEW i \in 1..Len(written[c])
        PROVE  written[c][i] = log'[joined[c] + i]
    <3>1. joined[c] + i \in 1..Len(log)
          BY <1>1, <1>5, <2>1
    <3> QED BY <1>1, <3>1 DEF ClientInv
  <2> QED BY <1>1, <1>2, <1>5, <2>1, <2>2
<1>7. c \in conns => Len(log') = joined[c] + Len(written[c]) + 1
      BY <1>1, <1>3 DEF ClientInv
<1>8. session'[c] \in {"idle", "upgraded"} => written'[c] = << >> /\ c \notin conns'
      BY <1>2 DEF ClientInv
<1>9. c \in conns' => Due(c)' /\ Len(log') = joined'[c] + Len(written'[c]) + 1
      BY <1>2, <1>4, <1>7
<1> QED BY <1>6, <1>8, <1>9 DEF ClientInv

\* A visit brings its connection up to the end of the log, or forgets it.
LEMMA ClientVisit ==
    ASSUME BaseInv, HubInv, NEW t \in Topics, NEW d \in Conns, Visit(t, d),
           NEW c \in Conns, ClientInv(c)
    PROVE  ClientInv(c)'
<1> HubType /\ \A u \in Topics : pc[u] = "fanout" <=> hub = u
    BY TypeParts DEF BaseInv
<1>1. /\ hub = t /\ d \in todo[t] /\ d \in conns
      /\ todo' = [todo EXCEPT ![t] = @ \ {d}]
      /\ UNCHANGED <<log, joined, session>>
      BY DEF Visit, WriteJSON, WriteFails, HubInv
<1>2. Len(written[c]) \in Nat /\ joined[c] \in Nat /\ Len(log) \in Nat
      BY DEF HubType
<1>3. CASE c # d
  <2>1. written'[c] = written[c] /\ (c \in conns' <=> c \in conns)
        BY <1>3 DEF Visit, WriteJSON, WriteFails, HubType
  <2>2. Due(c)' <=> Due(c)
        BY <1>1, <1>3 DEF Due, HubType, Topics
  <2> QED BY <1>1, <2>1, <2>2 DEF ClientInv
<1>4. CASE c = d /\ WriteFails(t, d)
  <2>1. written' = written /\ c \notin conns'
        BY <1>4 DEF WriteFails
  <2> QED BY <1>1, <2>1 DEF ClientInv
<1>5. CASE c = d /\ WriteJSON(t, d, <<t, taken[t]>>)
  <2>1. Due(c)
        BY <1>1, <1>5 DEF Due, Topics
  <2>2. ~Due(c)'
        BY <1>1, <1>5, NobodyDue DEF Due, HubType, Topics
  <2>3. Len(log) = joined[c] + Len(written[c]) + 1 /\ log[Len(log)] = <<t, taken[t]>>
        BY <1>1, <1>5, <2>1 DEF ClientInv, HubInv
  <2>4. <<t, taken[t]>> \in Message
        BY CurrentIsMessage DEF Visit
  <2>5. /\ written'[c] = Append(written[c], <<t, taken[t]>>)
        /\ conns' = conns
        BY <1>5 DEF WriteJSON, HubType
  <2>6. /\ Len(written'[c]) = Len(written[c]) + 1
        /\ \A i \in 1..Len(written[c]) : written'[c][i] = written[c][i]
        /\ written'[c][Len(written[c]) + 1] = <<t, taken[t]>>
        BY <2>4, <2>5, AppendProperties DEF HubType
  <2>7. ASSUME NEW i \in 1..Len(written'[c])
        PROVE  written'[c][i] = log'[joined'[c] + i]
    <3>1. CASE i \in 1..Len(written[c])
          BY <1>1, <2>6, <3>1 DEF ClientInv
    <3>2. CASE i = Len(written[c]) + 1
      <4>1. joined'[c] + i = Len(log)
            BY <1>1, <1>2, <2>3, <3>2
      <4> QED BY <1>1, <2>3, <2>6, <3>2, <4>1
    <3> QED BY <1>2, <2>6, <3>1, <3>2
  <2>8. session[c] \notin {"idle", "upgraded"}
        BY <1>1, <1>5 DEF ClientInv
  <2>9. /\ joined'[c] = joined[c] /\ log' = log /\ session'[c] = session[c]
        /\ Len(log') = joined'[c] + Len(written'[c])
        BY <1>1, <1>2, <2>3, <2>6
  <2>10. joined'[c] + Len(written'[c]) <= Len(log')
        BY <1>1, <1>2, <2>9
  <2> QED BY <2>2, <2>7, <2>8, <2>9, <2>10 DEF ClientInv
<1> QED BY <1>3, <1>4, <1>5 DEF Visit

\* A client starts where the log ends when it registers.
LEMMA ClientConn ==
    ASSUME BaseInv, HubInv, NEW d \in Conns, ConnStep(d),
           NEW c \in Conns, ClientInv(c)
    PROVE  ClientInv(c)'
<1> HubType
    BY TypeParts DEF BaseInv
<1>1. UNCHANGED <<todo, log, written>>
      BY DEF ConnStep, Upgrade, Register, Unregister, Stall, Resume, Drop
<1>2. Due(c)' <=> Due(c)
      BY <1>1 DEF Due
<1>3. CASE Stall(d) \/ Resume(d) \/ Drop(d)
      BY <1>1, <1>2, <1>3 DEF Stall, Resume, Drop, ClientInv
<1>4. CASE Upgrade(d)
      BY <1>1, <1>2, <1>4 DEF Upgrade, ClientInv, HubType
<1>5. CASE Unregister(d)
      BY <1>1, <1>2, <1>5 DEF Unregister, Forgotten, ClientInv, HubType
<1>6. CASE Register(d)
  <2>1. CASE c # d
        BY <1>1, <1>2, <1>6, <2>1 DEF Register, ClientInv, HubType
  <2>2. CASE c = d
    <3>1. written[c] = << >> /\ joined'[c] = Len(log) /\ session'[c] = "reading"
          BY <1>6, <2>2 DEF Register, ClientInv, HubType
    <3>2. ~Due(c)
          BY <1>6, FreeHub DEF Register, Due, Topics
    <3>3. Len(log) \in Nat /\ Len(written'[c]) = 0
          BY <1>1, <3>1 DEF HubType
    <3> QED BY <1>1, <1>2, <3>1, <3>2, <3>3 DEF ClientInv
  <2> QED BY <2>1, <2>2
<1> QED BY <1>3, <1>4, <1>5, <1>6 DEF ConnStep

LEMMA ClientStep ==
    ASSUME BaseInv, HubInv, [Next]_vars, NEW c \in Conns, ClientInv(c)
    PROVE  ClientInv(c)'
<1>1. CASE UNCHANGED hubVars
      BY <1>1 DEF hubVars, ClientInv, Due
<1>2. ASSUME NEW t \in Topics, EndBroadcast(t)
      PROVE  ClientInv(c)'
      BY <1>2 DEF EndBroadcast, UnlockHub, ClientInv, Due
<1> QED BY <1>1, <1>2, ClientStart, ClientVisit, ClientConn
        DEF Next, vars, Work, FanOut, Publish, CloseChannel, ChannelClosed, Receive, Store, StoreHeader

\* Sent position by position is sent as one stretch.
LEMMA ClientStretch ==
    ASSUME BaseInv, NEW c \in Conns, ClientInv(c)
    PROVE  written[c] = Stretch(c)
<1> HubType
    BY TypeParts DEF BaseInv
<1> DEFINE m == joined[c] + 1
           n == joined[c] + Len(written[c])
<1>1. m \in Int /\ n \in Int /\ m >= 1 /\ n <= Len(log) /\ Len(written[c]) \in Nat
      BY DEF HubType, ClientInv
<1>2. \A i \in m..n : log[i] \in Message
      BY <1>1 DEF HubType
<1>3. /\ SubSeq(log, m, n) \in Seq(Message)
      /\ Len(SubSeq(log, m, n)) = IF m <= n THEN n - m + 1 ELSE 0
      /\ \A i \in 1..n - m + 1 : SubSeq(log, m, n)[i] = log[m + i - 1]
      BY <1>1, <1>2, SubSeqProperties
<1>4. Len(SubSeq(log, m, n)) = Len(written[c])
      BY <1>1, <1>3 DEF HubType
<1>5. ASSUME NEW i \in 1..Len(written[c])
      PROVE  written[c][i] = SubSeq(log, m, n)[i]
  <2>1. joined[c] \in Nat /\ i \in Int
        BY <1>1 DEF HubType
  <2>2. i \in 1..n - m + 1 /\ m + i - 1 = joined[c] + i
        BY <1>1, <2>1
  <2> QED BY <1>3, <2>2 DEF ClientInv
<1>6. written[c] \in Seq(Message)
      BY DEF HubType
<1>7. written[c] = SubSeq(log, m, n)
      BY <1>3, <1>4, <1>5, <1>6, SeqEqual
<1> QED BY <1>7 DEF Stretch

-----------------------------------------------------------------------------
(* The consumers.                                                          *)

\* An entry of the log is a message its consumer has taken.
LEMMA LogEntry ==
    ASSUME BaseInv, OrderInv, NEW i \in 1..Len(log)
    PROVE  /\ log[i] = <<log[i][1], log[i][2]>>
           /\ log[i][1] \in Topics
           /\ log[i][2] \in 1..Len(published[log[i][1]])
<1> HubType /\ IngestType
    BY TypeParts DEF BaseInv
<1>1. log[i] \in Message
      BY DEF HubType
<1>2. log[i] = <<log[i][1], log[i][2]>> /\ log[i][1] \in Topics /\ log[i][2] \in 1..MaxMessages[log[i][1]]
      BY <1>1 DEF Message
<1>3. taken[log[i][1]] \in Nat /\ taken[log[i][1]] <= Len(published[log[i][1]])
      BY <1>2 DEF IngestType
<1>4. log[i][2] <= taken[log[i][1]]
      BY DEF OrderInv
<1>5. Len(published[log[i][1]]) \in Nat
      BY <1>2 DEF IngestType
<1> QED BY <1>2, <1>3, <1>4, <1>5, IngestAssumption

\* A broadcast puts its message behind those before it.
LEMMA OrderStart ==
    ASSUME BaseInv, OrderInv, NEW t \in Topics, StartBroadcast(t)
    PROVE  OrderInv'
<1> HubType /\ IngestType
    BY TypeParts DEF BaseInv
<1>1. /\ Len(log') = Len(log) + 1 /\ Len(log) \in Nat
      /\ \A i \in 1..Len(log) : log'[i] = log[i]
      /\ log'[Len(log) + 1] = <<t, taken[t]>>
      BY AppendProperties, CurrentIsMessage DEF StartBroadcast, LockHub, HubType
<1>2. /\ pc[t] = "broadcast" /\ pc' = [pc EXCEPT ![t] = "fanout"] /\ taken' = taken
      BY DEF StartBroadcast, GoTo
<1>3. taken[t] \in Nat
      BY IngestAssumption DEF IngestType
<1>4. ASSUME NEW i \in 1..Len(log')
      PROVE  /\ log'[i][2] <= taken'[log'[i][1]]
             /\ pc'[log'[i][1]] \in {"store", "header", "broadcast"} => log'[i][2] < taken'[log'[i][1]]
  <2>1. CASE i \in 1..Len(log)
    <3>1. log[i][1] \in Topics
          BY <2>1, LogEntry
    <3> QED BY <1>1, <1>2, <2>1, <3>1 DEF OrderInv, IngestType
  <2>2. CASE i = Len(log) + 1
        BY <1>1, <1>2, <1>3, <2>2 DEF IngestType
  <2> QED BY <1>1, <2>1, <2>2
<1>5. ASSUME NEW i \in 1..Len(log'), NEW j \in 1..Len(log'), i < j, log'[i][1] = log'[j][1]
      PROVE  log'[i][2] < log'[j][2]
  <2>1. i \in 1..Len(log) /\ log'[i] = log[i]
        BY <1>1, <1>5
  <2>2. CASE j \in 1..Len(log)
        BY <1>1, <1>5, <2>1, <2>2 DEF OrderInv
  <2>3. CASE j = Len(log) + 1
    <3>1. log[i][1] = t /\ log'[j][2] = taken[t]
          BY <1>1, <1>5, <2>1, <2>3
    <3> QED BY <1>2, <2>1, <3>1 DEF OrderInv
  <2> QED BY <1>1, <2>2, <2>3
<1>6. ASSUME NEW u \in Topics, NEW n \in Nat, \E i \in 1..Len(log) : log[i] = <<u, n>>
      PROVE  \E i \in 1..Len(log') : log'[i] = <<u, n>>
      BY <1>1, <1>6
<1>7. \E i \in 1..Len(log') : log'[i] = <<t, taken[t]>>
      BY <1>1
<1>8. ASSUME NEW n \in 1..taken[t]
      PROVE  \E i \in 1..Len(log') : log'[i] = <<t, n>>
  <2>1. CASE n = taken[t]
        BY <1>7, <2>1
  <2>2. CASE n # taken[t]
    <3>1. n \in 1..(taken[t] - 1) /\ n \in Nat
          BY <1>3, <2>2
    <3>2. \E i \in 1..Len(log) : log[i] = <<t, n>>
          BY <1>2, <3>1 DEF OrderInv
    <3> QED BY <1>6, <3>1, <3>2
  <2> QED BY <2>1, <2>2
<1>9. ASSUME NEW u \in Topics
      PROVE  /\ pc'[u] \in {"select", "fanout"} =>
                  \A n \in 1..taken'[u] : \E i \in 1..Len(log') : log'[i] = <<u, n>>
             /\ pc'[u] \in {"store", "header", "broadcast"} =>
                  \A n \in 1..(taken'[u] - 1) : \E i \in 1..Len(log') : log'[i] = <<u, n>>
  <2>1. CASE u = t
        BY <1>2, <1>8, <2>1 DEF IngestType
  <2>2. CASE u # t
    <3>1. pc'[u] = pc[u] /\ taken'[u] = taken[u] /\ taken[u] \in Nat
          BY <1>2, <2>2, IngestAssumption DEF IngestType
    <3>2. ASSUME NEW n \in 1..taken[u], pc[u] \in {"select", "fanout"}
          PROVE  \E i \in 1..Len(log') : log'[i] = <<u, n>>
      <4>1. \E i \in 1..Len(log) : log[i] = <<u, n>>
            BY <3>2 DEF OrderInv
      <4>2. n \in Nat
            BY <3>1
      <4> QED BY <1>6, <4>1, <4>2
    <3>3. ASSUME NEW n \in 1..(taken[u] - 1), pc[u] \in {"store", "header", "broadcast"}
          PROVE  \E i \in 1..Len(log') : log'[i] = <<u, n>>
      <4>1. \E i \in 1..Len(log) : log[i] = <<u, n>>
            BY <3>3 DEF OrderInv
      <4>2. n \in Nat
            BY <3>1
      <4> QED BY <1>6, <4>1, <4>2
    <3> QED BY <3>1, <3>2, <3>3
  <2> QED BY <2>1, <2>2
<1> QED BY <1>4, <1>5, <1>9 DEF OrderInv

\* A message that is received is behind all those that were broadcast.
LEMMA OrderReceive ==
    ASSUME BaseInv, OrderInv, NEW t \in Topics, Receive(t)
    PROVE  OrderInv'
<1> HubType /\ IngestType
    BY TypeParts DEF BaseInv
<1>1. /\ log' = log /\ pc[t] = "select"
      /\ taken'[t] = taken[t] + 1 /\ pc'[t] \in {"store", "exited"}
      /\ \A u \in Topics \ {t} : taken'[u] = taken[u] /\ pc'[u] = pc[u]
      BY DEF Receive, GoTo, IngestType, hubVars
<1>2. taken[t] \in Nat
      BY IngestAssumption DEF IngestType
<1>3. ASSUME NEW i \in 1..Len(log)
      PROVE  /\ log[i][2] <= taken'[log[i][1]]
             /\ pc'[log[i][1]] \in {"store", "header", "broadcast"} => log[i][2] < taken'[log[i][1]]
  <2>1. log[i][1] \in Topics /\ log[i][2] \in Int
        BY LogEntry
  <2>2. log[i][2] <= taken[log[i][1]]
        BY DEF OrderInv
  <2> QED BY <1>1, <1>2, <2>1, <2>2 DEF OrderInv
<1>4. \A i, j \in 1..Len(log) : i < j /\ log[i][1] = log[j][1] => log[i][2] < log[j][2]
      BY DEF OrderInv
<1>5. ASSUME NEW u \in Topics
      PROVE  /\ pc'[u] \in {"select", "fanout"} =>
                  \A n \in 1..taken'[u] : \E i \in 1..Len(log) : log[i] = <<u, n>>
             /\ pc'[u] \in {"store", "header", "broadcast"} =>
                  \A n \in 1..(taken'[u] - 1) : \E i \in 1..Len(log) : log[i] = <<u, n>>
  <2>1. CASE u = t
    <3>1. taken'[t] - 1 = taken[t]
          BY <1>1, <1>2
    <3> QED BY <1>1, <2>1, <3>1 DEF OrderInv
  <2>2. CASE u # t
        BY <1>1, <2>2 DEF OrderInv
  <2> QED BY <2>1, <2>2
<1> QED BY <1>1, <1>3, <1>4, <1>5 DEF OrderInv

LEMMA OrderStep ==
    ASSUME BaseInv, OrderInv, [Next]_vars
    PROVE  OrderInv'
<1> IngestType
    BY TypeParts DEF BaseInv
<1>1. CASE UNCHANGED <<log, taken, pc>>
      BY <1>1 DEF OrderInv
<1>2. ASSUME NEW t \in Topics,
             ChannelClosed(t) \/ Store(t) \/ StoreHeader(t) \/ EndBroadcast(t)
      PROVE  OrderInv'
  <2>1. log' = log /\ taken' = taken
        BY <1>2 DEF ChannelClosed, Store, StoreHeader, EndBroadcast, UnlockHub, hubVars
  <2>2. /\ \A u \in Topics \ {t} : pc'[u] = pc[u]
        /\ \/ pc'[t] = "exited"
           \/ {pc[t], pc'[t]} \subseteq {"select", "fanout"}
           \/ {pc[t], pc'[t]} \subseteq {"store", "header", "broadcast"}
        BY <1>2 DEF ChannelClosed, Store, StoreHeader, EndBroadcast, GoTo, AfterRow, IngestType
  <2>3. \A u \in Topics :
          /\ pc'[u] \in {"select", "fanout"} => pc[u] \in {"select", "fanout"}
          /\ pc'[u] \in {"store", "header", "broadcast"} => pc[u] \in {"store", "header", "broadcast"}
        BY <2>2
  <2>4. \A i \in 1..Len(log) : log[i][1] \in Topics
        BY LogEntry
  <2> QED BY <2>1, <2>3, <2>4 DEF OrderInv
<1>3. ASSUME NEW t \in Topics, NEW c \in Conns, Visit(t, c)
      PROVE  UNCHANGED <<log, taken, pc>>
      BY <1>3 DEF Visit, WriteJSON, WriteFails, ingestVars
<1>4. ASSUME NEW c \in Conns, ConnStep(c), UNCHANGED ingestVars
      PROVE  UNCHANGED <<log, taken, pc>>
      BY <1>4 DEF ConnStep, Upgrade, Register, Unregister, Stall, Resume, Drop, ingestVars
<1> QED BY <1>1, <1>2, <1>3, <1>4, OrderStart, OrderReceive
        DEF Next, vars, ingestVars, hubVars, Work, FanOut, Publish, CloseChannel

\* A payload that is published leaves the rows of the messages before it as they are.
LEMMA RowsKept ==
    ASSUME BaseInv, NEW t \in Topics, NEW payload \in PayloadKinds, Publish(t, payload),
           NEW u \in Topics, NEW n \in 1..Len(published[u])
    PROVE  /\ published'[u][n] = published[u][n]
           /\ RowsOf(u, n)' = RowsOf(u, n)
<1>1. published[t] \in Seq(PayloadKinds) /\ published' = [published EXCEPT ![t] = Append(@, payload)]
      BY DEF BaseInv, TypeOK, Publish
<1>2. \A i \in 1..Len(published[t]) : Append(published[t], payload)[i] = published[t][i]
      BY <1>1, AppendProperties
<1>3. published'[u][n] = published[u][n]
      BY <1>1, <1>2 DEF BaseInv, TypeOK
<1> QED BY <1>3 DEF RowsOf

LEMMA StoredPublish ==
    ASSUME BaseInv, OrderInv, StoredInv, NEW t \in Topics, NEW payload \in PayloadKinds, Publish(t, payload)
    PROVE  StoredInv'
<1>1. UNCHANGED <<log, handed, taken, pc>>
      BY DEF Publish, hubVars
<1>2. ASSUME NEW i \in 1..Len(log)
      PROVE  RowsOf(log[i][1], log[i][2])' \subseteq handed
  <2>1. log[i][1] \in Topics /\ log[i][2] \in 1..Len(published[log[i][1]])
        BY LogEntry
  <2>2. RowsOf(log[i][1], log[i][2])' = RowsOf(log[i][1], log[i][2])
        BY <1>1, <2>1, RowsKept
  <2> QED BY <2>2 DEF StoredInv, StoredBeforeBroadcast
<1>3. ASSUME NEW u \in Topics, pc[u] = "broadcast"
      PROVE  RowsOf(u, taken[u])' \subseteq handed
  <2>1. taken[u] \in 1..Len(published[u])
        BY <1>3, CurrentIsMessage
  <2>2. RowsOf(u, taken[u])' = RowsOf(u, taken[u])
        BY <1>1, <2>1, RowsKept
  <2> QED BY <1>3, <2>2 DEF StoredInv
<1> QED BY <1>1, <1>2, <1>3 DEF StoredInv, StoredBeforeBroadcast

\* The two steps that hand rows over: a header is stored last, and only blocks have one.
LEMMA StoredStore ==
    ASSUME BaseInv, StoredInv, NEW t \in Topics, Store(t) \/ StoreHeader(t)
    PROVE  StoredInv'
<1> IngestType /\ ConsumerInv
    BY TypeParts DEF BaseInv
<1> DEFINE first == <<t, taken[t], ParseTopic(t).type>>
           second == <<t, taken[t], "block_header">>
<1>1. /\ UNCHANGED <<published, log, taken>> /\ handed \subseteq handed'
      /\ \A u \in Topics \ {t} : pc'[u] = pc[u]
      BY DEF Store, StoreHeader, GoTo, IngestType, hubVars
<1>2. \A u, n : RowsOf(u, n)' = RowsOf(u, n)
      BY <1>1 DEF RowsOf
<1>3. StoredBeforeBroadcast'
      BY <1>1, <1>2 DEF StoredInv, StoredBeforeBroadcast
<1>4. CASE Store(t)
  <2>1. first \in handed'
        BY <1>4 DEF Store
  <2>2. CASE HasHeader(t)
    <3>1. pc'[t] = "header"
          BY <1>4, <2>2 DEF Store, GoTo, AfterRow, IngestType
    <3> QED BY <1>1, <1>2, <1>3, <2>1, <3>1 DEF StoredInv
  <2>3. CASE ~HasHeader(t)
    <3>1. pc'[t] = "broadcast"
          BY <1>4, <2>3 DEF Store, GoTo, AfterRow, IngestType
    <3>2. taken[t] \in 1..Len(published[t])
          BY <1>4, CurrentIsMessage DEF Store
    <3>3. published[t][taken[t]] # "header"
          BY <2>3, <3>2 DEF HasHeader, Current, ConsumerInv
    <3>4. RowsOf(t, taken[t]) = {first}
          BY <3>3 DEF RowsOf
    <3> QED BY <1>1, <1>2, <1>3, <2>1, <3>1, <3>4 DEF StoredInv
  <2> QED BY <2>2, <2>3
<1>5. CASE StoreHeader(t)
  <2>1. first \in handed' /\ second \in handed' /\ pc'[t] = "broadcast"
        BY <1>5 DEF StoreHeader, GoTo, StoredInv, IngestType
  <2>2. RowsOf(t, taken[t]) \subseteq {first, second}
        BY DEF RowsOf
  <2> QED BY <1>1, <1>2, <1>3, <2>1, <2>2 DEF StoredInv
<1> QED BY <1>4, <1>5

\* A message that is broadcast has been handed over.
LEMMA StoredStart ==
    ASSUME BaseInv, StoredInv, NEW t \in Topics, StartBroadcast(t)
    PROVE  StoredInv'
<1> HubType /\ IngestType
    BY TypeParts DEF BaseInv
<1>1. /\ Len(log') = Len(log) + 1 /\ Len(log) \in Nat
      /\ \A i \in 1..Len(log) : log'[i] = log[i]
      /\ log'[Len(log) + 1] = <<t, taken[t]>>
      BY AppendProperties, CurrentIsMessage DEF StartBroadcast, LockHub, HubType
<1>2. /\ UNCHANGED <<published, taken, handed>> /\ pc[t] = "broadcast"
      /\ pc' = [pc EXCEPT ![t] = "fanout"]
      BY DEF StartBroadcast, GoTo
<1>3. \A u, n : RowsOf(u, n)' = RowsOf(u, n)
      BY <1>2 DEF RowsOf
<1>4. ASSUME NEW i \in 1..Len(log')
      PROVE  RowsOf(log'[i][1], log'[i][2]) \subseteq handed
  <2>1. CASE i \in 1..Len(log)
        BY <1>1, <2>1 DEF StoredInv, StoredBeforeBroadcast
  <2>2. CASE i = Len(log) + 1
    <3>1. RowsOf(t, taken[t]) \subseteq handed
          BY <1>2 DEF StoredInv
    <3>2. log'[i] = <<t, taken[t]>>
          BY <1>1, <2>2
    <3> QED BY <3>1, <3>2
  <2> QED BY <1>1, <2>1, <2>2
<1>5. StoredBeforeBroadcast'
      BY <1>2, <1>3, <1>4 DEF StoredBeforeBroadcast
<1> QED BY <1>2, <1>3, <1>5 DEF StoredInv, IngestType

LEMMA StoredStep ==
    ASSUME BaseInv, OrderInv, StoredInv, [Next]_vars
    PROVE  StoredInv'
<1> IngestType
    BY TypeParts DEF BaseInv
<1>1. CASE UNCHANGED <<ingestVars, log>>
      BY <1>1 DEF ingestVars, StoredInv, StoredBeforeBroadcast, RowsOf
<1>2. ASSUME NEW t \in Topics,
             CloseChannel(t) \/ ChannelClosed(t) \/ Receive(t) \/ EndBroadcast(t)
      PROVE  StoredInv'
  <2>1. /\ UNCHANGED <<published, log, handed>>
        /\ \A u \in Topics \ {t} : pc'[u] = pc[u] /\ taken'[u] = taken[u]
        /\ \/ pc'[t] \notin {"header", "broadcast"}
           \/ pc' = pc /\ taken' = taken
        BY <1>2 DEF CloseChannel, ChannelClosed, Receive, EndBroadcast, UnlockHub, GoTo, IngestType, hubVars
  <2>2. \A u, n : RowsOf(u, n)' = RowsOf(u, n)
        BY <2>1 DEF RowsOf
  <2> QED BY <2>1, <2>2 DEF StoredInv, StoredBeforeBroadcast
<1>3. ASSUME NEW t \in Topics, NEW c \in Conns, Visit(t, c)
      PROVE  UNCHANGED <<ingestVars, log>>
      BY <1>3 DEF Visit, WriteJSON, WriteFails
<1>4. ASSUME NEW c \in Conns, ConnStep(c)
      PROVE  log' = log
      BY <1>4 DEF ConnStep, Upgrade, Register, Unregister, Stall, Resume, Drop
<1> QED BY <1>1, <1>2, <1>3, <1>4, KnownPayload, StoredPublish, StoredStore, StoredStart
        DEF Next, vars, hubVars, Work, FanOut


\* On a topic that can be parsed only a closed channel, or a payload that does not
\* decode, ends the consumer; what it has ended for stays as it was.
LEMMA EndStep ==
    ASSUME BaseInv, EndInv, [Next]_vars, \A t \in Topics \ {NodeStatusTopic} : Parses(t)
    PROVE  EndInv'
<1> IngestType
    BY TypeParts DEF BaseInv
<1>1. CASE UNCHANGED ingestVars
      BY <1>1 DEF ingestVars, EndInv, Current
<1>2. ASSUME NEW t \in Topics, NEW payload \in PayloadKinds, Publish(t, payload)
      PROVE  EndInv'
  <2> SUFFICES ASSUME NEW u \in Topics \ {NodeStatusTopic}, pc'[u] = "exited"
               PROVE  \/ closed'[u] /\ taken'[u] = Len(published'[u])
                      \/ taken'[u] >= 1 /\ published'[u][taken'[u]] = "malformed"
      BY DEF EndInv, Current
  <2>1. UNCHANGED <<closed, taken, pc>> /\ ~closed[t]
        BY <1>2 DEF Publish
  <2>2. CASE closed[u] /\ taken[u] = Len(published[u])
        BY <1>2, <2>1, <2>2 DEF Publish, IngestType
  <2>3. CASE taken[u] >= 1 /\ published[u][taken[u]] = "malformed"
    <3>1. taken[u] \in 1..Len(published[u])
          BY <2>3, IngestAssumption DEF IngestType
    <3> QED BY <1>2, <2>1, <2>3, <3>1, RowsKept
  <2> QED BY <2>1, <2>2, <2>3 DEF EndInv, Current
<1>3. ASSUME NEW t \in Topics, CloseChannel(t)
      PROVE  EndInv'
      BY <1>3 DEF CloseChannel, EndInv, Current, IngestType
<1>4. ASSUME NEW t \in Topics, ChannelClosed(t)
      PROVE  EndInv'
      BY <1>4 DEF ChannelClosed, GoTo, EndInv, Current, IngestType
<1>5. ASSUME NEW t \in Topics, Receive(t)
      PROVE  EndInv'
  <2>1. /\ taken[t] \in Nat /\ taken'[t] = taken[t] + 1
        /\ t # NodeStatusTopic /\ pc'[t] = "exited" => published[t][taken[t] + 1] = "malformed"
        /\ \A u \in Topics \ {t} : taken'[u] = taken[u] /\ pc'[u] = pc[u]
        /\ UNCHANGED <<published, closed>>
        BY <1>5, IngestAssumption DEF Receive, GoTo, ParsedOk, IngestType
  <2> QED BY <2>1 DEF EndInv, Current
<1>6. ASSUME NEW t \in Topics,
             Store(t) \/ StoreHeader(t) \/ StartBroadcast(t) \/ EndBroadcast(t)
      PROVE  EndInv'
  <2>1. /\ UNCHANGED <<published, closed, taken>>
        /\ pc'[t] # "exited" /\ \A u \in Topics \ {t} : pc'[u] = pc[u]
        BY <1>6 DEF Store, StoreHeader, StartBroadcast, EndBroadcast, GoTo, AfterRow, IngestType
  <2> QED BY <2>1 DEF EndInv, Current
<1>7. ASSUME NEW t \in Topics, NEW c \in Conns, Visit(t, c)
      PROVE  UNCHANGED ingestVars
      BY <1>7 DEF Visit
<1> QED BY <1>1, <1>2, <1>3, <1>4, <1>5, <1>6, <1>7, KnownPayload DEF Next, vars, Work, FanOut

\* bitcoin/node_status has two segments, not four.
LEMMA NodeStatusRefused == ~Parses(NodeStatusTopic)
BY DEF NodeStatusTopic, Parses, ParseTopic, Refused

\* The consumer of that topic never gets past Receive.
LEMMA RefusedStep ==
    ASSUME BaseInv, RefusedInv, [Next]_vars
    PROVE  RefusedInv'
<1> SUFFICES ASSUME NodeStatusTopic \in Topics
             PROVE  RefusedInv'
    BY DEF RefusedInv
<1> DEFINE ns == NodeStatusTopic
<1> /\ IngestType /\ HubType
    BY TypeParts DEF BaseInv
<1>1. CASE UNCHANGED <<taken, pc, handed, log>>
      BY <1>1 DEF RefusedInv
<1>2. ASSUME NEW t \in Topics, NEW payload \in PayloadKinds, Publish(t, payload)
      PROVE  UNCHANGED <<taken, pc, handed, log>>
      BY <1>2 DEF Publish, hubVars
<1>3. ASSUME NEW t \in Topics, CloseChannel(t)
      PROVE  UNCHANGED <<taken, pc, handed, log>>
      BY <1>3 DEF CloseChannel, hubVars
<1>4. ASSUME NEW t \in Topics, ChannelClosed(t) \/ Receive(t)
      PROVE  RefusedInv'
  <2>1. /\ UNCHANGED <<handed, log>>
        /\ \A u \in Topics \ {t} : taken'[u] = taken[u] /\ pc'[u] = pc[u]
        BY <1>4 DEF ChannelClosed, Receive, GoTo, hubVars, IngestType
  <2>2. CASE t = ns /\ Receive(t)
        BY <2>1, <2>2, NodeStatusRefused DEF Receive, GoTo, ParsedOk, RefusedInv, IngestType
  <2>3. CASE t = ns /\ ChannelClosed(t)
        BY <2>1, <2>3 DEF ChannelClosed, GoTo, RefusedInv, IngestType
  <2>4. CASE t # ns
        BY <2>1, <2>4 DEF RefusedInv
  <2> QED BY <1>4, <2>2, <2>3, <2>4
<1>5. ASSUME NEW t \in Topics, Store(t) \/ StoreHeader(t) \/ StartBroadcast(t)
      PROVE  RefusedInv'
  <2>1. t # ns
        BY <1>5 DEF Store, StoreHeader, StartBroadcast, RefusedInv
  <2>2. taken' = taken /\ \A u \in Topics \ {t} : pc'[u] = pc[u]
        BY <1>5 DEF Store, StoreHeader, StartBroadcast, GoTo, IngestType
  <2>3. \A row \in handed' : row[1] # ns
        BY <1>5, <2>1 DEF Store, StoreHeader, StartBroadcast, RefusedInv
  <2>4. \A i \in 1..Len(log') : log'[i][1] # ns
    <3>1. CASE log' = log
          BY <3>1 DEF RefusedInv
    <3>2. CASE log' = Append(log, <<t, taken[t]>>)
      <4>1. log \in Seq(Message)
            BY DEF HubType
      <4>2. /\ Len(log') = Len(log) + 1 /\ Len(log) \in Nat
            /\ \A i \in 1..Len(log) : log'[i] = log[i]
            /\ log'[Len(log) + 1] = <<t, taken[t]>>
            BY <3>2, <4>1, AppendProperties
      <4> QED BY <4>2, <2>1 DEF RefusedInv
    <3> QED BY <1>5, <3>1, <3>2 DEF Store, StoreHeader, StartBroadcast, LockHub, hubVars
  <2> QED BY <2>1, <2>2, <2>3, <2>4 DEF RefusedInv
<1>6. ASSUME NEW t \in Topics, EndBroadcast(t)
      PROVE  RefusedInv'
  <2>1. t # ns
        BY <1>6 DEF EndBroadcast, RefusedInv
  <2>2. UNCHANGED <<taken, handed, log>> /\ \A u \in Topics \ {t} : pc'[u] = pc[u]
        BY <1>6 DEF EndBroadcast, UnlockHub, GoTo, IngestType
  <2> QED BY <2>1, <2>2 DEF RefusedInv
<1>7. ASSUME NEW t \in Topics, NEW c \in Conns, Visit(t, c)
      PROVE  UNCHANGED <<taken, pc, handed, log>>
      BY <1>7 DEF Visit, ingestVars, WriteJSON, WriteFails
<1>8. ASSUME NEW c \in Conns, ConnStep(c), UNCHANGED ingestVars
      PROVE  UNCHANGED <<taken, pc, handed, log>>
      BY <1>8 DEF ingestVars, ConnStep, Upgrade, Register, Unregister, Stall, Resume, Drop
<1>9. CASE UNCHANGED vars
      BY <1>9, <1>1 DEF vars, ingestVars, hubVars
<1> QED BY <1>1, <1>2, <1>3, <1>4, <1>5, <1>6, <1>7, <1>8, <1>9, KnownPayload DEF Next, Work, FanOut

-----------------------------------------------------------------------------
(* The theorems.                                                           *)

LEMMA InitIInv == ASSUME Init PROVE IInv /\ EndInv /\ RefusedInv
<1>1. BaseInv
      BY InitBase
<1>2. \A c \in Conns : ClientInv(c)
      BY DEF Init, HubInit, ClientInv, Due
<1>3. HubInv
      BY HubAssumption DEF Init, HubInit, HubInv, Topics
<1>4. RegistryMatchesHandlers
      BY DEF Init, HubInit, RegistryMatchesHandlers
<1>5. OrderInv
      BY DEF Init, HubInit, OrderInv
<1>6. StoredInv
      BY DEF Init, HubInit, StoredInv, StoredBeforeBroadcast
<1>7. EndInv /\ RefusedInv
      BY DEF Init, HubInit, EndInv, RefusedInv
<1> QED BY <1>1, <1>2, <1>3, <1>4, <1>5, <1>6, <1>7 DEF IInv

LEMMA StepIInv == ASSUME IInv, [Next]_vars PROVE IInv'
BY BaseStep, HubStep, ClientStep, RegistryStep, OrderStep, StoredStep DEF IInv

\* The inductive invariant holds in every reachable state.
THEOREM IngestInvariant == Spec => []IInv
<1>1. Init => IInv
      BY InitIInv
<1>2. IInv /\ [Next]_vars => IInv'
      BY StepIInv
<1> QED BY <1>1, <1>2, PTL DEF Spec

\* What a client is sent is one stretch of the log with nothing missing and nothing
\* twice, whatever broadcasts, registrations, write errors and stalls are interleaved:
\* BroadcastMessage holds the registry's mutex for the whole fan-out.
THEOREM IngestOneOrder == Spec => []OneOrderNoGaps
<1>1. IInv => OneOrderNoGaps
  <2> SUFFICES ASSUME IInv, NEW c \in Conns
               PROVE  /\ written[c] = Stretch(c)
                      /\ c \in conns =>
                           Len(log) = joined[c] + Len(written[c]) + (IF Due(c) THEN 1 ELSE 0)
      BY DEF OneOrderNoGaps, Due
  <2>1. BaseInv /\ ClientInv(c)
        BY DEF IInv
  <2>2. written[c] = Stretch(c)
        BY <2>1, ClientStretch
  <2>3. joined[c] \in Nat /\ Len(written[c]) \in Nat
        BY <2>1 DEF BaseInv, TypeOK
  <2> QED BY <2>1, <2>2, <2>3 DEF ClientInv
<1> QED BY <1>1, IngestInvariant, PTL

\* Only connections that are read are registered, and one that works stays registered
\* as long as its handler reads.
THEOREM IngestRegistry == Spec => []RegistryMatchesHandlers
<1>1. IInv => RegistryMatchesHandlers
      BY DEF IInv
<1> QED BY <1>1, IngestInvariant, PTL

\* A message some client was sent has had all of its rows handed to the batch service.
THEOREM IngestStoredBeforeBroadcast == Spec => []StoredBeforeBroadcast
<1>1. IInv => StoredBeforeBroadcast
      BY DEF IInv, StoredInv
<1> QED BY <1>1, IngestInvariant, PTL

\* Each message of a topic is broadcast once and in the topic's order, and a consumer
\* that waits for the next one has broadcast all before it.
THEOREM IngestTopicOrder == Spec => []TopicOrderKept
<1>1. IInv => TopicOrderKept
      BY DEF IInv, OrderInv, TopicOrderKept
<1> QED BY <1>1, IngestInvariant, PTL

\* The parser takes what GenerateTopics makes: on every topic generated for networks whose
\* names have no dash, each of GetMessageTypes is a type ParseMessage knows.
THEOREM GeneratedTopicsParse ==
    ASSUME NEW Words, NEW t \in GenerateTopics({<<w>> : w \in Words})
    PROVE  Parses(t)
<1>1. PICK w \in Words, type \in MessageTypes : t = NetworkTopic(<<w>>, type)
      BY DEF GenerateTopics
<1>2. <<w>> \o <<type>> = <<w, type>>
  <2> DEFINE S == {w, type}
  <2>1. <<w>> \in Seq(S) /\ <<type>> \in Seq(S) /\ <<w, type>> \in Seq(S)
        OBVIOUS
  <2>2. /\ <<w>> \o <<type>> \in Seq(S)
        /\ Len(<<w>> \o <<type>>) = 2
        /\ \A i \in 1..2 : (<<w>> \o <<type>>)[i] = <<w, type>>[i]
        BY <2>1, ConcatProperties
  <2> HIDE DEF S
  <2> QED BY <2>1, <2>2, SeqEqual
<1>3. /\ Len(t) = 4 /\ t[1] = <<"teranode">> /\ t[2] = <<"bitcoin">> /\ t[4] = <<w, type>>
      BY <1>1, <1>2 DEF NetworkTopic
<1>4. <<"bitcoin">> # <<"node_status">>
      OBVIOUS
<1>5. Len(t[4]) = 2 /\ Tail(t[4]) = <<type>>
      BY <1>3
<1>6. ParseTopic(t).type = JoinedType(<<type>>)
      BY <1>3, <1>4, <1>5 DEF ParseTopic
<1>7. JoinedType(<<type>>) = type
      BY DEF JoinedType, MessageTypes
<1> QED BY <1>6, <1>7 DEF Parses, MessageTypes

\* Whatever of the topics main makes of dash-free network names is subscribed to: the
\* consumer of a generated topic ends only when its channel is closed and drained, or at a
\* payload that does not decode; that of bitcoin/node_status ends at its first message,
\* and nothing of it is stored or shown.
THEOREM IngestConsumersEnd ==
    ASSUME NEW Words, Topics \subseteq SubscribedTopics({<<w>> : w \in Words})
    PROVE  Spec => []ConsumersEndForCause
<1>1. \A t \in Topics \ {NodeStatusTopic} : Parses(t)
      BY GeneratedTopicsParse DEF SubscribedTopics
<1>2. Init => BaseInv /\ EndInv /\ RefusedInv
      BY InitIInv, InitBase
<1>3. BaseInv /\ EndInv /\ RefusedInv /\ [Next]_vars => (BaseInv /\ EndInv /\ RefusedInv)'
      BY <1>1, BaseStep, EndStep, RefusedStep
<1>4. EndInv /\ RefusedInv => ConsumersEndForCause
      BY DEF EndInv, RefusedInv, ConsumersEndForCause
<1> QED BY <1>2, <1>3, <1>4, PTL DEF Spec

=============================================================================
