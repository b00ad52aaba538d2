----------------------------- MODULE PagesProofs ----------------------------
(***************************************************************************)
(* Proofs about Pages and the store it writes, for any networks, peers,    *)
(* WebSockets and loads, and any number of statuses and failures.          *)
(***************************************************************************)
EXTENDS Pages, FiniteSetTheorems, SequenceTheorems, WellFoundedInduction, TLAPS

-----------------------------------------------------------------------------
(* The inductive invariant.                                                *)

Statuses == Status \union {Absent}
Broadcast == {published[i] : i \in 1..Len(published)}

ServerInv ==
    /\ published \in Seq(Status) /\ Len(published) <= MaxPublished
    /\ stored \in 0..Len(published)
    /\ feeds \in [Feeds -> 0..Len(published) \union {Off}]

StoreInv ==
    /\ nodeStatuses \in [Networks -> [Peers -> Statuses]]
    /\ scores \in [Networks -> [Peers -> 0..Cardinality(Peers)]]
    /\ KeptWhereItBelongs

\* What is true of a load when the database has k statuses and page pg is open: an answer
\* holds no more than was stored, only the overview waits for the stats, a load of the
\* overview is for all networks and goes with its page, one of Networks is for one
\* network and is told when the page is left.
GoodLoad(load, k, pg) ==
    /\ \A n \in Networks : load.read[n] # Unread => load.read[n] <= k
    /\ load.phase = "stats" => load.owner = "overview"
    /\ load.owner = "overview" => load.nets = Networks /\ pg = "overview"
    /\ load.owner # "overview" => \E n \in Networks : load.nets = {n}
    /\ load.owner = "networks" => pg = "networks"

LoadsInv ==
    /\ loads \in [Loads -> Load \union {NoLoad}]
    /\ \A l \in Loads : loads[l] # NoLoad => GoodLoad(loads[l], stored, page)

ScreenInv ==
    /\ page \in {"overview", "networks", "other"}
    /\ selected \in Networks /\ subscribed \in Networks
    /\ view \in [Peers -> Statuses]
    /\ loading \in BOOLEAN
    /\ failures \in 0..MaxFailures

\* Between the selection of a network and its effects Networks shows the one it listens to.
ViewInv == page = "networks" => view = nodeStatuses[subscribed]

PagesInv == ServerInv /\ StoreInv /\ LoadsInv /\ ScreenInv /\ ViewInv /\ LoadingIsBacked

-----------------------------------------------------------------------------
(* The store.                                                              *)

LEMMA Parameters ==
    /\ MaxPublished \in Nat /\ MaxFailures \in Nat /\ WorkValues \subseteq Nat
    /\ IsFiniteSet(Peers) /\ Cardinality(Peers) \in Nat
BY PagesAssumption, FS_CardinalityType

\* A set of numbers that has a bound has a greatest one.
LEMMA GreatestExists ==
    ASSUME NEW n \in Nat, NEW S \in SUBSET (0..n), S # {}
    PROVE  \E x \in S : \A y \in S : y <= x
<1> DEFINE T == {n - x : x \in S}
<1>1. T \subseteq Nat /\ T # {}
  <2>1. \A x \in S : x \in 0..n
        OBVIOUS
  <2>2. \A x \in 0..n : n - x \in Nat
        OBVIOUS
  <2> QED BY <2>1, <2>2
<1>2. PICK d \in T : \A e \in T : ~(<<e, d>> \in OpToRel(<, Nat))
      BY <1>1, NatLessThanWellFounded, WFMin
<1>3. \A e \in T : ~(e < d)
      BY <1>1, <1>2 DEF OpToRel
<1>4. PICK x \in S : d = n - x
      BY <1>2
<1>5. \A y \in S : y <= x
      BY <1>3, <1>4
<1> QED BY <1>4, <1>5

\* LatestByPeer keeps, of each peer, a status that is among the rows, and none is newer.
LEMMA LatestOfPeer ==
    ASSUME NEW rows \in SUBSET Status
    PROVE  /\ LatestByPeer(rows) \in [Peers -> Statuses]
           /\ \A p \in Peers :
                LET s == LatestByPeer(rows)[p]
                IN  IF s = Absent THEN \A t \in rows : t.peer # p
                    ELSE /\ s \in rows /\ s.peer = p
                         /\ \A t \in rows : t.peer = p => t.at <= s.at
<1> SUFFICES ASSUME NEW p \in Peers
             PROVE  LET s == LatestByPeer(rows)[p]
                    IN  /\ s \in Statuses
                        /\ IF s = Absent THEN \A t \in rows : t.peer # p
                           ELSE /\ s \in rows /\ s.peer = p
                                /\ \A t \in rows : t.peer = p => t.at <= s.at
    BY DEF LatestByPeer
<1> DEFINE ofPeer == {s \in rows : s.peer = p}
           newest == CHOOSE s \in ofPeer : \A t \in ofPeer : t.at <= s.at
           times == {s.at : s \in ofPeer}
<1>1. LatestByPeer(rows)[p] = IF ofPeer = {} THEN Absent ELSE newest
      BY DEF LatestByPeer
<1>2. CASE ofPeer = {}
      BY <1>1, <1>2 DEF Statuses
<1>3. CASE ofPeer # {}
  <2>1. times \in SUBSET (0..MaxPublished) /\ times # {}
    <3>1. \A s \in ofPeer : s.at \in 0..MaxPublished
          BY Parameters DEF Status
    <3> QED BY <1>3, <3>1
  <2>2. PICK latest \in times : \A time \in times : time <= latest
        BY <2>1, GreatestExists, Parameters
  <2>3. PICK s \in ofPeer : \A t \in ofPeer : t.at <= s.at
        BY <2>2
  <2>4. newest \in ofPeer /\ \A t \in ofPeer : t.at <= newest.at
        BY <2>3
  <2> HIDE DEF newest
  <2>5. newest \in rows /\ newest # Absent
        BY <2>4, AbsenceAssumption
  <2> QED BY <1>1, <1>3, <2>4, <2>5 DEF Statuses
<1> QED BY <1>2, <1>3

\* A peer's place is a number, and no higher than there are peers.
LEMMA RankBounded ==
    ASSUME NEW map \in [Peers -> Statuses], NEW p \in Peers
    PROVE  Rank(map, p) \in 0..Cardinality(Peers)
<1> DEFINE reporting == {q \in Peers : map[q] # Absent}
           work == [q \in reporting |-> map[q].work]
           works == {map[q].work : q \in reporting}
           below == {w \in Works(map) : w <= map[p].work}
<1>1. IsFiniteSet(reporting) /\ Cardinality(reporting) <= Cardinality(Peers)
      BY Parameters, FS_Subset
<1>2. work \in Surjection(reporting, works)
      BY DEF Surjection
<1>3. IsFiniteSet(works) /\ Cardinality(works) <= Cardinality(reporting)
  <2> HIDE DEF work, works, reporting
  <2> QED BY <1>1, <1>2, FS_Surjection
<1>4. below \subseteq works
      BY DEF Works
<1>5. IsFiniteSet(below) /\ Cardinality(below) <= Cardinality(works)
  <2> HIDE DEF works, below
  <2> QED BY <1>3, <1>4, FS_Subset
<1>6. /\ Cardinality(below) \in Nat /\ Cardinality(works) \in Nat
      /\ Cardinality(reporting) \in Nat
      BY <1>1, <1>3, <1>5, FS_CardinalityType
<1>7. Cardinality(below) \in 0..Cardinality(Peers)
      BY <1>1, <1>3, <1>5, <1>6, Parameters
<1> HIDE DEF below
<1>8. Rank(map, p) = 0 \/ Rank(map, p) = Cardinality(below)
      BY DEF Rank, below
<1> QED BY <1>7, <1>8, Parameters

\* Recalculate writes one network's map.
LEMMA Recalculated ==
    ASSUME nodeStatuses \in [Networks -> [Peers -> Statuses]],
           scores \in [Networks -> [Peers -> 0..Cardinality(Peers)]],
           NEW n \in Networks, NEW map \in [Peers -> Statuses], Recalculate(n, map)
    PROVE  /\ nodeStatuses' \in [Networks -> [Peers -> Statuses]]
           /\ scores' \in [Networks -> [Peers -> 0..Cardinality(Peers)]]
           /\ nodeStatuses'[n] = map
           /\ \A m \in Networks \ {n} : nodeStatuses'[m] = nodeStatuses[m]
<1>1. [p \in Peers |-> Rank(map, p)] \in [Peers -> 0..Cardinality(Peers)]
      BY RankBounded
<1> QED BY <1>1 DEF Recalculate

\* The rows of a query are statuses of its network that were published.
LEMMA RowsOfNetwork ==
    ASSUME ServerInv, NEW n \in Networks, NEW k \in 0..stored
    PROVE  /\ NewestRows(n, k) \in SUBSET Status
           /\ \A s \in NewestRows(n, k) : s.net = n /\ s \in Broadcast
<1>1. k <= Len(published) /\ Len(published) \in Nat /\ \A i \in 1..k : i \in 1..Len(published)
      BY DEF ServerInv
<1>2. \A i \in 1..Len(published) : published[i] \in Status
      BY DEF ServerInv
<1> QED BY <1>1, <1>2 DEF NewestRows, Broadcast

\* What a network may hold.
Kept(n, map) ==
    \A p \in Peers : map[p] # Absent => map[p].net = n /\ map[p].peer = p /\ map[p] \in Broadcast

LEMMA KeptIs == KeptWhereItBelongs <=> \A n \in Networks : Kept(n, nodeStatuses[n])
BY DEF KeptWhereItBelongs, Kept, Broadcast

\* What a load stores may be held.
LEMMA AnswerKept ==
    ASSUME ServerInv, NEW n \in Networks, NEW k \in 0..stored
    PROVE  /\ LatestByPeer(NewestRows(n, k)) \in [Peers -> Statuses]
           /\ Kept(n, LatestByPeer(NewestRows(n, k)))
<1> DEFINE rows == NewestRows(n, k)
<1>1. rows \in SUBSET Status /\ \A s \in rows : s.net = n /\ s \in Broadcast
      BY RowsOfNetwork
<1> HIDE DEF rows
<1>2. /\ LatestByPeer(rows) \in [Peers -> Statuses]
      /\ \A p \in Peers :
            LatestByPeer(rows)[p] # Absent =>
               LatestByPeer(rows)[p] \in rows /\ LatestByPeer(rows)[p].peer = p
      BY <1>1, LatestOfPeer
<1>3. Kept(n, LatestByPeer(rows))
      BY <1>1, <1>2 DEF Kept
<1> QED BY <1>2, <1>3 DEF rows

\* Writing a map that may be held.
LEMMA StoreWritten ==
    ASSUME StoreInv, UNCHANGED published, NEW n \in Networks, NEW map \in [Peers -> Statuses],
           Kept(n, map), Recalculate(n, map)
    PROVE  StoreInv'
<1>1. /\ nodeStatuses' \in [Networks -> [Peers -> Statuses]]
      /\ scores' \in [Networks -> [Peers -> 0..Cardinality(Peers)]]
      /\ nodeStatuses'[n] = map
      /\ \A m \in Networks \ {n} : nodeStatuses'[m] = nodeStatuses[m]
      BY Recalculated DEF StoreInv
<1>2. \A m \in Networks : Kept(m, nodeStatuses'[m])
      BY <1>1, KeptIs DEF StoreInv
<1>3. KeptWhereItBelongs'
      BY <1>2 DEF KeptWhereItBelongs, Kept, Broadcast
<1> QED BY <1>1, <1>3 DEF StoreInv

LEMMA StoreUntouched ==
    ASSUME StoreInv, UNCHANGED <<storeVars, published>>
    PROVE  StoreInv'
BY DEF StoreInv, storeVars, KeptWhereItBelongs

LEMMA ServerUntouched ==
    ASSUME ServerInv, UNCHANGED <<serverVars, feeds>>
    PROVE  ServerInv'
BY DEF ServerInv, serverVars

-----------------------------------------------------------------------------
(* The server and the WebSockets.                                          *)

LEMMA InitPages == ASSUME Init PROVE PagesInv
<1>1. ServerInv
  <2>1. published \in Seq(Status) /\ Len(published) = 0
        BY EmptySeq DEF Init
  <2> QED BY <2>1, Parameters DEF Init, ServerInv
<1>2. StoreInv
      BY Parameters DEF Init, StoreInit, StoreInv, Statuses, KeptWhereItBelongs
<1>3. LoadsInv /\ ViewInv /\ LoadingIsBacked
      BY DEF Init, LoadsInv, ViewInv, LoadingIsBacked
<1>4. view \in [Peers -> Statuses]
      BY DEF Init, EmptyView, Statuses
<1>5. failures \in 0..MaxFailures
      BY Parameters DEF Init
<1>6. selected \in Networks /\ subscribed \in Networks /\ loading \in BOOLEAN /\ page = "other"
      BY DEF Init
<1>7. ScreenInv
      BY <1>4, <1>5, <1>6 DEF ScreenInv
<1> QED BY <1>1, <1>2, <1>3, <1>7 DEF PagesInv

LEMMA PublishStep ==
    ASSUME PagesInv, NEW n \in Networks, NEW p \in Peers, NEW w \in WorkValues, Publish(n, p, w)
    PROVE  PagesInv'
<1> DEFINE new == [peer |-> p, net |-> n, at |-> Len(published) + 1, work |-> w]
<1>1. /\ published' = Append(published, new) /\ Len(published) < MaxPublished
      /\ UNCHANGED <<storeVars, stored, feeds, pageVars>>
      BY DEF Publish
<1>2. published \in Seq(Status) /\ Len(published) \in Nat /\ stored \in 0..Len(published)
      BY DEF PagesInv, ServerInv
<1>3. new \in Status
      BY <1>1, <1>2, Parameters DEF Status
<1> HIDE DEF new
<1>4. /\ published' \in Seq(Status) /\ Len(published') = Len(published) + 1
      /\ \A i \in 1..Len(published) : published'[i] = published[i]
      BY <1>1, <1>2, <1>3, AppendProperties
<1>5. ServerInv'
  <2>1. Len(published') <= MaxPublished
        BY <1>1, <1>2, <1>4, Parameters
  <2>2. stored' \in 0..Len(published')
        BY <1>1, <1>2, <1>4
  <2>3. feeds' \in [Feeds -> 0..Len(published') \union {Off}]
    <3>1. \A k \in 0..Len(published) : k \in 0..Len(published')
          BY <1>2, <1>4
    <3> QED BY <1>1, <3>1 DEF PagesInv, ServerInv
  <2> QED BY <1>4, <2>1, <2>2, <2>3 DEF ServerInv
<1>6. StoreInv'
  <2>1. \A i \in 1..Len(published) : i \in 1..Len(published')
        BY <1>2, <1>4
  <2>2. {published[i] : i \in 1..Len(published)} \subseteq {published'[i] : i \in 1..Len(published')}
        BY <1>4, <2>1
  <2>3. KeptWhereItBelongs'
        BY <1>1, <2>2 DEF PagesInv, StoreInv, KeptWhereItBelongs, storeVars
  <2> QED BY <1>1, <2>3 DEF PagesInv, StoreInv, storeVars
<1>7. LoadsInv' /\ ScreenInv' /\ ViewInv' /\ LoadingIsBacked'
      BY <1>1 DEF PagesInv, LoadsInv, ScreenInv, ViewInv, LoadingIsBacked, pageVars, storeVars
<1> QED BY <1>5, <1>6, <1>7 DEF PagesInv

\* A load that is good stays good when more is stored.
LEMMA GoodLater ==
    ASSUME NEW load \in Load, NEW k \in Nat, NEW later \in Nat, k <= later, NEW pg,
           GoodLoad(load, k, pg)
    PROVE  GoodLoad(load, later, pg)
<1>1. \A n \in Networks : load.read[n] # Unread => load.read[n] \in Nat
      BY Parameters DEF Load
<1> QED BY <1>1 DEF GoodLoad

LEMMA FlushStep == ASSUME PagesInv, Flush PROVE PagesInv'
<1>1. /\ stored' = Len(published) /\ UNCHANGED <<storeVars, published, feeds, pageVars>>
      BY DEF Flush
<1>2. Len(published) \in Nat /\ stored \in Nat /\ stored <= stored' /\ stored' \in Nat
      BY <1>1 DEF PagesInv, ServerInv
<1>3. ServerInv' /\ StoreInv'
      BY <1>1, <1>2, StoreUntouched DEF PagesInv, ServerInv
<1>4. LoadsInv'
  <2>1. \A l \in Loads : loads[l] # NoLoad => loads[l] \in Load
        BY DEF PagesInv, LoadsInv
  <2>2. \A l \in Loads : loads[l] # NoLoad => GoodLoad(loads[l], stored', page)
        BY <1>2, <2>1, GoodLater DEF PagesInv, LoadsInv
  <2> QED BY <1>1, <2>2 DEF PagesInv, LoadsInv, pageVars
<1>5. ScreenInv' /\ ViewInv' /\ LoadingIsBacked'
      BY <1>1 DEF PagesInv, ScreenInv, ViewInv, LoadingIsBacked, pageVars, storeVars
<1> QED BY <1>3, <1>4, <1>5 DEF PagesInv

LEMMA FeedStep ==
    ASSUME PagesInv, NEW f \in Feeds, FeedOpens(f) \/ FeedCloses(f)
    PROVE  PagesInv'
<1>1. UNCHANGED <<storeVars, serverVars, pageVars>>
      BY DEF FeedOpens, FeedCloses
<1>2. ServerInv'
  <2>1. Len(published) \in Nat
        BY DEF PagesInv, ServerInv
  <2>2. feeds' = [feeds EXCEPT ![f] = Len(published)] \/ feeds' = [feeds EXCEPT ![f] = Off]
        BY DEF FeedOpens, FeedCloses, JoinAt
  <2>3. feeds' \in [Feeds -> 0..Len(published) \union {Off}]
        BY <2>1, <2>2 DEF PagesInv, ServerInv
  <2> QED BY <1>1, <2>3 DEF PagesInv, ServerInv, serverVars
<1>3. StoreInv'
      BY <1>1, StoreUntouched DEF PagesInv, serverVars
<1>4. LoadsInv' /\ ScreenInv' /\ ViewInv' /\ LoadingIsBacked'
      BY <1>1 DEF PagesInv, LoadsInv, ScreenInv, ViewInv, LoadingIsBacked, pageVars, storeVars, serverVars
<1> QED BY <1>2, <1>3, <1>4 DEF PagesInv

\* What Networks shows follows what is written for the network it listens to.
LEMMA NotifiedView ==
    ASSUME PagesInv, NEW n \in Networks, Notify(n), UNCHANGED <<page, subscribed>>,
           nodeStatuses' \in [Networks -> [Peers -> Statuses]],
           \A m \in Networks \ {n} : nodeStatuses'[m] = nodeStatuses[m]
    PROVE  ViewInv' /\ view' \in [Peers -> Statuses]
BY DEF PagesInv, ViewInv, ScreenInv, Notify, Listening

LEMMA MessageStep ==
    ASSUME PagesInv, NEW f \in Feeds, OnMessage(f)
    PROVE  PagesInv'
<1> DEFINE status == published[feeds[f] + 1]
           old == nodeStatuses[status.net]
           map == [old EXCEPT ![status.peer] = status]
<1>1. /\ feeds[f] # Off /\ feeds[f] < Len(published) /\ feeds' = [feeds EXCEPT ![f] = @ + 1]
      /\ UNCHANGED <<serverVars, page, selected, subscribed, loads, loading, failures>>
      BY DEF OnMessage
<1>2. feeds[f] + 1 \in 1..Len(published) /\ Len(published) \in Nat
      BY <1>1 DEF PagesInv, ServerInv
<1>3. status \in Status /\ status \in Broadcast
      BY <1>2 DEF PagesInv, ServerInv, Broadcast
<1>4. status.net \in Networks /\ status.peer \in Peers
      BY <1>3 DEF Status
<1>5. ServerInv'
  <2>1. feeds' \in [Feeds -> 0..Len(published) \union {Off}]
        BY <1>1, <1>2 DEF PagesInv, ServerInv
  <2> QED BY <1>1, <2>1 DEF PagesInv, ServerInv, serverVars
<1>6. LoadsInv' /\ LoadingIsBacked'
      BY <1>1 DEF PagesInv, LoadsInv, LoadingIsBacked, serverVars
<1>7. CASE ~Newer(status, old[status.peer])
  <2>1. UNCHANGED storeVars /\ view' = view
        BY <1>7 DEF OnMessage, UpdateNodeStatus
  <2>2. StoreInv'
        BY <1>1, <2>1, StoreUntouched DEF PagesInv, serverVars
  <2>3. ScreenInv' /\ ViewInv'
        BY <1>1, <2>1 DEF PagesInv, ScreenInv, ViewInv, storeVars
  <2> QED BY <1>5, <1>6, <2>2, <2>3 DEF PagesInv
<1>8. CASE Newer(status, old[status.peer])
  <2>1. Recalculate(status.net, map) /\ Notify(status.net)
        BY <1>8 DEF OnMessage, UpdateNodeStatus
  <2>2. old \in [Peers -> Statuses] /\ Kept(status.net, old)
        BY <1>4, KeptIs DEF PagesInv, StoreInv
  <2> HIDE DEF status, old
  <2>3. map \in [Peers -> Statuses] /\ Kept(status.net, map)
        BY <1>3, <1>4, <2>2 DEF Statuses, Kept
  <2> HIDE DEF map
  <2>4. StoreInv'
        BY <1>1, <1>4, <2>1, <2>3, StoreWritten DEF PagesInv, serverVars
  <2>5. ViewInv' /\ view' \in [Peers -> Statuses]
    <3>1. /\ nodeStatuses' \in [Networks -> [Peers -> Statuses]]
          /\ \A m \in Networks \ {status.net} : nodeStatuses'[m] = nodeStatuses[m]
          BY <1>4, <2>1, <2>3, Recalculated DEF PagesInv, StoreInv
    <3> QED BY <1>1, <1>4, <2>1, <3>1, NotifiedView
  <2>6. ScreenInv'
        BY <1>1, <2>5 DEF PagesInv, ScreenInv
  <2> QED BY <1>5, <1>6, <2>4, <2>5, <2>6 DEF PagesInv
<1> QED BY <1>7, <1>8

-----------------------------------------------------------------------------
(* The loads.                                                              *)

LEMMA FreshLoad ==
    /\ \A n \in Networks : \A k :
          NewLoad("networks", {n}) \in Load /\ GoodLoad(NewLoad("networks", {n}), k, "networks")
    /\ \A k : NewLoad("overview", Networks) \in Load
              /\ GoodLoad(NewLoad("overview", Networks), k, "overview")
<1>1. NoAnswer \in [Networks -> 0..MaxPublished \union {Unread}] /\ \A n \in Networks : NoAnswer[n] = Unread
      BY DEF NoAnswer
<1>2. \A n \in Networks : NewLoad("networks", {n}) \in Load
      BY <1>1 DEF NewLoad, Load
<1>3. NewLoad("overview", Networks) \in Load
      BY <1>1 DEF NewLoad, Load
<1> QED BY <1>1, <1>2, <1>3 DEF NewLoad, GoodLoad

LEMMA StartGood ==
    ASSUME NEW others \in [Loads -> Load \union {NoLoad}], NEW k, NEW pg,
           \A l \in Loads : others[l] # NoLoad => GoodLoad(others[l], k, pg),
           NEW owner, NEW nets, NewLoad(owner, nets) \in Load,
           GoodLoad(NewLoad(owner, nets), k, pg), Start(owner, nets, others)
    PROVE  /\ loads' \in [Loads -> Load \union {NoLoad}]
           /\ \A l \in Loads : loads'[l] # NoLoad => GoodLoad(loads'[l], k, pg)
           /\ \E l \in Loads : loads'[l] # NoLoad /\ loads'[l].owner = owner
<1> DEFINE load == NewLoad(owner, nets)
<1>1. load.owner = owner
      BY DEF NewLoad
<1> HIDE DEF load
<1>2. PICK l \in Loads : loads' = [others EXCEPT ![l] = load]
      BY DEF Start, load
<1>3. loads' \in [Loads -> Load \union {NoLoad}]
      BY <1>2 DEF load
<1>4. \A m \in Loads : loads'[m] # NoLoad => GoodLoad(loads'[m], k, pg)
      BY <1>2 DEF load
<1>5. loads'[l] # NoLoad /\ loads'[l].owner = owner
      BY <1>1, <1>2, AbsenceAssumption DEF load
<1> QED BY <1>3, <1>4, <1>5

\* The loads that outlive their page are of Networks, and go on for one network.
LEMMA AfterLeavingGood ==
    ASSUME LoadsInv
    PROVE  /\ AfterLeaving \in [Loads -> Load \union {NoLoad}]
           /\ \A pg : \A l \in Loads :
                 AfterLeaving[l] # NoLoad => GoodLoad(AfterLeaving[l], stored, pg)
<1> SUFFICES ASSUME NEW l \in Loads, NEW pg
             PROVE  /\ AfterLeaving[l] \in Load \union {NoLoad}
                    /\ AfterLeaving[l] # NoLoad => GoodLoad(AfterLeaving[l], stored, pg)
    BY DEF AfterLeaving
<1> DEFINE load == loads[l]
           gone == [load EXCEPT !.owner = "gone"]
<1>1. CASE load = NoLoad \/ load.owner = "overview"
      BY <1>1 DEF AfterLeaving
<1>2. CASE ~(load = NoLoad \/ load.owner = "overview")
  <2>1. load \in Load /\ GoodLoad(load, stored, page) /\ load.owner # "overview"
        BY <1>2 DEF LoadsInv
  <2>2. AfterLeaving[l] = gone
        BY <1>2 DEF AfterLeaving
  <2>3. gone \in Load /\ gone.owner = "gone" /\ gone.nets = load.nets
        /\ gone.read = load.read /\ gone.phase = load.phase
        BY <2>1 DEF Load
  <2> HIDE DEF gone, load
  <2>4. GoodLoad(gone, stored, pg)
        BY <2>1, <2>3 DEF GoodLoad
  <2> QED BY <2>2, <2>3, <2>4
<1> QED BY <1>1, <1>2

\* A load that ends takes nothing with it but, unless its page has been left, the flag.
LEMMA LoadEnds ==
    ASSUME PagesInv, NEW l \in Loads, loads' = [loads EXCEPT ![l] = NoLoad],
           NEW failed, Finally(l, failed), UNCHANGED <<stored, page>>
    PROVE  LoadsInv' /\ LoadingIsBacked' /\ loading' \in BOOLEAN
<1>1. \A m \in Loads : loads'[m] = IF m = l THEN NoLoad ELSE loads[m]
      BY DEF PagesInv, LoadsInv
<1>2. LoadsInv'
      BY <1>1 DEF PagesInv, LoadsInv
<1>3. loading' = IF loads[l].owner = "gone" THEN loading ELSE FALSE
      BY DEF Finally
<1>4. CASE loads[l].owner = "gone" /\ loading
  <2>1. PICK m \in Loads : loads[m] # NoLoad /\ loads[m].owner = page
        BY <1>4 DEF PagesInv, LoadingIsBacked
  <2>2. m # l
        BY <1>4, <2>1 DEF PagesInv, ScreenInv
  <2>3. LoadingIsBacked'
        BY <1>1, <2>1, <2>2 DEF LoadingIsBacked
  <2> QED BY <1>2, <1>3, <1>4, <2>3
<1>5. CASE ~(loads[l].owner = "gone" /\ loading)
  <2>1. loading' = FALSE
        BY <1>3, <1>5 DEF PagesInv, ScreenInv
  <2> QED BY <1>2, <2>1 DEF LoadingIsBacked
<1> QED BY <1>4, <1>5

LEMMA TickStep == ASSUME PagesInv, NetworksTick \/ OverviewTick PROVE PagesInv'
<1>1. UNCHANGED <<storeVars, serverVars, feeds, page, selected, subscribed, view, failures>>
      BY DEF NetworksTick, OverviewTick
<1>2. /\ loads' \in [Loads -> Load \union {NoLoad}]
      /\ \A l \in Loads : loads'[l] # NoLoad => GoodLoad(loads'[l], stored, page)
      /\ \E l \in Loads : loads'[l] # NoLoad /\ loads'[l].owner = page
  <2>1. CASE NetworksTick
    <3>1. page = "networks" /\ subscribed \in Networks /\ Start("networks", {subscribed}, loads)
          BY <2>1 DEF NetworksTick, PagesInv, ScreenInv
    <3> QED BY <3>1, FreshLoad, StartGood DEF PagesInv, LoadsInv
  <2>2. CASE OverviewTick
    <3>1. page = "overview" /\ Start("overview", Networks, loads)
          BY <2>2 DEF OverviewTick
    <3> QED BY <3>1, FreshLoad, StartGood DEF PagesInv, LoadsInv
  <2> QED BY <2>1, <2>2
<1>3. loading' \in BOOLEAN
      BY DEF NetworksTick, OverviewTick, PagesInv, ScreenInv
<1>4. LoadsInv' /\ LoadingIsBacked'
      BY <1>1, <1>2 DEF LoadsInv, LoadingIsBacked, serverVars
<1>5. ScreenInv' /\ ViewInv'
      BY <1>1, <1>3 DEF PagesInv, ScreenInv, ViewInv, storeVars
<1>6. ServerInv' /\ StoreInv'
      BY <1>1, ServerUntouched, StoreUntouched DEF PagesInv, serverVars
<1> QED BY <1>4, <1>5, <1>6 DEF PagesInv

LEMMA ReadStep ==
    ASSUME PagesInv, NEW l \in Loads, NEW n \in Networks, Read(l, n)
    PROVE  PagesInv'
<1> DEFINE load == loads[l]
           answered == [load EXCEPT !.read[n] = stored]
<1>1. /\ load # NoLoad /\ loads' = [loads EXCEPT ![l] = answered]
      /\ UNCHANGED <<storeVars, serverVars, feeds, page, selected, subscribed, view, loading, failures>>
      BY DEF Read
<1>2. load \in Load /\ GoodLoad(load, stored, page)
      BY <1>1 DEF PagesInv, LoadsInv
<1>3. stored \in 0..MaxPublished /\ stored <= stored
      BY Parameters DEF PagesInv, ServerInv
<1>4. answered \in Load
      BY <1>2, <1>3 DEF Load
<1>5. /\ answered.owner = load.owner /\ answered.nets = load.nets /\ answered.phase = load.phase
      /\ \A m \in Networks : answered.read[m] = IF m = n THEN stored ELSE load.read[m]
      BY <1>2 DEF Load
<1> HIDE DEF answered
<1>6. GoodLoad(answered, stored, page)
      BY <1>2, <1>3, <1>5 DEF GoodLoad
<1>7. \A m \in Loads : loads'[m] = IF m = l THEN answered ELSE loads[m]
      BY <1>1 DEF PagesInv, LoadsInv
<1>8. LoadsInv'
      BY <1>1, <1>4, <1>6, <1>7 DEF PagesInv, LoadsInv, serverVars
<1>9. LoadingIsBacked'
      BY <1>1, <1>4, <1>5, <1>7, AbsenceAssumption DEF PagesInv, LoadingIsBacked
<1>10. ServerInv' /\ StoreInv'
      BY <1>1, ServerUntouched, StoreUntouched DEF PagesInv, serverVars
<1>11. ScreenInv' /\ ViewInv'
      BY <1>1 DEF PagesInv, ScreenInv, ViewInv, storeVars
<1> QED BY <1>8, <1>9, <1>10, <1>11 DEF PagesInv

\* A load of Networks stores what it was told of the one network it is for.
LEMMA NetworksAnswer ==
    ASSUME PagesInv, NEW l \in Loads, NetworksLoaded(l)
    PROVE  \E n \in Networks, k \in 0..stored :
             /\ loads[l].nets = {n}
             /\ Recalculate(n, LatestByPeer(NewestRows(n, k)))
             /\ Notify(n)
<1> DEFINE load == loads[l]
<1>1. load \in Load /\ GoodLoad(load, stored, page) /\ load.owner # "overview"
      BY DEF NetworksLoaded, Answered, PagesInv, LoadsInv
<1>2. PICK n \in Networks : load.nets = {n}
      BY <1>1 DEF GoodLoad
<1>3. LoadTarget(l) = n
      BY <1>2 DEF LoadTarget
<1>4. /\ SetNodeStatuses(n, NewestRows(n, load.read[n])) /\ Notify(n)
      /\ load.read[n] # Unread
      BY <1>2, <1>3 DEF NetworksLoaded, Answered
<1>5. load.read[n] \in 0..stored
  <2>1. load.read[n] \in 0..MaxPublished /\ load.read[n] <= stored /\ stored \in Nat
        BY <1>1, <1>4, Parameters DEF Load, GoodLoad, PagesInv, ServerInv
  <2> QED BY <2>1, Parameters
<1> QED BY <1>2, <1>4, <1>5 DEF SetNodeStatuses

LEMMA NetworksLoadedStep ==
    ASSUME PagesInv, NEW l \in Loads, NetworksLoaded(l)
    PROVE  PagesInv'
<1>1. PICK n \in Networks, k \in 0..stored :
        Recalculate(n, LatestByPeer(NewestRows(n, k))) /\ Notify(n)
      BY NetworksAnswer
<1> DEFINE map == LatestByPeer(NewestRows(n, k))
<1>2. map \in [Peers -> Statuses] /\ Kept(n, map) /\ Recalculate(n, map)
      BY <1>1, AnswerKept DEF PagesInv
<1> HIDE DEF map
<1>3. /\ loads' = [loads EXCEPT ![l] = NoLoad] /\ Finally(l, FALSE)
      /\ UNCHANGED <<serverVars, feeds, page, selected, subscribed, failures>>
      BY DEF NetworksLoaded
<1>4. StoreInv'
      BY <1>2, <1>3, StoreWritten DEF PagesInv, serverVars
<1>5. ViewInv' /\ view' \in [Peers -> Statuses]
  <2>1. /\ nodeStatuses' \in [Networks -> [Peers -> Statuses]]
        /\ \A m \in Networks \ {n} : nodeStatuses'[m] = nodeStatuses[m]
        BY <1>2, Recalculated DEF PagesInv, StoreInv
  <2> QED BY <1>1, <1>3, <2>1, NotifiedView
<1>6. LoadsInv' /\ LoadingIsBacked' /\ loading' \in BOOLEAN
      BY <1>3, LoadEnds DEF serverVars
<1>7. ServerInv' /\ ScreenInv'
      BY <1>3, <1>5, <1>6, ServerUntouched DEF PagesInv, ScreenInv
<1> QED BY <1>4, <1>5, <1>6, <1>7 DEF PagesInv

LEMMA OverviewLoadedStep ==
    ASSUME PagesInv, NEW l \in Loads, OverviewLoaded(l)
    PROVE  PagesInv'
<1> DEFINE load == loads[l]
           next == [load EXCEPT !.phase = "stats", !.read = NoAnswer]
           map == [n \in Networks |-> LatestByPeer(NewestRows(n, load.read[n]))]
<1>1. /\ load # NoLoad /\ load.owner = "overview"
      /\ \A n \in load.nets : load.read[n] # Unread
      /\ nodeStatuses' = map
      /\ scores' = [n \in Networks |-> [p \in Peers |-> Rank(map[n], p)]]
      /\ UNCHANGED <<serverVars, feeds, page, selected, subscribed, view, loading, failures>>
      BY DEF OverviewLoaded, Answered
<1>2. loads' = [loads EXCEPT ![l] = next]
      BY DEF OverviewLoaded
<1>3. load \in Load /\ GoodLoad(load, stored, page) /\ load.nets = Networks /\ page = "overview"
      BY <1>1 DEF PagesInv, LoadsInv, GoodLoad
<1>4. \A n \in Networks : load.read[n] \in 0..stored
  <2> TAKE n \in Networks
  <2>1. load.read[n] \in 0..MaxPublished /\ load.read[n] <= stored /\ stored \in Nat
        BY <1>1, <1>3, Parameters DEF Load, GoodLoad, PagesInv, ServerInv
  <2> QED BY <2>1, Parameters
<1>5. \A n \in Networks : map[n] \in [Peers -> Statuses] /\ Kept(n, map[n])
      BY <1>4, AnswerKept DEF PagesInv
<1>6. map \in [Networks -> [Peers -> Statuses]]
      BY <1>5
<1>7. /\ next \in Load /\ next.owner = "overview" /\ next.nets = Networks
      /\ \A n \in Networks : next.read[n] = Unread
      BY <1>1, <1>3 DEF Load, NoAnswer
<1> HIDE DEF next, map
<1>8. StoreInv'
  <2>1. \A n \in Networks : [p \in Peers |-> Rank(map[n], p)] \in [Peers -> 0..Cardinality(Peers)]
        BY <1>5, RankBounded
  <2>2. KeptWhereItBelongs'
        BY <1>1, <1>5 DEF KeptWhereItBelongs, Kept, Broadcast, serverVars
  <2> QED BY <1>1, <1>6, <2>1, <2>2 DEF StoreInv
<1>9. LoadsInv'
  <2>1. GoodLoad(next, stored, page)
        BY <1>3, <1>7 DEF GoodLoad
  <2>2. \A m \in Loads : loads'[m] = IF m = l THEN next ELSE loads[m]
        BY <1>2 DEF PagesInv, LoadsInv
  <2> QED BY <1>1, <1>2, <1>7, <2>1, <2>2 DEF PagesInv, LoadsInv, serverVars
<1>10. LoadingIsBacked'
  <2>1. loads'[l] = next /\ next # NoLoad
        BY <1>2, <1>7, AbsenceAssumption DEF PagesInv, LoadsInv
  <2> QED BY <1>1, <1>3, <1>7, <2>1 DEF LoadingIsBacked
<1>11. ServerInv' /\ ScreenInv' /\ ViewInv'
      BY <1>1, <1>3, ServerUntouched DEF PagesInv, ScreenInv, ViewInv
<1> QED BY <1>8, <1>9, <1>10, <1>11 DEF PagesInv

\* A load that ends without an answer to store.
LEMMA EmptyEndStep ==
    ASSUME PagesInv, NEW l \in Loads, OverviewDone(l) \/ LoadFails(l)
    PROVE  PagesInv'
<1>1. /\ loads' = [loads EXCEPT ![l] = NoLoad] /\ (Finally(l, FALSE) \/ Finally(l, TRUE))
      /\ UNCHANGED <<storeVars, serverVars, feeds, page, selected, subscribed, view>>
      BY DEF OverviewDone, LoadFails
<1>2. failures' \in 0..MaxFailures
  <2>1. failures \in 0..MaxFailures
        BY DEF PagesInv, ScreenInv
  <2>2. failures' = failures \/ (failures < MaxFailures /\ failures' = failures + 1)
        BY DEF OverviewDone, LoadFails
  <2> QED BY <2>1, <2>2, Parameters
<1>3. LoadsInv' /\ LoadingIsBacked' /\ loading' \in BOOLEAN
      BY <1>1, LoadEnds DEF serverVars
<1>4. ServerInv' /\ StoreInv'
      BY <1>1, ServerUntouched, StoreUntouched DEF PagesInv, serverVars
<1>5. ScreenInv' /\ ViewInv'
      BY <1>1, <1>2, <1>3 DEF PagesInv, ScreenInv, ViewInv, storeVars
<1> QED BY <1>3, <1>4, <1>5 DEF PagesInv

-----------------------------------------------------------------------------
(* The visitor.                                                            *)

LEMMA OpenStep ==
    ASSUME PagesInv, OpenOverview \/ OpenOther \/ \E n \in Networks : OpenNetworks(n)
    PROVE  PagesInv'
<1>1. UNCHANGED <<storeVars, serverVars, feeds, failures>>
      BY DEF OpenOverview, OpenOther, OpenNetworks
<1>2. /\ AfterLeaving \in [Loads -> Load \union {NoLoad}]
      /\ \A pg : \A l \in Loads : AfterLeaving[l] # NoLoad => GoodLoad(AfterLeaving[l], stored, pg)
      BY AfterLeavingGood DEF PagesInv
<1>3. EmptyView \in [Peers -> Statuses] /\ \A n \in Networks : nodeStatuses[n] \in [Peers -> Statuses]
      BY DEF EmptyView, Statuses, PagesInv, StoreInv
<1>4. ServerInv' /\ StoreInv'
      BY <1>1, ServerUntouched, StoreUntouched DEF PagesInv, serverVars
<1>5. CASE OpenOverview
  <2>1. /\ page' = "overview" /\ loading' = TRUE /\ subscribed' = selected /\ view' = EmptyView
        /\ UNCHANGED selected /\ Start("overview", Networks, AfterLeaving)
        BY <1>5 DEF OpenOverview
  <2>2. /\ loads' \in [Loads -> Load \union {NoLoad}]
        /\ \A l \in Loads : loads'[l] # NoLoad => GoodLoad(loads'[l], stored, "overview")
        /\ \E l \in Loads : loads'[l] # NoLoad /\ loads'[l].owner = "overview"
        BY <1>2, <2>1, FreshLoad, StartGood
  <2>3. LoadsInv' /\ LoadingIsBacked'
        BY <1>1, <2>1, <2>2 DEF LoadsInv, LoadingIsBacked, serverVars
  <2>4. ScreenInv' /\ ViewInv'
        BY <1>1, <1>3, <2>1 DEF PagesInv, ScreenInv, ViewInv
  <2> QED BY <1>4, <2>3, <2>4 DEF PagesInv
<1>6. CASE OpenOther
  <2>1. /\ page' = "other" /\ loading' = FALSE /\ subscribed' = selected /\ view' = EmptyView
        /\ UNCHANGED selected /\ loads' = AfterLeaving
        BY <1>6 DEF OpenOther
  <2>2. LoadsInv' /\ LoadingIsBacked'
        BY <1>1, <1>2, <2>1 DEF LoadsInv, LoadingIsBacked, serverVars
  <2>3. ScreenInv' /\ ViewInv'
        BY <1>1, <1>3, <2>1 DEF PagesInv, ScreenInv, ViewInv
  <2> QED BY <1>4, <2>2, <2>3 DEF PagesInv
<1>7. ASSUME NEW n \in Networks, OpenNetworks(n)
      PROVE  PagesInv'
  <2>1. /\ page' = "networks" /\ loading' = TRUE /\ subscribed' = n /\ selected' = n
        /\ view' = nodeStatuses[n] /\ Start("networks", {n}, AfterLeaving)
        BY <1>7 DEF OpenNetworks
  <2>2. /\ loads' \in [Loads -> Load \union {NoLoad}]
        /\ \A l \in Loads : loads'[l] # NoLoad => GoodLoad(loads'[l], stored, "networks")
        /\ \E l \in Loads : loads'[l] # NoLoad /\ loads'[l].owner = "networks"
        BY <1>2, <2>1, FreshLoad, StartGood
  <2>3. LoadsInv' /\ LoadingIsBacked'
        BY <1>1, <2>1, <2>2 DEF LoadsInv, LoadingIsBacked, serverVars
  <2>4. ScreenInv' /\ ViewInv'
        BY <1>1, <1>3, <2>1 DEF PagesInv, ScreenInv, ViewInv, storeVars
  <2> QED BY <1>4, <2>3, <2>4 DEF PagesInv
<1> QED BY <1>5, <1>6, <1>7

LEMMA SelectStep ==
    ASSUME PagesInv, NetworkEffects \/ \E n \in Networks : SelectNetwork(n)
    PROVE  PagesInv'
<1>1. UNCHANGED <<storeVars, serverVars, feeds, page, failures>> /\ page = "networks"
      BY DEF NetworkEffects, SelectNetwork
<1>2. ServerInv' /\ StoreInv'
      BY <1>1, ServerUntouched, StoreUntouched DEF PagesInv, serverVars
<1>3. CASE NetworkEffects
  <2>1. /\ loading' = TRUE /\ subscribed' = selected /\ selected' = selected
        /\ view' = nodeStatuses[selected] /\ Start("networks", {selected}, loads)
        /\ selected \in Networks
        BY <1>3 DEF NetworkEffects, PagesInv, ScreenInv
  <2>2. /\ loads' \in [Loads -> Load \union {NoLoad}]
        /\ \A l \in Loads : loads'[l] # NoLoad => GoodLoad(loads'[l], stored, page)
        /\ \E l \in Loads : loads'[l] # NoLoad /\ loads'[l].owner = "networks"
        BY <1>1, <2>1, FreshLoad, StartGood DEF PagesInv, LoadsInv
  <2>3. LoadsInv' /\ LoadingIsBacked'
        BY <1>1, <2>1, <2>2 DEF LoadsInv, LoadingIsBacked, serverVars
  <2>4. ScreenInv' /\ ViewInv'
        BY <1>1, <2>1 DEF PagesInv, ScreenInv, ViewInv, storeVars, StoreInv
  <2> QED BY <1>2, <2>3, <2>4 DEF PagesInv
<1>4. ASSUME NEW n \in Networks, SelectNetwork(n)
      PROVE  PagesInv'
      BY <1>1, <1>2, <1>4 DEF SelectNetwork, PagesInv, LoadsInv, LoadingIsBacked, ScreenInv, ViewInv,
                              storeVars, serverVars
<1> QED BY <1>3, <1>4

-----------------------------------------------------------------------------
(* The theorems.                                                           *)

LEMMA PagesStep == ASSUME PagesInv, [Next]_vars PROVE PagesInv'
<1>1. CASE UNCHANGED vars
      BY <1>1 DEF vars, storeVars, serverVars, pageVars, PagesInv, ServerInv, StoreInv, LoadsInv,
                  ScreenInv, ViewInv, LoadingIsBacked, KeptWhereItBelongs
<1>2. CASE \E f \in Feeds : FeedOpens(f) \/ FeedCloses(f) \/ OnMessage(f)
      BY <1>2, FeedStep, MessageStep
<1>3. CASE \E l \in Loads : \/ \E n \in Networks : Read(l, n)
                            \/ NetworksLoaded(l) \/ OverviewLoaded(l) \/ OverviewDone(l)
                            \/ LoadFails(l)
      BY <1>3, ReadStep, NetworksLoadedStep, OverviewLoadedStep, EmptyEndStep
<1>4. CASE OpenOverview \/ OpenOther \/ \E n \in Networks : OpenNetworks(n) \/ SelectNetwork(n)
      BY <1>4, OpenStep, SelectStep
<1> QED BY <1>1, <1>2, <1>3, <1>4, PublishStep, FlushStep, TickStep, SelectStep DEF Next

LEMMA PagesInvariant == Spec => []PagesInv
<1>1. Init => PagesInv
      BY InitPages
<1>2. PagesInv /\ [Next]_vars => PagesInv'
      BY PagesStep
<1> QED BY <1>1, <1>2, PTL DEF Spec

\* Type correctness; every score is a number no higher than there are peers.
THEOREM PagesTypeOK == Spec => []TypeOK
<1>1. PagesInv => TypeOK
      BY DEF PagesInv, TypeOK, ServerInv, StoreInv, LoadsInv, ScreenInv, Statuses
<1> QED BY <1>1, PagesInvariant, PTL

\* Whatever order messages, late answers and network changes come in, a status is kept only
\* under the peer and the network it was published for.
THEOREM PagesKeepsWhereItBelongs == Spec => []KeptWhereItBelongs
<1>1. PagesInv => KeptWhereItBelongs
      BY DEF PagesInv, StoreInv
<1> QED BY <1>1, PagesInvariant, PTL

\* Networks shows the store's statuses of the selected network once its effects have run,
\* and it, or the overview, says Loading only while a load of its own is under way.
THEOREM PagesScreenIsBacked == Spec => []ScreenIsBacked
<1>1. PagesInv => ScreenIsBacked
      BY DEF PagesInv, ViewInv, ScreenIsBacked, ViewIsStore
<1> QED BY <1>1, PagesInvariant, PTL

\* What a step may do to the status of a peer.
LEMMA NoRegress ==
    ASSUME PagesInv, [Next]_vars, NEW n \in Networks, NEW p \in Peers,
           nodeStatuses[n][p] # Absent
    PROVE  \/ nodeStatuses'[n][p] # Absent /\ nodeStatuses'[n][p].at >= nodeStatuses[n][p].at
           \/ AnswerStored(n)
<1> DEFINE s == nodeStatuses[n][p]
<1>1. s \in Status /\ s.at \in Nat
      BY Parameters DEF PagesInv, StoreInv, Statuses, Status
<1>2. CASE nodeStatuses'[n] = nodeStatuses[n]
      BY <1>1, <1>2
<1>3. ASSUME NEW f \in Feeds, OnMessage(f)
      PROVE  nodeStatuses'[n][p] # Absent /\ nodeStatuses'[n][p].at >= s.at
  <2> DEFINE status == published[feeds[f] + 1]
             map == [nodeStatuses[status.net] EXCEPT ![status.peer] = status]
  <2>1. feeds[f] + 1 \in 1..Len(published)
        BY <1>3 DEF OnMessage, PagesInv, ServerInv
  <2>2. /\ status \in Status /\ status.at \in Nat
        /\ status.net \in Networks /\ status.peer \in Peers
    <3>1. status \in Status
          BY <2>1 DEF PagesInv, ServerInv
    <3> HIDE DEF status
    <3> QED BY <3>1, Parameters DEF Status
  <2>3. CASE n = status.net /\ p = status.peer /\ Newer(status, s)
    <3>1. nodeStatuses'[n][p] = status
          BY <1>3, <2>2, <2>3
             DEF OnMessage, UpdateNodeStatus, Recalculate, PagesInv, StoreInv
    <3>2. status.at > s.at
          BY <2>3 DEF Newer
    <3> HIDE DEF status
    <3> QED BY <1>1, <2>2, <3>1, <3>2, AbsenceAssumption
  <2>4. CASE ~(n = status.net /\ p = status.peer /\ Newer(status, s))
    <3>1. nodeStatuses'[n][p] = s
          BY <1>3, <2>2, <2>4
             DEF OnMessage, UpdateNodeStatus, Recalculate, storeVars, PagesInv, StoreInv
    <3> QED BY <1>1, <3>1
  <2> QED BY <2>3, <2>4
<1>4. ASSUME NEW l \in Loads, NetworksLoaded(l)
      PROVE  nodeStatuses'[n] = nodeStatuses[n] \/ AnswerStored(n)
  <2>1. PICK m \in Networks, k \in 0..stored :
          loads[l].nets = {m} /\ Recalculate(m, LatestByPeer(NewestRows(m, k)))
        BY <1>4, NetworksAnswer
  <2>2. CASE m = n
    <3>1. Answered(l) /\ loads'[l] # loads[l]
          BY <1>4 DEF NetworksLoaded, Answered, PagesInv, LoadsInv
    <3> QED BY <2>1, <2>2, <3>1 DEF AnswerStored
  <2>3. CASE m # n
        BY <2>1, <2>3 DEF Recalculate, PagesInv, StoreInv
  <2> QED BY <2>2, <2>3
<1>5. ASSUME NEW l \in Loads, OverviewLoaded(l)
      PROVE  AnswerStored(n)
  <2>1. Answered(l) /\ loads[l].nets = Networks /\ loads[l] \in Load
        BY <1>5 DEF OverviewLoaded, Answered, PagesInv, LoadsInv, GoodLoad
  <2>2. loads'[l].phase = "stats"
        BY <1>5, <2>1 DEF OverviewLoaded, PagesInv, LoadsInv, Load
  <2>3. loads[l].phase = "rows"
        BY <2>1 DEF Answered
  <2> QED BY <2>1, <2>2, <2>3 DEF AnswerStored
<1>6. \/ UNCHANGED nodeStatuses
      \/ \E f \in Feeds : OnMessage(f)
      \/ \E l \in Loads : NetworksLoaded(l) \/ OverviewLoaded(l)
      BY DEF Next, vars, storeVars, Publish, Flush, FeedOpens, FeedCloses, NetworksTick, OverviewTick,
             Read, OverviewDone, LoadFails, OpenOverview, OpenOther, OpenNetworks, SelectNetwork,
             NetworkEffects
<1> QED BY <1>2, <1>3, <1>4, <1>5, <1>6

\* A peer's status is replaced by an older one, or dropped, only when the answer of a load
\* for its network is stored; a message never does.
THEOREM PagesRegressOnlyByLoad == Spec => RegressOnlyByLoad
<1>1. PagesInv /\ [Next]_vars =>
        [\A n \in Networks, p \in Peers :
           nodeStatuses[n][p] # Absent =>
             \/ nodeStatuses'[n][p] # Absent /\ nodeStatuses'[n][p].at >= nodeStatuses[n][p].at
             \/ AnswerStored(n)]_vars
      BY NoRegress
<1> QED BY <1>1, PagesInvariant, PTL DEF Spec, RegressOnlyByLoad

-----------------------------------------------------------------------------
(* The scores.                                                             *)

\* Every score was computed from the statuses the store has now.
ScoresInv == \A n \in Networks : scores[n] = [p \in Peers |-> Rank(nodeStatuses[n], p)]

\* The order of the scores, by which the pages choose the best peer, is the order of the
\* chain works; a peer without one has no score.
ScoresOrderWorks ==
    \A n \in Networks, p, q \in Peers :
        LET s == nodeStatuses[n][p]
            t == nodeStatuses[n][q]
        IN  /\ scores[n][p] = 0 <=> s = Absent \/ s.work = 0
            /\ s # Absent /\ t # Absent => (scores[n][p] < scores[n][q] <=> s.work < t.work)

\* The rank of a chain work is its place among the distinct ones.
LEMMA RankOrders ==
    ASSUME NEW map \in [Peers -> Statuses], NEW p \in Peers, NEW q \in Peers
    PROVE  /\ Rank(map, p) = 0 <=> map[p] = Absent \/ map[p].work = 0
           /\ map[p] # Absent /\ map[q] # Absent =>
                (Rank(map, p) < Rank(map, q) <=> map[p].work < map[q].work)
<1> DEFINE Below(r) == {w \in Works(map) : w <= map[r].work}
           Has(r) == map[r] # Absent /\ map[r].work # 0
<1>1. \A r \in Peers : map[r] # Absent => map[r].work \in Nat
      BY Parameters DEF Statuses, Status
<1>2. Works(map) \subseteq Nat \ {0}
      BY <1>1 DEF Works
<1>3. IsFiniteSet(Works(map))
  <2> DEFINE reporting == {r \in Peers : map[r] # Absent}
             work == [r \in reporting |-> map[r].work]
             works == {map[r].work : r \in reporting}
  <2>1. IsFiniteSet(reporting)
        BY Parameters, FS_Subset
  <2>2. work \in Surjection(reporting, works)
        BY DEF Surjection
  <2>3. IsFiniteSet(works)
    <3> HIDE DEF work, works, reporting
    <3> QED BY <2>1, <2>2, FS_Surjection
  <2>4. Works(map) \subseteq works
        BY DEF Works
  <2> HIDE DEF works
  <2> QED BY <2>3, <2>4, FS_Subset
<1>4. ASSUME NEW r \in Peers, Has(r)
      PROVE  /\ Rank(map, r) = Cardinality(Below(r)) /\ Rank(map, r) \in Nat \ {0}
             /\ IsFiniteSet(Below(r)) /\ map[r].work \in Below(r)
  <2>1. map[r].work \in Works(map)
        BY <1>4 DEF Works
  <2>2. map[r].work \in Below(r) /\ Below(r) \subseteq Works(map)
        BY <1>1, <1>4, <2>1
  <2>3. Rank(map, r) = Cardinality(Below(r))
        BY <1>4 DEF Rank
  <2> HIDE DEF Below
  <2>4. IsFiniteSet(Below(r))
        BY <1>3, <2>2, FS_Subset
  <2>5. Cardinality(Below(r)) \in Nat /\ Cardinality(Below(r)) # 0
        BY <2>2, <2>4, FS_CardinalityType, FS_EmptySet
  <2> QED BY <2>2, <2>3, <2>4, <2>5
<1>5. \A r \in Peers : ~Has(r) => Rank(map, r) = 0
      BY DEF Rank
<1>6. ASSUME NEW r \in Peers, NEW t \in Peers, Has(r), Has(t), map[r].work <= map[t].work
      PROVE  /\ Rank(map, r) <= Rank(map, t)
             /\ map[r].work < map[t].work => Rank(map, r) < Rank(map, t)
  <2>1. Below(r) \subseteq Below(t)
    <3>1. \A w \in Works(map) : w <= map[r].work => w <= map[t].work
          BY <1>1, <1>2, <1>6
    <3> QED BY <3>1
  <2>2. map[r].work < map[t].work => Below(r) # Below(t)
    <3>1. map[t].work \in Below(t)
          BY <1>4, <1>6
    <3>2. map[r].work < map[t].work => map[t].work \notin Below(r)
          BY <1>1, <1>6
    <3> QED BY <3>1, <3>2
  <2>3. /\ Rank(map, r) = Cardinality(Below(r)) /\ Rank(map, r) \in Nat
        /\ Rank(map, t) = Cardinality(Below(t)) /\ Rank(map, t) \in Nat
        /\ IsFiniteSet(Below(t))
        BY <1>4, <1>6
  <2> HIDE DEF Below
  <2>4. /\ Cardinality(Below(r)) <= Cardinality(Below(t))
        /\ Cardinality(Below(r)) = Cardinality(Below(t)) => Below(r) = Below(t)
        BY <2>1, <2>3, FS_Subset
  <2> QED BY <2>2, <2>3, <2>4
<1>7. Rank(map, p) = 0 <=> ~Has(p)
      BY <1>4, <1>5
<1>8. ASSUME map[p] # Absent, map[q] # Absent
      PROVE  Rank(map, p) < Rank(map, q) <=> map[p].work < map[q].work
  <2>1. map[p].work \in Nat /\ map[q].work \in Nat
        BY <1>1, <1>8
  <2>2. /\ Rank(map, p) \in Nat /\ (Rank(map, p) = 0 <=> map[p].work = 0)
        /\ Rank(map, q) \in Nat /\ (Rank(map, q) = 0 <=> map[q].work = 0)
    <3>1. \A r \in Peers :
             map[r] # Absent => Rank(map, r) \in Nat /\ (Rank(map, r) = 0 <=> map[r].work = 0)
      <4> TAKE r \in Peers
      <4>1. CASE Has(r)
            BY <1>4, <4>1
      <4>2. CASE ~Has(r)
            BY <1>5, <4>2
      <4> QED BY <4>1, <4>2
    <3> QED BY <1>8, <3>1
  <2>3. CASE map[p].work = 0 \/ map[q].work = 0
    <3> HIDE DEF Has, Below
    <3> QED BY <2>1, <2>2, <2>3
  <2>4. CASE ~(map[p].work = 0 \/ map[q].work = 0)
    <3>1. Has(p) /\ Has(q)
          BY <1>8, <2>4
    <3>2. CASE map[p].work < map[q].work
          BY <1>6, <2>1, <3>1, <3>2
    <3>3. CASE map[q].work <= map[p].work
      <4>1. Rank(map, q) <= Rank(map, p)
            BY <1>6, <3>1, <3>3
      <4> QED BY <2>1, <2>2, <3>3, <4>1
    <3> QED BY <2>1, <3>2, <3>3
  <2> QED BY <2>3, <2>4
<1> QED BY <1>7, <1>8

\* Whoever writes the store, and whatever it writes, the scores go with the statuses and
\* order the peers of a network by chain work.
THEOREM PagesScoresOrderWorks == Spec => []ScoresOrderWorks
<1>1. Init => ScoresInv
      BY DEF Init, StoreInit, ScoresInv, Rank
<1>2. PagesInv /\ ScoresInv /\ [Next]_vars => ScoresInv'
  <2> SUFFICES ASSUME PagesInv, ScoresInv, [Next]_vars PROVE ScoresInv'
      OBVIOUS
  <2>1. CASE UNCHANGED storeVars
        BY <2>1 DEF storeVars, ScoresInv
  <2>2. ASSUME NEW n \in Networks, NEW map, Recalculate(n, map)
        PROVE  ScoresInv'
        BY <2>2 DEF Recalculate, ScoresInv, PagesInv, StoreInv
  <2>3. ASSUME NEW f \in Feeds, OnMessage(f)
        PROVE  ScoresInv'
    <3>1. published[feeds[f] + 1].net \in Networks
      <4>1. published[feeds[f] + 1] \in Status
            BY <2>3 DEF OnMessage, PagesInv, ServerInv
      <4> QED BY <4>1 DEF Status
    <3> QED BY <2>1, <2>2, <2>3, <3>1 DEF OnMessage, UpdateNodeStatus
  <2>4. ASSUME NEW l \in Loads, NetworksLoaded(l)
        PROVE  ScoresInv'
        BY <2>2, <2>4, NetworksAnswer
  <2>5. ASSUME NEW l \in Loads, OverviewLoaded(l)
        PROVE  ScoresInv'
        BY <2>5 DEF OverviewLoaded, ScoresInv
  <2>6. \/ UNCHANGED storeVars
        \/ \E f \in Feeds : OnMessage(f)
        \/ \E l \in Loads : NetworksLoaded(l) \/ OverviewLoaded(l)
        BY DEF Next, vars, storeVars, Publish, Flush, FeedOpens, FeedCloses, NetworksTick, OverviewTick,
               Read, OverviewDone, LoadFails, OpenOverview, OpenOther, OpenNetworks, SelectNetwork,
               NetworkEffects
  <2> QED BY <2>1, <2>3, <2>4, <2>5, <2>6
<1>3. PagesInv /\ ScoresInv => ScoresOrderWorks
  <2> SUFFICES ASSUME PagesInv, ScoresInv, NEW n \in Networks, NEW p \in Peers, NEW q \in Peers
               PROVE  LET s == nodeStatuses[n][p]
                          t == nodeStatuses[n][q]
                      IN  /\ scores[n][p] = 0 <=> s = Absent \/ s.work = 0
                          /\ s # Absent /\ t # Absent =>
                               (scores[n][p] < scores[n][q] <=> s.work < t.work)
      BY DEF ScoresOrderWorks
  <2>1. nodeStatuses[n] \in [Peers -> Statuses]
        BY DEF PagesInv, StoreInv
  <2>2. scores[n][p] = Rank(nodeStatuses[n], p) /\ scores[n][q] = Rank(nodeStatuses[n], q)
        BY DEF ScoresInv
  <2> QED BY <2>1, <2>2, RankOrders
<1> QED BY <1>1, <1>2, <1>3, PagesInvariant, PTL DEF Spec

=============================================================================
