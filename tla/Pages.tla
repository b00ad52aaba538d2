-------------------------------- MODULE Pages -------------------------------
(***************************************************************************)
(* The two pages that show node statuses: the overview                     *)
(* (frontend-react/src/components/overview/useOverviewData.ts) and         *)
(* Networks.tsx.  Both write the store from two sides, by loads over HTTP  *)
(* (at once, every 30 seconds) and by messages from the WebSocket, and     *)
(* the visitor goes from page to page and from network to network while    *)
(* loads are under way.                                                    *)
(*                                                                         *)
(* published is the order in which the server broadcasts statuses; the     *)
(* first "stored" of them are in the database (BatchInsert), where the     *)
(* loads read them.  A feed is a WebSocket with the messages on their way  *)
(* to it; how it connects and reconnects, and that it may outlive its      *)
(* page, is module WsClient.                                               *)
(***************************************************************************)
EXTENDS NodeStatusStore, Sequences

CONSTANTS
    Feeds,         \* WebSockets
    Off,           \* a feed that is not connected
    Loads,         \* names for the loads under way
    NoLoad,        \* a name that is not in use
    Unread,        \* a request the server has not answered
    RowLimit,      \* limit of /api/node-statuses (500)
    WorkValues,    \* the chain works that statuses report
    MaxPublished,  \* bound: statuses published
    MaxFailures    \* bound: loads that fail

Status == [peer : Peers, net : Networks, at : 1..MaxPublished, work : WorkValues]

Load == [owner : {"overview", "networks", "gone"}, nets : SUBSET Networks,
         read : [Networks -> 0..MaxPublished \union {Unread}], phase : {"rows", "stats"}]

ASSUME PagesAssumption ==
    /\ WorkValues \subseteq Nat
    /\ RowLimit \in Nat \ {0}
    /\ MaxPublished \in Nat
    /\ MaxFailures \in Nat
    /\ IsFiniteSet(Peers)

\* What stands for no status, no load, no answer and no connection is none.
ASSUME AbsenceAssumption ==
    Absent \notin Status /\ NoLoad \notin Load /\ Unread \notin Nat /\ Off \notin Nat

VARIABLES
    published,   \* statuses in the order the server received and broadcast them
    stored,      \* how many of them the database has
    feeds,       \* feeds[f]: how many of them are behind feed f, or Off
    page,        \* "overview", "networks" or "other"
    selected,    \* selectedNetwork of Networks
    subscribed,  \* the network its listener, load and interval were made for
    view,        \* nodeStatuses, the state of Networks
    loads,       \* loads[l]: a load under way
    loading,     \* isLoading of Networks, loading of the overview
    failures     \* loads that have failed

pageVars == <<page, selected, subscribed, view, loads, loading, failures>>
serverVars == <<published, stored>>
vars == <<nodeStatuses, scores, serverVars, feeds, pageVars>>

EmptyView == [p \in Peers |-> Absent]

Init ==
    /\ StoreInit
    /\ published = <<>> /\ stored = 0
    /\ feeds = [f \in Feeds |-> Off]
    /\ page = "other"
    /\ selected \in Networks
    /\ subscribed = selected
    /\ view = EmptyView
    /\ loads = [l \in Loads |-> NoLoad]
    /\ loading = FALSE
    /\ failures = 0

-----------------------------------------------------------------------------
(* The server.                                                             *)

Publish(n, p, w) ==
    /\ Len(published) < MaxPublished
    /\ published' = Append(published,
           [peer |-> p, net |-> n, at |-> Len(published) + 1, work |-> w])
    /\ UNCHANGED <<storeVars, stored, feeds, pageVars>>

\* The node-status buffer is flushed.
Flush ==
    /\ stored < Len(published)
    /\ stored' = Len(published)
    /\ UNCHANGED <<storeVars, published, feeds, pageVars>>

\* mutant: the oldest rows come first
OldestRows(n, k) ==
    {published[i] : i \in {j \in 1..k : published[j].net = n
        /\ Cardinality({h \in 1..(j - 1) : published[h].net = n}) < RowLimit}}
\* GET /api/node-statuses?network=n when the database has the first k statuses: the
\* newest RowLimit rows of the network.
NewestRows(n, k) ==
    {published[i] : i \in {j \in 1..k : published[j].net = n
        /\ Cardinality({h \in (j + 1)..k : published[h].net = n}) < RowLimit}}

-----------------------------------------------------------------------------
(* Messages.                                                               *)

\* mutant: the listener does not look at the network
ListeningToAll(n) == page = "networks"
\* The listener of Networks compares with the network it was made for.
Listening(n) == page = "networks" /\ n = subscribed

\* notifyListeners after the map of network n was written.
Notify(n) == view' = IF Listening(n) THEN nodeStatuses'[n] ELSE view

\* mutant: a message that was broadcast before is announced again
JoinTooLate == Len(published) + 1
\* A new connection gets what is broadcast from now on.
JoinAt == Len(published)

FeedOpens(f) ==
    /\ feeds[f] = Off
    /\ feeds' = [feeds EXCEPT ![f] = JoinAt]
    /\ UNCHANGED <<storeVars, serverVars, pageVars>>

FeedCloses(f) ==
    /\ feeds[f] # Off
    /\ feeds' = [feeds EXCEPT ![f] = Off]
    /\ UNCHANGED <<storeVars, serverVars, pageVars>>

\* onmessage: both pages pass a node_status to the store under the network of its topic.
OnMessage(f) ==
    /\ feeds[f] # Off
    /\ feeds[f] < Len(published)
    /\ feeds' = [feeds EXCEPT ![f] = @ + 1]
    /\ LET status == published[feeds[f] + 1]
       IN  /\ UpdateNodeStatus(status)
           /\ IF Newer(status, nodeStatuses[status.net][status.peer])
              THEN Notify(status.net) ELSE UNCHANGED view
    /\ UNCHANGED <<serverVars, page, selected, subscribed, loads, loading, failures>>

-----------------------------------------------------------------------------
(* Loads.  A load of Networks asks for the network it was started for, one *)
(* of the overview for every network.  "gone" is a load of Networks whose  *)
(* page has been left: nothing stops it.                                   *)

NoAnswer == [n \in Networks |-> Unread]

NewLoad(owner, nets) ==
    [owner |-> owner, nets |-> nets, read |-> NoAnswer, phase |-> "rows"]

\* load() or loadNodeStatuses() up to its first await.
Start(owner, nets, others) ==
    \E l \in Loads :
        /\ others[l] = NoLoad
        /\ loads' = [others EXCEPT ![l] = NewLoad(owner, nets)]

\* The interval (or, when nothing is loading, the Refresh button) of Networks.
NetworksTick ==
    /\ page = "networks"
    /\ Start("networks", {subscribed}, loads)
    /\ loading' = TRUE
    /\ UNCHANGED <<storeVars, serverVars, feeds, page, selected, subscribed, view, failures>>

\* The interval of the overview.
OverviewTick ==
    /\ page = "overview"
    /\ Start("overview", Networks, loads)
    /\ UNCHANGED <<storeVars, serverVars, feeds, page, selected, subscribed, view,
                   loading, failures>>

\* The server answers the request for network n.
Read(l, n) ==
    /\ loads[l] # NoLoad
    /\ n \in loads[l].nets
    /\ loads[l].read[n] = Unread
    /\ loads' = [loads EXCEPT ![l].read[n] = stored]
    /\ UNCHANGED <<storeVars, serverVars, feeds, page, selected, subscribed, view,
                   loading, failures>>

Answered(l) ==
    /\ loads[l] # NoLoad
    /\ loads[l].phase = "rows"
    /\ \A n \in loads[l].nets : loads[l].read[n] # Unread

\* mutant: the answer is stored under the network that is selected now
TargetNow(l) == selected
LoadTarget(l) == CHOOSE n \in Networks : loads[l].nets = {n}

\* mutant: the flag is cleared only when the load succeeds
FinallyOnSuccess(l, failed) == loading' = IF failed THEN loading ELSE FALSE
\* The finally clause; React ignores it when the page is gone.
Finally(l, failed) == loading' = IF loads[l].owner = "gone" THEN loading ELSE FALSE

NetworksLoaded(l) ==
    /\ Answered(l)
    /\ loads[l].owner \in {"networks", "gone"}
    /\ \E n \in loads[l].nets :
          SetNodeStatuses(LoadTarget(l), NewestRows(n, loads[l].read[n]))
    /\ Notify(LoadTarget(l))
    /\ Finally(l, FALSE)
    /\ loads' = [loads EXCEPT ![l] = NoLoad]
    /\ UNCHANGED <<serverVars, feeds, page, selected, subscribed, failures>>

\* Promise.all has every answer: the store is written for every network before the
\* request for the stats is sent.
OverviewLoaded(l) ==
    /\ Answered(l)
    /\ loads[l].owner = "overview"
    /\ LET map == [n \in Networks |-> LatestByPeer(NewestRows(n, loads[l].read[n]))]
       IN  /\ nodeStatuses' = map
           /\ scores' = [n \in Networks |-> [p \in Peers |-> Rank(map[n], p)]]
    /\ loads' = [loads EXCEPT ![l].phase = "stats", ![l].read = NoAnswer]
    /\ UNCHANGED <<serverVars, feeds, page, selected, subscribed, view, loading, failures>>

\* The stats have come, or could not be had: they are optional.
OverviewDone(l) ==
    /\ loads[l] # NoLoad
    /\ loads[l].phase = "stats"
    /\ Finally(l, FALSE)
    /\ loads' = [loads EXCEPT ![l] = NoLoad]
    /\ UNCHANGED <<storeVars, serverVars, feeds, page, selected, subscribed, view, failures>>

\* One request of the load fails: nothing of it is stored.
LoadFails(l) ==
    /\ loads[l] # NoLoad
    /\ loads[l].phase = "rows"
    /\ failures < MaxFailures
    /\ failures' = failures + 1
    /\ Finally(l, TRUE)
    /\ loads' = [loads EXCEPT ![l] = NoLoad]
    /\ UNCHANGED <<storeVars, serverVars, feeds, page, selected, subscribed, view>>

-----------------------------------------------------------------------------
(* The visitor.                                                            *)

\* The cleanup of the page that is left: the overview's loads are cancelled, those of
\* Networks go on.
AfterLeaving ==
    [l \in Loads |->
        IF loads[l] = NoLoad \/ loads[l].owner = "overview" THEN NoLoad
        ELSE [loads[l] EXCEPT !.owner = "gone"]]

OpenOverview ==
    /\ page # "overview"
    /\ page' = "overview"
    /\ Start("overview", Networks, AfterLeaving)
    /\ loading' = TRUE
    /\ subscribed' = selected /\ view' = EmptyView
    /\ UNCHANGED <<storeVars, serverVars, feeds, selected, failures>>

\* The first effects subscribe, read the store and start a load.
OpenNetworks(n) ==
    /\ page # "networks"
    /\ page' = "networks"
    /\ selected' = n /\ subscribed' = n
    /\ view' = nodeStatuses[n]
    /\ Start("networks", {n}, AfterLeaving)
    /\ loading' = TRUE
    /\ UNCHANGED <<storeVars, serverVars, feeds, failures>>

OpenOther ==
    /\ page # "other"
    /\ page' = "other"
    /\ loads' = AfterLeaving
    /\ loading' = FALSE
    /\ subscribed' = selected /\ view' = EmptyView
    /\ UNCHANGED <<storeVars, serverVars, feeds, selected, failures>>

\* handleNetworkChange, or the browser's back button: the effects run after the page has
\* been painted, and until then the old listener is called.
SelectNetwork(n) ==
    /\ page = "networks"
    /\ n # selected
    /\ selected' = n
    /\ UNCHANGED <<storeVars, serverVars, feeds, page, subscribed, view, loads, loading, failures>>

\* The effects that depend on selectedNetwork: subscribe anew, read the store, load.
NetworkEffects ==
    /\ page = "networks" /\ selected # subscribed
    /\ subscribed' = selected
    /\ view' = nodeStatuses[selected]
    /\ Start("networks", {selected}, loads)
    /\ loading' = TRUE
    /\ UNCHANGED <<storeVars, serverVars, feeds, page, selected, failures>>

Next ==
    \/ \E n \in Networks, p \in Peers, w \in WorkValues : Publish(n, p, w)
    \/ Flush
    \/ \E f \in Feeds : FeedOpens(f) \/ FeedCloses(f) \/ OnMessage(f)
    \/ NetworksTick \/ OverviewTick
    \/ \E l \in Loads : \/ \E n \in Networks : Read(l, n)
                        \/ NetworksLoaded(l) \/ OverviewLoaded(l) \/ OverviewDone(l)
                        \/ LoadFails(l)
    \/ OpenOverview \/ OpenOther
    \/ \E n \in Networks : OpenNetworks(n) \/ SelectNetwork(n)
    \/ NetworkEffects

Spec == Init /\ [][Next]_vars

\* The batch service's ticker, the intervals, effects and answers; never the visitor,
\* the publishers or the WebSocket.
FairSpec ==
    /\ Spec
    /\ WF_vars(Flush)
    /\ WF_vars(NetworksTick) /\ WF_vars(OverviewTick) /\ WF_vars(NetworkEffects)
    /\ \A l \in Loads :
          /\ \A n \in Networks : WF_vars(Read(l, n))
          /\ WF_vars(NetworksLoaded(l) \/ OverviewLoaded(l) \/ OverviewDone(l))

-----------------------------------------------------------------------------
(* Properties.                                                             *)

TypeOK ==
    /\ published \in Seq(Status)
    /\ stored \in 0..Len(published)
    /\ feeds \in [Feeds -> 0..Len(published) \union {Off}]
    /\ nodeStatuses \in [Networks -> [Peers -> Status \union {Absent}]]
    /\ scores \in [Networks -> [Peers -> 0..Cardinality(Peers)]]
    /\ page \in {"overview", "networks", "other"}
    /\ selected \in Networks /\ subscribed \in Networks
    /\ view \in [Peers -> Status \union {Absent}]
    /\ loads \in [Loads -> Load \union {NoLoad}]
    /\ loading \in BOOLEAN
    /\ failures \in 0..MaxFailures

\* Whatever order loads, messages and network changes come in, a status is kept only
\* under the peer and the network it was published for.
KeptWhereItBelongs ==
    \A n \in Networks, p \in Peers :
        LET s == nodeStatuses[n][p]
        IN  s # Absent => s.net = n /\ s.peer = p /\ s \in {published[i] : i \in 1..Len(published)}

\* Networks shows the store's statuses of the selected network as soon as its effects have
\* run, although listeners come and go while messages and late answers write the store;
\* and it does not say Loading when no load of it is under way, although loads overlap,
\* fail and outlive their page, and all write one flag.
ViewIsStore ==
    page = "networks" /\ selected = subscribed => view = nodeStatuses[selected]
LoadingIsBacked ==
    loading => \E l \in Loads : loads[l] # NoLoad /\ loads[l].owner = page
ScreenIsBacked == ViewIsStore /\ LoadingIsBacked

\* A peer's status is replaced by an older one, or dropped, only when the answer of a load
\* is stored (nodeStatusStore.ts:31, "Only update if this is newer than what we have"):
\* messages that were delayed behind a load change nothing.
AnswerStored(n) ==
    \E l \in Loads :
        Answered(l) /\ n \in loads[l].nets /\ loads'[l] # loads[l]
RegressOnlyByLoad ==
    [][\A n \in Networks, p \in Peers :
          nodeStatuses[n][p] # Absent =>
              \/ nodeStatuses'[n][p] # Absent /\ nodeStatuses'[n][p].at >= nodeStatuses[n][p].at
              \/ AnswerStored(n)]_vars

\* A visitor who stays on a page sees in the end the last status of every peer that has
\* one among the newest rows of the network, without the help of the WebSocket and
\* however late the answers to earlier loads arrive.
UpToDate(n) ==
    LET rows == {s \in {published[i] : i \in 1..Len(published)} : s.net = n}
        later(s) == {t \in rows : t.at > s.at}
    IN  \A s \in rows :
            Cardinality(later(s)) < RowLimit /\ (\A t \in later(s) : t.peer # s.peer)
                => nodeStatuses[n][s.peer] = s
CaughtUp ==
    /\ <>[](page = "overview") => <>[](\A n \in Networks : UpToDate(n))
    /\ \A n \in Networks : <>[](page = "networks" /\ selected = n) => <>[]UpToDate(n)

=============================================================================
