------------------------------- MODULE Browse -------------------------------
(***************************************************************************)
(* A visitor who browses the database: the list of peers (Peers.tsx), a    *)
(* peer's details (PeerDetail.tsx) and the messages below them             *)
(* (MessageListSection.tsx), while the server goes on storing rows.        *)
(*                                                                         *)
(* The three components fetch in the same way: a change of what they show  *)
(* (page; peer of the route; peer and topic) starts a request that nothing *)
(* cancels, and whatever arrives is shown.  A component is a record: `key' *)
(* is what it was last asked for, `shown' the answer it shows, `calls' its *)
(* requests under way, oldest first.                                       *)
(***************************************************************************)
EXTENDS QueryApi, MessageViews

CONSTANTS
    Peers,      \* the peers that write rows
    PeerList,   \* the route /peers; /peers/<peer> is the peer itself
    Off,        \* a component that is not mounted
    None,       \* no answer shown yet
    Pending,    \* a request the server has not answered
    Databases,  \* the rows stored when the visitor arrives
    NewRows,    \* rows that may be stored meanwhile
    MaxNew,     \* bound: rows stored meanwhile
    MaxTrail,   \* bound: entries of the browser's history
    MaxCalls,   \* bound: requests of a component under way at once
    MaxFaults   \* bound: requests that fail, or whose queries do

ASSUME BrowseAssumption ==
    /\ {MaxNew, MaxTrail, MaxCalls, MaxFaults, ListLimit, DetailLimit, PeersPerPage} \subseteq Nat
    /\ PeersPerPage > 0 /\ ListLimit >= 5 /\ DetailLimit > 0
    /\ \A db \in Databases : db \in Seq({db[i] : i \in DOMAIN db})

\* The columns of the tables besides ID, Network, PeerID and ReceivedAt.  Rows without a
\* peer are left out: /api/peers skips them.
Columns ==
    [block |-> {"Hash", "Height", "DataHubURL", "Header"},
     subtree |-> {"Hash", "DataHubURL"},
     node_status |-> {"Type", "BaseURL", "Version", "CommitHash", "BestBlockHash", "BestHeight",
                      "BlockAssemblyDetails", "FSMState", "StartTime", "Uptime", "ClientName",
                      "MinerName", "ListenMode", "ChainWork", "SyncPeerID", "SyncPeerHeight",
                      "SyncPeerBlockHash", "SyncConnectedAt"}]

IsRow(row) == row.table \in Tables /\ row.peer \in Peers /\ row.fields \subseteq Columns[row.table]

ASSUME RowAssumption ==
    /\ NoPeer \notin Peers
    /\ \A db \in Databases : \A i \in DOMAIN db : IsRow(db[i])
    /\ \A row \in NewRows : IsRow(row)

VARIABLES
    rows,    \* the database
    added,   \* rows stored since the visitor arrived
    trail,   \* the browser's history up to the present route
    list,    \* the component Peers
    detail,  \* the component PeerDetail
    section, \* the component MessageListSection
    blank,   \* React has taken the whole page down after an exception
    faults,
    before   \* history: the page of peers that was shown before the present one

vars == <<rows, added, trail, list, detail, section, blank, faults, before>>

route == Last(trail)

-----------------------------------------------------------------------------
(* A component that fetches.                                               *)

Call(key) == [key |-> key, reply |-> Pending]

Mounted(key) ==
    [key |-> key, shown |-> None, loading |-> TRUE, error |-> FALSE,
     calls |-> <<Call(key)>>, raced |-> FALSE]

\* raced: its latest request began while another was under way.
Fetch(c, key) ==
    [c EXCEPT !.key = key, !.loading = TRUE, !.error = FALSE,
              !.calls = Append(@, Call(key)), !.raced = c.calls # << >>]

Room(c) == c # Off => Len(c.calls) < MaxCalls

SpinsOn(c) == c     \* mutant: no finally
Finally(c) == [c EXCEPT !.loading = FALSE]

Arrived(c, i) == Finally([c EXCEPT !.shown = c.calls[i].reply, !.calls = RemoveAt(@, i)])
Failed(c, i) == Finally([c EXCEPT !.error = TRUE, !.calls = RemoveAt(@, i)])

OnScreen(c) == c # Off /\ ~c.loading /\ ~c.error /\ c.shown # None

\* The list of peers stays on screen while the next page loads.
ListOnScreen == list # Off /\ ~list.error /\ list.shown # None /\ (list.loading => list.shown.peers # << >>)

-----------------------------------------------------------------------------
(* Where the visitor is.                                                   *)

\* mutant: the effect does not depend on the route's peer
SamePeer(peer) == IF detail = Off THEN Mounted(peer) ELSE detail
Rerouted(peer) == IF detail = Off THEN Mounted(peer) ELSE Fetch(detail, peer)

\* The components of a route: from one peer to another PeerDetail stays mounted.
Show(r) ==
    /\ list' = IF r = PeerList THEN Mounted(1) ELSE Off
    /\ detail' = IF r = PeerList THEN Off ELSE Rerouted(r)
    /\ section' = Off
    /\ before' = None

Init ==
    /\ rows \in Databases
    /\ added = 0
    /\ trail = <<PeerList>>
    /\ list = Mounted(1)
    /\ detail = Off /\ section = Off
    /\ blank = FALSE
    /\ faults = 0
    /\ before = None

\* The batch service stores a row (retention, half a year behind, is left out).
StoreRow ==
    /\ added < MaxNew
    /\ \E r \in NewRows : rows' = Append(rows, r)
    /\ added' = added + 1
    /\ UNCHANGED <<trail, list, detail, section, blank, faults, before>>

MessagesOnScreen == IF OnScreen(section) THEN section.shown.messages ELSE << >>

Links ==
    IF ListOnScreen THEN {list.shown.peers[i].id : i \in DOMAIN list.shown.peers}
    ELSE UNION {Card(MessagesOnScreen[i]).links : i \in DOMAIN MessagesOnScreen}

\* View Details, or the name of a peer on a card; the way back is in the header.
FollowLink ==
    /\ ~blank
    /\ Len(trail) < MaxTrail
    /\ Room(detail)
    /\ \E r \in (Links \union {PeerList}) \ {route} :
         /\ trail' = Append(trail, r)
         /\ Show(r)
    /\ UNCHANGED <<rows, added, blank, faults>>

GoBack ==
    /\ ~blank
    /\ Len(trail) > 1
    /\ Room(detail)
    /\ trail' = Front(trail)
    /\ Show(Last(trail'))
    /\ UNCHANGED <<rows, added, blank, faults>>

\* The visitor reloads a page that went blank.
Reload ==
    /\ blank
    /\ blank' = FALSE
    /\ Show(route)
    /\ UNCHANGED <<rows, added, trail, faults>>

-----------------------------------------------------------------------------
(* What the visitor selects.                                               *)

TotalPages == (list.shown.total + PeersPerPage - 1) \div PeersPerPage

\* Previous, Next, or one of at most five numbered buttons around the current page.
PageButtons ==
    LET first == IF TotalPages <= 5 \/ list.key <= 3 THEN 1
                 ELSE IF list.key >= TotalPages - 2 THEN TotalPages - 4
                 ELSE list.key - 2
    IN  first .. first + Least(5, TotalPages) - 1

TurnPage ==
    /\ ListOnScreen
    /\ TotalPages > 1
    /\ Room(list)
    /\ \E page \in PageButtons \ {list.key} : list' = Fetch(list, page)
    /\ UNCHANGED <<rows, added, trail, detail, section, blank, faults, before>>

TryAgain ==
    /\ list # Off /\ list.error
    /\ Room(list)
    /\ list' = Fetch(list, list.key)
    /\ UNCHANGED <<rows, added, trail, detail, section, blank, faults, before>>

\* The topics on offer.  They put bitcoin/ before a network, the server's own do not.
AvailableTopics ==
    {Topic(<<"bitcoin", n>>, t) : n \in detail.shown.networks, t \in DOMAIN detail.shown.types}

\* handleTopicChange; the selection is there while the messages load.
ChooseTopic ==
    /\ section # Off
    /\ Room(section)
    /\ \E topic \in (AvailableTopics \union {AllTopics}) \ {section.key[2]} :
         section' = Fetch(section, <<section.key[1], topic>>)
    /\ UNCHANGED <<rows, added, trail, list, detail, blank, faults, before>>

-----------------------------------------------------------------------------
(* The server answers.  `at' (history) is the number of rows it found, and *)
(* `whole' says that none of its queries failed: it ignores failed ones.   *)

Reply(c, i, reply) == [c EXCEPT !.calls[i].reply = reply]

QueriesFail == faults < MaxFaults /\ faults' = faults + 1

AnswerPeers ==
    /\ list # Off
    /\ \E i \in DOMAIN list.calls :
         /\ list.calls[i].reply = Pending
         /\ LET page == list.calls[i].key
                Answer(a, ok) == [page |-> page, peers |-> a.peers, total |-> a.total,
                                  at |-> Len(rows), whole |-> ok]
            IN  \/ /\ \E a \in ApiPeers(rows, page) : list' = Reply(list, i, Answer(a, TRUE))
                   /\ UNCHANGED faults
                \/ QueriesFail /\ list' = Reply(list, i, Answer(NoPeers, FALSE))
    /\ UNCHANGED <<rows, added, trail, detail, section, blank, before>>

\* The handler of a peer's details first counts, then lists; rows come in between.
NewDetail(peer) ==
    [peer |-> peer, types |-> NoCounts.types, networks |-> {}, nodeStatuses |-> Null,
     recentBlocks |-> Null, seen |-> {}, step |-> 0, whole |-> TRUE]

Counted(d, counts) == [d EXCEPT !.types = counts.types, !.networks = counts.networks]
Listed(d, lists) ==
    [d EXCEPT !.nodeStatuses = lists.nodeStatuses, !.recentBlocks = lists.recentBlocks, !.seen = lists.seen]

SwappedStep(d) ==     \* mutant: the lists are read before the counts
    IF d.step = 0 THEN Listed(d, ApiLists(rows, d.peer)) ELSE Counted(d, ApiCounts(rows, d.peer))
ServerStep(d) ==
    IF d.step = 0 THEN Counted(d, ApiCounts(rows, d.peer)) ELSE Listed(d, ApiLists(rows, d.peer))
FailedStep(d) ==
    IF d.step = 0 THEN Counted(d, NoCounts) ELSE Listed(d, NoLists)

AnswerDetail ==
    /\ detail # Off
    /\ \E i \in DOMAIN detail.calls :
         LET call == detail.calls[i]
             d == IF call.reply = Pending THEN NewDetail(call.key) ELSE call.reply
         IN  /\ d.step < 2
             /\ \/ detail' = Reply(detail, i, [ServerStep(d) EXCEPT !.step = @ + 1]) /\ UNCHANGED faults
                \/ /\ QueriesFail
                   /\ detail' = Reply(detail, i, [FailedStep(d) EXCEPT !.step = @ + 1, !.whole = FALSE])
    /\ UNCHANGED <<rows, added, trail, list, section, blank, before>>

AnswerMessages ==
    /\ section # Off
    /\ \E i \in DOMAIN section.calls :
         /\ section.calls[i].reply = Pending
         /\ LET key == section.calls[i].key
                Answer(messages, ok) == [key |-> key, messages |-> messages, at |-> Len(rows), whole |-> ok]
            IN  \/ /\ section' = Reply(section, i, Answer(ApiMessages(rows, key[1], key[2]), TRUE))
                   /\ UNCHANGED faults
                \/ QueriesFail /\ section' = Reply(section, i, Answer(<< >>, FALSE))
    /\ UNCHANGED <<rows, added, trail, list, detail, blank, before>>

-----------------------------------------------------------------------------
(* The answers arrive, in any order, or the requests fail.                 *)

RequestFails == faults < MaxFaults /\ faults' = faults + 1

ListArrives ==
    /\ list # Off
    /\ \E i \in DOMAIN list.calls :
         \/ /\ list.calls[i].reply # Pending
            /\ list' = Arrived(list, i)
            /\ before' = list.shown
            /\ UNCHANGED faults
         \/ RequestFails /\ list' = Failed(list, i) /\ UNCHANGED before
    /\ UNCHANGED <<rows, added, trail, detail, section, blank>>

\* The messages of the peer whose details are shown: they go with the details, and keep
\* topic when another peer's details take their place.
SectionFor(d) ==
    IF ~OnScreen(d) THEN Off
    ELSE IF section = Off THEN Mounted(<<d.shown.peer, AllTopics>>)
    ELSE IF section.key[1] # d.shown.peer THEN Fetch(section, <<d.shown.peer, section.key[2]>>)
    ELSE section

\* Null has no length: drawing it throws, and nothing catches that.
Draw(d) ==
    IF OnScreen(d) /\ d.shown.recentBlocks = Null
      THEN blank' = TRUE /\ detail' = Off /\ section' = Off
      ELSE blank' = FALSE /\ detail' = d /\ section' = SectionFor(d)

DetailArrives ==
    /\ detail # Off
    /\ Room(section)
    /\ \E i \in DOMAIN detail.calls :
         \/ /\ detail.calls[i].reply # Pending
            /\ detail.calls[i].reply.step = 2
            /\ Draw(Arrived(detail, i))
            /\ UNCHANGED faults
         \/ RequestFails /\ Draw(Failed(detail, i))
    /\ UNCHANGED <<rows, added, trail, list, before>>

SectionArrives ==
    /\ section # Off
    /\ \E i \in DOMAIN section.calls :
         \/ section.calls[i].reply # Pending /\ section' = Arrived(section, i) /\ UNCHANGED faults
         \/ RequestFails /\ section' = Failed(section, i)
    /\ UNCHANGED <<rows, added, trail, list, detail, blank, before>>

Next ==
    \/ StoreRow
    \/ FollowLink \/ GoBack \/ Reload
    \/ TurnPage \/ TryAgain \/ ChooseTopic
    \/ AnswerPeers \/ AnswerDetail \/ AnswerMessages
    \/ ListArrives \/ DetailArrives \/ SectionArrives

Spec == Init /\ [][Next]_vars

-----------------------------------------------------------------------------
(* Properties.                                                             *)

\* What is on screen was asked for.  The peers are those of the page number below them, or,
\* while that page loads, of the page before, which stays on screen under the new number
\* only as long as the new page's request is the one under way; the heading is the route's
\* peer; the messages are the heading's under the topic selected.  Only requests that
\* overlapped may break this, and never between heading and messages asked for.
ScreenFollowsSelection ==
    /\ ListOnScreen /\ ~list.raced =>
          IF list.loading
            THEN Len(list.calls) = 1 /\ list.calls[1].key = list.key
            ELSE list.shown.page = list.key
    /\ OnScreen(detail) /\ ~detail.raced => detail.shown.peer = route
    /\ section # Off => OnScreen(detail) /\ section.key[1] = detail.shown.peer
    /\ OnScreen(section) /\ ~section.raced => section.shown.key = section.key

\* A component that shows neither an answer nor an error is waiting for a request, and so
\* is one that shows it is loading: requests that fail or overlap leave no dead screen.
\* (Of a page that went blank, whose components are gone, it says nothing: that one is
\* dead until it is reloaded.)
NoDeadScreen ==
    \A c \in {list, detail, section} \ {Off} :
        c.loading \/ (~c.error /\ c.shown = None) => c.calls # << >>

\* The types of which the details list rows.  Subtrees are counted with them, but only the
\* messages show any.
ListedTypes == {"block", "node_status"}

\* The blocks and the node statuses that are counted in the details have their rows below
\* (as many as the list takes), although they are read at another time than the counts.
\* It does not hold of subtrees, and rests on no row being deleted between the readings.
CountedIsShown ==
    OnScreen(detail) /\ detail.shown.whole =>
        \A t \in DOMAIN detail.shown.types \intersect ListedTypes :
            LET below == IF t = "block" THEN detail.shown.recentBlocks ELSE detail.shown.nodeStatuses
            IN  Len(below) >= Least(detail.shown.types[t], DetailLimit)

\* What no card draws: the headers and URLs, a status's Type and block assembly details,
\* and what there is about a sync peer that has no name.
Undrawn(row) ==
    {"Header", "DataHubURL", "Type", "BaseURL", "BlockAssemblyDetails"} \union
    (IF "SyncPeerID" \in row.fields THEN {} ELSE SyncRows \union {"SyncPeerHeight"})

\* Under "all topics" the newest row of each of the peer's tables is on screen, as a card
\* of its own kind that links to its peer and draws each column the row has but the Undrawn;
\* and all of the peer's rows are there, without a second page, if no table has more than
\* its fifth of the limit.
NewestOnScreen ==
    OnScreen(section) /\ section.shown.whole /\ section.shown.key[2] = AllTopics =>
        LET p == section.shown.key[1]
            found == SubSeq(rows, 1, section.shown.at)
            messages == section.shown.messages
            ids == {messages[k].id : k \in DOMAIN messages}
        IN  /\ \A t \in Tables : Newest(RowsOf(found, t, p), 1) \subseteq ids
            /\ \A k \in DOMAIN messages :
                 LET card == Card(messages[k])
                     row == messages[k].row
                 IN  /\ card.kind = row.table /\ p \in card.links
                     /\ ("SyncPeerID" \in row.fields => row.sync \in card.links)
                     /\ row.fields \ Undrawn(row) \subseteq card.drawn
            /\ (\A t \in Tables : Cardinality(RowsOf(found, t, p)) <= ListLimit \div 5) =>
                 /\ ids = {i \in DOMAIN found : found[i].peer = p}
                 /\ PagesOf(messages) <= 1

\* A peer with as many messages as no other is on one page: two pages of peers shown one
\* after the other do not share it, and if they are all the pages one of them has it, if
\* both were answered from the same rows.  Peers that are level with each other may be on
\* both or on neither: their order is drawn anew for every request.
PagesPartitionPeers ==
    OnScreen(list) /\ before # None /\ list.shown # None =>
        LET found == SubSeq(rows, 1, list.shown.at)
            Ids(a) == {a.peers[k].id : k \in DOMAIN a.peers}
            alone == {p \in PeersIn(found) : \A q \in PeersIn(found) \ {p} :
                                                PeerStat(found, p).total # PeerStat(found, q).total}
        IN  /\ before.at = list.shown.at /\ before.page # list.shown.page
            /\ before.whole /\ list.shown.whole
            => /\ Ids(before) \intersect Ids(list.shown) \intersect alone = {}
               /\ list.shown.total <= 2 * PeersPerPage => alone \subseteq Ids(before) \union Ids(list.shown)

=============================================================================
