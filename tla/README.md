# A TLA+ model of the Teranode P2P monitor

The monitor is a passive observer of the Teranode gossip network: a Go process
(`src/cmd`, `src/pkg`) that subscribes to topics, parses what arrives, buffers it
into PostgreSQL, fans it out to WebSocket clients and answers REST queries, and
a React dashboard (`src/frontend-react`) fed by both. This directory holds
TLA+ modules that model it, the TLC configurations that check them on small
instances, and proofs for the TLA+ proof system. `PROJECT.json` maps each
definition to the lines it stands for.

## The system

| Part | State | Operations | Hard behaviour | What makes it correct |
|---|---|---|---|---|
| Topic consumers, `cmd/main.go:293-478` | one goroutine per topic, its channel | receive, parse, add rows, broadcast | an error ends the goroutine; two shared resources on the path (buffers' mutexes, hub) | every message that decodes is stored and then broadcast, in order |
| Parser, `pkg/parser` | none | topic generation, topic and payload parsing | formats that have to agree | every topic it generates can be parsed |
| Batch insert service, `pkg/service/batch_insert_service.go` | seven buffers, a mutex each, context, flusher goroutine | Add*, periodicFlush, FlushAll, Stop | flush under the lock; inserts that commit in chunks; errors after commit; rows that are refused for ever; crash | at-least-once storage, duplicates only after failures, bounded buffers, a Stop that flushes and returns |
| WebSocket hub, `pkg/websocket`, `pkg/http/server.go:67-88` | registry and its mutex | BroadcastMessage, connection handler | writes without deadline under the mutex; both sides remove connections | one order, no gaps; registry = live handlers; no client stops the others |
| Retention, `pkg/model/retention.go`, `cmd/main.go:97-231` | partitions, rows | startup, daily RunRetention | check and DROP are two statements; one transaction over all tables; months change; late rows | rows in the window stay, old ones go, the current month has a partition |
| Statistics cache, `pkg/service/stats_service.go`, and the Stats page | one cached row; the page's result | CalculateStats (two goroutines), GetCachedStats; refreshes | counts are not one snapshot; delete and create are two statements; overlapping runs and requests | the cache holds the latest result, the page goes back only by a race |
| REST API, `pkg/http/server.go` | none | queries over the tables, paging, limits | several queries without a transaction while rows are inserted; queries that fail are skipped; unstable order | an answer is whole: blocks and statuses that are counted are listed, pages partition the peers |
| Coinbase service, DataHub client | cache map | never constructed | - | - |
| Frontend socket, `hooks/useWebSocket.ts` | sockets, attempts, timer, status | connect, disconnect, reconnect, unmount | `onclose` runs later than `disconnect`; timers outlive the ref that holds them; all sockets share the attempts | connections do not multiply, the hook neither gives up early nor tries for ever |
| Node-status store, `services/nodeStatusStore.ts` | status per network and peer, scores | live update, snapshot from the API | snapshots older than live updates | a status goes back only when a snapshot is stored |
| Overview and Networks pages, `useOverviewData.ts`, `Networks.tsx` | selected network, view, loading flag, loads under way | load, message, select, leave | loads overlap, fail, come late or for a page that is gone | the view is the store's, under the right network, and catches up |
| Peers, peer detail, message list: `App.tsx`, `Peers.tsx`, `PeerDetail.tsx`, `MessageListSection.tsx` | route, selection, answer shown, requests under way | follow a link, go back, turn a page, choose a topic | requests that nothing cancels overlap, fail or come late | the screen shows what was asked for, and waits for nothing |
| Message parsing and cards, `utils/messageParser.ts`, `MessageCards.tsx` | none | a stored message to a card | three formats of one row that have to agree | nothing stored is dropped on the way to the screen |
| Peer names, `services/peerNames.ts`, `usePeerName.ts`, `PeerNameEditor.tsx` | cache per tab, one localStorage entry, a copy per component | set, mount, edit, reload | two tabs; loads that fail, writes that are refused | no name set is lost otherwise, a tab agrees with itself |

The P2P client library puts messages into one channel per topic. A topic's
consumer calls the parser, then the batch service (which it may find flushing,
and then waits), then the hub (which all topics share). The batch service and
the retention pass meet in the database: a row whose month has no partition is
refused. The browser sees the hub through its socket and the database through
the REST API.

## Modules

| Module | Models |
|---|---|
| `AtLeastOnceStore` | what the batch service promises: rows are pending until written, written only while pending, forgotten only by a process death |
| `BatchInsert` | the batch service in full |
| `MCBatchInsert` | its instances for TLC |
| `BatchInsertProofs` | the theorems about it |
| `TopicParser` | the topics subscribed to and `ParseMessage` on them; pure operators |
| `WsHub` | registry, mutex, broadcast loop, connection handlers, clients |
| `Ingest` | the topic consumers, on top of `TopicParser` and `WsHub` |
| `MCIngest` | its instances |
| `IngestProofs` | the theorems about consumers and hub |
| `Retention` | partitions and retention against concurrent writes |
| `MCRetention` | its instances |
| `RetentionProofs` | the theorems about it |
| `WsClient` | the browser's WebSocket hook: sockets, events, timeouts, attempts |
| `MCWsClient` | its instance |
| `WsClientProofs` | the theorems about it |
| `NodeStatusStore` | the store of node statuses and its scores, as operators on two variables |
| `Pages` | the overview and Networks pages on top of it: loads, messages, navigation |
| `MCPages` | its instances |
| `PagesProofs` | the theorems about store and pages |
| `StatsCache`, `MCStatsCache` | the calculators, the cached row, `/api/stats` and the Stats page; its instance |
| `StatsCacheProofs` | the theorems about it |
| `QueryApi` | `/api/messages`, `/api/peers`, `/api/peers/<peer>` as operators on the rows of the database |
| `MessageViews` | the message parser and the cards of a message; pure operators |
| `Browse`, `MCBrowse` | a visitor of the peer pages, on top of `QueryApi` and `MessageViews`; its instance |
| `BrowseProofs` | the theorems about it |
| `PeerNames`, `MCPeerNames` | the names in several tabs; its instance |
| `PeerNamesProofs` | the theorems about it |

### BatchInsert

`buffer[k]`, `holder[k]` are a buffer and the goroutine in its mutex (numbered in
FlushAll's order); `flusher` and `cursor` are the program counter of
`periodicFlush` and `FlushAll`; `cancelled` is the context. A flush is several
steps, one per chunk of `CreateInBatches` (`offset[k]` rows are committed),
because `SkipDefaultTransaction` makes each chunk commit alone. It ends in
`FlushSucceeds`, or in `KeepBuffer` for one of three reasons: a row that the
database refuses now and always (`Poison`: there is no partition for its month),
a transient error before the chunk committed, or one after it committed.
`Crash` is a process death and restart: `main` handles no signal and its
deferred `Stop` is never reached, so an orderly shutdown is a crash to this code.
`Stop` itself is modelled because the service offers it.
`copies` is the table, `accepted`, `base`, `atStop`, `failedOn` are history.
An `Add` that does not flush is one step, as it calls nothing under its lock.
Rows are numbered per buffer; the columns are immaterial.

### WsHub, Ingest

Consumers follow the code line by line: `Receive` (with the parse, whose
failure ends the goroutine), `Store`, `StoreHeader` for a block whose header
parses, `StartBroadcast` (the mutex), one `Visit` per registered client in any
order (Go's map order), `EndBroadcast`. A hand-over to the batch service is one
step that may take arbitrarily long: `BatchInsert` shows that the mutex comes
free. A client's link is up, stalled (its socket buffers are full: `WriteJSON`
waits, having no deadline) or down (a write may fail, or may still be taken by
the kernel). The handler's read notices a link that is down and waits for the
mutex to unregister. `log` records broadcasts in the order the mutex was taken,
`joined[c]` the point at which a client registered.

### Retention

Time is counted in months, as all cutoffs and bounds are firsts of a month. A
partition has the month in its name and the months it covers, because the code
provides for the two to differ. `Start` is main before it subscribes: its own
loop for node_statuses (whose "next month" is `AddDate(0, 1, 0)` of today, hence
one or two months ahead) and `create_monthly_partitions`, one transaction that
keeps nothing if one CREATE overlaps. The pass is a sequence of steps with the
writers in between; `PassCheck` and `DropPartition` are separate statements,
dropped partitions are invisible to nobody but locked until `CommitDrop`, and
`AbortDrop` (statement_timeout is not caught by `WHEN others`) keeps nothing.
`Receive` fixes a row's month, `Write` may come much later. Partitions that were there
before cover the month they are named for (`ProvisionAssumption`).

### WsClient

One use of the hook. An action is one task of the browser's event loop, so
`disconnect(); connect()` of an effect that runs again is one step
(`ChangeHandler`), and the close event of the socket it closed is another.
`timer` is the timeout `reconnectTimeoutRef` holds, `loose` counts those it held
before: `disconnect` clears the first only. `wsRef` forgets a socket without
closing it when `connect` finds it not yet open. A socket that is closed and
not in `wsRef` is garbage and its name is used again, so that the state is finite
without a bound on reconnects. `net` is the path to the server: flaky at first,
good or dead for ever later.

### NodeStatusStore, Pages

A status is a peer, a network, a time (its place in the order the server
broadcast it) and a chain work. `Pages` puts what writes the store side by side:
`OnMessage` from a feed, which may lag behind, and loads, each with the number of
rows the database had when the server answered each of its requests (`Read`).
`NetworksLoaded` and `OverviewLoaded` store the answers; loads of the overview
are cancelled when it is left, those of Networks become "gone" and are stored all
the same. `SelectNetwork` and `NetworkEffects` are separate because React runs
effects after the paint: until then the old listener is called. A feed opens and
closes at any time and on any page, which is what `WsClient` shows a socket may
do.

### StatsCache

`place[g]` is where a calculator is: `total` (the counts of all tables), `networks`
(the counts by network), `clear` (the DELETE), `save` (the INSERT). A result is its
`CalculatedAt` (a serial number of starts), the total and the sum over the networks;
the other statistics are read by more queries of the same kind. A count that fails is left
out, of either sum; rows are stored and pruned in between, and `short` remembers which
results have lost something between the two passes. The start-up goroutine
runs once for each start of the process, the ticker's any number of times; neither
knows of the other. The page's requests are a sequence, so that answers may come in any
order; a request that is refused (503) or fails arrives as zeros, because
`getMessageStats` catches everything.

### QueryApi, MessageViews, Browse

The rows of all tables are one sequence in the order of `received_at`: a row's position
is its time and its identity. `QueryApi` has one operator for each answer. Where Go
leaves the order open (a map is iterated, and `sort.Slice` is not stable) it gives the
set of possible answers. The details of a peer are read in two steps, `ApiCounts` and
`ApiLists`, with rows stored in between; a finer interleaving adds nothing the
properties tell apart. `FailedStep` and `QueriesFail` are what the handlers do with a
query that fails: they ignore it.

`Browse` has one record for each of the three components that fetch (`key` what was
asked for last, `shown` the answer shown, `calls` the requests under way), as all
three are written alike. Routes mount and unmount them (`Show`); from one peer to
another `PeerDetail` stays mounted and only its effect runs (`Rerouted`). Its message
list is there as long as the details are on screen (`SectionFor`), and keeps its topic
when another peer's details arrive. `Draw` is the one place where an answer may throw.
What a message becomes on its way to a card is `Card` of `MessageViews`.

### PeerNames

`cache[t]` is a tab's copy of the one localStorage entry, loaded once (`ready`),
`copy[t][p]` the state of the hooks mounted for a peer, `input[t][p]` an open editor.
`Save` is `handleSave` down to `localStorage.setItem`, which may be refused; the event
it dispatches reaches its own tab only. `Load` may fail, which leaves the cache empty and
initialized. `behind` is the set of tabs that have loaded before another tab saved or have
failed to load, which is when a save takes another name away. `Switch` is a component that
is mounted for one peer and given another.

## What is checked

| Run | Module, bounds | Shows |
|---|---|---|
| `batch_insert` | 2 buffers of at most 3 rows and 1 row, batch of 2, chunk of 1, one refused row, 1 transient fault, 1 crash | `TypeOK`; `NothingLost`; `DuplicatesNeedFailure`; `OverfullOnlyAfterFailure`; `StopFlushesEarlierRows`; `StoreSpec`, the refinement of `AtLeastOnceStore`; `HealthyKindsDrain` and `StopReturns`, liveness |
| `ingest` | 2 generated topics and `bitcoin/node_status`, 2 block messages, 1 on each other topic, 2 clients | `OneOrderNoGaps`, `RegistryMatchesHandlers`, `StoredBeforeBroadcast`, `TopicOrderKept`, `ConsumersEndForCause`, `TypeOK` |
| `ingest_live` | the 2 generated topics, 1 message each, 2 clients | `EveryMessageServed`, `DeadClientsForgotten`, if stalled clients recover |
| `ingest_stalled` | the same without that assumption, 1 client | violation: one stalled client stops all topics |
| `retention` | 1 plain and 2 partitioned tables, 2 months, window of 1, 2 rows, 1 fault, 1 crash | `InWindowKept`, `CurrentMonthCovered`, `OldRowsPruned` |
| `retention_overlap` | no faults, 1 wide partition possible | violation: a CREATE that overlaps leaves other tables without a partition |
| `ws_client` | 5 attempts as in the code, 3 handler changes or reconnects, 5 sockets | `TypeOK`, `NoStorm`, `GivesUpLast`, `LiveBadgeIsTrue`, `GoodNetConnects`, `DeadNetGoesQuiet` |
| `pages` | 2 networks, 2 peers, 2 statuses, 1 feed, 2 loads at once, 1 failure, 1 row a query | `TypeOK`, `KeptWhereItBelongs`, `ScreenIsBacked` (the view is the store's, and the page loads only while a load is under way), `RegressOnlyByLoad` |
| `pages_live` | 1 network, 2 peers, 3 statuses, 2 rows a query, the rest as above | `CaughtUp` |
| `stats_cache` | 3 calculations, 1 message at a time in the tables, 1 pruned, 1 failing statement, 1 restart, 2 requests at once | `CacheServesLast`, `BarsShortOnlyByLoss`, `PageGoesBackOnlyByRace` |
| `browse` | 3 peers of 1 a page, two of them level, 3 databases of 3 or 4 rows, 2 more rows, 3 routes, 2 requests at once for each component, 1 failure; 5 messages a list, 2 rows a table in the details | `ScreenFollowsSelection`, `NoDeadScreen`, `CountedIsShown`, `NewestOnScreen`, `PagesPartitionPeers` |
| `peer_names` | 2 tabs, 2 peers, 2 names | `NamesKept`, `TabsAgree` |

`MCIngest` also assumes, and TLC evaluates, that the topics of the `ingest` runs are
among those `main` subscribes to. `bitcoin/node_status` is left out of `ingest_live`:
its consumer never reaches the hub, and `EveryMessageServed` does not speak of it.

Why the bounds are enough. A batch of 2 with 3 rows lets a buffer outgrow its
batch size after a failure and be retried in several chunks, one of them with the
refused row and one before it; with a second buffer, even of one row, FlushAll can be between the two when an Add, a Stop
or a failure comes. Two generated topics and two clients are what it takes for two
broadcasts to interleave if the mutex did not stop them, and for a client to
register between two messages of a topic. Two months and a window of one are one
change of the cutoff: a partition and rows on each side of it. By `NoStorm` three
calls leave at most four sockets alive, so a fifth name is always free for
`connect`. Two loads and two networks let an old answer come after a newer one, or
for a network or a page that has been left; one row a query with two peers, and
two with three statuses, let a load miss a peer. Three calculations by
two goroutines are enough for one to overlap another that is older, and for the table
to be cleared twice before it is filled; one message that may be stored, counted, pruned
and stored again puts the two passes of a calculation before and after each of these.
Three peers on pages of one, two of them level and one not, whose order may turn
over when one more row is stored, show what paging does while tables grow, and five
messages with three tables reach the limit of one row a table; a history of three
routes goes from a peer to another and back while requests are under way. Two tabs
are the one that saves and the one that is behind, or that could not load. Each property has
a mutant of the model, a plausible slip in the code, which makes TLC find it
violated within the same bounds.

Runs do not check for deadlock: the modelled system may stop when messages or
rows have run out, periodicFlush has returned, or the consumers have ended.

### Fairness

- `BatchInsert`: goroutines are scheduled (weak fairness of the ticker and of a
  running flush: statement_timeout ends every call). Strong fairness for
  `FlusherLocks`, since a Go mutex in starvation mode goes to its longest waiter,
  and for `FinalFlush`, since `select` picks among ready cases at random. Adds, Stop,
  failures and crashes are never forced.
- `Ingest`: strong fairness of each consumer and of a handler's unregistering,
  for the same mutex reason, and because a blocked write goes on once the socket takes
  bytes. `ClientsRecover`, that a stalled client resumes or breaks, is an assumption
  about clients that no line of the code enforces; `ingest_stalled` shows
  what happens without it.
- `Retention`: the process is restarted and the pass runs on (a 24 h ticker; time-outs
  end every statement). Neither the clock nor writes are forced.
- `WsClient`: the browser runs due timeouts and delivers opens and closes; connections
  that the network may still break are not forced either way.
- `Pages`: the batch service flushes, intervals and effects run, requests are answered
  (a bounded number fails). Nothing is asked of the visitor, the publishers or the
  WebSocket: `CaughtUp` holds by the 30 s loads alone.
- `StatsCache`, `Browse` and `PeerNames` state no fairness: their properties are safety.
  `NoDeadScreen` says of a screen that waits that a request is under way; that the
  browser ends every request is its own matter.

## What the runs found

- A client that does not read blocks all consumers, storage included
  (`broadcast.go:19`), where `main.go:468` speaks of a lightweight operation.
- A partition wider than its name, which `retention.go:57-59` and a test provide for,
  makes `create_monthly_partitions` fail for all tables (`retention.go:46`); with
  main's `AddDate` at the end of January even node_statuses is left uncovered.

`InWindowKept` names one exception: a row written to such a wide partition after
its check and before its DROP goes with it. The check narrows that window and
does not close it.

Two more are facts of the consumers that no run calls a violation, and
`ConsumersEndForCause` states both: a payload that does not decode ends its topic's
consumer for good (`main.go:314`), and so does the first message, well formed or not, on
`bitcoin/node_status`, which is subscribed to (`main.go:265-266`) and provided for in the
parser (`message_parser.go:42`), but refused by the check before it (line 35). Of that
topic nothing is stored or shown; no other consumer ends but at a closed channel.

What the frontend's properties leave open is as telling. `NoStorm` says "one for each
handler change", and that is reached: the `onclose` of a socket that `disconnect`
closed still schedules `connect` (`useWebSocket.ts:41-53`), so selecting another
network may leave two sockets that deliver every message twice, and a page that has
been left opens a connection again two seconds later. `DeadNetGoesQuiet` is all that
ends it. `LiveBadgeIsTrue` has no converse: a late close is reported over a new
socket's opening, and the page no longer says Live although it is. `GivesUpLast`
speaks of any socket: the one in `wsRef` may be dead, with no retry, while a
forgotten one is alive. `RegressOnlyByLoad` and `CaughtUp` say what a load may do: it
takes statuses back to what was flushed, and drops peers that are not among the 500
newest rows (`api.ts:227` says "to ensure we have the latest for each peer").

The pages that browse the database work around less than they seem to:

- The topics `PeerDetail` offers put `bitcoin/` before the network (line 455),
  `/api/messages` compares the part before the type with the column `network`: every
  choice but "all" shows nothing (`ByTopic`, `AvailableTopics`).
- The topics `/api/messages` returns have no slash, so every card's badge says UNKNOWN
  (`ExtractNetwork`); the parser drops a block's header, which the card would draw.
- Without a topic a list has at most a fifth of the limit from each table, and no second
  page: `NewestOnScreen` promises the newest row of each table, and all rows only below
  that.
- A query that fails leaves `recentBlocks` null; the page takes its length and React
  takes everything down (`Draw`, `blank`). An older request's failure hides a newer answer
  (`Failed`). Networks and times of a peer ignore its node statuses (`ApiCounts`).
- `/api/peers` asks node_statuses for a column `user_agent` it does not have, so
  `lastUserAgent` and `lastBestHeight` are always empty.
- `PagesPartitionPeers` speaks of a peer that is level with no other, and of rows that did
  not change: peers with equal totals may be on two pages or on none, which is as much as
  an unstable sort, done anew for every request, allows.
- While another page of peers loads, the page before stays on screen under the new number
  (`Peers.tsx:105`, `382`): `ScreenFollowsSelection` says of it only that the new page's
  request is the one under way.
- Subtrees are counted among a peer's messages and never listed with them:
  `CountedIsShown` is about blocks and node statuses, and about rows that are not deleted
  between the readings (retention is not part of `Browse`).
- The networks' bars of the Stats page may be more than the whole, or infinite when the
  count failed, as the total is counted first; they fall short of it only if a query by
  network failed and was skipped (`stats_service.go:180-246`) or rows were pruned between
  the counts (`BarsShortOnlyByLoss`).
- A tab that fails to load the names (`peerNames.ts:16-20`) counts as initialized: its next
  save replaces all names by its own (`behind`). An editor that is open while `PeerDetail`
  turns to another peer keeps its text (`Switch`), and saving gives that name to the other
  peer; `NamesKept` is about what was saved, under whatever peer.
- `PageGoesBackOnlyByRace` and `CacheServesLast` except overlapping calculations: the
  older one may be the one that is left.

## What is proved

`BatchInsertProofs` proves for all numbers of buffers, batch and chunk sizes,
bounds, refused rows and producers, from `BatchAssumption` (sizes are positive
naturals, the flusher is no producer) and `RowBoundAssumption` (the rows each
buffer is handed are bounded):

- `BatchInsertTypeCorrect`: `Spec => []TypeOK`;
- `BatchInsertInvariant`: `Spec => []IInv`, the inductive invariant;
- `BatchInsertNothingLost`, `BatchInsertDuplicates`, `BatchInsertOverfull`,
  `BatchInsertStop`: the four safety properties of the run;
- `BatchInsertRefinesStore`: `Spec => StoreSpec`, the implementation of the
  abstract store.

None of the four is inductive. `IInv` adds what each buffer, `BufferInv(k)`, and the
final flush, `FinalInv`, know. A buffer holds exactly the last rows handed over,
in order (`Settled(k)` rows are gone from it); the first `offset[k]` of them and
all that are gone are in the table; a row has at most one copy more than its
failed flushes if it is committed in this sense, and at most as many otherwise;
rows not yet handed over have failed nothing. That is what lets a retry insert a
chunk again: the flush that failed before paid for it. `FinalInv` says that the
flusher holds only the buffer at its cursor, and that the rows handed over before
Stop are stored or marked as failed in all buffers the final FlushAll has left
behind. Every action is shown to keep each part (`BufferStep`, `FinalStep`), with
one lemma per action.

`IngestProofs` proves for any topics, connections and payloads and any number of
messages, from `HubAssumption` (nobody is no broadcaster) and `IngestAssumption`:
`IngestTypeCorrect`, `IngestInvariant`, `IngestOneOrder`, `IngestRegistry`,
`IngestStoredBeforeBroadcast`, `IngestTopicOrder` and, for any of the topics `main` makes
of networks whose names have no dash, as those of the configuration have none,
`IngestConsumersEnd`. It rests on `GeneratedTopicsParse`, that the parser takes what
`GenerateTopics` makes, on `EndInv`, why a consumer of such a topic has ended, and on
`RefusedInv`, that the consumer of `bitcoin/node_status` waits for its first message or
has ended, with nothing stored or shown.

`OneOrderNoGaps` speaks of the log and of what a client was written, and is not
inductive. `ClientInv(c)` says it position by position and adds what holds of a client
that has not registered yet; `HubInv` says that only the holder of the mutex has
connections left to visit, all of them registered, and that its message is the last of
the log, so that a visit writes the message the client is short of. That the mutex is
held for the whole fan-out is used in one place, `FreeHub`: with a free mutex nobody is
due anything, so a registration, an unregistration or the next broadcast finds all
clients complete. `OrderInv` says, for each place of a consumer, whether the log ends
with the message at hand or with the one before; `StoredInv` says which of the rows of
the message at hand have been handed over (a header is second, and only a block has
one, `ConsumerInv`).

`WsClientProofs` proves for any number of attempts, calls and (finitely many) sockets,
from `WsClientAssumption`: `WsClientTypeCorrect`, `WsClientNoStorm`,
`WsClientGivesUpLast` and `WsClientLiveBadge`. Each is inductive together with
`TypeOK`. `NoStorm` rests on counting: a close event takes one socket from those alive
(`CloseAlive`) and adds at most one timeout, a timeout that fires goes and adds at most
one socket (`ConnectAlive`), `disconnect` leaves the number as it is
(`DisconnectKeepsAlive`), so only the calls that are counted add one.

`PeerNamesProofs` proves for any tabs, peers and names, from `NamesAssumption`:
`PeerNamesTypeCorrect`, `PeerNamesInvariant`, `PeerNamesNamesKept` and
`PeerNamesTabsAgree`. The invariant is `TypeOK`, `TabsAgree` and `NamesKept` together:
that a save keeps the names of the other peers needs that the saving tab's cache is the
stored one, which holds because the tab is not behind, nor one whose load failed; there is
one lemma per action.

`RetentionProofs` proves for any tables, months, window, rows and (possibly wide)
partitions, from `RetentionAssumption` and `ProvisionAssumption`:
`RetentionInWindowKept` and `RetentionCurrentMonthCovered`. `WindowInv` adds to the
former that the cutoff the running step has computed may be a month old by the time it
is used, but is never ahead of `Cutoff` (`PassInv`), and that the partition that has
just passed the check, and those the open transaction has dropped, hold no row of the
window but those that are `raced` (`DropInv`). `CoverInv` adds that partitions cover the
month in their name and that those dropped, or about to be, are named for a month before
the cutoff (`PartsInv`), while the last successful create ensured, by name, the month it
ran in and the next (`AheadInv`): so what was made ahead is never dropped.
`ProvisionAssumption`, that a partition provisioned by hand covers the month in its name,
is needed because a name is all that create and the pass look at.

`StatsCacheProofs` proves for any number of calculations, messages, faults, restarts
and requests, from `StatsAssumption`: `StatsCacheServesLast`, `StatsCacheBarsShortOnlyByLoss`
and `StatsCachePageGoesBack`, an action property. `ServerInv` ties the cached rows to the
places of the calculators: as long as none overlapped one runs at most, the latest, and
the cache is empty or the newest result alone (`AloneInv`); a draft between its two
queries has counted at most the messages there are now, unless it is marked as `short`
(`DraftInv`), from which `BarsShortOnlyByLoss` follows. `PageInv` adds the page's answers: without a race it waits for
one at most, and when no calculations overlapped either, that one is no older than what
is shown (`AnswersInv`).

`PagesProofs` proves for any networks, finitely many peers, chain works, statuses, feeds,
loads and failures, from `PagesAssumption` and `AbsenceAssumption` (what stands for the
absence of a status, a load, an answer or a connection is none): `PagesTypeOK`,
`PagesKeepsWhereItBelongs`, `PagesScreenIsBacked`, `PagesRegressOnlyByLoad` and
`PagesScoresOrderWorks`. The invariant says of each load under way which
networks it asks for and which page it belongs to, and that it has read no more rows
than are stored now (`GoodLoad`); of the store that every status is a published one in its
place; and of the view that it is the store's for the network whose effects have run, which
may not be the one selected (`ViewInv`). `RegressOnlyByLoad` goes through the
actions: a message writes only what is `Newer`, and all else that writes the store stores an
answer. `ScoresOrderWorks` is stated there and not among the runs' properties: the
scores are computed anew with every change, and their order is that of the chain works
because the rank of a chain work is its place among the distinct ones, a finite
set (`RankOrders`).

`BrowseProofs` proves for any rows, peers, page sizes, number of requests and faults:
all five properties of the run `browse`, under `AbsencesDiffer`: the constants `Off` and
`None` are not themselves a component's record or an answer's (TLC's model values are not;
TLC cannot evaluate the formula, so it is a hypothesis of the theorems and not an
assumption of the module). `FollowInv` carries `BrowseScreenFollowsSelection` and
`BrowseNoDeadScreen`, and the others rest on it: `Follows` is the invariant of any of the
three components: each answer carries the key it was asked for, so that a component whose
latest request did not overlap another has one request under way at most and shows what
it was asked for; it is shown once for mounting, fetching, answering, arriving and
failing, and each action is one of these. `SectionInv` adds what ties the
components together: the messages are there only under the details on screen, and ask
for their peer.

What the answers contain is said of `Answers` and `Screen`, the answers on their way to a
component and the one it shows; `ListMoves`, `DetailMoves` and `SectionMoves` say once what
a step may do to them: an answer is new only when the server gives one, and is on screen
only after it was under way. `BrowseCountedIsShown` needs of the databases only that they
are sequences (`BrowseAssumption`). Its invariant is `CountsInv`: of each answer on its way or on screen,
`Grounded` says that what the server counted is still stored, so that the lists, which it
reads later, are as long. `NewestFirstLists` and `NewestCounts` say how long the lists are:
the rows above a row, which `NewestFirst` and `Newest` count, are as many as no other row
has, so that the counts are a bijection onto the numbers below the size of the set.

`BrowseNewestOnScreen` rests on `MessagesInv`: a whole answer is that of the first `at`
rows, which no later row changes (`FoundAgain`). The rest is about the operators:
`NewestOfEachFits` bounds the rows of three tables by three fifths of the limit, so that
the cut to the limit cuts nothing, and `CardOfRow` goes through the kinds of card. It
assumes of the rows what the schema and `/api/peers` say (`RowAssumption`: a row has
columns of its table only, and is a peer's); that a status with details of a sync peer
names it nothing enforces, and the property does not claim (`Undrawn`).

`BrowsePagesPartitionPeers` rests on `PagesInv`: a whole answer is a page of some listing of
the rows there were, and a page beyond the second is asked for only while there are as
many peers (`ButtonsLead`: the numbered buttons lead to pages there are, and peers are
only added). A peer that is level with no other has one place in all listings, `SamePlace`,
since that is one more than the number of peers that have more messages, and so one page,
`SamePage`; the pages of one listing are apart (`SlicesDisjoint`) and two are all of it if
it is no longer (`TwoSlices`). The run has three pages, the theorem any number.

Only model-checked: `OldRowsPruned`, `CaughtUp` and every other liveness property
(fairness is out of the prover's reach).

## Plan

What is left, in this order:

1. A composition of `BatchInsert` with `Retention` in which the refused rows are those
   without a partition.
2. The order of the Networks table, by height, chain work or name.

## Not modelled

JSON, hex and block-header decoding (only whether it succeeds), index creation,
autovacuum settings and ANALYZE, the P2P library (channels that deliver in order, and
may close), layout, deployment files.

Code that nothing calls: `CoinbaseService` and the DataHub client; of the frontend
`MessageStats`, `SearchForm`, `PeerFilter`, `MessageTypeFilter`, `NetworkSelector`,
`WebSocketStatus`, `messageAggregator`, `HandshakeCard`, `removeName`, `clearAll`,
`clearNetwork`, and `Pagination`, which a list never has a second page for; of the server
`/api/blocks`, `/api/mining`, `/api/subtrees`, `/api/handshakes`, `/api/block-headers`,
`/api/networks` and `/api/message-types`, which no page asks for. `/api/peer-rates`, an
average in one query that the overview shows, is left out too.

Of the pages: error texts, row highlights, the order of the Networks table, the health
scores of the overview, the search box (it filters the page that is shown) and view mode
of the list of peers, React's keys, the constructor of WebSocket throwing, StrictMode
(whose second mount is a `ChangeHandler`), and the frame between a change of the route and
the effect that follows it, which `Browse` takes as one step.

Of the queries: a failure of one query among those of one step, the topic `mining_ons`
and `handshakes`, whose tables stay empty, and retention (half a year behind) while a
visitor browses.
