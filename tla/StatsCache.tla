----------------------------- MODULE StatsCache -----------------------------
(***************************************************************************)
(* The statistics cache: CalculateStats, run once after the start and then *)
(* at every tick by two goroutines that do not know of each other; its one *)
(* cached row; /api/stats; and the Stats page, which asks for it when it   *)
(* is opened and every 30 seconds from then on.                            *)
(*                                                                         *)
(* A result is abstracted to when its calculation started, the total of    *)
(* its first queries and the sum over the networks of its later ones: two  *)
(* passes over the same five tables, of which any query may fail, while    *)
(* messages are stored and old ones are pruned.                            *)
(***************************************************************************)
EXTENDS Naturals, Sequences, FiniteSets

CONSTANTS
    Nothing,    \* the page has no result yet
    Pending,    \* a request the server has not answered yet
    MaxStored,  \* bound: messages in the database
    MaxPruned,  \* bound: messages that the retention pass deletes
    MaxStarts,  \* bound: calculations started
    MaxErrors,  \* bound: statements, or passes over the tables, that fail
    MaxCrashes, \* bound: process deaths
    MaxCalls    \* bound: requests of the page under way at once

Calculators == {"startup", "ticker"}
Counts == 0..(MaxStored + MaxPruned)

\* "short" is history: the networks' pass left out a table whose query failed, or some
\* of what the total counted was deleted before that pass.
Result == [at : 0..MaxStarts, total : Counts, networks : Counts, short : BOOLEAN]

\* What the page makes of a request that is refused or fails.
NoStats == [at |-> 0, total |-> 0, networks |-> 0, short |-> FALSE]

ASSUME StatsAssumption ==
    /\ {MaxStored, MaxPruned, MaxStarts, MaxErrors, MaxCrashes, MaxCalls} \subseteq Nat
    /\ Nothing \notin Result /\ Pending \notin Result

VARIABLES
    stored,   \* messages in the database
    pruned,   \* messages deleted so far
    starts,   \* calculations started so far: the clock of CalculatedAt
    place,    \* place[g]: where calculator g is
    draft,    \* draft[g]: the result it is putting together
    cache,    \* the rows of the cache table
    errors, crashes,
    open,     \* the Stats page is open
    shown,    \* its stats
    loading,  \* its isLoading
    calls,    \* its requests under way, oldest first, with their answers
    overlapped, \* history: two calculations have overlapped
    newest,     \* history: the latest start among the results saved (0: none)
    torn,       \* history: the last one that cleared the table did not save
    raced       \* history: the page's latest request began while another was under way

serverVars == <<stored, pruned, starts, place, draft, cache, errors, crashes, overlapped, newest, torn>>
pageVars == <<open, shown, loading, calls, raced>>
vars == <<serverVars, pageVars>>

Init ==
    /\ stored = 0 /\ pruned = 0 /\ starts = 0 /\ errors = 0 /\ crashes = 0
    /\ place = [g \in Calculators |-> "idle"]
    /\ draft = [g \in Calculators |-> NoStats]
    /\ cache = {}
    /\ open = FALSE /\ shown = Nothing /\ loading = TRUE /\ calls = << >>
    /\ overlapped = FALSE /\ newest = 0 /\ torn = FALSE /\ raced = FALSE

-----------------------------------------------------------------------------
(* The server.                                                             *)

\* The batch service stores a message.
StoreMessage ==
    /\ stored < MaxStored
    /\ stored' = stored + 1
    /\ UNCHANGED <<pruned, starts, place, draft, cache, errors, crashes, overlapped, newest, torn, pageVars>>

\* The retention pass deletes an old message.  A calculation that is counting the total
\* may have counted it already.
Prune ==
    /\ stored > 0
    /\ pruned < MaxPruned
    /\ stored' = stored - 1
    /\ pruned' = pruned + 1
    /\ \E counted \in SUBSET {g \in Calculators : place[g] = "total"} :
          draft' = [g \in Calculators |->
                      [draft[g] EXCEPT !.total = IF g \in counted THEN @ + 1 ELSE @,
                                       !.short = @ \/ g \in counted \/ place[g] = "networks"]]
    /\ UNCHANGED <<starts, place, cache, errors, crashes, overlapped, newest, torn, pageVars>>

Running(g) == place[g] \in {"total", "networks", "clear", "save"}
GoTo(g, p) == place' = [place EXCEPT ![g] = p]

\* The start-up goroutine ends after its calculation, the other one waits for a tick.
Return(g) ==
    /\ GoTo(g, IF g = "startup" THEN "ended" ELSE "idle")
    /\ draft' = [draft EXCEPT ![g] = NoStats]

Fault == errors < MaxErrors /\ errors' = errors + 1

\* Ten seconds after the start, or at a tick of the minute.
Begin(g) ==
    /\ place[g] = "idle"
    /\ starts < MaxStarts
    /\ starts' = starts + 1
    /\ draft' = [draft EXCEPT ![g] = [NoStats EXCEPT !.at = starts + 1]]
    /\ overlapped' = (overlapped \/ \E h \in Calculators \ {g} : Running(h))
    /\ GoTo(g, "total")
    /\ UNCHANGED <<stored, pruned, cache, errors, crashes, newest, torn, pageVars>>

\* The rest of the total, and the networks', are counted at one moment: what is stored
\* while a pass goes on is taken as stored before or after it.
Remaining(g) == draft[g].total + stored

\* mutant: a table is in the list twice
CountTwice(g) ==
    /\ place[g] = "total"
    /\ draft' = [draft EXCEPT ![g].total = Remaining(g) + stored]
    /\ GoTo(g, "networks")
    /\ UNCHANGED <<stored, pruned, starts, cache, errors, crashes, overlapped, newest, torn, pageVars>>
\* A table whose count fails is left out of the sum.
CountMessages(g) ==
    /\ place[g] = "total"
    /\ \/ draft' = [draft EXCEPT ![g].total = Remaining(g)] /\ UNCHANGED errors
       \/ Fault /\ \E part \in 0..Remaining(g) : draft' = [draft EXCEPT ![g].total = part]
    /\ GoTo(g, "networks")
    /\ UNCHANGED <<stored, pruned, starts, cache, crashes, overlapped, newest, torn, pageVars>>

\* So is one whose count by network fails.  Every row has its topic's network.
CountByNetwork(g) ==
    /\ place[g] = "networks"
    /\ \/ draft' = [draft EXCEPT ![g].networks = stored] /\ UNCHANGED errors
       \/ /\ Fault
          /\ \E part \in 0..stored :
                draft' = [draft EXCEPT ![g].networks = part, ![g].short = TRUE]
    /\ GoTo(g, "clear")
    /\ UNCHANGED <<stored, pruned, starts, cache, crashes, overlapped, newest, torn, pageVars>>

KeptRows == cache     \* mutant: the old rows are not deleted
RemainingRows == {}

ClearOld(g) ==
    /\ place[g] = "clear"
    /\ \/ cache' = RemainingRows /\ GoTo(g, "save") /\ UNCHANGED <<draft, errors>>
       \/ Fault /\ Return(g) /\ UNCHANGED cache
    /\ UNCHANGED <<stored, pruned, starts, crashes, overlapped, newest, torn, pageVars>>

SaveNew(g) ==
    /\ place[g] = "save"
    /\ \/ /\ cache' = cache \union {draft[g]}
          /\ newest' = IF draft[g].at > newest THEN draft[g].at ELSE newest
          /\ torn' = FALSE
          /\ UNCHANGED errors
       \/ Fault /\ torn' = TRUE /\ UNCHANGED <<cache, newest>>
    /\ Return(g)
    /\ UNCHANGED <<stored, pruned, starts, crashes, overlapped, pageVars>>

\* The process dies and is started again; its answers to pending requests never come.
Crash ==
    /\ crashes < MaxCrashes
    /\ crashes' = crashes + 1
    /\ torn' = (torn \/ \E g \in Calculators : place[g] = "save")
    /\ place' = [g \in Calculators |-> "idle"]
    /\ draft' = [g \in Calculators |-> NoStats]
    /\ calls' = [i \in DOMAIN calls |-> IF calls[i] = Pending THEN NoStats ELSE calls[i]]
    /\ UNCHANGED <<stored, pruned, starts, cache, errors, overlapped, newest, open, shown, loading, raced>>

\* GetCachedStats: the row that was calculated last.
CachedStats == CHOOSE r \in cache : \A s \in cache : s.at <= r.at

\* /api/stats; 503 without a row.
ApiStats == IF cache = {} THEN NoStats ELSE CachedStats

-----------------------------------------------------------------------------
(* The page.                                                               *)

Fetch ==
    /\ calls' = Append(calls, Pending)
    /\ loading' = TRUE

OpenPage ==
    /\ ~open
    /\ open' = TRUE
    /\ Fetch
    /\ raced' = FALSE
    /\ UNCHANGED <<shown, serverVars>>

\* The interval fires whether or not the last request has been answered.
Refresh ==
    /\ open
    /\ Len(calls) < MaxCalls
    /\ Fetch
    /\ raced' = (calls # << >>)
    /\ UNCHANGED <<open, shown, serverVars>>

\* The server answers, or the connection fails.
Answer(i) ==
    /\ calls[i] = Pending
    /\ \E a \in {ApiStats, NoStats} : calls' = [calls EXCEPT ![i] = a]
    /\ UNCHANGED <<open, shown, loading, raced, serverVars>>

Without(s, i) == SubSeq(s, 1, i - 1) \o SubSeq(s, i + 1, Len(s))

\* getMessageStats returns a result or, after an error, zeros.
Arrive(i) ==
    /\ calls[i] # Pending
    /\ shown' = calls[i]
    /\ loading' = FALSE
    /\ calls' = Without(calls, i)
    /\ UNCHANGED <<open, raced, serverVars>>

AllCalls == calls     \* mutant: the state lives outside the component
HeardAfterLeaving == << >>

\* The page is left: its interval is cleared, what is under way is ignored.
LeavePage ==
    /\ open
    /\ open' = FALSE /\ shown' = Nothing /\ loading' = TRUE /\ calls' = HeardAfterLeaving /\ raced' = FALSE
    /\ UNCHANGED serverVars

Calculate(g) ==
    \/ Begin(g)
    \/ CountMessages(g)
    \/ CountByNetwork(g)
    \/ ClearOld(g)
    \/ SaveNew(g)

Next ==
    \/ StoreMessage
    \/ Prune
    \/ \E g \in Calculators : Calculate(g)
    \/ Crash
    \/ OpenPage
    \/ Refresh
    \/ \E i \in DOMAIN calls : Answer(i) \/ Arrive(i)
    \/ LeavePage

Spec == Init /\ [][Next]_vars

-----------------------------------------------------------------------------
(* What the page draws.                                                    *)

\* The skeleton while it loads, a notice without a result, or the result.
OnScreen == IF loading \/ shown = Nothing THEN Nothing ELSE shown

\* The networks' bars: each is drawn in per cent of the total, and without networks
\* there is none.  Infinite stands for the quotient by a total of zero.
Infinite == 1000
BarWidth(s) ==
    IF s.networks = 0 THEN 0
    ELSE IF s.total = 0 THEN Infinite
    ELSE (100 * s.networks) \div s.total

-----------------------------------------------------------------------------
(* Properties.                                                             *)

\* The table is empty, once a result was saved, only between a calculation's DELETE and
\* its INSERT or after one that got no further: a probe of /api/stats fails then only.
\* As long as no two calculations overlap it holds one row, the latest one's.
CacheServesLast ==
    /\ cache = {} => \/ newest = 0
                     \/ \E g \in Calculators : place[g] = "save"
                     \/ torn
    /\ cache # {} /\ ~overlapped => Cardinality(cache) = 1 /\ CachedStats.at = newest

\* The page never replaces a result by an earlier one unless two of its requests, or two
\* calculations, overlapped; zeros (no answer) may come at any time.
PageGoesBackOnlyByRace ==
    [][shown # Nothing /\ shown' # Nothing =>
         (shown'.at < shown.at => shown'.at = 0 \/ raced \/ overlapped)]_vars

\* The networks' bars together are short of the whole only in a result whose calculation
\* lost something between its two passes: a query by network failed, or rows it had
\* counted were pruned.  Messages that arrive in between, tables left out of the total,
\* overlapping calculations and late answers only make them reach or exceed it.
BarsShortOnlyByLoss ==
    OnScreen # Nothing /\ ~OnScreen.short =>
        OnScreen.total = 0 \/ BarWidth(OnScreen) >= 100

=============================================================================
