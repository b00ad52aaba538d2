-------------------------- MODULE StatsCacheProofs --------------------------
(***************************************************************************)
(* Proofs about StatsCache, for any number of messages, calculations,      *)
(* failing statements, restarts and requests.                              *)
(***************************************************************************)
EXTENDS StatsCache, FiniteSetTheorems, SequenceTheorems, WellFoundedInduction, TLAPS

-----------------------------------------------------------------------------
(* The inductive invariants.                                               *)

\* The networks' messages are all of the total's, unless some were lost.
Whole(r) == r.short \/ r.networks >= r.total

ServerType ==
    /\ stored \in 0..MaxStored /\ pruned \in 0..MaxPruned /\ starts \in 0..MaxStarts /\ errors \in Nat
    /\ place \in [Calculators -> {"idle", "total", "networks", "clear", "save", "ended"}]
    /\ draft \in [Calculators -> Result]
    /\ cache \subseteq Result
    /\ overlapped \in BOOLEAN /\ torn \in BOOLEAN
    /\ newest \in 0..starts

\* What a calculator has counted.  While it counts the total it has counted only messages
\* that were pruned since, and lost those; then, if nothing is lost, the total is not
\* ahead of the messages, and the networks, counted later, cover it.
DraftInv ==
    \A g \in Calculators :
        /\ place[g] \in {"idle", "total", "ended"} => draft[g].total <= pruned
        /\ place[g] = "total" => draft[g].short \/ draft[g].total = 0
        /\ place[g] = "networks" => draft[g].short \/ draft[g].total <= stored
        /\ place[g] \in {"clear", "save"} => Whole(draft[g])
        /\ Running(g) => draft[g].at \in 1..starts

\* Without an overlap one calculator runs at most, it is the latest one, and the table
\* it has cleared stays empty until it saves.
AloneInv ==
    ~overlapped =>
        /\ \A g, h \in Calculators : Running(g) /\ Running(h) => g = h
        /\ \A g \in Calculators : Running(g) => draft[g].at = starts
        /\ \A g \in Calculators : place[g] = "save" => cache = {}
        /\ cache = {} \/ \E r \in cache : cache = {r} /\ r.at = newest

EmptyInv ==
    cache = {} => \/ newest = 0
                  \/ \E g \in Calculators : place[g] = "save"
                  \/ torn

CacheInv == \A r \in cache : Whole(r) /\ r.at \in 1..newest

ServerInv == ServerType /\ DraftInv /\ AloneInv /\ EmptyInv /\ CacheInv

PageType ==
    /\ open \in BOOLEAN /\ loading \in BOOLEAN /\ raced \in BOOLEAN
    /\ shown \in Result \union {Nothing}
    /\ calls \in Seq(Result \union {Pending})

\* What the page has, or is about to have, is a result that was saved, or zeros.
Saved(r) == r.at \in 0..newest /\ Whole(r)

\* The page's results were saved; without a race it waits for one answer at most, and
\* when no calculations overlapped either, that answer is no older than what it shows.
AnswersInv ==
    /\ shown # Nothing => Saved(shown)
    /\ \A i \in DOMAIN calls : calls[i] # Pending => Saved(calls[i])
    /\ ~raced => Len(calls) <= 1
    /\ ~raced /\ ~overlapped /\ shown # Nothing =>
          \A i \in DOMAIN calls :
             calls[i] # Pending => calls[i].at = 0 \/ calls[i].at >= shown.at

\* A page that is not open waits for nothing.
ClosedInv == ~open => calls = << >> /\ shown = Nothing

PageInv == ServerInv /\ PageType /\ AnswersInv /\ ClosedInv

-----------------------------------------------------------------------------
(* The server.                                                             *)

LEMMA Parameters == MaxStored \in Nat /\ MaxPruned \in Nat /\ MaxStarts \in Nat /\ MaxCalls \in Nat
BY StatsAssumption

LEMMA NoStatsResult ==
    /\ NoStats \in Result /\ Whole(NoStats)
    /\ NoStats.at = 0 /\ NoStats.total = 0 /\ NoStats.networks = 0 /\ NoStats.short = FALSE
BY Parameters DEF NoStats, Result, Counts, Whole

LEMMA InitServer == ASSUME Init PROVE ServerInv
<1> USE NoStatsResult, Parameters
<1>1. ServerType
  <2>1. place \in [Calculators -> {"idle", "total", "networks", "clear", "save", "ended"}]
        BY DEF Init
  <2>2. draft \in [Calculators -> Result]
        BY DEF Init
  <2>3. stored \in 0..MaxStored /\ pruned \in 0..MaxPruned /\ starts \in 0..MaxStarts /\ errors \in Nat /\ newest \in 0..starts
        BY DEF Init
  <2> QED BY <2>1, <2>2, <2>3 DEF Init, ServerType
<1>2. DraftInv
      BY DEF Init, DraftInv, NoStats, Running
<1>3. AloneInv /\ EmptyInv /\ CacheInv
      BY DEF Init, AloneInv, EmptyInv, CacheInv, Running
<1> QED BY <1>1, <1>2, <1>3 DEF ServerInv

LEMMA BeginServer ==
    ASSUME ServerInv, NEW g \in Calculators, Begin(g)
    PROVE  ServerInv'
<1> DEFINE new == [NoStats EXCEPT !.at = starts + 1]
<1>1. /\ new \in Result /\ new.total = 0 /\ new.at = starts + 1
      /\ starts \in Nat /\ stored \in Nat /\ pruned \in Nat
  <2>1. starts + 1 \in 0..MaxStarts /\ starts \in Nat /\ stored \in Nat /\ pruned \in Nat
        BY Parameters DEF Begin, ServerInv, ServerType
  <2>2. new \in Result /\ new.total = 0 /\ new.at = starts + 1
        BY <2>1, NoStatsResult DEF Result
  <2> QED BY <2>1, <2>2
<1>2. /\ place' = [place EXCEPT ![g] = "total"] /\ draft' = [draft EXCEPT ![g] = new]
      /\ starts' = starts + 1 /\ UNCHANGED <<stored, pruned, cache, errors, torn, newest>>
      /\ overlapped' = (overlapped \/ \E h \in Calculators \ {g} : Running(h))
      BY DEF Begin, GoTo
<1> HIDE DEF new
<1>3. ServerType'
      BY <1>1, <1>2, Parameters DEF Begin, ServerInv, ServerType
<1>4. /\ place'[g] = "total" /\ draft'[g] = new
      /\ \A h \in Calculators \ {g} : place'[h] = place[h] /\ draft'[h] = draft[h]
      BY <1>2 DEF ServerInv, ServerType
<1>5. DraftInv'
      BY <1>1, <1>2, <1>4 DEF ServerInv, DraftInv, Running, ServerType
<1>6. AloneInv'
      BY <1>1, <1>2, <1>4 DEF ServerInv, AloneInv, Running
<1>7. EmptyInv'
      BY <1>2, <1>4 DEF ServerInv, EmptyInv, Begin
<1>8. CacheInv'
      BY <1>2 DEF ServerInv, CacheInv
<1> QED BY <1>3, <1>5, <1>6, <1>7, <1>8 DEF ServerInv

\* The counts of a draft.
LEMMA DraftMoves ==
    ASSUME ServerInv, NEW g \in Calculators, NEW r \in Result,
           draft' = [draft EXCEPT ![g] = r], r.at = draft[g].at, place[g] \in {"total", "networks"},
           \/ place' = [place EXCEPT ![g] = "networks"] /\ (r.short \/ r.total <= stored)
           \/ place' = [place EXCEPT ![g] = "clear"] /\ Whole(r),
           UNCHANGED <<stored, pruned, starts, cache, overlapped, newest, torn>>, errors' \in Nat
    PROVE  ServerInv'
<1>1. stored \in Nat /\ starts \in Nat
      BY Parameters DEF ServerInv, ServerType
<1>2. r.at \in 1..starts
      BY DEF ServerInv, DraftInv, Running
<1>3. /\ draft'[g] = r /\ place'[g] \in {"networks", "clear"}
      /\ place'[g] = "networks" => r.short \/ r.total <= stored
      /\ place'[g] = "clear" => Whole(r)
      /\ \A h \in Calculators \ {g} : place'[h] = place[h] /\ draft'[h] = draft[h]
      BY DEF ServerInv, ServerType
<1>4. ServerType'
      BY DEF ServerInv, ServerType
<1>5. DraftInv'
      BY <1>1, <1>2, <1>3 DEF ServerInv, DraftInv, Running, Whole
<1>6. AloneInv'
      BY <1>3 DEF ServerInv, AloneInv, Running
<1>7. EmptyInv' /\ CacheInv'
  <2>1. place[g] # "save"
        OBVIOUS
  <2> QED BY <1>3, <2>1 DEF ServerInv, EmptyInv, CacheInv
<1> QED BY <1>4, <1>5, <1>6, <1>7 DEF ServerInv

LEMMA CountTotalServer ==
    ASSUME ServerInv, NEW g \in Calculators, CountMessages(g)
    PROVE  ServerInv'
<1>1. /\ UNCHANGED <<stored, pruned, starts, cache, overlapped, newest, torn>> /\ errors' \in Nat
      /\ place[g] = "total" /\ place' = [place EXCEPT ![g] = "networks"]
      BY DEF CountMessages, Fault, GoTo, ServerInv, ServerType
<1>2. /\ draft[g] \in Result /\ draft[g].total \in Nat /\ draft[g].total <= pruned
      /\ draft[g].short \/ draft[g].total = 0
      /\ stored \in 0..MaxStored /\ pruned \in 0..MaxPruned
      BY <1>1, Parameters DEF ServerInv, ServerType, DraftInv, Result, Counts
<1>3. PICK n \in 0..Remaining(g) : draft' = [draft EXCEPT ![g].total = n]
  <2>1. Remaining(g) \in Nat
        BY <1>2, Parameters DEF Remaining
  <2> QED BY <2>1 DEF CountMessages
<1> DEFINE r == [draft[g] EXCEPT !.total = n]
<1>4. n \in Counts /\ (draft[g].short \/ n <= stored)
      BY <1>2, Parameters DEF Remaining, Counts
<1>5. r \in Result /\ r.at = draft[g].at /\ (r.short \/ r.total <= stored)
      BY <1>2, <1>4 DEF Result
<1>6. draft' = [draft EXCEPT ![g] = r]
      BY <1>3
<1> HIDE DEF r
<1> QED BY <1>1, <1>5, <1>6, DraftMoves

LEMMA CountNetworksServer ==
    ASSUME ServerInv, NEW g \in Calculators, CountByNetwork(g)
    PROVE  ServerInv'
<1>1. /\ UNCHANGED <<stored, pruned, starts, cache, overlapped, newest, torn>> /\ errors' \in Nat
      /\ place[g] = "networks" /\ place' = [place EXCEPT ![g] = "clear"]
      BY DEF CountByNetwork, Fault, GoTo, ServerInv, ServerType
<1>2. /\ draft[g] \in Result /\ (draft[g].short \/ draft[g].total <= stored)
      /\ stored \in 0..MaxStored
      BY <1>1 DEF ServerInv, ServerType, DraftInv
<1>3. CASE draft' = [draft EXCEPT ![g].networks = stored]
  <2> DEFINE r == [draft[g] EXCEPT !.networks = stored]
  <2>1. stored \in Counts
        BY <1>2, Parameters DEF Counts
  <2>2. r \in Result /\ r.at = draft[g].at /\ Whole(r)
        BY <1>2, <2>1, Parameters DEF Result, Counts, Whole
  <2>3. draft' = [draft EXCEPT ![g] = r]
        BY <1>3
  <2> HIDE DEF r
  <2> QED BY <1>1, <2>2, <2>3, DraftMoves
<1>4. ASSUME NEW part \in 0..stored,
             draft' = [draft EXCEPT ![g].networks = part, ![g].short = TRUE]
      PROVE  ServerInv'
  <2> DEFINE r == [draft[g] EXCEPT !.networks = part, !.short = TRUE]
  <2>1. part \in Counts
        BY <1>2, Parameters DEF Counts
  <2>2. r \in Result /\ r.at = draft[g].at /\ Whole(r)
        BY <1>2, <2>1 DEF Result, Whole
  <2>3. draft' = [draft EXCEPT ![g] = r]
        BY <1>2, <1>4 DEF ServerInv, ServerType
  <2> HIDE DEF r
  <2> QED BY <1>1, <2>2, <2>3, DraftMoves
<1> QED BY <1>3, <1>4 DEF CountByNetwork

\* A message is pruned: whoever has counted it loses it.
LEMMA PruneServer == ASSUME ServerInv, Prune PROVE ServerInv'
<1>1. PICK counted \in SUBSET {g \in Calculators : place[g] = "total"} :
         draft' = [g \in Calculators |->
                     [draft[g] EXCEPT !.total = IF g \in counted THEN @ + 1 ELSE @,
                                      !.short = @ \/ g \in counted \/ place[g] = "networks"]]
      BY DEF Prune
<1>2. /\ stored' = stored - 1 /\ pruned' = pruned + 1 /\ stored > 0 /\ pruned < MaxPruned
      /\ UNCHANGED <<starts, place, cache, errors, overlapped, newest, torn>>
      /\ stored \in 0..MaxStored /\ pruned \in 0..MaxPruned
      /\ MaxStored \in Nat /\ MaxPruned \in Nat
      BY Parameters DEF Prune, ServerInv, ServerType
<1>3. ASSUME NEW g \in Calculators
      PROVE  /\ draft'[g] \in Result /\ draft'[g].at = draft[g].at
             /\ draft'[g].networks = draft[g].networks
             /\ draft'[g].total \in Nat /\ draft[g].total \in Nat
             /\ draft'[g].short <=> (draft[g].short \/ g \in counted \/ place[g] = "networks")
             /\ \/ g \in counted /\ place[g] = "total" /\ draft'[g].total = draft[g].total + 1
                \/ g \notin counted /\ draft'[g].total = draft[g].total
  <2> DEFINE t == IF g \in counted THEN draft[g].total + 1 ELSE draft[g].total
             b == draft[g].short \/ g \in counted \/ place[g] = "networks"
  <2>1. draft'[g] = [draft[g] EXCEPT !.total = t, !.short = b]
        BY <1>1
  <2>2. /\ draft[g] \in Result /\ draft[g].total \in Counts
        /\ g \in counted => place[g] = "total" /\ draft[g].total <= pruned
        BY <1>1 DEF ServerInv, ServerType, DraftInv, Result
  <2>3. t \in Counts /\ t \in Nat /\ draft[g].total \in Nat
        BY <1>2, <2>2 DEF Counts
  <2>4. b \in BOOLEAN
        OBVIOUS
  <2>5. /\ \/ g \in counted /\ t = draft[g].total + 1
           \/ g \notin counted /\ t = draft[g].total
        OBVIOUS
  <2>6. b <=> (draft[g].short \/ g \in counted \/ place[g] = "networks")
        OBVIOUS
  <2> HIDE DEF t, b
  <2>7. /\ draft'[g] \in Result /\ draft'[g].at = draft[g].at
        /\ draft'[g].networks = draft[g].networks
        /\ draft'[g].total = t /\ draft'[g].short = b
        BY <2>1, <2>2, <2>3, <2>4 DEF Result
  <2> QED BY <2>2, <2>3, <2>5, <2>6, <2>7
<1>4. draft' \in [Calculators -> Result]
  <2>1. DOMAIN draft' = Calculators /\ draft' = [g \in Calculators |-> draft'[g]]
        BY <1>1
  <2> QED BY <1>3, <2>1
<1>5. ServerType'
      BY <1>2, <1>4 DEF ServerInv, ServerType
<1>6. DraftInv'
  <2> SUFFICES ASSUME NEW g \in Calculators
      PROVE  /\ place[g] \in {"idle", "total", "ended"} => draft'[g].total <= pruned'
             /\ place[g] = "total" => draft'[g].short \/ draft'[g].total = 0
             /\ place[g] = "networks" => draft'[g].short \/ draft'[g].total <= stored'
             /\ place[g] \in {"clear", "save"} => Whole(draft'[g])
             /\ Running(g) => draft'[g].at \in 1..starts
      BY <1>2 DEF DraftInv, Running, Whole
  <2>1. place[g] \in {"idle", "total", "ended"} => draft'[g].total <= pruned'
        BY <1>2, <1>3 DEF ServerInv, DraftInv
  <2>2. place[g] = "total" => draft'[g].short \/ draft'[g].total = 0
        BY <1>3 DEF ServerInv, DraftInv
  <2>3. place[g] = "networks" => draft'[g].short
        BY <1>3
  <2>4. place[g] \in {"clear", "save"} => Whole(draft'[g])
    <3>1. place[g] \in {"clear", "save"} => g \notin counted
          BY <1>1
    <3> QED BY <1>3, <3>1 DEF ServerInv, DraftInv, Whole
  <2>5. Running(g) => draft'[g].at \in 1..starts
        BY <1>3 DEF ServerInv, DraftInv
  <2> QED BY <2>1, <2>2, <2>3, <2>4, <2>5
<1>7. AloneInv'
      BY <1>2, <1>3 DEF ServerInv, AloneInv, Running
<1>8. EmptyInv' /\ CacheInv'
      BY <1>2 DEF ServerInv, EmptyInv, CacheInv
<1> QED BY <1>5, <1>6, <1>7, <1>8 DEF ServerInv

\* A calculator that returns has no draft.
LEMMA Returned ==
    ASSUME ServerInv, NEW g \in Calculators, Return(g)
    PROVE  /\ place'[g] \in {"idle", "ended"} /\ draft'[g] = NoStats
           /\ \A h \in Calculators \ {g} : place'[h] = place[h] /\ draft'[h] = draft[h]
           /\ place' \in [Calculators -> {"idle", "total", "networks", "clear", "save", "ended"}]
           /\ draft' \in [Calculators -> Result]
BY NoStatsResult DEF Return, GoTo, ServerInv, ServerType

LEMMA ClearServer ==
    ASSUME ServerInv, NEW g \in Calculators, ClearOld(g)
    PROVE  ServerInv'
<1>1. /\ UNCHANGED <<stored, pruned, starts, overlapped, newest, torn>> /\ errors' \in Nat
      /\ place[g] = "clear" /\ stored \in Nat /\ pruned \in Nat
      BY Parameters DEF ClearOld, Fault, ServerInv, ServerType
<1>2. CASE cache' = RemainingRows /\ GoTo(g, "save") /\ UNCHANGED draft
  <2>1. /\ cache' = {} /\ place'[g] = "save"
        /\ \A h \in Calculators \ {g} : place'[h] = place[h]
        /\ place' \in [Calculators -> {"idle", "total", "networks", "clear", "save", "ended"}]
        BY <1>2 DEF RemainingRows, GoTo, ServerInv, ServerType
  <2>2. ServerType' /\ DraftInv'
        BY <1>1, <1>2, <2>1 DEF ServerInv, ServerType, DraftInv, Running
  <2>3. AloneInv'
        BY <1>1, <1>2, <2>1 DEF ServerInv, AloneInv, Running
  <2>4. EmptyInv' /\ CacheInv'
        BY <2>1 DEF EmptyInv, CacheInv
  <2> QED BY <2>2, <2>3, <2>4 DEF ServerInv
<1>3. CASE Return(g) /\ UNCHANGED cache
  <2> USE <1>3, Returned
  <2>1. ServerType'
        BY <1>1 DEF ServerInv, ServerType
  <2>2. DraftInv'
        BY <1>1, NoStatsResult DEF ServerInv, DraftInv, Running
  <2>3. AloneInv'
        BY <1>1 DEF ServerInv, AloneInv, Running
  <2>4. EmptyInv' /\ CacheInv'
        BY <1>1 DEF ServerInv, EmptyInv, CacheInv
  <2> QED BY <2>1, <2>2, <2>3, <2>4 DEF ServerInv
<1> QED BY <1>2, <1>3 DEF ClearOld

LEMMA SaveServer ==
    ASSUME ServerInv, NEW g \in Calculators, SaveNew(g)
    PROVE  ServerInv'
<1> Return(g)
    BY DEF SaveNew
<1> USE Returned
<1>1. /\ UNCHANGED <<stored, pruned, starts, overlapped>> /\ errors' \in Nat
      /\ place[g] = "save" /\ stored \in Nat /\ pruned \in Nat /\ starts \in Nat /\ newest \in 0..starts
      /\ draft[g] \in Result /\ draft[g].at \in 1..starts /\ Whole(draft[g])
      BY Parameters DEF SaveNew, Fault, ServerInv, ServerType, DraftInv, Running
<1>2. DraftInv'
      BY <1>1, NoStatsResult DEF ServerInv, DraftInv, Running
<1>3. CASE /\ cache' = cache \union {draft[g]}
           /\ newest' = IF draft[g].at > newest THEN draft[g].at ELSE newest
           /\ torn' = FALSE
  <2>1. newest' \in 0..starts /\ newest <= newest' /\ draft[g].at <= newest'
        BY <1>1, <1>3
  <2>2. ServerType'
        BY <1>1, <1>3, <2>1 DEF ServerInv, ServerType
  <2>3. EmptyInv'
        BY <1>3 DEF EmptyInv
  <2>4. CacheInv'
    <3>1. \A r \in cache : r.at \in 1..newest'
          BY <1>1, <2>1 DEF ServerInv, CacheInv
    <3>2. draft[g].at \in 1..newest'
          BY <1>1, <2>1
    <3> QED BY <1>1, <1>3, <3>1, <3>2 DEF ServerInv, CacheInv
  <2>5. ASSUME ~overlapped
        PROVE  cache' = {draft[g]} /\ draft[g].at = newest'
        BY <1>1, <1>3, <2>1, <2>5 DEF ServerInv, AloneInv, Running
  <2>6. AloneInv'
        BY <1>1, <2>5 DEF ServerInv, AloneInv, Running
  <2> QED BY <1>2, <2>2, <2>3, <2>4, <2>6 DEF ServerInv
<1>4. CASE torn' = TRUE /\ UNCHANGED <<cache, newest>>
  <2>1. ServerType'
        BY <1>1, <1>4 DEF ServerInv, ServerType
  <2>2. AloneInv'
        BY <1>1, <1>4 DEF ServerInv, AloneInv, Running
  <2>3. EmptyInv' /\ CacheInv'
        BY <1>4 DEF ServerInv, EmptyInv, CacheInv
  <2> QED BY <1>2, <2>1, <2>2, <2>3 DEF ServerInv
<1> QED BY <1>3, <1>4 DEF SaveNew

LEMMA CrashServer == ASSUME ServerInv, Crash PROVE ServerInv'
<1>1. /\ UNCHANGED <<stored, pruned, starts, cache, errors, overlapped, newest>>
      /\ \A g \in Calculators : place'[g] = "idle" /\ draft'[g] = NoStats
      /\ torn' = (torn \/ \E g \in Calculators : place[g] = "save")
      BY DEF Crash
<1>2. ServerType'
      BY <1>1, NoStatsResult DEF Crash, ServerInv, ServerType
<1>3. DraftInv'
      BY <1>1, NoStatsResult, Parameters DEF ServerInv, ServerType, DraftInv, Running
<1>4. AloneInv'
      BY <1>1 DEF ServerInv, AloneInv, Running
<1>5. EmptyInv' /\ CacheInv'
      BY <1>1 DEF ServerInv, EmptyInv, CacheInv
<1> QED BY <1>2, <1>3, <1>4, <1>5 DEF ServerInv

LEMMA StoreServer == ASSUME ServerInv, StoreMessage PROVE ServerInv'
<1>1. /\ stored' = stored + 1 /\ stored < MaxStored /\ stored \in Nat
      /\ UNCHANGED <<pruned, starts, place, draft, cache, errors, overlapped, newest, torn>>
      BY Parameters DEF StoreMessage, ServerInv, ServerType
<1>2. ServerType'
      BY <1>1, Parameters DEF ServerInv, ServerType
<1>3. DraftInv'
  <2>1. \A g \in Calculators : draft[g].total \in Nat
        BY Parameters DEF ServerInv, ServerType, Result, Counts
  <2> QED BY <1>1, <2>1 DEF ServerInv, DraftInv, Running, Whole
<1>4. AloneInv' /\ EmptyInv' /\ CacheInv'
      BY <1>1 DEF ServerInv, AloneInv, EmptyInv, CacheInv, Running
<1> QED BY <1>2, <1>3, <1>4 DEF ServerInv

LEMMA ServerStep == ASSUME ServerInv, [Next]_vars PROVE ServerInv'
<1>1. CASE UNCHANGED serverVars
      BY <1>1 DEF serverVars, ServerInv, ServerType, DraftInv, AloneInv, EmptyInv, CacheInv, Running
<1> QED BY <1>1, BeginServer, PruneServer, CountTotalServer, CountNetworksServer, ClearServer, SaveServer, CrashServer, StoreServer
        DEF Next, vars, Calculate, OpenPage, Refresh, Answer, Arrive, LeavePage

\* The cache is empty only while a calculation writes it, or after one that failed to,
\* and as long as calculations do not overlap it is one row, that of the latest.
THEOREM StatsCacheServesLast == Spec => []CacheServesLast
<1>1. Init => ServerInv
      BY InitServer
<1>2. ServerInv /\ [Next]_vars => ServerInv'
      BY ServerStep
<1>3. ServerInv => CacheServesLast
  <2> SUFFICES ASSUME ServerInv, cache # {}, ~overlapped
               PROVE  Cardinality(cache) = 1 /\ CachedStats.at = newest
      BY DEF CacheServesLast, ServerInv, EmptyInv
  <2>1. PICK r \in cache : cache = {r} /\ r.at = newest
        BY DEF ServerInv, AloneInv
  <2>2. Cardinality(cache) = 1
        BY <2>1, FS_Singleton
  <2>3. newest <= newest
        BY Parameters DEF ServerInv, ServerType
  <2>4. CachedStats = r
        BY <2>1, <2>3 DEF CachedStats
  <2> QED BY <2>1, <2>2, <2>4
<1> QED BY <1>1, <1>2, <1>3, PTL DEF Spec

-----------------------------------------------------------------------------
(* Answers.                                                                *)

\* A set of numbers that has a bound has a greatest one.
LEMMA GreatestExists ==
    ASSUME NEW n \in Nat, NEW S \in SUBSET (0..n), S # {}
    PROVE  \E x \in S : \A y \in S : y <= x
<1> DEFINE T == {n - x : x \in S}
<1>1. T \subseteq Nat /\ T # {}
  <2>1. \A x \in S : x \in 0..n
        OBVIOUS
  <2>2. \A x \in 0..n : n - x \in Nat
        OBVIOUS
  <2> QED BY <2>1, <2>2
<1>2. PICK d \in T : \A e \in T : ~(<<e, d>> \in OpToRel(<, Nat))
      BY <1>1, NatLessThanWellFounded, WFMin
<1>3. \A e \in T : ~(e < d)
      BY <1>1, <1>2 DEF OpToRel
<1>4. PICK x \in S : d = n - x
      BY <1>2
<1>5. \A y \in S : y <= x
      BY <1>3, <1>4
<1> QED BY <1>4, <1>5

\* The row that was calculated last is one of the table's.
LEMMA CachedIsRow == ASSUME ServerInv, cache # {} PROVE CachedStats \in cache
<1> DEFINE times == {r.at : r \in cache}
<1>1. times \in SUBSET (0..MaxStarts) /\ times # {}
      BY DEF ServerInv, ServerType, Result
<1>2. PICK latest \in times : \A time \in times : time <= latest
      BY <1>1, GreatestExists, Parameters
<1>3. PICK r \in cache : \A s \in cache : s.at <= r.at
      BY <1>2
<1> QED BY <1>3 DEF CachedStats

\* What /api/stats answers.
LEMMA ApiAnswer ==
    ASSUME ServerInv, NEW a \in {ApiStats, NoStats}
    PROVE  /\ a \in Result /\ Whole(a) /\ a.at \in 0..newest
           /\ ~overlapped => a.at = 0 \/ a.at = newest
<1>1. NoStats \in Result /\ Whole(NoStats) /\ NoStats.at = 0 /\ newest \in Nat
      BY NoStatsResult, Parameters DEF NoStats, ServerInv, ServerType
<1>2. CASE a = NoStats
      BY <1>1, <1>2
<1>3. CASE cache # {} /\ a = CachedStats
  <2>1. a \in cache
        BY <1>3, CachedIsRow
  <2>2. a \in Result /\ Whole(a) /\ a.at \in 1..newest
        BY <2>1 DEF ServerInv, ServerType, CacheInv
  <2>3. ~overlapped => a.at = newest
        BY <2>1 DEF ServerInv, AloneInv
  <2> QED BY <1>1, <2>2, <2>3
<1> QED BY <1>2, <1>3 DEF ApiStats

\* Taking an element out of a sequence keeps the others.
LEMMA WithoutElement ==
    ASSUME NEW S, NEW s \in Seq(S), NEW i \in 1..Len(s)
    PROVE  /\ Without(s, i) \in Seq(S)
           /\ Len(Without(s, i)) = Len(s) - 1
           /\ \A k \in 1..Len(Without(s, i)) :
                \E j \in 1..Len(s) : Without(s, i)[k] = s[j]
<1> DEFINE head == SubSeq(s, 1, i - 1)
           tail == SubSeq(s, i + 1, Len(s))
<1>1. Len(s) \in Nat /\ i \in Int /\ 1 <= i /\ i <= Len(s) /\ \A j \in 1..Len(s) : s[j] \in S
      OBVIOUS
<1>2. /\ head \in Seq(S) /\ Len(head) = i - 1
      /\ \A k \in 1..(i - 1) : head[k] = s[k]
      BY <1>1, SubSeqProperties
<1>3. /\ tail \in Seq(S) /\ Len(tail) = Len(s) - i
      /\ \A k \in 1..(Len(s) - i) : tail[k] = s[i + k]
  <2>1. \A j \in (i + 1)..Len(s) : s[j] \in S
        BY <1>1
  <2>2. /\ tail \in Seq(S)
        /\ Len(tail) = IF i + 1 <= Len(s) THEN Len(s) - (i + 1) + 1 ELSE 0
        /\ \A k \in 1..(Len(s) - (i + 1) + 1) : tail[k] = s[i + 1 + k - 1]
        BY <1>1, <2>1, SubSeqProperties
  <2>3. \A k \in 1..(Len(s) - i) : i + 1 + k - 1 = i + k
        BY <1>1
  <2> QED BY <1>1, <2>2, <2>3
<1> HIDE DEF head, tail
<1>4. /\ head \o tail \in Seq(S) /\ Len(head \o tail) = Len(s) - 1
      /\ \A k \in 1..(Len(s) - 1) :
           (head \o tail)[k] = IF k <= i - 1 THEN head[k] ELSE tail[k - (i - 1)]
      BY <1>1, <1>2, <1>3, ConcatProperties
<1>5. ASSUME NEW k \in 1..(Len(s) - 1)
      PROVE  \E j \in 1..Len(s) : (head \o tail)[k] = s[j]
  <2>1. CASE k <= i - 1
        BY <1>1, <1>2, <1>4, <2>1
  <2>2. CASE k > i - 1
    <3>1. k - (i - 1) \in 1..(Len(s) - i) /\ i + (k - (i - 1)) = k + 1 /\ k + 1 \in 1..Len(s)
          BY <1>1, <2>2
    <3>2. (head \o tail)[k] = s[k + 1]
          BY <1>1, <1>3, <1>4, <2>2, <3>1
    <3> QED BY <3>1, <3>2
  <2>3. k \in Int /\ i - 1 \in Int
        BY <1>1
  <2>4. k <= i - 1 \/ k > i - 1
        BY <2>3
  <2> QED BY <2>1, <2>2, <2>4
<1>6. Without(s, i) = head \o tail
      BY DEF Without, head, tail
<1> QED BY <1>4, <1>5, <1>6

-----------------------------------------------------------------------------
(* The page.                                                               *)

\* The latest saved start never decreases and an overlap is not forgotten.
LEMMA ServerHistory ==
    ASSUME ServerInv, [Next]_vars
    PROVE  newest <= newest' /\ (overlapped => overlapped')
<1>1. newest \in Nat /\ draft \in [Calculators -> Result]
      BY Parameters DEF ServerInv, ServerType
<1>2. CASE UNCHANGED <<newest, overlapped>>
      BY <1>1, <1>2
<1>3. ASSUME NEW g \in Calculators, SaveNew(g)
      PROVE  newest <= newest' /\ (overlapped => overlapped')
      BY <1>1, <1>3 DEF SaveNew, Result
<1>4. ASSUME NEW g \in Calculators, Begin(g)
      PROVE  newest <= newest' /\ (overlapped => overlapped')
  <2>1. newest' = newest /\ newest <= newest'
        BY <1>1, <1>4 DEF Begin
  <2>2. overlapped => overlapped'
        BY <1>4 DEF Begin
  <2> QED BY <2>1, <2>2
<1> QED BY <1>2, <1>3, <1>4
        DEF Next, vars, serverVars, Calculate, StoreMessage, Prune, CountMessages, CountByNetwork,
            ClearOld, Crash, OpenPage, Refresh, Answer, Arrive, LeavePage

\* A saved result stays one.
LEMMA SavedStays ==
    ASSUME ServerInv, newest' \in Nat, newest <= newest', NEW r, Saved(r)
    PROVE  Saved(r)'
BY Parameters DEF Saved, ServerInv, ServerType

LEMMA InitPage == ASSUME Init PROVE PageInv
<1>1. PageType
  <2>1. calls \in Seq(Result \union {Pending})
        BY EmptySeq DEF Init
  <2>2. shown \in Result \union {Nothing} /\ open \in BOOLEAN /\ loading \in BOOLEAN /\ raced \in BOOLEAN
        BY DEF Init
  <2> QED BY <2>1, <2>2 DEF PageType
<1>2. AnswersInv /\ ClosedInv
      BY DEF Init, AnswersInv, ClosedInv
<1> QED BY <1>1, <1>2, InitServer DEF PageInv

\* A step of the server that leaves the page alone.
LEMMA ServerLeavesPage ==
    ASSUME PageInv, [Next]_vars, UNCHANGED pageVars
    PROVE  PageType' /\ AnswersInv' /\ ClosedInv'
<1>1. newest' \in Nat /\ newest <= newest' /\ (overlapped => overlapped') /\ ServerInv
      BY ServerStep, ServerHistory DEF PageInv, ServerInv, ServerType
<1>2. PageType' /\ ClosedInv'
      BY DEF pageVars, PageInv, PageType, ClosedInv
<1>3. AnswersInv'
  <2>1. \A r : Saved(r) => Saved(r)'
        BY <1>1, SavedStays
  <2>2. /\ shown' = shown /\ calls' = calls /\ raced' = raced
        BY DEF pageVars
  <2>3. (shown # Nothing => Saved(shown))'
        BY <2>1, <2>2 DEF PageInv, AnswersInv
  <2>4. (\A i \in DOMAIN calls : calls[i] # Pending => Saved(calls[i]))'
        BY <2>1, <2>2 DEF PageInv, AnswersInv
  <2> QED BY <1>1, <2>2, <2>3, <2>4 DEF PageInv, AnswersInv
<1> QED BY <1>2, <1>3

\* A restart fails every request that has no answer.
LEMMA CrashPage ==
    ASSUME PageInv, Crash
    PROVE  PageType' /\ AnswersInv' /\ ClosedInv'
<1> DEFINE X == Result \union {Pending}
<1>1. /\ calls' = [i \in DOMAIN calls |-> IF calls[i] = Pending THEN NoStats ELSE calls[i]]
      /\ UNCHANGED <<newest, overlapped, open, shown, loading, raced>>
      BY DEF Crash
<1>2. calls \in Seq(X) /\ Len(calls) \in Nat /\ DOMAIN calls = 1..Len(calls)
      BY DEF PageInv, PageType
<1>3. NoStats \in Result /\ Saved(NoStats) /\ NoStats.at = 0 /\ NoStats # Pending
      BY NoStatsResult, StatsAssumption, Parameters DEF Saved, PageInv, ServerInv, ServerType
<1>4. calls' \in [1..Len(calls) -> X]
      BY <1>1, <1>2, <1>3
<1>5. calls' \in Seq(X) /\ Len(calls') = Len(calls) /\ DOMAIN calls' = DOMAIN calls
      BY <1>2, <1>4, LenProperties
<1>6. \A i \in DOMAIN calls :
         \/ calls'[i] = NoStats
         \/ calls[i] # Pending /\ calls'[i] = calls[i]
      BY <1>1
<1>7. PageType' /\ ClosedInv'
  <2>1. calls = << >> => calls' = << >>
        BY <1>5, EmptySeq
  <2> QED BY <1>1, <1>5, <2>1 DEF PageInv, PageType, ClosedInv
<1>8. AnswersInv'
  <2>1. (\A i \in DOMAIN calls : calls[i] # Pending => Saved(calls[i]))'
        BY <1>1, <1>3, <1>5, <1>6 DEF PageInv, AnswersInv, Saved
  <2>2. (shown # Nothing => Saved(shown))'
        BY <1>1 DEF PageInv, AnswersInv, Saved
  <2> QED BY <1>1, <1>3, <1>5, <1>6, <2>1, <2>2 DEF PageInv, AnswersInv
<1> QED BY <1>7, <1>8

\* The page is opened, or its interval fires.
LEMMA FetchPage ==
    ASSUME PageInv, OpenPage \/ Refresh
    PROVE  PageType' /\ AnswersInv' /\ ClosedInv'
<1> DEFINE X == Result \union {Pending}
<1>1. /\ calls' = Append(calls, Pending) /\ loading' = TRUE /\ open' = TRUE
      /\ UNCHANGED <<shown, newest, overlapped>>
      /\ raced' \in BOOLEAN /\ (~raced' => calls = << >>)
      BY DEF OpenPage, Refresh, Fetch, serverVars, PageInv, PageType, ClosedInv
<1>2. calls \in Seq(X) /\ Len(calls) \in Nat /\ Pending \in X
      BY DEF PageInv, PageType
<1>3. /\ calls' \in Seq(X) /\ Len(calls') = Len(calls) + 1
      /\ \A i \in 1..Len(calls) : calls'[i] = calls[i]
      /\ calls'[Len(calls) + 1] = Pending
      BY <1>1, <1>2, AppendProperties
<1>4. /\ DOMAIN calls' = 1..(Len(calls) + 1) /\ DOMAIN calls = 1..Len(calls)
      /\ \A i \in DOMAIN calls' : i \in DOMAIN calls \/ i = Len(calls) + 1
      BY <1>2, <1>3
<1>5. \A i \in DOMAIN calls' :
         calls'[i] # Pending => i \in DOMAIN calls /\ calls'[i] = calls[i]
      BY <1>3, <1>4
<1>6. PageType' /\ ClosedInv'
      BY <1>1, <1>3 DEF PageInv, PageType, ClosedInv
<1>7. AnswersInv'
  <2>1. (\A i \in DOMAIN calls : calls[i] # Pending => Saved(calls[i]))'
        BY <1>1, <1>5 DEF PageInv, AnswersInv, Saved
  <2>2. (shown # Nothing => Saved(shown))'
        BY <1>1 DEF PageInv, AnswersInv, Saved
  <2>3. ~raced' => Len(calls') <= 1 /\ \A i \in DOMAIN calls' : calls'[i] = Pending
        BY <1>1, <1>3, <1>4
  <2> QED BY <2>1, <2>2, <2>3 DEF AnswersInv
<1> QED BY <1>6, <1>7

\* A request is answered.
LEMMA AnswerPage ==
    ASSUME PageInv, NEW i \in DOMAIN calls, Answer(i)
    PROVE  PageType' /\ AnswersInv' /\ ClosedInv'
<1> DEFINE X == Result \union {Pending}
<1>1. PICK a \in {ApiStats, NoStats} : calls' = [calls EXCEPT ![i] = a]
      BY DEF Answer
<1>2. /\ UNCHANGED <<open, shown, loading, raced, newest, overlapped>>
      BY DEF Answer, serverVars
<1>3. /\ a \in Result /\ Saved(a)
      /\ ~overlapped => a.at = 0 \/ a.at = newest
      BY ApiAnswer DEF PageInv, Saved
<1>4. calls \in Seq(X) /\ Len(calls) \in Nat /\ DOMAIN calls = 1..Len(calls)
      BY DEF PageInv, PageType
<1>5. /\ calls' \in Seq(X) /\ Len(calls') = Len(calls)
      /\ DOMAIN calls' = DOMAIN calls /\ calls'[i] = a
      /\ \A j \in DOMAIN calls : j # i => calls'[j] = calls[j]
      BY <1>1, <1>3, <1>4, ExceptSeq
<1>6. PageType' /\ ClosedInv'
  <2>1. calls # << >>
        BY <1>4, EmptySeq
  <2> QED BY <1>2, <1>5, <2>1 DEF PageInv, PageType, ClosedInv
<1>7. AnswersInv'
  <2>1. (\A j \in DOMAIN calls : calls[j] # Pending => Saved(calls[j]))'
        BY <1>2, <1>3, <1>5 DEF PageInv, AnswersInv, Saved
  <2>2. (shown # Nothing => Saved(shown))'
        BY <1>2 DEF PageInv, AnswersInv, Saved
  <2>3. ~raced /\ ~overlapped /\ shown # Nothing => a.at = 0 \/ a.at >= shown.at
        BY <1>3, Parameters DEF PageInv, AnswersInv, Saved, ServerInv, ServerType
  <2> QED BY <1>2, <1>5, <2>1, <2>2, <2>3 DEF PageInv, AnswersInv
<1> QED BY <1>6, <1>7

\* An answer arrives.
LEMMA ArrivePage ==
    ASSUME PageInv, NEW i \in DOMAIN calls, Arrive(i)
    PROVE  /\ PageType' /\ AnswersInv' /\ ClosedInv'
           /\ shown # Nothing /\ shown' # Nothing =>
                (shown'.at < shown.at => shown'.at = 0 \/ raced \/ overlapped)
<1> DEFINE X == Result \union {Pending}
<1>1. /\ calls[i] # Pending /\ shown' = calls[i] /\ calls' = Without(calls, i)
      /\ loading' = FALSE /\ UNCHANGED <<open, raced, newest, overlapped>>
      BY DEF Arrive, serverVars
<1>2. calls \in Seq(X) /\ Len(calls) \in Nat /\ DOMAIN calls = 1..Len(calls)
      BY DEF PageInv, PageType
<1>3. /\ calls' \in Seq(X) /\ Len(calls') = Len(calls) - 1 /\ DOMAIN calls' = 1..Len(calls')
      /\ \A k \in 1..Len(calls') : \E j \in 1..Len(calls) : calls'[k] = calls[j]
  <2>0. i \in 1..Len(calls)
        BY <1>2
  <2> HIDE DEF X
  <2>1. /\ Without(calls, i) \in Seq(X) /\ Len(Without(calls, i)) = Len(calls) - 1
        /\ \A k \in 1..Len(Without(calls, i)) :
             \E j \in 1..Len(calls) : Without(calls, i)[k] = calls[j]
        BY <2>0, <1>2, WithoutElement
  <2> QED BY <1>1, <2>1
<1>4. calls[i] \in Result /\ Saved(calls[i])
      BY <1>1, <1>2 DEF PageInv, AnswersInv
<1>5. open
  <2>1. calls # << >>
        BY <1>2, EmptySeq
  <2> QED BY <2>1 DEF PageInv, ClosedInv
<1>6. PageType' /\ ClosedInv'
      BY <1>1, <1>3, <1>4, <1>5 DEF PageInv, PageType, ClosedInv
<1>7. ~raced' => Len(calls) <= 1 /\ Len(calls') = 0 /\ DOMAIN calls' = {}
      BY <1>1, <1>2, <1>3 DEF PageInv, AnswersInv
<1>8. AnswersInv'
  <2>1. (\A j \in DOMAIN calls : calls[j] # Pending => Saved(calls[j]))'
        BY <1>1, <1>2, <1>3 DEF PageInv, AnswersInv, Saved
  <2>2. (shown # Nothing => Saved(shown))'
        BY <1>1, <1>4 DEF Saved
  <2> QED BY <1>7, <2>1, <2>2 DEF AnswersInv
<1>9. ASSUME shown # Nothing, shown'.at < shown.at
      PROVE  shown'.at = 0 \/ raced \/ overlapped
  <2>1. shown.at \in Nat /\ shown'.at \in Nat /\ ~(shown'.at >= shown.at)
        BY <1>1, <1>4, <1>9, Parameters DEF PageInv, AnswersInv, Saved, ServerInv, ServerType
  <2> QED BY <1>1, <1>9, <2>1 DEF PageInv, AnswersInv
<1> QED BY <1>6, <1>8, <1>9

LEMMA LeavesPage ==
    ASSUME PageInv, LeavePage
    PROVE  PageType' /\ AnswersInv' /\ ClosedInv'
<1>1. /\ open' = FALSE /\ shown' = Nothing /\ loading' = TRUE /\ raced' = FALSE
      /\ calls' = << >>
      BY DEF LeavePage, HeardAfterLeaving
<1>2. calls' \in Seq(Result \union {Pending}) /\ Len(calls') = 0 /\ DOMAIN calls' = {}
      BY <1>1, EmptySeq
<1>3. PageType' /\ ClosedInv'
      BY <1>1, <1>2 DEF PageType, ClosedInv
<1>4. AnswersInv'
      BY <1>1, <1>2 DEF AnswersInv
<1> QED BY <1>3, <1>4

LEMMA PageStep ==
    ASSUME PageInv, [Next]_vars
    PROVE  /\ PageInv'
           /\ shown # Nothing /\ shown' # Nothing =>
                (shown'.at < shown.at => shown'.at = 0 \/ raced \/ overlapped)
<1> DEFINE Goes == shown # Nothing /\ shown' # Nothing =>
                     (shown'.at < shown.at => shown'.at = 0 \/ raced \/ overlapped)
<1>1. ServerInv'
      BY ServerStep DEF PageInv
<1>2. ASSUME shown' = shown
      PROVE  Goes
  <2>1. shown # Nothing => shown.at \in Nat
        BY Parameters DEF PageInv, AnswersInv, Saved, ServerInv, ServerType
  <2> QED BY <1>2, <2>1
<1>3. CASE UNCHANGED pageVars
      BY <1>1, <1>2, <1>3, ServerLeavesPage DEF PageInv, pageVars
<1>4. CASE Crash
      BY <1>1, <1>2, <1>4, CrashPage DEF PageInv, Crash
<1>5. CASE OpenPage \/ Refresh
      BY <1>1, <1>2, <1>5, FetchPage DEF PageInv, OpenPage, Refresh
<1>6. ASSUME NEW i \in DOMAIN calls, Answer(i)
      PROVE  PageInv' /\ Goes
      BY <1>1, <1>2, <1>6, AnswerPage DEF PageInv, Answer
<1>7. ASSUME NEW i \in DOMAIN calls, Arrive(i)
      PROVE  PageInv' /\ Goes
      BY <1>1, <1>7, ArrivePage DEF PageInv
<1>8. CASE LeavePage
      BY <1>1, <1>8, LeavesPage DEF PageInv, LeavePage
<1>9. \/ UNCHANGED pageVars
      \/ Crash
      \/ OpenPage \/ Refresh
      \/ \E i \in DOMAIN calls : Answer(i) \/ Arrive(i)
      \/ LeavePage
      BY DEF Next, vars, Calculate, StoreMessage, Prune, Begin, CountMessages, CountByNetwork, ClearOld, SaveNew
<1>10. PageInv' /\ Goes
  <2>1. (\E i \in DOMAIN calls : Answer(i) \/ Arrive(i)) => PageInv' /\ Goes
        BY <1>6, <1>7
  <2> QED BY <1>3, <1>4, <1>5, <1>8, <1>9, <2>1
<1> QED BY <1>10

\* The Stats page replaces a result by an earlier one only when two of its requests, or two
\* calculations, have overlapped.
THEOREM StatsCachePageGoesBack == Spec => PageGoesBackOnlyByRace
<1>1. Init => PageInv
      BY InitPage
<1>2. PageInv /\ [Next]_vars => PageInv'
      BY PageStep
<1>3. PageInv /\ [Next]_vars =>
        [shown # Nothing /\ shown' # Nothing =>
           (shown'.at < shown.at => shown'.at = 0 \/ raced \/ overlapped)]_vars
      BY PageStep
<1> QED BY <1>1, <1>2, <1>3, PTL DEF Spec, PageGoesBackOnlyByRace

\* The bars of a result whose networks cover its total are not short of 100 per cent.
LEMMA BarCoversWhole ==
    ASSUME NEW r \in Result, Whole(r), ~r.short
    PROVE  r.total = 0 \/ BarWidth(r) >= 100
<1>1. r.total \in Nat /\ r.networks \in Nat
      BY Parameters DEF Result, Counts
<1>2. ASSUME NEW n \in Nat, NEW t \in Nat, n >= t, t >= 1
      PROVE  (100 * n) \div t >= 100
  <2>1. 100 * t <= 100 * n
        BY <1>2
  <2>2. (100 * t) \div t = 100
        BY <1>2
  <2> QED BY <1>2, <2>1, <2>2
<1> QED BY <1>1, <1>2 DEF BarWidth, Whole

\* The networks' bars on screen are short of the whole only if that calculation lost
\* something between its two passes: a query that failed or rows that were pruned.
THEOREM StatsCacheBarsShortOnlyByLoss == Spec => []BarsShortOnlyByLoss
<1>1. PageInv => BarsShortOnlyByLoss
  <2> SUFFICES ASSUME PageInv, OnScreen # Nothing, ~OnScreen.short
               PROVE  OnScreen.total = 0 \/ BarWidth(OnScreen) >= 100
      BY DEF BarsShortOnlyByLoss
  <2>1. OnScreen = shown /\ shown # Nothing
        BY DEF OnScreen
  <2>2. shown \in Result /\ Whole(shown)
        BY <2>1 DEF PageInv, PageType, AnswersInv, Saved
  <2> QED BY <2>1, <2>2, BarCoversWhole
<1>2. Init => PageInv
      BY InitPage
<1>3. PageInv /\ [Next]_vars => PageInv'
      BY PageStep
<1> QED BY <1>1, <1>2, <1>3, PTL DEF Spec

=============================================================================
