---------------------------- MODULE BatchInsert -----------------------------
(***************************************************************************)
(* pkg/service/batch_insert_service.go: seven in-memory buffers, each      *)
(* behind its own mutex, filled by the topic consumers and emptied by the  *)
(* Add that reaches batchSize, by the periodic flusher and by the final    *)
(* flush of Stop.  A flush keeps the buffer's mutex during the whole       *)
(* database call, which gorm splits into chunks that commit one by one.    *)
(*                                                                         *)
(* Buffers are numbered in the order FlushAll visits them: block, block    *)
(* header, handshake, mining-on, subtree, best block, node status.  A row  *)
(* is a pair <<k, n>>: the n-th row handed to buffer k.                     *)
(*                                                                         *)
(* An Add that does not reach batchSize locks, appends and unlocks without *)
(* calling out, so it is one step; every database round trip is a step.    *)
(***************************************************************************)
EXTENDS Naturals, Sequences

CONSTANTS
    NKinds,      \* number of buffers
    Producers,   \* the topic-consumer goroutines
    Feeds,       \* Feeds[p]: the buffers p's topic is added to
    BatchSize,   \* buffer length at which an Add flushes
    ChunkSize,   \* rows per INSERT statement of CreateInBatches
    Poison,      \* rows the database refuses (no partition for their month)
    MaxRows,     \* bound: rows handed to one buffer
    RowBound,    \* RowBound[k]: how many of them buffer k is given
    MaxFaults,   \* bound: transient database errors
    MaxCopies,   \* bound: copies of a row are counted up to this number
    MaxCrashes,  \* bound: process deaths
    Flusher,     \* the periodicFlush goroutine
    Nobody       \* holder of a free mutex

Kinds == 1..NKinds
Row == Kinds \X (1..MaxRows)

ASSUME BatchAssumption ==
    /\ NKinds \in Nat \ {0}
    /\ BatchSize \in Nat \ {0}
    /\ ChunkSize \in Nat \ {0}
    /\ MaxRows \in Nat
    /\ MaxFaults \in Nat
    /\ MaxCopies \in Nat \ {0}
    /\ MaxCrashes \in Nat
    /\ Feeds \in [Producers -> SUBSET Kinds]
    /\ Poison \subseteq Row
    /\ Flusher \notin Producers
    /\ Nobody \notin Producers \union {Flusher}

ASSUME RowBoundAssumption == RowBound \in [Kinds -> 0..MaxRows]

VARIABLES
    buffer,     \* buffer[k]: the numbers of the rows in buffer k, oldest first
    holder,     \* holder[k]: the goroutine inside buffer k's mutex
    offset,     \* offset[k]: rows of buffer[k] the running flush has committed
    flusher,    \* periodicFlush: in its select, in a tick's or the final FlushAll, returned
    cursor,     \* the buffer FlushAll is at
    cancelled,  \* the context Stop cancels
    copies,     \* copies[r]: how many times the table holds row r
    faults,     \* transient database errors so far
    crashes,    \* process deaths so far
    accepted,   \* history: accepted[k] rows have been handed to buffer k
    base,       \* history: accepted, when the process last started
    atStop,     \* history: accepted, when Stop was called
    failedOn    \* history: failed flushes that row r was part of

service == <<buffer, holder, offset, flusher, cursor, cancelled>>
vars == <<service, copies, faults, crashes, accepted, base, atStop, failedOn>>

Goroutine == Producers \union {Flusher}
Bump(n) == IF n < MaxCopies THEN n + 1 ELSE n

-----------------------------------------------------------------------------
Init ==
    /\ buffer = [k \in Kinds |-> <<>>]
    /\ holder = [k \in Kinds |-> Nobody]
    /\ offset = [k \in Kinds |-> 0]
    /\ flusher = "select"
    /\ cursor = 1
    /\ cancelled = FALSE
    /\ copies = [r \in Row |-> 0]
    /\ faults = 0
    /\ crashes = 0
    /\ accepted = [k \in Kinds |-> 0]
    /\ base = [k \in Kinds |-> 0]
    /\ atStop = [k \in Kinds |-> 0]
    /\ failedOn = [r \in Row |-> 0]

\* len(buffer) >= batchSize, after the append of the row being added.
FullOneTooLate(k) == Len(buffer[k]) + 1 > BatchSize      \* mutant: > instead of >=
Full(k) == Len(buffer[k]) + 1 >= BatchSize

\* AddBlock, AddBlockHeader, ...: lock, append, and start a flush under the same
\* lock when the buffer is full.  It works the same before and after Stop.
Add(p, k) ==
    /\ k \in Feeds[p]
    /\ \A j \in Kinds : holder[j] # p
    /\ holder[k] = Nobody
    /\ accepted[k] < RowBound[k]
    /\ accepted' = [accepted EXCEPT ![k] = @ + 1]
    /\ buffer' = [buffer EXCEPT ![k] = Append(@, accepted[k] + 1)]
    /\ holder' = [holder EXCEPT ![k] = IF Full(k) THEN p ELSE Nobody]
    /\ UNCHANGED <<offset, flusher, cursor, cancelled>>
    /\ UNCHANGED <<copies, faults, crashes, base, atStop, failedOn>>

-----------------------------------------------------------------------------
(* flush*Locked: one CreateInBatches call over the whole buffer.           *)

Min2(a, b) == IF a < b THEN a ELSE b
ChunkEnd(k) == Min2(offset[k] + ChunkSize, Len(buffer[k]))
\* mutant: the first row of every chunk is skipped
ChunkSkipsFirst(k) == {<<k, buffer[k][i]>> : i \in offset[k] + 2 .. ChunkEnd(k)}
Chunk(k) == {<<k, buffer[k][i]>> : i \in offset[k] + 1 .. ChunkEnd(k)}
Buffered(k) == {<<k, buffer[k][i]>> : i \in 1..Len(buffer[k])}
Flushing(k) == holder[k] # Nobody

\* mutant: the first chunk's success is taken for the whole call's
FirstChunkInserted(k) == offset[k] > 0
AllInserted(k) == offset[k] = Len(buffer[k])

Insert(S) ==
    copies' = [r \in Row |-> IF r \in S THEN Bump(copies[r]) ELSE copies[r]]

\* mutant: the buffer is not cut back
KeepFlushed(k) == buffer
CutBack(k) == [buffer EXCEPT ![k] = <<>>]

\* mutant: periodicFlush goes back to its select after the final flush
NextBufferLoops ==
    IF cursor < NKinds
    THEN cursor' = cursor + 1 /\ UNCHANGED flusher
    ELSE cursor' = 1 /\ flusher' = "select"

\* FlushAll goes on to the next buffer, or back to periodicFlush.
NextBuffer ==
    IF cursor < NKinds
    THEN cursor' = cursor + 1 /\ UNCHANGED flusher
    ELSE cursor' = 1 /\ flusher' = IF flusher = "final" THEN "done" ELSE "select"

\* mutant: FlushAll gives up at the first buffer that fails
AbortFlushAll ==
    /\ cursor' = 1
    /\ flusher' = IF flusher = "final" THEN "done" ELSE "select"

\* FlushAll ignores what a flush returns.
AfterError == NextBuffer

\* mutant: the next flush starts where this one stopped
UnlockOnly(k) == holder' = [holder EXCEPT ![k] = Nobody] /\ UNCHANGED offset
Unlock(k) ==
    /\ holder' = [holder EXCEPT ![k] = Nobody]
    /\ offset' = [offset EXCEPT ![k] = 0]

\* One chunk commits on its own (SkipDefaultTransaction: no surrounding transaction).
InsertChunk(k) ==
    /\ Flushing(k)
    /\ ~AllInserted(k)
    /\ Chunk(k) \intersect Poison = {}
    /\ Insert(Chunk(k))
    /\ offset' = [offset EXCEPT ![k] = ChunkEnd(k)]
    /\ UNCHANGED <<buffer, holder, flusher, cursor, cancelled>>
    /\ UNCHANGED <<faults, crashes, accepted, base, atStop, failedOn>>

\* All chunks are in: the buffer is cut back to length 0.
FlushSucceeds(k) ==
    /\ Flushing(k)
    /\ AllInserted(k)
    /\ buffer' = CutBack(k)
    /\ Unlock(k)
    /\ IF holder[k] = Flusher THEN NextBuffer ELSE UNCHANGED <<flusher, cursor>>
    /\ UNCHANGED cancelled
    /\ UNCHANGED <<copies, faults, crashes, accepted, base, atStop, failedOn>>

\* A chunk fails: the error is returned, and the whole buffer stays, the rows of
\* the chunks that committed before included.
KeepBuffer(k) ==
    /\ Flushing(k)
    /\ ~AllInserted(k)
    /\ failedOn' = [r \in Row |->
                      IF r \in Buffered(k) THEN Bump(failedOn[r]) ELSE failedOn[r]]
    /\ Unlock(k)
    /\ IF holder[k] = Flusher THEN AfterError ELSE UNCHANGED <<flusher, cursor>>
    /\ UNCHANGED <<buffer, cancelled>>
    /\ UNCHANGED <<crashes, accepted, base, atStop>>

\* The database refuses a row of the chunk, now and at every retry.
FlushRefused(k) ==
    /\ Chunk(k) \intersect Poison # {}
    /\ KeepBuffer(k)
    /\ UNCHANGED <<copies, faults>>

\* A transient error (timeout, lost connection) before the chunk committed ...
FlushFails(k) ==
    /\ faults < MaxFaults
    /\ faults' = faults + 1
    /\ KeepBuffer(k)
    /\ UNCHANGED copies

\* ... or after it committed and before the client learnt of it.
FlushFailsCommitted(k) ==
    /\ faults < MaxFaults
    /\ faults' = faults + 1
    /\ Chunk(k) \intersect Poison = {}
    /\ Insert(Chunk(k))
    /\ KeepBuffer(k)

FlushStep(k) ==
    InsertChunk(k) \/ FlushSucceeds(k) \/ FlushRefused(k) \/ FlushFails(k) \/ FlushFailsCommitted(k)

-----------------------------------------------------------------------------
(* periodicFlush and FlushAll.                                             *)

StartFlushAll(mode) ==
    /\ flusher = "select"
    /\ flusher' = mode
    /\ cursor' = 1
    /\ UNCHANGED <<buffer, holder, offset, cancelled>>
    /\ UNCHANGED <<copies, faults, crashes, accepted, base, atStop, failedOn>>

\* case <-ticker.C: it may be chosen although the context is already done.
Tick == StartFlushAll("tick")

\* mutant: periodicFlush returns without the final flush
FinalReturn == cancelled /\ StartFlushAll("done")

\* case <-ctx.Done(): the final flush before periodicFlush returns.
FinalFlush == cancelled /\ StartFlushAll("final")

\* FlushAll locks the next buffer; an empty one is unlocked at once.
FlusherLocks ==
    /\ flusher \in {"tick", "final"}
    /\ holder[cursor] = Nobody
    /\ IF buffer[cursor] = <<>>
       THEN NextBuffer /\ UNCHANGED holder
       ELSE holder' = [holder EXCEPT ![cursor] = Flusher] /\ UNCHANGED <<flusher, cursor>>
    /\ UNCHANGED <<buffer, offset, cancelled>>
    /\ UNCHANGED <<copies, faults, crashes, accepted, base, atStop, failedOn>>

\* Stop cancels the context; its wg.Wait() returns once flusher = "done".
Stop ==
    /\ ~cancelled
    /\ cancelled' = TRUE
    /\ atStop' = accepted
    /\ UNCHANGED <<buffer, holder, offset, flusher, cursor>>
    /\ UNCHANGED <<copies, faults, crashes, accepted, base, failedOn>>

\* The process dies (crash, or a signal: main installs no handler) and
\* NewBatchInsertService starts over with empty buffers; the tables survive.
Crash ==
    /\ crashes < MaxCrashes
    /\ crashes' = crashes + 1
    /\ buffer' = [k \in Kinds |-> <<>>]
    /\ holder' = [k \in Kinds |-> Nobody]
    /\ offset' = [k \in Kinds |-> 0]
    /\ flusher' = "select"
    /\ cursor' = 1
    /\ cancelled' = FALSE
    /\ base' = accepted
    /\ UNCHANGED <<copies, faults, accepted, atStop, failedOn>>

Next ==
    \/ \E p \in Producers, k \in Kinds : Add(p, k)
    \/ \E k \in Kinds : FlushStep(k)
    \/ Tick
    \/ FinalFlush
    \/ FlusherLocks
    \/ Stop
    \/ Crash

Spec == Init /\ [][Next]_vars

\* The flusher goroutine is scheduled, the ticker keeps firing, a database call
\* returns (statement_timeout).  Strong fairness where the runtime gives it: a Go
\* mutex in starvation mode is handed to its longest waiter, and a select with
\* several ready cases picks one of them at random.
Fairness ==
    /\ WF_vars(Tick)
    /\ SF_vars(FinalFlush)
    /\ SF_vars(FlusherLocks)
    /\ \A k \in Kinds : WF_vars(FlushStep(k))

FairSpec == Spec /\ Fairness

-----------------------------------------------------------------------------
(* Properties.                                                             *)

Flushers == {"select", "tick", "final", "done"}

\* Every variable stays in its range, and a running flush never points past its buffer.
TypeOK ==
    /\ buffer \in [Kinds -> Seq(1..MaxRows)]
    /\ holder \in [Kinds -> Goroutine \union {Nobody}]
    /\ offset \in [Kinds -> 0..MaxRows]
    /\ \A k \in Kinds : offset[k] <= Len(buffer[k]) /\ Len(buffer[k]) <= accepted[k]
    /\ flusher \in Flushers
    /\ cursor \in Kinds
    /\ cancelled \in BOOLEAN
    /\ copies \in [Row -> 0..MaxCopies]
    /\ faults \in 0..MaxFaults
    /\ crashes \in 0..MaxCrashes
    /\ accepted \in [Kinds -> 0..MaxRows]
    /\ base \in [Kinds -> 0..MaxRows]
    /\ atStop \in [Kinds -> 0..MaxRows]
    /\ failedOn \in [Row -> 0..MaxCopies]

\* A row handed over since the process started is in its buffer or in the table,
\* whatever flushes failed, were cut in two or raced with Adds and Stop.
NothingLost ==
    \A k \in Kinds : \A n \in base[k] + 1 .. accepted[k] :
        <<k, n>> \in Buffered(k) \/ copies[<<k, n>>] > 0

\* A row is in the table more than once only if flushes it was part of failed:
\* at most one extra copy for each (a retry repeats the chunks already committed).
DuplicatesNeedFailure ==
    \A r \in Row : copies[r] <= failedOn[r] + 1

\* A buffer left unlocked at batchSize or more has failed to flush, with every one
\* of its rows; so a crash loses fewer than batchSize rows of a healthy buffer
\* that is not being flushed.
OverfullOnlyAfterFailure ==
    \A k \in Kinds :
        ~Flushing(k) /\ Len(buffer[k]) >= BatchSize =>
            \A r \in Buffered(k) : failedOn[r] > 0

\* When Stop returns, every row that was handed over before Stop was called is in
\* the table, unless a flush it was part of failed.
StopFlushesEarlierRows ==
    flusher = "done" =>
        \A k \in Kinds : \A n \in base[k] + 1 .. atStop[k] :
            copies[<<k, n>>] > 0 \/ failedOn[<<k, n>>] > 0

\* The service implements the at-least-once store.
Pending == UNION {Buffered(k) : k \in Kinds}
Store == INSTANCE AtLeastOnceStore WITH pending <- Pending
StoreSpec == Store!Spec

\* Every row handed to a buffer without refused rows leaves it for the table, as long
\* as Stop is not called; a buffer whose flushes fail for ever does not hold up the others.
HealthyKindsDrain ==
    \A r \in Row :
        (\A q \in Poison : q[1] # r[1]) =>
            (r \in Pending ~> r \notin Pending \/ cancelled)

\* Stop returns, whatever the database does (or the process dies first).
StopReturns == cancelled ~> (flusher = "done" \/ ~cancelled)

=============================================================================
