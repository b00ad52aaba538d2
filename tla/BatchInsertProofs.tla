------------------------- MODULE BatchInsertProofs -------------------------
(***************************************************************************)
(* Proofs about BatchInsert for every number of buffers, producers, rows   *)
(* and faults, every batch and chunk size and every set of refused rows.   *)
(***************************************************************************)
EXTENDS BatchInsert, TLAPS

USE BatchAssumption

-----------------------------------------------------------------------------
(* Type correctness.                                                       *)

\* Saturating increments stay in range and never go down.
LEMMA BumpType ==
    ASSUME NEW n \in 0..MaxCopies
    PROVE  Bump(n) \in 1..MaxCopies /\ Bump(n) >= n /\ Bump(n) <= n + 1
BY DEF Bump


\* What TypeOK says of one buffer.
LEMMA BufferType ==
    ASSUME TypeOK, NEW k \in Kinds
    PROVE  /\ buffer[k] \in Seq(1..MaxRows)
           /\ Len(buffer[k]) \in 0..accepted[k]
           /\ offset[k] \in 0..Len(buffer[k])
           /\ accepted[k] \in 0..MaxRows
BY DEF TypeOK

\* A chunk ends within the buffer, after the rows already committed.
LEMMA ChunkEndType ==
    ASSUME TypeOK, NEW k \in Kinds
    PROVE  /\ ChunkEnd(k) \in offset[k]..Len(buffer[k])
           /\ ~AllInserted(k) => ChunkEnd(k) > offset[k]
<1>1. Len(buffer[k]) \in Nat /\ offset[k] \in 0..Len(buffer[k])
      BY BufferType DEF TypeOK
<1> QED BY <1>1 DEF ChunkEnd, Min2, AllInserted

\* A buffer that is still given rows has a number left for one.
LEMMA AddBound ==
    ASSUME NEW k \in Kinds, NEW n \in Nat, n < RowBound[k]
    PROVE  n < MaxRows /\ n + 1 \in 1..MaxRows
<1>1. RowBound[k] \in 0..MaxRows
      BY RowBoundAssumption
<1> QED BY <1>1

\* FlushAll's walk over the buffers stays among the buffers.
LEMMA NextBufferType ==
    ASSUME TypeOK, NextBuffer
    PROVE  flusher' \in Flushers /\ cursor' \in Kinds
BY DEF TypeOK, NextBuffer, Flushers, Kinds

\* A failed flush changes neither a buffer nor a counter's range.
LEMMA KeepBufferType ==
    ASSUME TypeOK, NEW k \in Kinds, KeepBuffer(k)
    PROVE  /\ holder' \in [Kinds -> Goroutine \union {Nobody}]
           /\ offset' \in [Kinds -> 0..MaxRows]
           /\ \A j \in Kinds : offset'[j] <= Len(buffer[j])
           /\ flusher' \in Flushers
           /\ cursor' \in Kinds
           /\ failedOn' \in [Row -> 0..MaxCopies]
<1>1. holder' \in [Kinds -> Goroutine \union {Nobody}]
      BY DEF TypeOK, KeepBuffer, Unlock
<1>2. offset' \in [Kinds -> 0..MaxRows]
      BY DEF TypeOK, KeepBuffer, Unlock
<1>3. ASSUME NEW j \in Kinds PROVE offset'[j] <= Len(buffer[j])
      BY BufferType DEF TypeOK, KeepBuffer, Unlock
<1>4. flusher' \in Flushers /\ cursor' \in Kinds
      BY NextBufferType DEF TypeOK, KeepBuffer, AfterError
<1>5. failedOn' \in [Row -> 0..MaxCopies]
      <2>1. failedOn \in [Row -> 0..MaxCopies]
            BY DEF TypeOK
      <2> QED BY <2>1, BumpType DEF KeepBuffer
<1> QED BY <1>1, <1>2, <1>3, <1>4, <1>5

\* Writing rows keeps every count of copies in range.
LEMMA InsertType ==
    ASSUME TypeOK, NEW S, Insert(S)
    PROVE  copies' \in [Row -> 0..MaxCopies]
BY BumpType DEF TypeOK, Insert

\* The empty buffer, as a sequence of row numbers.
LEMMA EmptyBuffer == << >> \in Seq(1..MaxRows) /\ Len(<< >>) = 0
OBVIOUS

\* There is a first buffer for FlushAll to start from.
LEMMA FirstBuffer == 1 \in Kinds
BY DEF Kinds

\* NewBatchInsertService leaves every variable in its range.
LEMMA TypeInit == Init => TypeOK
<1> SUFFICES ASSUME Init PROVE TypeOK
    OBVIOUS
<1>1. buffer \in [Kinds -> Seq(1..MaxRows)] /\ \A k \in Kinds : Len(buffer[k]) = 0
      BY EmptyBuffer DEF Init
<1>2. \A k \in Kinds : offset[k] <= Len(buffer[k]) /\ Len(buffer[k]) <= accepted[k]
      BY <1>1 DEF Init
<1>3. /\ copies \in [Row -> 0..MaxCopies]
      /\ failedOn \in [Row -> 0..MaxCopies]
      BY DEF Init
<1>4. /\ holder \in [Kinds -> Goroutine \union {Nobody}]
      /\ offset \in [Kinds -> 0..MaxRows]
      /\ accepted \in [Kinds -> 0..MaxRows]
      /\ base \in [Kinds -> 0..MaxRows]
      /\ atStop \in [Kinds -> 0..MaxRows]
      BY DEF Init
<1>5. faults \in 0..MaxFaults /\ crashes \in 0..MaxCrashes
      BY DEF Init
<1>6. cancelled \in BOOLEAN
      BY DEF Init
<1>7. flusher \in Flushers /\ cursor \in Kinds
      BY FirstBuffer DEF Init, Flushers
<1> QED BY <1>1, <1>2, <1>3, <1>4, <1>5, <1>6, <1>7 DEF TypeOK

\* No action takes a variable out of its range.
LEMMA TypeStep == TypeOK /\ [Next]_vars => TypeOK'
<1> SUFFICES ASSUME TypeOK, [Next]_vars PROVE TypeOK'
    OBVIOUS
<1>1. ASSUME NEW p \in Producers, NEW k \in Kinds, Add(p, k) PROVE TypeOK'
  <2>1. buffer' \in [Kinds -> Seq(1..MaxRows)]
        BY <1>1, AddBound DEF Add, TypeOK
  <2>2. holder' \in [Kinds -> Goroutine \union {Nobody}]
        BY <1>1 DEF Add, TypeOK, Goroutine
  <2>3. accepted' \in [Kinds -> 0..MaxRows]
        BY <1>1, AddBound DEF Add, TypeOK
  <2>4. ASSUME NEW j \in Kinds
        PROVE  offset'[j] <= Len(buffer'[j]) /\ Len(buffer'[j]) <= accepted'[j]
    <3>1. CASE j = k
      <4>1. buffer'[k] = Append(buffer[k], accepted[k] + 1) /\ accepted'[k] = accepted[k] + 1
            BY <1>1 DEF Add, TypeOK
      <4>2. Len(buffer'[k]) = Len(buffer[k]) + 1
            BY <4>1, BufferType
      <4> QED BY <1>1, <3>1, <4>1, <4>2, BufferType DEF Add
    <3>2. CASE j # k
          BY <1>1, <3>2, BufferType DEF Add, TypeOK
    <3> QED BY <3>1, <3>2
  <2> QED BY <1>1, <2>1, <2>2, <2>3, <2>4 DEF Add, TypeOK
<1>2. ASSUME NEW k \in Kinds, InsertChunk(k) PROVE TypeOK'
  <2>1. copies' \in [Row -> 0..MaxCopies]
        BY <1>2, InsertType DEF InsertChunk
  <2>2. ChunkEnd(k) \in 0..MaxRows /\ ChunkEnd(k) <= Len(buffer[k])
        BY ChunkEndType, BufferType
  <2>3. offset' \in [Kinds -> 0..MaxRows] /\ \A j \in Kinds : offset'[j] <= Len(buffer[j])
        BY <1>2, <2>2 DEF InsertChunk, TypeOK
  <2> QED BY <1>2, <2>1, <2>3 DEF InsertChunk, TypeOK
<1>3. ASSUME NEW k \in Kinds, FlushSucceeds(k) PROVE TypeOK'
  <2>1. buffer' \in [Kinds -> Seq(1..MaxRows)]
        BY <1>3, EmptyBuffer DEF FlushSucceeds, CutBack, TypeOK
  <2>2. holder' \in [Kinds -> Goroutine \union {Nobody}] /\ offset' \in [Kinds -> 0..MaxRows]
        BY <1>3 DEF FlushSucceeds, Unlock, TypeOK
  <2>3. flusher' \in Flushers /\ cursor' \in Kinds
        BY <1>3, NextBufferType DEF FlushSucceeds, TypeOK
  <2>4. ASSUME NEW j \in Kinds
        PROVE  offset'[j] <= Len(buffer'[j]) /\ Len(buffer'[j]) <= accepted'[j]
        BY <1>3, BufferType DEF FlushSucceeds, CutBack, Unlock, TypeOK
  <2> QED BY <1>3, <2>1, <2>2, <2>3, <2>4 DEF FlushSucceeds, TypeOK
<1>4. ASSUME NEW k \in Kinds, FlushRefused(k) PROVE TypeOK'
  <2>1. KeepBuffer(k) /\ UNCHANGED <<copies, faults>>
        BY <1>4 DEF FlushRefused
  <2> QED BY <2>1, KeepBufferType DEF KeepBuffer, TypeOK
<1>5. ASSUME NEW k \in Kinds, FlushFails(k) PROVE TypeOK'
  <2>1. KeepBuffer(k) /\ UNCHANGED copies /\ faults' \in 0..MaxFaults
        BY <1>5 DEF FlushFails, TypeOK
  <2> QED BY <2>1, KeepBufferType DEF KeepBuffer, TypeOK
<1>6. ASSUME NEW k \in Kinds, FlushFailsCommitted(k) PROVE TypeOK'
  <2>1. KeepBuffer(k) /\ faults' \in 0..MaxFaults /\ copies' \in [Row -> 0..MaxCopies]
        BY <1>6, InsertType DEF FlushFailsCommitted, TypeOK
  <2> QED BY <2>1, KeepBufferType DEF KeepBuffer, TypeOK
<1>7. CASE Tick
      BY <1>7, FirstBuffer DEF Tick, StartFlushAll, TypeOK, Flushers
<1>8. CASE FinalFlush
      BY <1>8, FirstBuffer DEF FinalFlush, StartFlushAll, TypeOK, Flushers
<1>9. CASE FlusherLocks
  <2>1. holder' \in [Kinds -> Goroutine \union {Nobody}]
        BY <1>9 DEF FlusherLocks, TypeOK, Goroutine
  <2>2. flusher' \in Flushers /\ cursor' \in Kinds
        BY <1>9, NextBufferType DEF FlusherLocks, TypeOK
  <2> QED BY <1>9, <2>1, <2>2 DEF FlusherLocks, TypeOK
<1>10. CASE Stop
      BY <1>10 DEF Stop, TypeOK
<1>11. CASE Crash
  <2>1. /\ buffer' \in [Kinds -> Seq(1..MaxRows)]
        /\ \A k \in Kinds : Len(buffer'[k]) = 0 /\ offset'[k] = 0
        BY <1>11, EmptyBuffer DEF Crash
  <2>2. \A k \in Kinds : offset'[k] <= Len(buffer'[k]) /\ Len(buffer'[k]) <= accepted'[k]
        BY <1>11, <2>1 DEF Crash, TypeOK
  <2>3. /\ holder' \in [Kinds -> Goroutine \union {Nobody}]
        /\ offset' \in [Kinds -> 0..MaxRows]
        /\ crashes' \in 0..MaxCrashes
        BY <1>11 DEF Crash, TypeOK
  <2> QED BY <1>11, <2>1, <2>2, <2>3, FirstBuffer DEF Crash, TypeOK, Flushers
<1>12. CASE UNCHANGED vars
      BY <1>12 DEF vars, service, TypeOK
<1> QED BY <1>1, <1>2, <1>3, <1>4, <1>5, <1>6, <1>7, <1>8, <1>9, <1>10, <1>11, <1>12
        DEF Next, FlushStep

\* Every variable of the service keeps its type and a flush never points past its buffer.
THEOREM BatchInsertTypeCorrect == Spec => []TypeOK
BY TypeInit, TypeStep, PTL DEF Spec

-----------------------------------------------------------------------------
(* The inductive invariant.  A buffer holds the rows numbered Settled+1 ..  *)
(* accepted, in order: rows up to Settled have left it, and those up to     *)
(* Committed are in the table although a failure may keep them buffered.    *)

Settled(k) == accepted[k] - Len(buffer[k])
Committed(k) == Settled(k) + offset[k]

BufferInv(k) ==
    /\ base[k] <= Settled(k)
    /\ \A i \in 1..Len(buffer[k]) : buffer[k][i] = Settled(k) + i
    /\ ~Flushing(k) => offset[k] = 0
    /\ \A n \in base[k] + 1 .. Committed(k) : copies[<<k, n>>] > 0
    /\ \A n \in 1..MaxRows :
          copies[<<k, n>>] <= failedOn[<<k, n>>] + (IF n <= Committed(k) THEN 1 ELSE 0)
    /\ \A n \in accepted[k] + 1 .. MaxRows : failedOn[<<k, n>>] = 0
    /\ ~Flushing(k) /\ Len(buffer[k]) >= BatchSize =>
          \A n \in Settled(k) + 1 .. accepted[k] : failedOn[<<k, n>>] > 0

\* The final FlushAll has dealt with the buffers before its cursor.
FinalInv ==
    /\ \A k \in Kinds : atStop[k] <= accepted[k]
    /\ \A k \in Kinds : holder[k] = Flusher => k = cursor /\ flusher \in {"tick", "final"}
    /\ flusher \in {"final", "done"} => cancelled
    /\ \A k \in Kinds :
          flusher = "done" \/ (flusher = "final" /\ k < cursor) =>
              \A n \in base[k] + 1 .. atStop[k] :
                  copies[<<k, n>>] > 0 \/ failedOn[<<k, n>>] > 0

IInv == TypeOK /\ (\A k \in Kinds : BufferInv(k)) /\ FinalInv

\* The rows of a buffer and of its next chunk, by their numbers.
LEMMA RowsOf ==
    ASSUME TypeOK, NEW k \in Kinds, BufferInv(k), NEW j \in Kinds, NEW n \in 1..MaxRows
    PROVE  /\ <<j, n>> \in Row
           /\ <<j, n>> \in Buffered(k) <=> j = k /\ n \in Settled(k) + 1 .. accepted[k]
           /\ <<j, n>> \in Chunk(k) <=>
                  j = k /\ n \in Committed(k) + 1 .. Settled(k) + ChunkEnd(k)
<1>1. /\ Len(buffer[k]) \in 0..accepted[k]
      /\ accepted[k] \in 0..MaxRows
      /\ offset[k] \in 0..Len(buffer[k])
      /\ ChunkEnd(k) \in offset[k]..Len(buffer[k])
      BY BufferType, ChunkEndType
<1>2. \A i \in 1..Len(buffer[k]) : buffer[k][i] = Settled(k) + i
      BY DEF BufferInv
<1>3. <<j, n>> \in Row
      BY DEF Row
<1>4. ASSUME j = k, n \in Settled(k) + 1 .. accepted[k] PROVE <<j, n>> \in Buffered(k)
  <2> DEFINE i == n - Settled(k)
  <2>1. i \in 1..Len(buffer[k]) /\ Settled(k) + i = n
        BY <1>1, <1>4 DEF Settled
  <2>2. buffer[k][i] = n
        BY <1>2, <2>1
  <2> QED BY <2>1, <2>2, <1>4 DEF Buffered
<1>5. ASSUME <<j, n>> \in Buffered(k) PROVE j = k /\ n \in Settled(k) + 1 .. accepted[k]
      BY <1>1, <1>2, <1>5 DEF Buffered, Settled
<1>6. ASSUME j = k, n \in Committed(k) + 1 .. Settled(k) + ChunkEnd(k)
      PROVE  <<j, n>> \in Chunk(k)
  <2> DEFINE i == n - Settled(k)
  <2>1. i \in offset[k] + 1 .. ChunkEnd(k) /\ i \in 1..Len(buffer[k]) /\ Settled(k) + i = n
        BY <1>1, <1>6 DEF Settled, Committed
  <2>2. buffer[k][i] = n
        BY <1>2, <2>1
  <2> QED BY <2>1, <2>2, <1>6 DEF Chunk
<1>7. ASSUME <<j, n>> \in Chunk(k)
      PROVE  j = k /\ n \in Committed(k) + 1 .. Settled(k) + ChunkEnd(k)
  <2>1. PICK i \in offset[k] + 1 .. ChunkEnd(k) : <<j, n>> = <<k, buffer[k][i]>>
        BY <1>7 DEF Chunk
  <2>2. i \in 1..Len(buffer[k])
        BY <1>1
  <2> QED BY <1>1, <1>2, <2>1, <2>2 DEF Settled, Committed
<1> QED BY <1>3, <1>4, <1>5, <1>6, <1>7

\* A step that leaves buffer j, its lock and its rows alone keeps BufferInv(j).
LEMMA Frame ==
    ASSUME NEW j \in Kinds, BufferInv(j),
           buffer'[j] = buffer[j], holder'[j] = holder[j], offset'[j] = offset[j],
           accepted'[j] = accepted[j], base'[j] = base[j],
           accepted[j] \in 0..MaxRows, base[j] \in 0..MaxRows,
           Len(buffer[j]) \in 0..accepted[j], offset[j] \in 0..Len(buffer[j]),
           \A n \in 1..MaxRows : copies'[<<j, n>>] = copies[<<j, n>>]
                                 /\ failedOn'[<<j, n>>] = failedOn[<<j, n>>]
    PROVE  BufferInv(j)'
<1>1. Settled(j)' = Settled(j) /\ Committed(j)' = Committed(j) /\ Flushing(j)' = Flushing(j)
      BY DEF Settled, Committed, Flushing
<1>2. Settled(j) \in 0..MaxRows /\ Committed(j) \in 0..MaxRows
      BY DEF Settled, Committed
<1>3. /\ \A n \in base[j] + 1 .. Committed(j) : n \in 1..MaxRows
      /\ \A n \in accepted[j] + 1 .. MaxRows : n \in 1..MaxRows
      /\ \A n \in Settled(j) + 1 .. accepted[j] : n \in 1..MaxRows
      BY <1>2
<1> QED BY <1>1, <1>2, <1>3 DEF BufferInv

\* The ranges that arithmetic about one buffer needs.
LEMMA Numbers ==
    ASSUME TypeOK, NEW k \in Kinds
    PROVE  /\ accepted[k] \in 0..MaxRows /\ base[k] \in 0..MaxRows /\ atStop[k] \in 0..MaxRows
           /\ Len(buffer[k]) \in 0..accepted[k] /\ offset[k] \in 0..Len(buffer[k])
           /\ Settled(k) \in 0..accepted[k] /\ Settled(k) + Len(buffer[k]) = accepted[k]
           /\ Committed(k) \in Settled(k)..accepted[k]
           /\ \A n \in 1..MaxRows : /\ <<k, n>> \in Row
                                   /\ copies[<<k, n>>] \in 0..MaxCopies
                                   /\ failedOn[<<k, n>>] \in 0..MaxCopies
<1>1. /\ accepted[k] \in 0..MaxRows /\ base[k] \in 0..MaxRows /\ atStop[k] \in 0..MaxRows
      /\ Len(buffer[k]) \in 0..accepted[k] /\ offset[k] \in 0..Len(buffer[k])
      BY BufferType DEF TypeOK
<1>2. ASSUME NEW n \in 1..MaxRows PROVE <<k, n>> \in Row
      BY DEF Row
<1>3. ASSUME NEW n \in 1..MaxRows
      PROVE  copies[<<k, n>>] \in 0..MaxCopies /\ failedOn[<<k, n>>] \in 0..MaxCopies
      BY <1>2 DEF TypeOK
<1>4. /\ Settled(k) \in 0..accepted[k] /\ Settled(k) + Len(buffer[k]) = accepted[k]
      /\ Committed(k) \in Settled(k)..accepted[k]
      BY <1>1 DEF Settled, Committed
<1> QED BY <1>1, <1>2, <1>3, <1>4

\* An Add keeps what is known of every buffer: only its own gets a row, the last one.
LEMMA AddKeeps ==
    ASSUME IInv, NEW p \in Producers, NEW k \in Kinds, Add(p, k), NEW j \in Kinds
    PROVE  BufferInv(j)'
<1> USE DEF IInv
<1>1. CASE j # k
  <2>1. /\ buffer'[j] = buffer[j] /\ holder'[j] = holder[j] /\ offset'[j] = offset[j]
        /\ accepted'[j] = accepted[j] /\ base'[j] = base[j]
        /\ copies' = copies /\ failedOn' = failedOn
        BY <1>1 DEF Add, TypeOK
  <2> QED BY <2>1, Numbers, Frame
<1>2. CASE j = k
  <2>1. /\ buffer'[k] = Append(buffer[k], accepted[k] + 1)
        /\ accepted'[k] = accepted[k] + 1 /\ accepted[k] < MaxRows
        /\ holder'[k] = IF Full(k) THEN p ELSE Nobody
        /\ offset'[k] = offset[k] /\ base'[k] = base[k]
        /\ copies' = copies /\ failedOn' = failedOn
        BY AddBound DEF Add, TypeOK
  <2>2. offset[k] = 0
        BY DEF Add, BufferInv, Flushing
  <2>3. /\ Len(buffer'[k]) = Len(buffer[k]) + 1
        /\ \A i \in 1..Len(buffer[k]) : buffer'[k][i] = buffer[k][i]
        /\ buffer'[k][Len(buffer[k]) + 1] = accepted[k] + 1
        BY <2>1, BufferType
  <2>4. Settled(k)' = Settled(k) /\ Committed(k)' = Settled(k) /\ Committed(k) = Settled(k)
    <3>1. accepted[k] \in Nat /\ Len(buffer[k]) \in Nat /\ Settled(k) \in Nat
          BY Numbers
    <3>2. Settled(k)' = accepted'[k] - Len(buffer'[k])
          BY DEF Settled
    <3>3. Settled(k)' = Settled(k)
          BY <2>1, <2>3, <3>1, <3>2 DEF Settled
    <3>4. Committed(k)' = Settled(k)' + offset'[k] /\ Committed(k) = Settled(k) + offset[k]
          BY DEF Committed
    <3> QED BY <2>1, <2>2, <3>1, <3>3, <3>4
  <2>5. \A i \in 1..Len(buffer'[k]) : buffer'[k][i] = Settled(k) + i
    <3>1. Len(buffer[k]) \in Nat /\ Settled(k) + Len(buffer[k]) = accepted[k] /\ Settled(k) \in Nat
          BY Numbers
    <3>2. \A i \in 1..Len(buffer[k]) : buffer[k][i] = Settled(k) + i
          BY DEF BufferInv
    <3>3. ASSUME NEW i \in 1..Len(buffer'[k]) PROVE buffer'[k][i] = Settled(k) + i
      <4>1. CASE i = Len(buffer[k]) + 1
            BY <2>3, <3>1, <4>1
      <4>2. CASE i \in 1..Len(buffer[k])
            BY <2>3, <3>2, <4>2
      <4> QED BY <2>3, <3>1, <4>1, <4>2
    <3> QED BY <3>3
  <2>6. Flushing(k)' \/ Len(buffer'[k]) < BatchSize
    <3>1. Len(buffer[k]) \in Nat /\ BatchSize \in Nat /\ p # Nobody
          BY Numbers
    <3> QED BY <2>1, <2>3, <3>1 DEF Flushing, Full
  <2>7. base'[k] <= Settled(k)'
        BY <2>1, <2>4 DEF BufferInv
  <2>8. \A n \in base'[k] + 1 .. Committed(k)' : copies'[<<k, n>>] > 0
        BY <2>1, <2>4 DEF BufferInv
  <2>9. \A n \in 1..MaxRows : copies'[<<k, n>>] <=
            failedOn'[<<k, n>>] + (IF n <= Committed(k)' THEN 1 ELSE 0)
        BY <2>1, <2>4 DEF BufferInv
  <2>10. \A n \in accepted'[k] + 1 .. MaxRows : failedOn'[<<k, n>>] = 0
        BY <2>1, Numbers DEF BufferInv
  <2>11. Len(buffer'[k]) \in Nat /\ BatchSize \in Nat
        BY <2>3, Numbers
  <2> QED BY <1>2, <2>1, <2>2, <2>4, <2>5, <2>6, <2>7, <2>8, <2>9, <2>10, <2>11 DEF BufferInv
<1> QED BY <1>1, <1>2

\* Writing the next chunk counts one more copy of its rows and of no other.
LEMMA ChunkWritten ==
    ASSUME IInv, NEW k \in Kinds, Insert(Chunk(k)), NEW j \in Kinds, NEW n \in 1..MaxRows
    PROVE  copies'[<<j, n>>] =
              IF j = k /\ n \in Committed(k) + 1 .. Settled(k) + ChunkEnd(k)
              THEN Bump(copies[<<j, n>>]) ELSE copies[<<j, n>>]
BY RowsOf DEF IInv, Insert

\* A failed flush is counted for the rows of its buffer and for no other.
LEMMA FailureCounted ==
    ASSUME IInv, NEW k \in Kinds, KeepBuffer(k), NEW j \in Kinds, NEW n \in 1..MaxRows
    PROVE  failedOn'[<<j, n>>] =
              IF j = k /\ n \in Settled(k) + 1 .. accepted[k]
              THEN Bump(failedOn[<<j, n>>]) ELSE failedOn[<<j, n>>]
BY RowsOf DEF IInv, KeepBuffer

\* A chunk that commits keeps what is known of every buffer.
LEMMA InsertChunkKeeps ==
    ASSUME IInv, NEW k \in Kinds, InsertChunk(k), NEW j \in Kinds
    PROVE  BufferInv(j)'
<1> USE DEF IInv
<1>0. Insert(Chunk(k))
      BY DEF InsertChunk
<1>1. CASE j # k
  <2>1. /\ buffer'[j] = buffer[j] /\ holder'[j] = holder[j] /\ offset'[j] = offset[j]
        /\ accepted'[j] = accepted[j] /\ base'[j] = base[j] /\ failedOn' = failedOn
        BY <1>1 DEF InsertChunk, TypeOK
  <2>2. \A n \in 1..MaxRows : copies'[<<j, n>>] = copies[<<j, n>>]
        BY <1>0, <1>1, ChunkWritten
  <2> QED BY <2>1, <2>2, Numbers, Frame
<1>2. CASE j = k
  <2> DEFINE c == Settled(k) + ChunkEnd(k)
  <2>1. /\ buffer' = buffer /\ holder' = holder /\ offset'[k] = ChunkEnd(k)
        /\ accepted' = accepted /\ base' = base /\ failedOn' = failedOn
        BY DEF InsertChunk, TypeOK
  <2>2. /\ ChunkEnd(k) \in offset[k]..Len(buffer[k])
        /\ Settled(k) \in 0..accepted[k] /\ Settled(k) + Len(buffer[k]) = accepted[k]
        /\ Committed(k) \in Settled(k)..accepted[k] /\ Committed(k) = Settled(k) + offset[k]
        /\ accepted[k] \in 0..MaxRows /\ base[k] \in 0..MaxRows
        /\ Len(buffer[k]) \in Nat /\ offset[k] \in Nat
        BY ChunkEndType, Numbers DEF Committed
  <2>3. Settled(k)' = Settled(k) /\ Committed(k)' = c /\ Flushing(k)' /\ Flushing(k)
        BY <2>1 DEF Settled, Committed, Flushing, InsertChunk
  <2>4. c \in Committed(k)..accepted[k]
        BY <2>2
  <2>5. ASSUME NEW n \in 1..MaxRows
        PROVE  /\ n \in base[k] + 1 .. c => copies'[<<k, n>>] > 0
               /\ copies'[<<k, n>>] <= failedOn[<<k, n>>] + (IF n <= c THEN 1 ELSE 0)
    <3>1. copies[<<k, n>>] \in 0..MaxCopies /\ failedOn[<<k, n>>] \in 0..MaxCopies
          BY Numbers
    <3>2. copies[<<k, n>>] <= failedOn[<<k, n>>] + (IF n <= Committed(k) THEN 1 ELSE 0)
          BY DEF BufferInv
    <3>3. n \in base[k] + 1 .. Committed(k) => copies[<<k, n>>] > 0
          BY DEF BufferInv
    <3>4. CASE n \in Committed(k) + 1 .. c
      <4>1. copies'[<<k, n>>] = Bump(copies[<<k, n>>])
            BY <1>0, <3>4, ChunkWritten
      <4>2. copies[<<k, n>>] <= failedOn[<<k, n>>] /\ n <= c
            BY <2>2, <2>4, <3>1, <3>2, <3>4
      <4> QED BY <3>1, <4>1, <4>2, BumpType
    <3>5. CASE n \notin Committed(k) + 1 .. c
          BY <1>0, <2>2, <2>4, <3>1, <3>2, <3>3, <3>5, ChunkWritten
    <3> QED BY <3>4, <3>5
  <2>6. \A n \in base[k] + 1 .. c : n \in 1..MaxRows
        BY <2>2, <2>4
  <2> QED BY <1>2, <2>1, <2>3, <2>5, <2>6 DEF BufferInv
<1> QED BY <1>1, <1>2

\* A flush that succeeds keeps what is known of every buffer: all it drops is stored.
LEMMA FlushSucceedsKeeps ==
    ASSUME IInv, NEW k \in Kinds, FlushSucceeds(k), NEW j \in Kinds
    PROVE  BufferInv(j)'
<1> USE DEF IInv
<1>1. CASE j # k
  <2>1. /\ buffer'[j] = buffer[j] /\ holder'[j] = holder[j] /\ offset'[j] = offset[j]
        /\ accepted'[j] = accepted[j] /\ base'[j] = base[j]
        /\ copies' = copies /\ failedOn' = failedOn
        BY <1>1 DEF FlushSucceeds, CutBack, Unlock, TypeOK
  <2> QED BY <2>1, Numbers, Frame
<1>2. CASE j = k
  <2>1. /\ buffer'[k] = << >> /\ offset'[k] = 0 /\ Len(buffer'[k]) = 0
        /\ accepted' = accepted /\ base' = base /\ copies' = copies /\ failedOn' = failedOn
        BY EmptyBuffer DEF FlushSucceeds, CutBack, Unlock, TypeOK
  <2>2. Committed(k) = accepted[k] /\ accepted[k] \in 0..MaxRows /\ base[k] \in 0..MaxRows
        BY Numbers DEF FlushSucceeds, AllInserted, Committed
  <2>3. Settled(k)' = accepted[k] /\ Committed(k)' = accepted[k]
        BY <2>1, <2>2 DEF Settled, Committed
  <2>4. base[k] <= accepted[k]
        BY Numbers DEF BufferInv
  <2>5. BatchSize > 0 /\ BatchSize \in Nat
        OBVIOUS
  <2> QED BY <1>2, <2>1, <2>2, <2>3, <2>4, <2>5 DEF BufferInv
<1> QED BY <1>1, <1>2

\* A failed flush, whether or not its last chunk committed.
LEMMA KeepBufferKeeps ==
    ASSUME IInv, NEW k \in Kinds, KeepBuffer(k), copies' = copies \/ Insert(Chunk(k)),
           NEW j \in Kinds
    PROVE  BufferInv(j)'
<1> USE DEF IInv
<1>1. CASE j # k
  <2>1. /\ buffer'[j] = buffer[j] /\ holder'[j] = holder[j] /\ offset'[j] = offset[j]
        /\ accepted'[j] = accepted[j] /\ base'[j] = base[j]
        BY <1>1 DEF KeepBuffer, Unlock, TypeOK
  <2>2. \A n \in 1..MaxRows : copies'[<<j, n>>] = copies[<<j, n>>]
                             /\ failedOn'[<<j, n>>] = failedOn[<<j, n>>]
        BY <1>1, ChunkWritten, FailureCounted
  <2> QED BY <2>1, <2>2, Numbers, Frame
<1>2. CASE j = k
  <2>1. /\ buffer' = buffer /\ offset'[k] = 0
        /\ accepted' = accepted /\ base' = base
        BY DEF KeepBuffer, Unlock, TypeOK
  <2>2. /\ ChunkEnd(k) \in offset[k]..Len(buffer[k])
        /\ Settled(k) \in 0..accepted[k] /\ Settled(k) + Len(buffer[k]) = accepted[k]
        /\ Committed(k) \in Settled(k)..accepted[k]
        /\ accepted[k] \in 0..MaxRows /\ base[k] \in 0..MaxRows
        /\ Len(buffer[k]) \in Nat /\ offset[k] \in Nat
        BY ChunkEndType, Numbers
  <2>3. Settled(k)' = Settled(k) /\ Committed(k)' = Settled(k)
        BY <2>1, <2>2 DEF Settled, Committed
  <2>4. ASSUME NEW n \in 1..MaxRows
        PROVE  /\ n \in base[k] + 1 .. Settled(k) => copies'[<<k, n>>] > 0
               /\ copies'[<<k, n>>] <= failedOn'[<<k, n>>] + (IF n <= Settled(k) THEN 1 ELSE 0)
               /\ n \in accepted[k] + 1 .. MaxRows => failedOn'[<<k, n>>] = 0
               /\ n \in Settled(k) + 1 .. accepted[k] => failedOn'[<<k, n>>] > 0
    <3>1. copies[<<k, n>>] \in 0..MaxCopies /\ failedOn[<<k, n>>] \in 0..MaxCopies
          BY Numbers
    <3>2. /\ copies[<<k, n>>] <= failedOn[<<k, n>>] + (IF n <= Committed(k) THEN 1 ELSE 0)
          /\ n \in base[k] + 1 .. Committed(k) => copies[<<k, n>>] > 0
          /\ n \in accepted[k] + 1 .. MaxRows => failedOn[<<k, n>>] = 0
          BY DEF BufferInv
    <3>3. \/ copies'[<<k, n>>] = copies[<<k, n>>]
          \/ /\ n > Committed(k)
             /\ n <= accepted[k]
             /\ copies'[<<k, n>>] = Bump(copies[<<k, n>>])
      <4>1. CASE copies' = copies
            BY <4>1
      <4>2. CASE Insert(Chunk(k)) /\ n \in Committed(k) + 1 .. Settled(k) + ChunkEnd(k)
        <5>1. copies'[<<k, n>>] = Bump(copies[<<k, n>>])
              BY <4>2, ChunkWritten
        <5> QED BY <2>2, <4>2, <5>1
      <4>3. CASE Insert(Chunk(k)) /\ n \notin Committed(k) + 1 .. Settled(k) + ChunkEnd(k)
            BY <4>3, ChunkWritten
      <4> QED BY <4>1, <4>2, <4>3
    <3>4. CASE n \in Settled(k) + 1 .. accepted[k]
      <4>1. failedOn'[<<k, n>>] = Bump(failedOn[<<k, n>>])
            BY <3>4, FailureCounted
      <4>2. /\ failedOn'[<<k, n>>] \in 1..MaxCopies
            /\ copies[<<k, n>>] <= failedOn'[<<k, n>>]
            BY <3>1, <3>2, <4>1 DEF Bump
      <4>3. copies'[<<k, n>>] <= failedOn'[<<k, n>>]
            BY <2>2, <3>1, <3>2, <3>3, <4>1, <4>2 DEF Bump
      <4> QED BY <2>2, <3>4, <4>2, <4>3
    <3>5. CASE n \notin Settled(k) + 1 .. accepted[k]
      <4>1. failedOn'[<<k, n>>] = failedOn[<<k, n>>]
            BY <3>5, FailureCounted
      <4> QED BY <2>2, <3>1, <3>2, <3>3, <3>5, <4>1
    <3> QED BY <3>4, <3>5
  <2>5. /\ \A n \in base[k] + 1 .. Settled(k) : n \in 1..MaxRows
        /\ \A n \in accepted[k] + 1 .. MaxRows : n \in 1..MaxRows
        /\ \A n \in Settled(k) + 1 .. accepted[k] : n \in 1..MaxRows
        BY <2>2
  <2> QED BY <1>2, <2>1, <2>3, <2>4, <2>5 DEF BufferInv
<1> QED BY <1>1, <1>2

\* FlushAll entering or skipping a buffer keeps what is known of every buffer.
LEMMA FlusherLocksKeeps ==
    ASSUME IInv, FlusherLocks, NEW j \in Kinds
    PROVE  BufferInv(j)'
<1> USE DEF IInv
<1>1. /\ buffer' = buffer /\ offset' = offset /\ accepted' = accepted /\ base' = base
      /\ copies' = copies /\ failedOn' = failedOn
      BY DEF FlusherLocks
<1>2. CASE holder'[j] = holder[j]
      BY <1>1, <1>2, Numbers, Frame
<1>3. CASE holder'[j] # holder[j]
  <2>1. ~Flushing(j) /\ Flushing(j)'
        BY <1>3 DEF FlusherLocks, Flushing, TypeOK
  <2>2. Settled(j)' = Settled(j) /\ Committed(j)' = Committed(j)
        BY <1>1 DEF Settled, Committed
  <2> QED BY <1>1, <2>1, <2>2 DEF BufferInv
<1> QED BY <1>2, <1>3

\* A crash keeps what is known of every buffer: all are empty, and nothing before it counts.
LEMMA CrashKeeps ==
    ASSUME IInv, Crash, NEW j \in Kinds
    PROVE  BufferInv(j)'
<1> USE DEF IInv
<1>1. /\ buffer'[j] = << >> /\ offset'[j] = 0 /\ Len(buffer'[j]) = 0
      /\ accepted' = accepted /\ base'[j] = accepted[j]
      /\ copies' = copies /\ failedOn' = failedOn
      BY EmptyBuffer DEF Crash, TypeOK
<1>2. accepted[j] \in 0..MaxRows /\ Committed(j) \in 0..accepted[j] /\ BatchSize \in Nat \ {0}
      BY Numbers
<1>3. Settled(j)' = accepted[j] /\ Committed(j)' = accepted[j]
      BY <1>1, <1>2 DEF Settled, Committed
<1>4. ASSUME NEW n \in 1..MaxRows
      PROVE  copies[<<j, n>>] <= failedOn[<<j, n>>] + (IF n <= accepted[j] THEN 1 ELSE 0)
  <2>1. copies[<<j, n>>] <= failedOn[<<j, n>>] + (IF n <= Committed(j) THEN 1 ELSE 0)
        BY DEF BufferInv
  <2>2. copies[<<j, n>>] \in Nat /\ failedOn[<<j, n>>] \in Nat
        BY Numbers
  <2> QED BY <1>2, <2>1, <2>2
<1>5. \A n \in accepted[j] + 1 .. MaxRows : failedOn[<<j, n>>] = 0
      BY DEF BufferInv
<1> QED BY <1>1, <1>2, <1>3, <1>4, <1>5 DEF BufferInv

-----------------------------------------------------------------------------
(* The final flush.                                                        *)

\* What makes a row safe from being left behind by Stop never becomes false.
Marked(r) == copies[r] > 0 \/ failedOn[r] > 0

\* A step that only makes rows safer keeps what the final flush has achieved.
LEMMA FinalFrame ==
    ASSUME FinalInv, cancelled' = cancelled, flusher' = flusher, cursor' = cursor,
           base' = base, atStop' = atStop,
           \A k \in Kinds : accepted[k] \in Nat /\ atStop[k] \in Nat /\ base[k] \in Nat
                         /\ accepted'[k] \in Nat /\ accepted'[k] >= accepted[k],
           \A k \in Kinds : holder'[k] = Flusher => holder[k] = Flusher,
           \A k \in Kinds : \A n \in base[k] + 1 .. atStop[k] :
               Marked(<<k, n>>) => Marked(<<k, n>>)'
    PROVE  FinalInv'
BY DEF FinalInv, Marked

\* FlushAll leaves the buffer at its cursor, whose rows are safe.
LEMMA FinalAdvance ==
    ASSUME TypeOK, FinalInv, NextBuffer, cancelled' = cancelled,
           base' = base, atStop' = atStop, accepted' = accepted,
           \A k \in Kinds : holder'[k] # Flusher,
           \A k \in Kinds : \A n \in base[k] + 1 .. atStop[k] :
               Marked(<<k, n>>) \/ k = cursor => Marked(<<k, n>>)'
    PROVE  FinalInv'
<1>1. /\ \A k \in Kinds : atStop'[k] <= accepted'[k]
      /\ \A k \in Kinds : holder'[k] = Flusher =>
             k = cursor' /\ flusher' \in {"tick", "final"}
      BY DEF FinalInv
<1>2. flusher' \in {"final", "done"} => cancelled'
      BY DEF FinalInv, NextBuffer
<1>3. ASSUME NEW k \in Kinds, flusher' = "done" \/ (flusher' = "final" /\ k < cursor'),
             NEW n \in base[k] + 1 .. atStop[k]
      PROVE  Marked(<<k, n>>)'
  <2>1. CASE k = cursor
        BY <2>1
  <2>2. CASE k # cursor
    <3>1. flusher = "done" \/ (flusher = "final" /\ k < cursor)
          BY <1>3, <2>2 DEF NextBuffer, TypeOK, Kinds
    <3>2. Marked(<<k, n>>)
          BY <3>1 DEF FinalInv, Marked
    <3> QED BY <3>2
  <2> QED BY <2>1, <2>2
<1> QED BY <1>1, <1>2, <1>3 DEF FinalInv, Marked

\* A row's copies and failed flushes never go down.
LEMMA MarkedStays ==
    ASSUME IInv, NEW k \in Kinds,
           copies' = copies \/ Insert(Chunk(k)),
           failedOn' = failedOn \/ KeepBuffer(k),
           NEW j \in Kinds, NEW n \in 1..MaxRows, Marked(<<j, n>>)
    PROVE  Marked(<<j, n>>)'
<1>1. copies[<<j, n>>] \in 0..MaxCopies /\ failedOn[<<j, n>>] \in 0..MaxCopies
      BY Numbers DEF IInv
<1>2. copies[<<j, n>>] > 0 => copies'[<<j, n>>] > 0
  <2>1. CASE copies' = copies
        BY <2>1
  <2>2. CASE Insert(Chunk(k))
        BY <1>1, <2>2, ChunkWritten, BumpType
  <2> QED BY <2>1, <2>2
<1>3. failedOn[<<j, n>>] > 0 => failedOn'[<<j, n>>] > 0
  <2>1. CASE failedOn' = failedOn
        BY <2>1
  <2>2. CASE KeepBuffer(k)
        BY <1>1, <2>2, FailureCounted, BumpType
  <2> QED BY <2>1, <2>2
<1> QED BY <1>2, <1>3 DEF Marked

\* Every row handed over before Stop has a row number.
LEMMA StopRows ==
    ASSUME IInv, NEW k \in Kinds, NEW n \in base[k] + 1 .. atStop[k]
    PROVE  n \in 1..MaxRows /\ n \in base[k] + 1 .. accepted[k]
BY Numbers DEF IInv, FinalInv

\* Only the buffer at the cursor is locked by the flusher.
LEMMA OneFlush ==
    ASSUME IInv, NEW k \in Kinds, holder[k] = Flusher, NEW j \in Kinds
    PROVE  k = cursor /\ (j # k => holder[j] # Flusher)
BY DEF IInv, FinalInv

\* The end of a flush, good or bad, keeps what the final flush has achieved: the flush it
\* was doing itself has made its buffer's rows safe before FlushAll goes on.
LEMMA FlushStepFinal ==
    ASSUME IInv, NEW k \in Kinds, Unlock(k),
           copies' = copies \/ Insert(Chunk(k)),
           failedOn' = failedOn \/ KeepBuffer(k),
           IF holder[k] = Flusher THEN NextBuffer ELSE UNCHANGED <<flusher, cursor>>,
           cancelled' = cancelled, base' = base, atStop' = atStop, accepted' = accepted,
           \A n \in base[k] + 1 .. accepted[k] : Marked(<<k, n>>)'
    PROVE  FinalInv'
<1> USE DEF IInv
<1>1. \A j \in Kinds : holder'[j] = IF j = k THEN Nobody ELSE holder[j]
      BY DEF Unlock, TypeOK
<1>2. \A j \in Kinds : \A n \in base[j] + 1 .. atStop[j] :
          Marked(<<j, n>>) \/ j = k => Marked(<<j, n>>)'
      BY StopRows, MarkedStays
<1>3. CASE holder[k] = Flusher
  <2>1. k = cursor /\ \A j \in Kinds : holder'[j] # Flusher
        BY <1>1, <1>3, OneFlush
  <2> QED BY <1>2, <1>3, <2>1, FinalAdvance
<1>4. CASE holder[k] # Flusher
  <2>1. \A j \in Kinds : holder'[j] = Flusher => holder[j] = Flusher
        BY <1>1
  <2>2. \A j \in Kinds : accepted[j] \in Nat /\ atStop[j] \in Nat /\ base[j] \in Nat
        BY Numbers
  <2> QED BY <1>2, <1>4, <2>1, <2>2, FinalFrame
<1> QED BY <1>3, <1>4

\* Every action keeps what the final flush has achieved.
LEMMA FinalStep == IInv /\ [Next]_vars => FinalInv'
<1> SUFFICES ASSUME IInv, [Next]_vars PROVE FinalInv'
    OBVIOUS
<1> USE DEF IInv
<1>0. /\ \A j \in Kinds : accepted[j] \in Nat /\ atStop[j] \in Nat /\ base[j] \in Nat
      /\ \A j \in Kinds : atStop[j] <= accepted[j]
      BY Numbers DEF FinalInv
<1>1. ASSUME NEW p \in Producers, NEW k \in Kinds, Add(p, k) PROVE FinalInv'
  <2>1. \A j \in Kinds : accepted'[j] \in Nat /\ accepted'[j] >= accepted[j]
        BY <1>0, <1>1 DEF Add, TypeOK
  <2>2. \A j \in Kinds : holder'[j] = Flusher => holder[j] = Flusher
        BY <1>1 DEF Add, TypeOK
  <2>3. /\ cancelled' = cancelled /\ flusher' = flusher /\ cursor' = cursor
        /\ base' = base /\ atStop' = atStop /\ copies' = copies /\ failedOn' = failedOn
        BY <1>1 DEF Add
  <2>4. \A r : Marked(r)' <=> Marked(r)
        BY <2>3 DEF Marked
  <2> QED BY <1>0, <2>1, <2>2, <2>3, <2>4, FinalFrame
<1>2. ASSUME NEW k \in Kinds, InsertChunk(k) PROVE FinalInv'
  <2>1. \A j \in Kinds : \A n \in base[j] + 1 .. atStop[j] : Marked(<<j, n>>) => Marked(<<j, n>>)'
        BY <1>2, StopRows, MarkedStays DEF InsertChunk
  <2> QED BY <1>0, <1>2, <2>1, FinalFrame DEF InsertChunk
<1>3. ASSUME NEW k \in Kinds, FlushSucceeds(k) PROVE FinalInv'
  <2>1. \A n \in base[k] + 1 .. accepted[k] : copies[<<k, n>>] > 0
    <3>1. Committed(k) = accepted[k]
          BY <1>3, Numbers DEF FlushSucceeds, AllInserted, Committed
    <3> QED BY <3>1 DEF BufferInv
  <2>2. \A n \in base[k] + 1 .. accepted[k] : Marked(<<k, n>>)'
        BY <1>3, <2>1 DEF FlushSucceeds, Marked
  <2> QED BY <1>3, <2>2, FlushStepFinal DEF FlushSucceeds
<1>4. ASSUME NEW k \in Kinds, KeepBuffer(k), copies' = copies \/ Insert(Chunk(k))
      PROVE  FinalInv'
  <2>1. ASSUME NEW n \in base[k] + 1 .. accepted[k] PROVE Marked(<<k, n>>)'
    <3>1. n \in 1..MaxRows /\ Settled(k) \in Nat /\ Committed(k) \in Nat /\ Committed(k) >= Settled(k)
          BY Numbers
    <3>2. CASE n <= Settled(k)
      <4>1. n \in base[k] + 1 .. Committed(k)
            BY <1>0, <3>1, <3>2
      <4>2. Marked(<<k, n>>)
            BY <4>1 DEF BufferInv, Marked
      <4> QED BY <1>4, <3>1, <4>2, MarkedStays
    <3>3. CASE n > Settled(k)
      <4>1. failedOn'[<<k, n>>] = Bump(failedOn[<<k, n>>])
            BY <1>0, <1>4, <3>1, <3>3, FailureCounted
      <4>2. failedOn[<<k, n>>] \in 0..MaxCopies
            BY <3>1, Numbers
      <4> QED BY <4>1, <4>2, BumpType DEF Marked
    <3> QED BY <1>0, <3>1, <3>2, <3>3
  <2> QED BY <1>4, <2>1, FlushStepFinal DEF KeepBuffer, AfterError
<1>5. CASE Tick
      BY <1>5 DEF Tick, StartFlushAll, FinalInv
<1>6. CASE FinalFlush
      BY <1>6 DEF FinalFlush, StartFlushAll, FinalInv, Kinds
<1>7. CASE FlusherLocks
  <2>1. \A j \in Kinds : holder[j] # Flusher
        BY <1>7 DEF FlusherLocks, FinalInv
  <2>2. /\ cancelled' = cancelled /\ base' = base /\ atStop' = atStop /\ accepted' = accepted
        /\ copies' = copies /\ failedOn' = failedOn
        BY <1>7 DEF FlusherLocks
  <2>3. \A r : Marked(r)' <=> Marked(r)
        BY <2>2 DEF Marked
  <2>4. CASE buffer[cursor] = << >>
    <3>1. cursor \in Kinds /\ Len(buffer[cursor]) = 0
          BY <2>4, EmptyBuffer DEF TypeOK
    <3>2. Committed(cursor) = accepted[cursor]
          BY <3>1, Numbers DEF Committed
    <3>3. \A n \in base[cursor] + 1 .. accepted[cursor] : Marked(<<cursor, n>>)
          BY <3>1, <3>2 DEF BufferInv, Marked
    <3>4. \A n \in base[cursor] + 1 .. atStop[cursor] : Marked(<<cursor, n>>)
          BY <1>0, <3>1, <3>3
    <3>5. NextBuffer /\ holder' = holder
          BY <1>7, <2>4 DEF FlusherLocks
    <3> QED BY <2>1, <2>2, <2>3, <3>4, <3>5, FinalAdvance
  <2>5. CASE buffer[cursor] # << >>
        BY <1>7, <2>1, <2>2, <2>5 DEF FlusherLocks, FinalInv, TypeOK
  <2> QED BY <2>4, <2>5
<1>8. CASE Stop
      BY <1>0, <1>8 DEF Stop, FinalInv
<1>9. CASE Crash
      BY <1>0, <1>9 DEF Crash, FinalInv
<1>10. CASE UNCHANGED vars
      BY <1>10 DEF vars, service, FinalInv
<1>11. ASSUME NEW k \in Kinds, FlushRefused(k) \/ FlushFails(k) \/ FlushFailsCommitted(k)
       PROVE  KeepBuffer(k) /\ (copies' = copies \/ Insert(Chunk(k)))
       BY <1>11 DEF FlushRefused, FlushFails, FlushFailsCommitted
<1> QED BY <1>1, <1>2, <1>3, <1>4, <1>5, <1>6, <1>7, <1>8, <1>9, <1>10, <1>11
        DEF Next, FlushStep

-----------------------------------------------------------------------------
(* The invariant, and the safety properties it gives.                      *)

\* The inductive invariant holds of a new service.
LEMMA IInvInit == Init => IInv
<1> SUFFICES ASSUME Init PROVE IInv
    OBVIOUS
<1>1. TypeOK
      BY TypeInit
<1>2. ASSUME NEW k \in Kinds PROVE BufferInv(k)
  <2>1. /\ accepted[k] = 0 /\ base[k] = 0 /\ offset[k] = 0 /\ Len(buffer[k]) = 0
        /\ \A n \in 1..MaxRows : copies[<<k, n>>] = 0 /\ failedOn[<<k, n>>] = 0
        BY EmptyBuffer DEF Init, Row
  <2>2. Settled(k) = 0 /\ Committed(k) = 0 /\ BatchSize \in Nat \ {0}
        BY <2>1 DEF Settled, Committed
  <2> QED BY <2>1, <2>2 DEF BufferInv
<1>3. FinalInv
      BY DEF Init, FinalInv
<1> QED BY <1>1, <1>2, <1>3 DEF IInv

\* Every action keeps what is known of every buffer.
LEMMA BufferStep ==
    ASSUME IInv, [Next]_vars, NEW j \in Kinds
    PROVE  BufferInv(j)'
<1>1. ASSUME NEW k \in Kinds, FlushStep(k) PROVE BufferInv(j)'
      BY <1>1, InsertChunkKeeps, FlushSucceedsKeeps, KeepBufferKeeps
         DEF FlushStep, FlushRefused, FlushFails, FlushFailsCommitted
<1>2. ASSUME Tick \/ FinalFlush \/ Stop \/ UNCHANGED vars PROVE BufferInv(j)'
  <2>1. /\ buffer' = buffer /\ holder' = holder /\ offset' = offset
        /\ accepted' = accepted /\ base' = base /\ copies' = copies /\ failedOn' = failedOn
        BY <1>2 DEF Tick, FinalFlush, StartFlushAll, Stop, vars, service
  <2> QED BY <2>1, Numbers, Frame DEF IInv
<1> QED BY <1>1, <1>2, AddKeeps, FlusherLocksKeeps, CrashKeeps DEF Next

\* The inductive invariant: the types, what each buffer, its table rows and its failures have
\* to do with each other, and how far a final flush has got, hold in every reachable state.
THEOREM BatchInsertInvariant == Spec => []IInv
<1>1. IInv /\ [Next]_vars => IInv'
      BY TypeStep, BufferStep, FinalStep DEF IInv
<1> QED BY IInvInit, <1>1, PTL DEF Spec

\* No row handed over since the process started is ever in neither its buffer nor the
\* table, whatever fails and however flushes, Adds and Stop interleave.
THEOREM BatchInsertNothingLost == Spec => []NothingLost
<1>1. ASSUME IInv, NEW k \in Kinds, NEW n \in base[k] + 1 .. accepted[k]
      PROVE  <<k, n>> \in Buffered(k) \/ copies[<<k, n>>] > 0
  <2>1. /\ n \in 1..MaxRows /\ Settled(k) \in Nat /\ Committed(k) \in Nat
        /\ Committed(k) >= Settled(k) /\ base[k] \in Nat /\ accepted[k] \in Nat
        BY <1>1, Numbers DEF IInv
  <2>2. CASE n <= Settled(k)
        BY <1>1, <2>1, <2>2 DEF IInv, BufferInv
  <2>3. CASE n > Settled(k)
        BY <1>1, <2>1, <2>3, RowsOf DEF IInv
  <2> QED BY <2>1, <2>2, <2>3
<1>2. IInv => NothingLost
      BY <1>1 DEF NothingLost
<1> QED BY <1>2, BatchInsertInvariant, PTL

\* A row has at most one copy more than the flushes it failed in.
THEOREM BatchInsertDuplicates == Spec => []DuplicatesNeedFailure
<1>1. ASSUME IInv, NEW r \in Row PROVE copies[r] <= failedOn[r] + 1
  <2>1. PICK k \in Kinds, n \in 1..MaxRows : r = <<k, n>>
        BY DEF Row
  <2>2. copies[r] \in Nat /\ failedOn[r] \in Nat
        BY <1>1, <2>1, Numbers DEF IInv
  <2>3. copies[r] <= failedOn[r] + (IF n <= Committed(k) THEN 1 ELSE 0)
        BY <1>1, <2>1 DEF IInv, BufferInv
  <2> QED BY <2>2, <2>3
<1>2. IInv => DuplicatesNeedFailure
      BY <1>1 DEF DuplicatesNeedFailure
<1> QED BY <1>2, BatchInsertInvariant, PTL

\* An unlocked buffer at batchSize or more has failed to flush, with all its rows.
THEOREM BatchInsertOverfull == Spec => []OverfullOnlyAfterFailure
<1>1. ASSUME IInv, NEW k \in Kinds, ~Flushing(k), Len(buffer[k]) >= BatchSize,
             NEW r \in Buffered(k)
      PROVE  failedOn[r] > 0
  <2>1. PICK i \in 1..Len(buffer[k]) : r = <<k, buffer[k][i]>>
        BY DEF Buffered
  <2>2. buffer[k][i] \in Settled(k) + 1 .. accepted[k]
        BY <1>1, Numbers DEF IInv, BufferInv
  <2> QED BY <1>1, <2>1, <2>2 DEF IInv, BufferInv
<1>2. IInv => OverfullOnlyAfterFailure
      BY <1>1 DEF OverfullOnlyAfterFailure
<1> QED BY <1>2, BatchInsertInvariant, PTL

\* When Stop returns, the rows handed over before it are stored, or a flush of theirs failed.
THEOREM BatchInsertStop == Spec => []StopFlushesEarlierRows
<1>1. IInv => StopFlushesEarlierRows
      BY DEF IInv, FinalInv, StopFlushesEarlierRows
<1> QED BY <1>1, BatchInsertInvariant, PTL

-----------------------------------------------------------------------------
(* Refinement: the service implements the at-least-once store.             *)

\* A row is pending if some buffer holds it.
LEMMA PendingRows == \A r : r \in Pending <=> \E k \in Kinds : r \in Buffered(k)
BY DEF Pending

\* While no buffer changes, neither does the set of pending rows.
LEMMA PendingSame ==
    ASSUME buffer' = buffer PROVE Pending' = Pending
BY DEF Pending, Buffered

\* The rows of one buffer carry its number, so no other buffer holds them.
LEMMA BufferedApart ==
    ASSUME NEW k \in Kinds, NEW j \in Kinds, j # k, NEW r \in Buffered(k)
    PROVE  r \notin Buffered(j)
BY DEF Buffered

\* The rows of a chunk are pending rows.
LEMMA ChunkPending ==
    ASSUME IInv, NEW k \in Kinds PROVE Chunk(k) \in SUBSET Pending
<1>1. offset[k] \in Nat /\ ChunkEnd(k) \in offset[k]..Len(buffer[k]) /\ Len(buffer[k]) \in Nat
      BY ChunkEndType, Numbers DEF IInv
<1>2. Chunk(k) \subseteq Buffered(k)
      BY <1>1 DEF Chunk, Buffered
<1> QED BY <1>2, PendingRows

\* An Add hands a new row to the abstract store.
LEMMA AddAccepts ==
    ASSUME IInv, NEW p \in Producers, NEW k \in Kinds, Add(p, k)
    PROVE  \E r \in Row : Store!Accept(r)
<1> DEFINE r == <<k, accepted[k] + 1>>
<1> USE DEF IInv
<1>1. /\ accepted[k] + 1 \in 1..MaxRows /\ copies' = copies
      /\ buffer' = [buffer EXCEPT ![k] = Append(buffer[k], accepted[k] + 1)]
  <2>1. /\ accepted[k] < RowBound[k] /\ copies' = copies
        /\ buffer' = [buffer EXCEPT ![k] = Append(buffer[k], accepted[k] + 1)]
        BY DEF Add
  <2>2. accepted[k] \in Nat
        BY Numbers
  <2> QED BY <2>1, <2>2, AddBound
<1>2. r \in Row
      BY <1>1 DEF Row
<1>3. copies[r] = 0
  <2>1. /\ copies[r] \in Nat /\ Committed(k) \in 0..accepted[k] /\ accepted[k] \in Nat
        BY <1>1, Numbers
  <2>2. copies[r] <= failedOn[r] + (IF accepted[k] + 1 <= Committed(k) THEN 1 ELSE 0)
        BY <1>1 DEF BufferInv
  <2>3. failedOn[r] = 0
        BY <1>1, <2>1 DEF BufferInv
  <2> QED BY <2>1, <2>2, <2>3
<1>4. ASSUME NEW j \in Kinds PROVE r \notin Buffered(j)
      BY <1>1, RowsOf, Numbers
<1>5. ASSUME NEW j \in Kinds
      PROVE  Buffered(j)' = IF j = k THEN Buffered(k) \union {r} ELSE Buffered(j)
  <2>1. CASE j = k
    <3>1. /\ buffer'[k] = Append(buffer[k], accepted[k] + 1)
          /\ buffer[k] \in Seq(1..MaxRows) /\ Len(buffer[k]) \in Nat
      <4>1. buffer[k] \in Seq(1..MaxRows) /\ Len(buffer[k]) \in Nat
            BY BufferType
      <4> QED BY <1>1, <4>1 DEF TypeOK
    <3>2. /\ Len(buffer'[k]) = Len(buffer[k]) + 1
          /\ \A i \in 1..Len(buffer[k]) : buffer'[k][i] = buffer[k][i]
          /\ buffer'[k][Len(buffer[k]) + 1] = accepted[k] + 1
          BY <3>1
    <3>3. 1..Len(buffer'[k]) = (1..Len(buffer[k])) \union {Len(buffer[k]) + 1}
          BY <3>1, <3>2
    <3> QED BY <2>1, <3>2, <3>3 DEF Buffered
  <2>2. CASE j # k
        BY <1>1, <2>2 DEF Buffered, TypeOK
  <2> QED BY <2>1, <2>2
<1>6. r \notin Pending
      BY <1>4, PendingRows
<1>7. Pending' = Pending \union {r}
      BY <1>5 DEF Pending
<1> QED BY <1>1, <1>2, <1>3, <1>6, <1>7 DEF Store!Accept

\* A flush that succeeds settles rows that the abstract store has written.
LEMMA FlushSettles ==
    ASSUME IInv, NEW k \in Kinds, FlushSucceeds(k)
    PROVE  \E S \in SUBSET Pending : Store!Settle(S)
<1> USE DEF IInv
<1>1. /\ buffer' = [buffer EXCEPT ![k] = << >>] /\ copies' = copies
      /\ offset[k] = Len(buffer[k])
      BY DEF FlushSucceeds, CutBack, AllInserted
<1>2. Buffered(k) \in SUBSET Pending
      BY PendingRows
<1>3. ASSUME NEW r \in Buffered(k) PROVE copies[r] > 0
  <2>1. PICK i \in 1..Len(buffer[k]) : r = <<k, buffer[k][i]>>
        BY DEF Buffered
  <2>2. buffer[k][i] \in base[k] + 1 .. Committed(k)
        BY <1>1, Numbers DEF BufferInv, Committed
  <2> QED BY <2>1, <2>2 DEF BufferInv
<1>4. ASSUME NEW j \in Kinds PROVE Buffered(j)' = IF j = k THEN {} ELSE Buffered(j)
  <2>1. CASE j = k
    <3>1. Len(buffer'[k]) = 0
          BY <1>1, EmptyBuffer DEF TypeOK
    <3> QED BY <2>1, <3>1 DEF Buffered
  <2>2. CASE j # k
        BY <1>1, <2>2 DEF Buffered, TypeOK
  <2> QED BY <2>1, <2>2
<1>5. Pending' = Pending \ Buffered(k)
  <2>1. ASSUME NEW r PROVE r \in Pending' <=> r \in Pending /\ r \notin Buffered(k)
    <3>1. r \in Pending' <=> \E j \in Kinds : r \in Buffered(j)'
          BY DEF Pending
    <3>2. r \in Pending' <=> \E j \in Kinds : j # k /\ r \in Buffered(j)
          BY <1>4, <3>1
    <3> QED BY <3>2, BufferedApart, PendingRows
  <2> QED BY <2>1
<1> QED BY <1>1, <1>2, <1>3, <1>5 DEF Store!Settle

\* A chunk is a write of pending rows in the abstract store.
LEMMA InsertWrites ==
    ASSUME IInv, NEW k \in Kinds, Insert(Chunk(k)), buffer' = buffer
    PROVE  \E S \in SUBSET Pending : Store!Write(S)
BY ChunkPending, PendingSame DEF Insert, Store!Write, Bump, Store!Bump

\* The batch-insert service, with its buffers as the pending rows, implements the
\* at-least-once store: no flush, failure, stop or crash does what the store may not.
THEOREM BatchInsertRefinesStore == Spec => StoreSpec
<1>1. Init => Store!Init
  <2>1. ASSUME Init PROVE Pending = {} /\ copies = [r \in Row |-> 0]
    <3>1. \A k \in Kinds : Buffered(k) = {}
          BY <2>1, EmptyBuffer DEF Init, Buffered
    <3> QED BY <2>1, <3>1 DEF Init, Pending
  <2> QED BY <2>1 DEF Store!Init
<1>2. IInv /\ [Next]_vars => [Store!Next]_(Store!storeVars)
  <2> SUFFICES ASSUME IInv, [Next]_vars
               PROVE  Store!Next \/ UNCHANGED <<Pending, copies>>
      BY DEF Store!storeVars
  <2>1. ASSUME NEW p \in Producers, NEW k \in Kinds, Add(p, k) PROVE Store!Next
        BY <2>1, AddAccepts DEF Store!Next
  <2>2. ASSUME NEW k \in Kinds, FlushSucceeds(k) PROVE Store!Next
        BY <2>2, FlushSettles DEF Store!Next
  <2>3. ASSUME NEW k \in Kinds, InsertChunk(k) \/ FlushFailsCommitted(k) PROVE Store!Next
        BY <2>3, InsertWrites DEF Store!Next, InsertChunk, FlushFailsCommitted, KeepBuffer
  <2>4. ASSUME NEW k \in Kinds, FlushRefused(k) \/ FlushFails(k)
        PROVE  UNCHANGED <<Pending, copies>>
        BY <2>4, PendingSame DEF FlushRefused, FlushFails, KeepBuffer
  <2>5. ASSUME Tick \/ FinalFlush \/ FlusherLocks \/ Stop \/ UNCHANGED vars
        PROVE  UNCHANGED <<Pending, copies>>
        BY <2>5, PendingSame DEF Tick, FinalFlush, StartFlushAll, FlusherLocks, Stop, vars, service
  <2>6. ASSUME Crash PROVE Store!Next
    <3>1. \A k \in Kinds : Buffered(k)' = {}
          BY <2>6, EmptyBuffer DEF Crash, Buffered
    <3>2. Pending' = {} /\ copies' = copies
          BY <2>6, <3>1 DEF Pending, Crash
    <3> QED BY <3>2 DEF Store!Next, Store!Forget
  <2> QED BY <2>1, <2>2, <2>3, <2>4, <2>5, <2>6 DEF Next, FlushStep
<1> QED BY <1>1, <1>2, BatchInsertInvariant, PTL DEF Spec, StoreSpec, Store!Spec
=============================================================================
