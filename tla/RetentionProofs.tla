--------------------------- MODULE RetentionProofs --------------------------
(***************************************************************************)
(* Proofs about Retention, for any tables, window, provisioned partitions, *)
(* numbers of rows and months, failing statements and crashes.             *)
(***************************************************************************)
EXTENDS Retention, TLAPS

-----------------------------------------------------------------------------
(* The inductive invariants.                                               *)

RowsType ==
    /\ month \in 1..LastMonth
    /\ rows \subseteq Row /\ pending \subseteq Row /\ stored \subseteq Row

\* A partition is checked or dropped only by the transaction that drops, the cutoff of a
\* running pass is not ahead of the clock's, and a transaction that has dropped a
\* partition keeps writers off its table.
PassInv ==
    /\ cutoff \in Int
    /\ checked # NoPartition \/ dropped # {} => pass = "dropping"
    /\ pass \in {"dropping", "delete"} => cutoff <= Cutoff

\* In what the pass drops, or is about to, there is no row within the window but for
\* those that slipped in after the check.
NothingYoungIn(t, p) == \A r \in rows \ raced : In(r, t, p) => r[2] < cutoff
DropInv ==
    /\ checked # NoPartition => NothingYoungIn(checked[1], checked[2])
    /\ \A d \in dropped : NothingYoungIn(d[1], d[2])

\* A partition covers the month it is named for, and what the pass drops, or is about to,
\* is named for a month before the cutoff.
PartsInv ==
    /\ parts \in [Partitioned -> SUBSET Partition]
    /\ \A t \in Partitioned : \A p \in parts[t] : Covers(p, p.name)
    /\ checked # NoPartition => OldEnough(checked[2])
    /\ \A d \in dropped : OldEnough(d[2])

\* What the last create_monthly_partitions ensured: by name, the month it ran in and the next.
AheadInv ==
    /\ lastCreated \in Int /\ lastCreated <= month
    /\ \A t \in Partitioned :
         /\ lastCreated >= month - 1 => Named(parts[t], month)
         /\ lastCreated = month => Named(parts[t], month + 1)

WindowInv == RowsType /\ PassInv /\ DropInv /\ InWindowKept

-----------------------------------------------------------------------------
(* Rows within the window.                                                 *)

LEMMA WindowSize == RetentionMonths \in Nat \ {0}
BY RetentionAssumption DEF RetentionMonths

LEMMA CutoffInt == ASSUME RowsType PROVE Cutoff \in Int /\ Cutoff <= month
BY WindowSize, RetentionAssumption DEF Cutoff, RowsType

\* The clock moves the cutoff forward, if at all.
LEMMA CutoffMoves ==
    ASSUME month \in 1..LastMonth, month' \in {month, month + 1}
    PROVE  Cutoff \in Int /\ Cutoff' \in Int /\ Cutoff <= Cutoff'
<1>1. month \in Int /\ (month' = month \/ month' = month + 1)
      BY RetentionAssumption
<1>2. Cutoff \in Int
      BY <1>1, WindowSize DEF Cutoff
<1>3. CASE month' = month
      BY <1>2, <1>3 DEF Cutoff
<1>4. CASE month' = month + 1
  <2>1. Cutoff' = Cutoff + 1
        BY <1>1, <1>4, WindowSize DEF Cutoff
  <2> QED BY <1>2, <2>1
<1> QED BY <1>1, <1>3, <1>4

LEMMA InitWindow == ASSUME Init PROVE WindowInv
BY RetentionAssumption DEF Init, WindowInv, RowsType, PassInv, DropInv, InWindowKept

\* Steps that leave rows, checks and drops alone keep the window: the clock only moves
\* the cutoff forward.
LEMMA QuietWindow ==
    ASSUME WindowInv,
           UNCHANGED <<rows, stored, raced, cutoff>>,
           month' \in {month, month + 1}, month' \in 1..LastMonth, pending' \subseteq Row,
           pass' = pass \/ pass' \notin {"dropping", "delete"},
           checked' \in {checked, NoPartition}, dropped' \in {dropped, {}},
           checked' # NoPartition \/ dropped' # {} => pass' = "dropping"
    PROVE  WindowInv'
<1>1. Cutoff \in Int /\ Cutoff' \in Int /\ Cutoff <= Cutoff'
      BY CutoffMoves DEF WindowInv, RowsType
<1>2. RowsType'
      BY DEF WindowInv, RowsType
<1>3. PassInv'
      BY <1>1 DEF WindowInv, PassInv
<1>4. DropInv'
      BY DEF WindowInv, DropInv, NothingYoungIn
<1>5. InWindowKept'
      BY <1>1 DEF WindowInv, InWindowKept, RowsType, Row
<1> QED BY <1>2, <1>3, <1>4, <1>5 DEF WindowInv


\* The transaction begins: its cutoff is the clock's, and nothing is checked yet.
LEMMA BeginDropWindow == ASSUME WindowInv, BeginDrop PROVE WindowInv'
<1>1. Cutoff' = Cutoff /\ Cutoff \in Int
      BY CutoffInt DEF BeginDrop, Cutoff, WindowInv
<1>2. checked = NoPartition /\ dropped = {}
      BY DEF BeginDrop, WindowInv, PassInv
<1> QED BY <1>1, <1>2
        DEF BeginDrop, WindowInv, RowsType, PassInv, DropInv, InWindowKept, database, history

\* A partition that passes the check holds no row within the window.
LEMMA PassCheckWindow ==
    ASSUME WindowInv, NEW d \in left, PassCheck(d[1], d[2])
    PROVE  WindowInv'
<1>1. Cutoff' = Cutoff
      BY DEF PassCheck, Cutoff
<1>2. RowsType' /\ PassInv' /\ InWindowKept'
      BY <1>1 DEF PassCheck, WindowInv, RowsType, PassInv, InWindowKept, database, history
<1>3. DropInv'
  <2>1. \A r \in rows : In(r, d[1], d[2]) => r[2] < cutoff
        BY DEF PassCheck, HasInWindow, WindowInv, RowsType, PassInv, Row
  <2> QED BY <2>1 DEF PassCheck, WindowInv, DropInv, NothingYoungIn, database, history
<1> QED BY <1>2, <1>3 DEF WindowInv

LEMMA DropWindow == ASSUME WindowInv, DropPartition PROVE WindowInv'
<1>1. Cutoff' = Cutoff
      BY DEF DropPartition, Cutoff
<1>2. RowsType' /\ PassInv' /\ InWindowKept'
      BY <1>1 DEF DropPartition, WindowInv, RowsType, PassInv, InWindowKept, database, history
<1>3. DropInv'
      BY DEF DropPartition, WindowInv, DropInv, NothingYoungIn, database, history
<1> QED BY <1>2, <1>3 DEF WindowInv

\* What is dropped is outside the window of the transaction, and so of today.
LEMMA CommitWindow == ASSUME WindowInv, CommitDrop PROVE WindowInv'
<1>1. Cutoff' = Cutoff /\ Cutoff \in Int /\ cutoff \in Int /\ cutoff <= Cutoff
      BY CutoffInt DEF CommitDrop, Cutoff, WindowInv, PassInv
<1>2. RowsType' /\ PassInv' /\ DropInv'
      BY <1>1 DEF CommitDrop, WindowInv, RowsType, PassInv, DropInv, history
<1>3. ASSUME NEW r \in stored \ raced, r[2] >= Cutoff
      PROVE  r \in rows'
  <2>1. r \in rows /\ r[2] \in Int
        BY <1>3 DEF WindowInv, InWindowKept, RowsType, Row
  <2>2. \A d \in dropped : ~In(r, d[1], d[2])
        BY <1>1, <1>3, <2>1 DEF WindowInv, DropInv, NothingYoungIn
  <2> QED BY <2>1, <2>2 DEF CommitDrop
<1>4. InWindowKept'
      BY <1>1, <1>3 DEF InWindowKept, CommitDrop, history
<1> QED BY <1>2, <1>4 DEF WindowInv

LEMMA AbortWindow == ASSUME WindowInv, AbortDrop PROVE WindowInv'
<1>1. Cutoff' = Cutoff /\ Cutoff \in Int
      BY CutoffInt DEF AbortDrop, Cutoff, WindowInv
<1> QED BY <1>1
        DEF AbortDrop, WindowInv, RowsType, PassInv, DropInv, InWindowKept, database, history

\* The DELETEs take rows of plain tables that are below a cutoff of the past.
LEMMA DeleteWindow == ASSUME WindowInv, DeleteBatch PROVE WindowInv'
<1>1. Cutoff' = Cutoff /\ Cutoff \in Int /\ cutoff \in Int /\ cutoff <= Cutoff
      BY CutoffInt DEF DeleteBatch, Cutoff, WindowInv, PassInv
<1>2. PICK S \in SUBSET OldRows : rows' = rows \ S
      BY DEF DeleteBatch
<1>3. \A r \in S : r[2] < cutoff
      BY <1>2 DEF OldRows
<1>4. InWindowKept'
      BY <1>1, <1>2, <1>3 DEF DeleteBatch, WindowInv, InWindowKept, RowsType, Row, history
<1> QED BY <1>1, <1>2, <1>4
        DEF DeleteBatch, WindowInv, RowsType, PassInv, DropInv, NothingYoungIn, passVars, history

\* A row that is written either meets no check, or is marked.
LEMMA WriteWindow == ASSUME WindowInv, NEW r \in Row, Write(r) PROVE WindowInv'
<1>1. Cutoff' = Cutoff
      BY DEF Write, Cutoff
<1>2. /\ rows' = rows \union {r} /\ stored' = stored \union {r}
      /\ pending' \subseteq pending /\ raced \subseteq raced'
      /\ UNCHANGED <<month, pass, cutoff, checked, dropped>>
      BY DEF Write, Unbuffered, passVars
<1>3. RowsType' /\ PassInv' /\ InWindowKept'
      BY <1>1, <1>2 DEF WindowInv, RowsType, PassInv, InWindowKept
<1>4. \A d \in dropped : ~In(r, d[1], d[2])
      BY DEF Write, Locked, In
<1>5. checked # NoPartition /\ In(r, checked[1], checked[2]) => r \in raced'
      BY DEF Write
<1>6. DropInv'
      BY <1>2, <1>4, <1>5 DEF WindowInv, DropInv, NothingYoungIn, In
<1> QED BY <1>3, <1>6 DEF WindowInv

LEMMA StepWindow == ASSUME WindowInv, [Next]_vars PROVE WindowInv'
<1>1. ASSUME Start PROVE WindowInv'
      BY <1>1, QuietWindow DEF Start, CreateMonthly, passVars, WindowInv, RowsType, PassInv
<1>2. ASSUME NextMonth PROVE WindowInv'
      BY <1>2, QuietWindow, RetentionAssumption DEF NextMonth, database, passVars, history, WindowInv, RowsType, PassInv
<1>3. ASSUME Crash PROVE WindowInv'
      BY <1>3, QuietWindow DEF Crash, database, history, WindowInv, RowsType, PassInv
<1>4. ASSUME NEW r \in Row, Receive(r) PROVE WindowInv'
      BY <1>4, QuietWindow DEF Receive, database, passVars, history, WindowInv, RowsType, PassInv
<1>5. ASSUME StartPass \/ CreatePartitions PROVE WindowInv'
      BY <1>5, QuietWindow
         DEF StartPass, CreatePartitions, database, history, WindowInv, RowsType, PassInv
<1>6. ASSUME NEW d \in left, SkipPartition(d[1], d[2]) PROVE WindowInv'
      BY <1>6, QuietWindow DEF SkipPartition, database, history, WindowInv, RowsType, PassInv
<1>7. ASSUME DropFails \/ EndPass PROVE WindowInv'
      BY <1>7, QuietWindow DEF DropFails, EndPass, database, history, WindowInv, RowsType, PassInv
<1>8. ASSUME UNCHANGED vars PROVE WindowInv'
      BY <1>8, QuietWindow DEF vars, database, passVars, history, WindowInv, RowsType, PassInv
<1> QED BY <1>1, <1>2, <1>3, <1>4, <1>5, <1>6, <1>7, <1>8, BeginDropWindow, PassCheckWindow,
           DropWindow, CommitWindow, AbortWindow, DeleteWindow, WriteWindow
        DEF Next, PassStep

\* No row within the retention window is lost to the pass, except one that was written
\* to a partition wider than its name between the check of drop_old_partitions and its DROP.
THEOREM RetentionInWindowKept == Spec => []InWindowKept
<1>1. Init => WindowInv
      BY InitWindow
<1>2. WindowInv /\ [Next]_vars => WindowInv'
      BY StepWindow
<1>3. WindowInv => InWindowKept
      BY DEF WindowInv
<1> QED BY <1>1, <1>2, <1>3, PTL DEF Spec

-----------------------------------------------------------------------------
(* Partitions of the current month.                                        *)

CoverInv == WindowInv /\ PartsInv /\ AheadInv

LEMMA InitCover == ASSUME Init PROVE CoverInv
<1>1. WindowInv
      BY InitWindow
<1>2. parts \in [Partitioned -> SUBSET Partition]
      BY RetentionAssumption DEF Init
<1>3. PartsInv
      BY <1>2, ProvisionAssumption DEF Init, PartsInv, Covers
<1>4. AheadInv
      BY DEF Init, AheadInv
<1> QED BY <1>1, <1>3, <1>4 DEF CoverInv

\* A new monthly partition is one, and covers its month.
LEMMA MonthlyPartition ==
    ASSUME NEW m \in Months
    PROVE  Monthly(m) \in Partition /\ Monthly(m).name = m /\ Covers(Monthly(m), m)
BY RetentionAssumption DEF Monthly, Partition, Covers, Months

\* ps is the partitions with some monthly ones added.
Grown(ps) ==
    /\ ps \in [Partitioned -> SUBSET Partition]
    /\ \A t \in Partitioned : /\ parts[t] \subseteq ps[t]
                              /\ \A p \in ps[t] : Covers(p, p.name)

\* main's loop only adds partitions.
LEMMA NodeStatusMonthsGrow ==
    ASSUME CoverInv, NEW next \in {month + 1, month + 2}
    PROVE  Grown(NodeStatusMonths(next))
<1>1. month \in Months /\ next \in Months
      BY RetentionAssumption DEF CoverInv, WindowInv, RowsType, Months
<1>2. ASSUME NEW ps \in SUBSET Partition, \A p \in ps : Covers(p, p.name), NEW m \in Months
      PROVE  /\ TryMonth(ps, m) \in SUBSET Partition /\ ps \subseteq TryMonth(ps, m)
             /\ \A p \in TryMonth(ps, m) : Covers(p, p.name)
      BY <1>2, MonthlyPartition DEF TryMonth, WithMonth
<1> DEFINE once == TryMonth(parts[NodeStatuses], month)
           twice == TryMonth(once, next)
<1>3. /\ once \in SUBSET Partition /\ parts[NodeStatuses] \subseteq once
      /\ \A p \in once : Covers(p, p.name)
      BY <1>1, <1>2, RetentionAssumption DEF CoverInv, PartsInv
<1>4. /\ twice \in SUBSET Partition /\ once \subseteq twice
      /\ \A p \in twice : Covers(p, p.name)
      BY <1>1, <1>2, <1>3
<1> HIDE DEF once, twice
<1>5. [parts EXCEPT ![NodeStatuses] = twice] \in [Partitioned -> SUBSET Partition]
      BY <1>4 DEF CoverInv, PartsInv
<1>6. NodeStatusMonths(next) = [parts EXCEPT ![NodeStatuses] = twice]
      BY DEF NodeStatusMonths, once, twice
<1> QED BY <1>3, <1>4, <1>5, <1>6 DEF Grown, CoverInv, PartsInv

\* create_monthly_partitions adds partitions too, and has those of both months if it
\* does not fail.
LEMMA CreatedMonthlyGrows ==
    ASSUME CoverInv, NEW ps, Grown(ps)
    PROVE  /\ Grown(CreatedMonthly(ps))
           /\ \A t \in Partitioned, m \in MonthsAhead : Named(CreatedMonthly(ps)[t], m)
<1>1. MonthsAhead \subseteq Months
      BY RetentionAssumption DEF CoverInv, WindowInv, RowsType, Months, MonthsAhead
<1>2. ASSUME NEW t \in Partitioned
      PROVE  /\ CreatedMonthly(ps)[t] \in SUBSET Partition
             /\ ps[t] \subseteq CreatedMonthly(ps)[t]
             /\ \A p \in CreatedMonthly(ps)[t] : Covers(p, p.name)
             /\ \A m \in MonthsAhead : Named(CreatedMonthly(ps)[t], m)
  <2> DEFINE new == {Monthly(m) : m \in {n \in MonthsAhead : ~Named(ps[t], n)}}
  <2>1. CreatedMonthly(ps)[t] = ps[t] \union new
        BY DEF CreatedMonthly
  <2>2. \A p \in new : p \in Partition /\ Covers(p, p.name)
        BY <1>1, MonthlyPartition
  <2>3. \A m \in MonthsAhead : Named(ps[t] \union new, m)
        BY <1>1, MonthlyPartition DEF Named
  <2> HIDE DEF new
  <2> QED BY <2>1, <2>2, <2>3 DEF Grown
<1>3. CreatedMonthly(ps) \in [Partitioned -> SUBSET Partition]
      BY <1>2 DEF CreatedMonthly
<1> QED BY <1>2, <1>3 DEF Grown

LEMMA CreateCover ==
    ASSUME CoverInv, WindowInv', NEW ps, Grown(ps), CreateMonthly(ps),
           UNCHANGED <<month, cutoff, checked, dropped>>
    PROVE  CoverInv'
<1>1. PICK qs : /\ parts' = qs /\ Grown(qs)
                /\ \/ lastCreated' = lastCreated
                   \/ /\ lastCreated' = month
                      /\ \A t \in Partitioned, m \in MonthsAhead : Named(qs[t], m)
      BY CreatedMonthlyGrows DEF CreateMonthly
<1>2. PartsInv'
      BY <1>1 DEF CoverInv, PartsInv, Grown, OldEnough
<1>3. AheadInv'
      BY <1>1, RetentionAssumption
         DEF CoverInv, AheadInv, Grown, Named, MonthsAhead, WindowInv, RowsType
<1> QED BY <1>2, <1>3 DEF CoverInv

LEMMA CommitCover == ASSUME CoverInv, WindowInv', CommitDrop PROVE CoverInv'
<1>1. /\ parts' = [t \in Partitioned |-> {p \in parts[t] : <<t, p>> \notin dropped}]
      /\ dropped' = {} /\ checked' = NoPartition /\ UNCHANGED <<month, lastCreated>>
      BY DEF CommitDrop, history
<1>2. PartsInv'
      BY <1>1 DEF CoverInv, PartsInv
<1>3. ASSUME NEW t \in Partitioned, NEW p \in parts[t], p.name >= month
      PROVE  p \in parts'[t]
  <2>1. p.name \in Int /\ cutoff \in Int /\ Cutoff \in Int /\ month \in Int
        BY RetentionAssumption, CutoffInt
           DEF CoverInv, PartsInv, Partition, Months, WindowInv, PassInv, RowsType
  <2>2. cutoff <= Cutoff /\ Cutoff <= month
        BY CutoffInt DEF CommitDrop, CoverInv, WindowInv, PassInv
  <2>3. <<t, p>> \notin dropped
        BY <1>3, <2>1, <2>2 DEF CoverInv, PartsInv, OldEnough
  <2> QED BY <1>1, <2>3
<1>4. AheadInv'
      BY <1>1, <1>3, RetentionAssumption DEF CoverInv, AheadInv, Named, WindowInv, RowsType
<1> QED BY <1>2, <1>4 DEF CoverInv

\* Steps that leave the partitions alone, and check or drop no new one.
LEMMA QuietCover ==
    ASSUME CoverInv, WindowInv', UNCHANGED <<parts, lastCreated>>,
           month' \in {month, month + 1},
           \/ cutoff' = cutoff /\ checked' \in {checked, NoPartition} /\ dropped' \in {dropped, {}}
           \/ checked' = NoPartition /\ dropped' = {}
    PROVE  CoverInv'
<1>1. PartsInv'
      BY DEF CoverInv, PartsInv, OldEnough
<1>2. month \in Int
      BY RetentionAssumption DEF CoverInv, WindowInv, RowsType
<1>3. lastCreated \in Int /\ lastCreated <= month'
      BY <1>2 DEF CoverInv, AheadInv
<1>4. ASSUME NEW t \in Partitioned
      PROVE  /\ lastCreated >= month' - 1 => Named(parts[t], month')
             /\ lastCreated = month' => Named(parts[t], month' + 1)
  <2>1. CASE month' = month
        BY <2>1 DEF CoverInv, AheadInv
  <2>2. CASE month' = month + 1
    <3>1. month' - 1 = month
          BY <1>2, <2>2
    <3> QED BY <1>2, <1>3, <2>2, <3>1 DEF CoverInv, AheadInv
  <2> QED BY <2>1, <2>2
<1>5. AheadInv'
      BY <1>3, <1>4 DEF AheadInv, Named
<1> QED BY <1>1, <1>5 DEF CoverInv

LEMMA StepCover == ASSUME CoverInv, [Next]_vars PROVE CoverInv'
<1> WindowInv'
    BY StepWindow DEF CoverInv
<1>1. CASE Start
  <2>1. PICK next \in {month + 1, month + 2} : CreateMonthly(NodeStatusMonths(next))
        BY <1>1 DEF Start
  <2> QED BY <1>1, <2>1, NodeStatusMonthsGrow, CreateCover DEF Start, passVars
<1>2. CASE CreatePartitions
  <2>1. Grown(parts)
        BY DEF CoverInv, PartsInv, Grown
  <2> QED BY <1>2, <2>1, CreateCover DEF CreatePartitions
<1>3. CASE NextMonth \/ Crash
      BY <1>3, QuietCover DEF NextMonth, Crash, database, passVars, history
<1>4. ASSUME NEW r \in Row, Receive(r) \/ Write(r) PROVE CoverInv'
      BY <1>4, QuietCover DEF Receive, Write, database, passVars, history
<1>5. CASE StartPass \/ DropFails \/ AbortDrop \/ DeleteBatch \/ EndPass
      BY <1>5, QuietCover
         DEF StartPass, DropFails, AbortDrop, DeleteBatch, EndPass, database, passVars, history
<1>6. CASE BeginDrop
  <2>1. checked = NoPartition /\ dropped = {}
        BY <1>6 DEF BeginDrop, CoverInv, WindowInv, PassInv
  <2> QED BY <1>6, <2>1, QuietCover DEF BeginDrop, database, history
<1>7. ASSUME NEW d \in left, SkipPartition(d[1], d[2]) PROVE CoverInv'
      BY <1>7, QuietCover DEF SkipPartition, database, history
<1>8. ASSUME NEW d \in left, PassCheck(d[1], d[2]) PROVE CoverInv'
  <2>1. PartsInv'
        BY <1>8 DEF PassCheck, CoverInv, PartsInv, OldEnough, database
  <2> QED BY <1>8, <2>1 DEF PassCheck, CoverInv, AheadInv, database, history
<1>9. CASE DropPartition
  <2>1. PartsInv'
        BY <1>9 DEF DropPartition, CoverInv, PartsInv, OldEnough, database
  <2> QED BY <1>9, <2>1 DEF DropPartition, CoverInv, AheadInv, database, history
<1>10. CASE UNCHANGED vars
      BY <1>10, QuietCover DEF vars, database, passVars, history
<1> QED BY <1>1, <1>2, <1>3, <1>4, <1>5, <1>6, <1>7, <1>8, <1>9, <1>10, CommitCover
        DEF Next, PassStep

\* While create_monthly_partitions has succeeded in this month or the last, every
\* partitioned table takes the rows of the current month: the partitions are there by
\* name, and the pass drops none named for this month or a later one.
THEOREM RetentionCurrentMonthCovered == Spec => []CurrentMonthCovered
<1>1. Init => CoverInv
      BY InitCover
<1>2. CoverInv /\ [Next]_vars => CoverInv'
      BY StepCover
<1>3. CoverInv => CurrentMonthCovered
      BY DEF CoverInv, PartsInv, AheadInv, Named, CurrentMonthCovered, Accepts
<1> QED BY <1>1, <1>2, <1>3, PTL DEF Spec

=============================================================================
