----------------------------- MODULE Retention ------------------------------
(***************************************************************************)
(* pkg/model/retention.go and the schema part of cmd/main.go: monthly      *)
(* partitions are created ahead of the rows that need them, at startup and *)
(* by a daily pass that then drops old partitions and deletes old rows     *)
(* from the plain tables, while the batch-insert service keeps writing.    *)
(*                                                                         *)
(* Time is counted in months: every cutoff and every partition bound is    *)
(* the first of one.  A row <<t, m, n>> is the n-th one for table t that   *)
(* was received in month m; it may be written much later (its buffer may   *)
(* have failed to flush).  A partition has the month its name says and the *)
(* months its bounds cover.                                                *)
(***************************************************************************)
EXTENDS Integers, FiniteSets

CONSTANTS
    Plain,         \* message tables of relkind 'r', created by AutoMigrate
    Partitioned,   \* message tables of relkind 'p'; node_statuses is one of them
    NodeStatuses,  \* the table main creates partitions for itself
    Configured,    \* performance.partition_retention_months
    Provisioned,   \* the possible partitions, by table, before the first start
    LastMonth,     \* bound: the clock stops in this month
    RowsPerMonth,  \* bound: rows received for a table in a month
    MaxRows,       \* bound: rows received
    BatchLimit,    \* LIMIT of a DELETE batch
    MaxFaults,     \* bound: database statements that fail
    MaxCrashes     \* bound: process deaths

Months == 1 .. LastMonth + 2
Tables == Plain \union Partitioned
Row == Tables \X (1..LastMonth) \X (1..RowsPerMonth)
Partition == [name : Months, first : Months, last : Months]

ASSUME RetentionAssumption ==
    /\ Plain \intersect Partitioned = {}
    /\ NodeStatuses \in Partitioned
    /\ Configured \in Int
    /\ LastMonth \in Nat \ {0}
    /\ RowsPerMonth \in Nat
    /\ MaxRows \in Nat
    /\ BatchLimit \in Nat \ {0}
    /\ MaxFaults \in Nat
    /\ MaxCrashes \in Nat
    /\ Provisioned \subseteq [Partitioned -> SUBSET Partition]

\* Who provisions a partition names it for a month that it covers, although it may cover
\* more.
ASSUME ProvisionAssumption ==
    \A ps \in Provisioned : \A t \in Partitioned : \A p \in ps[t] : p.name \in p.first .. p.last

VARIABLES
    month,       \* the current month, in the database's and the process's UTC
    process,     \* "down", or "up": past startup, subscribed and storing rows
    parts,       \* parts[t]: the partitions of t
    rows,        \* the rows in the tables
    pending,     \* rows received and still in the batch-insert service's buffers
    pass,        \* where RunRetention is
    cutoff,      \* the cutoff the running step of the pass has computed
    left,        \* partitions the drop loop has yet to visit
    checked,     \* the partition that has just passed the in-window check
    dropped,     \* partitions the open transaction of drop_old_partitions has dropped
    faults, crashes,
    stored,      \* history: every row ever written
    raced,       \* history: rows written to a partition between its check and its DROP
    lastRun,     \* history: month of the last create_monthly_partitions that was executed
    lastCreated  \* history: month of the last one that did not run into an overlap either

database == <<parts, rows>>
passVars == <<pass, cutoff, left, checked, dropped>>
history == <<stored, raced, lastRun, lastCreated>>
vars == <<month, process, database, pending, passVars, faults, crashes, history>>

Passes == {"idle", "create", "drop", "dropping", "delete"}
NoPartition == <<>>

Init ==
    /\ month = 1
    /\ process = "down"
    /\ parts \in Provisioned
    /\ rows = {}
    /\ pending = {}
    /\ pass = "idle"
    /\ cutoff = 0
    /\ left = {}
    /\ checked = NoPartition
    /\ dropped = {}
    /\ faults = 0
    /\ crashes = 0
    /\ stored = {}
    /\ raced = {}
    /\ lastRun = -1
    /\ lastCreated = -1

-----------------------------------------------------------------------------
(* Partitions and cutoffs.                                                 *)

\* main: a setting below 1 means 3.
RetentionMonths == IF Configured < 1 THEN 3 ELSE Configured

\* retentionCutoff, and the same computation in drop_old_partitions.
Cutoff == month - (RetentionMonths - 1)

Covers(p, m) == m \in p.first .. p.last
In(r, t, p) == r[1] = t /\ Covers(p, r[2])
Overlap(p, q) == \E m \in Months : Covers(p, m) /\ Covers(q, m)
Named(ps, m) == \E p \in ps : p.name = m
Monthly(m) == [name |-> m, first |-> m, last |-> m]

\* CREATE TABLE ... PARTITION OF fails when the new bounds overlap another partition's.
Creatable(ps, m) == Named(ps, m) \/ \A p \in ps : ~Overlap(p, Monthly(m))
WithMonth(ps, m) == IF Named(ps, m) THEN ps ELSE ps \union {Monthly(m)}

\* FOR m IN 0..1.
MonthsAhead == {month, month + 1}

\* create_monthly_partitions is one transaction over all partitioned tables: if one
\* CREATE fails, none is kept.
CanCreateMonthly(ps) == \A t \in Partitioned : \A m \in MonthsAhead : Creatable(ps[t], m)
CreatedMonthly(ps) ==
    [t \in Partitioned |->
        ps[t] \union {Monthly(m) : m \in {n \in MonthsAhead : ~Named(ps[t], n)}}]

\* The call is executed, or breaks off; its error is logged and no more.
CreateMonthly(ps) ==
    \/ /\ parts' = IF CanCreateMonthly(ps) THEN CreatedMonthly(ps) ELSE ps
       /\ lastRun' = month
       /\ lastCreated' = IF CanCreateMonthly(ps) THEN month ELSE lastCreated
       /\ UNCHANGED faults
    \/ /\ faults < MaxFaults
       /\ faults' = faults + 1
       /\ parts' = ps
       /\ UNCHANGED <<lastRun, lastCreated>>

-----------------------------------------------------------------------------
(* The process and its writes.                                             *)

\* main's own loop for node_statuses: each month is ensured for itself.  The month after
\* is AddDate(0, 1, 0) of today, which skips a short one on its last days.
TryMonth(ps, m) == IF Creatable(ps, m) THEN WithMonth(ps, m) ELSE ps
NodeStatusMonths(next) ==
    [parts EXCEPT ![NodeStatuses] = TryMonth(TryMonth(@, month), next)]

\* Startup: it ensures partitions before it subscribes, and goes on if that fails.
Start ==
    /\ process = "down"
    /\ process' = "up"
    /\ \E next \in {month + 1, month + 2} : CreateMonthly(NodeStatusMonths(next))
    /\ UNCHANGED <<month, rows, pending, passVars, crashes, stored, raced>>

\* The clock passes midnight on the first of a month.
NextMonth ==
    /\ month < LastMonth
    /\ month' = month + 1
    /\ UNCHANGED <<process, database, pending, passVars, faults, crashes, history>>

\* A message arrives; its row gets the time of its receipt and goes to a buffer.
Receive(r) ==
    /\ process = "up"
    /\ r[2] = month
    /\ r \notin pending \union stored
    /\ Cardinality(pending \union stored) < MaxRows
    /\ pending' = pending \union {r}
    /\ UNCHANGED <<month, process, database, passVars, faults, crashes, history>>

Unbuffered(r) == pending \ {r}

\* DROP of a partition locks its parent until the transaction ends.
Locked(t) == \E d \in dropped : d[1] = t

Accepts(t, m) == t \in Partitioned => \E p \in parts[t] : Covers(p, m)

\* The flush that writes the row; without a partition for it, it is refused (and stays).
Write(r) ==
    /\ process = "up"
    /\ r \in pending
    /\ ~Locked(r[1])
    /\ Accepts(r[1], r[2])
    /\ pending' = Unbuffered(r)
    /\ rows' = rows \union {r}
    /\ stored' = stored \union {r}
    /\ raced' = IF checked # NoPartition /\ In(r, checked[1], checked[2])
                THEN raced \union {r} ELSE raced
    /\ UNCHANGED <<month, process, parts, passVars, faults, crashes, lastRun, lastCreated>>

\* The process dies; an open transaction is rolled back.
Crash ==
    /\ process = "up"
    /\ crashes < MaxCrashes
    /\ crashes' = crashes + 1
    /\ process' = "down"
    /\ pending' = {}
    /\ pass' = "idle"
    /\ left' = {}
    /\ checked' = NoPartition
    /\ dropped' = {}
    /\ UNCHANGED <<month, database, cutoff, faults, history>>

-----------------------------------------------------------------------------
(* RunRetention, one statement after the other; a failure is logged and    *)
(* the next step is tried.                                                 *)

StartPass ==
    /\ process = "up"
    /\ pass = "idle"
    /\ pass' = "create"
    /\ UNCHANGED <<month, process, database, pending, cutoff, left, checked, dropped,
                   faults, crashes, history>>

CreatePartitions ==
    /\ pass = "create"
    /\ pass' = "drop"
    /\ CreateMonthly(parts)
    /\ UNCHANGED <<month, process, rows, pending, cutoff, left, checked, dropped,
                   crashes, stored, raced>>

\* drop_old_partitions begins: CURRENT_DATE is fixed for the transaction.
BeginDrop ==
    /\ pass = "drop"
    /\ pass' = "dropping"
    /\ cutoff' = Cutoff
    /\ left' = UNION {{t} \X parts[t] : t \in Partitioned}
    /\ UNCHANGED <<month, process, database, pending, checked, dropped, faults, crashes,
                   history>>

\* mutant: the current month is old
OldEnoughNow(p) == p.name <= month
OldEnough(p) == p.name < cutoff

\* mutant: partitions are dropped by name alone
ByNameAlone(t, p) == FALSE
HasInWindow(t, p) == \E r \in rows : In(r, t, p) /\ r[2] >= cutoff

\* The next partition is kept, by its name or for the in-window rows found in it ...
SkipPartition(t, p) ==
    /\ pass = "dropping"
    /\ checked = NoPartition
    /\ <<t, p>> \in left
    /\ ~OldEnough(p) \/ HasInWindow(t, p)
    /\ left' = left \ {<<t, p>>}
    /\ UNCHANGED <<month, process, database, pending, pass, cutoff, checked, dropped,
                   faults, crashes, history>>

\* ... or passes the check (which takes no lock that writers wait for) ...
PassCheck(t, p) ==
    /\ pass = "dropping"
    /\ checked = NoPartition
    /\ <<t, p>> \in left
    /\ OldEnough(p) /\ ~HasInWindow(t, p)
    /\ left' = left \ {<<t, p>>}
    /\ checked' = <<t, p>>
    /\ UNCHANGED <<month, process, database, pending, pass, cutoff, dropped, faults, crashes,
                   history>>

\* ... and is dropped ...
DropPartition ==
    /\ checked # NoPartition
    /\ dropped' = dropped \union {checked}
    /\ checked' = NoPartition
    /\ UNCHANGED <<month, process, database, pending, pass, cutoff, left, faults, crashes,
                   history>>

\* ... or skipped because DROP does not get its lock in time.
DropFails ==
    /\ checked # NoPartition
    /\ faults < MaxFaults
    /\ faults' = faults + 1
    /\ checked' = NoPartition
    /\ UNCHANGED <<month, process, database, pending, pass, cutoff, left, dropped, crashes,
                   history>>

\* The transaction commits, and the DELETEs begin, with a cutoff of their own.
CommitDrop ==
    /\ pass = "dropping"
    /\ left = {} /\ checked = NoPartition
    /\ pass' = "delete"
    /\ cutoff' = Cutoff
    /\ parts' = [t \in Partitioned |-> {p \in parts[t] : <<t, p>> \notin dropped}]
    /\ rows' = {r \in rows : \A d \in dropped : ~In(r, d[1], d[2])}
    /\ dropped' = {}
    /\ UNCHANGED <<month, process, pending, left, checked, faults, crashes, history>>

\* It is cancelled (statement_timeout), and nothing of it is kept.
AbortDrop ==
    /\ pass = "dropping"
    /\ faults < MaxFaults
    /\ faults' = faults + 1
    /\ pass' = "delete"
    /\ cutoff' = Cutoff
    /\ left' = {}
    /\ checked' = NoPartition
    /\ dropped' = {}
    /\ UNCHANGED <<month, process, database, pending, crashes, history>>

\* deleteOldRows on a plain table: batches of rows below the cutoff ...
OldRowsButOneMonth == {r \in rows : r[1] \in Plain /\ r[2] < cutoff - 1}   \* mutant
OldRows == {r \in rows : r[1] \in Plain /\ r[2] < cutoff}

DeleteBatch ==
    /\ pass = "delete"
    /\ \E t \in Plain :
         LET old == {r \in OldRows : r[1] = t} IN
         \E S \in SUBSET old \ {{}} :
            /\ Cardinality(S) <= BatchLimit
            /\ S = old \/ Cardinality(S) = BatchLimit
            /\ rows' = rows \ S
    /\ UNCHANGED <<month, process, parts, pending, passVars, faults, crashes, history>>

\* ... until none is left, or a batch fails and its table keeps old rows until the next
\* pass; the other tables have been dealt with.
EndPass ==
    /\ pass = "delete"
    /\ pass' = "idle"
    /\ faults' = faults + Cardinality({r[1] : r \in OldRows})
    /\ faults' <= MaxFaults
    /\ UNCHANGED <<month, process, database, pending, cutoff, left, checked, dropped,
                   crashes, history>>

PassStep ==
    \/ StartPass \/ CreatePartitions \/ BeginDrop
    \/ \E d \in left : SkipPartition(d[1], d[2]) \/ PassCheck(d[1], d[2])
    \/ DropPartition \/ DropFails \/ CommitDrop \/ AbortDrop
    \/ DeleteBatch \/ EndPass

Next ==
    \/ Start \/ NextMonth \/ Crash
    \/ \E r \in Row : Receive(r) \/ Write(r)
    \/ PassStep

Spec == Init /\ [][Next]_vars

\* The service is restarted, its daily ticker fires and database calls return.
FairSpec == Spec /\ WF_vars(Start) /\ WF_vars(PassStep)

-----------------------------------------------------------------------------
(* Properties.                                                             *)

\* A row that was written and is within the retention window is still there, whatever
\* the pass drops while rows, new and late, are being written; the one exception is a row
\* that went into a partition bounded wider than its name between the check and the DROP.
InWindowKept == \A r \in stored \ raced : r[2] >= Cutoff => r \in rows

\* A create_monthly_partitions that succeeded in this month or the last one means that
\* every partitioned table takes the rows of the current month: the pass never drops what
\* it, or startup, has made ahead.
CurrentMonthCovered ==
    lastCreated >= month - 1 => \A t \in Partitioned : Accepts(t, month)

\* The same of one that was merely executed, its error logged and nothing more.
ExecutedCreateCovers ==
    lastRun >= month - 1 => \A t \in Partitioned : Accepts(t, month)

\* A stored row that has left the window is deleted in the end, although statements
\* fail and the process dies, unless it lies in a partition of several months.
Sheltered(r) == \E p \in parts[r[1]] : Covers(p, r[2]) /\ p.first # p.last
OldRowsPruned ==
    \A r \in Row :
        (r \in rows /\ r[2] < Cutoff) ~> (r \notin rows \/ (r[1] \in Partitioned /\ Sheltered(r)))

=============================================================================
