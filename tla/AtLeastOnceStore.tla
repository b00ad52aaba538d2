-------------------------- MODULE AtLeastOnceStore --------------------------
(***************************************************************************)
(* What the batch-insert service promises, without buffers, locks, chunks  *)
(* or goroutines: a row that was handed over stays pending until it has    *)
(* been written at least once, is written only while it is pending, and is *)
(* given up only when the process dies.  BatchInsert is shown to implement *)
(* this specification.                                                     *)
(***************************************************************************)
EXTENDS Naturals

CONSTANTS
    Row,        \* the rows that can be handed over
    MaxCopies   \* copies are counted up to this number ("that many or more")

VARIABLES
    pending,    \* rows handed over and not yet settled
    copies      \* copies[r]: how many times the table holds r

storeVars == <<pending, copies>>

\* A saturating successor: MaxCopies stands for "MaxCopies or more".
Bump(n) == IF n < MaxCopies THEN n + 1 ELSE n

Init ==
    /\ pending = {}
    /\ copies = [r \in Row |-> 0]

\* A row is handed over for the first time.
Accept(r) ==
    /\ copies[r] = 0
    /\ r \notin pending
    /\ pending' = pending \union {r}
    /\ UNCHANGED copies

\* Some pending rows are written together; the writer may not learn of it.
Write(S) ==
    /\ copies' = [r \in Row |-> IF r \in S THEN Bump(copies[r]) ELSE copies[r]]
    /\ UNCHANGED pending

\* Rows stop being pending only once each of them is in the table.
Settle(S) ==
    /\ \A r \in S : copies[r] > 0
    /\ pending' = pending \ S
    /\ UNCHANGED copies

\* The process dies: whatever was pending is forgotten, the table survives.
Forget ==
    /\ pending' = {}
    /\ UNCHANGED copies

Next ==
    \/ \E r \in Row : Accept(r)
    \/ \E S \in SUBSET pending : Write(S) \/ Settle(S)
    \/ Forget

Spec == Init /\ [][Next]_storeVars

=============================================================================
