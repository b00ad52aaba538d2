--------------------------- MODULE MCBatchInsert ---------------------------
(***************************************************************************)
(* Instances of BatchInsert for TLC.                                       *)
(***************************************************************************)
EXTENDS BatchInsert, TLC

CONSTANTS p1, p2

\* Two consumers share buffer 1; the first also feeds buffer 2, as a block
\* topic feeds the block and the block-header buffer.
MCFeeds == p1 :> {1, 2} @@ p2 :> {1}

\* The second row of buffer 1 belongs to a month without a partition: the
\* chunk before it commits at every attempt, the rows after it never do.
PoisonSecond == {<<1, 2>>}

\* Three rows for buffer 1, one for buffer 2, which has to drain beside it.
ThreeAndOne == <<3, 1>>
=============================================================================
