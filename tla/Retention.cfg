\* A plain and two partitioned tables over two months, with a window of one; one of the
\* partitioned tables may have been provisioned with a partition wider than its name.
SPECIFICATION FairSpec
CONSTANTS
    Plain <- Blocks
    Partitioned <- WithSubtrees
    NodeStatuses = "node_statuses"
    Configured = 1
    Provisioned <- AnyProvision
    LastMonth = 2
    RowsPerMonth = 1
    MaxRows = 2
    BatchLimit = 1
    MaxFaults = 1
    MaxCrashes = 1
INVARIANTS
    InWindowKept
    CurrentMonthCovered
PROPERTIES
    OldRowsPruned
CHECK_DEADLOCK FALSE
