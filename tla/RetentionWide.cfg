\* No statement fails and the process does not die.
SPECIFICATION Spec
CONSTANTS
    Plain <- Blocks
    Partitioned <- WithSubtrees
    NodeStatuses = "node_statuses"
    Configured = 1
    Provisioned <- AnyProvision
    LastMonth = 2
    RowsPerMonth = 1
    MaxRows = 0
    BatchLimit = 1
    MaxFaults = 0
    MaxCrashes = 0
INVARIANTS
    ExecutedCreateCovers
CHECK_DEADLOCK FALSE
