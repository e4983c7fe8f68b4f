CONSTANTS
    Values = {a, b}
    Capacity = 2
    Batches <- MCBatches
    NoValue = NoValue
    MaxFullCount = 2
SPECIFICATION FairSpec
INVARIANTS TypeOK NoDataRace BorrowStable
PROPERTIES QueueSpec Drains
CHECK_DEADLOCK TRUE
