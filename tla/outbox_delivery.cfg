SPECIFICATION FairSpec
CONSTANTS
    Tasks = {t1, t2}
    Commands = {c1}
    Batch = 2
    MaxEvents = 3
    MaxCopies = 2
INVARIANTS TypeOK OnlyCommitted MarkedAfterPublishing OldestFirst
PROPERTIES RowsForward EventsProcessed
CHECK_DEADLOCK FALSE
