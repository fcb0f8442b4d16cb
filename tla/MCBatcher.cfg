\* Batches of 2, five items: enough for a full batch, a tick-flushed partial
\* batch, and a tick observing more than one batch's worth of items.
\* After close the flusher returns and the system stops.
CONSTANTS
    BatchSize = 2
    MaxItems = 5
    InitFlushInterval = 1000000
    MaxFlushInterval = 1000000000
SPECIFICATION Spec
INVARIANT TypeOK
INVARIANT NoLossNoDuplication
PROPERTY EveryItemFlushed
PROPERTY BatchQueueSpec
CHECK_DEADLOCK FALSE
