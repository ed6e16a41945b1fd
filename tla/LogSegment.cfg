SPECIFICATION Spec
CONSTANTS
    Logs = 1
    LogbufSize = 2
    SegmentSize = 4
    PageSize = 2
    BlockSize = 1
    QueueLength = 2
    MaxRetries = 10
    MaxTxns = 6
INVARIANT RecordsAreAddressable
