CONSTANTS
    ChannelCount = 2
    DeadTime = 1
    DarkCounts = FALSE
    EarlyBy = 0
    LateBy = 1
    TagQueueSize = 1
    RowQueueSize = 1
    MaxChunkRows = 1
    MaxFileRows = 1
    MaxTime = 2
    MaxTags = 1
SPECIFICATION Spec
INVARIANT StopFlushes
