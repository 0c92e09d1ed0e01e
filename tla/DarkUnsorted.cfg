CONSTANTS
    ChannelCount = 2
    DeadTime = 1
    DarkCounts = TRUE
    EarlyBy = 0
    LateBy = 0
    TagQueueSize = 1
    RowQueueSize = 1
    MaxChunkRows = 1
    MaxFileRows = 1
    MaxTime = 2
    MaxTags = 2
SPECIFICATION Spec
PROPERTY StreamSorted
