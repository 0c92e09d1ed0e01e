CONSTANTS
    ChannelCount = 2
    DeadTime = 1
    DarkCounts = FALSE
    EarlyBy = 0
    LateBy = 0
    TagQueueSize = 1
    RowQueueSize = 1
    MaxChunkRows = 2
    MaxFileRows = 1
    MaxTime = 2
    MaxTags = 2
SPECIFICATION FairSpec
INVARIANTS
    TypeOK
    DeadTimeKept
    EachTagOnce
PROPERTIES StreamSorted ClaimersNotBlocked
