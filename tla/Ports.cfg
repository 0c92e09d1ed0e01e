CONSTANTS
    Experiments <- Experiments_
    SigmaOf <- OneWidth
    PumpPeriod = 9
    BatchPeriod = 10
    MaxSize = 2
    ChannelSize = 3
SPECIFICATION FairSpec
INVARIANTS TypeOK
PROPERTIES ClusterKept OperatorsExact SinkInOrder SourceGoesOn
\* The source stops at its bound, and then every node waits for it.
CHECK_DEADLOCK FALSE
