CONSTANTS
    EPPS = EPPS
    spd1 = spd1
    spd2 = spd2
    SPDs = {spd1, spd2}
    MaxSize = 1
    ChannelSize = 1
    ClaimerSize = 1
    Experiments <- Experiments_
SPECIFICATION FairSpec
INVARIANTS TypeOK SinksConnected FirstTagsSeen NothingCountedTwice
PROPERTIES SettingsOnTime SettingsServed StopEnds
\* The source stops at its bound, and everybody after a Stop.
CHECK_DEADLOCK FALSE
