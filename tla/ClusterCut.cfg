CONSTANTS
    NoThread = NoThread
    epps = epps
    single = single
    bs = bs
    spdA = spdA
    spdB = spdB
    claimA = claimA
    claimB = claimB
    ClaimerOf <- MCClaimerOf
    Threads = {epps, bs, spdA, spdB, claimA, claimB}
    Sources = {epps}
    Singles = {}
    Duals = {bs}
    Detectors = {spdA, spdB}
    Claimers = {claimA, claimB}
    Route <- BeamSplitterRoute
    IndexRange = 8
    FirstIndex = 6
    Capacities = {1, 2, 4}
    InitCapacity = 1
    MaxPairs = 2
    MaxBatch = 2
    MinBatch <- OneDetectorCuts
    Before <- PairOrder
SPECIFICATION FairSpec
PROPERTY EverythingClaimed
\* The system really stops: this is what the run shows.
CHECK_DEADLOCK FALSE
