CONSTANTS
    NoThread = NoThread
    epps = epps
    single = single
    bs = bs
    spdA = spdA
    spdB = spdB
    claimA = claimA
    claimB = claimB
    ClaimerOf <- MCClaimerOf
    Threads = {epps, single, spdA, spdB, claimA, claimB}
    Sources = {epps}
    Singles = {single}
    Duals = {}
    Detectors = {spdA, spdB}
    Claimers = {claimA, claimB}
    Route <- DelayLineRoute
    IndexRange = 8
    FirstIndex = 6
    Capacities = {1, 2, 4}
    InitCapacity = 1
    MaxPairs = 3
    MaxBatch = 2
    MinBatch <- Singly
    Before <- PairOrder
SPECIFICATION Spec
INVARIANTS
    TypeOK
    ExclusiveCells
    CloneCurrent
    PacketsResolve
