SPECIFICATION FairSpec
CONSTANTS
    laya = laya  clm = clm  weights = weights  config = config  heads = heads
    v1 = v1  v2 = v2  absent = absent  damaged = damaged
    Providers <- MCProviders
    Files <- MCFiles
    Digested = {clm}
    Images = {v1, v2}
    Absent = absent
    Damaged = damaged
    MaxFaults = 4
CHECK_DEADLOCK FALSE
INVARIANTS
    ServesWhole
PROPERTIES
    ReadyIsPrepared
    GoodFilesStay
    BecomesReady
