SPECIFICATION Spec
CONSTANTS
    laya = laya  von = von  clm = clm
    c1 = c1  c2 = c2  c3 = c3  a1 = a1
    reaper = reaper  lifespan = lifespan  noOne = noOne  every = every
    Providers <- MCThreeProviders
    Clients <- MCThreeClients
    Admins <- MCOneAdmin
    Cancellable <- MCThreeAndAdmin
    MaxResident = 2
    IdleUnload = 1
    MaxClock = 2
    Reaper = reaper
    Lifespan = lifespan
    NoOne = noOne
    Every = every
SYMMETRY MCSymmetry
CHECK_DEADLOCK FALSE
INVARIANTS
    SlotBound
    LeaseCovered
    StrandedOnlyByLeak
    StopIsFinal
PROPERTIES
    NeverStopsLeased
    ReapsOnlyIdle
    UnloadAllIsAtomic
    LeaksOnlyInReturn
    OrphansOnlyInStop
    ImplementsResidency
