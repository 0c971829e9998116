SPECIFICATION Spec
CONSTANTS
    laya = laya  von = von  clm = clm
    c1 = c1  c2 = c2  c3 = c3  a1 = a1
    reaper = reaper  lifespan = lifespan  noOne = noOne  every = every
    Providers <- MCTwoProviders
    Clients <- MCThreeClients
    Admins <- MCNobody
    Cancellable <- MCThreeClients
    MaxResident = 1
    IdleUnload = 1
    MaxClock = 3
    Reaper = reaper
    Lifespan = lifespan
    NoOne = noOne
    Every = every
CHECK_DEADLOCK FALSE
INVARIANTS
    LiveWithinLimit
