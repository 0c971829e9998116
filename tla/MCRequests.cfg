SPECIFICATION RequestsFairSpec
CONSTANTS
    r1 = r1  r2 = r2  noReader = noReader  noRequest = noRequest
    Readers <- MCReaders
    Wanted <- MCWanted
    Kinds <- MCKinds
    Cancellable <- MCCancellable
    Deployments <- MCDeployments
    Catalogs <- MCCatalogs
    TTL = 2
    MaxClock = 3
    NoReader = noReader
    NoRequest = noRequest
CHECK_DEADLOCK FALSE
INVARIANTS
    OneRefreshPerTTL
    LocalNeedsNoTypeSafe
    ListsWhatItAccepts
    WorkIsChecked
PROPERTIES
    UsesRecentNames
    BlamesTheRightSide
    RequestsEnd
