SPECIFICATION Spec
CONSTANTS
    laya = laya  layaEnglish = layaEnglish  von = von  clm = clm  jev = jev
    s1 = s1  s2 = s2  b1 = b1  nobody = nobody
    Singles = {s1}
    Batches = {b1}
    Locals = {laya, von}
    Clm = clm
    Aliases <- MCAliasesCuda
    Hosted = {jev}
    Asks <- MCAsks
    MaxItems = 2
    Cancellable = {s1, b1}
    Cuda = TRUE
    ClmParallel = FALSE
    BatchLimit = 1
    MaxResident = 1
    Nobody = nobody
CHECK_DEADLOCK FALSE
INVARIANTS
    LaneIsExclusive
    NothingHeldByNobody
    SomebodyGoesOn
    AnswersAreComplete
PROPERTIES
    NeverUnloadedInUse
