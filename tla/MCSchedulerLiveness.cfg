SPECIFICATION FairSpec
CONSTANTS
    laya = laya  layaEnglish = layaEnglish  von = von  clm = clm  jev = jev
    s1 = s1  s2 = s2  b1 = b1  nobody = nobody
    Singles = {s1}
    Batches = {b1}
    Locals = {laya, clm}
    Clm = clm
    Aliases <- MCAliasesCpu
    Hosted = {}
    Asks <- MCAsksNames
    MaxItems = 2
    Cancellable = {}
    Cuda = FALSE
    ClmParallel = FALSE
    BatchLimit = 1
    MaxResident = 1
    Nobody = nobody
CHECK_DEADLOCK FALSE
INVARIANTS
    OneForwardPerModel
PROPERTIES
    CallsEnd
