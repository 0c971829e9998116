SPECIFICATION Spec
CONSTANTS
    t1 = t1  t2 = t2  a = a  b = b  c = c  long = long  noThread = noThread
    Threads <- MCThreads
    Texts = {a, b, c, long}
    TooLong = {long}
    Payloads <- MCOnePayload
    Similarity <- MCSimilarity
    Scale = 2
    MaxTemperature = 100
    Floor = 5
    Resolution = 2
    MaxFloat = 10
    Entries = 2
    TTL = 1
    MaxClock = 2
    MaxRequests = 2
    NoThread = noThread
CHECK_DEADLOCK FALSE
INVARIANT ScaledLogits
