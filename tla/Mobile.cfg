CONSTANTS
    Threads = {t1, t2}
    URIs = {u1}
    CoreStopTimeout = TRUE
    MaxInFlight = 2
    MaxGivenUp = 1
SPECIFICATION FairSpec
INVARIANT NodeOwned
PROPERTIES ConfigFrozen  ChangeReported
