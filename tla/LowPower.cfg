CONSTANTS
    Conns = {c1}
    HasSocks = TRUE
    IdleTimeout = 1
    CheckInterval = 1
    MaxActive = 1
SPECIFICATION FairSpec
INVARIANTS TypeOK StateMatchesComponents AsleepIsWakeable AddressExclusive StartOverRunningNode
PROPERTIES WakeServed HandlersFinish ShutdownCompletes
