CONSTANTS
    Conns = {}
    HasSocks = TRUE
    IdleTimeout = 4
    CheckInterval = 2
    MaxActive = 2
SPECIFICATION IdleSpec
INVARIANT SleepsInTime
PROPERTY SteadyTrafficKeepsAwake
