CONSTANTS
    Conns = {c1}
    HasSocks = TRUE
    IdleTimeout = 1
    CheckInterval = 1
    MaxActive = 1
SPECIFICATION Spec
INVARIANT NothingRunsAfterClose
