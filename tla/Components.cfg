CONSTANTS
    Mappings = {m1}
    HasSocks = TRUE
    HasMonitor = TRUE
    CoreMayHang = TRUE
SPECIFICATION FairSpec
INVARIANTS DownIsDown GoroutinesHaveNode TeardownAlone
PROPERTY StopReturns
