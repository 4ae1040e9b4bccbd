CONSTANTS
    Mappings = {m1}
    HasSocks = FALSE
    HasMonitor = FALSE
    CoreMayHang = FALSE
SPECIFICATION FairSpec

PROPERTY CloseReturns
