CONSTANTS
    Keys = {k1, k2}
    MaxSessions = 2
    Timeout = 1
SPECIFICATION FairSpec
INVARIANT TypeOK
PROPERTIES TracksActivity LeavesMapClosed ExpiredUnmapped LastSweepCloses GoroutinesEnd
