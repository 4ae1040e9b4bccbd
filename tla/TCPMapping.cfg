CONSTANTS
    MaxConns = 2
    RetryInitial = 5
    RetryMax = 15
SPECIFICATION FairSpec
INVARIANTS TypeOK QuietMeansClosed StopLeavesAborted
PROPERTIES TracksActivity ProxyEnds 
