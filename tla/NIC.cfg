CONSTANTS
    Senders = {s1, s2}
    QueueSize = 2
    MaxLate = 4
SPECIFICATION FairSpec
INVARIANTS TypeOK RefsExact
PROPERTY InterfaceEnds
