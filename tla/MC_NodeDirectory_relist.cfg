CONSTANTS
    n1 = n1
    n2 = n2
    Nodes <- MCOneNode
    Unit = 100
    PingTimeout = 10000
    SweepPeriod = 1000
    Jitter = 100
    Deadline = 1100
    MaxBus = 1
    ConsumerFaults = FALSE
SPECIFICATION FairSpec
PROPERTIES
    LiveNodeListed
