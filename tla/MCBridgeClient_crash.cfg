SPECIFICATION Spec
CONSTANTS
    t1 = t1
    t2 = t2
    NoThread = NoThread
    Threads <- OneThread
    Methods <- AllKinds
    Advertised <- Served
    Faults <- Everything
    MaxCalls = 3
    MaxDeaths = 2
    MaxEchoes = 1
INVARIANTS
    ContractIsCurrent
    OnlyAdvertised
