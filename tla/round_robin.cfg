\* Does one turn of the weighted pool share packets out by weight?
CONSTANTS
    fnv1a <- NumKey
    RRModulus = 24
    FlowKeys = {1}
    Ifaces = {1, 2}
    KindOf <- KindsEthWifi
    Rates = {0}
    PrioLo = 10
    PrioHi = 11
    WeightHi = 2
    StrategyChoices = {}
    AlgorithmChoices = {"RoundRobin"}
    PriorityDeltas <- UpDown
    WeightDeltas <- UpDown
    RowChoices = {1}
    MayPause = TRUE
    LinkChoices = {"absent", "nolink", "link"}
    SysfsMayFail = FALSE
SPECIFICATION RRSpec
INVARIANTS TypeOK ConfigValid RoundRobinShare
