\* Are the rates those of the interface they are shown for?
CONSTANTS
    fnv1a <- NumKey
    RRModulus = 4
    FlowKeys = {}
    Ifaces = {1, 2}
    KindOf <- KindsEthWifi
    Rates = {0, 4, 8}
    PrioLo = 10
    PrioHi = 10
    WeightHi = 1
    StrategyChoices = {}
    AlgorithmChoices = {}
    PriorityDeltas = {}
    WeightDeltas = {}
    RowChoices = {}
    MayPause = FALSE
    LinkChoices = {"absent", "link"}
    SysfsMayFail = TRUE
    MaxBytes = 2
    TrafficDirs = {"tx"}
    ElapsedChoices = {250}
SPECIFICATION StatsSpec
PROPERTIES RateBounded RatesSettle ImplementsEngine
