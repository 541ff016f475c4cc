\* Does the priority the user sets reach the scheduler?
CONSTANTS
    fnv1a <- NumKey
    RRModulus = 4
    FlowKeys = {}
    Ifaces = {1, 2}
    KindOf <- KindsEthWifi
    Rates = {0}
    PrioLo = 10
    PrioHi = 11
    WeightHi = 1
    StrategyChoices = {}
    AlgorithmChoices = {}
    PriorityDeltas <- UpDown
    WeightDeltas = {}
    RowChoices = {1, 2}
    MayPause = TRUE
    LinkChoices = {"absent", "nolink", "link"}
    SysfsMayFail = FALSE
SPECIFICATION Spec
PROPERTY PriorityOverridable
