\* Is a reply to every packet sent matched?
CONSTANTS
    fnv1a <- PortHash
    RRModulus = 4
    FlowKeys <- KeysOfOne
    Ifaces = {1, 2}
    KindOf <- KindsEthWifi
    Rates = {0}
    PrioLo = 10
    PrioHi = 10
    WeightHi = 1
    StrategyChoices = {}
    AlgorithmChoices = {"RoundRobin"}
    PriorityDeltas = {}
    WeightDeltas = {}
    RowChoices = {}
    MayPause = FALSE
    LinkChoices = {"link"}
    SysfsMayFail = FALSE
    Flows <- OneFlow
    V4 = {"c1", "s1", "ip1", "ip2", "ip3"}
    NatIfaces = {1, 2}
    IndexModulus = 4
    Leases = {}
    FirstIp <- Ips
    Strays = {}
    SimBase = 2
    PacketRate = 25
    HealthSecs = 5
    TxModulus = 4
    TunRequests = {TRUE}
    TunMayFail = FALSE
    MaxTx = 2
    MaxRx = 1
    OpenMayFail = FALSE
    MayClose = FALSE
SPECIFICATION DPSpec
INVARIANT SentHasReturn
