\* Do engine and page follow links and configuration, and does the demonstration go on?
CONSTANTS
    fnv1a <- PortHash
    RRModulus = 2
    FlowKeys <- KeysOfOne
    Ifaces = {1, 2}
    KindOf <- KindsEthWifi
    Rates = {0}
    PrioLo = 10
    PrioHi = 10
    WeightHi = 2
    StrategyChoices = {"Failover"}
    AlgorithmChoices = {}
    PriorityDeltas = {}
    WeightDeltas = {1}
    RowChoices = {1}
    MayPause = FALSE
    LinkChoices = {"absent", "nolink", "link"}
    SysfsMayFail = FALSE
    Flows <- OneFlow
    V4 = {"c1", "s1", "ip1", "ip2"}
    NatIfaces = {1, 2}
    IndexModulus = 2
    Leases = {}
    FirstIp <- FirstIpOnly
    Strays = {}
    SimBase = 2
    PacketRate = 25
    HealthSecs = 5
    TxModulus = 2
    TunRequests = {TRUE}
    TunMayFail = TRUE
    MaxTx = 0
    MaxRx = 0
    OpenMayFail = FALSE
    MayClose = TRUE
SPECIFICATION DPSpec
PROPERTIES ViewConverges SwitchWhileOpen DemoRuns
