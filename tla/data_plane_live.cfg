\* Does every thread make progress while all of them contend for the locks?
CONSTANTS
    fnv1a <- PortHash
    RRModulus = 4
    FlowKeys <- KeysOfOne
    Ifaces = {1, 2}
    KindOf <- KindsEthWifi
    Rates = {0}
    PrioLo = 10
    PrioHi = 10
    WeightHi = 1
    StrategyChoices = {}
    AlgorithmChoices = {}
    PriorityDeltas = {}
    WeightDeltas = {}
    RowChoices = {}
    MayPause = FALSE
    LinkChoices = {"nolink", "link"}
    SysfsMayFail = TRUE
    Flows <- OneFlow
    V4 = {"c1", "s1", "ip1", "ip2", "ip3"}
    NatIfaces = {1, 2}
    IndexModulus = 4
    Leases = {}
    FirstIp <- Ips
    Strays <- HostTraffic
    SimBase = 2
    PacketRate = 25
    HealthSecs = 5
    TxModulus = 2
    TunRequests = {TRUE}
    TunMayFail = TRUE
    MaxTx = 1
    MaxRx = 1
    OpenMayFail = FALSE
    MayClose = FALSE
SPECIFICATION DPSpec
PROPERTY NoStarvation
