\* What may be on the wire, and where do replies go?
CONSTANTS
    fnv1a <- PortHash
    RRModulus = 4
    FlowKeys <- KeysOfThree
    Ifaces = {1, 2}
    KindOf <- KindsEthWifi
    Rates = {0}
    PrioLo = 10
    PrioHi = 10
    WeightHi = 1
    StrategyChoices = {}
    AlgorithmChoices = {}
    PriorityDeltas = {}
    WeightDeltas = {}
    RowChoices = {}
    MayPause = FALSE
    LinkChoices = {"link"}
    SysfsMayFail = TRUE
    Flows <- ThreeFlows
    V4 = {"c1", "c2", "s1", "ip1", "ip2", "ip3"}
    NatIfaces = {1, 2}
    IndexModulus = 4
    Leases = {"ip3"}
    FirstIp <- Ips
    Strays <- HostTraffic
    SimBase = 2
    PacketRate = 25
    HealthSecs = 5
    TxModulus = 4
    TunRequests = {TRUE, FALSE}
    TunMayFail = TRUE
    MaxTx = 3
    MaxRx = 2
    OpenMayFail = TRUE
    MayClose = TRUE
SPECIFICATION DPSpec
INVARIANTS DPTypeOK LocksExact ReplyFindsSession
PROPERTY ImplementsForwarder
\* With its window closed the demonstration does nothing more.
CHECK_DEADLOCK FALSE
