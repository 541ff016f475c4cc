\* Does a UDP datagram keep its payload?
CONSTANTS
    Protos = {17}
    Protos6 = {}
    FragmentProtos = {}
    HeaderLengths = {20}
    ExtChains <- NoChain
    L4Lengths = {18, 30}
    Fills = {0, 1, 255}
    Kept = {}
    Client <- TunClient
    Server <- Resolver
    EgressIp <- Uplink
    Client6 <- TunClient6
    Server6 <- Resolver6
    Servers6 <- NoServer6
    ClientPort = 40001
    ServerPort = 53
    Frame = 46
SPECIFICATION RewriteSpec
INVARIANT ContentIntact
CHECK_DEADLOCK FALSE
