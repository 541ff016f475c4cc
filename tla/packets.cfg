\* Are packets taken for what they are, and right after a rewrite?
CONSTANTS
    Protos = {1, 6, 17}
    Protos6 = {6, 17, 58}
    FragmentProtos = {1}
    HeaderLengths = {20, 24}
    ExtChains <- Chains
    L4Lengths = {8, 16, 18, 20, 26, 27, 40}
    Fills = {0, 1, 127, 255}
    Kept = {0, 1, 19, 20, 22, 24, 25, 28, 39, 40, 41, 44, 63, 72}
    Client <- TunClient
    Server <- Resolver
    EgressIp <- Uplink
    Client6 <- TunClient6
    Server6 <- Resolver6
    Servers6 <- AllZeroOne
    ClientPort = 40001
    ServerPort = 443
    Frame = 46
SPECIFICATION RewriteSpec
INVARIANTS FlowRight CutNeverMisread Ip6Faithful HeaderChecksumRight SegmentAccepted ContentKept
CHECK_DEADLOCK FALSE
