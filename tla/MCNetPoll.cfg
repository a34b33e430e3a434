SPECIFICATION Spec
CONSTANTS
    h1 = h1
    h2 = h2
    s1 = s1
    s2 = s2
    n1 = n1
    n2 = n2
    Hosts = {h1, h2}
    DnsHost = h1
    Servers = {s1, s2}
    Names = {n1, n2}
    NoHost = NoHost
    Options = {"server", "mask", "dns"}
    Carries <- MCCarries
    CacheSize = 2
    UdpSockets = 1
    Timeout = 1
    MaxFrames = 3
    MaxTick = 1
    MaxDepth = 4
SYMMETRY Symmetric
CHECK_DEADLOCK FALSE
INVARIANTS
    TypeOK
    OnceInOrder
    AnswersMatch
    LeaseFromOneServer
    NoSocketLeft
    OneEntryPerAddress
