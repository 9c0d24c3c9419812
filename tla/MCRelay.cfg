\* A flow, to port 443 or not, whose one port is leased again and again to two handlers.
CONSTANTS
    f1 = f1
    h1 = h1
    h2 = h2
    http = http
    socks = socks
    example = example
    other = other
    Flows <- OneFlow
    NoFlow = NoFlow
    MinPort = 1
    MaxPort = 2
    ReservedPort = 2
    Handlers <- TwoHandlers
    Dialers <- TwoHandlers
    Proxies <- TwoProxies
    Http <- HttpProxy
    NoProxy = NoProxy
    NoHost = NoHost
    NoHello = NoHello
    Hosts <- TwoHosts
    Hellos <- SomeHellos
SPECIFICATION RelaySpec
INVARIANTS
    RelayTypeOK
    DialsCurrent
    UpstreamGetsAll
    ClientGetsAll
    StatsAgree
PROPERTIES
    TargetAsNamed
    HandlersOnlyAdvance
    EofPassedOn
    
