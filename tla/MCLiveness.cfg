\* A blocked IPv6 flow, and an IPv4 flow with one port to lease and to recycle.
CONSTANTS
    f1 = f1
    f2 = f2
    h1 = h1
    h2 = h2
    alice = alice
    bob = bob
    Flows <- TwoFlows
    NoFlow = NoFlow
    MinPort = 1
    MaxPort = 2
    ReservedPort = 2
    Handlers <- OneHandler
    V6 <- OneFlow
    Procs <- Alice
    Unknown = Unknown
    Whitelists <- FixedWhitelist
    Exemptions <- NoExemption
    Filtered = {}
SPECIFICATION FairSpec
PROPERTIES
    LeasesEnd
    DecisionsEnd
