\* Two four-tuples, three connections, three ports to lease of which two may be used;
\* the behaviour stops when its connections are spent.
CONSTANTS
    f1 = f1
    f2 = f2
    h1 = h1
    h2 = h2
    alice = alice
    bob = bob
    Flows <- TwoFlows
    NoFlow = NoFlow
    MinPort = 1
    MaxPort = 4
    ReservedPort = 2
    Handlers <- OneHandler
    V6 = {}
    Procs <- Alice
    Unknown = Unknown
    Whitelists <- FixedWhitelist
    Exemptions <- NoExemption
    Filtered = {}
    MaxOpens = 3
SPECIFICATION BoundedSpec
SYMMETRY FlowSymmetry
CHECK_DEADLOCK FALSE
INVARIANTS
    NoEarlyRecycling
    NoCrossTalk
    ReplyIsolation
