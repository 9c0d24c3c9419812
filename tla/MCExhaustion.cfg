\* Two four-tuples compete for the one port to lease: most hijacks find the pool
\* exhausted, and the port changes hands at every other.
CONSTANTS
    f1 = f1
    f2 = f2
    h1 = h1
    h2 = h2
    alice = alice
    bob = bob
    Flows <- TwoFlows
    NoFlow = NoFlow
    MinPort = 1
    MaxPort = 2
    ReservedPort = 2
    Handlers <- OneHandler
    V6 = {}
    Procs <- Alice
    Unknown = Unknown
    Whitelists <- FixedWhitelist
    Exemptions <- NoExemption
    Filtered = {}
SPECIFICATION Spec
SYMMETRY FlowSymmetry
INVARIANTS
    IndexAgrees
    PinsAreLeased
    NoMidstreamHijack
    ProxiedStaysProxied
