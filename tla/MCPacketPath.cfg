\* One four-tuple, reused without end by connections of one program, two handlers,
\* two ports to lease: ports are recycled, and whitelist and upstream address change.
CONSTANTS
    f1 = f1
    f2 = f2
    h1 = h1
    h2 = h2
    alice = alice
    bob = bob
    Flows <- OneFlow
    NoFlow = NoFlow
    MinPort = 1
    MaxPort = 3
    ReservedPort = 2
    Handlers <- TwoHandlers
    V6 = {}
    Procs <- Alice
    Unknown = Unknown
    Whitelists <- ToggledWhitelist
    Exemptions <- ToggledExemption
    Filtered = {}
SPECIFICATION Spec
SYMMETRY HandlerSymmetry
INVARIANTS
    TypeOK
    
    ProxiedStaysProxied
    NoOrphanPin
PROPERTIES
    ImplementsLeases
