\* One connection through the proxy, to its end.
CONSTANTS
    f1 = f1
    f2 = f2
    h1 = h1
    h2 = h2
    alice = alice
    bob = bob
    Flows <- OneFlow
    NoFlow = NoFlow
    MinPort = 1
    MaxPort = 3
    ReservedPort = 2
    Handlers <- OneHandler
    V6 = {}
    Procs <- Alice
    Unknown = Unknown
    Whitelists <- FixedWhitelist
    Exemptions <- NoExemption
    Filtered = {}
SPECIFICATION Spec
INVARIANTS
    RoutedToTheEnd
