SPECIFICATION BuildersSpec
CONSTANTS
    Nil = Nil
    Commodities = {c1, c2}
    Providers = {p1, p2}
    MaxListed = 2
    EntityTypes = {vm, switch}
    Switch = switch
    NoChain = NoChain
    MaxParts = 0
    MaxLinkParts = 0
    MaxNodes = 0
SYMMETRY Symmetry
CHECK_DEADLOCK FALSE
INVARIANTS
    EveryProviderNamed
