SPECIFICATION BuildersSpec
CONSTANTS
    Nil = Nil
    Commodities = {c1, c2}
    Providers = {p1, p2}
    MaxListed = 3
    EntityTypes = {vm, switch}
    Switch = switch
    NoChain = NoChain
    MaxParts = 3
    MaxLinkParts = 1
    MaxNodes = 2
SYMMETRY Symmetry
CHECK_DEADLOCK FALSE
INVARIANTS
    EntityInv
    BoughtAsOrdered
    SoleProviderNamed
    NothingMissing
    EntityIsWhole
    ChainInv
    CreatedTemplateIsWhole
    LinkKeyIsOtherEnd
    TemplateBuysAsAsked
PROPERTIES
    ChainAsOffered
