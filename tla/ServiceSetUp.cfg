SPECIFICATION SetupSpec
CONSTANTS
    Nil = Nil
    Services = {s, z}
    ProbeTypes = {k, v}
    Addresses = {"a1"}
    RegistrationClients <- TwoRegistrations
    GetIdentifyingFields <- Fields
    GetAccountDefinition <- Accounts
    GetSupplyChainDefinition <- Chains
    DiscoveryClients <- TwoDiscoveries
    GetAccountValues <- Values
    Configs <- SomeConfigs
    MaxCalls = 2
SYMMETRY Symmetry
CHECK_DEADLOCK FALSE
INVARIANTS
    SetupTypeOK
    NothingRefusedIsLoaded
    ServiceProbeLoaded
    DialsComplete
    SetupInv
    WholeSetupsAreTold
    TargetsAreFound
    OwnAnswersAreWritten
