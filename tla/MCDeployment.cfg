SPECIFICATION Spec
CONSTANTS
    Addresses = {1, 2}
    Deployer = 1
    Contracts = {"engine", "zkAdapter", "attestor"}
    Slots = {"writer", "zkRouter"}
    Home <- MCHome
    router = router
    Wires = {router}
    Unwired = unwired
    TimelockDelay = 1
    TimelockGrace = 0
    MaxTime = 3
    MaxEvents = 3
    Offered = {"engine"}
    Publishers = {1, 2}
    DefaultMaxAge = 2
    Environments <- MCEnvironments
    Quorums = {0, 2}
    MaxAges = {1}
    CoreWiring <- MCCoreWiring
    GoldWiring <- MCGoldWiring
    CoreArmed <- MCCoreArmed
    GoldArmed <- MCGoldArmed
    Bundles <- MCBundles
INVARIANTS
    ArmedMeansSettled
    RewiringWasAnnounced
    AcceptedByQuorum
PROPERTIES
    ManifestIsTrue
CHECK_DEADLOCK FALSE
