SPECIFICATION FairSpec
CONSTANTS
    Replicas = {r1, r2}
    Conns = {c1}
    Settings <- MCSettings
    Unset = Unset
    Unreadable = Unreadable
    Default = 3
    Header = 2
    Read = 6
    Write = 9
    Drain = 3
    Fresh = 1
    Left = Left
    Nobody = Nobody
    MaxFaults = 2
INVARIANTS
    IInv
    NoReplicaCollides
    AppliedByOne
    ServingHasTheSchema
    QuietStopCutsNothing
    OnlyLateWorkIsCut
PROPERTIES
    EveryReplicaComesUp
    EverySignalIsObeyed
CHECK_DEADLOCK FALSE
