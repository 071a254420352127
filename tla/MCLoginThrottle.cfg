SPECIFICATION FairSpec
CONSTANTS
    Keys = {k1, k2, k3}
    MaxFailures = 2
    Capacity = 2
    Window = 2
    Handlers = {h1, h2}
    NoKey = NoKey
INVARIANTS
    TypeOK
    TableBounded
    OvershootBounded
PROPERTIES
    BlockHolds
    FailuresAccumulate
    BlockEnds
