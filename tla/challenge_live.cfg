SPECIFICATION FairSpec
CONSTANTS
    Nil = Nil
    r1 = r1
    r2 = r2
    p1 = p1
    p2 = p2
    Resources = {r1}
    Pods = {p1}
    MaxId = 3
    Preexisting = 0
    InitialName <- WordNames
    Specs <- MCLiveSpecs
    FaultyCalls <- AllButKube
    MaxFaults = 1
    MaxEdits = 1
    MaxInterventions = 1
    MaxCrashes = 0
INVARIANTS
    TypeOK
    StateSeen
PROPERTIES
    WritesSettle
    UnsetLeftAlone
    EventuallyInSync
    UpdatesCease
    DeletionCompletes
CHECK_DEADLOCK FALSE
