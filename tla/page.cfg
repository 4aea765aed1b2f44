SPECIFICATION FairSpec
CONSTANTS
    Nil = Nil
    r1 = r1
    r2 = r2
    p1 = p1
    Resources = {r1}
    Pods = {p1}
    MaxId = 2
    Preexisting = 0
    InitialName <- WordNames
    Specs <- MCBoth
    ConfigKind = "ProviderConfig"
    Secrets <- MCSecrets
    FaultyCalls = {"connect", "patch", "delete"}
    MaxFaults = 1
    MaxEdits = 1
    MaxInterventions = 1
    MaxCrashes = 0
INVARIANTS
    PagesTraceable
    ConfigOutlivesUsers
PROPERTIES
    KeepsCustody
    WritesSettle
    PageInSync
    UpdatesCease
    DeletionCompletes
    ConfigReleased
CHECK_DEADLOCK FALSE
