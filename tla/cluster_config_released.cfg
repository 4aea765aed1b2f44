SPECIFICATION Spec
CONSTANTS
    Nil = Nil
    r1 = r1
    r2 = r2
    p1 = p1
    Resources = {r1}
    Pods = {p1}
    MaxId = 2
    Preexisting = 0
    InitialName <- WordNames
    Specs <- MCRules
    ConfigKind = "ClusterProviderConfig"
    Secrets <- MCApiKey
    FaultyCalls = {"connect", "post", "patch", "delete"}
    MaxFaults = 1
    MaxEdits = 1
    MaxInterventions = 1
    MaxCrashes = 0
INVARIANTS
    ConfigOutlivesUsers
CHECK_DEADLOCK FALSE
