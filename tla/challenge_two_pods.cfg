SPECIFICATION Spec
CONSTANTS
    Nil = Nil
    r1 = r1
    r2 = r2
    p1 = p1
    p2 = p2
    Resources = {r1}
    Pods = {p1, p2}
    MaxId = 2
    Preexisting = 0
    InitialName <- WordNames
    Specs <- MCManagedOnly
    FaultyCalls = {"post", "kube", "delete"}
    MaxFaults = 1
    MaxEdits = 0
    MaxInterventions = 1
    MaxCrashes = 1
SYMMETRY PodSymmetry
INVARIANTS
    NoOrphan
    AtMostOne
    Traceable
PROPERTIES
    CreateIsAnnounced
    KeepsCustody
CHECK_DEADLOCK FALSE
