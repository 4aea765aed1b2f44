SPECIFICATION FairSpec
CONSTANTS
    Nil = Nil
    r1 = r1
    r2 = r2
    p1 = p1
    Resources = {r1}
    Pods = {p1}
    MaxId = 1
    Preexisting = 1
    InitialName <- OfConfiguration
    Specs <- MCSpecs
    Passwords = {"s3cret", "s4cret"}
    FaultyCalls = {"get", "secret", "patch", "kube"}
    MaxFaults = 1
    MaxEdits = 1
    MaxInterventions = 1
    MaxCrashes = 1
INVARIANTS
    TypeOK
PROPERTIES
    OnlySetKeysWritten
    WritesSettle
    EventuallyApplied
    UpdatesCease
CHECK_DEADLOCK FALSE
