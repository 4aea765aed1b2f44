SPECIFICATION FairSpec
CONSTANTS
    Nil = Nil
    r1 = r1
    r2 = r2
    p1 = p1
    Resources = {r1}
    Pods = {p1}
    MaxId = 1
    Preexisting = 1
    InitialName <- OfConfiguration
    Specs <- MCContest
    Passwords = {"s3cret", "s4cret"}
    FaultyCalls = {"get", "secret", "patch", "kube"}
    MaxFaults = 0
    MaxEdits = 0
    MaxInterventions = 0
    MaxCrashes = 0
PROPERTIES
    DeletionCompletes
CHECK_DEADLOCK FALSE
