SPECIFICATION Spec
CONSTANTS
    Nil = Nil
    r1 = r1
    r2 = r2
    p1 = p1
    p2 = p2
    Resources = {r1}
    Pods = {p1}
    MaxId = 3
    Preexisting = 1
    InitialName <- WordNames
    Specs <- MCSpecs
    FaultyCalls = {"get"}
    MaxFaults = 1
    MaxEdits = 1
    MaxInterventions = 1
    MaxCrashes = 1
INVARIANTS
    DeletionLeavesNothing
CHECK_DEADLOCK FALSE
