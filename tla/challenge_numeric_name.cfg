SPECIFICATION Spec
CONSTANTS
    Nil = Nil
    r1 = r1
    r2 = r2
    p1 = p1
    p2 = p2
    Resources = {r1}
    Pods = {p1}
    MaxId = 3
    Preexisting = 1
    InitialName <- NumericName
    Specs <- MCSpecs
    FaultyCalls <- AllButGetAndLostPost
    MaxFaults = 0
    MaxEdits = 0
    MaxInterventions = 0
    MaxCrashes = 0
PROPERTIES
    OwnChallengesOnly
CHECK_DEADLOCK FALSE
