SPECIFICATION FairSpec
CONSTANTS
    HintKeys = {"a", "b", "c"}
    SpecLists <- MCSomeInvalid
    MaxId = 8
    FaultyCalls <- MCCalls
    MaxFaults = 1
    MaxEdits = 1
    MaxInterventions = 1
INVARIANTS
    TypeOK
PROPERTIES
    RefinesTargetBag
    DeletesNoPrerequisite
    InvalidListTouchesNothing
    SuccessMeansUpToDate
    EventuallyUpToDate
