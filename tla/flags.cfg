SPECIFICATION FairSpec
CONSTANTS
    Contents = {"a", "b"}
    SpecLists <- MCSpecLists
    MaxId = 10
    FaultyCalls <- MCCalls
    MaxFaults = 2
    MaxEdits = 2
    MaxInterventions = 1
INVARIANTS
    TypeOK
PROPERTIES
    RefinesTargetBag
    SuccessMeansUpToDate
    EventuallyUpToDate
