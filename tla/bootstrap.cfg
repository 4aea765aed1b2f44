SPECIFICATION FairSpec
CONSTANTS
    a1 = a1
    a2 = a2
    Attempts = {a1, a2}
    BackoffLimit = 10
    MaxFailures = 3
INVARIANTS
    CredentialsWork
PROPERTIES
    EveryAttemptSucceeds
CHECK_DEADLOCK FALSE
