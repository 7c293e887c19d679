\* One creation, without any failure.
SPECIFICATION FairSpec
CONSTANTS
    NoId = NoId
    Creates = {c1}
    Deletes = {d1}
    MaxFaults = 0
    MaxAttempts = 3
INVARIANTS
    FinishedVmIsOn
CHECK_DEADLOCK FALSE
