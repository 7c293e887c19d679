\* A creation and two deletions that may overlap, with two failures.
SPECIFICATION FairSpec
CONSTANTS
    NoId = NoId
    Creates = {c1}
    Deletes = {d1, d2}
    MaxFaults = 2
    MaxAttempts = 3
INVARIANTS
    FinishedIsRecorded
    FinishedContainerRuns
    FinishedDeletion

    
CHECK_DEADLOCK FALSE
