\* The cleaner and the tombstone cleaner beside two tasks; b deletes its VM.
SPECIFICATION CSpec
CONSTANTS
    a = a
    b = b
    vm = vm
    other = other
    n1 = n1
    NoLock = NoLock
    Tasks = {a, b}
    Entities = {vm, other}
    Nodes = {n1}
    Resubmitted = {a}
    ToBeLocked <- LockSameVm
    EntityOf <- SameVm
    Deletes = {b}
    NumSteps <- MCNumSteps
    HomeOf <- MCHomeOf
    Workers = 1
    QueueSize = 1
    PageLimit = 2
    LateDelivery = FALSE
    MaxFaults = 2
INVARIANTS
    HeldLocks
    ReleasesOnlyForIdleTasks
