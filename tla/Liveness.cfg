\* The tasks, the resubmitter and the cleaner on one node, whose pool may be
\* full, with one failed call or crash.  Every task locks the entity its
\* document names; nothing is tombstoned.
SPECIFICATION FairCSpec
CONSTANTS
    a = a
    b = b
    vm = vm
    other = other
    n1 = n1
    NoLock = NoLock
    Tasks = {a, b}
    Entities = {vm, other}
    Nodes = {n1}
    Resubmitted = {a}
    ToBeLocked <- LockSameVm
    EntityOf <- SameVm
    Deletes = {}
    NumSteps <- MCNumSteps
    HomeOf <- MCHomeOf
    Workers = 1
    QueueSize = 1
    PageLimit = 2
    LateDelivery = FALSE
    MaxFaults = 1
PROPERTIES
    EveryTaskConcludes
    DanglingLockReleased
