\* As TaskEngine.cfg, but a call that fails may still be applied later; every
\* task takes one command.
SPECIFICATION Spec
CONSTANTS
    a = a
    b = b
    c = c
    iso = iso
    vm = vm
    n1 = n1
    n2 = n2
    NoLock = NoLock
    Tasks = {a, b, c}
    Entities = {iso, vm}
    Nodes = {n1, n2}
    Resubmitted = {}
    ToBeLocked <- MCToBeLocked
    NumSteps <- MCNumSteps
    HomeOf <- MCHomeOf
    Workers = 1
    QueueSize = 1
    LateDelivery = TRUE
    MaxFaults = 2
INVARIANTS
    LockInv
    TerminalMeansIdle
