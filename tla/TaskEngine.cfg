\* Three tasks on one node, whose pool may be full; two failed calls or
\* crashes anywhere.
SPECIFICATION Spec
CONSTANTS
    a = a
    b = b
    c = c
    iso = iso
    vm = vm
    n1 = n1
    n2 = n2
    NoLock = NoLock
    Tasks = {a, b, c}
    Entities = {iso, vm}
    Nodes = {n1}
    Resubmitted = {a}
    ToBeLocked <- MCToBeLocked
    NumSteps <- MCNumSteps
    HomeOf <- MCHomeOf
    Workers = 1
    QueueSize = 1
    LateDelivery = FALSE
    MaxFaults = 2
INVARIANTS
    TypeOK
    MutualExclusion
    OneFaultLeaksOnlyAnUnansweredLock
    CompletedMeansAllSteps
PROPERTIES
    TerminalIsFinal
    ImplementsContract
