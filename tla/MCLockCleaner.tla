---------------------------- MODULE MCLockCleaner ----------------------------
(***************************************************************************)
(* Small instances of LockCleaner: tasks a and b on one node.              *)
(***************************************************************************)
EXTENDS LockCleaner

CONSTANTS a, b, vm, other, n1

\* Both tasks lock the VM, and their documents name it.
SameVm == [t \in Tasks |-> vm]
LockSameVm == [t \in Tasks |-> <<vm>>]

\* a creates an image from the VM: its document names the image, it locks
\* the VM.  b operates on the VM.
ImageAndVm == [t \in Tasks |-> IF t = a THEN other ELSE vm]

\* b deletes another VM.
TwoVms == [t \in Tasks |-> IF t = b THEN other ELSE vm]
LockTwoVms == [t \in Tasks |-> IF t = b THEN <<other>> ELSE <<vm>>]

MCNumSteps == [t \in Tasks |-> IF t \in Resubmitted THEN 2 ELSE 1]

MCHomeOf == [t \in Tasks |-> n1]
=============================================================================
