---------------------------- MODULE MCTaskEngine ----------------------------
(***************************************************************************)
(* Small instances of TaskEngine.  Task a attaches an ISO to the VM (two   *)
(* commands, locks the ISO and the VM); tasks b and c operate on the VM.   *)
(***************************************************************************)
EXTENDS TaskEngine

CONSTANTS a, b, c, iso, vm, n1, n2

MCToBeLocked == [t \in Tasks |-> IF t = a THEN <<iso, vm>> ELSE <<vm>>]

MCNumSteps == [t \in Tasks |-> IF t = a THEN 2 ELSE 1]

\* Two tasks share a node, or all do.
MCHomeOf == [t \in Tasks |-> IF t = c /\ n2 \in Nodes THEN n2 ELSE n1]
=============================================================================
