--------------------------- MODULE DockerInstance ---------------------------
(***************************************************************************)
(* How the instance service of dcp/provisioning/docker creates and deletes *)
(* a container with commands that it runs over ssh.  The container bears   *)
(* the id of the compute state.  A command that fails is run again, and    *)
(* between two attempts of docker run what the first left is removed.      *)
(***************************************************************************)
EXTENDS ComputeDocuments

CONSTANTS
    MaxAttempts     \* 10 in the code (retryCount)

ASSUME DockerAssumption == MaxAttempts \in Nat \ {0}

VARIABLES
    container,      \* the container, at the docker host
    attempts        \* attempts of the command a request is at

dockerVars == <<container, attempts>>

DockerTypeOK ==
    /\ container \in {"none", "created", "running"}
    /\ attempts \in [Requests -> 0..(MaxAttempts - 1)]

DockerInit == container = "none" /\ attempts = [r \in Requests |-> 0]

-----------------------------------------------------------------------------
\* The commands as the docker host carries them out: the container after the
\* command, and whether it succeeds.  (External.)
Ran(ok) ==
    IF ok THEN container = "none" /\ container' = "running"
    ELSE container # "none" /\ UNCHANGED container

Removed(force, ok) ==
    IF ok THEN (container = "created" \/ (force /\ container = "running")) /\ container' = "none"
    ELSE (container = "none" \/ (~force /\ container = "running")) /\ UNCHANGED container

\* The last attempt that fails is the end of RunWithRetry.
Again(r) == attempts[r] + 1 < MaxAttempts

Failed(r) == attempts' = [attempts EXCEPT ![r] = IF Again(r) THEN @ + 1 ELSE 0]
Succeeded(r) == attempts' = [attempts EXCEPT ![r] = 0]

\* docker run: it fails when the name is taken.  With a fault it fails too,
\* but may have created the container, or even started it.
DockerRun(r, ok) ==
    /\ \/ Ran(ok) /\ UNCHANGED faults
       \/ /\ ~ok /\ Fault
          /\ container' \in IF container = "none" THEN {"none", "created", "running"}
                            ELSE {container}
    /\ IF ok THEN Succeeded(r) ELSE Failed(r)
    /\ UNCHANGED <<task, compute>>

\* docker rm between two attempts, whose result does not matter.
DockerRemove ==
    /\ \/ (\E ok \in BOOLEAN : Removed(FALSE, ok)) /\ UNCHANGED faults
       \/ Fault /\ UNCHANGED container
    /\ UNCHANGED <<task, compute, attempts>>

\* docker rm -f, with which an instance is deleted.
DockerRemoveForced(r, ok) ==
    /\ \/ Removed(TRUE, ok) /\ UNCHANGED faults
       \/ ~ok /\ Fault /\ container' \in {container, "none"}
    /\ IF ok THEN Succeeded(r) ELSE Failed(r)
    /\ UNCHANGED <<task, compute>>

DockerInspect(ok) ==
    /\ \/ ok /\ container # "none" /\ UNCHANGED faults
       \/ ~ok /\ container = "none" /\ UNCHANGED faults
       \/ ~ok /\ Fault
    /\ UNCHANGED <<task, compute, container, attempts>>

=============================================================================
