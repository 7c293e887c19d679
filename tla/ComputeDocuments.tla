-------------------------- MODULE ComputeDocuments --------------------------
(***************************************************************************)
(* The documents that the instance adapters of dcp/provisioning work on,   *)
(* through the client of dcp/client: the provisioning task of a request,   *)
(* and the compute state that all requests here are about.  A call may     *)
(* fail, before or after it was carried out (Fault).                       *)
(*                                                                         *)
(* Of a compute state only its existence and the instance it names are     *)
(* modelled, and nothing of the documents of its disks but that calls for  *)
(* them may fail.                                                          *)
(***************************************************************************)
EXTENDS Integers

CONSTANTS
    Creates,        \* requests to create the instance, one for each attempt
    Deletes,        \* requests to delete it
    MaxFaults,      \* calls that fail
    NoId            \* the id of no instance

ASSUME DocumentsAssumption ==
    Creates \cap Deletes = {} /\ MaxFaults \in Nat /\ NoId \notin Creates

VARIABLES
    task,           \* stage of the provisioning task of each request
    compute,        \* the compute state: does it exist, which instance is it
    faults

docVars == <<task, compute, faults>>

Requests == Creates \cup Deletes

DocumentsTypeOK ==
    /\ task \in [Requests -> {"CREATED", "STARTED", "FINISHED", "FAILED"}]
    /\ compute \in [exists : BOOLEAN, id : Creates \cup {NoId}]
    /\ faults \in 0..MaxFaults

DocumentsInit ==
    /\ task = [r \in Requests |-> "CREATED"]
    /\ compute = [exists |-> TRUE, id |-> NoId]
    /\ faults = 0

-----------------------------------------------------------------------------
Fault == faults < MaxFaults /\ faults' = faults + 1

\* TaskStateWrapper.patch: best effort, nobody looks at its result.
PatchStage(r, stage) ==
    /\ \/ task' = [task EXCEPT ![r] = stage] /\ UNCHANGED faults
       \/ task' \in {task, [task EXCEPT ![r] = stage]} /\ Fault
    /\ UNCHANGED compute

\* A call that reads, or that writes what is not modelled.
Read(ok) ==
    /\ (ok /\ UNCHANGED faults) \/ (~ok /\ Fault)
    /\ UNCHANGED <<task, compute>>

GetComputeState(ok) ==
    /\ \/ ok /\ compute.exists /\ UNCHANGED faults
       \/ ~ok /\ ~compute.exists /\ UNCHANGED faults
       \/ ~ok /\ Fault
    /\ UNCHANGED <<task, compute>>

PatchComputeState(id, ok) ==
    LET patched == IF compute.exists THEN [compute EXCEPT !.id = id] ELSE compute
    IN /\ \/ compute' = patched /\ ok = compute.exists /\ UNCHANGED faults
          \/ compute' \in {compute, patched} /\ ~ok /\ Fault
       /\ UNCHANGED task

\* The compute state and its disks are deleted by calls of their own, and all
\* must succeed.
DeleteComputeState(ok) ==
    LET deleted == [compute EXCEPT !.exists = FALSE]
    IN /\ \/ compute' = deleted /\ ok = compute.exists /\ UNCHANGED faults
          \/ compute' \in {compute, deleted} /\ ~ok /\ Fault
       /\ UNCHANGED task

=============================================================================
