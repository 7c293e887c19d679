-------------------------- MODULE InstanceService --------------------------
(***************************************************************************)
(* The instance services of the adapters: HandlePatch answers a request at *)
(* once, and then creates or deletes the instance of a compute state, with *)
(* the provisioning task of the request telling how far it is.  The        *)
(* compute state belongs to one kind of adapter: esxcloud or docker, or    *)
(* either for requests that are mocks.                                     *)
(*                                                                         *)
(* Who asks for a deletion waits until the creation has come to its end;   *)
(* deletions may overlap.  Another creation follows only when nothing else *)
(* is under way and nothing before it was a success.                       *)
(***************************************************************************)
EXTENDS EsxcloudInstance, DockerInstance

VARIABLES
    kind,           \* the adapter: esxcloud, docker or mock
    pc              \* where HandlePatch is, for each request

vars == <<docVars, esxVars, dockerVars, kind, pc>>

Locals == {"idle", "start", "load", "insert", "powerOn", "get", "postDisk", "pull",
           "run", "remove", "inspect", "patchDisk", "patchCompute",
           "powerOff", "delete", "removeForced", "deleteCompute", "ok", "err", "ended"}

Init ==
    /\ DocumentsInit /\ EsxInit /\ DockerInit
    /\ kind \in {"esxcloud", "docker", "mock"}
    /\ pc = [r \in Requests |-> "idle"]

-----------------------------------------------------------------------------
At(r, label) == ~crashed /\ pc[r] = label
Goto(r, label) == pc' = [pc EXCEPT ![r] = label]
Continue(r, ok, label) == Goto(r, IF ok THEN label ELSE "err")

\* Who sends requests knows when a creation is over.  (External.)
Resting(S) == \A s \in S : pc[s] \in {"idle", "ended"}

MayFollow(r) ==
    IF r \in Deletes THEN Resting(Creates) /\ \E c \in Creates : pc[c] = "ended"
    ELSE Resting(Requests) /\ \A s \in Requests : task[s] # "FINISHED"

\* HandlePatch decodes the request, answers it, and goes on by itself.
HandlePatch(r) ==
    /\ At(r, "idle")
    /\ MayFollow(r)
    /\ Goto(r, "start")
    /\ UNCHANGED <<docVars, esxVars, dockerVars, kind>>

PatchStarted(r) ==
    /\ At(r, "start")
    /\ PatchStage(r, "STARTED")
    /\ Goto(r, IF kind = "mock" /\ r \in Creates THEN "ok" ELSE "load")
    /\ UNCHANGED <<esxVars, dockerVars, kind>>

\* What comes first, for each kind of adapter and of request.
First(r) ==
    CASE kind = "esxcloud" -> IF r \in Creates THEN "insert" ELSE "powerOff"
      [] kind = "docker" -> IF r \in Creates THEN "pull" ELSE "removeForced"
      [] kind = "mock" -> "deleteCompute"

\* The compute state is read, and what belongs to it: resource pool, disks,
\* credentials; the docker adapter also connects to its host.
LoadStates(r) ==
    /\ At(r, "load")
    /\ \E ok \in BOOLEAN :
        /\ GetComputeState(ok)
        /\ Continue(r, ok, First(r))
        /\ IF ok /\ kind = "esxcloud"
           THEN /\ vmId' = [vmId EXCEPT ![r] = compute.id]
                /\ routine' = [routine EXCEPT ![<<r, First(r)>>] = "send"]
           ELSE UNCHANGED <<vmId, routine>>
    /\ UNCHANGED <<vm, cloudTask, timedOut, crashed, dockerVars, kind>>

-----------------------------------------------------------------------------
\* create and delete of the esxcloud adapter: the routine of a call has its
\* result, or the request is out of time.  The result of a power-off does not
\* matter; an insert leaves the id of its VM.
NextLabel(label, ok) ==
    CASE label = "insert" -> IF ok THEN "powerOn" ELSE "err"
      [] label = "powerOn" -> IF ok THEN "get" ELSE "err"
      [] label = "get" -> IF ok THEN "postDisk" ELSE "err"
      [] label = "powerOff" -> "delete"
      [] label = "delete" -> IF ok THEN "deleteCompute" ELSE "err"

\* As CallReturns, without a look at the context.
CallReturnsUntimed(r) ==
    /\ ~crashed /\ <<r, pc[r]>> \in Calls
    /\ routine[<<r, pc[r]>>] \in {"ok", "err"}
    /\ LET next == NextLabel(pc[r], routine[<<r, pc[r]>>] = "ok")
       IN /\ Goto(r, next)
          /\ routine' = IF <<r, next>> \in Calls
                        THEN [routine EXCEPT ![<<r, next>>] = "send"] ELSE routine
    /\ vmId' = IF pc[r] = "insert" THEN [vmId EXCEPT ![r] = r] ELSE vmId
    /\ UNCHANGED <<docVars, vm, cloudTask, timedOut, crashed, dockerVars, kind>>

CallReturns(r) ==
    /\ ~crashed /\ <<r, pc[r]>> \in Calls
    /\ \E ok \in BOOLEAN :
        /\ IF ok THEN routine[<<r, pc[r]>>] = "ok"
           ELSE routine[<<r, pc[r]>>] = "err" \/ r \in timedOut
        /\ LET next == NextLabel(pc[r], ok)
           IN /\ Goto(r, next)
              /\ routine' = IF <<r, next>> \in Calls
                            THEN [routine EXCEPT ![<<r, next>>] = "send"] ELSE routine
        /\ vmId' = IF pc[r] = "insert" /\ ok THEN [vmId EXCEPT ![r] = r] ELSE vmId
    /\ UNCHANGED <<docVars, vm, cloudTask, timedOut, crashed, dockerVars, kind>>

PostDiskState(r) ==
    /\ At(r, "postDisk")
    /\ \E ok \in BOOLEAN : Read(ok) /\ Continue(r, ok, "patchCompute")
    /\ UNCHANGED <<esxVars, dockerVars, kind>>

-----------------------------------------------------------------------------
\* CreateInstance and DeleteInstance of the docker adapter.
PullImage(r) ==
    /\ At(r, "pull")
    /\ \E ok \in BOOLEAN : Read(ok) /\ Continue(r, ok, "run")
    /\ UNCHANGED <<esxVars, dockerVars, kind>>

\* As RunContainer, but a failure is passed over.
RunUnchecked(r) ==
    /\ At(r, "run")
    /\ \E ok \in BOOLEAN : DockerRun(r, ok) /\ Goto(r, "inspect")
    /\ UNCHANGED <<esxVars, kind>>

RunContainer(r) ==
    /\ At(r, "run")
    /\ \E ok \in BOOLEAN :
        /\ DockerRun(r, ok)
        /\ Goto(r, IF ok THEN "inspect" ELSE IF Again(r) THEN "remove" ELSE "err")
    /\ UNCHANGED <<esxVars, kind>>

RemoveContainer(r) ==
    /\ At(r, "remove")
    /\ DockerRemove /\ Goto(r, "run")
    /\ UNCHANGED <<esxVars, kind>>

InspectContainer(r) ==
    /\ At(r, "inspect")
    /\ \E ok \in BOOLEAN : DockerInspect(ok) /\ Continue(r, ok, "patchDisk")
    /\ UNCHANGED <<esxVars, kind>>

PatchDiskState(r) ==
    /\ At(r, "patchDisk")
    /\ \E ok \in BOOLEAN : Read(ok) /\ Continue(r, ok, "patchCompute")
    /\ UNCHANGED <<esxVars, dockerVars, kind>>

ForceRemoveContainer(r) ==
    /\ At(r, "removeForced")
    /\ \E ok \in BOOLEAN :
        /\ DockerRemoveForced(r, ok)
        /\ Goto(r, IF ok THEN "deleteCompute" ELSE IF Again(r) THEN "removeForced" ELSE "err")
    /\ UNCHANGED <<esxVars, kind>>

-----------------------------------------------------------------------------

\* As PatchCompute and DeleteCompute, but a failure is passed over.
PatchComputeUnchecked(r) ==
    /\ At(r, "patchCompute")
    /\ \E ok \in BOOLEAN : PatchComputeState(r, ok) /\ Goto(r, "ok")
    /\ UNCHANGED <<esxVars, dockerVars, kind>>

DeleteComputeUnchecked(r) ==
    /\ At(r, "deleteCompute")
    /\ \E ok \in BOOLEAN : DeleteComputeState(ok) /\ Goto(r, "ok")
    /\ UNCHANGED <<esxVars, dockerVars, kind>>

\* The compute state names the instance.
PatchCompute(r) ==
    /\ At(r, "patchCompute")
    /\ \E ok \in BOOLEAN : PatchComputeState(r, ok) /\ Continue(r, ok, "ok")
    /\ UNCHANGED <<esxVars, dockerVars, kind>>

\* A mock does not mind when this fails (HandleMockRequest).
DeleteCompute(r) ==
    /\ At(r, "deleteCompute")
    /\ \E ok \in BOOLEAN :
        DeleteComputeState(ok) /\ Continue(r, ok \/ kind = "mock", "ok")
    /\ UNCHANGED <<esxVars, dockerVars, kind>>

\* The task is told the outcome.
PatchOutcome(r) ==
    /\ At(r, "ok") \/ At(r, "err")
    /\ PatchStage(r, IF pc[r] = "ok" THEN "FINISHED" ELSE "FAILED")
    /\ Goto(r, "ended")
    /\ UNCHANGED <<esxVars, dockerVars, kind>>

HandlerStep(r) ==
    \/ PatchStarted(r) \/ LoadStates(r) \/ CallReturns(r) \/ PostDiskState(r)
    \/ PullImage(r) \/ RunContainer(r) \/ RemoveContainer(r) \/ InspectContainer(r)
    \/ PatchDiskState(r) \/ ForceRemoveContainer(r)
    \/ PatchCompute(r) \/ DeleteCompute(r) \/ PatchOutcome(r)

Elsewhere == UNCHANGED <<dockerVars, kind, pc>>

CallStep(c) == RoutineStep(c) /\ Elsewhere
Cloud(c) == CloudStep(c) /\ Elsewhere

ContextDone(r) ==
    /\ kind = "esxcloud" /\ pc[r] \in {"insert", "powerOn", "get", "powerOff", "delete"}
    /\ InstanceTimeout(r) /\ Elsewhere

Next ==
    \/ \E r \in Requests : HandlePatch(r) \/ HandlerStep(r) \/ ContextDone(r)
    \/ \E c \in Calls : CallStep(c) \/ Cloud(c)

Spec == Init /\ [][Next]_vars

\* Handlers run and timers fire.  Nothing is assumed of the cloud, nor of the
\* routines that wait for it.
FairSpec ==
    /\ Spec
    /\ \A r \in Requests : WF_vars(HandlerStep(r) \/ ContextDone(r))

-----------------------------------------------------------------------------
TypeOK ==
    /\ DocumentsTypeOK /\ EsxTypeOK /\ DockerTypeOK
    /\ kind \in {"esxcloud", "docker", "mock"}
    /\ pc \in [Requests -> Locals]

\* The instance a creation made is there, and nobody has been asked to
\* remove it.
Remains(r) ==
    CASE kind = "esxcloud" -> vm[r] \notin {"none", "deleting", "gone"}
                              /\ \A d \in Deletes : cloudTask[<<d, "delete">>] = "none"
      [] kind = "docker" -> container # "none"
      [] kind = "mock" -> FALSE

\* No instance is forgotten while its creation counts as a success: as long
\* as it remains, the compute state exists and names it (the order of create
\* and of delete, and the error paths of both).
FinishedIsRecorded ==
    \A r \in Creates :
        task[r] = "FINISHED" /\ Remains(r) => compute = [exists |-> TRUE, id |-> r]

\* A container whose creation counts as a success runs, until it is to be
\* deleted, although docker run may have failed half-way, and been repeated.
FinishedContainerRuns ==
    \A r \in Creates :
        /\ kind = "docker" /\ task[r] = "FINISHED"
        /\ \A d \in Deletes : pc[d] \in {"idle", "start", "load"}
        => container = "running"

\* When a deletion counts as a success the compute state is gone, and with it
\* the container, or the cloud has accepted to delete the VM.
FinishedDeletion ==
    \A d \in Deletes :
        kind # "mock" /\ task[d] = "FINISHED" =>
            ~compute.exists /\ ~\E r \in Creates : compute.id = r /\ Remains(r)

\* A request comes to its end however long the cloud takes, unless the
\* process has crashed.
RequestsConclude ==
    <>[](crashed \/ \A r \in Requests : pc[r] \in {"idle", "ended"})

\* "START VM and wait for it to start"
FinishedVmIsOn ==
    \A r \in Creates :
        /\ kind = "esxcloud" /\ task[r] = "FINISHED"
        /\ \A d \in Deletes : pc[d] \in {"idle", "start", "load"}
        => vm[r] = "on"

=============================================================================
