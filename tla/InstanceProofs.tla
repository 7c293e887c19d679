--------------------------- MODULE InstanceProofs ---------------------------
(***************************************************************************)
(* Proofs about InstanceService: what it means that a creation or a        *)
(* deletion counts as a success, for any number of requests, faults and    *)
(* attempts.                                                               *)
(***************************************************************************)
EXTENDS InstanceService, TLAPS

\* Most leaves are first-order reasoning, which Zenon does; those with arithmetic,
\* records or long formulas name SMT.
USE Zenon

Stages == {"CREATED", "STARTED", "FINISHED", "FAILED"}

\* The part of the type invariant that the proofs need.
Shape ==
    /\ task \in [Requests -> Stages]
    /\ compute \in [exists : BOOLEAN, id : Creates \cup {NoId}]
    /\ cloudTask \in [Calls -> {"none", "QUEUED", "STARTED", "COMPLETED", "ERROR"}]
    /\ routine \in [Calls -> {"none", "send", "poll", "ok", "err"}]
    /\ container \in {"none", "created", "running"}
    /\ kind \in {"esxcloud", "docker", "mock"}
    /\ pc \in [Requests -> Locals]

\* Where the handler of a request of each kind may be.
LabelsOf(r) ==
    {"idle", "start", "ok", "err", "ended"} \cup
    IF r \in Creates
    THEN IF kind = "esxcloud" THEN {"load", "insert", "powerOn", "get", "postDisk", "patchCompute"}
         ELSE IF kind = "docker"
         THEN {"load", "pull", "run", "remove", "inspect", "patchDisk", "patchCompute"}
         ELSE {}
    ELSE IF kind = "esxcloud" THEN {"load", "powerOff", "delete", "deleteCompute"}
         ELSE IF kind = "docker" THEN {"load", "removeForced", "deleteCompute"}
         ELSE {"load", "deleteCompute"}

Labels == \A r \in Requests : pc[r] \in LabelsOf(r)

\* Creations are alone, and there is none after a success.
Rests(r) == pc[r] \in {"idle", "ended"}

Turns == \A c \in Creates : \A s \in Requests : s # c => Rests(c) \/ Rests(s)

Settled ==
    \A s \in Requests : task[s] = "FINISHED" => pc[s] = "ended" /\ \A c \in Creates : Rests(c)

\* What a creation has made and recorded.
DeleteAsked == \E d \in Deletes : cloudTask[<<d, "delete">>] # "none"

Made ==
    \A r \in Creates :
        /\ pc[r] = "ok" /\ kind # "mock" => compute = [exists |-> TRUE, id |-> r]
        /\ kind = "docker" /\ pc[r] \in {"inspect", "patchDisk", "patchCompute", "ok"} =>
              container = "running"
        /\ task[r] = "FINISHED" /\ kind = "esxcloud" /\ ~DeleteAsked =>
              compute = [exists |-> TRUE, id |-> r]
        /\ task[r] = "FINISHED" /\ kind = "docker" /\ container # "none" =>
              compute = [exists |-> TRUE, id |-> r]

\* How far a deletion is.
Done(d) == pc[d] = "ok" \/ task[d] = "FINISHED"

Deleted ==
    \A d \in Deletes :
        /\ routine[<<d, "delete">>] # "poll"
        /\ routine[<<d, "delete">>] = "ok" => cloudTask[<<d, "delete">>] # "none"
        /\ (pc[d] = "deleteCompute" \/ Done(d)) /\ kind = "esxcloud" =>
              cloudTask[<<d, "delete">>] # "none"
        /\ (pc[d] = "deleteCompute" \/ Done(d)) /\ kind = "docker" => container = "none"
        /\ Done(d) /\ kind # "mock" => ~compute.exists

InstanceInv ==
    Shape /\ Labels /\ Turns /\ Settled /\ Made /\ Deleted /\ FinishedContainerRuns

LEMMA InstanceInit == Init => InstanceInv
<1> SUFFICES ASSUME Init PROVE InstanceInv
  OBVIOUS
<1> USE DEF Init, DocumentsInit, EsxInit, DockerInit
<1>1. Shape
  BY DEF Shape, Stages, Locals
<1>2. Labels /\ Turns /\ Settled
  BY DEF Labels, LabelsOf, Turns, Rests, Settled, Requests
<1>3. Made /\ Deleted /\ FinishedContainerRuns
  BY DEF Made, Deleted, Done, FinishedContainerRuns, Requests, Calls
<1> QED  BY <1>1, <1>2, <1>3 DEF InstanceInv

-----------------------------------------------------------------------------
\* What the invariant says of the properties.
LEMMA InvImplies ==
  ASSUME InstanceInv
  PROVE  FinishedIsRecorded /\ FinishedDeletion
<1> USE DEF InstanceInv, Shape, Made, Deleted, DeleteAsked
<1>1. FinishedIsRecorded
  BY DEF FinishedIsRecorded, Remains, Requests
<1>2. FinishedDeletion
  BY DEF FinishedDeletion, Remains, Done, Requests
<1> QED  BY <1>1, <1>2

-----------------------------------------------------------------------------
\* A handler that is under way moves, and nobody else does.
Moves(r) ==
    /\ ~Rests(r) /\ kind' = kind
    /\ pc' \in [Requests -> Locals] /\ pc'[r] \in LabelsOf(r)
    /\ pc'[r] \in {"idle", "start", "load"} => pc[r] = "start"
    /\ \A s \in Requests \ {r} : pc'[s] = pc[s]

LEMMA MovesInv ==
  ASSUME InstanceInv, NEW r \in Requests, Moves(r),
         \A s \in Requests \ {r} : task'[s] = task[s],
         task'[r] = "FINISHED" => pc'[r] = "ended"
  PROVE  Labels' /\ Turns' /\ Settled'
<1> USE DEF InstanceInv, Moves, Rests
<1>1. Labels'
  BY DEF Labels, LabelsOf
<1>2. Turns'
  BY DEF Turns, Requests
<1>3. Settled'
  BY DEF Settled, Turns, Requests
<1> QED  BY <1>1, <1>2, <1>3

\* Steps that only read, or that fail.
LEMMA ReadInv ==
  ASSUME InstanceInv, NEW r \in Requests, Moves(r),
         UNCHANGED <<task, compute, cloudTask, container>>,
         routine' \in [Calls -> {"none", "send", "poll", "ok", "err"}],
         \A d \in Deletes : routine'[<<d, "delete">>] \in {routine[<<d, "delete">>], "send"},
         pc'[r] \in {"ok", "deleteCompute"} => kind = "mock",
         kind = "docker" /\ pc'[r] \in {"inspect", "patchDisk", "patchCompute"} =>
             container = "running"
  PROVE  InstanceInv'
<1>1. Labels' /\ Turns' /\ Settled'
  BY MovesInv DEF InstanceInv, Settled, Moves, Rests
<1>2. Shape'
  BY DEF InstanceInv, Shape, Moves
<1>3. Made'
  BY SMT DEF InstanceInv, Shape, Made, Moves, DeleteAsked, Requests
<1>4. Deleted'
  <2>1. \A d \in Deletes :
          pc'[d] = pc[d] \/ pc'[d] \notin {"ok", "deleteCompute"} \/ kind = "mock"
    BY DEF Moves, Requests
  <2> QED  BY <2>1 DEF InstanceInv, Deleted, Done, Moves
<1>5. FinishedContainerRuns'
  <2>1. \A d \in Deletes :
          pc'[d] \in {"idle", "start", "load"} => pc[d] \in {"idle", "start", "load"}
    BY DEF Moves, Requests
  <2> QED  BY <2>1 DEF InstanceInv, FinishedContainerRuns, Moves
<1> QED  BY <1>1, <1>2, <1>3, <1>4, <1>5 DEF InstanceInv

-----------------------------------------------------------------------------
LEMMA HandlePatchInv ==
  ASSUME InstanceInv, NEW r \in Requests, HandlePatch(r)
  PROVE  InstanceInv'
<1> USE DEF InstanceInv, HandlePatch, At, Goto, docVars, esxVars, dockerVars
<1>0. pc' = [pc EXCEPT ![r] = "start"] /\ pc[r] = "idle" /\ UNCHANGED <<task, compute, cloudTask,
         routine, container, kind>>
  OBVIOUS
<1>1. Shape'
  BY <1>0 DEF Shape, Locals
<1>2. Labels'
  BY SMT, <1>0 DEF Labels, LabelsOf, Shape
<1>3. Turns'
  <2>1. CASE r \in Deletes
    <3>1. r \notin Creates /\ \A c \in Creates : pc[c] \in {"idle", "ended"} /\ c \in Requests
      BY <2>1, DocumentsAssumption DEF MayFollow, Resting, Requests
    <3>2. \A c \in Creates : pc'[c] = pc[c]
      BY <1>0, <3>1 DEF Shape
    <3> QED  BY <3>1, <3>2 DEF Turns, Rests
  <2>2. CASE r \notin Deletes
    <3>1. \A s \in Requests : s # r => pc'[s] \in {"idle", "ended"}
      BY <1>0, <2>2 DEF MayFollow, Resting, Shape
    <3> QED  BY <3>1 DEF Turns, Rests, Requests
  <2> QED  BY <2>1, <2>2
<1>6. Settled'
  <2>1. CASE r \in Deletes
    BY SMT, <1>0, <2>1, DocumentsAssumption DEF Settled, Rests, Shape, Requests
  <2>2. CASE r \notin Deletes
    BY <1>0, <2>2 DEF Settled, MayFollow, Shape, Requests
  <2> QED  BY <2>1, <2>2
<1>4. Made' /\ Deleted'
  <2>1. \A s \in Requests : pc'[s] = pc[s] \/ pc'[s] = "start"
    BY <1>0 DEF Shape
  <2>2. Made'
    BY <1>0, <2>1 DEF Made, DeleteAsked, Requests
  <2>3. Deleted'
    BY <1>0, <2>1 DEF Deleted, Done, Requests
  <2> QED  BY <2>2, <2>3
<1>5. FinishedContainerRuns'
  BY <1>0 DEF FinishedContainerRuns, Shape, Requests
<1> QED  BY <1>1, <1>2, <1>3, <1>4, <1>5, <1>6

\* Steps that read, or write what is not modelled.
LEMMA ReadingSteps ==
  ASSUME InstanceInv, NEW r \in Requests,
         \/ PostDiskState(r) \/ PullImage(r) \/ InspectContainer(r) \/ PatchDiskState(r)
  PROVE  InstanceInv'
<1> USE DEF InstanceInv, At, Goto, Continue, Read, DockerInspect, esxVars, dockerVars
<1>1. UNCHANGED <<task, compute, cloudTask, routine, container, kind>>
  BY DEF PostDiskState, PullImage, InspectContainer, PatchDiskState
<1>2. Moves(r)
  BY SMT DEF PostDiskState, PullImage, InspectContainer, PatchDiskState, Moves, Rests,
     Shape, Locals,
         Labels, LabelsOf
<1>3. pc'[r] \notin {"ok", "deleteCompute"}
  BY DEF PostDiskState, PullImage, InspectContainer, PatchDiskState, Shape
<1>4. kind = "docker" /\ pc'[r] \in {"inspect", "patchDisk", "patchCompute"} =>
        container = "running"
  BY DEF PostDiskState, PullImage, InspectContainer, PatchDiskState, Shape, Labels,
     LabelsOf, Made
<1> QED  BY <1>1, <1>2, <1>3, <1>4, ReadInv DEF Shape

LEMMA LoadStatesInv ==
  ASSUME InstanceInv, NEW r \in Requests, LoadStates(r)
  PROVE  InstanceInv'
<1> USE DEF InstanceInv, At, Goto, Continue, GetComputeState, dockerVars, LoadStates
<1>1. UNCHANGED <<task, compute, cloudTask, container, kind>>
  OBVIOUS
<1>2. Moves(r) /\ pc'[r] \notin {"inspect", "patchDisk", "patchCompute", "ok"}
      /\ (pc'[r] = "deleteCompute" => kind = "mock")
  <2>1. CASE pc'[r] = "err"
    BY SMT, <2>1 DEF Moves, Rests, Shape, Locals, LabelsOf
  <2>2. CASE pc'[r] = First(r)
    <3>1. pc' = [pc EXCEPT ![r] = First(r)] /\ pc[r] = "load"
      BY <2>2 DEF Shape
    <3>2. First(r) \in {"insert", "powerOff", "pull", "removeForced", "deleteCompute"}
          /\ First(r) \in LabelsOf(r) /\ (First(r) = "deleteCompute" => kind = "mock")
      BY <3>1 DEF First, LabelsOf, Labels, Shape
    <3> QED  BY <3>1, <3>2 DEF Moves, Rests, Shape, Locals
  <2> QED  BY <2>1, <2>2 DEF Shape
<1>3. /\ routine' \in [Calls -> {"none", "send", "poll", "ok", "err"}]
      /\ \A d \in Deletes : routine'[<<d, "delete">>] \in {routine[<<d, "delete">>], "send"}
  BY SMT DEF Shape, Calls
<1> QED  BY <1>1, <1>2, <1>3, ReadInv

-----------------------------------------------------------------------------
\* The calls of the esxcloud adapter.
LEMMA CallReturnsInv ==
  ASSUME InstanceInv, NEW r \in Requests, CallReturns(r)
  PROVE  InstanceInv'
<1> USE DEF InstanceInv
<1>0. PICK ok \in BOOLEAN :
        /\ ok => routine[<<r, pc[r]>>] = "ok"
        /\ pc' = [pc EXCEPT ![r] = NextLabel(pc[r], ok)]
        /\ routine' = IF <<r, NextLabel(pc[r], ok)>> \in Calls
                      THEN [routine EXCEPT ![<<r, NextLabel(pc[r], ok)>>] = "send"] ELSE routine
  BY DEF CallReturns, Goto
<1>1. /\ UNCHANGED <<task, compute, cloudTask, container, kind>>
      /\ <<r, pc[r]>> \in Calls
  BY DEF CallReturns, docVars, dockerVars
<1>2. /\ pc[r] \in {"insert", "powerOn", "get"} => r \in Creates
      /\ pc[r] \in {"powerOff", "delete"} => r \in Deletes
      /\ pc[r] \in {"insert", "powerOn", "get", "powerOff", "delete"}
  BY <1>1 DEF Calls
<1>3. kind = "esxcloud"
  BY <1>2, DocumentsAssumption DEF Labels, LabelsOf, Shape
<1>4. /\ NextLabel(pc[r], ok) \in {"err", "powerOn", "get", "postDisk", "delete", "deleteCompute"}
      /\ NextLabel(pc[r], ok) \in LabelsOf(r)
      /\ NextLabel(pc[r], ok) = "deleteCompute" => pc[r] = "delete" /\ ok
  BY <1>2, <1>3, DocumentsAssumption DEF NextLabel, LabelsOf
<1>5. Moves(r)
  BY <1>0, <1>1, <1>2, <1>4 DEF Moves, Shape, Locals, Rests
<1>6. /\ routine' \in [Calls -> {"none", "send", "poll", "ok", "err"}]
      /\ \A d \in Deletes : routine'[<<d, "delete">>] \in {routine[<<d, "delete">>], "send"}
  BY <1>0 DEF Shape, Calls
<1>7. pc'[r] \in {"err", "powerOn", "get", "postDisk", "delete", "deleteCompute"}
      /\ (pc'[r] = "deleteCompute" => routine[<<r, "delete">>] = "ok" /\ r \in Deletes)
  BY <1>0, <1>2, <1>4 DEF Shape
<1>8. CASE pc'[r] # "deleteCompute"
  BY <1>1, <1>3, <1>5, <1>6, <1>7, <1>8, ReadInv
<1>9. CASE pc'[r] = "deleteCompute"
  <2>1. Labels' /\ Turns' /\ Settled'
    BY <1>1, <1>5, <1>9, MovesInv DEF Settled, Moves, Rests
  <2>2. Shape'
    BY <1>1, <1>5, <1>6 DEF Shape, Moves
  <2>3. Made'
    BY ZenonT(30), <1>1, <1>3, <1>5, <1>9 DEF Shape, Made, Moves, DeleteAsked, Requests
  <2>4. Deleted'
    <3>1. \A d \in Deletes : d # r => pc'[d] = pc[d]
      BY <1>5 DEF Moves, Requests
    <3>2. ASSUME NEW d \in Deletes, pc'[d] = "deleteCompute" \/ Done(d)'
          PROVE  cloudTask[<<d, "delete">>] # "none"
      BY <1>1, <1>3, <1>7, <1>9, <3>1, <3>2 DEF Deleted, Done
    <3>3. ASSUME NEW d \in Deletes, Done(d)' PROVE ~compute.exists
      BY <1>1, <1>3, <1>9, <3>1, <3>3 DEF Deleted, Done
    <3> QED  BY <1>1, <1>3, <1>6, <3>2, <3>3 DEF Deleted
  <2>5. FinishedContainerRuns'
    BY <1>1, <1>3 DEF FinishedContainerRuns
  <2> QED  BY <2>1, <2>2, <2>3, <2>4, <2>5
<1> QED  BY <1>8, <1>9

\* The routines and the cloud: a task that was queued is never forgotten.
LEMMA CallStepInv ==
  ASSUME InstanceInv, NEW c \in Calls, CallStep(c) \/ Cloud(c)
  PROVE  InstanceInv'
<1> USE DEF InstanceInv
<1>1. UNCHANGED <<task, compute, container, kind, pc>>
  BY DEF CallStep, Cloud, RoutineStep, SendCall, waitForTask, GetInstance, CloudStep, Elsewhere,
         dockerVars
<1>2. /\ cloudTask' \in [Calls -> {"none", "QUEUED", "STARTED", "COMPLETED", "ERROR"}]
      /\ \A b \in Calls : cloudTask[b] # "none" => cloudTask'[b] # "none"
  BY DEF CallStep, Cloud, RoutineStep, SendCall, waitForTask, GetInstance, CloudStep, Shape,
         CloudUnchanged, Queue
<1>3. /\ routine' \in [Calls -> {"none", "send", "poll", "ok", "err"}]
      /\ \A b \in Calls : b[2] = "delete" /\ routine[b] # "poll" =>
            /\ routine'[b] # "poll"
            /\ routine'[b] = "ok" => routine[b] = "ok" \/ cloudTask'[b] # "none"
  BY SMT DEF CallStep, Cloud, RoutineStep, SendCall, waitForTask, GetInstance, CloudStep, Shape,
         CloudUnchanged, Queue, Becomes
<1>5. Shape'
  BY <1>1, <1>2, <1>3 DEF Shape
<1>6. Labels' /\ Turns' /\ Settled' /\ FinishedContainerRuns'
  BY <1>1 DEF Labels, LabelsOf, Turns, Rests, Settled, FinishedContainerRuns
<1>7. Made'
  BY <1>1, <1>2 DEF Made, DeleteAsked, Calls
<1>8. Deleted'
  BY <1>1, <1>2, <1>3 DEF Deleted, Done, Calls
<1> QED  BY <1>5, <1>6, <1>7, <1>8

-----------------------------------------------------------------------------
\* The commands of the docker adapter.  While a creation runs them no request
\* counts as a success, and every deletion rests.
LEMMA CreationIsAlone ==
  ASSUME InstanceInv, NEW r \in Creates, ~Rests(r)
  PROVE  /\ \A s \in Requests : task[s] # "FINISHED"
         /\ \A s \in Requests \ {r} : Rests(s)
BY DEF InstanceInv, Settled, Turns

LEMMA ContainerInv ==
  ASSUME InstanceInv, NEW r \in Creates, RunContainer(r) \/ RemoveContainer(r)
  PROVE  InstanceInv'
<1> USE DEF InstanceInv, At, Goto, esxVars
<1>1. UNCHANGED <<task, compute, cloudTask, routine, kind>> /\ r \in Requests
  BY DEF RunContainer, RemoveContainer, DockerRun, DockerRemove, Requests
<1>2. Moves(r) /\ pc'[r] \in {"inspect", "remove", "err", "run"}
  BY SMT, <1>1 DEF RunContainer, RemoveContainer, Moves, Rests, Shape, Locals, Labels, LabelsOf
<1>3. kind = "docker"
  BY <1>1 DEF RunContainer, RemoveContainer, Labels, LabelsOf, Shape
<1>4. /\ container' \in {"none", "created", "running"}
      /\ pc'[r] = "inspect" => container' = "running"
  BY <1>1 DEF RunContainer, RemoveContainer, DockerRun, DockerRemove, Ran, Removed, Shape
<1>5. (\A s \in Requests : task[s] # "FINISHED") /\ (\A s \in Requests \ {r} : Rests(s))
  BY <1>2, CreationIsAlone DEF Moves
<1>6. Labels' /\ Turns' /\ Settled'
  BY <1>1, <1>2, <1>5, MovesInv
<1>7. Shape'
  BY <1>1, <1>2, <1>4 DEF Shape, Moves
<1>8. Made'
  BY <1>1, <1>2, <1>4, <1>5 DEF Made, Moves, Rests, Requests
<1>9. Deleted'
  BY <1>1, <1>2, <1>5, DocumentsAssumption DEF Deleted, Done, Moves, Rests, Requests
<1>10. FinishedContainerRuns'
  BY <1>1, <1>5 DEF FinishedContainerRuns, Requests
<1> QED  BY <1>6, <1>7, <1>8, <1>9, <1>10

LEMMA ForceRemoveInv ==
  ASSUME InstanceInv, NEW r \in Deletes, ForceRemoveContainer(r)
  PROVE  InstanceInv'
<1> USE DEF InstanceInv, At, Goto, esxVars, ForceRemoveContainer
<1>1. UNCHANGED <<task, compute, cloudTask, routine, kind>> /\ r \in Requests /\ r \notin Creates
  BY DocumentsAssumption DEF DockerRemoveForced, Requests
<1>2. Moves(r) /\ pc'[r] \in {"deleteCompute", "removeForced", "err"} /\ pc[r] = "removeForced"
  BY SMT, <1>1 DEF Moves, Rests, Shape, Locals, Labels, LabelsOf
<1>3. kind = "docker"
  BY <1>1, <1>2 DEF Labels, LabelsOf, Shape
<1>4. container' \in {container, "none"} /\ (pc'[r] = "deleteCompute" => container' = "none")
  BY <1>1 DEF DockerRemoveForced, Removed, Shape
<1>5. \A c \in Creates : Rests(c) /\ pc'[c] = pc[c]
  BY <1>1, <1>2 DEF Turns, Moves, Requests
<1>6. Labels' /\ Turns' /\ Settled'
  BY <1>1, <1>2, MovesInv DEF Settled
<1>7. Shape'
  BY <1>1, <1>2, <1>4 DEF Shape, Moves
<1>8. Made'
  BY <1>1, <1>3, <1>4, <1>5 DEF Made, Rests
<1>9. Deleted'
  BY ZenonT(30), <1>1, <1>2, <1>3, <1>4 DEF Deleted, Done, Moves, Requests
<1>10. FinishedContainerRuns'
  BY <1>1, <1>2 DEF FinishedContainerRuns
<1> QED  BY <1>6, <1>7, <1>8, <1>9, <1>10

-----------------------------------------------------------------------------
\* The documents.
LEMMA PatchComputeInv ==
  ASSUME InstanceInv, NEW r \in Creates, PatchCompute(r)
  PROVE  InstanceInv'
<1> USE DEF InstanceInv, At, Goto, Continue, esxVars, dockerVars, PatchCompute
<1>1. UNCHANGED <<task, cloudTask, routine, container, kind>> /\ r \in Requests /\ r \notin Deletes
  BY DocumentsAssumption DEF PatchComputeState, Requests
<1>2. Moves(r) /\ pc'[r] \in {"ok", "err"} /\ pc[r] = "patchCompute"
  BY <1>1 DEF Moves, Rests, Shape, Locals, Labels, LabelsOf
<1>3. /\ compute' \in [exists : BOOLEAN, id : Creates \cup {NoId}]
      /\ compute'.exists = compute.exists
      /\ pc'[r] = "ok" => compute' = [exists |-> TRUE, id |-> r]
  <2>1. PICK ok \in BOOLEAN : /\ PatchComputeState(r, ok)
                             /\ pc' = [pc EXCEPT ![r] = IF ok THEN "ok" ELSE "err"]
    OBVIOUS
  <2>2. compute = [exists |-> compute.exists, id |-> compute.id] /\ compute.exists \in BOOLEAN
    BY DEF Shape
  <2>3. compute' \in {compute, [exists |-> compute.exists, id |-> r]}
        /\ (ok => compute.exists /\ compute' = [exists |-> compute.exists, id |-> r])
    BY <2>1, <2>2 DEF PatchComputeState
  <2>4. pc'[r] = "ok" => ok
    BY <1>1, <2>1 DEF Shape
  <2>5. compute.id \in Creates \cup {NoId}
    BY DEF Shape
  <2>6. CASE compute' = compute /\ ~ok
    BY <2>2, <2>4, <2>5, <2>6
  <2>7. CASE compute' = [exists |-> compute.exists, id |-> r]
    <3>1. ok => compute.exists = TRUE
      BY <2>2, <2>3
    <3> QED  BY <2>2, <2>4, <2>7, <3>1
  <2> QED  BY <2>3, <2>6, <2>7
<1>4. (\A s \in Requests : task[s] # "FINISHED") /\ (\A s \in Requests \ {r} : Rests(s))
  BY <1>2, CreationIsAlone DEF Moves
<1>5. Labels' /\ Turns' /\ Settled'
  BY <1>1, <1>2, <1>4, MovesInv
<1>6. Shape'
  BY <1>1, <1>2, <1>3 DEF Shape, Moves
<1>7. Made'
  BY <1>1, <1>2, <1>3, <1>4 DEF Made, Moves, Rests, Requests
<1>8. Deleted'
  <2>1. \A d \in Deletes : d \in Requests /\ pc'[d] \in {"idle", "ended"} /\ ~Done(d)'
    BY <1>1, <1>2, <1>4 DEF Done, Moves, Rests, Requests
  <2> QED  BY <1>1, <2>1 DEF Deleted
<1>9. FinishedContainerRuns'
  BY <1>1, <1>4 DEF FinishedContainerRuns, Requests
<1> QED  BY <1>5, <1>6, <1>7, <1>8, <1>9

LEMMA DeleteComputeInv ==
  ASSUME InstanceInv, NEW r \in Deletes, DeleteCompute(r)
  PROVE  InstanceInv'
<1> USE DEF InstanceInv, At, Goto, Continue, esxVars, dockerVars, DeleteCompute
<1>1. UNCHANGED <<task, cloudTask, routine, container, kind>> /\ r \in Requests /\ r \notin Creates
  BY DocumentsAssumption DEF DeleteComputeState, Requests
<1>2. Moves(r) /\ pc'[r] \in {"ok", "err"} /\ pc[r] = "deleteCompute"
  BY SMT, <1>1 DEF Moves, Rests, Shape, Locals, Labels, LabelsOf
<1>3. /\ compute' \in [exists : BOOLEAN, id : Creates \cup {NoId}]
      /\ compute'.exists => compute.exists
      /\ pc'[r] = "ok" /\ kind # "mock" => ~compute'.exists
  BY <1>1 DEF Shape, DeleteComputeState
<1>4. \A c \in Creates : Rests(c) /\ pc'[c] = pc[c]
  BY <1>1, <1>2 DEF Turns, Moves, Requests
<1>5. Labels' /\ Turns' /\ Settled'
  BY <1>1, <1>2, MovesInv DEF Settled
<1>6. Shape'
  BY <1>1, <1>2, <1>3 DEF Shape, Moves
<1>7. Made'
  BY ZenonT(30), <1>1, <1>2, <1>4 DEF Made, Deleted, DeleteAsked, Rests
<1>8. Deleted'
  <2>1. \A d \in Deletes : d # r => pc'[d] = pc[d]
    BY <1>2 DEF Moves, Requests
  <2>2. \A d \in Deletes : Done(d)' /\ kind # "mock" => ~compute'.exists
    BY <1>1, <1>2, <1>3, <2>1 DEF Deleted, Done
  <2>3. \A d \in Deletes :
          pc'[d] = "deleteCompute" \/ Done(d)' => pc[d] = "deleteCompute" \/ Done(d)
    BY <1>1, <1>2, <2>1 DEF Done
  <2> QED  BY <1>1, <2>2, <2>3 DEF Deleted
<1>9. FinishedContainerRuns'
  BY <1>1, <1>2 DEF FinishedContainerRuns
<1> QED  BY <1>5, <1>6, <1>7, <1>8, <1>9

\* The stages of the tasks.
LEMMA PatchStageFacts ==
  ASSUME Shape, NEW r \in Requests, NEW stage \in Stages, PatchStage(r, stage)
  PROVE  /\ task' \in [Requests -> Stages] /\ compute' = compute
         /\ \A s \in Requests \ {r} : task'[s] = task[s]
         /\ task'[r] \in {task[r], stage}
BY DEF Shape, PatchStage

LEMMA PatchStartedInv ==
  ASSUME InstanceInv, NEW r \in Requests, PatchStarted(r)
  PROVE  InstanceInv'
<1> USE DEF InstanceInv, At, Goto, esxVars, dockerVars, PatchStarted
<1>1. /\ UNCHANGED <<compute, cloudTask, routine, container, kind>>
      /\ task' \in [Requests -> Stages]
      /\ \A s \in Requests \ {r} : task'[s] = task[s]
      /\ task'[r] \in {task[r], "STARTED"}
  BY PatchStageFacts DEF Stages
<1>2. /\ Moves(r) /\ pc[r] = "start" /\ pc'[r] \in {"ok", "load"}
      /\ pc'[r] = "ok" => kind = "mock"
  BY <1>1 DEF Moves, Rests, Shape, Locals, Labels, LabelsOf, Requests
<1>3. task'[r] # "FINISHED"
  BY <1>1, <1>2 DEF Settled
<1>4. Labels' /\ Turns' /\ Settled'
  BY <1>1, <1>2, <1>3, MovesInv
<1>5. Shape'
  BY <1>1, <1>2 DEF Shape, Moves
<1>6. Made'
  BY SMT, <1>1, <1>2, <1>3 DEF Made, DeleteAsked, Moves, Requests
<1>7. Deleted'
  BY <1>1, <1>2, <1>3 DEF Deleted, Done, Moves, Requests
<1>8. FinishedContainerRuns'
  BY SMT, <1>1, <1>2, <1>3 DEF FinishedContainerRuns, Moves, Requests
<1> QED  BY <1>4, <1>5, <1>6, <1>7, <1>8

LEMMA PatchOutcomeInv ==
  ASSUME InstanceInv, NEW r \in Requests, PatchOutcome(r)
  PROVE  InstanceInv'
<1> USE DEF InstanceInv, At, Goto, esxVars, dockerVars, PatchOutcome
<1>0. pc[r] \in {"ok", "err"} /\ pc' = [pc EXCEPT ![r] = "ended"]
  OBVIOUS
<1>1. /\ UNCHANGED <<compute, cloudTask, routine, container, kind>>
      /\ task' \in [Requests -> Stages]
      /\ \A s \in Requests \ {r} : task'[s] = task[s]
      /\ task'[r] = "FINISHED" => pc[r] = "ok" \/ task[r] = "FINISHED"
  BY <1>0, PatchStageFacts DEF Stages
<1>2. Moves(r) /\ pc'[r] = "ended"
  BY <1>0, <1>1 DEF Moves, Rests, Shape, Locals, LabelsOf
<1>3. task'[r] = "FINISHED" => pc[r] = "ok"
  BY <1>0, <1>1 DEF Settled
<1>4. Labels' /\ Turns' /\ Settled'
  BY <1>1, <1>2, MovesInv
<1>5. Shape'
  BY <1>1, <1>2 DEF Shape, Moves
<1>6. Made'
  BY <1>1, <1>2, <1>3 DEF Made, DeleteAsked, Moves, Requests
<1>7. Deleted'
  BY ZenonT(30), <1>1, <1>2, <1>3 DEF Deleted, Done, Moves, Requests
<1>8. FinishedContainerRuns'
  BY <1>1, <1>2, <1>3 DEF FinishedContainerRuns, Made, Moves, Rests, Requests
<1> QED  BY <1>4, <1>5, <1>6, <1>7, <1>8

-----------------------------------------------------------------------------
LEMMA InstanceNext ==
  ASSUME InstanceInv, [Next]_vars
  PROVE  InstanceInv'
<1>1. ASSUME NEW r \in Requests, RunContainer(r) \/ RemoveContainer(r) \/ PatchCompute(r)
      PROVE  r \in Creates
  BY <1>1 DEF InstanceInv, Labels, LabelsOf, RunContainer, RemoveContainer, PatchCompute, At
<1>2. ASSUME NEW r \in Requests, ForceRemoveContainer(r) \/ DeleteCompute(r) PROVE r \in Deletes
  BY <1>2 DEF InstanceInv, Labels, LabelsOf, ForceRemoveContainer, DeleteCompute, At, Requests
<1>3. ASSUME NEW r \in Requests, HandlerStep(r) PROVE InstanceInv'
  BY <1>1, <1>2, <1>3, PatchStartedInv, LoadStatesInv, CallReturnsInv, ReadingSteps,
     ContainerInv,
     ForceRemoveInv, PatchComputeInv, DeleteComputeInv, PatchOutcomeInv DEF HandlerStep
<1>4. ASSUME UNCHANGED <<task, compute, cloudTask, routine, container, kind, pc>> PROVE InstanceInv'
  BY SMT, <1>4 DEF InstanceInv, Shape, Labels, LabelsOf, Turns, Rests, Settled, Made,
     DeleteAsked,
     Deleted, Done, FinishedContainerRuns
<1>5. ASSUME NEW r \in Requests, ContextDone(r) PROVE InstanceInv'
  BY <1>4, <1>5 DEF ContextDone, InstanceTimeout, Elsewhere, docVars, dockerVars
<1>6. CASE UNCHANGED vars
  BY <1>4, <1>6 DEF vars, docVars, esxVars, dockerVars
<1> QED  BY <1>3, <1>5, <1>6, HandlePatchInv, CallStepInv DEF Next

LEMMA InstanceInvariant == Spec => []InstanceInv
<1>1. InstanceInv /\ [Next]_vars => InstanceInv'
  BY InstanceNext
<1> QED  BY <1>1, InstanceInit, PTL DEF Spec

\* No instance is forgotten while its creation counts as a success (create and
\* delete of both adapters), for any number of requests and failures.
THEOREM InstancesAreRecorded == Spec => []FinishedIsRecorded
<1>1. InstanceInv => FinishedIsRecorded
  BY InvImplies
<1> QED  BY <1>1, InstanceInvariant, PTL

\* When a deletion counts as a success, the compute state is gone and its
\* instance too, or on its way (DeleteInstance, DeleteComputeState).
THEOREM DeletionsAreHonest == Spec => []FinishedDeletion
<1>1. InstanceInv => FinishedDeletion
  BY InvImplies
<1> QED  BY <1>1, InstanceInvariant, PTL

\* A container whose creation counts as a success runs (CreateInstance of the
\* docker adapter), however often docker run was repeated.
THEOREM ContainersRun == Spec => []FinishedContainerRuns
<1>1. InstanceInv => FinishedContainerRuns
  BY DEF InstanceInv
<1> QED  BY <1>1, InstanceInvariant, PTL

=============================================================================
