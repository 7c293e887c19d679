-------------------------- MODULE EsxcloudInstance --------------------------
(***************************************************************************)
(* How the instance service of dcp/provisioning/esxcloud creates and       *)
(* deletes a VM through the cloud's API.  Every call of the API runs in a  *)
(* routine of its own; who waits for it stops waiting when the context of  *)
(* the request is done, and the routine goes on.                           *)
(*                                                                         *)
(* The cloud carries out a call as a task.  A routine that polls the task  *)
(* ends when the task is anything but STARTED, or cannot be read, and      *)
(* takes all of this for success.                                          *)
(***************************************************************************)
EXTENDS ComputeDocuments

VARIABLES
    vm,             \* the VM of each request to create one, at the cloud
    cloudTask,      \* the task of each call, at the cloud
    routine,        \* the routine of each call
    vmId,           \* Instance.esxcloudVMID, for each request
    timedOut,       \* requests whose context is done
    crashed         \* a routine panicked, and the process with it

esxVars == <<vm, cloudTask, routine, vmId, timedOut, crashed>>

Calls == (Creates \X {"insert", "powerOn", "get"}) \cup (Deletes \X {"powerOff", "delete"})

\* What the cloud wants of a VM to accept a call, what the VM is meanwhile,
\* and what it becomes.  (External.)
Before == [insert |-> {"none"}, powerOn |-> {"off"}, powerOff |-> {"on"},
           delete |-> {"off", "error"}]
Meanwhile == [insert |-> "creating", powerOn |-> "starting", powerOff |-> "stopping",
              delete |-> "deleting"]
After == [insert |-> "off", powerOn |-> "on", powerOff |-> "off", delete |-> "gone"]
AfterError == [insert |-> "error", powerOn |-> "off", powerOff |-> "on", delete |-> "off"]

EsxTypeOK ==
    /\ vm \in [Creates -> {"none", "creating", "off", "starting", "on", "stopping",
                           "deleting", "gone", "error"}]
    /\ cloudTask \in [Calls -> {"none", "QUEUED", "STARTED", "COMPLETED", "ERROR"}]
    /\ routine \in [Calls -> {"none", "send", "poll", "ok", "err"}]
    /\ vmId \in [Requests -> Creates \cup {NoId}]
    /\ timedOut \subseteq Requests
    /\ crashed \in BOOLEAN

EsxInit ==
    /\ vm = [r \in Creates |-> "none"]
    /\ cloudTask = [c \in Calls |-> "none"]
    /\ routine = [c \in Calls |-> "none"]
    /\ vmId = [r \in Requests |-> NoId]
    /\ timedOut = {}
    /\ crashed = FALSE

-----------------------------------------------------------------------------
\* The VM a call is about: the one it makes, or the one its request names.
Target(c) == IF c[2] = "insert" THEN c[1] ELSE vmId[c[1]]

Accepts(c) == Target(c) # NoId /\ vm[Target(c)] \in Before[c[2]]

\* The cloud accepts a call and queues its task.
Queue(c) ==
    /\ Accepts(c)
    /\ vm' = [vm EXCEPT ![Target(c)] = Meanwhile[c[2]]]
    /\ cloudTask' = [cloudTask EXCEPT ![c] = "QUEUED"]

CloudUnchanged == UNCHANGED <<vm, cloudTask>>
Becomes(c, state) == routine' = [routine EXCEPT ![c] = state]

\* The call is sent.  When the cloud refuses a power operation, its routine
\* looks for the id of a task before it looks at the status, and panics
\* unless the answer cannot be parsed.
SendCall(c) ==
    /\ routine[c] = "send" /\ c[2] # "get"
    /\ \/ /\ Queue(c) /\ Becomes(c, IF c[2] = "delete" THEN "ok" ELSE "poll")
          /\ UNCHANGED <<faults, crashed>>
       \/ /\ ~Accepts(c) /\ CloudUnchanged /\ Becomes(c, "err")
          /\ UNCHANGED <<faults, crashed>>
       \/ /\ ~Accepts(c) /\ c[2] \in {"powerOn", "powerOff"} /\ CloudUnchanged
          /\ crashed' = TRUE
          /\ UNCHANGED <<routine, faults>>
       \/ /\ Fault /\ (Queue(c) \/ CloudUnchanged) /\ Becomes(c, "err")
          /\ UNCHANGED crashed
    /\ UNCHANGED <<task, compute, vmId, timedOut>>

\* waitForTask.  An insert then attaches its ISO files, which may fail.
waitForTask(c) ==
    /\ routine[c] = "poll"
    /\ \/ cloudTask[c] # "STARTED" /\ Becomes(c, "ok") /\ UNCHANGED faults
       \/ Fault /\ Becomes(c, "ok")
       \/ Fault /\ cloudTask[c] # "STARTED" /\ c[2] = "insert" /\ Becomes(c, "err")
    /\ UNCHANGED <<task, compute, vm, cloudTask, vmId, timedOut, crashed>>

\* GetInstance panics when the VM cannot be read, and returns an error when
\* its network cannot.
GetInstance(c) ==
    /\ routine[c] = "send" /\ c[2] = "get"
    /\ \/ Becomes(c, "ok") /\ UNCHANGED <<faults, crashed>>
       \/ Fault /\ Becomes(c, "err") /\ UNCHANGED crashed
       \/ Fault /\ crashed' = TRUE /\ UNCHANGED routine
    /\ UNCHANGED <<task, compute, vm, cloudTask, vmId, timedOut>>

RoutineStep(c) == ~crashed /\ (SendCall(c) \/ waitForTask(c) \/ GetInstance(c))

-----------------------------------------------------------------------------
\* The cloud runs its tasks.  (External.)
CloudStep(c) ==
    /\ \/ /\ cloudTask[c] = "QUEUED"
          /\ cloudTask' = [cloudTask EXCEPT ![c] = "STARTED"]
          /\ UNCHANGED <<vm, faults>>
       \/ /\ cloudTask[c] = "STARTED"
          /\ cloudTask' = [cloudTask EXCEPT ![c] = "COMPLETED"]
          /\ vm' = [vm EXCEPT ![Target(c)] = After[c[2]]]
          /\ UNCHANGED faults
       \/ /\ cloudTask[c] = "STARTED" /\ Fault
          /\ cloudTask' = [cloudTask EXCEPT ![c] = "ERROR"]
          /\ vm' = [vm EXCEPT ![Target(c)] = AfterError[c[2]]]
    /\ UNCHANGED <<task, compute, routine, vmId, timedOut, crashed>>

\* The context of a request is done after InstanceTimeout.
InstanceTimeout(r) ==
    /\ ~crashed /\ r \notin timedOut
    /\ timedOut' = timedOut \cup {r}
    /\ UNCHANGED <<docVars, vm, cloudTask, routine, vmId, crashed>>

=============================================================================
