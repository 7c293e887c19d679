----------------------------- MODULE TaskEngine -----------------------------
(***************************************************************************)
(* How the API front end runs the tasks users ask for.                     *)
(*                                                                         *)
(* A request creates a task document (TaskDcpBackend) and submits a        *)
(* TaskCommand to a bounded thread pool.  The command marks the task       *)
(* STARTED, takes the lock of each entity it works on, runs the task's     *)
(* steps, releases the locks, and marks the task COMPLETED or ERROR        *)
(* (BaseCommand.run, TaskCommand, StepCommand, EntityLockDcpBackend).  The *)
(* tasks of Resubmitted (attach ISO, upload image, create image from VM)   *)
(* take two commands for one task: the request thread itself runs the      *)
(* first, with the last step disabled, and the pool runs the second.       *)
(*                                                                         *)
(* Every cloud store call is a step, so tasks of one or of several API     *)
(* front end nodes interleave between calls.  A call may fail and a node   *)
(* may crash, MaxFaults times in all.                                      *)
(***************************************************************************)
EXTENDS EntityLocks, Sequences, FiniteSets

CONSTANTS
    ToBeLocked,     \* ToBeLocked[t]: the entities t locks, in order
    Resubmitted,    \* the tasks that take two commands
    Nodes,          \* the API front end processes
    HomeOf,         \* HomeOf[t]: the process that serves t's request
    Workers,        \* threads of a process's pool
    QueueSize       \* commands that may wait for a thread

ASSUME EngineAssumption ==
    /\ ToBeLocked \in [Tasks -> Seq(Entities)]
    /\ Resubmitted \subseteq Tasks
    /\ HomeOf \in [Tasks -> Nodes]
    /\ Workers \in Nat \ {0}
    /\ QueueSize \in Nat \ {0}

VARIABLES
    pc,          \* pc[t]: where the command of t is
    cmd,         \* cmd[t]: is it the first or the second command of t
    idx,         \* idx[t]: the next of ToBeLocked[t] to lock
    cur,         \* cur[t]: the step at hand
    memStep,     \* memStep[t]: the states of t's StepEntity objects
    locked,      \* locked[t]: TaskEntity.lockedEntityIds, yet to be cleared
    failed,      \* failed[t]: those clearTaskLocks could not clear
    threw,       \* threw[t]: did markAsFailed itself throw
    threads,     \* threads[n]: the threads n's pool has started
    workQueue    \* workQueue[n]: the tasks waiting for a thread of n

execVars == <<cmd, idx, cur, memStep, locked, failed, threw>>

poolVars == <<threads, workQueue>>

vars == <<faults, docVars, lockVars, pc, execVars, poolVars>>

-----------------------------------------------------------------------------
\* Inside execute, with all locks taken.
Executing == {"step", "work", "stepDone", "stepFail"}

\* Inside clearTaskLocks, called by markAsDone, markAsFailed and cleanup.
Clearing == {"doneClear", "failClear", "cleanup"}

Running == {"run", "lock", "markDone", "markFailed"} \cup Executing \cup Clearing

\* No thread will touch the task again.
Over == {"ended", "returned", "rejected", "dead"}

Labels == {"none", "submit", "queued", "synced"} \cup Running \cup Over

\* The request thread runs the command itself.
Synchronous(t) == t \in Resubmitted /\ cmd[t] = 1

\* StepEntity.isDisabled
Disabled(t, s) == Synchronous(t) /\ s = NumSteps[t]

OnWorker(n) ==
    {t \in Tasks : HomeOf[t] = n /\ pc[t] \in Running /\ ~Synchronous(t)}

Goto(t, l) == pc' = [pc EXCEPT ![t] = l]

Init ==
    /\ faults = 0
    /\ docState = [t \in Tasks |-> "NONE"]
    /\ docStep = [t \in Tasks |-> [s \in StepsOf(t) |-> "QUEUED"]]
    /\ latePatch = {}
    /\ lock = [e \in Entities |-> NoLock]
    /\ lateLock = {}
    /\ pc = [t \in Tasks |-> "none"]
    /\ cmd = [t \in Tasks |-> 1]
    /\ idx = [t \in Tasks |-> 1]
    /\ cur = [t \in Tasks |-> 1]
    /\ memStep = [t \in Tasks |-> [s \in StepsOf(t) |-> "QUEUED"]]
    /\ locked = [t \in Tasks |-> <<>>]
    /\ failed = [t \in Tasks |-> <<>>]
    /\ threw = [t \in Tasks |-> FALSE]
    /\ threads = [n \in Nodes |-> 0]
    /\ workQueue = [n \in Nodes |-> <<>>]

-----------------------------------------------------------------------------
(* The request: create the document, then submit or run the command.        *)

CreateTask(t) ==
    /\ pc[t] = "none"
    /\ CreateDocument(t)
    /\ Answered
    /\ Goto(t, IF Synchronous(t) THEN "run" ELSE "submit")
    /\ UNCHANGED <<lockVars, execVars, poolVars>>

\* The request fails; the document may have been created all the same.
CreateTaskFails(t) ==
    /\ pc[t] = "none"
    /\ Fault
    /\ CreateDocument(t) \/ UNCHANGED docVars
    /\ Goto(t, "returned")
    /\ UNCHANGED <<lockVars, execVars, poolVars>>

\* Variant: one thread too many.
SubmitOffByOne(t) ==
    LET n == HomeOf[t] IN
    /\ pc[t] = "submit"
    /\ threads[n] <= Workers
    /\ threads' = [threads EXCEPT ![n] = @ + 1]
    /\ Goto(t, "run")
    /\ UNCHANGED <<faults, docVars, lockVars, execVars, workQueue>>

\* ThreadPoolExecutor.execute with as many core as maximum threads.
SubmitToNewThread(t) ==
    LET n == HomeOf[t] IN
    /\ pc[t] = "submit"
    /\ threads[n] < Workers
    /\ threads' = [threads EXCEPT ![n] = @ + 1]
    /\ Goto(t, "run")
    /\ UNCHANGED <<faults, docVars, lockVars, execVars, workQueue>>

SubmitToQueue(t) ==
    LET n == HomeOf[t] IN
    /\ pc[t] = "submit"
    /\ threads[n] = Workers
    /\ Len(workQueue[n]) < QueueSize
    /\ workQueue' = [workQueue EXCEPT ![n] = Append(@, t)]
    /\ Goto(t, "queued")
    /\ UNCHANGED <<faults, docVars, lockVars, execVars, threads>>

\* AbortPolicy.  The clients hold the pool as an ExecutorService, so the
\* call is submit(Runnable), not the overload that would fail the task.
SubmitRejected(t) ==
    LET n == HomeOf[t] IN
    /\ pc[t] = "submit"
    /\ threads[n] = Workers
    /\ Len(workQueue[n]) = QueueSize
    /\ Goto(t, "rejected")
    /\ UNCHANGED <<faults, docVars, lockVars, execVars, poolVars>>

WorkerTake(n) ==
    /\ workQueue[n] # <<>>
    /\ Cardinality(OnWorker(n)) < threads[n]
    /\ workQueue' = [workQueue EXCEPT ![n] = Tail(@)]
    /\ Goto(Head(workQueue[n]), "run")
    /\ UNCHANGED <<faults, docVars, lockVars, execVars, threads>>

-----------------------------------------------------------------------------
(* TaskCommand.markAsStarted                                                *)

NextLock(t, i) ==
    /\ idx' = [idx EXCEPT ![t] = i]
    /\ Goto(t, IF i > Len(ToBeLocked[t]) THEN "step" ELSE "lock")

MarkTaskAsStarted(t) ==
    /\ pc[t] = "run"
    /\ PatchApplied(TaskPatch(t, "STARTED"))
    /\ NextLock(t, 1)
    /\ UNCHANGED <<lockVars, cmd, cur, memStep, locked, failed, threw, poolVars>>

MarkTaskAsStartedFails(t) ==
    /\ pc[t] = "run"
    /\ \/ PatchNotFound(TaskPatch(t, "STARTED"))
       \/ PatchFails(TaskPatch(t, "STARTED"))
    /\ Goto(t, "failClear")
    /\ UNCHANGED <<lockVars, execVars, poolVars>>

\* setTaskLock: the entity joins lockedEntityIds only once the store answered.
SetTaskLock(t) ==
    LET e == ToBeLocked[t][idx[t]] IN
    /\ pc[t] = "lock"
    /\ PostAccepted(Acquire(t, e))
    /\ locked' = [locked EXCEPT ![t] = Append(@, e)]
    /\ NextLock(t, idx[t] + 1)
    /\ UNCHANGED <<docVars, cmd, cur, memStep, failed, threw, poolVars>>

SetTaskLockFails(t) ==
    LET e == ToBeLocked[t][idx[t]] IN
    /\ pc[t] = "lock"
    /\ PostRejected(Acquire(t, e)) \/ PostFails(Acquire(t, e))
    /\ Goto(t, "failClear")
    /\ UNCHANGED <<docVars, execVars, poolVars>>

-----------------------------------------------------------------------------
(* TaskCommand.execute and StepCommand.run.  The StepEntity changes before  *)
(* the patch that records the change is sent.                               *)

SetMemStep(t, st) == memStep' = [memStep EXCEPT ![t][cur[t]] = st]

SkipStep(t) ==
    /\ pc[t] = "step"
    /\ cur[t] \in StepsOf(t)
    /\ memStep[t][cur[t]] # "QUEUED" \/ Disabled(t, cur[t])
    /\ cur' = [cur EXCEPT ![t] = @ + 1]
    /\ UNCHANGED <<faults, docVars, lockVars, pc, cmd, idx, memStep, locked,
                   failed, threw, poolVars>>

MarkStepAsStarted(t) ==
    LET p == StepPatch(t, cur[t], "STARTED") IN
    /\ pc[t] = "step"
    /\ cur[t] \in StepsOf(t)
    /\ memStep[t][cur[t]] = "QUEUED" /\ ~Disabled(t, cur[t])
    /\ SetMemStep(t, "STARTED")
    /\ \/ PatchApplied(p) /\ Goto(t, "work")
       \/ (PatchNotFound(p) \/ PatchFails(p)) /\ Goto(t, "stepFail")
    /\ UNCHANGED <<lockVars, cmd, idx, cur, locked, failed, threw, poolVars>>

\* StepCommand.execute: the work itself returns or throws.
StepWork(t) ==
    /\ pc[t] = "work"
    /\ Goto(t, "stepDone") \/ Goto(t, "stepFail")
    /\ UNCHANGED <<faults, docVars, lockVars, execVars, poolVars>>

MarkStepAsDone(t) ==
    LET p == StepPatch(t, cur[t], "COMPLETED") IN
    /\ pc[t] = "stepDone"
    /\ SetMemStep(t, "COMPLETED")
    /\ \/ /\ PatchApplied(p)
          /\ Goto(t, "step")
          /\ cur' = [cur EXCEPT ![t] = @ + 1]
       \/ /\ PatchNotFound(p) \/ PatchFails(p)
          /\ Goto(t, "stepFail")
          /\ UNCHANGED cur
    /\ UNCHANGED <<lockVars, cmd, idx, locked, failed, threw, poolVars>>

\* Whether or not the patch succeeds, execute throws.
MarkStepAsFailed(t) ==
    LET p == StepPatch(t, cur[t], "ERROR") IN
    /\ pc[t] = "stepFail"
    /\ SetMemStep(t, "ERROR")
    /\ PatchApplied(p) \/ PatchNotFound(p) \/ PatchFails(p)
    /\ Goto(t, "failClear")
    /\ UNCHANGED <<lockVars, cmd, idx, cur, locked, failed, threw, poolVars>>

ExecuteReturns(t) ==
    /\ pc[t] = "step"
    /\ cur[t] \notin StepsOf(t)
    /\ Goto(t, "doneClear")
    /\ UNCHANGED <<faults, docVars, lockVars, execVars, poolVars>>

-----------------------------------------------------------------------------
(* EntityLockDcpBackend.clearTaskLocks                                      *)

ClearTaskLock(t) ==
    LET r == Release(t, Head(locked[t])) IN
    /\ pc[t] \in Clearing
    /\ locked[t] # <<>>
    /\ locked' = [locked EXCEPT ![t] = Tail(@)]
    /\ \/ PostAccepted(r) /\ UNCHANGED failed
       \/ /\ PostRejected(r) \/ PostFails(r)
          /\ failed' = [failed EXCEPT ![t] = Append(@, r.entityId)]
    /\ UNCHANGED <<docVars, pc, cmd, idx, cur, memStep, threw, poolVars>>

\* Variant: markAsDone does not look at the steps.
AfterClearUnchecked(t) ==
    CASE pc[t] = "doneClear" -> "markDone"
      [] pc[t] = "failClear" -> "markFailed"
      [] pc[t] = "cleanup" -> IF Synchronous(t) THEN "synced" ELSE "ended"

\* markAsDone marks nothing when a step was skipped.
AfterClear(t) ==
    CASE pc[t] = "doneClear" ->
            IF \A s \in StepsOf(t) : memStep[t][s] = "COMPLETED"
            THEN "markDone" ELSE "cleanup"
      [] pc[t] = "failClear" -> "markFailed"
      [] pc[t] = "cleanup" -> IF Synchronous(t) THEN "synced" ELSE "ended"

\* Variant: what could not be cleared is forgotten.
ClearForgetsFailures(t) ==
    /\ pc[t] \in Clearing
    /\ locked[t] = <<>>
    /\ failed' = [failed EXCEPT ![t] = <<>>]
    /\ Goto(t, AfterClear(t))
    /\ UNCHANGED <<faults, docVars, lockVars, cmd, idx, cur, memStep, locked,
                   threw, poolVars>>

ClearTaskLocksReturns(t) ==
    /\ pc[t] \in Clearing
    /\ locked[t] = <<>>
    /\ locked' = [locked EXCEPT ![t] = failed[t]]
    /\ failed' = [failed EXCEPT ![t] = <<>>]
    /\ Goto(t, AfterClear(t))
    /\ UNCHANGED <<faults, docVars, lockVars, cmd, idx, cur, memStep, threw,
                   poolVars>>

-----------------------------------------------------------------------------
(* TaskCommand.markAsDone and markAsFailed, after their clearTaskLocks      *)

\* Variant: a completion that could not be recorded is ignored.
DoneFailureIgnored(t) ==
    LET p == TaskPatch(t, "COMPLETED") IN
    /\ pc[t] = "markDone"
    /\ PatchApplied(p) \/ PatchNotFound(p) \/ PatchFails(p)
    /\ Goto(t, "cleanup")
    /\ UNCHANGED <<lockVars, execVars, poolVars>>

MarkTaskAsDone(t) ==
    LET p == TaskPatch(t, "COMPLETED") IN
    /\ pc[t] = "markDone"
    /\ \/ PatchApplied(p) /\ Goto(t, "cleanup")
       \/ (PatchNotFound(p) \/ PatchFails(p)) /\ Goto(t, "failClear")
    /\ UNCHANGED <<lockVars, execVars, poolVars>>

\* Variant: the command is run again when its failure could not be recorded.
FailureRunsAgain(t) ==
    LET p == TaskPatch(t, "ERROR") IN
    /\ pc[t] = "markFailed"
    /\ \/ (PatchApplied(p) \/ PatchNotFound(p)) /\ Goto(t, "cleanup")
       \/ PatchFails(p) /\ Goto(t, "run")
    /\ UNCHANGED <<lockVars, execVars, poolVars>>

\* Only a TaskNotFoundException is caught: another one leaves run().
MarkTaskAsFailed(t) ==
    LET p == TaskPatch(t, "ERROR") IN
    /\ pc[t] = "markFailed"
    /\ \/ (PatchApplied(p) \/ PatchNotFound(p)) /\ UNCHANGED threw
       \/ PatchFails(p) /\ threw' = [threw EXCEPT ![t] = TRUE]
    /\ Goto(t, "cleanup")
    /\ UNCHANGED <<lockVars, cmd, idx, cur, memStep, locked, failed, poolVars>>

\* Variant: the second command is submitted whatever came of the first.
ResubmitUnchecked(t) ==
    /\ pc[t] = "synced"
    /\ ~threw[t]
    /\ cmd' = [cmd EXCEPT ![t] = 2]
    /\ cur' = [cur EXCEPT ![t] = 1]
    /\ Goto(t, "submit")
    /\ UNCHANGED <<faults, docVars, lockVars, idx, memStep, locked, failed,
                   threw, poolVars>>

\* attachIso after command.run(): go on only if the document says STARTED.
ResubmitCommand(t) ==
    /\ pc[t] = "synced"
    /\ ~threw[t] /\ docState[t] = "STARTED"
    /\ cmd' = [cmd EXCEPT ![t] = 2]
    /\ cur' = [cur EXCEPT ![t] = 1]
    /\ Goto(t, "submit")
    /\ UNCHANGED <<faults, docVars, lockVars, idx, memStep, locked, failed,
                   threw, poolVars>>

\* run() threw, the document is in another state or gone, or reading it fails.
ReturnAfterSync(t) ==
    /\ pc[t] = "synced"
    /\ \/ (threw[t] \/ docState[t] # "STARTED") /\ Answered
       \/ Fault
    /\ Goto(t, "returned")
    /\ UNCHANGED <<docVars, lockVars, execVars, poolVars>>

-----------------------------------------------------------------------------
(* A process dies with its threads and its queue, and is started again.     *)
Crash(n) ==
    /\ Fault
    /\ pc' = [t \in Tasks |->
                IF HomeOf[t] = n /\ pc[t] \notin Over \cup {"none"}
                THEN "dead" ELSE pc[t]]
    /\ threads' = [threads EXCEPT ![n] = 0]
    /\ workQueue' = [workQueue EXCEPT ![n] = <<>>]
    /\ UNCHANGED <<docVars, lockVars, execVars>>

\* The steps the thread in charge of t takes.
CommandStep(t) ==
    \/ SubmitToNewThread(t) \/ SubmitToQueue(t) \/ SubmitRejected(t)
    \/ MarkTaskAsStarted(t) \/ MarkTaskAsStartedFails(t)
    \/ SetTaskLock(t) \/ SetTaskLockFails(t)
    \/ SkipStep(t) \/ MarkStepAsStarted(t) \/ StepWork(t)
    \/ MarkStepAsDone(t) \/ MarkStepAsFailed(t) \/ ExecuteReturns(t)
    \/ ClearTaskLock(t) \/ ClearTaskLocksReturns(t)
    \/ MarkTaskAsDone(t) \/ MarkTaskAsFailed(t)
    \/ ResubmitCommand(t) \/ ReturnAfterSync(t)

\* What outlives its sender arrives.
Deliver ==
    \/ /\ \E r \in lateLock : DeliverLateLock(r)
       /\ UNCHANGED <<docVars, pc, execVars, poolVars>>
    \/ /\ \E p \in latePatch : DeliverLatePatch(p)
       /\ UNCHANGED <<lockVars, pc, execVars, poolVars>>

\* Nothing is left to do in the bounded system.
Quiescent ==
    /\ \A t \in Tasks : pc[t] \in Over
    /\ lateLock = {} /\ latePatch = {}

Terminated == Quiescent /\ UNCHANGED vars

Next ==
    \/ \E t \in Tasks : CreateTask(t) \/ CreateTaskFails(t) \/ CommandStep(t)
    \/ \E n \in Nodes : WorkerTake(n) \/ Crash(n)
    \/ Deliver
    \/ Terminated

Spec == Init /\ [][Next]_vars

\* Threads are scheduled, calls return within the client's timeout, and the
\* work of a step ends.
Fairness ==
    /\ \A t \in Tasks : WF_vars(CommandStep(t))
    /\ \A n \in Nodes : WF_vars(WorkerTake(n))

FairSpec == Spec /\ Fairness

-----------------------------------------------------------------------------
TypeOK ==
    /\ faults \in 0 .. MaxFaults
    /\ docState \in [Tasks -> TaskState \cup {"NONE"}]
    /\ DOMAIN docStep = Tasks /\ DOMAIN memStep = Tasks
    /\ \A t \in Tasks : /\ docStep[t] \in [StepsOf(t) -> StepState]
                         /\ memStep[t] \in [StepsOf(t) -> StepState]
    /\ latePatch \subseteq Patches
    /\ lock \in [Entities -> LockDoc \cup {NoLock}]
    /\ lateLock \subseteq LockRequests
    /\ pc \in [Tasks -> Labels]
    /\ cmd \in [Tasks -> {1, 2}]
    /\ idx \in [Tasks -> Nat \ {0}]
    /\ cur \in [Tasks -> Nat \ {0}]
    /\ locked \in [Tasks -> Seq(Entities)]
    /\ failed \in [Tasks -> Seq(Entities)]
    /\ threw \in [Tasks -> BOOLEAN]
    /\ threads \in [Nodes -> 0 .. Workers]
    /\ workQueue \in [Nodes -> Seq(Tasks)]

Locks(t) == {ToBeLocked[t][i] : i \in 1 .. Len(ToBeLocked[t])}

\* While a task's steps run (TaskCommand.execute), no other task runs steps
\* that work on one of the entities it locks, whichever node runs it and
\* whichever calls to the cloud store fail.
MutualExclusion ==
    \A t, u \in Tasks :
        t # u /\ pc[t] \in Executing /\ pc[u] \in Executing
            => Locks(t) \cap Locks(u) = {}

\* The locks markAsStarted has taken so far, as indices in ToBeLocked[t].
Acquired(t) ==
    {i \in 1 .. Len(ToBeLocked[t]) :
        pc[t] \in Executing \/ (pc[t] = "lock" /\ i < idx[t])}

\* From the moment setTaskLock returns until execute does, the lock document
\* names the task as its owner and is not available: no release left from an
\* earlier clearTaskLocks, and no other task's request, takes it away.
HeldLocks ==
    \A t \in Tasks : \A i \in Acquired(t) : lock[ToBeLocked[t][i]] = Held(t)

\* clearTaskLocks is called twice on every way out of a command and keeps
\* what it could not clear, so one failed call can leave a lock held by a
\* command that has ended in one way only: it was setTaskLock's own call,
\* accepted by the store but not answered, and so never on the list.
OneFaultLeaksOnlyAnUnansweredLock ==
    \A t \in Tasks, e \in Entities :
        faults <= 1 /\ pc[t] = "ended" /\ lock[e] = Held(t)
            => idx[t] <= Len(ToBeLocked[t]) /\ ToBeLocked[t][idx[t]] = e

\* A task document that says COMPLETED has only COMPLETED steps, also when
\* the task took two commands and when patches failed on the way.
CompletedMeansAllSteps ==
    \A t \in Tasks :
        docState[t] = "COMPLETED"
            => \A s \in StepsOf(t) : docStep[t][s] = "COMPLETED"

\* While a task document says ERROR or COMPLETED, no command is taking the
\* task's locks or running its steps: what the lock cleaner relies on.
TerminalMeansIdle ==
    \A t \in Tasks :
        docState[t] \in Terminal => pc[t] \notin Executing \cup {"run", "lock"}

\* TaskService does not check progression, but the commands never take a
\* task document back from ERROR or COMPLETED to QUEUED or STARTED.
TerminalIsFinal ==
    [][\A t \in Tasks :
         docState[t] \in Terminal => docState'[t] \notin {"QUEUED", "STARTED"}]_vars

\* A task whose command has started or waits for a thread gets a final state
\* in its document, unless its process died, its second command was refused
\* or not submitted, or the very patch that records the failure failed.
EveryTaskConcludes ==
    \A t \in Tasks :
        pc[t] \in {"queued", "run"} ~>
            \/ docState[t] \in Terminal
            \/ pc[t] \in {"dead", "rejected", "returned"}
            \/ pc[t] = "ended" /\ threw[t]

-----------------------------------------------------------------------------
(* The inductive invariant behind HeldLocks and MutualExclusion.            *)

\* The index of the lock being taken is one of ToBeLocked: what the types of
\* the lock requests rest on.
LockIndex ==
    \A t \in Tasks : pc[t] = "lock" => idx[t] \in 1 .. Len(ToBeLocked[t])

\* A command waits in the queue of its own node, and only once.
QueueOK ==
    \A n \in Nodes : \A i, j \in 1 .. Len(workQueue[n]) :
        /\ pc[workQueue[n][i]] = "queued"
        /\ HomeOf[workQueue[n][i]] = n
        /\ i # j => workQueue[n][i] # workQueue[n][j]

ControlInv == TypeOK /\ LockIndex /\ QueueOK

\* Past this point a command takes no lock and runs no step any more.
Past == Clearing \cup {"markDone", "markFailed"} \cup Over

\* A release still under way is in the name of a task that is past using its
\* locks; a task with a second command would be using them again.
NoStaleRelease ==
    /\ ~LateDelivery => lateLock = {}
    /\ Resubmitted = {} =>
          \A r \in lateLock : r.isAvailable => pc[r.ownerId] \in Past

LockInv == ControlInv /\ HeldLocks /\ NoStaleRelease

\* What a command may rely on in its document, as long as no patch outlives
\* its sender.
Stage(t) ==
    /\ pc[t] = "none" => docState[t] = "NONE"
    /\ pc[t] \in {"submit", "queued", "run"} => docState[t] \in {"QUEUED", "STARTED"}
    /\ pc[t] \in {"lock", "doneClear", "markDone"} \cup Executing
            => docState[t] = "STARTED"
    /\ pc[t] \in {"failClear", "markFailed"} => docState[t] # "NONE"

DocumentStage == latePatch = {} /\ \A t \in Tasks : Stage(t)

-----------------------------------------------------------------------------
Contract == INSTANCE TaskContract
    WITH Uses <- [t \in Tasks |-> Locks(t)],
         status <- docState,
         active <- {t \in Tasks : pc[t] \in Executing}

\* Seen through its documents and the tasks whose steps run, the engine
\* keeps the contract, as long as no request outlives its sender.
ImplementsContract == Contract!Spec
=============================================================================
