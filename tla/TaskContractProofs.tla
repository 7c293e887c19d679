------------------------- MODULE TaskContractProofs -------------------------
(***************************************************************************)
(* What the documents of tasks say, for any number of tasks, nodes and     *)
(* failures.                                                               *)
(*                                                                         *)
(* The task engine implements TaskContract when no request outlives its    *)
(* sender: initial states map to initial states, and every step maps to a  *)
(* step of the contract or to no step.  That concluded tasks are idle,     *)
(* that a COMPLETED task has only COMPLETED steps, and which locks an      *)
(* ended command can leave behind is proved without that condition: a      *)
(* conclusion that arrives late is still the last word on its task.        *)
(***************************************************************************)
EXTENDS TaskEngineProofs

\* Most leaves are first-order reasoning, which Zenon does; those with arithmetic,
\* records or long formulas name SMT.
USE Zenon

-----------------------------------------------------------------------------
(* What the calls do to the state of a task document.                       *)

LEMMA TaskPatchEffect ==
    ASSUME TypeOK, ~LateDelivery, latePatch = {},
           NEW t \in Tasks, NEW st \in StepState,
           \/ PatchApplied(TaskPatch(t, st))
           \/ PatchNotFound(TaskPatch(t, st))
           \/ PatchFails(TaskPatch(t, st))
    PROVE  /\ latePatch' = {}
           /\ \/ docState' = docState
              \/ docState[t] # "NONE" /\ docState' = [docState EXCEPT ![t] = st]
           /\ PatchApplied(TaskPatch(t, st))
                => docState[t] # "NONE" /\ docState' = [docState EXCEPT ![t] = st]
<1>1. TaskPatch(t, st).task = t /\ TaskPatch(t, st).step = 0
      /\ TaskPatch(t, st).state = st
  BY DEF TaskPatch
<1>2. QED
  BY <1>1 DEF PatchApplied, PatchNotFound, PatchFails, Apply, Found, docVars

LEMMA StepPatchEffect ==
    ASSUME TypeOK, ~LateDelivery, latePatch = {},
           NEW t \in Tasks, NEW s \in Nat \ {0}, NEW st \in StepState,
           \/ PatchApplied(StepPatch(t, s, st))
           \/ PatchNotFound(StepPatch(t, s, st))
           \/ PatchFails(StepPatch(t, s, st))
    PROVE  latePatch' = {} /\ docState' = docState
<1>1. StepPatch(t, s, st).step # 0
  BY DEF StepPatch
<1>2. QED
  BY <1>1 DEF PatchApplied, PatchNotFound, PatchFails, Apply, docVars

-----------------------------------------------------------------------------
(* The documents keep pace with the commands.                               *)

\* A step of t's thread concerns t's document only.
LEMMA CommandDocument ==
    ASSUME ControlInv, ~LateDelivery, DocumentStage, NEW t \in Tasks, CommandStep(t)
    PROVE  /\ latePatch' = {}
           /\ \/ docState' = docState
              \/ /\ MarkTaskAsStarted(t) \/ MarkTaskAsStartedFails(t)
                 /\ docState' = [docState EXCEPT ![t] = "STARTED"]
              \/ /\ MarkTaskAsDone(t)
                 /\ docState' = [docState EXCEPT ![t] = "COMPLETED"]
              \/ /\ MarkTaskAsFailed(t)
                 /\ docState' = [docState EXCEPT ![t] = "ERROR"]
           /\ MarkTaskAsStarted(t) => docState' = [docState EXCEPT ![t] = "STARTED"]
<1>1. TypeOK /\ latePatch = {} /\ cur[t] \in Nat \ {0}
  BY DEF ControlInv, TypeOK, DocumentStage
<1>2. {"STARTED", "COMPLETED", "ERROR"} \subseteq StepState
  BY DEF StepState
<1>3. CASE MarkTaskAsStarted(t) \/ MarkTaskAsStartedFails(t)
  BY <1>1, <1>2, <1>3, TaskPatchEffect DEF MarkTaskAsStarted, MarkTaskAsStartedFails
<1>4. CASE MarkTaskAsDone(t) \/ MarkTaskAsFailed(t)
  <2>1. pc[t] # "run"
    BY <1>4 DEF MarkTaskAsDone, MarkTaskAsFailed
  <2>2. ~MarkTaskAsStarted(t)
    BY <2>1 DEF MarkTaskAsStarted
  <2>3. QED
    BY <1>1, <1>2, <1>4, <2>2, TaskPatchEffect DEF MarkTaskAsDone, MarkTaskAsFailed
<1>5. CASE MarkStepAsStarted(t) \/ MarkStepAsDone(t) \/ MarkStepAsFailed(t)
  <2>1. ~MarkTaskAsStarted(t)
    BY <1>5 DEF MarkTaskAsStarted, MarkStepAsStarted, MarkStepAsDone, MarkStepAsFailed
  <2>2. QED
    BY <1>1, <1>2, <1>5, <2>1, StepPatchEffect
    DEF MarkStepAsStarted, MarkStepAsDone, MarkStepAsFailed
<1>6. CASE /\ ~(MarkTaskAsStarted(t) \/ MarkTaskAsStartedFails(t))
           /\ ~(MarkTaskAsDone(t) \/ MarkTaskAsFailed(t))
           /\ ~(MarkStepAsStarted(t) \/ MarkStepAsDone(t) \/ MarkStepAsFailed(t))
  BY <1>1, <1>6 DEF CommandStep, SubmitToNewThread, SubmitToQueue, SubmitRejected,
     SetTaskLock, SetTaskLockFails, SkipStep, StepWork, ExecuteReturns,
     ClearTaskLock, ClearTaskLocksReturns, ResubmitCommand, ReturnAfterSync, docVars
<1>7. QED
  BY <1>3, <1>4, <1>5, <1>6

LEMMA CommandStage ==
    ASSUME ControlInv, ~LateDelivery, DocumentStage, NEW t \in Tasks, CommandStep(t)
    PROVE  Stage(t)'
<1>1. TypeOK /\ Stage(t)
  BY DEF ControlInv, DocumentStage
<1>2. docState' \in [Tasks -> TaskState \cup {"NONE"}]
  BY TypeInductive DEF ControlInv, Next, TypeOK
<1>3. CASE MarkTaskAsStarted(t)
  <2>1. docState'[t] = "STARTED" /\ pc'[t] \in {"lock", "step"}
    <3>1. docState' = [docState EXCEPT ![t] = "STARTED"]
      BY <1>3, CommandDocument
    <3>2. QED
      BY <1>1, <1>3, <3>1 DEF MarkTaskAsStarted, NextLock, Goto, TypeOK
  <2>2. QED
    BY <2>1 DEF Stage, Executing
<1>4. CASE MarkTaskAsStartedFails(t)
  <2>1. /\ docState[t] # "NONE" /\ pc'[t] = "failClear"
        /\ docState'[t] \in {docState[t], "STARTED"}
    BY <1>1, <1>4, CommandDocument
    DEF MarkTaskAsStartedFails, MarkTaskAsDone, MarkTaskAsFailed, Goto, TypeOK, Stage
  <2>2. QED
    BY <2>1 DEF Stage, Executing
<1>5. CASE MarkTaskAsDone(t)
  <2>1. /\ docState[t] = "STARTED" /\ pc'[t] \in {"cleanup", "failClear"}
        /\ docState'[t] \in {"STARTED", "COMPLETED"}
    BY ZenonT(30), <1>1, <1>5, CommandDocument DEF MarkTaskAsStarted, MarkTaskAsStartedFails,
       MarkTaskAsDone, MarkTaskAsFailed, Goto, TypeOK, Stage
  <2>2. QED
    BY <2>1 DEF Stage, Executing
<1>6. CASE MarkTaskAsFailed(t)
  <2>1. pc'[t] = "cleanup"
    BY <1>1, <1>6 DEF MarkTaskAsFailed, Goto, TypeOK
  <2>2. QED
    BY <2>1 DEF Stage, Executing
<1>7. CASE /\ ~MarkTaskAsStarted(t) /\ ~MarkTaskAsStartedFails(t)
           /\ ~MarkTaskAsDone(t) /\ ~MarkTaskAsFailed(t)
  <2>1. docState'[t] = docState[t]
    BY <1>7, CommandDocument
  <2> USE <1>1, <2>1 DEF Stage, Goto
  <2>2. CASE SubmitToNewThread(t) \/ SubmitToQueue(t) \/ SubmitRejected(t)
    BY <2>2 DEF SubmitToNewThread, SubmitToQueue, SubmitRejected, TypeOK, Executing
  <2>3. CASE SetTaskLock(t) \/ SetTaskLockFails(t)
    BY <2>3 DEF SetTaskLock, SetTaskLockFails, NextLock, TypeOK, Executing
  <2>4. CASE SkipStep(t) \/ StepWork(t) \/ ExecuteReturns(t)
    BY <2>4 DEF SkipStep, StepWork, ExecuteReturns, TypeOK, Executing
  <2>5. CASE MarkStepAsStarted(t) \/ MarkStepAsDone(t) \/ MarkStepAsFailed(t)
    BY <2>5 DEF MarkStepAsStarted, MarkStepAsDone, MarkStepAsFailed, TypeOK, Executing
  <2>6. CASE ClearTaskLock(t)
    BY <2>6 DEF ClearTaskLock
  <2>7. CASE ClearTaskLocksReturns(t)
    <3>1. pc'[t] = AfterClear(t) /\ pc[t] \in Clearing
      BY <2>7 DEF ClearTaskLocksReturns, TypeOK
    <3>2. QED
      BY <3>1 DEF AfterClear, Clearing, Executing
  <2>8. CASE ResubmitCommand(t) \/ ReturnAfterSync(t)
    BY SMT, <2>8 DEF ResubmitCommand, ReturnAfterSync, TypeOK, Executing
  <2>9. QED
    BY <1>7, <2>2, <2>3, <2>4, <2>5, <2>6, <2>7, <2>8 DEF CommandStep
<1>8. QED
  BY <1>3, <1>4, <1>5, <1>6, <1>7

LEMMA StageInductive ==
    ControlInv /\ ~LateDelivery /\ DocumentStage /\ [Next]_vars => DocumentStage'
<1>1. SUFFICES ASSUME ControlInv, ~LateDelivery, DocumentStage, [Next]_vars
               PROVE  DocumentStage'
  OBVIOUS
<1>2. TypeOK /\ (\A t \in Tasks : Stage(t))
  BY <1>1 DEF ControlInv, DocumentStage
<1>3. ASSUME NEW t \in Tasks, CommandStep(t) PROVE DocumentStage'
  <2>1. latePatch' = {} /\ (\A u \in Tasks \ {t} : docState'[u] = docState[u])
    <3>1. /\ latePatch' = {}
          /\ \/ docState' = docState
             \/ docState' = [docState EXCEPT ![t] = "STARTED"]
             \/ docState' = [docState EXCEPT ![t] = "COMPLETED"]
             \/ docState' = [docState EXCEPT ![t] = "ERROR"]
      BY <1>1, <1>3, CommandDocument
    <3>2. QED
      BY <1>2, <3>1 DEF TypeOK
  <2>2. \A u \in Tasks \ {t} : pc'[u] = pc[u]
    BY <1>2, <1>3, CommandControl
  <2>3. \A u \in Tasks \ {t} : Stage(u)'
    BY <1>2, <2>1, <2>2 DEF Stage
  <2>4. Stage(t)'
    BY <1>1, <1>3, CommandStage
  <2>5. QED
    BY <2>1, <2>3, <2>4 DEF DocumentStage
<1>4. ASSUME NEW t \in Tasks, CreateTask(t) \/ CreateTaskFails(t)
      PROVE  DocumentStage'
  <2>1. /\ latePatch' = {}
        /\ \A u \in Tasks \ {t} : docState'[u] = docState[u] /\ pc'[u] = pc[u]
    BY <1>1, <1>2, <1>4 DEF CreateTask, CreateTaskFails, CreateDocument, Goto,
       docVars, TypeOK, DocumentStage
  <2>2. \/ pc'[t] \in {"run", "submit"} /\ docState'[t] = "QUEUED"
        \/ pc'[t] = "returned"
    BY <1>2, <1>4 DEF CreateTask, CreateTaskFails, CreateDocument, Goto, TypeOK
  <2>3. \A u \in Tasks : Stage(u)'
    BY <1>2, <2>1, <2>2 DEF Stage, Executing
  <2>4. QED
    BY <2>1, <2>3 DEF DocumentStage
<1>5. ASSUME NEW n \in Nodes, WorkerTake(n) PROVE DocumentStage'
  <2>1. /\ workQueue[n] \in Seq(Tasks) /\ workQueue[n] # <<>>
        /\ Head(workQueue[n]) = workQueue[n][1]
        /\ 1 \in 1 .. Len(workQueue[n])
    BY SMT, <1>2, <1>5 DEF WorkerTake, TypeOK
  <2>2. Head(workQueue[n]) \in Tasks /\ pc[Head(workQueue[n])] = "queued"
    BY SMT, <1>1, <2>1, QueueElements
  <2>3. UNCHANGED docVars
    BY <1>5 DEF WorkerTake
  <2>4. \A u \in Tasks : \/ pc'[u] = pc[u]
                         \/ pc[u] = "queued" /\ pc'[u] = "run"
    BY <1>2, <1>5, <2>2 DEF WorkerTake, Goto, TypeOK
  <2>5. \A u \in Tasks : Stage(u)'
    BY <1>2, <2>3, <2>4 DEF Stage, docVars, Executing
  <2>6. QED
    BY <1>1, <2>3, <2>5 DEF DocumentStage, docVars
<1>6. ASSUME NEW n \in Nodes, Crash(n) PROVE DocumentStage'
  <2>1. UNCHANGED docVars /\ (\A u \in Tasks : pc'[u] \in {pc[u], "dead"})
    BY <1>2, <1>6 DEF Crash, TypeOK
  <2>2. \A u \in Tasks : Stage(u)'
    BY <1>2, <2>1 DEF Stage, docVars, Executing
  <2>3. QED
    BY <1>1, <2>1, <2>2 DEF DocumentStage, docVars
<1>7. ASSUME Deliver \/ Terminated \/ UNCHANGED vars PROVE DocumentStage'
  <2>1. UNCHANGED <<docVars, pc>>
    BY <1>1, <1>7 DEF Deliver, Terminated, vars, DocumentStage
  <2>2. QED
    BY <1>1, <2>1 DEF DocumentStage, Stage, docVars
<1>8. QED
  BY <1>1, <1>3, <1>4, <1>5, <1>6, <1>7 DEF Next

-----------------------------------------------------------------------------
(* The refinement.                                                          *)

ContractInv == LockInv /\ DocumentStage

Active == {t \in Tasks : pc[t] \in Executing}

LEMMA ContractInvInductive ==
    ASSUME ~LateDelivery
    PROVE  /\ Init => ContractInv
           /\ ContractInv /\ [Next]_vars => ContractInv'
<1>1. Safe
  BY DEF Safe
<1>2. Init => ContractInv
  BY SMT, InitControl DEF ContractInv, LockInv, Init, HeldLocks, Acquired, Executing,
     NoStaleRelease, DocumentStage, Stage
<1>3. ContractInv /\ [Next]_vars => ContractInv'
  BY <1>1, TypeInductive, LockIndexInductive, QueueInductive, StaleInductive,
     HeldInductive, StageInductive DEF ContractInv, LockInv, ControlInv
<1>4. QED
  BY <1>2, <1>3

\* Mutual exclusion after the step is the contract's condition to enter.
LEMMA EnterAllowed ==
    ASSUME MutualExclusion', NEW t \in Tasks, pc'[t] \in Executing,
           \A u \in Tasks \ {t} : pc'[u] = pc[u]
    PROVE  Contract!MayEnter(t)
BY DEF MutualExclusion, Contract!MayEnter, Locks

LEMMA CommandRefines ==
    ASSUME ~LateDelivery, ContractInv, ContractInv', NEW t \in Tasks, CommandStep(t)
    PROVE  [Contract!Next]_(Contract!cvars)
<1>1. ControlInv /\ TypeOK /\ DocumentStage /\ Stage(t)
  BY DEF ContractInv, LockInv, ControlInv, DocumentStage
<1>2. MutualExclusion'
  <2>1. ControlInv' /\ HeldLocks'
    BY DEF ContractInv, LockInv
  <2>2. QED
    BY <2>1, HeldExcludes, PTL
<1>3. \A u \in Tasks \ {t} : pc'[u] = pc[u]
  BY <1>1, CommandControl
<1>4. \/ Active' = Active
      \/ Active' = Active \ {t}
      \/ pc'[t] \in Executing /\ Active' = Active \cup {t}
  BY SMT, <1>3 DEF Active
<1>5. pc'[t] \in Executing => Contract!MayEnter(t)
  BY <1>2, <1>3, EnterAllowed
<1>6. CASE docState' = docState
  <2>1. CASE Active' = Active
    BY <1>6, <2>1 DEF Contract!cvars, Active
  <2>2. CASE Active' = Active \ {t}
    <3>1. Contract!Leave({t})
      BY <1>6, <2>2 DEF Contract!Leave, Active
    <3>2. QED
      BY <3>1 DEF Contract!Next
  <2>3. CASE pc'[t] \in Executing /\ Active' = Active \cup {t}
    <3>1. docState[t] = "STARTED"
      BY <1>6, <2>3 DEF ContractInv, DocumentStage, Stage
    <3>2. Contract!Enter(t)
      BY <1>5, <1>6, <2>3, <3>1 DEF Contract!Enter, Active
    <3>3. QED
      BY <3>2 DEF Contract!Next
  <2>4. QED
    BY <1>4, <2>1, <2>2, <2>3
<1>7. CASE /\ MarkTaskAsStarted(t) \/ MarkTaskAsStartedFails(t)
           /\ docState' = [docState EXCEPT ![t] = "STARTED"]
  <2>1. pc[t] = "run" /\ docState[t] \in {"QUEUED", "STARTED"}
    BY <1>1, <1>7 DEF MarkTaskAsStarted, MarkTaskAsStartedFails, Stage
  <2>2. \/ Active' = Active
        \/ Contract!MayEnter(t) /\ Active' = Active \cup {t}
    BY <1>3, <1>5, <2>1 DEF Active, Executing
  <2>3. Contract!Start(t)
    BY <1>7, <2>1, <2>2 DEF Contract!Start, Active
  <2>4. QED
    BY <2>3 DEF Contract!Next
<1>8. CASE MarkTaskAsDone(t) /\ docState' = [docState EXCEPT ![t] = "COMPLETED"]
  <2>1. /\ pc[t] = "markDone" /\ docState[t] = "STARTED"
        /\ pc'[t] \in {"cleanup", "failClear"}
    BY <1>1, <1>8 DEF MarkTaskAsDone, Stage, Goto, TypeOK
  <2>2. Active' = Active /\ t \notin Active
    BY <1>3, <2>1 DEF Active, Executing
  <2>3. Contract!Complete(t)
    BY <1>8, <2>1, <2>2 DEF Contract!Complete, Active
  <2>4. QED
    BY <2>3 DEF Contract!Next
<1>9. CASE MarkTaskAsFailed(t) /\ docState' = [docState EXCEPT ![t] = "ERROR"]
  <2>1. /\ pc[t] = "markFailed" /\ docState[t] # "NONE"
        /\ pc'[t] = "cleanup"
    BY <1>1, <1>9 DEF MarkTaskAsFailed, Stage, Goto, TypeOK
  <2>2. Active' = Active /\ t \notin Active
    BY <1>3, <2>1 DEF Active, Executing
  <2>3. Contract!Fail(t)
    BY <1>9, <2>1, <2>2 DEF Contract!Fail, Active
  <2>4. QED
    BY <2>3 DEF Contract!Next
<1>10. QED
  BY <1>1, <1>6, <1>7, <1>8, <1>9, CommandDocument

LEMMA StepRefines ==
    ASSUME ~LateDelivery, ContractInv, ContractInv', [Next]_vars
    PROVE  [Contract!Next]_(Contract!cvars)
<1>1. ControlInv /\ TypeOK /\ DocumentStage
  BY DEF ContractInv, LockInv, ControlInv
<1>2. ASSUME NEW t \in Tasks, CreateTask(t) \/ CreateTaskFails(t)
      PROVE  [Contract!Next]_(Contract!cvars)
  <2>1. pc[t] = "none" /\ docState[t] = "NONE"
    BY <1>1, <1>2 DEF CreateTask, CreateTaskFails, DocumentStage, Stage
  <2>2. Active' = Active
    BY <1>1, <1>2 DEF CreateTask, CreateTaskFails, Goto, TypeOK, Active, Executing
  <2>3. CASE docState' = docState
    BY <2>2, <2>3 DEF Contract!cvars, Active
  <2>4. CASE docState' = [docState EXCEPT ![t] = "QUEUED"]
    <3>1. Contract!Create(t)
      BY <2>1, <2>2, <2>4 DEF Contract!Create, Active
    <3>2. QED
      BY <3>1 DEF Contract!Next
  <2>5. QED
    BY <1>2, <2>3, <2>4 DEF CreateTask, CreateTaskFails, CreateDocument, docVars
<1>3. ASSUME NEW n \in Nodes, WorkerTake(n)
      PROVE  [Contract!Next]_(Contract!cvars)
  <2>1. /\ workQueue[n] \in Seq(Tasks) /\ workQueue[n] # <<>>
        /\ Head(workQueue[n]) = workQueue[n][1]
        /\ 1 \in 1 .. Len(workQueue[n])
    BY SMT, <1>1, <1>3 DEF WorkerTake, TypeOK
  <2>2. Head(workQueue[n]) \in Tasks /\ pc[Head(workQueue[n])] = "queued"
    BY SMT, <1>1, <2>1, QueueElements
  <2>3. Active' = Active
    BY <1>1, <1>3, <2>2 DEF WorkerTake, Goto, TypeOK, Active, Executing
  <2>4. QED
    BY <1>3, <2>3 DEF WorkerTake, docVars, Contract!cvars, Active
<1>4. ASSUME NEW n \in Nodes, Crash(n)
      PROVE  [Contract!Next]_(Contract!cvars)
  <2> DEFINE S == {t \in Tasks : HomeOf[t] = n}
  <2>1. Active' = Active \ S
    BY <1>4 DEF Crash, Active, Executing, Over
  <2>2. Contract!Leave(S)
    BY <1>4, <2>1 DEF Crash, docVars, Contract!Leave, Active
  <2>3. QED
    BY <2>2 DEF Contract!Next
<1>5. ASSUME Deliver \/ Terminated \/ UNCHANGED vars
      PROVE  [Contract!Next]_(Contract!cvars)
  BY <1>1, <1>5 DEF Deliver, Terminated, vars, docVars, DocumentStage, Contract!cvars
<1>6. QED
  BY <1>2, <1>3, <1>4, <1>5, CommandRefines DEF Next

\* Seen through its documents and the tasks at work, the engine implements
\* TaskContract, for any number of tasks, nodes and failures, when no request
\* outlives its sender.
THEOREM EngineKeepsContract == ASSUME ~LateDelivery PROVE Spec => ImplementsContract
<1>1. Init => Contract!Init
  BY DEF Init, Contract!Init, Executing
<1>2. ContractInv /\ ContractInv' /\ [Next]_vars => [Contract!Next]_(Contract!cvars)
  BY StepRefines
<1>3. QED
  BY <1>1, <1>2, ContractInvInductive, PTL DEF Spec, ImplementsContract, Contract!Spec

\* No task document goes back from ERROR or COMPLETED, although TaskService
\* would apply any patch.
THEOREM ConclusionsAreFinal == ASSUME ~LateDelivery PROVE Spec => TerminalIsFinal
<1>1. ASSUME ContractInv, [Next]_vars
      PROVE  [\A t \in Tasks : docState[t] \in Terminal
                => docState'[t] \notin {"QUEUED", "STARTED"}]_vars
  <2>1. ContractInv'
    BY <1>1, ContractInvInductive
  <2>2. [Contract!Next]_(Contract!cvars)
    BY <1>1, <2>1, StepRefines
  <2>3. docState \in [Tasks -> TaskState \cup {"NONE"}]
    BY <1>1 DEF ContractInv, LockInv, ControlInv, TypeOK
  <2>4. QED
    BY <2>2, <2>3 DEF Contract!Next, Contract!cvars, Contract!Create, Contract!Start,
       Contract!Enter, Contract!Leave, Contract!Complete, Contract!Fail, Terminal
<1>2. QED
  BY <1>1, ContractInvInductive, PTL DEF Spec, TerminalIsFinal

-----------------------------------------------------------------------------
(* Concluded tasks are idle, also when patches outlive their senders.       *)

AtRest(t) == pc[t] \in Past \cup {"synced"}

\* The first of two commands leaves the last step alone, and so never marks
\* the task as done.
HoldsBack(t) ==
    /\ memStep[t][NumSteps[t]] = "QUEUED"
    /\ pc[t] \in {"work", "stepDone", "stepFail"} => cur[t] # NumSteps[t]
    /\ pc[t] # "markDone"

\* t is not run again: markAsFailed threw, or this is its last command.
NotRunAgain(t) == threw[t] \/ ~Synchronous(t)

\* A document that says, or is about to say, ERROR or COMPLETED belongs to a
\* command that is past using its locks.  What it says may be overtaken by a
\* patch still under way; a conclusion that is itself under way is the last.
RestInv ==
    /\ ~LateDelivery => latePatch = {}
    /\ \A t \in Tasks : pc[t] = "synced" => Synchronous(t)
    /\ \A t \in Tasks : Synchronous(t) => HoldsBack(t)
    /\ \A t \in Tasks : docState[t] \in Terminal => AtRest(t)
    /\ \A p \in latePatch :
           p.step = 0 /\ p.state \in Terminal => AtRest(p.task) /\ NotRunAgain(p.task)

LEMMA InitRest ==
    ASSUME Init PROVE RestInv
BY SMT, StepAssumption DEF Init, RestInv, Terminal, HoldsBack, StepsOf

\* What a patch can change, and what it can leave under way.
LEMMA PatchEffect ==
    ASSUME TypeOK, NEW p \in Patches,
           PatchApplied(p) \/ PatchNotFound(p) \/ PatchFails(p)
    PROVE  /\ \A t \in Tasks : \/ docState'[t] = docState[t]
                               \/ p.step = 0 /\ p.task = t /\ docState'[t] = p.state
           /\ \A q \in latePatch' : q \in latePatch \/ (q = p /\ LateDelivery)
<1>1. Apply(p) \/ UNCHANGED <<docState, docStep>>
  BY DEF PatchApplied, PatchNotFound, PatchFails, docVars
<1>2. \A t \in Tasks : \/ docState'[t] = docState[t]
                       \/ p.step = 0 /\ p.task = t /\ docState'[t] = p.state
  BY <1>1 DEF Apply, TypeOK
<1>3. latePatch' = latePatch \/ (LateDelivery /\ latePatch' = latePatch \cup {p})
  BY DEF PatchApplied, PatchNotFound, PatchFails, docVars
<1>4. QED
  BY <1>2, <1>3

\* A step of t's thread that sends no patch.
LEMMA NoPatch ==
    ASSUME NEW t \in Tasks, CommandStep(t),
           ~(MarkTaskAsStarted(t) \/ MarkTaskAsStartedFails(t)),
           ~(MarkTaskAsDone(t) \/ MarkTaskAsFailed(t)),
           ~(MarkStepAsStarted(t) \/ MarkStepAsDone(t) \/ MarkStepAsFailed(t))
    PROVE  UNCHANGED docVars
BY DEF CommandStep, SubmitToNewThread, SubmitToQueue, SubmitRejected,
   SetTaskLock, SetTaskLockFails, SkipStep, StepWork, ExecuteReturns,
   ClearTaskLock, ClearTaskLocksReturns, ResubmitCommand, ReturnAfterSync, docVars

\* A thread of t is about to record st as the final state.
Concludes(t, st) ==
    \/ st = "COMPLETED" /\ pc[t] = "markDone"
    \/ st = "ERROR" /\ pc[t] = "markFailed"

\* Which step changes the state in a document, or leaves a patch under way.
LEMMA DocumentStep ==
    ASSUME ControlInv, [Next]_vars
    PROVE  /\ \A t \in Tasks :
                \/ docState'[t] = docState[t]
                \/ docState'[t] \in {"QUEUED", "STARTED"} /\ pc[t] \in {"none", "run"}
                \/ Concludes(t, docState'[t])
                \/ \E p \in latePatch :
                      p.step = 0 /\ p.task = t /\ docState'[t] = p.state
           /\ \A p \in latePatch' \ latePatch :
                /\ LateDelivery /\ p \in Patches
                /\ p.step = 0 /\ p.state \in Terminal =>
                      /\ Concludes(p.task, p.state)
                      /\ p.state = "ERROR" => threw'[p.task]
<1>1. TypeOK
  BY DEF ControlInv
<1> USE DEF Terminal
<1>2. ASSUME NEW u \in Tasks, CommandStep(u)
      PROVE  /\ \A t \in Tasks :
                  \/ docState'[t] = docState[t]
                  \/ docState'[t] = "STARTED" /\ pc[t] = "run"
                  \/ Concludes(t, docState'[t])
             /\ \A p \in latePatch' \ latePatch :
                  /\ LateDelivery /\ p \in Patches
                  /\ p.step = 0 /\ p.state \in Terminal =>
                        /\ Concludes(p.task, p.state)
                        /\ p.state = "ERROR" => threw'[p.task]
  <2>1. cur[u] \in Nat \ {0} /\ {"STARTED", "COMPLETED", "ERROR"} \subseteq StepState
    BY <1>1 DEF TypeOK, StepState
  <2>2. \A st \in {"STARTED", "COMPLETED", "ERROR"} :
            /\ TaskPatch(u, st) \in Patches /\ StepPatch(u, cur[u], st) \in Patches
            /\ TaskPatch(u, st).step = 0 /\ TaskPatch(u, st).task = u
            /\ TaskPatch(u, st).state = st /\ StepPatch(u, cur[u], st).step # 0
    BY <2>1, PatchTypes DEF TaskPatch, StepPatch
  <2>3. CASE MarkTaskAsStarted(u) \/ MarkTaskAsStartedFails(u)
    <3> DEFINE p == TaskPatch(u, "STARTED")
    <3>1. /\ pc[u] = "run"
          /\ PatchApplied(p) \/ PatchNotFound(p) \/ PatchFails(p)
      BY <2>3 DEF MarkTaskAsStarted, MarkTaskAsStartedFails
    <3>2. p \in Patches /\ p.step = 0 /\ p.task = u /\ p.state = "STARTED"
      BY <2>2
    <3> HIDE DEF p
    <3>3. QED
      BY <1>1, <3>1, <3>2, PatchEffect
  <2>4. CASE MarkTaskAsDone(u) \/ MarkTaskAsFailed(u)
    <3>1. PICK st \in {"COMPLETED", "ERROR"} :
              /\ Concludes(u, st)
              /\ \/ PatchApplied(TaskPatch(u, st))
                 \/ PatchNotFound(TaskPatch(u, st))
                 \/ PatchFails(TaskPatch(u, st))
              /\ st = "ERROR" => threw'[u] \/ UNCHANGED latePatch
      BY <1>1, <2>4 DEF MarkTaskAsDone, MarkTaskAsFailed, Concludes, PatchApplied,
         PatchNotFound, docVars, TypeOK
    <3> DEFINE p == TaskPatch(u, st)
    <3>2. p \in Patches /\ p.step = 0 /\ p.task = u /\ p.state = st
      BY <2>2
    <3>3. PatchApplied(p) \/ PatchNotFound(p) \/ PatchFails(p)
      BY <3>1
    <3> HIDE DEF p
    <3>4. QED
      BY SMT, <1>1, <3>1, <3>2, <3>3, PatchEffect
  <2>5. CASE MarkStepAsStarted(u) \/ MarkStepAsDone(u) \/ MarkStepAsFailed(u)
    <3>1. PICK st \in {"STARTED", "COMPLETED", "ERROR"} :
              \/ PatchApplied(StepPatch(u, cur[u], st))
              \/ PatchNotFound(StepPatch(u, cur[u], st))
              \/ PatchFails(StepPatch(u, cur[u], st))
      BY <2>5 DEF MarkStepAsStarted, MarkStepAsDone, MarkStepAsFailed
    <3> DEFINE p == StepPatch(u, cur[u], st)
    <3>2. p \in Patches /\ p.step # 0
      BY <2>2
    <3>3. PatchApplied(p) \/ PatchNotFound(p) \/ PatchFails(p)
      BY <3>1
    <3> HIDE DEF p
    <3>4. QED
      BY SMT, <1>1, <3>2, <3>3, PatchEffect
  <2>6. QED
    BY <1>2, <2>3, <2>4, <2>5, NoPatch DEF docVars
<1>3. ASSUME NEW u \in Tasks, CreateTask(u) \/ CreateTaskFails(u)
      PROVE  /\ \A t \in Tasks : \/ docState'[t] = docState[t]
                                 \/ docState'[t] = "QUEUED" /\ pc[t] = "none"
             /\ latePatch' = latePatch
  BY <1>1, <1>3 DEF CreateTask, CreateTaskFails, CreateDocument, docVars, TypeOK
<1>4. ASSUME NEW p \in latePatch, DeliverLatePatch(p)
      PROVE  /\ \A t \in Tasks : \/ docState'[t] = docState[t]
                                 \/ p.step = 0 /\ p.task = t /\ docState'[t] = p.state
             /\ latePatch' \subseteq latePatch
  BY <1>1, <1>4 DEF DeliverLatePatch, Apply, TypeOK
<1>5. ASSUME \/ \E n \in Nodes : WorkerTake(n) \/ Crash(n)
             \/ \E r \in lateLock : DeliverLateLock(r) /\ UNCHANGED docVars
             \/ Terminated \/ UNCHANGED vars
      PROVE  UNCHANGED docVars
  BY <1>5 DEF WorkerTake, Crash, Terminated, vars
<1>6. ASSUME UNCHANGED docVars
      PROVE  UNCHANGED <<docState, latePatch>>
  BY <1>6 DEF docVars
<1>7. CASE \E t \in Tasks : CommandStep(t)
  BY <1>2, <1>7
<1>8. CASE \E t \in Tasks : CreateTask(t) \/ CreateTaskFails(t)
  BY <1>3, <1>8
<1>9. CASE \E p \in latePatch : DeliverLatePatch(p)
  BY <1>4, <1>9
<1>10. QED
  BY <1>5, <1>6, <1>7, <1>8, <1>9 DEF Next, Deliver

\* A command past using its locks stays so, unless it is run a second time,
\* and only the first command of a task with two comes to synced.
LEMMA RestStays ==
    ASSUME ControlInv, [Next]_vars, NEW t \in Tasks
    PROVE  /\ AtRest(t) /\ ~(pc[t] = "synced" /\ ~threw[t] /\ docState[t] = "STARTED")
                => AtRest(t)'
           /\ AtRest(t) /\ Synchronous(t)' => AtRest(t)'
           /\ pc'[t] = "synced" => pc[t] = "synced" \/ Synchronous(t)
<1>1. TypeOK /\ pc[t] \in Labels
  BY DEF ControlInv, TypeOK
<1> USE DEF AtRest
<1>2. ASSUME NEW u \in Tasks, CommandStep(u), u # t PROVE pc'[t] = pc[t]
  BY <1>1, <1>2, CommandControl
<1>3. ASSUME CommandStep(t)
      PROVE  /\ AtRest(t) /\ ~(pc[t] = "synced" /\ ~threw[t] /\ docState[t] = "STARTED")
                  => AtRest(t)'
             /\ AtRest(t) /\ Synchronous(t)' => AtRest(t)'
             /\ pc'[t] = "synced" => pc[t] = "synced" \/ Synchronous(t)
  <2> USE <1>1 DEF Past, Clearing, Over, Goto
  <2>1. CASE ClearTaskLock(t)
    BY <2>1 DEF ClearTaskLock
  <2>2. CASE ClearTaskLocksReturns(t)
    BY <2>2 DEF ClearTaskLocksReturns, AfterClear, Synchronous, TypeOK
  <2>3. CASE MarkTaskAsDone(t) \/ MarkTaskAsFailed(t)
    BY <2>3 DEF MarkTaskAsDone, MarkTaskAsFailed, TypeOK
  <2>4. CASE ResubmitCommand(t) \/ ReturnAfterSync(t)
    BY SMT, <2>4 DEF ResubmitCommand, ReturnAfterSync, Synchronous, TypeOK
  <2>5. CASE SubmitToNewThread(t) \/ SubmitToQueue(t) \/ SubmitRejected(t)
    BY <2>5 DEF SubmitToNewThread, SubmitToQueue, SubmitRejected, TypeOK
  <2>6. CASE \/ MarkTaskAsStarted(t) \/ MarkTaskAsStartedFails(t)
             \/ SetTaskLock(t) \/ SetTaskLockFails(t)
    BY <2>6 DEF MarkTaskAsStarted, MarkTaskAsStartedFails, SetTaskLock,
       SetTaskLockFails, NextLock, TypeOK
  <2>7. CASE SkipStep(t) \/ StepWork(t) \/ ExecuteReturns(t)
    BY <2>7 DEF SkipStep, StepWork, ExecuteReturns, TypeOK
  <2>8. CASE MarkStepAsStarted(t) \/ MarkStepAsDone(t) \/ MarkStepAsFailed(t)
    BY <2>8 DEF MarkStepAsStarted, MarkStepAsDone, MarkStepAsFailed, TypeOK
  <2>9. QED
    BY <1>3, <2>1, <2>2, <2>3, <2>4, <2>5, <2>6, <2>7, <2>8 DEF CommandStep
<1>4. ASSUME NEW n \in Nodes, WorkerTake(n)
      PROVE  pc'[t] = pc[t] \/ (pc[t] = "queued" /\ pc'[t] = "run")
  <2>1. /\ workQueue[n] \in Seq(Tasks) /\ workQueue[n] # <<>>
        /\ Head(workQueue[n]) = workQueue[n][1]
        /\ 1 \in 1 .. Len(workQueue[n])
    BY SMT, <1>1, <1>4 DEF WorkerTake, TypeOK
  <2>2. t = Head(workQueue[n]) => pc[t] = "queued"
    BY SMT, <2>1, QueueElements
  <2>3. QED
    BY <1>1, <1>4, <2>2 DEF WorkerTake, Goto, TypeOK
<1>5. ASSUME NEW n \in Nodes, Crash(n) PROVE pc'[t] \in {pc[t], "dead"}
  BY <1>5 DEF Crash
<1>6. ASSUME NEW u \in Tasks, CreateTask(u) \/ CreateTaskFails(u)
      PROVE  \/ pc'[t] = pc[t]
             \/ pc[t] = "none" /\ pc'[t] \in {"run", "submit", "returned"}
  BY <1>1, <1>6 DEF CreateTask, CreateTaskFails, Goto, TypeOK
<1>7. ASSUME Deliver \/ Terminated \/ UNCHANGED vars PROVE pc'[t] = pc[t]
  BY <1>7 DEF Deliver, Terminated, vars
<1>8. QED
  BY <1>2, <1>3, <1>4, <1>5, <1>6, <1>7 DEF Next, Past, Clearing, Over

\* The second command is the last, an exception of markAsFailed is not taken
\* back, and a first command holds the last step back.
LEMMA FirstStays ==
    ASSUME ControlInv, RestInv, [Next]_vars, NEW t \in Tasks
    PROVE  /\ threw[t] => threw'[t]
           /\ Synchronous(t)' => Synchronous(t) /\ HoldsBack(t)'
           /\ pc'[t] = "synced" => Synchronous(t)'
<1>1. /\ TypeOK /\ NumSteps[t] \in StepsOf(t)
      /\ memStep[t] \in [StepsOf(t) -> StepState] /\ DOMAIN memStep = Tasks
  BY SMT, StepAssumption DEF ControlInv, TypeOK, StepsOf
<1>2. /\ Synchronous(t) => HoldsBack(t)
      /\ pc[t] = "synced" => Synchronous(t)
  BY DEF RestInv
<1>3. ASSUME UNCHANGED execVars,
             pc'[t] \in {pc[t], "run", "submit", "returned", "dead"}
      PROVE  /\ threw[t] => threw'[t]
             /\ Synchronous(t)' => Synchronous(t) /\ HoldsBack(t)'
             /\ pc'[t] = "synced" => Synchronous(t)'
  BY <1>2, <1>3 DEF execVars, Synchronous, HoldsBack
<1>4. ASSUME NEW u \in Tasks, CommandStep(u), u # t
      PROVE  /\ threw[t] => threw'[t]
             /\ Synchronous(t)' => Synchronous(t) /\ HoldsBack(t)'
             /\ pc'[t] = "synced" => Synchronous(t)'
  <2>1. pc'[t] = pc[t]
    BY <1>1, <1>4, CommandControl
  <2>2. /\ threw'[t] = threw[t] /\ cmd'[t] = cmd[t] /\ cur'[t] = cur[t]
        /\ memStep'[t] = memStep[t]
    BY <1>1, <1>4 DEF TypeOK, CommandStep, SubmitToNewThread, SubmitToQueue,
       SubmitRejected, MarkTaskAsStarted, MarkTaskAsStartedFails, SetTaskLock,
       SetTaskLockFails, SkipStep, MarkStepAsStarted, StepWork, MarkStepAsDone,
       MarkStepAsFailed, ExecuteReturns, ClearTaskLock, ClearTaskLocksReturns,
       MarkTaskAsDone, MarkTaskAsFailed, ResubmitCommand, ReturnAfterSync, SetMemStep,
       execVars
  <2>3. QED
    BY <1>2, <2>1, <2>2 DEF Synchronous, HoldsBack
<1>5. ASSUME CommandStep(t)
      PROVE  /\ threw[t] => threw'[t]
             /\ Synchronous(t)' => Synchronous(t) /\ HoldsBack(t)'
             /\ pc'[t] = "synced" => Synchronous(t)'
  <2> USE <1>1, <1>2 DEF Goto, Synchronous, HoldsBack, TypeOK
  <2>1. CASE SubmitToNewThread(t) \/ SubmitToQueue(t) \/ SubmitRejected(t)
    BY <2>1 DEF SubmitToNewThread, SubmitToQueue, SubmitRejected, execVars
  <2>2. CASE MarkTaskAsStarted(t) \/ SetTaskLock(t)
    BY <2>2 DEF MarkTaskAsStarted, SetTaskLock, NextLock
  <2>3. CASE MarkTaskAsStartedFails(t) \/ SetTaskLockFails(t)
    BY <2>3 DEF MarkTaskAsStartedFails, SetTaskLockFails, execVars
  <2>4. CASE SkipStep(t) \/ StepWork(t) \/ ExecuteReturns(t)
    BY <2>4 DEF SkipStep, StepWork, ExecuteReturns, execVars
  <2>5. CASE MarkStepAsStarted(t)
    BY <2>5 DEF MarkStepAsStarted, SetMemStep, Disabled
  <2>6. CASE MarkStepAsDone(t) \/ MarkStepAsFailed(t)
    BY SMT, <2>6 DEF MarkStepAsDone, MarkStepAsFailed, SetMemStep
  <2>7. CASE ClearTaskLock(t)
    BY <2>7 DEF ClearTaskLock, Clearing
  <2>8. CASE ClearTaskLocksReturns(t)
    BY <2>8 DEF ClearTaskLocksReturns, AfterClear, Clearing
  <2>9. CASE MarkTaskAsDone(t) \/ ReturnAfterSync(t)
    BY <2>9 DEF MarkTaskAsDone, ReturnAfterSync, execVars
  <2>10. CASE MarkTaskAsFailed(t)
    BY <2>10 DEF MarkTaskAsFailed
  <2>11. CASE ResubmitCommand(t)
    BY <2>11 DEF ResubmitCommand
  <2> HIDE <1>1, <1>2 DEF Goto, Synchronous, HoldsBack, TypeOK
  <2>12. QED
    BY <1>5, <2>1, <2>2, <2>3, <2>4, <2>5, <2>6, <2>7, <2>8, <2>9, <2>10, <2>11
       DEF CommandStep
<1>6. ASSUME \/ \E u \in Tasks : CreateTask(u) \/ CreateTaskFails(u)
             \/ \E n \in Nodes : WorkerTake(n) \/ Crash(n)
             \/ Deliver \/ Terminated \/ UNCHANGED vars
      PROVE  UNCHANGED execVars /\ pc'[t] \in {pc[t], "run", "submit", "returned", "dead"}
  <2>1. UNCHANGED execVars
    BY <1>6 DEF CreateTask, CreateTaskFails, WorkerTake, Crash, Deliver, Terminated, vars
  <2>2. pc'[t] \in {pc[t], "run", "submit", "returned", "dead"}
    BY ZenonT(30), <1>1, <1>6 DEF CreateTask, CreateTaskFails, WorkerTake, Crash, Deliver,
       Terminated, vars, Goto, TypeOK
  <2>3. QED
    BY <2>1, <2>2
<1>7. QED
  BY <1>3, <1>4, <1>5, <1>6 DEF Next

LEMMA RestInductive ==
    ASSUME ControlInv, RestInv, [Next]_vars
    PROVE  RestInv'
<1>1. ASSUME NEW t \in Tasks, AtRest(t),
             pc[t] # "synced" \/ threw[t] \/ docState[t] # "STARTED"
      PROVE  AtRest(t)'
  BY <1>1, RestStays
<1>2. ASSUME NEW p \in latePatch, p.step = 0, p.state \in Terminal
      PROVE  p.task \in Tasks /\ AtRest(p.task)' /\ NotRunAgain(p.task)'
  <2>1. p.task \in Tasks /\ AtRest(p.task) /\ NotRunAgain(p.task)
    BY <1>2 DEF ControlInv, TypeOK, Patches, RestInv
  <2>2. pc[p.task] = "synced" => threw[p.task]
    BY <2>1 DEF RestInv, NotRunAgain
  <2>3. AtRest(p.task)'
    BY <1>1, <2>1, <2>2
  <2>4. NotRunAgain(p.task)'
    BY <2>1, FirstStays DEF NotRunAgain
  <2>5. QED
    BY <2>1, <2>3, <2>4
<1>3. ASSUME NEW t \in Tasks, pc[t] \in {"markDone", "markFailed"}
      PROVE  AtRest(t)'
  BY <1>1, <1>3 DEF AtRest, Past
<1>4. ~LateDelivery => latePatch' = {}
  BY DocumentStep DEF RestInv
<1>5. ASSUME NEW t \in Tasks
      PROVE  /\ pc'[t] = "synced" => Synchronous(t)'
             /\ Synchronous(t)' => HoldsBack(t)'
  BY FirstStays
<1>6. ASSUME NEW t \in Tasks, docState'[t] \in Terminal PROVE AtRest(t)'
  <2>1. CASE docState'[t] = docState[t]
    BY <1>1, <1>6, <2>1 DEF RestInv, Terminal
  <2>2. CASE Concludes(t, docState'[t])
    BY <1>3, <2>2 DEF Concludes
  <2>3. CASE \E p \in latePatch : p.step = 0 /\ p.task = t /\ docState'[t] = p.state
    BY <1>2, <1>6, <2>3
  <2>4. QED
    BY <1>6, <2>1, <2>2, <2>3, DocumentStep DEF Terminal
<1>7. ASSUME NEW p \in latePatch', p.step = 0, p.state \in Terminal
      PROVE  AtRest(p.task)' /\ NotRunAgain(p.task)'
  <2>1. CASE p \in latePatch
    BY <1>2, <1>7, <2>1
  <2>2. CASE p \notin latePatch
    <3>1. Concludes(p.task, p.state) /\ p.task \in Tasks
          /\ (p.state = "ERROR" => threw'[p.task])
      BY SMT, <1>7, <2>2, DocumentStep DEF Patches
    <3>2. AtRest(p.task)'
      BY <1>3, <3>1 DEF Concludes
    <3>3. p.state = "COMPLETED" => ~Synchronous(p.task)
      BY <3>1 DEF Concludes, RestInv, HoldsBack
    <3>4. NotRunAgain(p.task)'
      BY <1>7, <3>1, <3>3, FirstStays DEF NotRunAgain, Terminal
    <3>5. QED
      BY <3>2, <3>4
  <2>3. QED
    BY <2>1, <2>2
<1>8. QED
  BY <1>4, <1>5, <1>6, <1>7 DEF RestInv, AtRest, NotRunAgain, Synchronous, HoldsBack

LEMMA RestMeansIdle ==
    ASSUME NEW t \in Tasks, AtRest(t)
    PROVE  pc[t] \notin Executing \cup {"run", "lock"}
BY DEF AtRest, Past, Clearing, Over, Executing

\* While a task document says ERROR or COMPLETED, no thread takes the task's
\* locks or runs its steps, whichever requests outlive their senders and with
\* one command or two.
THEOREM ConcludedTasksAreIdle == Spec => []TerminalMeansIdle
<1>1. Init => ControlInv /\ RestInv
  BY InitControl, InitRest
<1>2. ControlInv /\ [Next]_vars => ControlInv'
  BY TypeInductive, LockIndexInductive, QueueInductive DEF ControlInv
<1>3. ControlInv /\ RestInv /\ [Next]_vars => RestInv'
  BY RestInductive
<1>4. RestInv => TerminalMeansIdle
  BY RestMeansIdle DEF RestInv, TerminalMeansIdle
<1>5. QED
  BY <1>1, <1>2, <1>3, <1>4, PTL DEF Spec

-----------------------------------------------------------------------------
(* What a document says of its steps.                                       *)

AllDone(t) ==
    \A s \in StepsOf(t) : memStep[t][s] = "COMPLETED" /\ docStep[t][s] = "COMPLETED"

\* The step at hand failed, or its command is no more.
GivenUp(t) == pc[t] \in {"stepFail"} \cup Over

\* A StepEntity says COMPLETED ahead of the document only while the patch that
\* says so is sent, or when it failed.
StepsOK(t) ==
    /\ pc[t] = "none" => \A s \in StepsOf(t) : memStep[t][s] = "QUEUED"
    /\ pc[t] \in {"work", "stepDone"}
          => cur[t] \in StepsOf(t) /\ memStep[t][cur[t]] = "STARTED"
    /\ \A s \in StepsOf(t) :
          memStep[t][s] = "COMPLETED"
             => docStep[t][s] = "COMPLETED" \/ (s = cur[t] /\ GivenUp(t))
    /\ pc[t] = "markDone" => \A s \in StepsOf(t) : memStep[t][s] = "COMPLETED"
    /\ docState[t] = "COMPLETED" => AllDone(t)

\* No patch under way can take back the completion of a step.
LateOK(p) ==
    /\ p.step = 0 /\ p.state = "COMPLETED" => AllDone(p.task)
    /\ p.step \in StepsOf(p.task) /\ p.state # "COMPLETED"
          => \/ memStep[p.task][p.step] = "ERROR"
             \/ /\ memStep[p.task][p.step] = "STARTED"
                /\ p.step = cur[p.task] /\ GivenUp(p.task)

StepsInv == (\A t \in Tasks : StepsOK(t)) /\ (\A p \in latePatch : LateOK(p))

SameSteps(t) ==
    \A s \in StepsOf(t) :
        memStep'[t][s] = memStep[t][s] /\ docStep'[t][s] = docStep[t][s]

LEMMA DocStepEffect ==
    ASSUME TypeOK, NEW p \in Patches,
           PatchApplied(p) \/ PatchNotFound(p) \/ PatchFails(p)
    PROVE  /\ \A t \in Tasks : \A s \in StepsOf(t) :
                \/ docStep'[t][s] = docStep[t][s]
                \/ t = p.task /\ s = p.step /\ docStep'[t][s] = p.state
           /\ p.step = 0 => \A t \in Tasks : docStep'[t] = docStep[t]
           /\ PatchApplied(p) /\ p.step \in StepsOf(p.task) /\ p.step # 0
                => docStep'[p.task][p.step] = p.state
<1>1. p.task \in Tasks
  BY DEF Patches
<1>2. Apply(p) \/ UNCHANGED <<docState, docStep>>
  BY DEF PatchApplied, PatchNotFound, PatchFails, docVars
<1>3. ASSUME Apply(p), p.step # 0
      PROVE  /\ \A t \in Tasks : t # p.task => docStep'[t] = docStep[t]
             /\ \A s \in StepsOf(p.task) :
                   docStep'[p.task][s] = IF s = p.step THEN p.state
                                         ELSE docStep[p.task][s]
  <2>1. docStep' = [docStep EXCEPT ![p.task] =
                        [docStep[p.task] EXCEPT ![p.step] = p.state]]
    BY <1>3 DEF Apply
  <2>2. /\ docStep'[p.task] = [docStep[p.task] EXCEPT ![p.step] = p.state]
        /\ \A t \in Tasks : t # p.task => docStep'[t] = docStep[t]
    BY <1>1, <2>1 DEF TypeOK
  <2>3. docStep[p.task] \in [StepsOf(p.task) -> StepState]
    BY <1>1 DEF TypeOK
  <2>4. QED
    BY <2>2, <2>3
<1>4. Apply(p) /\ p.step = 0 => docStep' = docStep
  BY DEF Apply
<1>5. PatchApplied(p) => Apply(p)
  BY DEF PatchApplied
<1>6. QED
  BY <1>1, <1>2, <1>3, <1>4, <1>5

LEMMA MemStepEffect ==
    ASSUME TypeOK, NEW t \in Tasks, NEW st, SetMemStep(t, st)
    PROVE  /\ \A u \in Tasks : u # t => memStep'[u] = memStep[u]
           /\ \A s \in StepsOf(t) :
                 memStep'[t][s] = IF s = cur[t] THEN st ELSE memStep[t][s]
<1>1. memStep' = [memStep EXCEPT ![t] = [memStep[t] EXCEPT ![cur[t]] = st]]
  BY DEF SetMemStep
<1>2. /\ memStep'[t] = [memStep[t] EXCEPT ![cur[t]] = st]
      /\ \A u \in Tasks : u # t => memStep'[u] = memStep[u]
  BY <1>1 DEF TypeOK
<1>3. memStep[t] \in [StepsOf(t) -> StepState]
  BY DEF TypeOK
<1>4. QED
  BY <1>2, <1>3

\* A step after which the steps of t are as before.
LEMMA StepsKept ==
    ASSUME NEW t \in Tasks, StepsOK(t), SameSteps(t),
           pc'[t] = "none" => pc[t] = "none",
           pc'[t] \in {"work", "stepDone"}
              => pc[t] \in {"work", "stepDone"} /\ cur'[t] = cur[t],
           GivenUp(t) => GivenUp(t)' /\ cur'[t] = cur[t],
           pc'[t] = "markDone" => \/ pc[t] = "markDone"
                                  \/ \A s \in StepsOf(t) : memStep[t][s] = "COMPLETED",
           docState'[t] = "COMPLETED" => AllDone(t)
    PROVE  StepsOK(t)'
BY DEF StepsOK, SameSteps, AllDone

\* A step of t's thread that marks no step: StepsKept applies.
LEMMA CommandKeepsSteps ==
    ASSUME ControlInv, StepsInv, NEW t \in Tasks, CommandStep(t),
           ~(MarkStepAsStarted(t) \/ MarkStepAsDone(t) \/ MarkStepAsFailed(t))
    PROVE  /\ \A u \in Tasks : SameSteps(u)
           /\ pc'[t] \notin {"none", "work"}
           /\ pc'[t] = "stepDone" => pc[t] = "work" /\ cur'[t] = cur[t]
           /\ ~GivenUp(t)
           /\ pc'[t] = "markDone" => \A s \in StepsOf(t) : memStep[t][s] = "COMPLETED"
           /\ \A u \in Tasks \ {t} : cur'[u] = cur[u]
           /\ \A q \in latePatch' : q \in latePatch \/ q.step = 0
<1>1. TypeOK /\ pc[t] \in Labels
  BY DEF ControlInv, TypeOK
<1>2. \A st \in {"STARTED", "COMPLETED", "ERROR"} :
          TaskPatch(t, st) \in Patches /\ TaskPatch(t, st).step = 0
  BY PatchTypes DEF TaskPatch, StepState
<1>3. /\ \A u \in Tasks : docStep'[u] = docStep[u]
      /\ \A q \in latePatch' : q \in latePatch \/ q.step = 0
  <2>1. CASE MarkTaskAsStarted(t) \/ MarkTaskAsStartedFails(t)
    BY <1>1, <1>2, <2>1, DocStepEffect, PatchEffect
    DEF MarkTaskAsStarted, MarkTaskAsStartedFails
  <2>2. CASE MarkTaskAsDone(t) \/ MarkTaskAsFailed(t)
    BY <1>1, <1>2, <2>2, DocStepEffect, PatchEffect
    DEF MarkTaskAsDone, MarkTaskAsFailed
  <2>3. QED
    BY <2>1, <2>2, NoPatch DEF docVars
<1>4. memStep' = memStep
  BY DEF CommandStep, SubmitToNewThread, SubmitToQueue, SubmitRejected,
     MarkTaskAsStarted, MarkTaskAsStartedFails, SetTaskLock, SetTaskLockFails,
     SkipStep, StepWork, ExecuteReturns, ClearTaskLock, ClearTaskLocksReturns,
     MarkTaskAsDone, MarkTaskAsFailed, ResubmitCommand, ReturnAfterSync, execVars
<1>5. \A u \in Tasks : SameSteps(u)
  BY <1>3, <1>4 DEF SameSteps
<1>6. /\ pc'[t] \notin {"none", "work"}
      /\ pc'[t] = "stepDone" => pc[t] = "work" /\ cur'[t] = cur[t]
      /\ ~GivenUp(t)
      /\ pc'[t] = "markDone" => \A s \in StepsOf(t) : memStep[t][s] = "COMPLETED"
      /\ \A u \in Tasks \ {t} : cur'[u] = cur[u]
  <2> USE <1>1 DEF Goto, GivenUp, Over
  <2>1. CASE SubmitToNewThread(t) \/ SubmitToQueue(t) \/ SubmitRejected(t)
    BY <2>1 DEF SubmitToNewThread, SubmitToQueue, SubmitRejected, TypeOK, execVars
  <2>2. CASE \/ MarkTaskAsStarted(t) \/ MarkTaskAsStartedFails(t)
             \/ SetTaskLock(t) \/ SetTaskLockFails(t)
    BY <2>2 DEF MarkTaskAsStarted, MarkTaskAsStartedFails, SetTaskLock,
       SetTaskLockFails, NextLock, TypeOK, execVars
  <2>3. CASE SkipStep(t) \/ StepWork(t) \/ ExecuteReturns(t)
    BY <2>3 DEF SkipStep, StepWork, ExecuteReturns, TypeOK, execVars
  <2>4. CASE ClearTaskLock(t)
    BY <2>4, <1>5 DEF ClearTaskLock, Clearing
  <2>5. CASE ClearTaskLocksReturns(t)
    <3>1. /\ pc[t] \in Clearing /\ pc'[t] = AfterClear(t) /\ cur' = cur
      BY <2>5 DEF ClearTaskLocksReturns, TypeOK
    <3>2. QED
      BY <3>1 DEF AfterClear, Clearing
  <2>6. CASE MarkTaskAsDone(t) \/ MarkTaskAsFailed(t)
    BY <2>6 DEF MarkTaskAsDone, MarkTaskAsFailed, TypeOK, execVars
  <2>7. CASE ResubmitCommand(t) \/ ReturnAfterSync(t)
    BY <2>7 DEF ResubmitCommand, ReturnAfterSync, TypeOK, execVars
  <2>8. QED
    BY <2>1, <2>2, <2>3, <2>4, <2>5, <2>6, <2>7 DEF CommandStep
<1>7. QED
  BY <1>3, <1>5, <1>6

\* What the three steps that mark a step do: the StepEntity changes, and the
\* document if the patch is applied.
LEMMA MarkEffect ==
    ASSUME ControlInv, NEW t \in Tasks,
           MarkStepAsStarted(t) \/ MarkStepAsDone(t) \/ MarkStepAsFailed(t)
    PROVE  /\ \A u \in Tasks \ {t} : SameSteps(u) /\ cur'[u] = cur[u] /\ pc'[u] = pc[u]
           /\ \A s \in StepsOf(t) : s # cur[t] =>
                 memStep'[t][s] = memStep[t][s] /\ docStep'[t][s] = docStep[t][s]
           /\ docState' = docState
           /\ \E st \in {"STARTED", "COMPLETED", "ERROR"} :
                /\ cur[t] \in StepsOf(t) => memStep'[t][cur[t]] = st
                /\ \A q \in latePatch' : \/ q \in latePatch
                                         \/ q = StepPatch(t, cur[t], st)
                /\ \/ /\ st = "STARTED" /\ pc[t] = "step" /\ cur[t] \in StepsOf(t)
                      /\ pc'[t] \in {"work", "stepFail"} /\ cur'[t] = cur[t]
                      /\ pc'[t] = "work" => UNCHANGED latePatch
                   \/ /\ st = "COMPLETED" /\ pc[t] = "stepDone"
                      /\ \/ /\ pc'[t] = "step"
                            /\ cur[t] \in StepsOf(t) => docStep'[t][cur[t]] = "COMPLETED"
                         \/ pc'[t] = "stepFail" /\ cur'[t] = cur[t]
                   \/ /\ st = "ERROR" /\ pc[t] = "stepFail"
                      /\ pc'[t] = "failClear" /\ cur'[t] = cur[t]
<1>1. TypeOK /\ cur[t] \in Nat \ {0} /\ cur \in [Tasks -> Nat \ {0}]
  BY DEF ControlInv, TypeOK
<1>2. \A st \in {"STARTED", "COMPLETED", "ERROR"} :
          /\ StepPatch(t, cur[t], st) \in Patches
          /\ StepPatch(t, cur[t], st).step = cur[t]
          /\ StepPatch(t, cur[t], st).task = t
          /\ StepPatch(t, cur[t], st).state = st
  BY <1>1, PatchTypes DEF StepPatch, StepState
<1>3. ASSUME NEW st \in {"STARTED", "COMPLETED", "ERROR"}, SetMemStep(t, st),
             \/ PatchApplied(StepPatch(t, cur[t], st))
             \/ PatchNotFound(StepPatch(t, cur[t], st))
             \/ PatchFails(StepPatch(t, cur[t], st))
      PROVE  /\ \A u \in Tasks \ {t} : SameSteps(u)
             /\ \A s \in StepsOf(t) : s # cur[t] =>
                   memStep'[t][s] = memStep[t][s] /\ docStep'[t][s] = docStep[t][s]
             /\ docState' = docState
             /\ cur[t] \in StepsOf(t) => memStep'[t][cur[t]] = st
             /\ \A q \in latePatch' : q \in latePatch \/ q = StepPatch(t, cur[t], st)
             /\ PatchApplied(StepPatch(t, cur[t], st)) =>
                   /\ UNCHANGED latePatch
                   /\ cur[t] \in StepsOf(t) => docStep'[t][cur[t]] = st
  <2> DEFINE p == StepPatch(t, cur[t], st)
  <2>1. p \in Patches /\ p.step = cur[t] /\ p.task = t /\ p.state = st
    BY <1>2
  <2>2. PatchApplied(p) \/ PatchNotFound(p) \/ PatchFails(p)
    BY <1>3
  <2> HIDE DEF p
  <2>3. /\ \A u \in Tasks \ {t} : SameSteps(u)
        /\ \A s \in StepsOf(t) : s # cur[t] =>
              memStep'[t][s] = memStep[t][s] /\ docStep'[t][s] = docStep[t][s]
        /\ cur[t] \in StepsOf(t) => memStep'[t][cur[t]] = st
        /\ PatchApplied(p) /\ cur[t] \in StepsOf(t) => docStep'[t][cur[t]] = st
    BY SMT, <1>1, <1>3, <2>1, <2>2, DocStepEffect, MemStepEffect DEF SameSteps
  <2>4. /\ \A q \in latePatch' : q \in latePatch \/ q = p
        /\ PatchApplied(p) => UNCHANGED latePatch
    BY <1>1, <2>1, <2>2, PatchEffect DEF PatchApplied
  <2>5. docState' = docState
    BY <1>1, <2>1, <2>2 DEF PatchApplied, PatchNotFound, PatchFails, Apply, docVars
  <2>6. QED
    BY <2>3, <2>4, <2>5 DEF p
<1>4. CASE MarkStepAsStarted(t)
  <2>1. /\ SetMemStep(t, "STARTED")
        /\ \/ PatchApplied(StepPatch(t, cur[t], "STARTED"))
           \/ PatchNotFound(StepPatch(t, cur[t], "STARTED"))
           \/ PatchFails(StepPatch(t, cur[t], "STARTED"))
    BY <1>4 DEF MarkStepAsStarted
  <2>2. /\ pc[t] = "step" /\ cur[t] \in StepsOf(t) /\ cur' = cur
        /\ pc'[t] \in {"work", "stepFail"}
        /\ pc'[t] = "work" => PatchApplied(StepPatch(t, cur[t], "STARTED"))
        /\ \A u \in Tasks \ {t} : pc'[u] = pc[u]
    BY <1>1, <1>4 DEF MarkStepAsStarted, Goto, TypeOK
  <2>3. QED
    BY <1>3, <2>1, <2>2
<1>5. CASE MarkStepAsDone(t)
  <2>1. /\ SetMemStep(t, "COMPLETED")
        /\ \/ PatchApplied(StepPatch(t, cur[t], "COMPLETED"))
           \/ PatchNotFound(StepPatch(t, cur[t], "COMPLETED"))
           \/ PatchFails(StepPatch(t, cur[t], "COMPLETED"))
    BY <1>5 DEF MarkStepAsDone
  <2>2. /\ pc[t] = "stepDone"
        /\ \/ pc'[t] = "step" /\ PatchApplied(StepPatch(t, cur[t], "COMPLETED"))
           \/ pc'[t] = "stepFail" /\ cur'[t] = cur[t]
        /\ \A u \in Tasks \ {t} : pc'[u] = pc[u] /\ cur'[u] = cur[u]
    BY <1>1, <1>5 DEF MarkStepAsDone, Goto, TypeOK
  <2>3. QED
    BY <1>3, <2>1, <2>2
<1>6. CASE MarkStepAsFailed(t)
  <2>1. /\ SetMemStep(t, "ERROR")
        /\ \/ PatchApplied(StepPatch(t, cur[t], "ERROR"))
           \/ PatchNotFound(StepPatch(t, cur[t], "ERROR"))
           \/ PatchFails(StepPatch(t, cur[t], "ERROR"))
    BY <1>6 DEF MarkStepAsFailed
  <2>2. /\ pc[t] = "stepFail" /\ pc'[t] = "failClear" /\ cur' = cur
        /\ \A u \in Tasks \ {t} : pc'[u] = pc[u]
    BY <1>1, <1>6 DEF MarkStepAsFailed, Goto, TypeOK
  <2>3. QED
    BY <1>3, <2>1, <2>2
<1>7. QED
  BY <1>4, <1>5, <1>6

\* A document that comes to say COMPLETED is of a task all of whose steps are.
LEMMA CompletedSteps ==
    ASSUME ControlInv, StepsInv, [Next]_vars
    PROVE  /\ \A t \in Tasks : docState'[t] = "COMPLETED" => AllDone(t)
           /\ \A p \in latePatch' \ latePatch :
                 p.step = 0 /\ p.state = "COMPLETED" => p.task \in Tasks /\ AllDone(p.task)
<1>1. ASSUME NEW t \in Tasks, pc[t] = "markDone" PROVE AllDone(t)
  BY <1>1 DEF StepsInv, StepsOK, AllDone, GivenUp, Over
<1>2. ASSUME NEW t \in Tasks, docState'[t] = "COMPLETED" PROVE AllDone(t)
  <2>1. CASE docState'[t] = docState[t]
    BY <1>2, <2>1 DEF StepsInv, StepsOK
  <2>2. CASE Concludes(t, docState'[t])
    BY <1>1, <1>2, <2>2 DEF Concludes
  <2>3. CASE \E p \in latePatch : p.step = 0 /\ p.task = t /\ docState'[t] = p.state
    BY <1>2, <2>3 DEF StepsInv, LateOK
  <2>4. QED
    BY <1>2, <2>1, <2>2, <2>3, DocumentStep
<1>3. ASSUME NEW p \in latePatch' \ latePatch, p.step = 0, p.state = "COMPLETED"
      PROVE  p.task \in Tasks /\ AllDone(p.task)
  <2>1. p \in Patches /\ Concludes(p.task, p.state)
    BY <1>3, DocumentStep DEF Terminal
  <2>2. p.task \in Tasks /\ pc[p.task] = "markDone"
    BY <1>3, <2>1 DEF Patches, Concludes
  <2>3. QED
    BY <1>1, <2>2
<1>4. QED
  BY <1>2, <1>3

LEMMA LateKept ==
    ASSUME NEW p, LateOK(p), SameSteps(p.task),
           GivenUp(p.task) => GivenUp(p.task)' /\ cur'[p.task] = cur[p.task]
    PROVE  LateOK(p)'
BY DEF LateOK, AllDone, SameSteps

LEMMA MarkStepSteps ==
    ASSUME ControlInv, RestInv, StepsInv, NEW t \in Tasks,
           MarkStepAsStarted(t) \/ MarkStepAsDone(t) \/ MarkStepAsFailed(t)
    PROVE  StepsInv'
<1>1. /\ \A u \in Tasks \ {t} : SameSteps(u) /\ cur'[u] = cur[u] /\ pc'[u] = pc[u]
      /\ \A s \in StepsOf(t) : s # cur[t] =>
            memStep'[t][s] = memStep[t][s] /\ docStep'[t][s] = docStep[t][s]
      /\ docState' = docState
  BY MarkEffect
<1>2. PICK st \in {"STARTED", "COMPLETED", "ERROR"} :
        /\ cur[t] \in StepsOf(t) => memStep'[t][cur[t]] = st
        /\ \A q \in latePatch' : q \in latePatch \/ q = StepPatch(t, cur[t], st)
        /\ \/ /\ st = "STARTED" /\ pc[t] = "step" /\ cur[t] \in StepsOf(t)
              /\ pc'[t] \in {"work", "stepFail"} /\ cur'[t] = cur[t]
              /\ pc'[t] = "work" => UNCHANGED latePatch
           \/ /\ st = "COMPLETED" /\ pc[t] = "stepDone"
              /\ \/ /\ pc'[t] = "step"
                    /\ cur[t] \in StepsOf(t) => docStep'[t][cur[t]] = "COMPLETED"
                 \/ pc'[t] = "stepFail" /\ cur'[t] = cur[t]
           \/ /\ st = "ERROR" /\ pc[t] = "stepFail"
              /\ pc'[t] = "failClear" /\ cur'[t] = cur[t]
  BY MarkEffect
<1>3. pc[t] \in Executing /\ ~AtRest(t)
  BY <1>2, RestMeansIdle DEF Executing
<1>4. docState[t] # "COMPLETED"
  BY <1>3 DEF RestInv, Terminal
<1>5. \A u \in Tasks \ {t} : StepsOK(u)'
  BY SMT, <1>1, StepsKept DEF StepsInv, StepsOK, GivenUp
<1>6. StepsOK(t)'
  <2>1. StepsOK(t)
    BY DEF StepsInv
  <2>2. /\ pc'[t] \notin {"none", "stepDone", "markDone"}
        /\ docState'[t] # "COMPLETED"
    BY <1>1, <1>2, <1>4
  <2>3. pc'[t] = "work" => /\ cur'[t] \in StepsOf(t)
                           /\ memStep'[t][cur'[t]] = "STARTED"
    BY <1>2
  <2>4. ASSUME NEW s \in StepsOf(t), memStep'[t][s] = "COMPLETED"
        PROVE  docStep'[t][s] = "COMPLETED" \/ (s = cur'[t] /\ GivenUp(t)')
    <3>1. CASE s # cur[t]
      BY <1>1, <1>2, <2>1, <2>4, <3>1 DEF StepsOK, GivenUp
    <3>2. CASE s = cur[t]
      BY <1>2, <2>4, <3>2 DEF GivenUp
    <3>3. QED
      BY <3>1, <3>2
  <2>5. QED
    BY <2>2, <2>3, <2>4 DEF StepsOK, GivenUp
<1>7. ASSUME NEW p \in latePatch' PROVE LateOK(p)'
  <2>1. CASE p \in latePatch /\ p.task # t
    <3>1. p.task \in Tasks \ {t}
      BY <2>1 DEF ControlInv, TypeOK, Patches
    <3>2. QED
      BY <1>1, <2>1, <3>1, LateKept DEF StepsInv, GivenUp
  <2>2. CASE p \in latePatch /\ p.task = t
    <3>1. LateOK(p)
      BY <2>2 DEF StepsInv
    <3>2. ~(p.step = 0 /\ p.state = "COMPLETED")
      BY <1>3, <2>2 DEF RestInv, Terminal
    <3>3. ASSUME p.step \in StepsOf(t), p.state # "COMPLETED"
          PROVE  \/ memStep'[t][p.step] = "ERROR"
                 \/ /\ memStep'[t][p.step] = "STARTED"
                    /\ p.step = cur'[t] /\ GivenUp(t)'
      <4>1. CASE p.step # cur[t]
        BY <1>1, <2>2, <3>1, <3>3, <4>1 DEF LateOK
      <4>2. CASE p.step = cur[t] /\ pc[t] = "stepFail"
        BY <1>2, <3>3, <4>2
      <4>3. CASE p.step = cur[t] /\ pc[t] = "stepDone"
        <5>1. memStep[t][cur[t]] = "STARTED"
          BY <4>3 DEF StepsInv, StepsOK
        <5>2. QED
          BY <2>2, <3>1, <3>3, <4>3, <5>1 DEF LateOK, GivenUp, Over
      <4>4. CASE p.step = cur[t] /\ pc[t] = "step"
        <5>1. memStep[t][cur[t]] = "ERROR" \/ GivenUp(t)
          BY <2>2, <3>1, <3>3, <4>4 DEF LateOK
        <5>2. ~GivenUp(t)
          BY <4>4 DEF GivenUp, Over
        <5>3. MarkStepAsStarted(t)
          BY <4>4 DEF MarkStepAsDone, MarkStepAsFailed
        <5>4. memStep[t][cur[t]] = "QUEUED"
          BY <5>3 DEF MarkStepAsStarted
        <5>5. QED
          BY <5>1, <5>2, <5>4
      <4>5. QED
        BY <1>2, <4>1, <4>2, <4>3, <4>4
    <3>4. QED
      BY <2>2, <3>2, <3>3 DEF LateOK, GivenUp
  <2>3. CASE p \notin latePatch
    <3>1. p = StepPatch(t, cur[t], st) /\ latePatch' # latePatch
      BY <1>2, <1>7, <2>3
    <3>2. p.task = t /\ p.step = cur[t] /\ p.state = st
      BY <3>1 DEF StepPatch
    <3>3. cur[t] # 0
      BY DEF ControlInv, TypeOK
    <3>4. CASE st = "STARTED"
      BY <1>2, <3>1, <3>2, <3>3, <3>4 DEF LateOK, GivenUp
    <3>5. CASE st = "COMPLETED"
      BY <3>2, <3>3, <3>5 DEF LateOK
    <3>6. CASE st = "ERROR"
      BY <1>2, <3>2, <3>3, <3>6 DEF LateOK
    <3>7. QED
      BY <3>4, <3>5, <3>6
  <2>4. QED
    BY <2>1, <2>2, <2>3
<1>8. QED
  BY <1>5, <1>6, <1>7 DEF StepsInv

LEMMA StepsInductive ==
    ASSUME ControlInv, RestInv, StepsInv, [Next]_vars
    PROVE  StepsInv'
<1>1. TypeOK
  BY DEF ControlInv
<1>2. \A p \in latePatch : p \in Patches /\ p.task \in Tasks
  BY <1>1 DEF TypeOK, Patches
\* Steps that leave StepEntity objects and documented steps alone.
<1>3. ASSUME \A u \in Tasks : /\ SameSteps(u)
                              /\ GivenUp(u) => GivenUp(u)' /\ cur'[u] = cur[u]
                              /\ pc'[u] = "none" => pc[u] = "none"
                              /\ pc'[u] \in {"work", "stepDone"} =>
                                   pc[u] \in {"work", "stepDone"} /\ cur'[u] = cur[u]
                              /\ pc'[u] = "markDone" =>
                                   \/ pc[u] = "markDone"
                                   \/ \A s \in StepsOf(u) : memStep[u][s] = "COMPLETED",
             \A p \in latePatch' : p \in latePatch \/ p.step = 0
      PROVE  StepsInv'
  <2>1. \A u \in Tasks : StepsOK(u)'
    BY <1>3, CompletedSteps, StepsKept DEF StepsInv
  <2>2. ASSUME NEW p \in latePatch' PROVE LateOK(p)'
    <3>1. CASE p \in latePatch
      BY <1>2, <1>3, <3>1, LateKept DEF StepsInv
    <3>2. CASE p \notin latePatch
      <4>1. p.step = 0 /\ p.step \notin StepsOf(p.task)
        BY SMT, <1>3, <2>2, <3>2 DEF StepsOf
      <4>2. p.state = "COMPLETED" => p.task \in Tasks /\ AllDone(p.task)
        BY <2>2, <3>2, <4>1, CompletedSteps
      <4>3. QED
        BY SMT, <1>3, <4>1, <4>2 DEF LateOK, AllDone, SameSteps
    <3>3. QED
      BY <3>1, <3>2
  <2>3. QED
    BY <2>1, <2>2 DEF StepsInv
<1>4. ASSUME NEW t \in Tasks, CommandStep(t),
             ~(MarkStepAsStarted(t) \/ MarkStepAsDone(t) \/ MarkStepAsFailed(t))
      PROVE  StepsInv'
  <2>1. \A u \in Tasks \ {t} : pc'[u] = pc[u]
    BY <1>1, <1>4, CommandControl
  <2>2. /\ \A u \in Tasks : SameSteps(u)
        /\ pc'[t] \notin {"none", "work"}
        /\ pc'[t] = "stepDone" => pc[t] = "work" /\ cur'[t] = cur[t]
        /\ ~GivenUp(t)
        /\ pc'[t] = "markDone" => \A s \in StepsOf(t) : memStep[t][s] = "COMPLETED"
        /\ \A u \in Tasks \ {t} : cur'[u] = cur[u]
        /\ \A q \in latePatch' : q \in latePatch \/ q.step = 0
    BY <1>4, CommandKeepsSteps
  <2>3. QED
    BY <1>3, <2>1, <2>2 DEF GivenUp
<1>5. ASSUME NEW n \in Nodes, WorkerTake(n) \/ Crash(n) PROVE StepsInv'
  <2>1. UNCHANGED <<docStep, memStep, cur, latePatch>>
    BY <1>5 DEF WorkerTake, Crash, docVars, execVars
  <2>2. \A u \in Tasks : \/ pc'[u] = pc[u]
                         \/ pc'[u] = "dead"
                         \/ pc[u] = "queued" /\ pc'[u] = "run"
    <3>1. CASE WorkerTake(n)
      <4>1. /\ workQueue[n] \in Seq(Tasks) /\ workQueue[n] # <<>>
            /\ Head(workQueue[n]) = workQueue[n][1]
            /\ 1 \in 1 .. Len(workQueue[n])
        BY SMT, <1>1, <3>1 DEF WorkerTake, TypeOK
      <4>2. pc[Head(workQueue[n])] = "queued"
        BY SMT, <4>1, QueueElements
      <4>3. QED
        BY <1>1, <3>1, <4>2 DEF WorkerTake, Goto, TypeOK
    <3>2. CASE Crash(n)
      BY <3>2 DEF Crash
    <3>3. QED
      BY <1>5, <3>1, <3>2
  <2>3. \A u \in Tasks : SameSteps(u) /\ (GivenUp(u) => GivenUp(u)')
    BY <2>1, <2>2 DEF SameSteps, GivenUp, Over
  <2>4. QED
    BY <1>3, <2>1, <2>2, <2>3
<1>6. ASSUME NEW t \in Tasks, CreateTask(t) \/ CreateTaskFails(t) PROVE StepsInv'
  <2>1. /\ pc[t] = "none" /\ pc'[t] \in {"run", "submit", "returned"}
        /\ UNCHANGED <<memStep, cur, latePatch>>
        /\ \A u \in Tasks \ {t} : docStep'[u] = docStep[u] /\ pc'[u] = pc[u]
    BY <1>1, <1>6 DEF CreateTask, CreateTaskFails, CreateDocument, Goto, TypeOK,
       execVars, docVars
  <2>2. ~AtRest(t)
    BY <2>1 DEF AtRest, Past, Clearing, Over
  <2>3. docState[t] # "COMPLETED" /\ docState'[t] # "COMPLETED"
    <3>1. docState[t] # "COMPLETED"
      BY <2>2 DEF RestInv, Terminal
    <3>2. QED
      BY <1>1, <1>6, <3>1 DEF CreateTask, CreateTaskFails, CreateDocument, TypeOK,
         docVars
  <2>4. \A s \in StepsOf(t) : memStep[t][s] = "QUEUED"
    BY <2>1 DEF StepsInv, StepsOK
  <2>5. StepsOK(t)'
    BY <2>1, <2>3, <2>4 DEF StepsOK
  <2>6. \A u \in Tasks \ {t} : StepsOK(u)'
    BY <2>1, CompletedSteps, StepsKept DEF StepsInv, SameSteps, GivenUp
  <2>7. ASSUME NEW p \in latePatch' PROVE LateOK(p)'
    <3>1. p \in latePatch /\ p.task \in Tasks /\ LateOK(p)
      BY <1>2, <2>1, <2>7 DEF StepsInv
    <3>2. CASE p.task = t
      <4>1. ~(p.step = 0 /\ p.state = "COMPLETED")
        BY <2>2, <3>1, <3>2 DEF RestInv, Terminal
      <4>2. ~(p.step \in StepsOf(t) /\ p.state # "COMPLETED")
        BY <2>4, <3>1, <3>2 DEF LateOK
      <4>3. QED
        BY <3>2, <4>1, <4>2 DEF LateOK
    <3>3. CASE p.task # t
      BY <2>1, <3>1, <3>3, LateKept DEF SameSteps, GivenUp
    <3>4. QED
      BY <3>2, <3>3
  <2>8. QED
    BY <2>5, <2>6, <2>7 DEF StepsInv
<1>7. ASSUME NEW p \in latePatch, DeliverLatePatch(p),
             UNCHANGED <<lockVars, pc, execVars, poolVars>>
      PROVE  StepsInv'
  <2>1. UNCHANGED <<pc, memStep, cur>> /\ latePatch' \subseteq latePatch
    BY <1>7 DEF execVars, DeliverLatePatch
  <2>2. p \in Patches /\ p.task \in Tasks /\ LateOK(p)
    BY <1>2 DEF StepsInv
  <2>3. \A u \in Tasks : \A s \in StepsOf(u) :
            \/ docStep'[u][s] = docStep[u][s]
            \/ u = p.task /\ s = p.step /\ docStep'[u][s] = p.state
    <3>1. docStep' = docStep
          \/ docStep' = [docStep EXCEPT ![p.task] =
                            [docStep[p.task] EXCEPT ![p.step] = p.state]]
      BY <1>7 DEF DeliverLatePatch, Apply
    <3>2. docStep[p.task] \in [StepsOf(p.task) -> StepState] /\ DOMAIN docStep = Tasks
      BY <1>1, <2>2 DEF TypeOK
    <3>3. QED
      BY SMT, <2>2, <3>1, <3>2
  <2>4. \A u \in Tasks : \A s \in StepsOf(u) :
            memStep[u][s] = "COMPLETED" /\ docStep[u][s] = "COMPLETED"
                => docStep'[u][s] = "COMPLETED"
    BY <2>2, <2>3 DEF LateOK
  <2>5. ASSUME NEW u \in Tasks PROVE StepsOK(u)'
    <3>1. docState'[u] = "COMPLETED" => AllDone(u)
      BY CompletedSteps
    <3>2. QED
      BY SMT, <2>1, <2>4, <3>1 DEF StepsInv, StepsOK, AllDone, GivenUp
  <2>6. ASSUME NEW q \in latePatch' PROVE LateOK(q)'
    BY <1>2, <2>1, <2>4, <2>6 DEF StepsInv, LateOK, AllDone, GivenUp
  <2>7. QED
    BY <2>5, <2>6 DEF StepsInv
<1>8. ASSUME \/ \E r \in lateLock : DeliverLateLock(r)
                  /\ UNCHANGED <<docVars, pc, execVars, poolVars>>
             \/ Terminated \/ UNCHANGED vars
      PROVE  StepsInv'
  <2>1. UNCHANGED <<docStep, memStep, cur, latePatch, pc>>
    BY <1>8 DEF Terminated, vars, docVars, execVars
  <2>2. \A u \in Tasks : SameSteps(u) /\ (GivenUp(u) => GivenUp(u)')
    BY <2>1 DEF SameSteps, GivenUp
  <2>3. QED
    BY <1>3, <2>1, <2>2
<1>9. QED
  BY <1>4, <1>5, <1>6, <1>7, <1>8, MarkStepSteps DEF Next, Deliver

\* A task document that says COMPLETED has only COMPLETED steps: whichever
\* patches fail or outlive their senders, with one command or two.
THEOREM CompletedTasksHaveCompletedSteps == Spec => []CompletedMeansAllSteps
<1>1. Init => ControlInv /\ RestInv /\ StepsInv
  <2>1. Init => StepsInv
    BY SMT DEF Init, StepsInv, StepsOK
  <2>2. QED
    BY <2>1, InitControl, InitRest
<1>2. ControlInv /\ [Next]_vars => ControlInv'
  BY TypeInductive, LockIndexInductive, QueueInductive DEF ControlInv
<1>3. ControlInv /\ RestInv /\ [Next]_vars => RestInv'
  BY RestInductive
<1>4. ControlInv /\ RestInv /\ StepsInv /\ [Next]_vars => StepsInv'
  BY StepsInductive
<1>5. StepsInv => CompletedMeansAllSteps
  BY DEF StepsInv, StepsOK, AllDone, CompletedMeansAllSteps
<1>6. QED
  BY <1>1, <1>2, <1>3, <1>4, <1>5, PTL DEF Spec

-----------------------------------------------------------------------------
(* Which locks a command leaves behind when at most one call has failed.    *)

\* On the list clearTaskLocks is going to clear.
OnList(t, e) == \E i \in 1 .. Len(locked[t]) : locked[t][i] = e

\* On the list of those it could not clear: a call has failed.
Kept(t, e) == faults = 1 /\ \E i \in 1 .. Len(failed[t]) : failed[t][i] = e

\* The lock setTaskLock asked for last, and was not told to have.
Unanswered(t, e) == idx[t] <= Len(ToBeLocked[t]) /\ ToBeLocked[t][idx[t]] = e

\* t has e, or may get it by a request still under way, and does not know.  The
\* call that was not answered is the one that failed, so the failure of t is
\* recorded, and no patch is under way that takes it back: t is not run again.
Lost(t, e) ==
    /\ faults = 1 /\ latePatch = {}
    /\ pc[t] \in {"failClear", "markFailed", "cleanup", "synced", "ended", "returned"}
    /\ pc[t] # "returned" => Unanswered(t, e)
    /\ pc[t] \in {"cleanup", "synced"} => threw[t] \/ docState[t] # "STARTED"

\* t has e and knows: while it takes locks and runs steps e is on its list;
\* after one call of clearTaskLocks it is there only if that failed; after the
\* second it is not.
Known(t, e) ==
    /\ pc[t] \in {"lock", "markDone", "markFailed", "dead"} \cup Executing \cup Clearing
    /\ pc[t] \in {"lock"} \cup Executing => OnList(t, e)
    /\ pc[t] \in {"doneClear", "failClear"} => OnList(t, e) \/ Kept(t, e)
    /\ pc[t] \in {"markDone", "markFailed", "cleanup"} => faults = 1 /\ OnList(t, e)

LeakInv ==
    /\ faults = 0 => latePatch = {} /\ lateLock = {}
    /\ faults <= 1 =>
          /\ \A t \in Tasks, e \in Entities :
                lock[e] = Held(t) => Known(t, e) \/ Lost(t, e)
          /\ \A r \in lateLock : ~r.isAvailable => Lost(r.ownerId, r.entityId)

LEMMA FaultsCounted ==
    ASSUME ControlInv PROVE TypeOK /\ faults \in Nat
<1>1. TypeOK /\ faults \in 0 .. MaxFaults
  BY DEF ControlInv, TypeOK
<1>2. QED
  BY SMT, <1>1

\* A step fails one call at most; one that fails none leaves nothing under way.
LEMMA FaultStep ==
    ASSUME ControlInv, [Next]_vars
    PROVE  /\ faults' \in {faults, faults + 1}
           /\ faults' = faults => latePatch' \subseteq latePatch /\ lateLock' \subseteq lateLock
<1>1. faults \in Nat
  BY FaultsCounted
<1>2. ASSUME NEW p, PatchApplied(p) \/ PatchNotFound(p) \/ PatchFails(p)
      PROVE  /\ faults' \in {faults, faults + 1}
             /\ faults' = faults => latePatch' = latePatch
  BY SMT, <1>1, <1>2 DEF PatchApplied, PatchNotFound, PatchFails, Answered, Fault, docVars
<1>3. ASSUME NEW r, PostAccepted(r) \/ PostRejected(r) \/ PostFails(r)
      PROVE  /\ faults' \in {faults, faults + 1}
             /\ faults' = faults => lateLock' = lateLock
  BY SMT, <1>1, <1>3 DEF PostAccepted, PostRejected, PostFails, Answered, Fault, lockVars
<1>4. ASSUME NEW t \in Tasks, CommandStep(t)
      PROVE  /\ faults' \in {faults, faults + 1}
             /\ faults' = faults => latePatch' = latePatch /\ lateLock' = lateLock
  <2>1. CASE SetTaskLock(t) \/ SetTaskLockFails(t) \/ ClearTaskLock(t)
    <3>1. (\E r : PostAccepted(r) \/ PostRejected(r) \/ PostFails(r)) /\ UNCHANGED docVars
      BY <2>1 DEF SetTaskLock, SetTaskLockFails, ClearTaskLock
    <3>2. QED
      BY <1>3, <3>1 DEF docVars
  <2>2. CASE \/ MarkTaskAsStarted(t) \/ MarkTaskAsStartedFails(t)
             \/ MarkStepAsStarted(t) \/ MarkStepAsDone(t) \/ MarkStepAsFailed(t)
             \/ MarkTaskAsDone(t) \/ MarkTaskAsFailed(t)
    <3>1. /\ \E p : PatchApplied(p) \/ PatchNotFound(p) \/ PatchFails(p)
          /\ UNCHANGED lockVars
      BY <2>2 DEF MarkTaskAsStarted, MarkTaskAsStartedFails, MarkStepAsStarted,
         MarkStepAsDone, MarkStepAsFailed, MarkTaskAsDone, MarkTaskAsFailed
    <3>2. QED
      BY <1>2, <3>1 DEF lockVars
  <2>3. CASE \/ SubmitToNewThread(t) \/ SubmitToQueue(t) \/ SubmitRejected(t)
             \/ SkipStep(t) \/ StepWork(t) \/ ExecuteReturns(t)
             \/ ClearTaskLocksReturns(t) \/ ResubmitCommand(t) \/ ReturnAfterSync(t)
    BY <2>3 DEF SubmitToNewThread, SubmitToQueue, SubmitRejected, SkipStep, StepWork,
       ExecuteReturns, ClearTaskLocksReturns, ResubmitCommand, ReturnAfterSync,
       Answered, Fault, docVars, lockVars
  <2>4. QED
    BY <1>4, <2>1, <2>2, <2>3 DEF CommandStep
<1>5. ASSUME \/ \E t \in Tasks : CreateTask(t) \/ CreateTaskFails(t)
             \/ \E n \in Nodes : WorkerTake(n) \/ Crash(n)
             \/ Deliver \/ Terminated \/ UNCHANGED vars
      PROVE  /\ faults' \in {faults, faults + 1}
             /\ latePatch' \subseteq latePatch /\ lateLock' \subseteq lateLock
  BY <1>5 DEF CreateTask, CreateTaskFails, CreateDocument, WorkerTake, Crash, Deliver,
     DeliverLateLock, DeliverLatePatch, Terminated, vars, docVars, lockVars, Answered,
     Fault
<1>6. QED
  BY <1>4, <1>5 DEF Next

LEMMA CommandOthers ==
    ASSUME ControlInv, NEW t \in Tasks, CommandStep(t), NEW u \in Tasks \ {t}
    PROVE  /\ pc'[u] = pc[u] /\ locked'[u] = locked[u] /\ failed'[u] = failed[u]
           /\ idx'[u] = idx[u] /\ threw'[u] = threw[u]
<1>1. TypeOK
  BY DEF ControlInv
<1>2. pc'[u] = pc[u] /\ idx'[u] = idx[u]
  BY <1>1, CommandControl
<1>3. locked'[u] = locked[u] /\ failed'[u] = failed[u] /\ threw'[u] = threw[u]
  BY ZenonT(30), <1>1 DEF TypeOK, CommandStep, SubmitToNewThread, SubmitToQueue, SubmitRejected,
     MarkTaskAsStarted, MarkTaskAsStartedFails, SetTaskLock, SetTaskLockFails,
     SkipStep, MarkStepAsStarted, StepWork, MarkStepAsDone, MarkStepAsFailed,
     ExecuteReturns, ClearTaskLock, ClearTaskLocksReturns, MarkTaskAsDone,
     MarkTaskAsFailed, ResubmitCommand, ReturnAfterSync, execVars
<1>4. QED
  BY <1>2, <1>3

\* Steps of other tasks' threads, and those of nobody's.
LEMMA OtherSteps ==
    ASSUME ControlInv, [Next]_vars, NEW u \in Tasks, ~CommandStep(u),
           pc[u] \notin {"none", "queued"}
    PROVE  /\ pc'[u] = pc[u] \/ (pc'[u] = "dead" /\ faults' = faults + 1)
           /\ locked'[u] = locked[u] /\ failed'[u] = failed[u]
           /\ idx'[u] = idx[u] /\ threw'[u] = threw[u]
<1>1. TypeOK
  BY DEF ControlInv
<1>2. ASSUME NEW t \in Tasks, CreateTask(t) \/ CreateTaskFails(t)
      PROVE  pc'[u] = pc[u] /\ UNCHANGED execVars
  BY <1>1, <1>2 DEF CreateTask, CreateTaskFails, Goto, TypeOK
<1>3. ASSUME NEW n \in Nodes, WorkerTake(n) PROVE pc'[u] = pc[u] /\ UNCHANGED execVars
  <2>1. pc[Head(workQueue[n])] = "queued"
    <3>1. workQueue[n] \in Seq(Tasks) /\ workQueue[n] # <<>>
      BY <1>1, <1>3 DEF WorkerTake, TypeOK
    <3>2. Head(workQueue[n]) = workQueue[n][1] /\ 1 \in 1 .. Len(workQueue[n])
      BY SMT, <3>1
    <3>3. QED
      BY SMT, <3>2 DEF ControlInv, QueueOK
  <2>2. QED
    BY <1>1, <1>3, <2>1 DEF WorkerTake, Goto, TypeOK
<1>4. ASSUME NEW n \in Nodes, Crash(n)
      PROVE  /\ pc'[u] = pc[u] \/ (pc'[u] = "dead" /\ faults' = faults + 1)
             /\ UNCHANGED execVars
  BY <1>4 DEF Crash, Fault
<1>5. ASSUME Deliver \/ Terminated \/ UNCHANGED vars
      PROVE  pc'[u] = pc[u] /\ UNCHANGED execVars
  BY <1>5 DEF Deliver, Terminated, vars
<1>6. ASSUME NEW t \in Tasks, CommandStep(t), t # u
      PROVE  /\ pc'[u] = pc[u] /\ locked'[u] = locked[u] /\ failed'[u] = failed[u]
             /\ idx'[u] = idx[u] /\ threw'[u] = threw[u]
  BY <1>6, CommandOthers
<1>7. QED
  BY <1>2, <1>3, <1>4, <1>5, <1>6 DEF Next, execVars

LEMMA LostStays ==
    ASSUME ControlInv, [Next]_vars, NEW t \in Tasks, NEW e, Lost(t, e), faults' <= 1
    PROVE  Lost(t, e)'
<1>1. /\ TypeOK /\ faults' = 1 /\ faults' = faults
      /\ latePatch = {} /\ latePatch' = {}
      /\ pc[t] \in {"failClear", "markFailed", "cleanup", "synced", "ended", "returned"}
      /\ pc[t] # "returned" => Unanswered(t, e)
      /\ pc[t] \in {"cleanup", "synced"} => threw[t] \/ docState[t] # "STARTED"
  BY SMT, FaultStep DEF Lost, ControlInv
<1>2. CASE ~CommandStep(t)
  <2>1. pc'[t] = pc[t] /\ idx'[t] = idx[t] /\ threw'[t] = threw[t]
    BY SMT, <1>1, <1>2, OtherSteps
  <2>2. pc[t] \in {"cleanup", "synced"} => docState'[t] = docState[t]
    BY <1>1, DocumentStep DEF Concludes
  <2>3. QED
    BY <1>1, <2>1, <2>2 DEF Lost, Unanswered
<1>3. CASE CommandStep(t)
  <2>1. CASE ClearTaskLock(t)
    <3>1. UNCHANGED <<pc, idx, threw, docState>>
      BY <2>1 DEF ClearTaskLock, docVars
    <3>2. QED
      BY <1>1, <3>1 DEF Lost, Unanswered
  <2>2. CASE ClearTaskLocksReturns(t)
    <3>1. UNCHANGED <<idx, threw, docState>> /\ pc'[t] = AfterClear(t)
      BY <1>1, <2>2 DEF ClearTaskLocksReturns, docVars, Goto, TypeOK
    <3>2. \/ pc[t] = "failClear" /\ pc'[t] = "markFailed"
          \/ pc[t] = "cleanup" /\ pc'[t] \in {"synced", "ended"}
      BY <1>1, <2>2, <3>1 DEF ClearTaskLocksReturns, AfterClear, Clearing
    <3>3. QED
      BY <1>1, <3>1, <3>2 DEF Lost, Unanswered
  <2>3. CASE MarkTaskAsFailed(t)
    <3> DEFINE p == TaskPatch(t, "ERROR")
    <3>1. pc[t] = "markFailed" /\ pc'[t] = "cleanup" /\ idx' = idx
      BY <1>1, <2>3 DEF MarkTaskAsFailed, Goto, TypeOK
    <3>2. p.step = 0 /\ p.task = t /\ p.state = "ERROR"
      BY DEF TaskPatch
    <3>3. threw'[t] \/ docState'[t] # "STARTED"
      <4>1. CASE PatchApplied(p)
        BY <1>1, <3>2, <4>1 DEF PatchApplied, Apply, TypeOK
      <4>2. CASE PatchNotFound(p)
        BY <3>2, <4>2 DEF PatchNotFound, Found, docVars
      <4>3. CASE threw' = [threw EXCEPT ![t] = TRUE]
        BY <1>1, <4>3 DEF TypeOK
      <4>4. QED
        BY <2>3, <4>1, <4>2, <4>3 DEF MarkTaskAsFailed
    <3>4. QED
      BY <1>1, <3>1, <3>3 DEF Lost, Unanswered
  <2>4. CASE ReturnAfterSync(t)
    BY <1>1, <2>4 DEF ReturnAfterSync, Goto, TypeOK, Lost
  <2>5. CASE ResubmitCommand(t)
    BY <1>1, <2>5 DEF ResubmitCommand
  <2>6. QED
    BY ZenonT(30), <1>1, <1>3, <2>1, <2>2, <2>3, <2>4, <2>5 DEF CommandStep, SubmitToNewThread,
       SubmitToQueue, SubmitRejected, MarkTaskAsStarted, MarkTaskAsStartedFails,
       SetTaskLock, SetTaskLockFails, SkipStep, MarkStepAsStarted, StepWork,
       MarkStepAsDone, MarkStepAsFailed, ExecuteReturns, MarkTaskAsDone
<1>4. QED
  BY <1>2, <1>3

\* A call that acquires a lock and fails has left the lock, or the request,
\* unknown to its task.
LEMMA BecomesLost ==
    ASSUME ControlInv, LeakInv, [Next]_vars, NEW t \in Tasks, SetTaskLockFails(t),
           faults' <= 1, faults' # faults, NEW e, e = ToBeLocked[t][idx[t]]
    PROVE  Lost(t, e)'
<1>1. TypeOK /\ faults \in Nat /\ faults = 0 /\ faults' = 1
  BY SMT, FaultsCounted, FaultStep
<1>2. latePatch' = {}
  BY <1>1 DEF LeakInv, SetTaskLockFails, docVars
<1>3. pc[t] = "lock" /\ pc'[t] = "failClear" /\ idx'[t] = idx[t]
  BY <1>1 DEF SetTaskLockFails, Goto, TypeOK, execVars
<1>4. idx[t] <= Len(ToBeLocked[t])
  BY SMT, <1>3 DEF ControlInv, LockIndex
<1>5. QED
  BY <1>1, <1>2, <1>3, <1>4 DEF Lost, Unanswered

\* Who changes a lock, and who leaves a request under way.
LEMMA LockChange ==
    ASSUME ControlInv, [Next]_vars
    PROVE  /\ \A t \in Tasks : \A e \in Entities :
                lock'[e] = Held(t) =>
                   \/ lock[e] = Held(t)
                   \/ Acquire(t, e) \in lateLock
                   \/ /\ SetTaskLock(t) \/ SetTaskLockFails(t)
                      /\ e = ToBeLocked[t][idx[t]]
                      /\ SetTaskLockFails(t) => faults' # faults
           /\ \A r \in lateLock' \ lateLock : ~r.isAvailable =>
                /\ r.ownerId \in Tasks /\ SetTaskLockFails(r.ownerId)
                /\ r.entityId = ToBeLocked[r.ownerId][idx[r.ownerId]]
                /\ faults' # faults
<1>1. TypeOK /\ faults \in Nat
  BY FaultsCounted
<1>2. ASSUME NEW r, Store(r), NEW t \in Tasks, NEW e \in Entities, lock'[e] = Held(t)
      PROVE  lock[e] = Held(t) \/ (r.ownerId = t /\ r.entityId = e /\ r.isAvailable = FALSE)
  <2>1. CASE r.entityId # e
    BY <1>1, <1>2, <2>1 DEF Store, TypeOK
  <2>2. CASE r.entityId = e
    BY <1>1, <1>2, <2>2 DEF Store, TypeOK, Held
  <2>3. QED
    BY <2>1, <2>2
<1>3. CASE \E u \in Tasks : SetTaskLock(u) \/ SetTaskLockFails(u)
  <2>1. PICK u \in Tasks : SetTaskLock(u) \/ SetTaskLockFails(u)
    BY <1>3
  <2> DEFINE h == ToBeLocked[u][idx[u]]
             r == Acquire(u, h)
  <2>2. /\ r.ownerId = u /\ r.entityId = h /\ r.isAvailable = FALSE
        /\ \/ SetTaskLock(u) /\ PostAccepted(r)
           \/ SetTaskLockFails(u) /\ (PostRejected(r) \/ PostFails(r))
    BY <2>1 DEF SetTaskLock, SetTaskLockFails, Acquire
  <2>3. /\ UNCHANGED lock \/ (Store(r) /\ (SetTaskLock(u) \/ faults' # faults))
        /\ \A q \in lateLock' \ lateLock : q = r /\ SetTaskLockFails(u) /\ faults' # faults
    BY SMT, <1>1, <2>2 DEF PostAccepted, PostRejected, PostFails, Fault, lockVars
  <2>4. SetTaskLock(u) => ~SetTaskLockFails(u)
    <3>1. SetTaskLock(u) => pc'[u] # "failClear"
      BY <1>1 DEF SetTaskLock, NextLock, Goto, TypeOK
    <3>2. SetTaskLockFails(u) => pc'[u] = "failClear"
      BY <1>1 DEF SetTaskLockFails, Goto, TypeOK
    <3>3. QED
      BY <3>1, <3>2
  <2> HIDE DEF r
  <2>5. ASSUME NEW t \in Tasks, NEW e \in Entities, lock'[e] = Held(t), lock[e] # Held(t)
        PROVE  /\ SetTaskLock(t) \/ SetTaskLockFails(t)
               /\ e = ToBeLocked[t][idx[t]]
               /\ SetTaskLockFails(t) => faults' # faults
    <3>1. Store(r) /\ (SetTaskLock(u) \/ faults' # faults)
      BY <2>3, <2>5
    <3>2. t = u /\ e = h
      <4>1. r.ownerId = t /\ r.entityId = e
        BY ZenonT(30), <1>2, <2>5, <3>1
      <4>2. QED
        BY <2>2, <4>1
    <3>3. QED
      BY <2>1, <2>4, <3>1, <3>2
  <2>6. ASSUME NEW q \in lateLock' \ lateLock
        PROVE  /\ q.ownerId \in Tasks /\ SetTaskLockFails(q.ownerId)
               /\ q.entityId = ToBeLocked[q.ownerId][idx[q.ownerId]]
               /\ faults' # faults
    BY <2>2, <2>3
  <2>7. QED
    BY <2>5, <2>6
<1>4. CASE \E u \in Tasks : ClearTaskLock(u)
  <2>1. PICK u \in Tasks : ClearTaskLock(u)
    BY <1>4
  <2> DEFINE r == Release(u, Head(locked[u]))
  <2>2. r.isAvailable = TRUE /\ (PostAccepted(r) \/ PostRejected(r) \/ PostFails(r))
    BY <2>1 DEF ClearTaskLock, Release
  <2> HIDE DEF r
  <2>3. /\ UNCHANGED lock \/ Store(r)
        /\ \A q \in lateLock' \ lateLock : q = r
    BY <2>2 DEF PostAccepted, PostRejected, PostFails, lockVars
  <2>4. QED
    BY <1>2, <2>2, <2>3
<1>5. CASE \E r \in lateLock : DeliverLateLock(r)
  <2>1. PICK r \in lateLock : DeliverLateLock(r)
    BY <1>5
  <2>2. (UNCHANGED lock \/ Store(r)) /\ lateLock' \subseteq lateLock
    BY <2>1 DEF DeliverLateLock
  <2>3. r \in LockRequests
    BY <1>1, <2>1 DEF TypeOK
  <2>4. ASSUME NEW t, NEW e, r.ownerId = t, r.entityId = e, r.isAvailable = FALSE
        PROVE  r = Acquire(t, e)
    BY <2>3, <2>4 DEF Acquire, LockRequests
  <2>5. ASSUME NEW t \in Tasks, NEW e \in Entities, lock'[e] = Held(t), lock[e] # Held(t)
        PROVE  Acquire(t, e) \in lateLock
    <3>1. Store(r)
      BY <2>2, <2>5
    <3>2. r = Acquire(t, e)
      BY <1>2, <2>4, <2>5, <3>1
    <3>3. QED
      BY <3>2
  <2>6. QED
    BY <2>2, <2>5
<1>6. CASE \/ \E t \in Tasks : CreateTask(t) \/ CreateTaskFails(t)
           \/ \E n \in Nodes : WorkerTake(n) \/ Crash(n)
           \/ \E p \in latePatch : DeliverLatePatch(p) /\ UNCHANGED lockVars
           \/ Terminated \/ UNCHANGED vars
  <2>1. UNCHANGED lockVars
    BY <1>6 DEF CreateTask, CreateTaskFails, WorkerTake, Crash, Terminated, vars
  <2>2. QED
    BY <2>1 DEF lockVars
<1>7. CASE \E t \in Tasks :
             CommandStep(t) /\ ~(SetTaskLock(t) \/ SetTaskLockFails(t) \/ ClearTaskLock(t))
  <2>1. UNCHANGED lockVars
    BY ZenonT(30), <1>7 DEF CommandStep, SubmitToNewThread, SubmitToQueue, SubmitRejected,
       MarkTaskAsStarted, MarkTaskAsStartedFails, SkipStep, MarkStepAsStarted, StepWork,
       MarkStepAsDone, MarkStepAsFailed, ExecuteReturns, ClearTaskLocksReturns,
       MarkTaskAsDone, MarkTaskAsFailed, ResubmitCommand, ReturnAfterSync
  <2>2. QED
    BY <2>1 DEF lockVars
<1>8. QED
  BY <1>3, <1>4, <1>5, <1>6, <1>7 DEF Next, Deliver

\* While locks are taken: e is the one just taken, or it was there before.
LEMMA TakeKeepsKnown ==
    ASSUME ControlInv, NEW t \in Tasks, SetTaskLock(t) \/ SetTaskLockFails(t),
           NEW e, Known(t, e) \/ (SetTaskLock(t) /\ e = ToBeLocked[t][idx[t]])
    PROVE  Known(t, e)'
<1> DEFINE h == ToBeLocked[t][idx[t]]
<1>1. TypeOK /\ pc[t] = "lock" /\ h \in Entities /\ locked[t] \in Seq(Entities)
  <2>1. TypeOK /\ pc[t] = "lock" /\ idx[t] \in 1 .. Len(ToBeLocked[t])
    BY DEF ControlInv, LockIndex, SetTaskLock, SetTaskLockFails
  <2>2. ToBeLocked[t] \in Seq(Entities)
    BY EngineAssumption DEF EngineAssumption
  <2>3. locked[t] \in Seq(Entities)
    BY <2>1 DEF TypeOK
  <2>4. QED
    BY SMT, <2>1, <2>2, <2>3
<1>2. Known(t, e) => OnList(t, e)
  BY <1>1 DEF Known
<1>3. CASE SetTaskLock(t)
  <2>1. locked'[t] = Append(locked[t], h) /\ pc'[t] \in {"lock", "step"}
    BY <1>1, <1>3 DEF SetTaskLock, NextLock, Goto, TypeOK, h
  <2> HIDE DEF h
  <2>2. OnList(t, e)'
    <3>1. /\ Len(locked'[t]) = Len(locked[t]) + 1
          /\ locked'[t][Len(locked[t]) + 1] = h
          /\ \A i \in 1 .. Len(locked[t]) : locked'[t][i] = locked[t][i]
          /\ Len(locked[t]) \in Nat
      BY SMT, <1>1, <2>1
    <3>2. CASE e = h
      BY SMT, <3>1, <3>2 DEF OnList
    <3>3. CASE Known(t, e)
      BY SMT, <1>2, <3>1, <3>3 DEF OnList
    <3>4. QED
      BY <3>2, <3>3 DEF h
  <2>3. QED
    BY <2>1, <2>2 DEF Known, Executing
<1>4. CASE SetTaskLockFails(t) /\ Known(t, e)
  <2>1. pc'[t] = "failClear" /\ locked'[t] = locked[t]
    BY <1>1, <1>4 DEF SetTaskLockFails, Goto, TypeOK, execVars
  <2>2. QED
    BY <1>2, <1>4, <2>1 DEF Known, OnList, Executing, Clearing
<1>5. QED
  BY <1>3, <1>4

\* A lock that is still held after the attempt to clear it is kept.
LEMMA ClearKeepsKnown ==
    ASSUME ControlInv, NEW t \in Tasks, ClearTaskLock(t),
           NEW e \in Entities, lock[e] = Held(t), lock'[e] = Held(t), Known(t, e),
           faults' <= 1
    PROVE  Known(t, e)'
<1> DEFINE h == Head(locked[t])
           r == Release(t, h)
<1>1. /\ TypeOK /\ pc[t] \in Clearing /\ locked[t] # <<>> /\ locked[t] \in Seq(Entities)
      /\ failed[t] \in Seq(Entities)
      /\ locked'[t] = Tail(locked[t])
      /\ pc'[t] = pc[t] /\ faults \in Nat
  <2>1. TypeOK
    BY DEF ControlInv
  <2>2. /\ locked[t] \in Seq(Entities) /\ failed[t] \in Seq(Entities)
        /\ locked \in [Tasks -> Seq(Entities)] /\ faults \in 0 .. MaxFaults
    BY <2>1 DEF TypeOK
  <2>3. /\ pc[t] \in Clearing /\ locked[t] # <<>> /\ pc'[t] = pc[t]
        /\ locked' = [locked EXCEPT ![t] = Tail(@)]
    BY DEF ClearTaskLock
  <2>4. faults \in Nat
    BY SMT, <2>2
  <2>5. QED
    BY <2>1, <2>2, <2>3, <2>4
<1>2. /\ Len(locked[t]) \in Nat \ {0} /\ Len(locked'[t]) = Len(locked[t]) - 1
      /\ \A i \in 1 .. Len(locked'[t]) : locked'[t][i] = locked[t][i + 1]
      /\ h = locked[t][1] /\ h \in Entities
  BY SMT, <1>1
<1>3. r.ownerId = t /\ r.entityId = h /\ r.isAvailable = TRUE
  BY DEF Release
<1> HIDE DEF h, r
<1>4. OnList(t, e) /\ e # h => OnList(t, e)'
  <2> SUFFICES ASSUME NEW i \in 1 .. Len(locked[t]), locked[t][i] = e, e # h
               PROVE  OnList(t, e)'
    BY DEF OnList
  <2>1. i - 1 \in 1 .. Len(locked'[t]) /\ locked'[t][i - 1] = e
    BY SMT, <1>2
  <2>2. QED
    BY <2>1 DEF OnList
<1>5. Store(r) => e # h
  BY SMT, <1>1, <1>2, <1>3, HeldIsNotAvailable DEF Store, TypeOK
<1>6. CASE PostAccepted(r) \/ PostRejected(r)
  <2>1. e # h
    <3>1. CASE PostAccepted(r)
      BY <1>5, <3>1 DEF PostAccepted
    <3>2. CASE PostRejected(r)
      BY <1>3, <3>2, HeldIsNotAvailable DEF PostRejected, Accepts, PutAccepts
    <3>3. QED
      BY <1>6, <3>1, <3>2
  <2>2. faults' = faults /\ (Kept(t, e) => Kept(t, e)')
    <3>1. faults' = faults
      BY <1>6 DEF PostAccepted, PostRejected, Answered
    <3>2. failed'[t] \in {failed[t], Append(failed[t], h)}
      BY SMT, <1>1, <1>3 DEF ClearTaskLock, TypeOK, h, r
    <3>3. Len(failed[t]) \in Nat /\ Len(failed[t]) <= Len(failed'[t])
          /\ (\A i \in 1 .. Len(failed[t]) : failed'[t][i] = failed[t][i])
          /\ Len(failed'[t]) \in Nat
      <4>1. failed[t] \in Seq(Entities) /\ h \in Entities
        BY <1>1, <1>2
      <4>2. QED
        BY SMT, <3>2, <4>1
    <3>4. QED
      BY SMT, <3>1, <3>3 DEF Kept
  <2>3. QED
    BY <1>1, <1>4, <2>1, <2>2 DEF Known, Clearing, Executing
<1>7. CASE PostFails(r)
  <2>1. faults = 0 /\ faults' = 1
    BY SMT, <1>1, <1>7 DEF PostFails, Fault
  <2>2. e = h => Kept(t, e)'
    <3>1. CASE failed'[t] = Append(failed[t], h)
      <4>1. failed'[t][Len(failed[t]) + 1] = h /\ Len(failed[t]) + 1 \in 1 .. Len(failed'[t])
        BY SMT, <1>1, <1>2, <3>1
      <4>2. QED
        BY <2>1, <4>1 DEF Kept
    <3>2. CASE PostAccepted(r)
      BY <1>5, <3>2 DEF PostAccepted
    <3>3. QED
      BY ZenonT(30), <1>1, <1>3, <3>1, <3>2 DEF ClearTaskLock, TypeOK, h, r
  <2>3. ~Kept(t, e)
    BY SMT, <2>1 DEF Kept
  <2>4. QED
    BY SMT, <1>1, <1>4, <2>1, <2>2, <2>3 DEF Known, Clearing, Executing
<1>8. QED
  BY <1>6, <1>7 DEF ClearTaskLock, h, r

\* Between the locks: the steps run, or the command ends.
LEMMA RestKeepsKnown ==
    ASSUME ControlInv, [Next]_vars, NEW t \in Tasks, CommandStep(t),
           ~(SetTaskLock(t) \/ SetTaskLockFails(t) \/ ClearTaskLock(t)),
           NEW e, Known(t, e), faults' <= 1
    PROVE  Known(t, e)'
<1>1. TypeOK /\ faults \in Nat /\ faults' \in {faults, faults + 1}
  BY FaultsCounted, FaultStep
<1>2. CASE SkipStep(t) \/ StepWork(t) \/ MarkStepAsStarted(t) \/ MarkStepAsDone(t)
           \/ MarkStepAsFailed(t) \/ ExecuteReturns(t)
  <2>1. pc[t] \in Executing /\ locked' = locked
        /\ pc'[t] \in Executing \cup {"failClear", "doneClear"}
    BY <1>1, <1>2 DEF SkipStep, StepWork, MarkStepAsStarted, MarkStepAsDone,
       MarkStepAsFailed, ExecuteReturns, Goto, Executing, execVars, TypeOK
  <2>2. OnList(t, e)'
    BY <2>1 DEF Known, OnList
  <2>3. QED
    BY <2>1, <2>2 DEF Known, Executing, Clearing
<1>3. CASE ClearTaskLocksReturns(t)
  <2>1. /\ pc[t] \in Clearing /\ locked[t] = <<>> /\ locked'[t] = failed[t]
        /\ pc'[t] = AfterClear(t) /\ faults' = faults
    BY <1>1, <1>3 DEF ClearTaskLocksReturns, Goto, TypeOK
  <2>2. ~OnList(t, e) /\ (Kept(t, e) => OnList(t, e)' /\ faults' = 1)
    BY SMT, <2>1 DEF OnList, Kept
  <2>3. Kept(t, e) /\ pc[t] \in {"doneClear", "failClear"}
    BY <2>1, <2>2 DEF Known, Clearing
  <2>4. pc'[t] \in {"markDone", "markFailed", "cleanup"}
    BY <2>1, <2>3 DEF AfterClear
  <2>5. QED
    BY <2>2, <2>3, <2>4 DEF Known, Executing, Clearing
<1>4. CASE MarkTaskAsDone(t) \/ MarkTaskAsFailed(t)
  <2>1. /\ pc[t] \in {"markDone", "markFailed"} /\ locked' = locked
        /\ pc'[t] \in {"cleanup", "failClear"}
    BY <1>1, <1>4 DEF MarkTaskAsDone, MarkTaskAsFailed, Goto, TypeOK, execVars
  <2>2. faults' = 1 /\ OnList(t, e)'
    BY SMT, <1>1, <2>1 DEF Known, OnList
  <2>3. QED
    BY <2>1, <2>2 DEF Known, Executing, Clearing
<1>5. QED
  BY <1>2, <1>3, <1>4 DEF Known, CommandStep, SubmitToNewThread, SubmitToQueue,
     SubmitRejected, MarkTaskAsStarted, MarkTaskAsStartedFails, ResubmitCommand,
     ReturnAfterSync, Executing, Clearing

LEMMA OthersKeepKnown ==
    ASSUME ControlInv, [Next]_vars, NEW t \in Tasks, ~CommandStep(t),
           NEW e, Known(t, e), faults' <= 1
    PROVE  Known(t, e)'
<1>1. faults \in Nat /\ faults' \in {faults, faults + 1}
  BY FaultsCounted, FaultStep
<1>2. pc[t] \notin {"none", "queued"}
  BY DEF Known, Executing, Clearing
<1>3. /\ pc'[t] = pc[t] \/ pc'[t] = "dead"
      /\ locked'[t] = locked[t] /\ failed'[t] = failed[t]
  BY <1>2, OtherSteps
<1>4. OnList(t, e) => OnList(t, e)'
  BY <1>3 DEF OnList
<1>5. Kept(t, e) => Kept(t, e)'
  BY SMT, <1>1, <1>3 DEF Kept
<1>6. faults = 1 => faults' = 1
  BY SMT, <1>1
<1>7. QED
  BY <1>3, <1>4, <1>5, <1>6 DEF Known, Executing, Clearing

LEMMA LeakInductive ==
    ASSUME ControlInv, LeakInv, [Next]_vars
    PROVE  LeakInv'
<1>1. faults \in Nat /\ faults' \in {faults, faults + 1}
  BY FaultsCounted, FaultStep
<1>2. faults' = 0 => latePatch' = {} /\ lateLock' = {}
  <2>1. faults' = 0 => faults = 0 /\ faults' = faults
    BY SMT, <1>1
  <2>2. QED
    BY <2>1, FaultStep DEF LeakInv
<1>3. ASSUME faults' <= 1, NEW t \in Tasks, NEW e \in Entities, lock'[e] = Held(t)
      PROVE  Known(t, e)' \/ Lost(t, e)'
  <2>1. faults <= 1
    BY SMT, <1>1, <1>3
  <2>2. CASE Lost(t, e)
    BY <1>3, <2>2, LostStays
  <2>3. CASE lock[e] = Held(t) /\ Known(t, e)
    <3>1. CASE CommandStep(t)
      BY <1>3, <2>3, <3>1, TakeKeepsKnown, ClearKeepsKnown, RestKeepsKnown
    <3>2. CASE ~CommandStep(t)
      BY <1>3, <2>3, <3>2, OthersKeepKnown
    <3>3. QED
      BY <3>1, <3>2
  <2>4. CASE Acquire(t, e) \in lateLock
    <3>1. Acquire(t, e).ownerId = t /\ Acquire(t, e).entityId = e
          /\ Acquire(t, e).isAvailable = FALSE
      BY DEF Acquire
    <3>2. Lost(t, e)
      BY <2>1, <2>4, <3>1 DEF LeakInv
    <3>3. QED
      BY <2>2, <3>2
  <2>5. CASE SetTaskLock(t) /\ e = ToBeLocked[t][idx[t]]
    BY <2>5, TakeKeepsKnown
  <2>6. CASE SetTaskLockFails(t) /\ e = ToBeLocked[t][idx[t]] /\ faults' # faults
    BY <1>3, <2>6, BecomesLost
  <2>7. QED
    BY <1>3, <2>1, <2>2, <2>3, <2>4, <2>5, <2>6, LockChange DEF LeakInv
<1>4. ASSUME faults' <= 1, NEW r \in lateLock', ~r.isAvailable
      PROVE  Lost(r.ownerId, r.entityId)'
  <2>1. CASE r \in lateLock
    <3>1. r.ownerId \in Tasks /\ Lost(r.ownerId, r.entityId)
      <4>1. faults <= 1
        BY SMT, <1>1, <1>4
      <4>2. QED
        BY <1>4, <2>1, <4>1 DEF LeakInv, ControlInv, TypeOK, LockRequests
    <3>2. QED
      BY <1>4, <3>1, LostStays
  <2>2. CASE r \notin lateLock
    BY <1>4, <2>2, LockChange, BecomesLost
  <2>3. QED
    BY <2>1, <2>2
<1>5. QED
  BY <1>2, <1>3, <1>4 DEF LeakInv, Held

\* When at most one call has failed, a command that has ended has left no lock
\* but one it never knew it had: clearTaskLocks is called twice on every way
\* out of a command and keeps what it could not clear.  For any number of
\* tasks and locks, with one command or two, and also when the call that failed
\* is applied later.
THEOREM OneFaultLeaksAtMostOneLock == Spec => []OneFaultLeaksOnlyAnUnansweredLock
<1>1. Init => ControlInv /\ LeakInv
  <2>1. Init => LeakInv
    BY SMT, LockAssumption, HeldIsNotAvailable DEF Init, LeakInv
  <2>2. QED
    BY <2>1, InitControl
<1>2. ControlInv /\ [Next]_vars => ControlInv'
  BY TypeInductive, LockIndexInductive, QueueInductive DEF ControlInv
<1>3. ControlInv /\ LeakInv /\ [Next]_vars => LeakInv'
  BY LeakInductive
<1>4. LeakInv => OneFaultLeaksOnlyAnUnansweredLock
  BY DEF LeakInv, Known, Lost, Unanswered, OneFaultLeaksOnlyAnUnansweredLock, Executing,
     Clearing
<1>5. QED
  BY <1>1, <1>2, <1>3, <1>4, PTL DEF Spec
=============================================================================
