-------------------------- MODULE TaskEngineProofs --------------------------
(***************************************************************************)
(* Proofs about TaskEngine, for any number of tasks, entities, nodes,      *)
(* steps, workers and failures.                                            *)
(***************************************************************************)
EXTENDS TaskEngine, TLAPS

\* Most leaves are first-order reasoning, which Zenon does; those with arithmetic,
\* records or long formulas name SMT.
USE Zenon

-----------------------------------------------------------------------------
(* Types of what the calls store.                                           *)

LEMMA ApplyType ==
    ASSUME TypeOK, NEW p \in Patches, Apply(p)
    PROVE  /\ docState' \in [Tasks -> TaskState \cup {"NONE"}]
           /\ DOMAIN docStep' = Tasks
           /\ \A t \in Tasks : docStep'[t] \in [StepsOf(t) -> StepState]
<1>1. /\ p.task \in Tasks
      /\ p.state \in StepState
  BY DEF Patches
<1>2. CASE p.step = 0
  BY <1>1, <1>2 DEF TypeOK, Apply, TaskState
<1>3. CASE p.step # 0
  <2>1. /\ docState' = docState
        /\ docStep' = [docStep EXCEPT ![p.task][p.step] = p.state]
    BY <1>3 DEF Apply
  <2>2. docStep' = [docStep EXCEPT ![p.task] =
                        [docStep[p.task] EXCEPT ![p.step] = p.state]]
    BY <2>1
  <2>3. [docStep[p.task] EXCEPT ![p.step] = p.state]
            \in [StepsOf(p.task) -> StepState]
    BY <1>1 DEF TypeOK
  <2>4. QED
    BY <1>1, <2>1, <2>2, <2>3 DEF TypeOK
<1>4. QED
  BY <1>2, <1>3

LEMMA PatchType ==
    ASSUME TypeOK, NEW p \in Patches,
           PatchApplied(p) \/ PatchNotFound(p) \/ PatchFails(p)
    PROVE  /\ faults' \in 0 .. MaxFaults
           /\ docState' \in [Tasks -> TaskState \cup {"NONE"}]
           /\ DOMAIN docStep' = Tasks
           /\ \A t \in Tasks : docStep'[t] \in [StepsOf(t) -> StepState]
           /\ latePatch' \subseteq Patches
<1>1. faults' \in 0 .. MaxFaults
  BY SMT, ClientAssumption DEF ClientAssumption, TypeOK, PatchApplied, PatchNotFound,
     PatchFails, Answered, Fault
<1>2. latePatch' \subseteq Patches
  BY DEF TypeOK, PatchApplied, PatchNotFound, PatchFails, docVars
<1>3. Apply(p) \/ UNCHANGED <<docState, docStep>>
  BY DEF PatchApplied, PatchNotFound, PatchFails, docVars
<1>4. QED
  BY <1>1, <1>2, <1>3, ApplyType DEF TypeOK

LEMMA StoreType ==
    ASSUME TypeOK, NEW r \in LockRequests, Store(r)
    PROVE  lock' \in [Entities -> LockDoc \cup {NoLock}]
BY DEF TypeOK, LockRequests, LockDoc, Store

LEMMA PostType ==
    ASSUME TypeOK, NEW r \in LockRequests,
           PostAccepted(r) \/ PostRejected(r) \/ PostFails(r)
    PROVE  /\ faults' \in 0 .. MaxFaults
           /\ lock' \in [Entities -> LockDoc \cup {NoLock}]
           /\ lateLock' \subseteq LockRequests
<1>1. faults' \in 0 .. MaxFaults
  BY SMT, ClientAssumption DEF ClientAssumption, TypeOK, PostAccepted, PostRejected,
     PostFails, Answered, Fault
<1>2. lateLock' \subseteq LockRequests
  BY DEF TypeOK, PostAccepted, PostRejected, PostFails, lockVars
<1>3. Store(r) \/ UNCHANGED lock
  BY DEF PostAccepted, PostRejected, PostFails, lockVars
<1>4. QED
  BY <1>1, <1>2, <1>3, StoreType DEF TypeOK

LEMMA RequestTypes ==
    ASSUME NEW t \in Tasks, NEW e \in Entities
    PROVE  Acquire(t, e) \in LockRequests /\ Release(t, e) \in LockRequests
BY DEF Acquire, Release, LockRequests

LEMMA PatchTypes ==
    ASSUME NEW t \in Tasks, NEW st \in StepState, NEW s \in Nat
    PROVE  TaskPatch(t, st) \in Patches /\ StepPatch(t, s, st) \in Patches
BY DEF TaskPatch, StepPatch, Patches

LEMMA GotoType ==
    ASSUME TypeOK, NEW t \in Tasks, NEW l \in Labels, Goto(t, l)
    PROVE  pc' \in [Tasks -> Labels]
BY DEF TypeOK, Goto

LEMMA MemStepType ==
    ASSUME TypeOK, NEW t \in Tasks, NEW st \in StepState, SetMemStep(t, st)
    PROVE  /\ DOMAIN memStep' = Tasks
           /\ \A u \in Tasks : memStep'[u] \in [StepsOf(u) -> StepState]
<1>1. [memStep[t] EXCEPT ![cur[t]] = st] \in [StepsOf(t) -> StepState]
  BY DEF TypeOK
<1>2. memStep' = [memStep EXCEPT ![t] = [memStep[t] EXCEPT ![cur[t]] = st]]
  BY DEF SetMemStep
<1>3. QED
  BY <1>1, <1>2 DEF TypeOK

-----------------------------------------------------------------------------
(* Type correctness.                                                        *)

LEMMA InitType == Init => TypeOK
<1>1. ASSUME Init PROVE TypeOK
  <2>1. faults \in 0 .. MaxFaults
    BY SMT, <1>1, ClientAssumption DEF Init, ClientAssumption
  <2>2. threads \in [Nodes -> 0 .. Workers]
    BY SMT, <1>1, EngineAssumption DEF Init, EngineAssumption
  <2>3. QED
    BY SMT, <1>1, <2>1, <2>2
    DEF Init, TypeOK, TaskState, StepState, Labels, LockDoc
<1>2. QED
  BY <1>1

LEMMA PoolType ==
    ASSUME TypeOK, NEW t \in Tasks
    PROVE  /\ SubmitToNewThread(t) => TypeOK'
           /\ SubmitToQueue(t) => TypeOK'
           /\ SubmitRejected(t) => TypeOK'
<1>1. HomeOf[t] \in Nodes
  BY EngineAssumption DEF EngineAssumption
<1>2. {"run", "queued", "rejected"} \subseteq Labels
  BY DEF Labels, Running, Over
<1>3. ASSUME SubmitToNewThread(t) PROVE TypeOK'
  <2>1. threads' \in [Nodes -> 0 .. Workers]
    <3>1. threads[HomeOf[t]] + 1 \in 0 .. Workers
      BY SMT, <1>1, <1>3, EngineAssumption DEF EngineAssumption, TypeOK,
         SubmitToNewThread
    <3>2. QED
      BY <1>1, <1>3, <3>1 DEF TypeOK, SubmitToNewThread
  <2>2. QED
    BY <1>2, <1>3, <2>1, GotoType DEF TypeOK, SubmitToNewThread, docVars,
       lockVars, execVars
<1>4. ASSUME SubmitToQueue(t) PROVE TypeOK'
  <2>1. workQueue' \in [Nodes -> Seq(Tasks)]
    <3>1. Append(workQueue[HomeOf[t]], t) \in Seq(Tasks)
      BY SMT, <1>1 DEF TypeOK
    <3>2. QED
      BY <1>1, <1>4, <3>1 DEF TypeOK, SubmitToQueue
  <2>2. QED
    BY <1>2, <1>4, <2>1, GotoType DEF TypeOK, SubmitToQueue, docVars,
       lockVars, execVars
<1>5. ASSUME SubmitRejected(t) PROVE TypeOK'
  BY <1>2, <1>5, GotoType DEF TypeOK, SubmitRejected, docVars, lockVars,
     execVars, poolVars
<1>6. QED
  BY <1>3, <1>4, <1>5

LEMMA RequestType ==
    ASSUME TypeOK, NEW t \in Tasks
    PROVE  /\ CreateTask(t) => TypeOK'
           /\ CreateTaskFails(t) => TypeOK'
<1>1. {"run", "submit", "returned"} \subseteq Labels
  BY DEF Labels, Running, Over
<1>2. ASSUME CreateDocument(t)
      PROVE  /\ docState' \in [Tasks -> TaskState \cup {"NONE"}]
             /\ DOMAIN docStep' = Tasks
             /\ \A u \in Tasks : docStep'[u] \in [StepsOf(u) -> StepState]
             /\ latePatch' \subseteq Patches
  BY <1>2 DEF CreateDocument, TypeOK, TaskState, StepState
<1>3. ASSUME CreateTask(t) PROVE TypeOK'
  BY <1>1, <1>2, <1>3, GotoType DEF CreateTask, TypeOK, Answered, lockVars,
     execVars, poolVars
<1>4. ASSUME CreateTaskFails(t) PROVE TypeOK'
  <2>1. faults' \in 0 .. MaxFaults
    BY SMT, <1>4, ClientAssumption DEF ClientAssumption, CreateTaskFails, Fault, TypeOK
  <2>2. QED
    BY <1>1, <1>2, <1>4, <2>1, GotoType DEF CreateTaskFails, TypeOK, docVars,
       lockVars, execVars, poolVars
<1>5. QED
  BY <1>3, <1>4

LEMMA MarkAsStartedType ==
    ASSUME TypeOK, NEW t \in Tasks,
           pc[t] = "lock" => idx[t] \in 1 .. Len(ToBeLocked[t])
    PROVE  /\ MarkTaskAsStarted(t) => TypeOK'
           /\ MarkTaskAsStartedFails(t) => TypeOK'
           /\ SetTaskLock(t) => TypeOK'
           /\ SetTaskLockFails(t) => TypeOK'
<1>1. {"step", "lock", "failClear"} \subseteq Labels
  BY DEF Labels, Running, Executing, Clearing
<1>2. TaskPatch(t, "STARTED") \in Patches
  BY PatchTypes DEF StepState
<1>3. ASSUME NEW i \in Nat \ {0}, NextLock(t, i)
      PROVE  idx' \in [Tasks -> Nat \ {0}] /\ pc' \in [Tasks -> Labels]
  BY <1>1, <1>3, GotoType DEF NextLock, TypeOK
<1>4. ASSUME MarkTaskAsStarted(t) PROVE TypeOK'
  <2>1. idx' \in [Tasks -> Nat \ {0}] /\ pc' \in [Tasks -> Labels]
    BY SMT, <1>3, <1>4 DEF MarkTaskAsStarted
  <2>2. QED
    BY <1>2, <1>4, <2>1, PatchType DEF MarkTaskAsStarted, TypeOK, lockVars,
       poolVars
<1>5. ASSUME MarkTaskAsStartedFails(t) PROVE TypeOK'
  BY <1>1, <1>2, <1>5, PatchType, GotoType DEF MarkTaskAsStartedFails, TypeOK,
     lockVars, execVars, poolVars
<1>6. ASSUME pc[t] = "lock"
      PROVE  /\ ToBeLocked[t][idx[t]] \in Entities
             /\ Acquire(t, ToBeLocked[t][idx[t]]) \in LockRequests
             /\ idx[t] + 1 \in Nat \ {0}
  BY SMT, <1>6, RequestTypes, EngineAssumption DEF EngineAssumption
<1>7. ASSUME SetTaskLock(t) PROVE TypeOK'
  <2>1. locked' \in [Tasks -> Seq(Entities)]
    <3>1. Append(locked[t], ToBeLocked[t][idx[t]]) \in Seq(Entities)
      BY SMT, <1>6, <1>7 DEF TypeOK, SetTaskLock
    <3>2. QED
      BY <1>7, <3>1 DEF SetTaskLock, TypeOK
  <2>2. /\ faults' \in 0 .. MaxFaults
        /\ lock' \in [Entities -> LockDoc \cup {NoLock}]
        /\ lateLock' \subseteq LockRequests
    BY <1>6, <1>7, PostType DEF SetTaskLock
  <2>3. QED
    BY <1>3, <1>6, <1>7, <2>1, <2>2 DEF SetTaskLock, TypeOK, docVars, poolVars
<1>8. ASSUME SetTaskLockFails(t) PROVE TypeOK'
  <2>1. /\ faults' \in 0 .. MaxFaults
        /\ lock' \in [Entities -> LockDoc \cup {NoLock}]
        /\ lateLock' \subseteq LockRequests
    BY <1>6, <1>8, PostType DEF SetTaskLockFails
  <2>2. QED
    BY <1>1, <1>8, <2>1, GotoType DEF SetTaskLockFails, TypeOK, docVars,
       execVars, poolVars
<1>9. QED
  BY <1>4, <1>5, <1>7, <1>8

LEMMA ExecuteType ==
    ASSUME TypeOK, NEW t \in Tasks
    PROVE  /\ SkipStep(t) => TypeOK'
           /\ MarkStepAsStarted(t) => TypeOK'
           /\ StepWork(t) => TypeOK'
           /\ MarkStepAsDone(t) => TypeOK'
           /\ MarkStepAsFailed(t) => TypeOK'
           /\ ExecuteReturns(t) => TypeOK'
<1>1. Executing \cup Clearing \subseteq Labels
  BY DEF Labels, Running
<1>2. \A st \in StepState : StepPatch(t, cur[t], st) \in Patches
  BY PatchTypes DEF TypeOK
<1>3. cur[t] + 1 \in Nat \ {0}
  BY SMT DEF TypeOK
<1>4. ASSUME SkipStep(t) PROVE TypeOK'
  BY <1>3, <1>4 DEF SkipStep, TypeOK, docVars, lockVars, poolVars
<1>5. ASSUME MarkStepAsStarted(t) PROVE TypeOK'
  <2>1. pc' \in [Tasks -> Labels]
    BY <1>1, <1>5, GotoType DEF MarkStepAsStarted, Executing
  <2>2. /\ DOMAIN memStep' = Tasks
        /\ \A u \in Tasks : memStep'[u] \in [StepsOf(u) -> StepState]
    BY <1>5, MemStepType DEF MarkStepAsStarted, StepState
  <2>3. /\ faults' \in 0 .. MaxFaults
        /\ docState' \in [Tasks -> TaskState \cup {"NONE"}]
        /\ DOMAIN docStep' = Tasks
        /\ \A u \in Tasks : docStep'[u] \in [StepsOf(u) -> StepState]
        /\ latePatch' \subseteq Patches
    BY <1>2, <1>5, PatchType DEF MarkStepAsStarted, StepState
  <2>4. QED
    BY <1>5, <2>1, <2>2, <2>3 DEF MarkStepAsStarted, TypeOK, lockVars, poolVars
<1>6. ASSUME StepWork(t) PROVE TypeOK'
  BY <1>1, <1>6, GotoType DEF StepWork, Executing, TypeOK, docVars, lockVars,
     execVars, poolVars
<1>7. ASSUME MarkStepAsDone(t) PROVE TypeOK'
  <2>1. pc' \in [Tasks -> Labels]
    BY <1>1, <1>7, GotoType DEF MarkStepAsDone, Executing
  <2>2. /\ DOMAIN memStep' = Tasks
        /\ \A u \in Tasks : memStep'[u] \in [StepsOf(u) -> StepState]
    BY <1>7, MemStepType DEF MarkStepAsDone, StepState
  <2>3. /\ faults' \in 0 .. MaxFaults
        /\ docState' \in [Tasks -> TaskState \cup {"NONE"}]
        /\ DOMAIN docStep' = Tasks
        /\ \A u \in Tasks : docStep'[u] \in [StepsOf(u) -> StepState]
        /\ latePatch' \subseteq Patches
    BY <1>2, <1>7, PatchType DEF MarkStepAsDone, StepState
  <2>4. cur' \in [Tasks -> Nat \ {0}]
    BY SMT, <1>3, <1>7 DEF MarkStepAsDone, TypeOK
  <2>5. QED
    BY <1>7, <2>1, <2>2, <2>3, <2>4 DEF MarkStepAsDone, TypeOK, lockVars, poolVars
<1>8. ASSUME MarkStepAsFailed(t) PROVE TypeOK'
  <2>1. pc' \in [Tasks -> Labels]
    BY <1>1, <1>8, GotoType DEF MarkStepAsFailed, Clearing
  <2>2. /\ DOMAIN memStep' = Tasks
        /\ \A u \in Tasks : memStep'[u] \in [StepsOf(u) -> StepState]
    BY <1>8, MemStepType DEF MarkStepAsFailed, StepState
  <2>3. /\ faults' \in 0 .. MaxFaults
        /\ docState' \in [Tasks -> TaskState \cup {"NONE"}]
        /\ DOMAIN docStep' = Tasks
        /\ \A u \in Tasks : docStep'[u] \in [StepsOf(u) -> StepState]
        /\ latePatch' \subseteq Patches
    BY <1>2, <1>8, PatchType DEF MarkStepAsFailed, StepState
  <2>4. QED
    BY <1>8, <2>1, <2>2, <2>3 DEF MarkStepAsFailed, TypeOK, lockVars, poolVars
<1>9. ASSUME ExecuteReturns(t) PROVE TypeOK'
  BY <1>1, <1>9, GotoType DEF ExecuteReturns, Clearing, TypeOK, docVars,
     lockVars, execVars, poolVars
<1>10. QED
  BY <1>4, <1>5, <1>6, <1>7, <1>8, <1>9

LEMMA ClearType ==
    ASSUME TypeOK, NEW t \in Tasks
    PROVE  /\ ClearTaskLock(t) => TypeOK'
           /\ ClearTaskLocksReturns(t) => TypeOK'
<1>1. ASSUME ClearTaskLock(t) PROVE TypeOK'
  <2> DEFINE e == Head(locked[t])
  <2>1. e \in Entities /\ Tail(locked[t]) \in Seq(Entities)
    BY SMT, <1>1 DEF ClearTaskLock, TypeOK
  <2>2. /\ Release(t, e) \in LockRequests
        /\ Release(t, e).entityId = e
    BY <2>1, RequestTypes DEF Release
  <2>3. locked' \in [Tasks -> Seq(Entities)]
    BY <1>1, <2>1 DEF ClearTaskLock, TypeOK
  <2>4. failed' \in [Tasks -> Seq(Entities)]
    <3>1. Append(failed[t], e) \in Seq(Entities)
      BY SMT, <2>1 DEF TypeOK
    <3>2. \/ failed' = failed
          \/ failed' = [failed EXCEPT ![t] = Append(failed[t], e)]
      BY <1>1, <2>2 DEF ClearTaskLock
    <3>3. QED
      BY <3>1, <3>2 DEF TypeOK
  <2>5. /\ faults' \in 0 .. MaxFaults
        /\ lock' \in [Entities -> LockDoc \cup {NoLock}]
        /\ lateLock' \subseteq LockRequests
    BY <1>1, <2>2, PostType DEF ClearTaskLock
  <2>6. QED
    BY <1>1, <2>3, <2>4, <2>5 DEF ClearTaskLock, TypeOK, docVars, poolVars
<1>2. ASSUME ClearTaskLocksReturns(t) PROVE TypeOK'
  <2>1. AfterClear(t) \in Labels
    BY <1>2 DEF ClearTaskLocksReturns, AfterClear, Labels, Running, Over, Clearing
  <2>2. pc' \in [Tasks -> Labels]
    BY <1>2, <2>1, GotoType DEF ClearTaskLocksReturns
  <2>3. /\ locked' \in [Tasks -> Seq(Entities)]
        /\ failed' \in [Tasks -> Seq(Entities)]
    BY <1>2 DEF ClearTaskLocksReturns, TypeOK
  <2>4. QED
    BY <1>2, <2>2, <2>3 DEF ClearTaskLocksReturns, TypeOK, docVars, lockVars,
       poolVars
<1>3. QED
  BY <1>1, <1>2

LEMMA ConcludeType ==
    ASSUME TypeOK, NEW t \in Tasks
    PROVE  /\ MarkTaskAsDone(t) => TypeOK'
           /\ MarkTaskAsFailed(t) => TypeOK'
           /\ ResubmitCommand(t) => TypeOK'
           /\ ReturnAfterSync(t) => TypeOK'
<1>1. {"cleanup", "failClear", "submit", "returned"} \subseteq Labels
  BY DEF Labels, Running, Over, Clearing
<1>2. \A st \in StepState : TaskPatch(t, st) \in Patches
  BY PatchTypes
<1>3. ASSUME MarkTaskAsDone(t) PROVE TypeOK'
  <2>1. pc' \in [Tasks -> Labels]
    BY <1>1, <1>3, GotoType DEF MarkTaskAsDone
  <2>2. QED
    BY <1>2, <1>3, <2>1, PatchType DEF MarkTaskAsDone, StepState, TypeOK,
       lockVars, execVars, poolVars
<1>4. ASSUME MarkTaskAsFailed(t) PROVE TypeOK'
  <2>1. pc' \in [Tasks -> Labels]
    BY <1>1, <1>4, GotoType DEF MarkTaskAsFailed
  <2>2. threw' \in [Tasks -> BOOLEAN]
    BY <1>4 DEF MarkTaskAsFailed, TypeOK
  <2>3. QED
    BY <1>2, <1>4, <2>1, <2>2, PatchType DEF MarkTaskAsFailed, StepState, TypeOK,
       lockVars, poolVars
<1>5. ASSUME ResubmitCommand(t) PROVE TypeOK'
  <2>1. pc' \in [Tasks -> Labels]
    BY <1>1, <1>5, GotoType DEF ResubmitCommand
  <2>2. cmd' \in [Tasks -> {1, 2}] /\ cur' \in [Tasks -> Nat \ {0}]
    BY SMT, <1>5 DEF ResubmitCommand, TypeOK
  <2>3. QED
    BY <1>5, <2>1, <2>2 DEF ResubmitCommand, TypeOK, docVars, lockVars, poolVars
<1>6. ASSUME ReturnAfterSync(t) PROVE TypeOK'
  <2>1. faults' \in 0 .. MaxFaults
    BY SMT, <1>6, ClientAssumption
    DEF ClientAssumption, ReturnAfterSync, Answered, Fault, TypeOK
  <2>2. QED
    BY <1>1, <1>6, <2>1, GotoType DEF ReturnAfterSync, TypeOK, docVars,
       lockVars, execVars, poolVars
<1>7. QED
  BY <1>3, <1>4, <1>5, <1>6

LEMMA NodeType ==
    ASSUME TypeOK, NEW n \in Nodes
    PROVE  /\ WorkerTake(n) => TypeOK'
           /\ Crash(n) => TypeOK'
<1>1. {"run", "dead"} \subseteq Labels
  BY DEF Labels, Running, Over
<1>2. ASSUME WorkerTake(n) PROVE TypeOK'
  <2>1. Head(workQueue[n]) \in Tasks /\ Tail(workQueue[n]) \in Seq(Tasks)
    <3>1. workQueue[n] \in Seq(Tasks)
      BY DEF TypeOK
    <3>2. workQueue[n] # <<>>
      BY <1>2 DEF WorkerTake
    <3>3. QED
      BY SMT, <3>1, <3>2
  <2>2. workQueue' \in [Nodes -> Seq(Tasks)]
    BY <1>2, <2>1 DEF WorkerTake, TypeOK
  <2>3. QED
    BY <1>1, <1>2, <2>1, <2>2, GotoType DEF WorkerTake, TypeOK, docVars,
       lockVars, execVars
<1>3. ASSUME Crash(n) PROVE TypeOK'
  <2>1. pc' \in [Tasks -> Labels]
    BY <1>1, <1>3 DEF Crash, TypeOK
  <2>2. faults' \in 0 .. MaxFaults
    BY SMT, <1>3, ClientAssumption DEF ClientAssumption, Crash, Fault, TypeOK
  <2>3. threads' \in [Nodes -> 0 .. Workers]
    BY SMT, <1>3, EngineAssumption DEF EngineAssumption, Crash, TypeOK
  <2>4. workQueue' \in [Nodes -> Seq(Tasks)]
    BY SMT, <1>3 DEF Crash, TypeOK
  <2>5. QED
    BY <1>3, <2>1, <2>2, <2>3, <2>4 DEF Crash, TypeOK, docVars, lockVars, execVars
<1>4. QED
  BY <1>2, <1>3

LEMMA DeliverType == TypeOK /\ Deliver => TypeOK'
<1>1. ASSUME TypeOK, NEW r \in lateLock, DeliverLateLock(r),
             UNCHANGED <<docVars, pc, execVars, poolVars>>
      PROVE  TypeOK'
  <2>1. r \in LockRequests
    BY <1>1 DEF TypeOK
  <2>2. lock' \in [Entities -> LockDoc \cup {NoLock}]
    BY <1>1, <2>1, StoreType DEF DeliverLateLock, TypeOK
  <2>3. QED
    BY <1>1, <2>2 DEF DeliverLateLock, Answered, TypeOK, docVars, execVars, poolVars
<1>2. ASSUME TypeOK, NEW p \in latePatch, DeliverLatePatch(p),
             UNCHANGED <<lockVars, pc, execVars, poolVars>>
      PROVE  TypeOK'
  <2>1. p \in Patches
    BY <1>2 DEF TypeOK
  <2>2. /\ docState' \in [Tasks -> TaskState \cup {"NONE"}]
        /\ DOMAIN docStep' = Tasks
        /\ \A t \in Tasks : docStep'[t] \in [StepsOf(t) -> StepState]
    BY <1>2, <2>1, ApplyType DEF DeliverLatePatch, TypeOK
  <2>3. QED
    BY <1>2, <2>2 DEF DeliverLatePatch, Answered, TypeOK, lockVars, execVars, poolVars
<1>3. QED
  BY <1>1, <1>2 DEF Deliver

LEMMA TypeInductive == TypeOK /\ LockIndex /\ [Next]_vars => TypeOK'
<1>1. ASSUME TypeOK, LockIndex, Next PROVE TypeOK'
  <2>1. ASSUME NEW t \in Tasks, CommandStep(t) PROVE TypeOK'
    BY <1>1, <2>1, PoolType, MarkAsStartedType, ExecuteType, ClearType, ConcludeType
    DEF CommandStep, LockIndex
  <2>2. ASSUME NEW t \in Tasks, CreateTask(t) \/ CreateTaskFails(t) PROVE TypeOK'
    BY <1>1, <2>2, RequestType
  <2>3. ASSUME NEW n \in Nodes, WorkerTake(n) \/ Crash(n) PROVE TypeOK'
    BY <1>1, <2>3, NodeType
  <2>4. ASSUME Terminated PROVE TypeOK'
    BY <1>1, <2>4 DEF Terminated, TypeOK, vars, docVars, lockVars, execVars, poolVars
  <2>5. QED
    BY <1>1, <2>1, <2>2, <2>3, <2>4, DeliverType DEF Next
<1>2. ASSUME TypeOK, UNCHANGED vars PROVE TypeOK'
  BY <1>2 DEF TypeOK, vars, docVars, lockVars, execVars, poolVars
<1>3. QED
  BY <1>1, <1>2

-----------------------------------------------------------------------------
(* Control: how a step of t's thread moves the commands.                    *)

LEMMA CommandControl ==
    ASSUME TypeOK, NEW t \in Tasks, CommandStep(t)
    PROVE  /\ \A u \in Tasks \ {t} : pc'[u] = pc[u] /\ idx'[u] = idx[u]
           /\ pc[t] \notin Over \cup {"none", "queued"}
           /\ SubmitToQueue(t) \/ UNCHANGED workQueue
           /\ \/ SetTaskLock(t) \/ MarkTaskAsStarted(t)
              \/ pc'[t] # "lock" /\ (pc'[t] \in Executing => pc[t] \in Executing)
<1> USE DEF Goto, Over
<1>1. CASE SubmitToNewThread(t) \/ SubmitToQueue(t) \/ SubmitRejected(t)
  BY <1>1 DEF SubmitToNewThread, SubmitToQueue, SubmitRejected, TypeOK, execVars,
     poolVars, Executing
<1>2. CASE MarkTaskAsStarted(t) \/ SetTaskLock(t)
  BY SMT, <1>2 DEF MarkTaskAsStarted, SetTaskLock, NextLock, TypeOK, poolVars
<1>3. CASE MarkTaskAsStartedFails(t) \/ SetTaskLockFails(t)
  BY <1>3 DEF MarkTaskAsStartedFails, SetTaskLockFails, TypeOK, execVars,
     poolVars, Executing
<1>4. CASE SkipStep(t) \/ StepWork(t) \/ ExecuteReturns(t)
  BY <1>4 DEF SkipStep, StepWork, ExecuteReturns, TypeOK, execVars, poolVars,
     Executing
<1>5. CASE MarkStepAsStarted(t) \/ MarkStepAsDone(t) \/ MarkStepAsFailed(t)
  BY <1>5 DEF MarkStepAsStarted, MarkStepAsDone, MarkStepAsFailed, TypeOK,
     poolVars, Executing
<1>6. CASE ClearTaskLock(t)
  BY <1>6 DEF ClearTaskLock, TypeOK, poolVars, Clearing
<1>7. CASE ClearTaskLocksReturns(t)
  BY <1>7 DEF ClearTaskLocksReturns, AfterClear, TypeOK, poolVars, Clearing,
     Executing
<1>8. CASE MarkTaskAsDone(t) \/ MarkTaskAsFailed(t)
  BY <1>8 DEF MarkTaskAsDone, MarkTaskAsFailed, TypeOK, execVars, poolVars,
     Executing
<1>9. CASE ResubmitCommand(t) \/ ReturnAfterSync(t)
  BY <1>9 DEF ResubmitCommand, ReturnAfterSync, TypeOK, execVars, poolVars,
     Executing
<1>10. QED
  BY <1>1, <1>2, <1>3, <1>4, <1>5, <1>6, <1>7, <1>8, <1>9 DEF CommandStep

LEMMA LockIndexInductive == ControlInv /\ [Next]_vars => LockIndex'
<1>1. ASSUME ControlInv, NEW t \in Tasks, CommandStep(t) PROVE LockIndex'
  <2> DEFINE n == Len(ToBeLocked[t])
  <2>a. n \in Nat
    BY SMT, EngineAssumption DEF EngineAssumption
  <2>b. /\ pc \in [Tasks -> Labels]
        /\ idx \in [Tasks -> Nat \ {0}]
    BY <1>1 DEF ControlInv, TypeOK
  <2>c. ASSUME NEW i \in Nat \ {0}, NextLock(t, i)
        PROVE  pc'[t] = "lock" => idx'[t] \in 1 .. n
    <3> HIDE DEF n
    <3>1. idx'[t] = i /\ pc'[t] = IF i > n THEN "step" ELSE "lock"
      BY <2>b, <2>c DEF NextLock, Goto, n
    <3>2. QED
      BY SMT, <2>a, <3>1
  <2>1. CASE MarkTaskAsStarted(t)
    <3>1. NextLock(t, 1)
      BY <2>1 DEF MarkTaskAsStarted
    <3>2. pc'[t] = "lock" => idx'[t] \in 1 .. Len(ToBeLocked[t])
      BY SMT, <2>c, <3>1
    <3>3. QED
      BY <1>1, <3>2, CommandControl DEF ControlInv, LockIndex
  <2>2. CASE SetTaskLock(t)
    <3>1. NextLock(t, idx[t] + 1) /\ idx[t] + 1 \in Nat \ {0}
      BY SMT, <2>b, <2>2 DEF SetTaskLock
    <3>2. pc'[t] = "lock" => idx'[t] \in 1 .. Len(ToBeLocked[t])
      BY <2>c, <3>1
    <3>3. QED
      BY <1>1, <3>2, CommandControl DEF ControlInv, LockIndex
  <2>3. CASE ~MarkTaskAsStarted(t) /\ ~SetTaskLock(t)
    BY <1>1, <2>3, CommandControl DEF ControlInv, LockIndex
  <2>4. QED
    BY <2>1, <2>2, <2>3
<1>2. ASSUME ControlInv, NEW t \in Tasks, CreateTask(t) \/ CreateTaskFails(t)
      PROVE  LockIndex'
  BY <1>2 DEF CreateTask, CreateTaskFails, Goto, ControlInv, LockIndex, TypeOK,
     execVars
<1>3. ASSUME ControlInv, NEW n \in Nodes, WorkerTake(n) \/ Crash(n)
      PROVE  LockIndex'
  BY <1>3 DEF WorkerTake, Crash, Goto, ControlInv, LockIndex, TypeOK, execVars
<1>4. ASSUME ControlInv, Deliver \/ Terminated \/ UNCHANGED vars
      PROVE  LockIndex'
  BY <1>4 DEF Deliver, Terminated, vars, execVars, ControlInv, LockIndex
<1>5. QED
  BY <1>1, <1>2, <1>3, <1>4 DEF Next

LEMMA QueueElements ==
    ASSUME ControlInv, NEW n \in Nodes, NEW i \in 1 .. Len(workQueue[n])
    PROVE  /\ workQueue[n][i] \in Tasks
           /\ pc[workQueue[n][i]] = "queued"
           /\ HomeOf[workQueue[n][i]] = n
<1>1. workQueue[n] \in Seq(Tasks)
  BY DEF ControlInv, TypeOK
<1>2. workQueue[n][i] \in Tasks
  BY SMT, <1>1
<1>3. QED
  BY <1>2 DEF ControlInv, QueueOK

\* Where a queue is left alone, it is enough that what waits keeps waiting.
LEMMA QueueKept ==
    ASSUME ControlInv, UNCHANGED workQueue,
           \A t \in Tasks : pc[t] = "queued" => pc'[t] = "queued"
    PROVE  QueueOK'
BY SMT, QueueElements DEF ControlInv, QueueOK

LEMMA QueueInductive == ControlInv /\ [Next]_vars => QueueOK'
<1>1. ASSUME ControlInv, NEW t \in Tasks, CommandStep(t), ~SubmitToQueue(t)
      PROVE  QueueOK'
  BY <1>1, CommandControl, QueueKept DEF ControlInv
<1>2. ASSUME ControlInv, NEW t \in Tasks, SubmitToQueue(t) PROVE QueueOK'
  <2> DEFINE h == HomeOf[t]
             q == workQueue[h]
  <2>1. /\ h \in Nodes
        /\ q \in Seq(Tasks)
    BY <1>2, EngineAssumption DEF EngineAssumption, ControlInv, TypeOK
  <2>2. /\ workQueue'[h] = Append(q, t)
        /\ \A n \in Nodes \ {h} : workQueue'[n] = workQueue[n]
        /\ pc[t] = "submit" /\ pc'[t] = "queued"
        /\ \A u \in Tasks \ {t} : pc'[u] = pc[u]
    BY <1>2, <2>1 DEF SubmitToQueue, Goto, ControlInv, TypeOK
  <2>3. \A n \in Nodes : \A i \in 1 .. Len(workQueue[n]) :
            workQueue[n][i] \in Tasks \ {t}
    BY <1>2, <2>2, QueueElements
  <2>4. /\ Len(Append(q, t)) = Len(q) + 1
        /\ Append(q, t)[Len(q) + 1] = t
        /\ \A i \in 1 .. Len(q) : Append(q, t)[i] = q[i]
        /\ Len(q) \in Nat
    BY SMT, <2>1
  <2>5. \A i \in 1 .. Len(q) + 1 : i = Len(q) + 1 \/ i \in 1 .. Len(q)
    BY SMT, <2>4
  <2>6. \A i, j \in 1 .. Len(workQueue'[h]) :
            /\ pc'[workQueue'[h][i]] = "queued"
            /\ HomeOf[workQueue'[h][i]] = h
            /\ i # j => workQueue'[h][i] # workQueue'[h][j]
    BY SMT, <1>2, <2>1, <2>2, <2>3, <2>4, <2>5 DEF ControlInv, QueueOK
  <2>7. \A n \in Nodes \ {h} : \A i, j \in 1 .. Len(workQueue'[n]) :
            /\ pc'[workQueue'[n][i]] = "queued"
            /\ HomeOf[workQueue'[n][i]] = n
            /\ i # j => workQueue'[n][i] # workQueue'[n][j]
    BY SMT, <1>2, <2>2, <2>3 DEF ControlInv, QueueOK
  <2>8. QED
    BY SMT, <2>6, <2>7 DEF QueueOK
<1>3. ASSUME ControlInv, NEW t \in Tasks, CreateTask(t) \/ CreateTaskFails(t)
      PROVE  QueueOK'
  BY <1>3, QueueKept DEF CreateTask, CreateTaskFails, Goto, ControlInv, TypeOK,
     poolVars
<1>4. ASSUME ControlInv, NEW m \in Nodes, WorkerTake(m) PROVE QueueOK'
  <2> DEFINE q == workQueue[m]
  <2>1. q \in Seq(Tasks) /\ q # <<>> /\ Head(q) = q[1] /\ Head(q) \in Tasks
    <3>1. q \in Seq(Tasks)
      BY <1>4 DEF ControlInv, TypeOK
    <3>2. q # <<>>
      BY <1>4 DEF WorkerTake
    <3> HIDE DEF q
    <3>3. QED
      BY SMT, <3>1, <3>2
  <2>2. /\ workQueue'[m] = Tail(q)
        /\ \A n \in Nodes \ {m} : workQueue'[n] = workQueue[n]
        /\ \A u \in Tasks \ {Head(q)} : pc'[u] = pc[u]
    BY <1>4, <2>1 DEF WorkerTake, Goto, ControlInv, TypeOK
  <2>3. /\ Len(Tail(q)) = Len(q) - 1
        /\ \A i \in 1 .. Len(Tail(q)) : Tail(q)[i] = q[i + 1] /\ i + 1 \in 2 .. Len(q)
        /\ Len(q) \in Nat \ {0}
    BY SMT, <2>1
  <2>4. \A i \in 1 .. Len(Tail(q)) : Tail(q)[i] \in Tasks \ {Head(q)}
    BY SMT, <1>4, <2>1, <2>3 DEF ControlInv, QueueOK
  <2>5. \A i, j \in 1 .. Len(Tail(q)) :
            /\ pc'[Tail(q)[i]] = "queued"
            /\ HomeOf[Tail(q)[i]] = m
            /\ i # j => Tail(q)[i] # Tail(q)[j]
    BY SMT, <1>4, <2>2, <2>3, <2>4 DEF ControlInv, QueueOK
  <2>6. \A n \in Nodes \ {m} : \A i \in 1 .. Len(workQueue[n]) :
            workQueue[n][i] \in Tasks \ {Head(q)}
    <3>1. 1 \in 1 .. Len(q) /\ HomeOf[Head(q)] = m
      BY SMT, <1>4, <2>1, <2>3, QueueElements
    <3>2. QED
      BY <1>4, <3>1, QueueElements
  <2>7. \A n \in Nodes \ {m} : \A i, j \in 1 .. Len(workQueue'[n]) :
            /\ pc'[workQueue'[n][i]] = "queued"
            /\ HomeOf[workQueue'[n][i]] = n
            /\ i # j => workQueue'[n][i] # workQueue'[n][j]
    BY SMT, <1>4, <2>2, <2>6 DEF ControlInv, QueueOK
  <2>8. \A i, j \in 1 .. Len(workQueue'[m]) :
            /\ pc'[workQueue'[m][i]] = "queued"
            /\ HomeOf[workQueue'[m][i]] = m
            /\ i # j => workQueue'[m][i] # workQueue'[m][j]
    BY SMT, <2>2, <2>5
  <2>9. QED
    BY SMT, <2>7, <2>8 DEF QueueOK
<1>5. ASSUME ControlInv, NEW m \in Nodes, Crash(m) PROVE QueueOK'
  <2>1. /\ workQueue'[m] = <<>>
        /\ \A n \in Nodes \ {m} : workQueue'[n] = workQueue[n]
        /\ \A t \in Tasks : HomeOf[t] # m => pc'[t] = pc[t]
    BY <1>5 DEF Crash, ControlInv, TypeOK
  <2>2. \A n \in Nodes : \A i \in 1 .. Len(workQueue[n]) : workQueue[n][i] \in Tasks
    BY <1>5, QueueElements
  <2>3. QED
    BY SMT, <1>5, <2>1, <2>2 DEF ControlInv, QueueOK
<1>6. ASSUME ControlInv, Deliver \/ Terminated \/ UNCHANGED vars PROVE QueueOK'
  BY <1>6, QueueKept DEF Deliver, Terminated, vars, poolVars
<1>7. QED
  BY <1>1, <1>2, <1>3, <1>4, <1>5, <1>6 DEF Next

LEMMA InitControl == Init => ControlInv
BY SMT, InitType DEF Init, ControlInv, LockIndex, QueueOK

\* Type correctness of the task engine: every variable keeps its type in
\* every reachable state, whatever fails.
THEOREM TypeCorrect == Spec => []TypeOK
<1>1. ControlInv /\ [Next]_vars => ControlInv'
  BY TypeInductive, LockIndexInductive, QueueInductive DEF ControlInv
<1>2. Spec => []ControlInv
  BY <1>1, InitControl, PTL DEF Spec
<1>3. ControlInv => TypeOK
  BY DEF ControlInv
<1>4. QED
  BY <1>2, <1>3, PTL

-----------------------------------------------------------------------------
(* Locks.  A request the service accepts never takes from a task a lock it  *)
(* is using, unless it is a release in that task's own name.                *)

LEMMA AcquiredEntity ==
    ASSUME NEW t \in Tasks, NEW i \in Acquired(t)
    PROVE  i \in 1 .. Len(ToBeLocked[t]) /\ ToBeLocked[t][i] \in Entities
<1>1. ToBeLocked[t] \in Seq(Entities)
  BY EngineAssumption DEF EngineAssumption
<1>2. i \in 1 .. Len(ToBeLocked[t])
  BY DEF Acquired
<1>3. QED
  BY SMT, <1>1, <1>2

LEMMA HeldIsNotAvailable ==
    ASSUME NEW t \in Tasks
    PROVE  /\ Held(t) # NoLock
           /\ Held(t).ownerId = t
           /\ ~Held(t).isAvailable
<1>1. Held(t) \in LockDoc
  BY DEF Held, LockDoc
<1>2. QED
  BY <1>1, LockAssumption DEF LockAssumption, Held

LEMMA StoreKeepsHeld ==
    ASSUME TypeOK, HeldLocks,
           NEW r \in LockRequests, Accepts(r), Store(r),
           r.isAvailable => Acquired(r.ownerId) = {},
           NEW t \in Tasks, NEW i \in Acquired(t)
    PROVE  lock'[ToBeLocked[t][i]] = Held(t)
<1> DEFINE e == ToBeLocked[t][i]
<1>1. e \in Entities /\ lock[e] = Held(t)
  BY AcquiredEntity DEF HeldLocks
<1>2. CASE r.entityId # e
  BY <1>1, <1>2 DEF Store, TypeOK
<1>3. CASE r.entityId = e
  <2>1. r.ownerId = t
    BY <1>1, <1>3, HeldIsNotAvailable DEF Accepts, PutAccepts
  <2>2. ~r.isAvailable
    BY <2>1
  <2>3. r.isAvailable = FALSE
    BY <2>2 DEF LockRequests
  <2>4. QED
    BY <1>1, <1>3, <2>1, <2>3 DEF Store, TypeOK, Held
<1>4. QED
  BY <1>2, <1>3

LEMMA HeldKept ==
    ASSUME TypeOK, HeldLocks,
           \A t \in Tasks : Acquired(t)' \subseteq Acquired(t),
           \/ UNCHANGED lock
           \/ \E r \in LockRequests :
                 /\ Accepts(r) /\ Store(r)
                 /\ r.isAvailable => Acquired(r.ownerId) = {}
    PROVE  HeldLocks'
<1>1. SUFFICES ASSUME NEW t \in Tasks, NEW i \in Acquired(t)'
               PROVE  lock'[ToBeLocked[t][i]] = Held(t)
  BY DEF HeldLocks, Held
<1>2. i \in Acquired(t)
  BY <1>1
<1>3. CASE UNCHANGED lock
  BY <1>2, <1>3 DEF HeldLocks
<1>4. ASSUME NEW r \in LockRequests, Accepts(r), Store(r),
             r.isAvailable => Acquired(r.ownerId) = {}
      PROVE  lock'[ToBeLocked[t][i]] = Held(t)
  BY <1>2, <1>4, StoreKeepsHeld
<1>5. QED
  BY <1>3, <1>4

-----------------------------------------------------------------------------
(* The lock invariant.                                                      *)

LEMMA PastStays ==
    ASSUME ControlInv, Resubmitted = {}, [Next]_vars, NEW t \in Tasks, pc[t] \in Past
    PROVE  pc'[t] \in Past
<1>1. TypeOK
  BY DEF ControlInv
<1>2. ASSUME NEW u \in Tasks, CommandStep(u), u # t PROVE pc'[t] = pc[t]
  BY <1>1, <1>2, CommandControl
<1>3. ASSUME CommandStep(t) PROVE pc'[t] \in Past
  <2> USE <1>1 DEF Past, Clearing, Over, Goto
  <2>1. CASE ClearTaskLock(t)
    BY <2>1 DEF ClearTaskLock
  <2>2. CASE ClearTaskLocksReturns(t)
    BY <2>2 DEF ClearTaskLocksReturns, AfterClear, Synchronous, TypeOK
  <2>3. CASE MarkTaskAsDone(t) \/ MarkTaskAsFailed(t)
    BY <2>3 DEF MarkTaskAsDone, MarkTaskAsFailed, TypeOK
  <2>4. pc[t] \notin {"submit", "run", "lock", "synced"} \cup Executing
    BY DEF Executing
  <2>5. QED
    BY <1>3, <2>1, <2>2, <2>3, <2>4 DEF CommandStep, SubmitToNewThread,
       SubmitToQueue, SubmitRejected, MarkTaskAsStarted, MarkTaskAsStartedFails,
       SetTaskLock, SetTaskLockFails, SkipStep, MarkStepAsStarted, StepWork,
       MarkStepAsDone, MarkStepAsFailed, ExecuteReturns, ResubmitCommand,
       ReturnAfterSync, Executing
<1>4. ASSUME NEW n \in Nodes, WorkerTake(n) PROVE pc'[t] \in Past
  <2>1. /\ workQueue[n] \in Seq(Tasks) /\ workQueue[n] # <<>>
        /\ Head(workQueue[n]) = workQueue[n][1]
        /\ 1 \in 1 .. Len(workQueue[n])
    BY SMT, <1>1, <1>4 DEF WorkerTake, TypeOK
  <2>2. t # Head(workQueue[n])
    BY SMT, <2>1, QueueElements DEF Past, Clearing, Over
  <2>3. QED
    BY <1>1, <1>4, <2>2 DEF WorkerTake, Goto, TypeOK
<1>5. ASSUME NEW n \in Nodes, Crash(n) PROVE pc'[t] \in Past
  BY <1>5 DEF Crash, Past, Over
<1>6. ASSUME NEW u \in Tasks, CreateTask(u) \/ CreateTaskFails(u)
      PROVE  pc'[t] \in Past
  BY <1>1, <1>6 DEF CreateTask, CreateTaskFails, Goto, TypeOK, Past, Clearing, Over
<1>7. ASSUME Deliver \/ Terminated \/ UNCHANGED vars PROVE pc'[t] = pc[t]
  BY <1>7 DEF Deliver, Terminated, vars
<1>8. QED
  BY <1>2, <1>3, <1>4, <1>5, <1>6, <1>7 DEF Next

\* Which requests a step can leave under way.
LEMMA LateLockStep ==
    ASSUME ControlInv, [Next]_vars, NEW r \in lateLock', r \notin lateLock
    PROVE  LateDelivery /\ (r.isAvailable => pc'[r.ownerId] \in Clearing)
<1>1. TypeOK
  BY DEF ControlInv
<1>2. ASSUME NEW t \in Tasks, SetTaskLockFails(t)
      PROVE  LateDelivery /\ ~r.isAvailable
  <2> DEFINE q == Acquire(t, ToBeLocked[t][idx[t]])
  <2>1. PostRejected(q) \/ PostFails(q)
    BY <1>2 DEF SetTaskLockFails
  <2>2. ~q.isAvailable
    BY DEF Acquire
  <2> HIDE DEF q
  <2>3. LateDelivery /\ r = q
    BY <2>1 DEF PostRejected, PostFails, lockVars
  <2>4. QED
    BY <2>2, <2>3
<1>3. ASSUME NEW t \in Tasks, ClearTaskLock(t)
      PROVE  LateDelivery /\ r.ownerId = t /\ pc'[t] \in Clearing
  <2> DEFINE q == Release(t, Head(locked[t]))
  <2>1. pc' = pc /\ pc[t] \in Clearing
    BY <1>3 DEF ClearTaskLock
  <2>2. PostAccepted(q) \/ PostRejected(q) \/ PostFails(q)
    BY <1>3 DEF ClearTaskLock
  <2>3. q.ownerId = t
    BY DEF Release
  <2> HIDE DEF q
  <2>4. LateDelivery /\ r = q
    BY <2>2 DEF PostAccepted, PostRejected, PostFails, lockVars
  <2>5. QED
    BY <2>1, <2>3, <2>4
<1>4. ASSUME NEW t \in Tasks, CommandStep(t), ~SetTaskLockFails(t), ~ClearTaskLock(t)
      PROVE  UNCHANGED lateLock
  BY <1>4 DEF CommandStep, SubmitToNewThread, SubmitToQueue, SubmitRejected,
     MarkTaskAsStarted, MarkTaskAsStartedFails, SetTaskLock, PostAccepted,
     SkipStep, MarkStepAsStarted, StepWork, MarkStepAsDone, MarkStepAsFailed,
     ExecuteReturns, ClearTaskLocksReturns, MarkTaskAsDone, MarkTaskAsFailed,
     ResubmitCommand, ReturnAfterSync, lockVars
<1>5. ASSUME \/ \E t \in Tasks : CreateTask(t) \/ CreateTaskFails(t)
             \/ \E n \in Nodes : WorkerTake(n) \/ Crash(n)
             \/ Terminated \/ UNCHANGED vars
      PROVE  UNCHANGED lateLock
  BY <1>5 DEF CreateTask, CreateTaskFails, WorkerTake, Crash, Terminated, vars,
     lockVars
<1>6. ASSUME Deliver PROVE lateLock' \subseteq lateLock
  BY <1>6 DEF Deliver, DeliverLateLock, lockVars
<1>7. QED
  BY <1>2, <1>3, <1>4, <1>5, <1>6 DEF Next

LEMMA StaleInductive == ControlInv /\ NoStaleRelease /\ [Next]_vars => NoStaleRelease'
<1>1. SUFFICES ASSUME ControlInv, NoStaleRelease, [Next]_vars
               PROVE  NoStaleRelease'
  OBVIOUS
<1>2. ~LateDelivery => lateLock' = {}
  BY <1>1, LateLockStep DEF NoStaleRelease
<1>3. ASSUME Resubmitted = {}, NEW r \in lateLock', r.isAvailable
      PROVE  pc'[r.ownerId] \in Past
  <2>1. CASE r \in lateLock
    <3>1. r.ownerId \in Tasks
      BY <1>1, <2>1 DEF ControlInv, TypeOK, LockRequests
    <3>2. QED
      BY <1>1, <1>3, <2>1, <3>1, PastStays DEF NoStaleRelease
  <2>2. CASE r \notin lateLock
    BY <1>1, <1>3, <2>2, LateLockStep DEF Past
  <2>3. QED
    BY <2>1, <2>2
<1>4. QED
  BY <1>2, <1>3 DEF NoStaleRelease, Past

\* A request outlives its sender only where no task has a second command.
Safe == ~LateDelivery \/ Resubmitted = {}

LEMMA SetTaskLockHolds ==
    ASSUME LockInv, NEW t \in Tasks, SetTaskLock(t)
    PROVE  HeldLocks'
<1> DEFINE e == ToBeLocked[t][idx[t]]
           r == Acquire(t, e)
<1>1. /\ TypeOK /\ HeldLocks /\ pc[t] = "lock"
      /\ idx[t] \in 1 .. Len(ToBeLocked[t])
  BY DEF LockInv, ControlInv, LockIndex, SetTaskLock
<1>2. e \in Entities
  BY SMT, <1>1, EngineAssumption DEF EngineAssumption
<1>3. /\ r \in LockRequests
      /\ r.ownerId = t /\ r.entityId = e /\ r.isAvailable = FALSE
  BY <1>2, RequestTypes DEF Acquire
<1>4. Accepts(r) /\ Store(r)
  BY DEF SetTaskLock, PostAccepted
<1>5. lock'[e] = Held(t)
  BY <1>1, <1>2, <1>3, <1>4 DEF Store, TypeOK, Held
<1>6. \A u \in Tasks : \A i \in Acquired(u) : lock'[ToBeLocked[u][i]] = Held(u)
  BY <1>1, <1>3, <1>4, StoreKeepsHeld
<1>7. idx'[t] = idx[t] + 1
  BY <1>1 DEF SetTaskLock, NextLock, TypeOK
<1>8. pc'[t] \in Executing => idx[t] + 1 > Len(ToBeLocked[t])
  BY <1>1 DEF SetTaskLock, NextLock, Goto, TypeOK, Executing
<1>9. Acquired(t)' \subseteq Acquired(t) \cup {idx[t]}
  <2>1. SUFFICES ASSUME NEW i \in 1 .. Len(ToBeLocked[t]),
                        pc'[t] \in Executing \/ (pc'[t] = "lock" /\ i < idx'[t])
                 PROVE  i < idx[t] \/ i = idx[t]
    BY <1>1 DEF Acquired
  <2>2. Len(ToBeLocked[t]) \in Nat
    BY SMT, EngineAssumption DEF EngineAssumption
  <2>3. QED
    BY SMT, <1>1, <1>7, <1>8, <2>1, <2>2
<1>10. \A u \in Tasks \ {t} : Acquired(u)' = Acquired(u)
  <2>1. CommandStep(t)
    BY DEF CommandStep
  <2>2. QED
    BY <1>1, <2>1, CommandControl DEF Acquired
<1>11. \A i \in Acquired(t)' : lock'[ToBeLocked[t][i]] = Held(t)
  BY <1>5, <1>6, <1>9
<1>12. \A u \in Tasks \ {t} : \A i \in Acquired(u)' : lock'[ToBeLocked[u][i]] = Held(u)
  BY <1>6, <1>10
<1>13. QED
  BY <1>11, <1>12 DEF HeldLocks, Held

LEMMA HeldInductive ==
    ASSUME Safe, LockInv, [Next]_vars
    PROVE  HeldLocks'
<1>1. TypeOK /\ HeldLocks /\ ControlInv
  BY DEF LockInv, ControlInv
<1>2. ASSUME NEW t \in Tasks, MarkTaskAsStarted(t) PROVE HeldLocks'
  <2>1. /\ idx'[t] = 1
        /\ pc'[t] \in Executing => 1 > Len(ToBeLocked[t])
        /\ UNCHANGED lock
    BY <1>1, <1>2 DEF MarkTaskAsStarted, NextLock, Goto, TypeOK, Executing, lockVars
  <2>2. Len(ToBeLocked[t]) \in Nat
    BY SMT, EngineAssumption DEF EngineAssumption
  <2>3. Acquired(t)' = {}
    BY SMT, <2>1, <2>2 DEF Acquired
  <2>4. CommandStep(t)
    BY <1>2 DEF CommandStep
  <2>5. \A u \in Tasks \ {t} : Acquired(u)' = Acquired(u)
    BY <1>1, <2>4, CommandControl DEF Acquired
  <2>6. QED
    BY <1>1, <2>1, <2>3, <2>5, HeldKept
<1>3. ASSUME NEW t \in Tasks, CommandStep(t), ~MarkTaskAsStarted(t), ~SetTaskLock(t)
      PROVE  HeldLocks'
  <2>1. \A u \in Tasks : Acquired(u)' \subseteq Acquired(u)
    BY <1>1, <1>3, CommandControl DEF Acquired
  <2>2. CASE SetTaskLockFails(t)
    <3> DEFINE r == Acquire(t, ToBeLocked[t][idx[t]])
    <3>1. ToBeLocked[t][idx[t]] \in Entities
      BY SMT, <1>1, <2>2, EngineAssumption
      DEF EngineAssumption, ControlInv, LockIndex, SetTaskLockFails
    <3>2. r \in LockRequests /\ ~r.isAvailable
      BY <3>1, RequestTypes DEF Acquire
    <3>3. UNCHANGED lock \/ (Accepts(r) /\ Store(r))
      BY <2>2 DEF SetTaskLockFails, PostRejected, PostFails, lockVars
    <3>4. QED
      BY <1>1, <2>1, <3>2, <3>3, HeldKept
  <2>3. CASE ClearTaskLock(t)
    <3> DEFINE r == Release(t, Head(locked[t]))
    <3>1. Head(locked[t]) \in Entities
      <4>1. locked[t] \in Seq(Entities)
        BY <1>1 DEF TypeOK
      <4>2. locked[t] # <<>>
        BY <2>3 DEF ClearTaskLock
      <4>3. QED
        BY SMT, <4>1, <4>2
    <3>2. r \in LockRequests /\ r.ownerId = t
      BY <3>1, RequestTypes DEF Release
    <3>3. Acquired(t) = {}
      BY <2>3 DEF ClearTaskLock, Acquired, Clearing, Executing
    <3>4. UNCHANGED lock \/ (Accepts(r) /\ Store(r))
      BY <2>3 DEF ClearTaskLock, PostAccepted, PostRejected, PostFails, lockVars
    <3>5. QED
      BY <1>1, <2>1, <3>2, <3>3, <3>4, HeldKept
  <2>4. CASE ~SetTaskLockFails(t) /\ ~ClearTaskLock(t)
    <3>1. UNCHANGED lock
      BY <1>3, <2>4 DEF CommandStep, SubmitToNewThread, SubmitToQueue,
         SubmitRejected, MarkTaskAsStartedFails, SkipStep, MarkStepAsStarted,
         StepWork, MarkStepAsDone, MarkStepAsFailed, ExecuteReturns,
         ClearTaskLocksReturns, MarkTaskAsDone, MarkTaskAsFailed,
         ResubmitCommand, ReturnAfterSync, lockVars
    <3>2. QED
      BY <1>1, <2>1, <3>1, HeldKept
  <2>5. QED
    BY <2>2, <2>3, <2>4
<1>4. ASSUME \/ \E t \in Tasks : CreateTask(t) \/ CreateTaskFails(t)
             \/ \E n \in Nodes : WorkerTake(n) \/ Crash(n)
             \/ Terminated \/ UNCHANGED vars
      PROVE  HeldLocks'
  <2>1. UNCHANGED <<lock, idx>>
    BY <1>4 DEF CreateTask, CreateTaskFails, WorkerTake, Crash, Terminated, vars,
       lockVars, execVars
  <2>2. \A u \in Tasks : pc'[u] = pc[u] \/ pc'[u] \notin Executing \cup {"lock"}
    BY ZenonT(30), <1>1, <1>4 DEF CreateTask, CreateTaskFails, WorkerTake, Crash, Terminated,
       vars, Goto, TypeOK, Executing
  <2>3. \A u \in Tasks : Acquired(u)' \subseteq Acquired(u)
    BY <2>1, <2>2 DEF Acquired
  <2>4. QED
    BY <1>1, <2>1, <2>3, HeldKept
<1>5. ASSUME Deliver PROVE HeldLocks'
  <2>1. \A u \in Tasks : Acquired(u)' = Acquired(u)
    BY <1>5 DEF Deliver, execVars, Acquired
  <2>2. ASSUME NEW r \in lateLock, Accepts(r), Store(r) PROVE HeldLocks'
    <3>1. r \in LockRequests /\ r.ownerId \in Tasks
      BY <1>1 DEF TypeOK, LockRequests
    <3>2. r.isAvailable => pc[r.ownerId] \in Past
      BY DEF Safe, LockInv, NoStaleRelease
    <3>3. r.isAvailable => Acquired(r.ownerId) = {}
      BY <3>2 DEF Acquired, Past, Clearing, Over, Executing
    <3>4. QED
      BY <1>1, <2>1, <2>2, <3>1, <3>3, HeldKept
  <2>3. CASE UNCHANGED lock
    BY <1>1, <2>1, <2>3, HeldKept
  <2>4. QED
    BY <1>5, <2>2, <2>3 DEF Deliver, DeliverLateLock, lockVars
<1>6. ASSUME NEW t \in Tasks, CommandStep(t) PROVE HeldLocks'
  BY <1>2, <1>3, <1>6, SetTaskLockHolds
<1>7. QED
  BY <1>4, <1>5, <1>6 DEF Next

LEMMA HeldExcludes == ControlInv /\ HeldLocks => MutualExclusion
<1>1. SUFFICES ASSUME ControlInv, HeldLocks,
                      NEW t \in Tasks, NEW u \in Tasks, t # u,
                      pc[t] \in Executing, pc[u] \in Executing,
                      NEW e \in Locks(t) \cap Locks(u)
               PROVE  FALSE
  BY DEF MutualExclusion
<1>2. lock[e] = Held(t) /\ lock[e] = Held(u)
  BY <1>1 DEF Locks, HeldLocks, Acquired
<1>3. QED
  BY <1>1, <1>2, HeldIsNotAvailable

\* The invariant behind the locks: requests under way, and the queue and the
\* lock lists of the commands, are always such that no lock can be taken away
\* from the command that uses it.
THEOREM LockInvariant == ASSUME Safe PROVE Spec => []LockInv
<1>1. Init => LockInv
  BY InitControl DEF LockInv, Init, HeldLocks, Acquired, Executing, NoStaleRelease
<1>2. LockInv /\ [Next]_vars => LockInv'
  BY TypeInductive, LockIndexInductive, QueueInductive, StaleInductive,
     HeldInductive DEF LockInv, ControlInv
<1>3. QED
  BY <1>1, <1>2, PTL DEF Spec

\* While a command runs the steps of a task, the lock documents of all its
\* entities are in the task's name: for any number of tasks, entities, nodes
\* and failures, if no request outlives its sender or no task has two commands.
THEOREM LocksAreHeld == ASSUME Safe PROVE Spec => []HeldLocks
<1>1. LockInv => HeldLocks
  BY DEF LockInv
<1>2. QED
  BY <1>1, LockInvariant, PTL

\* Two tasks never run steps on a common entity at the same time.
THEOREM TasksExclude == ASSUME Safe PROVE Spec => []MutualExclusion
<1>1. ControlInv /\ [Next]_vars => ControlInv'
  BY TypeInductive, LockIndexInductive, QueueInductive DEF ControlInv
<1>2. Spec => []ControlInv
  BY <1>1, InitControl, PTL DEF Spec
<1>3. QED
  BY <1>2, LocksAreHeld, HeldExcludes, PTL
=============================================================================
