------------------------- MODULE LockCleanerProofs -------------------------
(***************************************************************************)
(* The two cleaners never disturb a running task, for any number of tasks, *)
(* entities, nodes, failures and pages.                                    *)
(*                                                                         *)
(* The engine beside the cleaners is no longer TaskEngine!Spec: documents  *)
(* disappear and locks are released by others.  So its invariants LockInv, *)
(* RestInv, StepsInv and LeakInv are shown again, with the steps of the    *)
(* cleaners; the steps of the engine itself are those already proved.      *)
(*                                                                         *)
(* One task can come back to work after its document was concluded: the    *)
(* first of two commands whose patch to STARTED arrives after its failure  *)
(* was recorded (Early).  It has not taken a lock, and since the cleaner   *)
(* finds tasks through their locks, it never looks at this one.            *)
(***************************************************************************)
EXTENDS LockCleaner, TaskContractProofs

\* Most leaves are first-order reasoning, which Zenon does; those with arithmetic,
\* records or long formulas name SMT.
USE Zenon

\* The first of two commands that has not begun, or whose patch to STARTED is
\* still under way.  That patch can revive it after its failure was recorded.
Early(t) ==
    /\ Synchronous(t)
    /\ pc[t] \in {"none", "run"} \/ TaskPatch(t, "STARTED") \in latePatch

\* No lock document has ever named t.
Untouched(t) ==
    /\ \A e \in Entities : lock[e] # NoLock => lock[e].ownerId # t
    /\ \A r \in lateLock : r.ownerId # t
    /\ locked[t] = <<>> /\ failed[t] = <<>>

\* t may still run for the first time.
Beginning(t) ==
    pc[t] \in {"none", "run"} /\ TaskPatch(t, "STARTED") \notin latePatch

\* A task that is early is unknown to the locks and to the cleaner.
EarlyInv ==
    \A t \in Tasks :
        /\ pc[t] \in {"submit", "queued"} => ~Synchronous(t)
        /\ Early(t) => /\ Beginning(t) \/ AtRest(t)
                       /\ Untouched(t)
                       /\ t \notin toGet \cup toRelease

\* A task the cleaner is about to release a lock for was concluded when its
\* document was read.  It is at rest since, and is not run a second time.
ReleaseOK(t) ==
    /\ AtRest(t)
    /\ NotRunAgain(t) \/ docState[t] # "STARTED"

CleanerInv ==
    /\ ControlInv /\ RestInv /\ EarlyInv
    /\ CleanerTypeOK
    /\ \A t \in toRelease : ReleaseOK(t)

-----------------------------------------------------------------------------
(* Steps of the engine.                                                     *)

LEMMA EngineKeepsControl ==
    ASSUME ControlInv, RestInv, [Next]_vars
    PROVE  ControlInv' /\ RestInv'
BY TypeInductive, LockIndexInductive, QueueInductive, RestInductive DEF ControlInv

\* A step that leaves the commands where they are, and the queues alone.
LEMMA QueuesKept ==
    ASSUME LockIndex, QueueOK, UNCHANGED <<pc, idx, workQueue>>
    PROVE  LockIndex' /\ QueueOK'
BY SMT DEF LockIndex, QueueOK

LEMMA EngineKeepsLocks ==
    ASSUME Safe, LockInv, [Next]_vars
    PROVE  LockInv'
<1>1. ControlInv /\ NoStaleRelease
  BY DEF LockInv
<1>2. ControlInv'
  BY <1>1, TypeInductive, LockIndexInductive, QueueInductive DEF ControlInv
<1>3. QED
  BY <1>1, <1>2, StaleInductive, HeldInductive DEF LockInv

\* A task the cleaner has found concluded remains so, whatever the engine does.
LEMMA EngineKeepsRelease ==
    ASSUME CleanerInv, [Next]_vars, NEW t \in toRelease
    PROVE  ReleaseOK(t)'
<1>1. t \in Tasks /\ ReleaseOK(t) /\ ~Early(t) /\ ControlInv /\ RestInv
  BY DEF CleanerInv, CleanerTypeOK, EarlyInv
<1>2. pc[t] = "synced" => threw[t] \/ docState[t] # "STARTED"
  BY <1>1 DEF ReleaseOK, RestInv, NotRunAgain
<1>3. AtRest(t)'
  BY <1>1, <1>2, RestStays DEF ReleaseOK
<1>4. CASE NotRunAgain(t)
  BY <1>1, <1>3, <1>4, FirstStays DEF ReleaseOK, NotRunAgain
<1>5. CASE ~NotRunAgain(t) /\ docState[t] # "STARTED"
  <2>1. pc[t] \notin {"none", "run"}
    BY <1>1 DEF ReleaseOK, AtRest, Past, Clearing, Over
  <2>2. TaskPatch(t, "STARTED") \notin latePatch
    BY <1>1, <1>5 DEF Early, NotRunAgain
  <2>3. \A p \in latePatch : p.step = 0 /\ p.task = t => p.state # "STARTED"
    BY SMT, <1>1, <2>2 DEF TaskPatch, ControlInv, TypeOK, Patches
  <2>4. docState'[t] # "STARTED"
    BY <1>1, <1>5, <2>1, <2>3, DocumentStep DEF Concludes
  <2>5. QED
    BY <1>3, <2>4 DEF ReleaseOK
<1>6. QED
  BY <1>1, <1>4, <1>5 DEF ReleaseOK

\* A lock document changes by a request of the engine's, in its task's name, or
\* by one that was under way.  It is never deleted.
LEMMA LockStep ==
    ASSUME ControlInv, [Next]_vars
    PROVE  \/ UNCHANGED <<lock, lateLock>>
           \/ \E r \in LockRequests :
                 /\ UNCHANGED lock \/ Store(r)
                 /\ lateLock' \subseteq lateLock \cup {r}
                 /\ \/ r \in lateLock
                    \/ SetTaskLock(r.ownerId) \/ SetTaskLockFails(r.ownerId)
                    \/ ClearTaskLock(r.ownerId)
<1>1. TypeOK
  BY DEF ControlInv
<1>2. ASSUME NEW r \in LockRequests, PostAccepted(r) \/ PostRejected(r) \/ PostFails(r)
      PROVE  (UNCHANGED lock \/ Store(r)) /\ lateLock' \subseteq lateLock \cup {r}
  BY <1>2 DEF PostAccepted, PostRejected, PostFails, lockVars
<1>3. ASSUME NEW t \in Tasks, SetTaskLock(t) \/ SetTaskLockFails(t)
      PROVE  \E r \in LockRequests :
                /\ r.ownerId = t
                /\ PostAccepted(r) \/ PostRejected(r) \/ PostFails(r)
  <2> DEFINE r == Acquire(t, ToBeLocked[t][idx[t]])
  <2>1. ToBeLocked[t][idx[t]] \in Entities
    BY SMT, <1>1, <1>3, EngineAssumption
    DEF EngineAssumption, ControlInv, LockIndex, SetTaskLock, SetTaskLockFails
  <2>2. r \in LockRequests /\ r.ownerId = t
    BY <2>1, RequestTypes DEF Acquire
  <2>3. PostAccepted(r) \/ PostRejected(r) \/ PostFails(r)
    BY <1>3 DEF SetTaskLock, SetTaskLockFails
  <2> HIDE DEF r
  <2>4. QED
    BY <2>2, <2>3
<1>4. ASSUME NEW t \in Tasks, ClearTaskLock(t)
      PROVE  \E r \in LockRequests :
                /\ r.ownerId = t
                /\ PostAccepted(r) \/ PostRejected(r) \/ PostFails(r)
  <2> DEFINE r == Release(t, Head(locked[t]))
  <2>1. locked[t] \in Seq(Entities) /\ locked[t] # <<>>
    BY <1>1, <1>4 DEF TypeOK, ClearTaskLock
  <2>2. Head(locked[t]) \in Entities
    BY SMT, <2>1
  <2>3. r \in LockRequests /\ r.ownerId = t
    BY <2>2, RequestTypes DEF Release
  <2>4. PostAccepted(r) \/ PostRejected(r) \/ PostFails(r)
    BY <1>4 DEF ClearTaskLock
  <2> HIDE DEF r
  <2>5. QED
    BY <2>3, <2>4
<1>5. ASSUME NEW t \in Tasks, CommandStep(t), ~SetTaskLock(t),
             ~SetTaskLockFails(t), ~ClearTaskLock(t)
      PROVE  UNCHANGED <<lock, lateLock>>
  BY <1>5 DEF CommandStep, SubmitToNewThread, SubmitToQueue, SubmitRejected,
     MarkTaskAsStarted, MarkTaskAsStartedFails, SkipStep, MarkStepAsStarted,
     StepWork, MarkStepAsDone, MarkStepAsFailed, ExecuteReturns,
     ClearTaskLocksReturns, MarkTaskAsDone, MarkTaskAsFailed, ResubmitCommand,
     ReturnAfterSync, lockVars
<1>6. ASSUME \/ \E t \in Tasks : CreateTask(t) \/ CreateTaskFails(t)
             \/ \E n \in Nodes : WorkerTake(n) \/ Crash(n)
             \/ \E p \in latePatch : DeliverLatePatch(p) /\ UNCHANGED lockVars
             \/ Terminated \/ UNCHANGED vars
      PROVE  UNCHANGED <<lock, lateLock>>
  BY <1>6 DEF CreateTask, CreateTaskFails, WorkerTake, Crash, Terminated, vars,
     lockVars
<1>7. ASSUME NEW r \in lateLock, DeliverLateLock(r)
      PROVE  r \in LockRequests /\ (UNCHANGED lock \/ Store(r)) /\ lateLock' \subseteq lateLock
  BY <1>1, <1>7 DEF DeliverLateLock, TypeOK
<1>8. CASE \E t \in Tasks : SetTaskLock(t) \/ SetTaskLockFails(t)
  BY SMT, <1>2, <1>3, <1>8
<1>9. CASE \E t \in Tasks : ClearTaskLock(t)
  BY SMT, <1>2, <1>4, <1>9
<1>10. CASE \E r \in lateLock : DeliverLateLock(r)
  BY <1>7, <1>10
<1>11. QED
  BY <1>5, <1>6, <1>8, <1>9, <1>10 DEF Next, Deliver

LEMMA StoreMakesLock ==
    ASSUME TypeOK, NEW r \in LockRequests, Store(r), NEW e \in Entities,
           lock[e] # NoLock
    PROVE  lock'[e] # NoLock
<1>1. r.entityId \in Entities
      /\ [ownerId |-> r.ownerId, isAvailable |-> r.isAvailable] \in LockDoc
  BY DEF LockRequests, LockDoc
<1>2. lock'[e] = lock[e] \/ lock'[e] \in LockDoc
  BY <1>1 DEF Store, TypeOK
<1>3. QED
  BY <1>2, LockAssumption DEF LockAssumption

\* The engine leaves no task without the document it had.
LEMMA DocumentsStay ==
    ASSUME ControlInv, [Next]_vars, NEW t \in Tasks, docState[t] # "NONE"
    PROVE  docState'[t] # "NONE"
<1>1. \A p \in latePatch : p.state # "NONE"
  BY DEF ControlInv, TypeOK, Patches, StepState
<1>2. QED
  BY <1>1, DocumentStep DEF Concludes

LEMMA StoreKeepsOwner ==
    ASSUME TypeOK, NEW r \in LockRequests, Store(r), NEW t, r.ownerId # t,
           \A e \in Entities : lock[e] # NoLock => lock[e].ownerId # t
    PROVE  \A e \in Entities : lock'[e] # NoLock => lock'[e].ownerId # t
BY DEF Store, TypeOK, LockRequests

\* Only markAsStarted leaves a patch to STARTED under way.
LEMMA LateStart ==
    ASSUME ControlInv, [Next]_vars, NEW t \in Tasks,
           TaskPatch(t, "STARTED") \in latePatch' \ latePatch
    PROVE  MarkTaskAsStartedFails(t)
<1>1. TypeOK
  BY DEF ControlInv
<1>2. ASSUME NEW p, PatchApplied(p) \/ PatchNotFound(p) \/ PatchFails(p)
      PROVE  p = TaskPatch(t, "STARTED") /\ ~PatchApplied(p)
  BY <1>2 DEF PatchApplied, PatchNotFound, PatchFails, docVars
<1>3. \A u \in Tasks : \A st :
          /\ TaskPatch(u, st) = TaskPatch(t, "STARTED") => u = t /\ st = "STARTED"
          /\ StepPatch(u, cur[u], st) # TaskPatch(t, "STARTED")
  <2>1. \A u \in Tasks : cur[u] # 0
    BY <1>1 DEF TypeOK
  <2>2. QED
    BY <2>1 DEF TaskPatch, StepPatch
<1>4. ASSUME NEW u \in Tasks, CommandStep(u) PROVE MarkTaskAsStartedFails(t)
  <2>1. CASE MarkTaskAsStarted(u)
    BY <1>2, <2>1 DEF MarkTaskAsStarted
  <2>2. CASE MarkTaskAsStartedFails(u)
    BY SMT, <1>2, <1>3, <2>2 DEF MarkTaskAsStartedFails
  <2>3. CASE MarkTaskAsDone(u) \/ MarkTaskAsFailed(u)
    BY SMT, <1>2, <1>3, <2>3 DEF MarkTaskAsDone, MarkTaskAsFailed
  <2>4. CASE MarkStepAsStarted(u) \/ MarkStepAsDone(u) \/ MarkStepAsFailed(u)
    BY SMT, <1>2, <1>3, <2>4 DEF MarkStepAsStarted, MarkStepAsDone, MarkStepAsFailed
  <2>5. QED
    BY <1>4, <2>1, <2>2, <2>3, <2>4, NoPatch DEF docVars
<1>5. QED
  BY <1>4 DEF Next, CreateTask, CreateTaskFails, CreateDocument, WorkerTake, Crash,
     Deliver, DeliverLatePatch, Terminated, vars, docVars

\* Who is early was so before, and the engine makes no lock of theirs.
LEMMA EngineKeepsEarly ==
    ASSUME CleanerInv, [Next]_vars, UNCHANGED <<toGet, toRelease>>
    PROVE  EarlyInv'
<1>1. TypeOK /\ ControlInv /\ RestInv
  BY DEF CleanerInv, ControlInv
<1>2. SUFFICES ASSUME NEW t \in Tasks
               PROVE  /\ pc'[t] \in {"submit", "queued"} => ~Synchronous(t)'
                      /\ Early(t)' => /\ Beginning(t)' \/ AtRest(t)'
                                      /\ Untouched(t)'
                                      /\ t \notin toGet' \cup toRelease'
  BY DEF EarlyInv, Early, Beginning, Untouched, Synchronous, AtRest
<1>3. /\ pc[t] \in {"submit", "queued"} => ~Synchronous(t)
      /\ Early(t) => /\ Beginning(t) \/ AtRest(t)
                     /\ Untouched(t)
                     /\ t \notin toGet \cup toRelease
  BY <1>2 DEF CleanerInv, EarlyInv
<1>4. Synchronous(t)' => Synchronous(t)
  BY <1>1, FirstStays
\* Where t comes from when it is at the beginning of a command.
<1>5. ASSUME Synchronous(t)'
      PROVE  /\ pc'[t] \notin {"submit", "queued"}
             /\ pc'[t] \in {"none", "run"} => pc[t] \in {"none", "run"}
             /\ pc[t] \in {"none", "run"} =>
                   \/ pc'[t] \in {"none", "run"} \cup Over
                   \/ MarkTaskAsStarted(t) \/ MarkTaskAsStartedFails(t)
  <2>1. Synchronous(t) /\ pc[t] \notin {"submit", "queued"} /\ pc[t] \in Labels
    BY <1>1, <1>3, <1>4, <1>5 DEF TypeOK
  <2>2. CASE CommandStep(t)
    <3>1. pc[t] # "none"
      BY <1>1, <2>2, CommandControl
    <3>2. ~ResubmitCommand(t)
      BY SMT, <1>1, <1>5 DEF ResubmitCommand, Synchronous, TypeOK
    <3>3. pc'[t] \notin {"submit", "queued", "none", "run"}
      BY ZenonT(30), <1>1, <2>1, <2>2, <3>2 DEF CommandStep, SubmitToNewThread, SubmitToQueue,
         SubmitRejected, MarkTaskAsStarted, MarkTaskAsStartedFails, SetTaskLock,
         SetTaskLockFails, SkipStep, MarkStepAsStarted, StepWork, MarkStepAsDone,
         MarkStepAsFailed, ExecuteReturns, ClearTaskLock, ClearTaskLocksReturns,
         AfterClear, MarkTaskAsDone, MarkTaskAsFailed, ReturnAfterSync, NextLock, Goto,
         Clearing, TypeOK
    <3>4. pc[t] = "run" => MarkTaskAsStarted(t) \/ MarkTaskAsStartedFails(t)
      BY <2>2 DEF CommandStep, SubmitToNewThread, SubmitToQueue, SubmitRejected,
         SetTaskLock, SetTaskLockFails, SkipStep, MarkStepAsStarted, StepWork,
         MarkStepAsDone, MarkStepAsFailed, ExecuteReturns, ClearTaskLock,
         ClearTaskLocksReturns, MarkTaskAsDone, MarkTaskAsFailed, ResubmitCommand,
         ReturnAfterSync, Clearing
    <3>5. QED
      BY <3>1, <3>3, <3>4
  <2>3. CASE ~CommandStep(t) /\ pc[t] # "none"
    <3>1. pc'[t] \in {pc[t], "dead"}
      BY <1>1, <2>1, <2>3, OtherSteps
    <3>2. QED
      BY <2>1, <2>3, <3>1 DEF Over
  <2>4. CASE ~CommandStep(t) /\ pc[t] = "none"
    <3>1. ASSUME NEW u \in Tasks, CommandStep(u) PROVE pc'[t] = pc[t]
      BY <1>1, <2>4, <3>1, CommandControl
    <3>2. ASSUME NEW u \in Tasks, CreateTask(u) \/ CreateTaskFails(u)
          PROVE  pc'[t] \in {"none", "run", "returned"}
      BY ZenonT(30), <1>1, <2>1, <2>4, <3>2 DEF CreateTask, CreateTaskFails, Goto, TypeOK
    <3>3. ASSUME NEW n \in Nodes, WorkerTake(n) PROVE pc'[t] \in {pc[t], "run"}
      BY <1>1, <3>3 DEF WorkerTake, Goto, TypeOK
    <3>4. ASSUME \/ \E n \in Nodes : Crash(n)
                 \/ Deliver \/ Terminated \/ UNCHANGED vars
          PROVE  pc'[t] \in {pc[t], "dead"}
      BY <3>4 DEF Crash, Deliver, Terminated, vars
    <3>5. QED
      BY <2>4, <3>1, <3>2, <3>3, <3>4 DEF Next, Over
  <2>5. QED
    BY <2>2, <2>3, <2>4
<1>6. ASSUME Early(t)' PROVE Early(t)
  <2>1. Synchronous(t) /\ Synchronous(t)'
    BY <1>4, <1>6 DEF Early
  <2>2. CASE pc'[t] \in {"none", "run"}
    BY <1>5, <2>1, <2>2 DEF Early
  <2>3. CASE TaskPatch(t, "STARTED") \in latePatch' \ latePatch
    <3>1. pc[t] = "run"
      BY <1>1, <2>3, LateStart DEF MarkTaskAsStartedFails
    <3>2. QED
      BY <2>1, <3>1 DEF Early
  <2>4. QED
    BY <1>6, <2>1, <2>2, <2>3 DEF Early
<1>7. ASSUME Early(t)' PROVE Beginning(t)' \/ AtRest(t)'
  <2>1. Synchronous(t)' /\ (Beginning(t) \/ AtRest(t))
    BY <1>3, <1>6, <1>7 DEF Early
  <2>2. CASE AtRest(t)
    BY <1>1, <2>1, <2>2, RestStays
  <2>3. CASE Beginning(t) /\ MarkTaskAsStarted(t)
    <3>1. pc'[t] \in {"lock", "step"} /\ latePatch' = latePatch
      BY <1>1, <2>3 DEF MarkTaskAsStarted, NextLock, Goto, PatchApplied, TypeOK
    <3>2. QED
      BY <1>7, <2>3, <3>1 DEF Early, Beginning
  <2>4. CASE MarkTaskAsStartedFails(t)
    BY <1>1, <2>4 DEF MarkTaskAsStartedFails, Goto, TypeOK, AtRest, Past, Clearing
  <2>5. CASE pc'[t] \in Over
    BY <2>5 DEF AtRest, Past
  <2>6. CASE Beginning(t) /\ pc'[t] \in {"none", "run"} /\ ~MarkTaskAsStartedFails(t)
    BY <1>1, <2>6, LateStart DEF Beginning
  <2>7. QED
    BY SMT, <1>5, <2>1, <2>2, <2>3, <2>4, <2>5, <2>6 DEF Beginning
<1>8. ASSUME Early(t)' PROVE Untouched(t)'
  <2>1. Untouched(t) /\ pc[t] \notin {"lock"} /\ locked[t] = <<>> /\ failed[t] = <<>>
    BY <1>3, <1>6, <1>8 DEF Untouched, Beginning, AtRest, Past, Clearing, Over
  <2>2. ~SetTaskLock(t) /\ ~SetTaskLockFails(t) /\ ~ClearTaskLock(t)
    BY <2>1 DEF SetTaskLock, SetTaskLockFails, ClearTaskLock
  <2>3. locked'[t] = <<>> /\ failed'[t] = <<>>
    <3>1. ASSUME NEW u \in Tasks, CommandStep(u), u # t
          PROVE  locked'[t] = locked[t] /\ failed'[t] = failed[t]
      BY SMT, <1>1, <3>1, CommandOthers
    <3>2. ASSUME CommandStep(t) PROVE locked'[t] = <<>> /\ failed'[t] = <<>>
      BY ZenonT(30), <1>1, <2>1, <2>2, <3>2 DEF CommandStep, SubmitToNewThread, SubmitToQueue,
         SubmitRejected, MarkTaskAsStarted, MarkTaskAsStartedFails, SkipStep,
         MarkStepAsStarted, StepWork, MarkStepAsDone, MarkStepAsFailed, ExecuteReturns,
         ClearTaskLocksReturns, MarkTaskAsDone, MarkTaskAsFailed, ResubmitCommand,
         ReturnAfterSync, execVars, TypeOK
    <3>3. ASSUME \/ \E u \in Tasks : CreateTask(u) \/ CreateTaskFails(u)
                 \/ \E n \in Nodes : WorkerTake(n) \/ Crash(n)
                 \/ Deliver \/ Terminated \/ UNCHANGED vars
          PROVE  UNCHANGED <<locked, failed>>
      BY <3>3 DEF CreateTask, CreateTaskFails, WorkerTake, Crash, Deliver, Terminated,
         vars, execVars
    <3>4. QED
      BY <2>1, <3>1, <3>2, <3>3 DEF Next
  <2>4. CASE UNCHANGED <<lock, lateLock>>
    BY <2>1, <2>3, <2>4 DEF Untouched
  <2>5. ASSUME NEW r \in LockRequests, UNCHANGED lock \/ Store(r), r.ownerId # t,
               lateLock' \subseteq lateLock \cup {r}
        PROVE  Untouched(t)'
    BY <1>1, <2>1, <2>3, <2>5, StoreKeepsOwner DEF Untouched
  <2>6. QED
    BY SMT, <1>1, <2>1, <2>2, <2>4, <2>5, LockStep DEF Untouched
<1>9. QED
  BY <1>3, <1>5, <1>6, <1>7, <1>8

LEMMA EngineStepKeeps ==
    ASSUME CleanerInv, EngineStep
    PROVE  CleanerInv'
<1>1. ControlInv /\ RestInv /\ TypeOK /\ [Next]_vars
  BY DEF CleanerInv, ControlInv, EngineStep
<1>2. ControlInv' /\ RestInv'
  BY <1>1, EngineKeepsControl
<1>3. UNCHANGED <<stage, toGet, toRelease, joinFailed, expired, toDelete, deleteFailed>>
  BY DEF EngineStep, passVars, roundVars
<1>4. EarlyInv' /\ \A t \in toRelease' : ReleaseOK(t)'
  BY <1>1, <1>3, EngineKeepsRelease, EngineKeepsEarly
<1>5. \A e \in Entities : lock[e] # NoLock => lock'[e] # NoLock
  BY <1>1, LockStep, StoreMakesLock
<1>6. old' \subseteq {e \in Entities : lock'[e] # NoLock}
  BY <1>5 DEF EngineStep, KeepsAge, CleanerInv, CleanerTypeOK
<1>7. tombstones \subseteq tombstones' /\ tombstones' \subseteq Entities
  BY SMT, CleanerAssumption
  DEF CleanerAssumption, EngineStep, Tombstoned, CleanerInv, CleanerTypeOK
<1>8. \A e \in Entities : TasksOf(e) \subseteq TasksOf(e)'
  BY <1>1, DocumentsStay DEF TasksOf
<1>9. toDelete' \subseteq UNION {TasksOf(e)' : e \in expired'}
  BY SMT, <1>3, <1>8 DEF CleanerInv, CleanerTypeOK
<1>10. CleanerTypeOK'
  BY <1>2, <1>3, <1>6, <1>7, <1>9 DEF CleanerInv, CleanerTypeOK, ControlInv
<1>11. QED
  BY <1>2, <1>4, <1>10 DEF CleanerInv

-----------------------------------------------------------------------------
(* Steps of the cleaners.                                                   *)

\* A step that leaves the engine alone, but for the count of failures.
LEMMA EngineUntouched ==
    ASSUME ControlInv, RestInv, UNCHANGED engineVars, faults' \in 0 .. MaxFaults
    PROVE  ControlInv' /\ RestInv'
<1>1. UNCHANGED <<docState, docStep, latePatch, lock, lateLock, pc, cmd, idx, cur,
                  memStep, locked, failed, threw, threads, workQueue>>
  BY DEF engineVars, docVars, lockVars, execVars, poolVars
<1>2. TypeOK'
  BY <1>1 DEF ControlInv, TypeOK
<1>3. LockIndex' /\ QueueOK'
  BY <1>1, QueuesKept DEF ControlInv
<1>4. RestInv'
  BY <1>1 DEF RestInv, AtRest, HoldsBack, NotRunAgain, Synchronous
<1>5. QED
  BY <1>2, <1>3, <1>4 DEF ControlInv

\* The cleaner comes to know only tasks that had a lock.
LEMMA EarlyUntouched ==
    ASSUME EarlyInv, UNCHANGED <<pc, cmd, latePatch, lock, lateLock, locked, failed>>,
           \A t \in Tasks : Early(t) => t \notin toGet' \cup toRelease'
    PROVE  EarlyInv'
BY DEF EarlyInv, Early, Beginning, Untouched, Synchronous, AtRest

LEMMA FaultCount ==
    ASSUME TypeOK, Answered \/ Fault
    PROVE  faults' \in 0 .. MaxFaults
BY SMT, ClientAssumption DEF ClientAssumption, TypeOK, Answered, Fault

\* Reading task documents, and the bookkeeping of a pass.
LEMMA PassKeeps ==
    ASSUME CleanerInv,
           \/ StartPass \/ GetsJoined \/ PassEnds \/ RestartPass
           \/ \E t \in Tasks : GetTask(t)
    PROVE  CleanerInv' /\ UNCHANGED engineVars
<1>1. /\ ControlInv /\ RestInv /\ EarlyInv /\ TypeOK /\ CleanerTypeOK
      /\ \A t \in toRelease : ReleaseOK(t)
  BY DEF CleanerInv, ControlInv
<1>2. UNCHANGED <<engineVars, old, tombstones, roundVars>>
  BY DEF StartPass, GetsJoined, PassEnds, RestartPass, GetTask, vars, engineVars
<1>3. faults' \in 0 .. MaxFaults
  BY <1>1, FaultCount
  DEF StartPass, GetsJoined, PassEnds, RestartPass, GetTask, vars, Answered
<1>4. ControlInv' /\ RestInv'
  BY <1>1, <1>2, <1>3, EngineUntouched
<1>5. UNCHANGED <<docState, latePatch, lock, lateLock, pc, cmd, locked, failed, threw,
                  expired, toDelete, deleteFailed>>
  BY <1>2 DEF engineVars, docVars, lockVars, execVars, roundVars
<1>6. stage' \in {"idle", "get", "release"}
  BY <1>1 DEF StartPass, GetsJoined, PassEnds, RestartPass, GetTask, CleanerTypeOK
<1>7. toGet' \subseteq toGet \cup {lock[e].ownerId : e \in old}
  BY DEF StartPass, GetsJoined, PassEnds, RestartPass, GetTask, vars
<1>8. \A e \in old : e \in Entities /\ lock[e] # NoLock /\ lock[e].ownerId \in Tasks
  BY <1>1 DEF CleanerTypeOK, TypeOK, LockDoc
<1>9. joinFailed' \in BOOLEAN
  BY <1>1 DEF StartPass, GetsJoined, PassEnds, RestartPass, GetTask, CleanerTypeOK
<1>10. \A t \in toRelease' :
           t \in toRelease \/ (t \in toGet /\ docState[t] \in Terminal)
  BY DEF StartPass, GetsJoined, PassEnds, RestartPass, GetTask
<1>11. toGet' \subseteq Tasks /\ toRelease' \subseteq Tasks
  BY SMT, <1>1, <1>7, <1>8, <1>10 DEF CleanerTypeOK
<1>12. \A t \in toRelease' : ReleaseOK(t)
  BY <1>1, <1>10, <1>11 DEF RestInv, ReleaseOK, Terminal
<1>13. \A t \in toRelease' : ReleaseOK(t)'
  BY <1>5, <1>12 DEF ReleaseOK, AtRest, NotRunAgain, Synchronous
<1>14. EarlyInv'
  <2>1. \A t \in Tasks : Early(t) => t \notin toGet' \cup toRelease'
    BY SMT, <1>1, <1>7, <1>8, <1>10 DEF EarlyInv, Untouched
  <2>2. QED
    BY <1>1, <1>5, <2>1, EarlyUntouched
<1>15. CleanerTypeOK'
  BY SMT, <1>1, <1>2, <1>4, <1>5, <1>6, <1>9, <1>11 DEF CleanerTypeOK, TasksOf, ControlInv
<1>16. QED
  BY <1>2, <1>4, <1>13, <1>14, <1>15 DEF CleanerInv

\* The release of a lock, which is accepted only in its owner's name.
LEMMA ReleaseRequest ==
    ASSUME CleanerInv, NEW t \in Tasks, ReleaseLock(t), NEW r, r = Release(t, EntityOf[t])
    PROVE  /\ r \in LockRequests /\ r.ownerId = t
           /\ PostAccepted(r) \/ PostRejected(r) \/ PostFails(r)
           /\ UNCHANGED lock \/ (Accepts(r) /\ Store(r))
           /\ lateLock' = lateLock \/ (LateDelivery /\ lateLock' = lateLock \cup {r})
           /\ AtRest(t)
           /\ UNCHANGED <<docState, docStep, latePatch, pc, cmd, idx, cur, memStep,
                          locked, failed, threw, threads, workQueue>>
<1>1. r \in LockRequests /\ r.ownerId = t
  BY RequestTypes, CleanerAssumption DEF CleanerAssumption, Release
<1>2. PostAccepted(r) \/ PostRejected(r) \/ PostFails(r)
  BY DEF ReleaseLock
<1>3. /\ UNCHANGED lock \/ (Accepts(r) /\ Store(r))
      /\ lateLock' = lateLock \/ (LateDelivery /\ lateLock' = lateLock \cup {r})
  BY <1>2 DEF PostAccepted, PostRejected, PostFails, lockVars
<1>4. AtRest(t)
  BY DEF CleanerInv, ReleaseLock, ReleaseOK
<1>5. UNCHANGED <<docState, docStep, latePatch, pc, cmd, idx, cur, memStep,
                  locked, failed, threw, threads, workQueue>>
  BY DEF ReleaseLock, docVars, execVars, poolVars
<1>6. QED
  BY <1>1, <1>2, <1>3, <1>4, <1>5

LEMMA ReleaseKeeps ==
    ASSUME CleanerInv, NEW t \in Tasks, ReleaseLock(t)
    PROVE  CleanerInv'
<1> DEFINE r == Release(t, EntityOf[t])
<1>1. /\ ControlInv /\ RestInv /\ EarlyInv /\ TypeOK /\ CleanerTypeOK
      /\ \A u \in toRelease : ReleaseOK(u)
  BY DEF CleanerInv, ControlInv
<1>2. /\ r \in LockRequests /\ r.ownerId = t
      /\ PostAccepted(r) \/ PostRejected(r) \/ PostFails(r)
      /\ UNCHANGED lock \/ (Accepts(r) /\ Store(r))
      /\ lateLock' = lateLock \/ (LateDelivery /\ lateLock' = lateLock \cup {r})
  BY ReleaseRequest
<1>3. UNCHANGED <<docState, docStep, latePatch, pc, cmd, idx, cur, memStep,
                  locked, failed, threw, threads, workQueue>>
  BY ReleaseRequest
<1>4. UNCHANGED <<stage, toGet, joinFailed, tombstones, expired, toDelete, deleteFailed>>
  BY DEF ReleaseLock, roundVars
<1>5. toRelease' \subseteq toRelease /\ KeepsAge /\ t \in toRelease
  BY DEF ReleaseLock
<1> HIDE DEF r
<1>6. TypeOK'
  BY <1>1, <1>2, <1>3, PostType DEF TypeOK
<1>7. LockIndex' /\ QueueOK'
  <2>1. LockIndex /\ QueueOK
    BY <1>1 DEF ControlInv
  <2>2. QED
    BY <1>3, <2>1, QueuesKept
<1>8. RestInv' /\ (\A u \in toRelease' : ReleaseOK(u)')
  BY <1>1, <1>3, <1>5 DEF RestInv, ReleaseOK, AtRest, HoldsBack, NotRunAgain, Synchronous
<1>9. EarlyInv'
  <2>1. ASSUME NEW u \in Tasks, Early(u) PROVE u # t /\ Untouched(u)'
    BY ZenonT(30), <1>1, <1>2, <1>3, <1>5, <2>1, StoreKeepsOwner DEF EarlyInv, Untouched
  <2>2. QED
    BY <1>1, <1>3, <1>4, <1>5, <2>1
    DEF EarlyInv, Early, Beginning, Synchronous, AtRest
<1>10. old' \subseteq {e \in Entities : lock'[e] # NoLock}
  BY <1>1, <1>5 DEF KeepsAge, CleanerTypeOK
<1>11. CleanerTypeOK'
  <2>1. \A e : TasksOf(e)' = TasksOf(e)
    BY <1>3 DEF TasksOf
  <2>2. toDelete' \subseteq UNION {TasksOf(e)' : e \in expired'}
    BY <1>1, <1>4, <2>1 DEF CleanerTypeOK
  <2>3. QED
    BY <1>1, <1>4, <1>5, <1>6, <1>10, <2>2 DEF CleanerTypeOK
<1>12. QED
  BY <1>6, <1>7, <1>8, <1>9, <1>11 DEF CleanerInv, ControlInv

\* A task document disappears, whatever its state.
LEMMA DeleteKeeps ==
    ASSUME CleanerInv, NEW t \in Tasks, DeleteTask(t)
    PROVE  CleanerInv'
<1>1. /\ ControlInv /\ RestInv /\ EarlyInv /\ TypeOK /\ CleanerTypeOK
      /\ \A u \in toRelease : ReleaseOK(u)
  BY DEF CleanerInv, ControlInv
<1>2. UNCHANGED <<docStep, latePatch, lock, lateLock, pc, cmd, idx, cur, memStep, locked,
                  failed, threw, threads, workQueue, stage, toGet, toRelease,
                  joinFailed, old, tombstones, expired>>
  BY DEF DeleteTask, DeleteDocuments, docVars, lockVars, execVars, poolVars, passVars
<1>3. faults' \in 0 .. MaxFaults
  BY <1>1, FaultCount DEF DeleteTask
<1>4. /\ docState' \in [Tasks -> TaskState \cup {"NONE"}]
      /\ docState'[t] \in {"NONE", docState[t]}
      /\ \A u \in Tasks \ {t} : docState'[u] = docState[u]
  BY ZenonT(30), <1>1 DEF DeleteTask, DeleteDocuments, docVars, TypeOK
<1>5. TypeOK'
  BY ZenonT(30), <1>1, <1>2, <1>3, <1>4 DEF TypeOK
<1>6. LockIndex' /\ QueueOK'
  <2>1. LockIndex /\ QueueOK
    BY <1>1 DEF ControlInv
  <2>2. QED
    BY <1>2, <2>1, QueuesKept
<1>7. RestInv'
  BY <1>1, <1>2, <1>4 DEF RestInv, AtRest, Terminal, HoldsBack, NotRunAgain, Synchronous
<1>8. \A u \in toRelease' : ReleaseOK(u)'
  BY <1>1, <1>2, <1>4 DEF ReleaseOK, AtRest, CleanerTypeOK, NotRunAgain, Synchronous
<1>9. EarlyInv'
  BY <1>1, <1>2, EarlyUntouched DEF EarlyInv
<1>10. toDelete' \subseteq UNION {TasksOf(e)' : e \in expired'}
  <2>1. \A e \in Entities : \A u \in TasksOf(e) : u # t => u \in TasksOf(e)'
    BY <1>4 DEF TasksOf
  <2>2. toDelete' = toDelete \ {t} /\ expired \subseteq Entities
    BY <1>1 DEF DeleteTask, CleanerTypeOK
  <2>3. QED
    BY SMT, <1>1, <1>2, <2>1, <2>2 DEF CleanerTypeOK
<1>11. deleteFailed' \in BOOLEAN
  BY <1>1 DEF DeleteTask, CleanerTypeOK
<1>12. CleanerTypeOK'
  BY <1>1, <1>2, <1>5, <1>10, <1>11 DEF CleanerTypeOK
<1>13. QED
  BY <1>5, <1>6, <1>7, <1>8, <1>9, <1>12 DEF CleanerInv, ControlInv

\* The rounds of the tombstone cleaner, and locks that grow old.
LEMMA RoundKeeps ==
    ASSUME CleanerInv,
           QueryStale \/ DeleteTombstones \/ \E e \in Entities : Age(e)
    PROVE  CleanerInv' /\ UNCHANGED engineVars
<1>1. /\ ControlInv /\ RestInv /\ EarlyInv /\ TypeOK /\ CleanerTypeOK
      /\ \A t \in toRelease : ReleaseOK(t)
  BY DEF CleanerInv, ControlInv
<1>2. UNCHANGED <<engineVars, passVars>>
  BY DEF QueryStale, DeleteTombstones, Age, vars, engineVars
<1>3. faults' \in 0 .. MaxFaults
  BY <1>1, FaultCount DEF QueryStale, DeleteTombstones, Age, vars, Answered
<1>4. ControlInv' /\ RestInv'
  BY <1>1, <1>2, <1>3, EngineUntouched
<1>5. UNCHANGED <<docState, latePatch, lock, lateLock, pc, cmd, locked, failed, threw,
                  stage, toGet, toRelease, joinFailed>>
  BY <1>2 DEF engineVars, docVars, lockVars, execVars, passVars
<1>6. \A t \in toRelease' : ReleaseOK(t)'
  BY <1>1, <1>5 DEF ReleaseOK, AtRest, NotRunAgain, Synchronous
<1>7. EarlyInv'
  BY <1>1, <1>5, EarlyUntouched DEF EarlyInv
<1>8. old' \subseteq {e \in Entities : lock'[e] # NoLock}
  BY <1>1, <1>5 DEF QueryStale, DeleteTombstones, Age, CleanerTypeOK
<1>9. /\ tombstones' \subseteq Entities /\ expired' \subseteq tombstones'
      /\ deleteFailed' \in BOOLEAN
  BY <1>1 DEF QueryStale, DeleteTombstones, Age, roundVars, CleanerTypeOK
<1>10. toDelete' \subseteq UNION {TasksOf(e) : e \in expired'}
  BY <1>1 DEF QueryStale, DeleteTombstones, Age, roundVars, CleanerTypeOK
<1>11. toDelete' \subseteq UNION {TasksOf(e)' : e \in expired'}
  BY SMT, <1>5, <1>10 DEF TasksOf
<1>12. CleanerTypeOK'
  BY <1>1, <1>4, <1>5, <1>8, <1>9, <1>11 DEF CleanerTypeOK, ControlInv
<1>13. QED
  BY <1>2, <1>4, <1>6, <1>7, <1>12 DEF CleanerInv

-----------------------------------------------------------------------------
LEMMA CleanerInductive ==
    /\ CInit => CleanerInv
    /\ CleanerInv /\ [CNext]_allVars => CleanerInv'
<1>1. ASSUME CInit PROVE CleanerInv
  <2>1. ControlInv /\ RestInv
    BY <1>1, InitControl, InitRest DEF CInit
  <2>2. EarlyInv
    BY <1>1 DEF CInit, Init, EarlyInv, Early, Beginning, Untouched
  <2>3. QED
    BY <1>1, <2>1, <2>2 DEF CInit, CleanerInv, CleanerTypeOK, ControlInv
<1>2. ASSUME CleanerInv, UNCHANGED allVars PROVE CleanerInv'
  <2>1. UNCHANGED vars
    BY <1>2 DEF allVars
  <2>2. ControlInv' /\ RestInv'
    BY <1>2, <2>1, EngineKeepsControl DEF CleanerInv
  <2>3. UNCHANGED <<docState, latePatch, lock, lateLock, pc, cmd, locked, failed, threw,
                    stage, toGet, toRelease, joinFailed, old, tombstones, expired,
                    toDelete, deleteFailed>>
    BY <1>2, <2>1 DEF allVars, cleanerVars, vars, docVars, lockVars, execVars, passVars,
       roundVars
  <2>4. CleanerTypeOK' /\ (\A t \in toRelease' : ReleaseOK(t)')
    BY SMT, <1>2, <2>2, <2>3 DEF CleanerInv, CleanerTypeOK, TasksOf, ReleaseOK, AtRest,
       NotRunAgain, Synchronous, ControlInv
  <2>5. EarlyInv'
    BY <1>2, <2>3, EarlyUntouched DEF CleanerInv, EarlyInv
  <2>6. QED
    BY <2>2, <2>4, <2>5 DEF CleanerInv
<1>3. ASSUME CleanerInv, CNext PROVE CleanerInv'
  BY <1>3, EngineStepKeeps, PassKeeps, ReleaseKeeps, DeleteKeeps, RoundKeeps
  DEF CNext, CleanerStep, TombstoneCleanerStep
<1>4. QED
  BY <1>1, <1>2, <1>3

\* The locks themselves: what the cleaner releases belongs to nobody at work.
LEMMA LocksInductive ==
    ASSUME Safe
    PROVE  /\ CInit => LockInv
           /\ CleanerInv /\ CleanerInv' /\ LockInv /\ [CNext]_allVars => LockInv'
<1>1. ASSUME CInit PROVE LockInv
  BY <1>1, InitControl DEF CInit, LockInv, Init, HeldLocks, Acquired, Executing,
     NoStaleRelease
<1>2. ASSUME LockInv, CleanerInv', UNCHANGED <<lock, lateLock, pc, idx, locked>>
      PROVE  LockInv'
  BY <1>2 DEF LockInv, CleanerInv, HeldLocks, Acquired, NoStaleRelease
<1>3. ASSUME LockInv, CleanerInv', UNCHANGED engineVars PROVE LockInv'
  BY <1>2, <1>3 DEF engineVars, lockVars, execVars
<1>4. ASSUME LockInv, CleanerInv, CleanerInv', NEW t \in Tasks, ReleaseLock(t)
      PROVE  LockInv'
  <2> DEFINE r == Release(t, EntityOf[t])
  <2>1. /\ r \in LockRequests /\ r.ownerId = t
        /\ UNCHANGED lock \/ (Accepts(r) /\ Store(r))
        /\ lateLock' = lateLock \/ (LateDelivery /\ lateLock' = lateLock \cup {r})
        /\ AtRest(t) /\ UNCHANGED <<pc, cmd, idx, locked>>
    BY <1>4, ReleaseRequest
  <2>2. TypeOK /\ HeldLocks /\ NoStaleRelease /\ RestInv /\ ControlInv'
    BY <1>4 DEF LockInv, ControlInv, CleanerInv
  <2> HIDE DEF r
  <2>3. HeldLocks'
    <3>1. Acquired(t) = {}
      BY <2>1, RestMeansIdle DEF Acquired
    <3>2. \A u \in Tasks : Acquired(u)' = Acquired(u)
      BY <2>1 DEF Acquired
    <3>3. QED
      BY <2>1, <2>2, <3>1, <3>2, HeldKept
  <2>4. NoStaleRelease'
    <3>1. Resubmitted = {} => pc[t] \in Past
      BY <2>1, <2>2 DEF RestInv, AtRest, Synchronous
    <3>2. QED
      BY <2>1, <2>2, <3>1 DEF NoStaleRelease
  <2>5. QED
    BY <2>2, <2>3, <2>4 DEF LockInv
<1>5. ASSUME LockInv, CleanerInv', NEW t \in Tasks, DeleteTask(t) PROVE LockInv'
  BY <1>2, <1>5 DEF DeleteTask, lockVars, execVars
<1>6. ASSUME LockInv, EngineStep \/ UNCHANGED allVars PROVE LockInv'
  BY <1>6, EngineKeepsLocks DEF EngineStep, allVars
<1>7. ASSUME LockInv, CleanerInv, CleanerInv', CNext PROVE LockInv'
  BY ZenonT(30), <1>3, <1>4, <1>5, <1>6, <1>7, PassKeeps, RoundKeeps
  DEF CNext, CleanerStep, TombstoneCleanerStep
<1>8. QED
  BY <1>1, <1>6, <1>7

\* EntityLockCleanerService releases locks only in the name of tasks that have
\* concluded for good: between the read of a task document and the release no
\* command comes to take or use the task's locks, although reads and releases
\* of a pass are of different moments, documents disappear under it
\* (TombstoneCleanerService), patches arrive after their sender gave up, and a
\* task may have two commands.
THEOREM CleanerReleasesOnlyForIdleTasks == CSpec => []ReleasesOnlyForIdleTasks
<1>1. CleanerInv => ReleasesOnlyForIdleTasks
  BY RestMeansIdle DEF CleanerInv, CleanerTypeOK, ReleaseOK, ReleasesOnlyForIdleTasks
<1>2. QED
  BY <1>1, CleanerInductive, PTL DEF CSpec

\* Beside both cleaners, too, the lock documents of a running task's entities
\* are in the task's name until TaskCommand.execute returns.
THEOREM LocksAreHeldBesideCleaners == ASSUME Safe PROVE CSpec => []HeldLocks
<1>1. LockInv => HeldLocks
  BY DEF LockInv
<1>2. QED
  BY <1>1, CleanerInductive, LocksInductive, PTL DEF CSpec

\* Beside both cleaners, too, two tasks never run steps on a common entity at
\* the same time.
THEOREM TasksExcludeBesideCleaners == ASSUME Safe PROVE CSpec => []MutualExclusion
<1>1. LockInv => MutualExclusion
  BY HeldExcludes DEF LockInv
<1>2. QED
  BY <1>1, CleanerInductive, LocksInductive, PTL DEF CSpec
-----------------------------------------------------------------------------
(* What the commands promise alone, they promise beside the cleaners.       *)

\* All that a step of the cleaners does to the engine: documents disappear,
\* locks are released, and calls fail, which may leave releases under way.
Beside ==
    /\ UNCHANGED <<docStep, latePatch, pc, cmd, idx, cur, memStep, locked, failed, threw>>
    /\ \A t \in Tasks : docState'[t] \in {docState[t], "NONE"}
    /\ \A e \in Entities, t \in Tasks : lock'[e] = Held(t) => lock[e] = Held(t)
    /\ \A r \in lateLock' : r \in lateLock \/ r.isAvailable
    /\ \/ faults' = faults /\ UNCHANGED lateLock
       \/ faults' = faults + 1

LEMMA UntouchedIsBeside ==
    ASSUME UNCHANGED engineVars, faults' \in {faults, faults + 1} PROVE Beside
<1>1. UNCHANGED <<docState, docStep, latePatch, lock, lateLock, pc, cmd, idx, cur,
                  memStep, locked, failed, threw>>
  BY DEF engineVars, docVars, lockVars, execVars
<1>2. QED
  BY <1>1 DEF Beside

LEMMA ReleaseIsBeside ==
    ASSUME CleanerInv, NEW t \in Tasks, ReleaseLock(t) PROVE Beside
<1> DEFINE r == Release(t, EntityOf[t])
<1>1. /\ r \in LockRequests
      /\ PostAccepted(r) \/ PostRejected(r) \/ PostFails(r)
      /\ UNCHANGED lock \/ Store(r)
      /\ lateLock' = lateLock \/ lateLock' = lateLock \cup {r}
      /\ UNCHANGED <<docState, docStep, latePatch, pc, cmd, idx, cur, memStep,
                     locked, failed, threw>>
  BY ReleaseRequest
<1>2. r.isAvailable /\ r.entityId \in Entities /\ TypeOK
  BY <1>1, CleanerAssumption DEF CleanerAssumption, Release, CleanerInv, ControlInv
<1> HIDE DEF r
<1>3. ASSUME NEW e \in Entities, NEW u \in Tasks, lock'[e] = Held(u)
      PROVE  lock[e] = Held(u)
  <2>1. CASE Store(r)
    <3>1. e # r.entityId \/ lock'[e] = [ownerId |-> r.ownerId, isAvailable |-> TRUE]
      BY <1>2, <2>1 DEF Store, TypeOK
    <3>2. e # r.entityId
      BY SMT, <1>3, <3>1 DEF Held
    <3>3. QED
      BY <1>2, <1>3, <2>1, <3>2 DEF Store, TypeOK
  <2>2. QED
    BY <1>1, <1>3, <2>1
<1>4. \/ faults' = faults /\ UNCHANGED lateLock
      \/ faults' = faults + 1
  BY <1>1 DEF PostAccepted, PostRejected, PostFails, Answered, Fault, lockVars
<1>5. QED
  BY <1>1, <1>2, <1>3, <1>4 DEF Beside

LEMMA DeleteIsBeside ==
    ASSUME CleanerInv, NEW t \in Tasks, DeleteTask(t) PROVE Beside
<1>1. UNCHANGED <<docStep, latePatch, lock, lateLock, pc, cmd, idx, cur, memStep, locked,
                  failed, threw>>
  BY DEF DeleteTask, DeleteDocuments, docVars, lockVars, execVars
<1>2. \A u \in Tasks : docState'[u] \in {docState[u], "NONE"}
  BY DEF DeleteTask, DeleteDocuments, docVars
<1>3. faults' \in {faults, faults + 1}
  BY DEF DeleteTask, Answered, Fault
<1>4. QED
  BY <1>1, <1>2, <1>3 DEF Beside

LEMMA StepOrBeside ==
    ASSUME CleanerInv, [CNext]_allVars
    PROVE  [Next]_vars \/ Beside
<1>1. CASE EngineStep \/ UNCHANGED allVars
  BY <1>1 DEF EngineStep, allVars
<1>2. CASE \/ StartPass \/ GetsJoined \/ PassEnds \/ RestartPass
           \/ \E t \in Tasks : GetTask(t)
  <2>1. faults' \in {faults, faults + 1}
    BY <1>2 DEF StartPass, GetsJoined, PassEnds, RestartPass, GetTask, vars, Answered, Fault
  <2>2. QED
    BY <1>2, <2>1, PassKeeps, UntouchedIsBeside
<1>3. CASE QueryStale \/ DeleteTombstones \/ \E e \in Entities : Age(e)
  <2>1. faults' \in {faults, faults + 1}
    BY <1>3 DEF QueryStale, DeleteTombstones, Age, vars, Answered, Fault
  <2>2. QED
    BY <1>3, <2>1, RoundKeeps, UntouchedIsBeside
<1>4. CASE \E t \in Tasks : ReleaseLock(t) \/ DeleteTask(t)
  BY <1>4, ReleaseIsBeside, DeleteIsBeside
<1>5. QED
  BY <1>1, <1>2, <1>3, <1>4 DEF CNext, CleanerStep, TombstoneCleanerStep
LEMMA StepsBeside ==
    /\ CInit => StepsInv
    /\ CleanerInv /\ StepsInv /\ [CNext]_allVars => StepsInv'
<1>1. ASSUME CInit PROVE StepsInv
  <2>1. Init
    BY <1>1 DEF CInit
  <2>2. QED
    BY SMT, <2>1 DEF Init, StepsInv, StepsOK
<1>2. ASSUME StepsInv, Beside PROVE StepsInv'
  <2>1. /\ UNCHANGED <<docStep, latePatch, pc, cur, memStep>>
        /\ \A t \in Tasks : docState'[t] = "COMPLETED" => docState[t] = "COMPLETED"
    BY <1>2 DEF Beside
  <2>2. \A t \in Tasks : StepsOK(t)'
    BY <1>2, <2>1 DEF StepsInv, StepsOK, AllDone, GivenUp
  <2>3. \A p \in latePatch' : LateOK(p)'
    BY <1>2, <2>1 DEF StepsInv, LateOK, AllDone, GivenUp
  <2>4. QED
    BY <2>2, <2>3 DEF StepsInv
<1>3. QED
  BY <1>1, <1>2, StepOrBeside, StepsInductive DEF CleanerInv

LEMMA LeaksBeside ==
    /\ CInit => LeakInv
    /\ CleanerInv /\ LeakInv /\ [CNext]_allVars => LeakInv'
<1>1. ASSUME CInit PROVE LeakInv
  <2>1. Init
    BY <1>1 DEF CInit
  <2>2. QED
    BY SMT, <2>1, LockAssumption, HeldIsNotAvailable DEF Init, LeakInv
<1>2. ASSUME ControlInv, LeakInv, Beside PROVE LeakInv'
  <2>1. /\ UNCHANGED <<latePatch, pc, idx, locked, failed, threw>>
        /\ \A t \in Tasks : docState'[t] = "STARTED" => docState[t] = "STARTED"
        /\ \A e \in Entities, t \in Tasks : lock'[e] = Held(t) => lock[e] = Held(t)
        /\ \A r \in lateLock' : r \in lateLock \/ r.isAvailable
    BY <1>2 DEF Beside
  <2>2. CASE faults' = faults /\ UNCHANGED lateLock
    <3>1. \A t \in Tasks, e \in Entities : Known(t, e) => Known(t, e)'
      <4>1. \A t \in Tasks, e \in Entities :
              (OnList(t, e) => OnList(t, e)') /\ (Kept(t, e) => Kept(t, e)')
        BY <2>1, <2>2 DEF OnList, Kept
      <4>2. QED
        BY <2>1, <2>2, <4>1 DEF Known
    <3>2. \A t \in Tasks, e \in Entities : Lost(t, e) => Lost(t, e)'
      BY <2>1, <2>2 DEF Lost, Unanswered
    <3>3. \A r \in lateLock : r.ownerId \in Tasks /\ r.entityId \in Entities
      BY <1>2 DEF ControlInv, TypeOK, LockRequests
    <3>4. QED
      BY <1>2, <2>1, <2>2, <3>1, <3>2, <3>3 DEF LeakInv, Held
  <2>3. CASE faults' = faults + 1
    <3>1. faults \in Nat
      BY <1>2, FaultsCounted
    <3>2. faults' # 0 /\ (faults' <= 1 => faults = 0 /\ faults <= 1 /\ faults # 1)
      BY SMT, <2>3, <3>1
    <3>3. ASSUME faults' <= 1, NEW t \in Tasks, NEW e \in Entities, lock'[e] = Held(t)
          PROVE  Known(t, e)'
      <4>1. Known(t, e) /\ faults # 1
        BY <1>2, <2>1, <3>2, <3>3 DEF LeakInv, Lost
      <4>2. QED
        BY <2>1, <4>1 DEF Known, OnList, Kept
    <3>4. faults' <= 1 => \A r \in lateLock' : r.isAvailable
      BY <1>2, <2>1, <3>2 DEF LeakInv
    <3>5. QED
      BY <3>2, <3>3, <3>4 DEF LeakInv, Held
  <2>4. QED
    BY <1>2, <2>2, <2>3 DEF Beside
<1>3. QED
  BY <1>1, <1>2, StepOrBeside, LeakInductive DEF CleanerInv

\* Beside both cleaners, too, no thread takes the locks or runs the steps of a
\* task whose document says ERROR or COMPLETED.
THEOREM ConcludedTasksAreIdleBesideCleaners == CSpec => []TerminalMeansIdle
<1>1. CleanerInv => TerminalMeansIdle
  BY RestMeansIdle DEF CleanerInv, RestInv, TerminalMeansIdle
<1>2. QED
  BY <1>1, CleanerInductive, PTL DEF CSpec

\* Beside both cleaners, too, a task document that says COMPLETED has only
\* COMPLETED steps: TombstoneCleanerService removes a document as a whole, and
\* no patch brings it back.
THEOREM CompletedStepsBesideCleaners == CSpec => []CompletedMeansAllSteps
<1>1. StepsInv => CompletedMeansAllSteps
  BY DEF StepsInv, StepsOK, AllDone, CompletedMeansAllSteps
<1>2. QED
  BY <1>1, CleanerInductive, StepsBeside, PTL DEF CSpec

\* Beside both cleaners, too, one failed call, be it one of theirs, makes a
\* command that has ended leave no lock but one it was never told it had:
\* neither a document that is gone nor a lock released by another keeps
\* clearTaskLocks from what is on its list.
THEOREM OneLeakBesideCleaners == CSpec => []OneFaultLeaksOnlyAnUnansweredLock
<1>1. LeakInv => OneFaultLeaksOnlyAnUnansweredLock
  BY DEF LeakInv, Known, Lost, Unanswered, OneFaultLeaksOnlyAnUnansweredLock, Executing,
     Clearing
<1>2. QED
  BY <1>1, CleanerInductive, LeaksBeside, PTL DEF CSpec

\* Beside both cleaners, too, no task document goes back from ERROR or
\* COMPLETED when no request outlives its sender.  The contract itself does not
\* hold there, since documents of tasks at work may be deleted; this part of it
\* needs only that concluded tasks are at rest.
THEOREM ConclusionsAreFinalBesideCleaners ==
    ASSUME ~LateDelivery PROVE CSpec => TerminalIsFinal
<1>1. ASSUME CleanerInv, [CNext]_allVars
      PROVE  [\A t \in Tasks : docState[t] \in Terminal
                => docState'[t] \notin {"QUEUED", "STARTED"}]_vars
  <2>1. ASSUME NEW t \in Tasks, docState[t] \in Terminal
        PROVE  docState'[t] \notin {"QUEUED", "STARTED"}
    <3>1. CASE Beside
      BY <2>1, <3>1 DEF Beside, Terminal
    <3>2. CASE [Next]_vars
      <4>1. latePatch = {} /\ pc[t] \notin {"none", "run"}
        BY <1>1, <2>1 DEF CleanerInv, RestInv, AtRest, Past, Clearing, Over
      <4>2. \/ docState'[t] = docState[t]
            \/ docState'[t] \in {"QUEUED", "STARTED"} /\ pc[t] \in {"none", "run"}
            \/ Concludes(t, docState'[t])
            \/ \E p \in latePatch :
                  p.step = 0 /\ p.task = t /\ docState'[t] = p.state
        BY <1>1, <3>2, DocumentStep DEF CleanerInv
      <4>3. QED
        BY <2>1, <4>1, <4>2 DEF Concludes, Terminal
    <3>3. QED
      BY <1>1, <3>1, <3>2, StepOrBeside
  <2>2. QED
    BY <2>1
<1>2. QED
  BY <1>1, CleanerInductive, PTL DEF CSpec, TerminalIsFinal
=============================================================================
