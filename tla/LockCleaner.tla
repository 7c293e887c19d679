----------------------------- MODULE LockCleaner -----------------------------
(***************************************************************************)
(* The task engine together with the two background services of the cloud  *)
(* store that work on its documents.                                       *)
(*                                                                         *)
(* EntityLockCleanerService looks at one page of lock documents that have  *)
(* not changed for a while, reads the task that owns each, and releases    *)
(* the lock of the task's entity when the task is neither QUEUED nor       *)
(* STARTED.  The reads are sent together and their results joined; so are  *)
(* the releases.  A trigger starts a pass every few minutes.               *)
(*                                                                         *)
(* TombstoneCleanerService deletes the task documents of the entities that *)
(* were tombstoned long enough ago, whatever the state of the tasks.       *)
(***************************************************************************)
EXTENDS TaskEngine

CONSTANTS
    EntityOf,    \* EntityOf[t]: TaskService.State.entityId
    Deletes,     \* the tasks whose step tombstones their entity
    PageLimit    \* lock documents on a page of the query

ASSUME CleanerAssumption ==
    /\ EntityOf \in [Tasks -> Entities]
    /\ Deletes \subseteq Tasks
    /\ PageLimit \in Nat \ {0}

VARIABLES
    stage,       \* where the pass of the lock cleaner is
    toGet,       \* the tasks whose documents it has yet to read
    toRelease,   \* the tasks whose entities' locks it has yet to release
    joinFailed,  \* did a read of this pass fail
    old,         \* the entities whose lock is older than the watermark
    tombstones,  \* the entities with a tombstone
    expired,     \* the tombstones the tombstone cleaner is at, {} when idle
    toDelete,    \* the tasks whose documents it has yet to delete
    deleteFailed \* did a delete of this round fail

passVars == <<stage, toGet, toRelease, joinFailed>>

roundVars == <<expired, toDelete, deleteFailed>>

cleanerVars == <<passVars, old, tombstones, roundVars>>

engineVars == <<docVars, lockVars, pc, execVars, poolVars>>

allVars == <<vars, cleanerVars>>

CInit ==
    /\ Init
    /\ stage = "idle" /\ toGet = {} /\ toRelease = {} /\ joinFailed = FALSE
    /\ old = {} /\ tombstones = {}
    /\ expired = {} /\ toDelete = {} /\ deleteFailed = FALSE

-----------------------------------------------------------------------------
\* A lock document is as old as its last change.
KeepsAge == old' = {e \in old : lock'[e] = lock[e]}

Age(e) ==
    /\ lock[e] # NoLock /\ e \notin old
    /\ old' = old \cup {e}
    /\ UNCHANGED <<vars, passVars, tombstones, roundVars>>

\* The step of a deleting task tombstones the entity; when the step fails
\* it may have come as far as that.
Tombstoned ==
    LET Left(l) == {EntityOf[t] : t \in {d \in Deletes : pc[d] = "work" /\ pc'[d] = l}}
    IN  \E S \in SUBSET Left("stepFail") :
            tombstones' = tombstones \cup Left("stepDone") \cup S

EngineStep ==
    /\ Next
    /\ KeepsAge
    /\ Tombstoned
    /\ UNCHANGED <<passVars, roundVars>>

-----------------------------------------------------------------------------
(* EntityLockCleanerService                                                 *)

\* processUnreleasedEntityLocks: the first page, available locks included.
StartPass ==
    /\ stage = "idle"
    /\ \E page \in SUBSET old :
        /\ page # {}
        /\ page = old \/ Cardinality(page) = PageLimit
        /\ Cardinality(page) <= PageLimit
        /\ toGet' = {lock[e].ownerId : e \in page}
    /\ stage' = "get"
    /\ UNCHANGED <<vars, toRelease, joinFailed, old, tombstones, roundVars>>

\* Variants: STARTED counts as inactive, or ERROR as active.
GetTaskReleasing(t, states) ==
    /\ stage = "get" /\ t \in toGet
    /\ toGet' = toGet \ {t}
    /\ Answered
    /\ joinFailed' = (joinFailed \/ docState[t] = "NONE")
    /\ toRelease' = IF docState[t] \in states
                    THEN toRelease \cup {t} ELSE toRelease
    /\ UNCHANGED <<engineVars, stage, old, tombstones, roundVars>>

GetTaskForgetsStarted(t) == GetTaskReleasing(t, Terminal \cup {"STARTED"})

GetTaskForgetsError(t) == GetTaskReleasing(t, {"COMPLETED"})

\* getTasksAssociatedWithEntityLocks
GetTask(t) ==
    /\ stage = "get" /\ t \in toGet
    /\ toGet' = toGet \ {t}
    /\ \/ /\ Answered
          /\ joinFailed' = (joinFailed \/ docState[t] = "NONE")
          /\ toRelease' = IF docState[t] \in Terminal
                          THEN toRelease \cup {t} ELSE toRelease
       \/ /\ Fault
          /\ joinFailed' = TRUE
          /\ UNCHANGED toRelease
    /\ UNCHANGED <<engineVars, stage, old, tombstones, roundVars>>

\* releaseEntityLocksAssociatedWithInactiveTasks: one failed read fails the
\* pass before it releases anything.
GetsJoined ==
    /\ stage = "get" /\ toGet = {}
    /\ IF joinFailed \/ toRelease = {}
       THEN stage' = "idle" /\ toRelease' = {}
       ELSE stage' = "release" /\ UNCHANGED toRelease
    /\ joinFailed' = FALSE
    /\ UNCHANGED <<vars, toGet, old, tombstones, roundVars>>

\* getReleaseLockOperationsForEntityLocks: the lock of the task's entity,
\* whichever lock led to the task.
ReleaseLock(t) ==
    LET r == Release(t, EntityOf[t]) IN
    /\ stage = "release" /\ t \in toRelease
    /\ PostAccepted(r) \/ PostRejected(r) \/ PostFails(r)
    /\ toRelease' = toRelease \ {t}
    /\ KeepsAge
    /\ UNCHANGED <<docVars, pc, execVars, poolVars, stage, toGet, joinFailed,
                   tombstones, roundVars>>

\* The pass ends FINISHED or FAILED; nothing depends on which.
PassEnds ==
    /\ stage = "release" /\ toRelease = {}
    /\ stage' = "idle"
    /\ UNCHANGED <<vars, toGet, toRelease, joinFailed, old, tombstones, roundVars>>

\* The host of the pass restarts: handleStart begins the pass afresh.
RestartPass ==
    /\ stage # "idle"
    /\ Fault
    /\ stage' = "idle" /\ toGet' = {} /\ toRelease' = {} /\ joinFailed' = FALSE
    /\ UNCHANGED <<engineVars, old, tombstones, roundVars>>

CleanerStep ==
    \/ StartPass \/ GetsJoined \/ PassEnds
    \/ \E t \in Tasks : GetTask(t) \/ ReleaseLock(t)

-----------------------------------------------------------------------------
(* TombstoneCleanerService                                                  *)

TasksOf(e) == {t \in Tasks : EntityOf[t] = e /\ docState[t] # "NONE"}

\* queryStaleTombstones, then queryStaleTasks
QueryStale ==
    /\ expired = {}
    /\ \E S \in SUBSET tombstones \ {{}} :
        /\ expired' = S
        /\ toDelete' = UNION {TasksOf(e) : e \in S}
    /\ UNCHANGED <<vars, passVars, old, tombstones, deleteFailed>>

\* deleteTasks: the deletes are sent together, and joined.
DeleteTask(t) ==
    /\ t \in toDelete
    /\ toDelete' = toDelete \ {t}
    /\ \/ Answered /\ DeleteDocuments({t}) /\ UNCHANGED deleteFailed
       \/ /\ Fault
          /\ DeleteDocuments({t}) \/ UNCHANGED docVars
          /\ deleteFailed' = TRUE
    /\ UNCHANGED <<lockVars, pc, execVars, poolVars, passVars, old, tombstones,
                   expired>>

\* deleteTombstones, unless a task document could not be deleted; what is
\* left is expired again in the next round.
DeleteTombstones ==
    /\ expired # {} /\ toDelete = {}
    /\ \/ /\ Answered
          /\ tombstones' = IF deleteFailed THEN tombstones ELSE tombstones \ expired
       \/ /\ Fault
          /\ \E S \in SUBSET expired :
                tombstones' = IF deleteFailed THEN tombstones ELSE tombstones \ S
    /\ expired' = {} /\ deleteFailed' = FALSE
    /\ UNCHANGED <<engineVars, passVars, old, toDelete>>

TombstoneCleanerStep ==
    \/ QueryStale \/ DeleteTombstones
    \/ \E t \in Tasks : DeleteTask(t)

CNext ==
    \/ EngineStep
    \/ CleanerStep \/ RestartPass
    \/ \E e \in Entities : Age(e)
    \/ TombstoneCleanerStep

CSpec == CInit /\ [][CNext]_allVars

\* The trigger keeps firing, and an untouched lock document grows old.
CFairness ==
    /\ \A t \in Tasks : WF_allVars(CommandStep(t) /\ EngineStep)
    /\ \A n \in Nodes : WF_allVars(WorkerTake(n) /\ EngineStep)
    /\ WF_allVars(CleanerStep)
    /\ \A e \in Entities : WF_allVars(Age(e))

FairCSpec == CSpec /\ CFairness

-----------------------------------------------------------------------------
CleanerTypeOK ==
    /\ TypeOK
    /\ stage \in {"idle", "get", "release"}
    /\ toGet \subseteq Tasks
    /\ toRelease \subseteq Tasks
    /\ joinFailed \in BOOLEAN
    /\ old \subseteq {e \in Entities : lock[e] # NoLock}
    /\ tombstones \subseteq Entities
    /\ expired \subseteq tombstones
    /\ toDelete \subseteq UNION {TasksOf(e) : e \in expired}
    /\ deleteFailed \in BOOLEAN

\* A task the cleaner is about to release a lock for has concluded for good:
\* between reading its document and the release, its command cannot come to
\* take or use the lock (the two reads are of different moments).
ReleasesOnlyForIdleTasks ==
    \A t \in toRelease : pc[t] \notin Executing \cup {"run", "lock"}

\* A lock left held by a task whose document says ERROR or COMPLETED is
\* released sooner or later: the service removes dangling entity locks.
DanglingLockReleased ==
    \A t \in Tasks, e \in Entities :
        docState[t] \in Terminal /\ pc[t] \in Over /\ lock[e] = Held(t)
            ~> lock[e] # Held(t)
=============================================================================
