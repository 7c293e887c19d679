----------------------------- MODULE EntityLocks -----------------------------
(***************************************************************************)
(* The entity lock documents of the cloud store (EntityLockService) and    *)
(* the calls by which the API front end acquires and releases them         *)
(* (EntityLockDcpBackend).  There is one document per entity, named after  *)
(* it.  Locks are never deleted: a released lock keeps its last owner and  *)
(* becomes available.  Both operations are a POST to the factory, which    *)
(* starts the document when it does not exist and is a PUT on it when it   *)
(* does.  The owner of a lock is a task.                                   *)
(***************************************************************************)
EXTENDS TaskDocuments

CONSTANTS Entities, NoLock

LockDoc == [ownerId : Tasks, isAvailable : BOOLEAN]

LockRequests == [ownerId : Tasks, entityId : Entities, isAvailable : BOOLEAN]

ASSUME LockAssumption == NoLock \notin LockDoc

VARIABLES
    lock,        \* lock[e]: the lock document of entity e, or NoLock
    lateLock     \* lock requests under way whose sender has given up

lockVars == <<lock, lateLock>>

Acquire(t, e) == [ownerId |-> t, entityId |-> e, isAvailable |-> FALSE]

Release(t, e) == [ownerId |-> t, entityId |-> e, isAvailable |-> TRUE]

Held(t) == [ownerId |-> t, isAvailable |-> FALSE]

-----------------------------------------------------------------------------
(* The service: what a POST of r does.                                      *)

\* handleStart: a lock cannot be created available.
StartAccepts(r) == ~r.isAvailable

\* Variants of PutAccepts with a check left out.
PutIgnoresOwner(r) ==
    \/ lock[r.entityId].ownerId = r.ownerId
    \/ r.isAvailable \/ lock[r.entityId].isAvailable

PutIgnoresAvailability(r) ==
    \/ lock[r.entityId].ownerId = r.ownerId
    \/ ~r.isAvailable

\* handlePut: only the owner releases; another task acquires only a lock
\* that is available; the owner may repeat itself.
PutAccepts(r) ==
    \/ lock[r.entityId].ownerId = r.ownerId
    \/ ~r.isAvailable /\ lock[r.entityId].isAvailable

Accepts(r) ==
    IF lock[r.entityId] = NoLock THEN StartAccepts(r) ELSE PutAccepts(r)

Store(r) ==
    lock' = [lock EXCEPT ![r.entityId] =
                [ownerId |-> r.ownerId, isAvailable |-> r.isAvailable]]

-----------------------------------------------------------------------------
(* The client: how a POST of r can end for its sender.                      *)

PostAccepted(r) ==
    /\ Accepts(r)
    /\ Store(r)
    /\ UNCHANGED lateLock
    /\ Answered

PostRejected(r) ==
    /\ ~Accepts(r)
    /\ UNCHANGED lockVars
    /\ Answered

PostFails(r) ==
    /\ Fault
    /\ \/ UNCHANGED lockVars
       \/ Accepts(r) /\ Store(r) /\ UNCHANGED lateLock
       \/ LateDelivery /\ lateLock' = lateLock \cup {r} /\ UNCHANGED lock

\* A request that outlived its sender's patience reaches the service.
DeliverLateLock(r) ==
    /\ lateLock' = lateLock \ {r}
    /\ IF Accepts(r) THEN Store(r) ELSE UNCHANGED lock
    /\ Answered
=============================================================================
