---------------------------- MODULE ResourceQuota ----------------------------
(***************************************************************************)
(* Quota.  A tenant's resource ticket has limits; a project's ticket is    *)
(* carved out of it, its limits being usage of the tenant's; a VM or disk  *)
(* is charged to the ticket of its project (ResourceTicketService,         *)
(* ResourceTicketDcpBackend, ProjectDcpBackend, VmDcpBackend,              *)
(* DiskDcpBackend).  A charge is a patch of the ticket, and the ticket     *)
(* takes patches one at a time; but what is charged is another document,   *)
(* written by another call, so creations and deletions interleave between  *)
(* the two and may fail between them.                                      *)
(*                                                                         *)
(* A project or item is its own create request; Deletes are requests to    *)
(* delete one.  Values are in the normalised unit of their key: units are  *)
(* powers of two of each other, so converting a double is exact.           *)
(***************************************************************************)
EXTENDS CloudStoreClient, Integers, FiniteSetsExt

CONSTANTS
    Tenant,         \* the ticket of the tenant
    Projects,       \* a project, and its ticket
    Vms, Disks,     \* what is charged to a project
    Deletes,        \* delete requests
    ProjectOf,      \* ProjectOf[i]: the project of VM or disk i
    TargetOf,       \* TargetOf[d]: the project, VM or disk to delete
    Limits,         \* Limits[t]: limitMap, the limit of some of the keys
    Cost,           \* Cost[i]: the cost of VM or disk i in some of the keys
    Unreliable,     \* the requests whose calls may fail
    ServerErrors    \* may a call fail with a server error, not a timeout?

Items == Vms \cup Disks

Entities == Projects \cup Items

Requests == Entities \cup Deletes

Tickets == Projects \cup {Tenant}

Keys == UNION ({DOMAIN Limits[t] : t \in Tickets} \cup {DOMAIN Cost[i] : i \in Items})

IsAmounts(m) == m \in [DOMAIN m -> Nat]

ASSUME QuotaAssumption ==
    /\ Tenant \notin Projects
    /\ Projects \cap Items = {} /\ Vms \cap Disks = {}
    /\ Deletes \cap Entities = {}
    /\ ProjectOf \in [Items -> Projects]
    /\ TargetOf \in [Deletes -> Entities]
    /\ DOMAIN Limits = Tickets /\ \A t \in Tickets : IsAmounts(Limits[t])
    /\ DOMAIN Cost = Items /\ \A i \in Items : IsAmounts(Cost[i])
    /\ Unreliable \subseteq Requests
    /\ ServerErrors \in BOOLEAN
    /\ ~LateDelivery    \* a patch that outlives its sender is not modelled here

VARIABLES
    pc,          \* pc[r]: where request r is
    tickets,     \* the tickets that have a document
    usage,       \* usage[t]: usageMap
    docs,        \* the projects, VMs and disks that have a document
    tombstones   \* tombstones[x]: the number of tombstones of x

storeVars == <<tickets, usage, docs, tombstones>>

vars == <<faults, pc, storeVars>>

-----------------------------------------------------------------------------
(* ResourceTicketService                                                    *)

In(m, k) == IF k \in DOMAIN m THEN m[k] ELSE 0

\* Variant: the limit is compared with the usage before the change.
FitsBefore(t, c) ==
    \A k \in DOMAIN c \cap DOMAIN Limits[t] : In(usage[t], k) <= Limits[t][k]

\* consumeQuota, first pass: keys without a limit are tracked, not enforced.
Fits(t, c) ==
    \A k \in DOMAIN c \cap DOMAIN Limits[t] : In(usage[t], k) + c[k] <= Limits[t][k]

\* consumeQuota, second pass: all keys or none.
Consume(t, c) ==
    usage' = [usage EXCEPT ![t] =
                 [k \in DOMAIN @ \cup DOMAIN c |-> In(@, k) + In(c, k)]]

\* returnUsage fails on a key usageMap does not have.
Returnable(t, c) == DOMAIN c \subseteq DOMAIN usage[t]

Return(t, c) ==
    usage' = [usage EXCEPT ![t] = [k \in DOMAIN @ |-> @[k] - In(c, k)]]

-----------------------------------------------------------------------------
\* What x is charged to, and how much.
TicketOf(x) == IF x \in Projects THEN Tenant ELSE ProjectOf[x]

CostOf(x) == IF x \in Projects THEN Limits[x] ELSE Cost[x]

Goto(r, l) == pc' = [pc EXCEPT ![r] = l]

CallFails(r) == r \in Unreliable /\ Fault

Init ==
    /\ faults = 0
    /\ pc = [r \in Requests |-> "none"]
    /\ tickets = {Tenant}
    /\ usage = [t \in Tickets |-> [k \in DOMAIN Limits[t] |-> 0]]
    /\ docs = {}
    /\ tombstones = [x \in Entities |-> 0]

-----------------------------------------------------------------------------
(* Creation: ProjectDcpBackend.create with ResourceTicketDcpBackend's       *)
(* subdivide, VmDcpBackend.create, DiskDcpBackend.create                    *)

\* subdivide: the project's limits cover every key the tenant's do.
BeginProject(p) ==
    /\ pc[p] = "none"
    /\ Goto(p, IF DOMAIN Limits[Tenant] \subseteq DOMAIN Limits[p]
               THEN "postTicket" ELSE "failed")
    /\ UNCHANGED <<faults, storeVars>>

PostTicket(p) ==
    /\ pc[p] = "postTicket"
    /\ \/ /\ Answered
          /\ tickets' = tickets \cup {p} /\ Goto(p, "consume")
       \/ /\ CallFails(p)
          /\ tickets' \in {tickets, tickets \cup {p}} /\ Goto(p, "failed")
    /\ UNCHANGED <<usage, docs, tombstones>>

\* Variant: the document comes first, the charge afterwards.
BeginItemPosting(i) ==
    /\ pc[i] = "none"
    /\ IF ProjectOf[i] \in docs
       THEN docs' = docs \cup {i} /\ Goto(i, "consume")
       ELSE UNCHANGED docs /\ Goto(i, "failed")
    /\ UNCHANGED <<faults, tickets, usage, tombstones>>

BeginItem(i) ==
    /\ pc[i] = "none"
    /\ Goto(i, IF ProjectOf[i] \in docs THEN "consume" ELSE "failed")
    /\ UNCHANGED <<faults, storeVars>>

\* subdivide deletes the ticket it has posted.
Abandon(x) == Goto(x, IF x \in Projects THEN "undo" ELSE "failed")

ConsumeQuota(x) ==
    LET t == TicketOf(x) IN
    /\ pc[x] = "consume"
    /\ Answered
    /\ IF t \in tickets /\ Fits(t, CostOf(x))
       THEN Consume(t, CostOf(x)) /\ Goto(x, "post")
       ELSE UNCHANGED usage /\ Abandon(x)
    /\ UNCHANGED <<tickets, docs, tombstones>>

\* A timeout is thrown on; an error that is not a refusal is swallowed.
ConsumeQuotaFails(x) ==
    LET t == TicketOf(x) IN
    /\ pc[x] = "consume"
    /\ CallFails(x)
    /\ \/ UNCHANGED usage
       \/ t \in tickets /\ Fits(t, CostOf(x)) /\ Consume(t, CostOf(x))
    /\ Abandon(x) \/ (ServerErrors /\ Goto(x, "post"))
    /\ UNCHANGED <<tickets, docs, tombstones>>

UndoTicket(p) ==
    /\ pc[p] = "undo"
    /\ \/ Answered /\ tickets' = tickets \ {p}
       \/ CallFails(p) /\ tickets' \in {tickets, tickets \ {p}}
    /\ Goto(p, "failed")
    /\ UNCHANGED <<usage, docs, tombstones>>

\* Variant: the document is posted under the id of the ticket.
PostUnderTicketId(x) ==
    /\ pc[x] = "post"
    /\ Answered /\ docs' = docs \cup {TicketOf(x)} /\ Goto(x, "created")
    /\ UNCHANGED <<tickets, usage, tombstones>>

\* Nothing is returned when the document cannot be posted.
PostDocument(x) ==
    /\ pc[x] = "post"
    /\ \/ Answered /\ docs' = docs \cup {x} /\ Goto(x, "created")
       \/ CallFails(x) /\ docs' \in {docs, docs \cup {x}} /\ Goto(x, "failed")
    /\ UNCHANGED <<tickets, usage, tombstones>>

-----------------------------------------------------------------------------
(* Deletion, up to the return of the quota                                  *)

\* prepareVmDelete, prepareDiskDelete and the project's findById.
FindTarget(d) ==
    /\ pc[d] = "none"
    /\ Goto(d, IF TargetOf[d] \notin docs THEN "failed"
               ELSE IF TargetOf[d] \in Projects THEN "listVms" ELSE "submitted")
    /\ UNCHANGED <<faults, storeVars>>

\* ProjectDcpBackend.delete looks for VMs, then for disks, then for the ticket.
ListVms(d) ==
    /\ pc[d] = "listVms"
    /\ Goto(d, IF \E i \in docs \cap Vms : ProjectOf[i] = TargetOf[d]
               THEN "failed" ELSE "listDisks")
    /\ UNCHANGED <<faults, storeVars>>

ListDisks(d) ==
    /\ pc[d] = "listDisks"
    /\ Goto(d, IF \E i \in docs \cap Disks : ProjectOf[i] = TargetOf[d]
               THEN "failed" ELSE "findTicket")
    /\ UNCHANGED <<faults, storeVars>>

FindTicket(d) ==
    /\ pc[d] = "findTicket"
    /\ Goto(d, IF TargetOf[d] \in tickets THEN "return" ELSE "failed")
    /\ UNCHANGED <<faults, storeVars>>

\* Inside the step of the delete task, which holds the entity's lock.
InStep(d) == pc[d] \in {"reread", "findProject", "return", "tombstone", "deleteDoc"}

\* The task runs and the host deletes the VM or disk, or does not know it;
\* or the lock is taken or the host fails, and so does the task.
RunDeleteStep(d) ==
    /\ pc[d] = "submitted"
    /\ \/ /\ \A e \in Deletes : TargetOf[e] = TargetOf[d] => ~InStep(e)
          /\ Goto(d, "reread")
       \/ Goto(d, "failed")
    /\ UNCHANGED <<faults, storeVars>>

\* Variant: the entity that was read when the task was created is used.
RereadNothing(d) ==
    /\ pc[d] = "reread"
    /\ Goto(d, "findProject")
    /\ UNCHANGED <<faults, storeVars>>

\* With the lock held, DiskDcpBackend.tombstone reads the disk again and
\* VmDcpBackend.isosAttached the VM: a task whose entity another task has
\* deleted in the meantime fails here.
RereadTarget(d) ==
    /\ pc[d] = "reread"
    /\ Goto(d, IF TargetOf[d] \in docs THEN "findProject" ELSE "failed")
    /\ UNCHANGED <<faults, storeVars>>

FindProject(d) ==
    /\ pc[d] = "findProject"
    /\ Goto(d, IF ProjectOf[TargetOf[d]] \in docs THEN "return" ELSE "failed")
    /\ UNCHANGED <<faults, storeVars>>

ReturnQuota(d) ==
    LET x == TargetOf[d]
        t == TicketOf(x)
        applies == t \in tickets /\ Returnable(t, CostOf(x))
    IN
    /\ pc[d] = "return"
    /\ \/ /\ Answered
          /\ IF applies
             THEN /\ Return(t, CostOf(x))
                  /\ Goto(d, IF x \in Disks THEN "deleteDoc" ELSE "tombstone")
             ELSE UNCHANGED usage /\ Goto(d, "failed")
       \/ /\ CallFails(d)
          /\ UNCHANGED usage \/ (applies /\ Return(t, CostOf(x)))
          /\ Goto(d, "failed")
    /\ UNCHANGED <<tickets, docs, tombstones>>

-----------------------------------------------------------------------------
(* Deletion, after the return of the quota                                  *)

CreateTombstone(d) ==
    LET x == TargetOf[d]
        more == [tombstones EXCEPT ![x] = @ + 1]
    IN
    /\ pc[d] = "tombstone"
    /\ \/ /\ Answered
          /\ tombstones' = more
          /\ Goto(d, IF x \in Disks THEN "deleted" ELSE "deleteDoc")
       \/ /\ CallFails(d)
          /\ tombstones' \in {tombstones, more}
          /\ Goto(d, "failed")
    /\ UNCHANGED <<tickets, usage, docs>>

AfterDelete(x) ==
    IF x \in Projects THEN "deleteTicket"
    ELSE IF x \in Disks THEN "tombstone" ELSE "deleted"

\* The store may or may not report that there was nothing to delete.
DeleteDocument(d) ==
    LET x == TargetOf[d] IN
    /\ pc[d] = "deleteDoc"
    /\ \/ Answered /\ docs' = docs \ {x} /\ Goto(d, AfterDelete(x))
       \/ Answered /\ x \notin docs /\ UNCHANGED docs /\ Goto(d, "failed")
       \/ CallFails(d) /\ docs' \in {docs, docs \ {x}} /\ Goto(d, "failed")
    /\ UNCHANGED <<tickets, usage, tombstones>>

DeleteTicket(d) ==
    LET x == TargetOf[d] IN
    /\ pc[d] = "deleteTicket"
    /\ \/ /\ Answered
          /\ tickets' = tickets \ {x}
          /\ Goto(d, IF x \in tickets THEN "deleted" ELSE "failed")
       \/ /\ CallFails(d)
          /\ tickets' \in {tickets, tickets \ {x}}
          /\ Goto(d, "failed")
    /\ UNCHANGED <<usage, docs, tombstones>>

Terminated ==
    /\ \A r \in Requests : pc[r] \in {"created", "deleted", "failed"}
    /\ UNCHANGED vars

CreateStep(x) ==
    \/ x \in Projects /\ (BeginProject(x) \/ PostTicket(x) \/ UndoTicket(x))
    \/ x \in Items /\ BeginItem(x)
    \/ ConsumeQuota(x) \/ ConsumeQuotaFails(x) \/ PostDocument(x)

DeleteStep(d) ==
    \/ FindTarget(d) \/ ListVms(d) \/ ListDisks(d) \/ FindTicket(d)
    \/ RunDeleteStep(d) \/ RereadTarget(d) \/ FindProject(d) \/ ReturnQuota(d)
    \/ CreateTombstone(d) \/ DeleteDocument(d) \/ DeleteTicket(d)

Next ==
    \/ \E x \in Entities : CreateStep(x)
    \/ \E d \in Deletes : DeleteStep(d)
    \/ Terminated

Spec == Init /\ [][Next]_vars

-----------------------------------------------------------------------------
Labels == {"none", "postTicket", "consume", "undo", "post", "created", "failed",
           "listVms", "listDisks", "findTicket", "submitted", "reread",
           "findProject", "return", "tombstone", "deleteDoc", "deleteTicket",
           "deleted"}

TypeOK ==
    /\ faults \in 0 .. MaxFaults
    /\ pc \in [Requests -> Labels]
    /\ tickets \subseteq Tickets
    /\ DOMAIN usage = Tickets
    /\ \A t \in Tickets : usage[t] \in [DOMAIN usage[t] -> Int]
                          /\ DOMAIN usage[t] \subseteq Keys
    /\ docs \subseteq Entities
    /\ tombstones \in [Entities -> Nat]

Total(S, k) == MapThenSumSet(LAMBDA x : In(CostOf(x), k), S)

Uses(t) == {x \in Entities : TicketOf(x) = t}

\* A delete request has given back the quota of its target and goes on.
Returned(d) == pc[d] \in {"tombstone", "deleteDoc", "deleteTicket", "deleted"}

GivenBack(x) == \E d \in Deletes : TargetOf[d] = x /\ Returned(d)

\* ResourceTicketService.consumeQuota: however creations and deletions
\* interleave and fail, no ticket records more usage than its limits.
UsageWithinLimits ==
    \A t \in Tickets : \A k \in DOMAIN Limits[t] : In(usage[t], k) <= Limits[t][k]

\* As long as no call fails, a ticket's usage is exactly what is charged to
\* it: nothing is charged twice, forgotten, or kept after a deletion or a
\* refused subdivide.
UsageIsExact ==
    faults = 0 =>
        \A t \in tickets, k \in Keys :
            In(usage[t], k) =
                Total({x \in Uses(t) : pc[x] \in {"post", "created"} /\ ~GivenBack(x)}, k)

\* Whatever exists is paid for: a ticket's usage covers every document
\* charged to it, except one whose deletion is under way.  A call that fails
\* during a creation can make the usage too large, never too small.
UsageCoversDocuments ==
    \A t \in tickets, k \in Keys :
        Total({x \in Uses(t) \cap docs : ~GivenBack(x)}, k) <= In(usage[t], k)

\* The two levels together: all VMs and disks of all projects stay within
\* the limits of the tenant, though each is only ever compared with the
\* limits of its project.  A VM or disk is off its host before its quota is
\* given back, so one whose deletion has come that far does not count.
TenantWithinLimits ==
    \A k \in DOMAIN Limits[Tenant] :
        Total({i \in docs \cap Items : ~GivenBack(i)}, k) <= Limits[Tenant][k]

\* As long as no call fails, an entity gets one tombstone, however often it
\* is deleted: TombstoneDcpBackend.getByEntityId throws for one with more.
OneTombstone == faults = 0 => \A x \in Entities : tombstones[x] <= 1

\* A project that still has a VM or a disk is not deleted.
ItemsHaveProjects == \A i \in docs \cap Items : ProjectOf[i] \in docs
=============================================================================
