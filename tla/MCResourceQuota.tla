--------------------------- MODULE MCResourceQuota ---------------------------
(***************************************************************************)
(* Small instances of ResourceQuota.  The tenant limits "vm" only, the     *)
(* projects "vm" and "cost"; nothing limits "capacity".  With MCLimits the *)
(* tenant has room for one of the projects p and q, with RoomForTwo for    *)
(* both.                                                                   *)
(***************************************************************************)
EXTENDS ResourceQuota

CONSTANTS p, q, v, w, u, disk, d1, d2, d3, d4, d5

MCProjectOf == [i \in Items |-> IF i = w THEN q ELSE p]

\* d1 and d2 delete v, d4 and d5 the disk, d3 deletes p.
MCTargetOf ==
    [d \in Deletes |-> IF d = d3 THEN p ELSE IF d \in {d4, d5} THEN disk ELSE v]

\* d1 and d2 delete the project p.
ProjectTwice == [d \in Deletes |-> p]

\* d1 deletes v, d2 deletes the disk.
OneEach == [d \in Deletes |-> IF d = d1 THEN v ELSE disk]

MCLimits ==
    [t \in Tickets |-> IF t = Tenant THEN [vm |-> 3]
                       ELSE [vm |-> 2, cost |-> 4]]

\* Both fit exactly.
RoomForTwo ==
    [t \in Tickets |-> CASE t = Tenant -> [vm |-> 3]
                         [] t = p -> [vm |-> 1, cost |-> 4]
                         [] t = q -> [vm |-> 2, cost |-> 4]]

MCCost ==
    [i \in Items |-> IF i = disk THEN [cost |-> 3, capacity |-> 1]
                     ELSE [vm |-> IF i = w THEN 2 ELSE 1, cost |-> 2]]
=============================================================================
