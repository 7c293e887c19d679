---------------------------- MODULE TaskContract ----------------------------
(***************************************************************************)
(* What the task engine promises its users, without commands, locks, calls *)
(* or nodes: a task's status only moves forward, tasks at work at the same *)
(* time use disjoint entities, a task at work is STARTED, and a task       *)
(* concludes only when it is not at work.                                  *)
(***************************************************************************)
CONSTANTS
    Tasks,
    Uses        \* Uses[t]: the entities t works on

VARIABLES
    status,     \* status[t]: what a reader of the task document sees
    active      \* the tasks at work

cvars == <<status, active>>

Init ==
    /\ status = [t \in Tasks |-> "NONE"]
    /\ active = {}

MayEnter(t) == \A u \in active \ {t} : Uses[t] \cap Uses[u] = {}

Create(t) ==
    /\ status[t] = "NONE"
    /\ status' = [status EXCEPT ![t] = "QUEUED"]
    /\ UNCHANGED active

\* A task that uses no entity may be at work as soon as it is started, and
\* a task of two commands is started twice.
Start(t) ==
    /\ status[t] \in {"QUEUED", "STARTED"}
    /\ status' = [status EXCEPT ![t] = "STARTED"]
    /\ \/ UNCHANGED active
       \/ MayEnter(t) /\ active' = active \cup {t}

Enter(t) ==
    /\ status[t] = "STARTED"
    /\ MayEnter(t)
    /\ active' = active \cup {t}
    /\ UNCHANGED status

Leave(S) ==
    /\ active' = active \ S
    /\ UNCHANGED status

\* A completion whose answer is lost is recorded as an error in its turn.
Complete(t) ==
    /\ status[t] = "STARTED" /\ t \notin active
    /\ status' = [status EXCEPT ![t] = "COMPLETED"]
    /\ UNCHANGED active

Fail(t) ==
    /\ status[t] # "NONE" /\ t \notin active
    /\ status' = [status EXCEPT ![t] = "ERROR"]
    /\ UNCHANGED active

Next ==
    \/ \E t \in Tasks : Create(t) \/ Start(t) \/ Enter(t) \/ Complete(t) \/ Fail(t)
    \/ \E S \in SUBSET Tasks : Leave(S)

Spec == Init /\ [][Next]_cvars
=============================================================================
