---------------------------- MODULE TaskDocuments ----------------------------
(***************************************************************************)
(* The task documents of the cloud store (TaskService) and the patches by  *)
(* which the API front end records progress in them (TaskDcpBackend).  A   *)
(* document holds the state of the task and of each of its steps.  The     *)
(* service checks no progression: whichever patch arrives is applied.      *)
(*                                                                         *)
(* Steps are numbered from 1.  The service keys them by their operation    *)
(* (no two steps of a task share one) and moves an updated step to the end *)
(* of the list; readers sort by sequence number, so the order in the list  *)
(* is not modelled.                                                        *)
(***************************************************************************)
EXTENDS CloudStoreClient

CONSTANTS Tasks, NumSteps

ASSUME StepAssumption == NumSteps \in [Tasks -> Nat \ {0}]

StepState == {"QUEUED", "STARTED", "ERROR", "COMPLETED"}

TaskState == StepState

Terminal == {"ERROR", "COMPLETED"}

StepsOf(t) == 1 .. NumSteps[t]

\* A patch of the task's own state has step 0.
Patches == [task : Tasks, step : Nat, state : StepState]

VARIABLES
    docState,    \* docState[t]: the state in t's document, "NONE" without one
    docStep,     \* docStep[t][s]: the state of step s in t's document
    latePatch    \* patches under way whose sender has given up

docVars == <<docState, docStep, latePatch>>

TaskPatch(t, st) == [task |-> t, step |-> 0, state |-> st]

StepPatch(t, s, st) == [task |-> t, step |-> s, state |-> st]

-----------------------------------------------------------------------------
Found(p) == docState[p.task] # "NONE"

\* handlePatch for the task's state, handleStepUpdatePatch for a step's.
Apply(p) ==
    IF p.step = 0
    THEN docState' = [docState EXCEPT ![p.task] = p.state] /\ UNCHANGED docStep
    ELSE docStep' = [docStep EXCEPT ![p.task][p.step] = p.state]
         /\ UNCHANGED docState

PatchApplied(p) ==
    /\ Found(p)
    /\ Apply(p)
    /\ UNCHANGED latePatch
    /\ Answered

\* The caller gets a TaskNotFoundException.
PatchNotFound(p) ==
    /\ ~Found(p)
    /\ UNCHANGED docVars
    /\ Answered

\* The caller gets any other exception.
PatchFails(p) ==
    /\ Fault
    /\ \/ UNCHANGED docVars
       \/ Found(p) /\ Apply(p) /\ UNCHANGED latePatch
       \/ /\ LateDelivery
          /\ latePatch' = latePatch \cup {p}
          /\ UNCHANGED <<docState, docStep>>

DeliverLatePatch(p) ==
    /\ latePatch' = latePatch \ {p}
    /\ IF Found(p) THEN Apply(p) ELSE UNCHANGED <<docState, docStep>>
    /\ Answered

-----------------------------------------------------------------------------
\* createTaskWithSteps: the POST of a document with every step QUEUED.
CreateDocument(t) ==
    /\ docState' = [docState EXCEPT ![t] = "QUEUED"]
    /\ docStep' = [docStep EXCEPT ![t] = [s \in StepsOf(t) |-> "QUEUED"]]
    /\ UNCHANGED latePatch

DeleteDocuments(ts) ==
    /\ docState' = [t \in Tasks |-> IF t \in ts THEN "NONE" ELSE docState[t]]
    /\ UNCHANGED <<docStep, latePatch>>
=============================================================================
