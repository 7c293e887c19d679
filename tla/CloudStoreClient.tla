-------------------------- MODULE CloudStoreClient --------------------------
(***************************************************************************)
(* How a call of the API front end to the cloud store can end.             *)
(*                                                                         *)
(* XenonRestClient.send issues one request, waits on a latch and turns the *)
(* outcome into a return or an exception; ApiFeDcpRestClient rethrows a    *)
(* timeout as a RuntimeException.  The caller is blocked meanwhile, so a   *)
(* call is one step of the model.  It is answered, or it fails: the        *)
(* request was lost, or its answer was, or (LateDelivery) the request is   *)
(* still under way when the caller gives up and is applied afterwards.     *)
(* Each failure draws on a budget, so that liveness can be stated for the  *)
(* executions in which the network is eventually well behaved.             *)
(***************************************************************************)
EXTENDS Naturals

CONSTANTS
    LateDelivery,   \* may a request be applied after its caller timed out?
    MaxFaults       \* how many calls and processes may fail

ASSUME ClientAssumption == LateDelivery \in BOOLEAN /\ MaxFaults \in Nat

VARIABLE faults     \* the failures so far

Answered == UNCHANGED faults

Fault == faults < MaxFaults /\ faults' = faults + 1
=============================================================================
