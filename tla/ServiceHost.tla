---------------------------- MODULE ServiceHost ----------------------------
(***************************************************************************)
(* The Go service host of the bare-metal adapters (dcp/host): a service    *)
(* is bound to its link and moves through its stages while requests for it *)
(* come in.  A request is an operation of its own: it is done when the     *)
(* handler completes or fails it, or when it expires, whichever is first;  *)
(* ServeHTTP answers when it is done.                                      *)
(***************************************************************************)
EXTENDS Integers, FiniteSets

CONSTANTS
    Reqs            \* requests the host receives

VARIABLES
    bound,          \* the service is in the host's map
    stage,          \* its stage
    starting,       \* where StartService and startService are
    barrier,        \* requests whose barrier channel is registered
    handling,       \* where the routine of each request is (HandleRequest)
    hostOp,         \* the host's operation for each request
    answer,         \* the response of ServeHTTP
    effects         \* requests a handler carried out

hostVars == <<bound, stage, starting, barrier, handling, hostOp, answer, effects>>

StageCreated == 1
StageInitialized == 2
StageStarted == 3
StageAvailable == 4

HostTypeOK ==
    /\ bound \in BOOLEAN
    /\ stage \in StageCreated..StageAvailable
    /\ starting \in {"no", "bound", "handleStart", "started", "done", "failed"}
    /\ barrier \subseteq Reqs
    /\ handling \in [Reqs -> {"none", "lookup", "blocked", "waiting", "woken",
                              "handler", "carriedOut", "returned"}]
    /\ hostOp \in [Reqs -> {"open", "ok", "notFound", "err"}]
    /\ answer \in [Reqs -> {"none", "ok", "err"}]
    /\ effects \subseteq Reqs

HostInit ==
    /\ bound = FALSE
    /\ stage = StageCreated
    /\ starting = "no"
    /\ barrier = {}
    /\ handling = [r \in Reqs |-> "none"]
    /\ hostOp = [r \in Reqs |-> "open"]
    /\ answer = [r \in Reqs |-> "none"]
    /\ effects = {}

-----------------------------------------------------------------------------
\* SetStage closes the channels of those who wait for the stage.
SetStage(s) ==
    /\ stage < s
    /\ stage' = s
    /\ barrier' = IF s = StageAvailable THEN {} ELSE barrier

\* StartService puts the service into the map; then it is initialized, its
\* start handler runs, and it becomes started and available.
StartService ==
    /\ starting = "no" /\ ~bound
    /\ bound' = TRUE
    /\ starting' = "bound"
    /\ UNCHANGED <<stage, barrier, handling, hostOp, answer, effects>>

Initialize ==
    /\ starting = "bound"
    /\ SetStage(StageInitialized)
    /\ starting' = "handleStart"
    /\ UNCHANGED <<bound, handling, hostOp, answer, effects>>

\* When the start handler fails, the service stays in the map and where it is.
HandleStart(ok) ==
    /\ starting = "handleStart"
    /\ IF ok
       THEN SetStage(StageStarted) /\ starting' = "started"
       ELSE starting' = "failed" /\ UNCHANGED <<stage, barrier>>
    /\ UNCHANGED <<bound, handling, hostOp, answer, effects>>

MakeAvailable ==
    /\ starting = "started"
    /\ SetStage(StageAvailable)
    /\ starting' = "done"
    /\ UNCHANGED <<bound, handling, hostOp, answer, effects>>

-----------------------------------------------------------------------------
\* Complete and Fail: only the first of them counts.
FinishRequest(r, result) ==
    hostOp' = IF hostOp[r] = "open" THEN [hostOp EXCEPT ![r] = result] ELSE hostOp

Goto(r, pc) == handling' = [handling EXCEPT ![r] = pc]

\* ServeHTTP starts the operation and its routine.
Accept(r) ==
    /\ handling[r] = "none"
    /\ Goto(r, "lookup")
    /\ UNCHANGED <<bound, stage, starting, barrier, hostOp, answer, effects>>

\* As Lookup, but a request for nobody is completed without a status.
LookupCompletes(r) ==
    /\ handling[r] = "lookup"
    /\ IF ~bound
       THEN FinishRequest(r, "ok") /\ Goto(r, "returned")
       ELSE /\ Goto(r, IF stage < StageAvailable THEN "blocked" ELSE "handler")
            /\ UNCHANGED hostOp
    /\ UNCHANGED <<bound, stage, starting, barrier, answer, effects>>

\* HandleRequest looks the service up, and at its stage.
Lookup(r) ==
    /\ handling[r] = "lookup"
    /\ IF ~bound
       THEN FinishRequest(r, "notFound") /\ Goto(r, "returned")
       ELSE /\ Goto(r, IF stage < StageAvailable THEN "blocked" ELSE "handler")
            /\ UNCHANGED hostOp
    /\ UNCHANGED <<bound, stage, starting, barrier, answer, effects>>

\* As StageBarrier, but without the second look.
StageBarrierUnchecked(r) ==
    /\ handling[r] = "blocked"
    /\ Goto(r, "waiting")
    /\ barrier' = barrier \cup {r}
    /\ UNCHANGED <<bound, stage, starting, hostOp, answer, effects>>

\* StageBarrier looks again, with the lock held.
StageBarrier(r) ==
    /\ handling[r] = "blocked"
    /\ Goto(r, "waiting")
    /\ barrier' = IF stage >= StageAvailable THEN barrier ELSE barrier \cup {r}
    /\ UNCHANGED <<bound, stage, starting, hostOp, answer, effects>>

\* The select: the operation is done, or the channel is closed; when both
\* are so, either.
Wake(r) ==
    /\ handling[r] = "waiting"
    /\ \/ hostOp[r] # "open" /\ Goto(r, "returned")
       \/ r \notin barrier /\ Goto(r, "handler")
    /\ UNCHANGED <<bound, stage, starting, barrier, hostOp, answer, effects>>

\* The handler refuses the request (a body it cannot read, a method it does
\* not have), or carries it out and completes it.
Refuse(r) ==
    /\ handling[r] = "handler"
    /\ FinishRequest(r, "err") /\ Goto(r, "returned")
    /\ UNCHANGED <<bound, stage, starting, barrier, answer, effects>>

CarryOut(r) ==
    /\ handling[r] = "handler"
    /\ effects' = effects \cup {r}
    /\ Goto(r, "carriedOut")
    /\ UNCHANGED <<bound, stage, starting, barrier, hostOp, answer>>

Complete(r) ==
    /\ handling[r] = "carriedOut"
    /\ FinishRequest(r, "ok") /\ Goto(r, "returned")
    /\ UNCHANGED <<bound, stage, starting, barrier, answer, effects>>

\* As Expire, for an operation that was not started.
NeverExpires(r) == r \notin Reqs /\ UNCHANGED hostVars

\* The routine of Operation.Start.
Expire(r) ==
    /\ handling[r] # "none" /\ hostOp[r] = "open"
    /\ FinishRequest(r, "err")
    /\ UNCHANGED <<bound, stage, starting, barrier, handling, answer, effects>>

\* ServeHTTP writes its response.  Status and body are not locked: a handler
\* that completes a request that has just expired may still overwrite them.
Answer(r) ==
    /\ hostOp[r] # "open" /\ answer[r] = "none"
    /\ \E status \in {"ok", "err"} :
        /\ status = "ok" => hostOp[r] = "ok" \/ (hostOp[r] = "err" /\ r \in effects)
        /\ status = "err" => hostOp[r] # "ok"
        /\ answer' = [answer EXCEPT ![r] = status]
    /\ UNCHANGED <<bound, stage, starting, barrier, handling, hostOp, effects>>

HandleRequest(r) ==
    \/ Lookup(r) \/ StageBarrier(r) \/ Wake(r) \/ Refuse(r) \/ CarryOut(r)
    \/ Complete(r)

-----------------------------------------------------------------------------
\* A request that waits for the service to become available is not forgotten:
\* its channel is closed, or the service is not available yet (HandleRequest
\* reads the stage without the lock, StageBarrier reads it again with it).
NoLostWakeup == \A r \in barrier : stage < StageAvailable

=============================================================================
