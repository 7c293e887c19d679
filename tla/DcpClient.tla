----------------------------- MODULE DcpClient -----------------------------
(***************************************************************************)
(* The Go client of the bare-metal adapters (dcp/client Send) with its     *)
(* operations (dcp/operation) and the connections of its dialer.  Send     *)
(* runs in the routine that calls it: it has a second routine execute the  *)
(* request (doSend), waits for its result or for the operation to be done, *)
(* and tries again after a network error.  A third routine fails the       *)
(* operation when it expires (Operation.Start).                            *)
(*                                                                         *)
(* What comes back from the network is left open here (DcpExchange         *)
(* connects the client to the service host).                               *)
(***************************************************************************)
EXTENDS Integers, FiniteSets

CONSTANTS
    Ops,            \* operations, each sent once
    HasBody,        \* those that carry a body
    RetryCount,     \* retries of each operation: 2 unless SetRetryCount says
                    \* otherwise
    Unreachable,    \* those for an address where nobody listens
    MaxConns,       \* 64 in the code (MaximumConnections)
    Needed          \* the n of JoinN over all operations

ASSUME ClientAssumption ==
    /\ HasBody \subseteq Ops /\ Unreachable \subseteq Ops /\ IsFiniteSet(Ops)
    /\ RetryCount \in [Ops -> Nat] /\ MaxConns \in Nat \ {0} /\ Needed \in 1..Cardinality(Ops)

VARIABLES
    send,           \* where Send is, for each operation
    done,           \* the operation: open, completed or failed
    retries,        \* retriesRemaining
    sends,          \* requests issued
    body,           \* the request's body is still unread
    attempt,        \* where doSend is
    collected,      \* operations JoinN has taken from its channels
    joined          \* what JoinN returned

clientVars == <<send, done, retries, sends, body, attempt, collected, joined>>

ClientTypeOK ==
    /\ send \in [Ops -> {"new", "loop", "select", "delay", "cancelled", "returned"}]
    /\ done \in [Ops -> {"open", "ok", "err"}]
    /\ retries \in [Ops -> Int] /\ sends \in [Ops -> Nat]
    /\ \A o \in Ops : retries[o] <= RetryCount[o] /\ sends[o] <= RetryCount[o] + 1
    /\ body \in [Ops -> BOOLEAN]
    /\ attempt \in [Ops -> {"none", "go", "dial", "write", "sent", "res", "err", "neterr"}]
    /\ collected \subseteq Ops
    /\ joined \in {"waiting", "ok", "err"}

ClientInit ==
    /\ send = [o \in Ops |-> "new"]
    /\ done = [o \in Ops |-> "open"]
    /\ retries = RetryCount
    /\ sends = [o \in Ops |-> 0]
    /\ body = [o \in Ops |-> TRUE]
    /\ attempt = [o \in Ops |-> "none"]
    /\ collected = {}
    /\ joined = "waiting"

-----------------------------------------------------------------------------

\* As FinishOp, but the last result counts.
FinishOverwrites(o, result) == done' = [done EXCEPT ![o] = result]

\* Complete and Fail: only the first of them counts (sync.Once).
FinishOp(o, result) ==
    done' = IF done[o] = "open" THEN [done EXCEPT ![o] = result] ELSE done

At(o, pc) == send[o] = pc
SendGoto(o, pc) == send' = [send EXCEPT ![o] = pc]
AttemptIs(o, state) == attempt' = [attempt EXCEPT ![o] = state]

\* Send creates the request, or fails the operation if it cannot.
Send(o, created) ==
    /\ At(o, "new")
    /\ IF created
       THEN SendGoto(o, "loop") /\ UNCHANGED done
       ELSE SendGoto(o, "returned") /\ FinishOp(o, "err")
    /\ UNCHANGED <<retries, sends, body, attempt, collected, joined>>

\* The head of its loop, whether or not the operation is done by then.
Issue(o) ==
    /\ At(o, "loop")
    /\ SendGoto(o, "select")
    /\ AttemptIs(o, "go")
    /\ sends' = [sends EXCEPT ![o] = @ + 1]
    /\ UNCHANGED <<done, retries, body, collected, joined>>

\* The select when the operation is done: CancelRequest stops the request, and
\* closes its connection, if the transport has it already.
SelectDone(o) ==
    /\ At(o, "select") /\ done[o] # "open"
    /\ SendGoto(o, "cancelled")
    /\ AttemptIs(o, IF attempt[o] \in {"dial", "write", "sent", "res"} THEN "err"
                    ELSE attempt[o])
    /\ UNCHANGED <<done, retries, sends, body, collected, joined>>

\* Send waits for the routine.  A response is dropped without a look: unless
\* its body is empty, it keeps its connection.
AwaitRoutine(o) ==
    /\ At(o, "cancelled") /\ attempt[o] \in {"res", "err", "neterr"}
    /\ SendGoto(o, "returned")
    /\ AttemptIs(o, "none") \/ (attempt[o] = "res" /\ UNCHANGED attempt)
    /\ UNCHANGED <<done, retries, sends, body, collected, joined>>

\* As SelectResult, but without a return for errors that are not worth
\* another try.
SelectResultForgets(o) ==
    /\ At(o, "select")
    /\ \/ /\ attempt[o] = "res"
          /\ FinishOp(o, "ok") /\ SendGoto(o, "returned")
       \/ attempt[o] = "err" /\ UNCHANGED <<done, send>>
    /\ AttemptIs(o, "none")
    /\ UNCHANGED <<retries, sends, body, collected, joined>>

\* The select when the routine has its result: success, an error, or a
\* network error that is worth another try.
SelectResult(o) ==
    /\ At(o, "select")
    /\ \/ /\ attempt[o] = "res"
          /\ FinishOp(o, "ok") /\ SendGoto(o, "returned") /\ UNCHANGED retries
       \/ /\ attempt[o] = "err"
          /\ FinishOp(o, "err") /\ SendGoto(o, "returned") /\ UNCHANGED retries
       \/ /\ attempt[o] = "neterr"
          /\ retries' = [retries EXCEPT ![o] = @ - 1]
          /\ IF retries[o] <= 0
             THEN FinishOp(o, "err") /\ SendGoto(o, "returned")
             ELSE SendGoto(o, "delay") /\ UNCHANGED done
    /\ AttemptIs(o, "none")
    /\ UNCHANGED <<sends, body, collected, joined>>

WaitForRetryDelay(o) ==
    /\ At(o, "delay")
    /\ SendGoto(o, "loop")
    /\ UNCHANGED <<done, retries, sends, body, attempt, collected, joined>>

\* The routine of Operation.Start.
Timeout(o) ==
    /\ send[o] # "new" /\ done[o] = "open"
    /\ FinishOp(o, "err")
    /\ UNCHANGED <<send, retries, sends, body, attempt, collected, joined>>

-----------------------------------------------------------------------------
\* doSend and the transport.  A connection is held from Dial until the
\* response is read or the request has failed; Unread hold theirs for good.
Unread == {o \in Ops : send[o] = "returned" /\ attempt[o] = "res"}
Connections == {o \in Ops : attempt[o] \in {"write", "sent", "res"}}

Register(o) ==
    /\ attempt[o] = "go"
    /\ AttemptIs(o, "dial")
    /\ UNCHANGED <<send, done, retries, sends, body, collected, joined>>

\* The dialer tries to connect as soon as it may have one more connection.
Dial(o, connects) ==
    /\ attempt[o] = "dial" /\ (connects => o \notin Unreachable)
    /\ Cardinality(Connections) < MaxConns
    /\ AttemptIs(o, IF connects THEN "write" ELSE "neterr")
    /\ UNCHANGED <<send, done, retries, sends, body, collected, joined>>

\* As Write, with a body that can be read again.
WriteRereads(o) ==
    /\ attempt[o] = "write"
    /\ AttemptIs(o, "sent")
    /\ UNCHANGED <<send, done, retries, sends, body, collected, joined>>

\* The request is written.  Its body is a buffer that can be read once, and
\* the transport refuses to send less than the length it announced.
Write(o) ==
    /\ attempt[o] = "write"
    /\ IF o \in HasBody /\ ~body[o]
       THEN AttemptIs(o, "err") /\ UNCHANGED body
       ELSE AttemptIs(o, "sent") /\ body' = [body EXCEPT ![o] = FALSE]
    /\ UNCHANGED <<send, done, retries, sends, collected, joined>>

\* The connection breaks.
Break(o) ==
    /\ attempt[o] = "sent"
    /\ AttemptIs(o, "neterr")
    /\ UNCHANGED <<send, done, retries, sends, body, collected, joined>>

\* The response is there; one with an error status is an error (responseToError).
Respond(o, ok) ==
    /\ attempt[o] = "sent"
    /\ AttemptIs(o, IF ok THEN "res" ELSE "err")
    /\ UNCHANGED <<send, done, retries, sends, body, collected, joined>>

-----------------------------------------------------------------------------
OpsWith(S, result) == {o \in S : done[o] = result}

\* As JoinN, off by one in how many may fail.
JoinTooEarly(o) ==
    /\ joined = "waiting"
    /\ o \notin collected /\ done[o] # "open"
    /\ collected' = collected \cup {o}
    /\ joined' = IF Cardinality(OpsWith(collected', "ok")) = Needed THEN "ok"
                 ELSE IF Cardinality(OpsWith(collected', "err")) >= Cardinality(Ops) - Needed
                 THEN "err" ELSE "waiting"
    /\ UNCHANGED <<send, done, retries, sends, body, attempt>>

\* JoinN takes finished operations in any order and returns as soon as
\* enough of them completed, or too many failed.
JoinN(o) ==
    /\ joined = "waiting"
    /\ o \notin collected /\ done[o] # "open"
    /\ collected' = collected \cup {o}
    /\ joined' = IF Cardinality(OpsWith(collected', "ok")) = Needed THEN "ok"
                 ELSE IF Cardinality(OpsWith(collected', "err")) > Cardinality(Ops) - Needed
                 THEN "err" ELSE "waiting"
    /\ UNCHANGED <<send, done, retries, sends, body, attempt>>

Step(o) ==
    \/ Issue(o) \/ SelectDone(o) \/ AwaitRoutine(o) \/ SelectResult(o)
    \/ WaitForRetryDelay(o)

=============================================================================
