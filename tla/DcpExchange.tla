---------------------------- MODULE DcpExchange ----------------------------
(***************************************************************************)
(* The client (DcpClient) sends operations to a service of the host        *)
(* (ServiceHost) while that service starts.  Every request the client      *)
(* issues is a request of its own for the host; what was written may still *)
(* be read and handled by the host after the client gave up on it.         *)
(***************************************************************************)
EXTENDS DcpClient, ServiceHost

ASSUME ExchangeAssumption ==
    Reqs = UNION {{o} \X (1..(RetryCount[o] + 1)) : o \in Ops}

VARIABLES
    pipe            \* requests written and not yet read by the host

vars == <<clientVars, hostVars, pipe>>

Init == ClientInit /\ HostInit /\ pipe = {}

\* The request an operation has issued last.
Current(o) == <<o, sends[o]>>

-----------------------------------------------------------------------------
ClientStep(o) ==
    /\ \/ \E created \in BOOLEAN : Send(o, created)
       \/ Step(o) \/ Register(o)
       \/ \E connects \in BOOLEAN : Dial(o, connects)
    /\ UNCHANGED <<hostVars, pipe>>

OpExpires(o) == Timeout(o) /\ UNCHANGED <<hostVars, pipe>>

WriteRequest(o) ==
    /\ Write(o)
    /\ pipe' = IF attempt'[o] = "sent" THEN pipe \cup {Current(o)} ELSE pipe
    /\ UNCHANGED hostVars

\* What was written gets lost, or reaches the host all the same.
ConnectionBreaks(o) ==
    /\ Break(o)
    /\ pipe' \in {pipe, pipe \ {Current(o)}}
    /\ UNCHANGED hostVars

ReadRequest(r) ==
    /\ r \in pipe
    /\ Accept(r)
    /\ pipe' = pipe \ {r}
    /\ UNCHANGED clientVars

ReadResponse(o) ==
    /\ sends[o] > 0 /\ answer[Current(o)] # "none"
    /\ Respond(o, answer[Current(o)] = "ok")
    /\ UNCHANGED <<hostVars, pipe>>

Join(o) == JoinN(o) /\ UNCHANGED <<hostVars, pipe>>

HostStarts ==
    /\ \/ Initialize \/ MakeAvailable
       \/ \E ok \in BOOLEAN : HandleStart(ok)
    /\ UNCHANGED <<clientVars, pipe>>

Bind == StartService /\ UNCHANGED <<clientVars, pipe>>

HostStep(r) == HandleRequest(r) /\ UNCHANGED <<clientVars, pipe>>
HostExpires(r) == Expire(r) /\ UNCHANGED <<clientVars, pipe>>
HostAnswers(r) == Answer(r) /\ UNCHANGED <<clientVars, pipe>>

\* The routines of an operation, and those of a request.
ClientRuns(o) ==
    ClientStep(o) \/ OpExpires(o) \/ WriteRequest(o) \/ ReadResponse(o) \/ Join(o)

HostRuns(r) == ReadRequest(r) \/ HostStep(r) \/ HostExpires(r) \/ HostAnswers(r)

Next ==
    \/ \E o \in Ops : ClientRuns(o) \/ ConnectionBreaks(o)
    \/ Bind \/ HostStarts
    \/ \E r \in Reqs : HostRuns(r)

Spec == Init /\ [][Next]_vars

\* Routines that can run do run, timers fire, and dialing takes 10 seconds at
\* most.  Nothing is assumed of the start of the service, nor that
\* connections hold.
FairSpec ==
    /\ Spec
    /\ \A o \in Ops : WF_vars(ClientRuns(o))
    /\ \A r \in Reqs : WF_vars(HostRuns(r))

-----------------------------------------------------------------------------
TypeOK == ClientTypeOK /\ HostTypeOK /\ pipe \subseteq Reqs

\* An operation that completed was carried out by a handler of the host, in
\* spite of retries, of responses that cross an expiry on either side, and
\* of the unlocked status of an expired request (Send, ServeHTTP).
CompletedWasCarriedOut ==
    \A o \in Ops : done[o] = "ok" => \E r \in effects : r[1] = o

\* An operation with a body is carried out once at most although Send tries
\* again after a connection broke, because the body was used up (Send,
\* CreateRequest).
BodyCarriedOutOnce ==
    \A o \in HasBody : Cardinality({r \in effects : r[1] = o}) <= 1

\* The result of an operation is settled once: a late response does not turn
\* an expired operation into a completed one, nor the other way round.
ResultIsFinal ==
    [][\A o \in Ops : done[o] # "open" => done'[o] = done[o]]_vars

\* JoinN says what the operations say: enough completed, or so many failed
\* that enough cannot.
JoinIsRight ==
    /\ joined = "ok" => Cardinality(OpsWith(Ops, "ok")) >= Needed
    /\ joined = "err" => Cardinality(OpsWith(Ops, "err")) > Cardinality(Ops) - Needed

\* Every Send comes to return, and JoinN over what was sent too, whatever
\* the service and the connections do, unless responses that came too late
\* to be read hold all connections (Send, Dial).
EverySendReturns ==
    <>[](\/ Cardinality(Unread) = MaxConns
         \/ /\ \A o \in Ops : send[o] \in {"new", "returned"}
            /\ (\A o \in Ops : send[o] = "returned") => joined # "waiting")

\* The host comes to answer every request it reads, also when its service
\* never becomes available.
EveryRequestAnswered ==
    <>[](\A r \in Reqs : handling[r] # "none" => answer[r] # "none")

=============================================================================
