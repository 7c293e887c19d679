----------------------------- MODULE DcpProofs -----------------------------
(***************************************************************************)
(* Proofs about DcpExchange: what an operation's result says of the        *)
(* service, for any number of operations, retries and connections.         *)
(***************************************************************************)
EXTENDS DcpExchange, FiniteSetTheorems, TLAPS

\* Most leaves are first-order reasoning, which Zenon does; those with arithmetic,
\* records or long formulas name SMT.
USE Zenon

\* Every request an operation issues is paid for with a retry.
Issued ==
    \A o \in Ops :
        /\ attempt[o] \notin {"none", "res"} => send[o] \in {"select", "cancelled"}
        /\ attempt[o] = "res" => send[o] \in {"select", "cancelled", "returned"}
        /\ send[o] = "new" => sends[o] = 0 /\ retries[o] = RetryCount[o]
        /\ send[o] \in {"loop", "delay"} =>
              retries[o] >= 0 /\ sends[o] + retries[o] = RetryCount[o]
        /\ send[o] = "select" =>
              retries[o] >= 0 /\ sends[o] + retries[o] = RetryCount[o] + 1
        /\ send[o] \in {"select", "cancelled"} => sends[o] >= 1

\* Success is said only of what a handler carried out: by the host's
\* operation, by its answer, by the client's attempt and by its operation.
HostSaysSo ==
    \A r \in Reqs :
        /\ hostOp[r] = "ok" \/ answer[r] = "ok" \/ handling[r] = "carriedOut" => r \in effects
        /\ r \in effects => handling[r] # "none"

CarriedOut(o) == \E r \in effects : r[1] = o

ClientSaysSo == \A o \in Ops : attempt[o] = "res" \/ done[o] = "ok" => CarriedOut(o)

\* A body that is unread has not been sent; one that was read was sent once.
Written(o) == {r \in Reqs : r[1] = o /\ (r \in pipe \/ handling[r] # "none")}

SentOnce ==
    \A o \in HasBody :
        /\ body[o] => Written(o) = {}
        /\ \A r, s \in Written(o) : r = s

DcpInv ==
    TypeOK /\ Issued /\ HostSaysSo /\ ClientSaysSo /\ SentOnce /\ NoLostWakeup /\ JoinIsRight

LEMMA DcpInitInv == Init => DcpInv
<1> SUFFICES ASSUME Init PROVE DcpInv
  OBVIOUS
<1> USE DEF Init, ClientInit, HostInit
<1>1. TypeOK
  <2>1. ClientTypeOK
    BY SMT, ClientAssumption DEF ClientTypeOK
  <2>2. HostTypeOK
    <3>1. stage \in StageCreated..StageAvailable
      BY SMT DEF StageCreated, StageAvailable
    <3>2. bound \in BOOLEAN
      OBVIOUS
    <3> QED  BY <3>1, <3>2 DEF HostTypeOK
  <2> QED  BY <2>1, <2>2 DEF TypeOK
<1>2. Issued
  BY ClientAssumption DEF Issued
<1>3. HostSaysSo /\ ClientSaysSo /\ SentOnce
  BY ClientAssumption DEF HostSaysSo, ClientSaysSo, SentOnce, Written
<1>4. NoLostWakeup /\ JoinIsRight
  BY DEF NoLostWakeup, JoinIsRight
<1> QED  BY <1>1, <1>2, <1>3, <1>4 DEF DcpInv

-----------------------------------------------------------------------------
\* The client.  What its steps keep while the host does not move.
LEMMA ClientStepInv ==
  ASSUME DcpInv, NEW o \in Ops, UNCHANGED hostVars,
         \/ \E created \in BOOLEAN : Send(o, created)
         \/ Step(o) \/ Register(o) \/ Timeout(o)
         \/ \E connects \in BOOLEAN : Dial(o, connects)
         \/ Break(o)
  PROVE  (ClientTypeOK /\ Issued /\ ClientSaysSo)' /\ UNCHANGED <<body, joined, collected>>
<1> USE ClientAssumption DEF DcpInv, TypeOK, ClientTypeOK, FinishOp, SendGoto, AttemptIs, At
<1>1. UNCHANGED <<body, joined, collected>>
  BY DEF Send, Step, Issue, SelectDone, AwaitRoutine, SelectResult, WaitForRetryDelay,
         Register, Timeout, Dial, Break
<1>2. ASSUME NEW created \in BOOLEAN, Send(o, created)
      PROVE  (ClientTypeOK /\ Issued /\ ClientSaysSo)'
  <2>1. ClientTypeOK'
    BY <1>2 DEF Send
  <2>2. Issued'
    BY SMT, <1>2 DEF Send, Issued
  <2>3. ClientSaysSo'
    BY SMT, <1>2 DEF Send, ClientSaysSo, CarriedOut, hostVars
  <2> QED  BY <2>1, <2>2, <2>3
<1>3. CASE Issue(o)
  <2>1. ClientTypeOK'
    BY SMT, <1>3 DEF Issue, Issued
  <2>2. Issued'
    BY SMT, <1>3 DEF Issue, Issued
  <2>3. ClientSaysSo'
    BY <1>3 DEF Issue, ClientSaysSo, CarriedOut, hostVars
  <2> QED  BY <1>1, <2>1, <2>2, <2>3
<1>4. CASE SelectDone(o)
  <2>1. ClientTypeOK'
    BY <1>4 DEF SelectDone
  <2>2. Issued'
    BY SMT, <1>4 DEF SelectDone, Issued
  <2>3. ClientSaysSo'
    BY <1>4 DEF SelectDone, ClientSaysSo, CarriedOut, hostVars
  <2> QED  BY <1>1, <2>1, <2>2, <2>3
<1>5. CASE AwaitRoutine(o)
  <2>1. ClientTypeOK'
    BY <1>5 DEF AwaitRoutine
  <2>2. Issued'
    BY SMT, <1>5 DEF AwaitRoutine, Issued
  <2>3. ClientSaysSo'
    BY <1>5 DEF AwaitRoutine, ClientSaysSo, CarriedOut, hostVars
  <2> QED  BY <1>1, <2>1, <2>2, <2>3
<1>6. CASE SelectResult(o)
  <2>1. ClientTypeOK'
    BY SMT, <1>6 DEF SelectResult
  <2>2. Issued'
    BY SMT, <1>6 DEF SelectResult, Issued
  <2>3. ClientSaysSo'
    BY SMT, <1>6 DEF SelectResult, ClientSaysSo, CarriedOut, hostVars
  <2> QED  BY <1>1, <2>1, <2>2, <2>3
<1>7. CASE WaitForRetryDelay(o)
  <2>1. ClientTypeOK'
    BY <1>7 DEF WaitForRetryDelay
  <2>2. Issued'
    BY <1>7 DEF WaitForRetryDelay, Issued
  <2>3. ClientSaysSo'
    BY <1>7 DEF WaitForRetryDelay, ClientSaysSo, CarriedOut, hostVars
  <2> QED  BY <1>1, <2>1, <2>2, <2>3
<1>8. CASE Timeout(o)
  <2>1. ClientTypeOK' /\ Issued'
    BY <1>8 DEF Timeout, Issued
  <2>2. ClientSaysSo'
    BY <1>8 DEF Timeout, ClientSaysSo, CarriedOut, hostVars
  <2> QED  BY <1>1, <2>1, <2>2
<1>9. CASE Register(o) \/ Break(o) \/ \E connects \in BOOLEAN : Dial(o, connects)
  <2>1. ClientTypeOK' /\ Issued'
    BY SMT, <1>9 DEF Register, Break, Dial, Issued
  <2>2. ClientSaysSo'
    BY SMT, <1>9 DEF Register, Break, Dial, ClientSaysSo, CarriedOut, hostVars
  <2> QED  BY <1>1, <2>1, <2>2
<1> QED  BY <1>1, <1>2, <1>3, <1>4, <1>5, <1>6, <1>7, <1>8, <1>9 DEF Step

-----------------------------------------------------------------------------
\* The requests of an operation are requests the host knows.
LEMMA CurrentIsRequest ==
  ASSUME DcpInv, NEW o \in Ops, sends[o] >= 1
  PROVE  Current(o) \in Reqs /\ Current(o)[1] = o
<1>1. sends[o] \in 1..(RetryCount[o] + 1)
  BY SMT, ClientAssumption DEF DcpInv, TypeOK, ClientTypeOK
<1> QED  BY SMT, <1>1, ExchangeAssumption DEF Current

LEMMA WriteInv ==
  ASSUME DcpInv, NEW o \in Ops, WriteRequest(o)
  PROVE  (ClientTypeOK /\ Issued /\ ClientSaysSo /\ pipe \subseteq Reqs /\ SentOnce)'
<1> USE ClientAssumption DEF DcpInv, TypeOK, ClientTypeOK, AttemptIs, WriteRequest, Write
<1>1. ClientTypeOK' /\ Issued'
  <2>1. attempt' \in [Ops -> {"none", "go", "dial", "write", "sent", "res", "err", "neterr"}]
    BY SMT
  <2>2. body' \in [Ops -> BOOLEAN]
    OBVIOUS
  <2>3. ClientTypeOK'
    BY <2>1, <2>2
  <2>4. Issued'
    BY SMT DEF Issued
  <2> QED  BY <2>3, <2>4
<1>2. ClientSaysSo'
  BY SMT DEF ClientSaysSo, CarriedOut, hostVars
<1>3. Current(o) \in Reqs /\ Current(o)[1] = o
  BY CurrentIsRequest DEF Issued
<1>4. (pipe \subseteq Reqs)'
  BY <1>3
<1>5. ASSUME NEW p \in HasBody
      PROVE  (body'[p] => Written(p)' = {}) /\ \A r, s \in Written(p)' : r = s
  <2>1. handling' = handling
    BY DEF hostVars
  <2>2. CASE o = p /\ body[o]
    <3>1. Written(o) = {}
      BY <2>2, <1>5 DEF SentOnce
    <3>2. pipe' = pipe \cup {Current(o)} /\ ~body'[o]
      BY <2>2
    <3> QED  BY <2>1, <2>2, <3>1, <3>2 DEF Written
  <2>3. CASE o = p /\ ~body[o]
    <3>1. pipe' = pipe /\ body' = body
      BY <1>5, <2>3
    <3> QED  BY SMT, <2>1, <3>1, <1>5 DEF Written, SentOnce
  <2>4. CASE o # p
    <3>1. body'[p] = body[p]
      BY <2>4, <1>5
    <3>2. Written(p)' = Written(p)
      BY <2>1, <2>4, <1>3 DEF Written
    <3> QED  BY SMT, <3>1, <3>2, <1>5 DEF SentOnce
  <2> QED  BY <2>2, <2>3, <2>4
<1>6. SentOnce'
  BY <1>5 DEF SentOnce
<1> QED  BY <1>1, <1>2, <1>4, <1>6

\* A response is success only if the host's answer is.
LEMMA ReadResponseInv ==
  ASSUME DcpInv, NEW o \in Ops, ReadResponse(o)
  PROVE  (ClientTypeOK /\ Issued /\ ClientSaysSo)' /\ UNCHANGED <<body, joined, collected>>
<1> USE ClientAssumption DEF DcpInv, TypeOK, ClientTypeOK, AttemptIs, ReadResponse, Respond
<1>1. ClientTypeOK' /\ Issued'
  BY SMT DEF Issued
<1>2. answer[Current(o)] = "ok" => CarriedOut(o)
  BY CurrentIsRequest DEF HostSaysSo, CarriedOut, Issued
<1>3. ClientSaysSo'
  BY <1>2 DEF ClientSaysSo, CarriedOut, hostVars
<1> QED  BY <1>1, <1>3

\* What was not written and not read by the host anew keeps the bodies right.
LEMMA SentOnceKept ==
  ASSUME DcpInv, body' = body,
         \A r \in Reqs : r \in pipe' \/ handling'[r] # "none" => r \in pipe \/ handling[r] # "none"
  PROVE  SentOnce'
<1>1. ASSUME NEW o \in HasBody PROVE Written(o)' \subseteq Written(o)
  BY DEF Written
<1> QED  BY <1>1 DEF SentOnce, DcpInv

-----------------------------------------------------------------------------
\* The host.  What the steps of a request keep while the client and the pipe
\* do not move.
LEMMA FinishRequestType ==
  ASSUME HostTypeOK, NEW r \in Reqs, NEW result \in {"ok", "notFound", "err"},
         FinishRequest(r, result)
  PROVE  /\ hostOp' \in [Reqs -> {"open", "ok", "notFound", "err"}]
         /\ \A s \in Reqs : hostOp'[s] = "ok" => hostOp[s] = "ok" \/ (s = r /\ result = "ok")
BY DEF HostTypeOK, FinishRequest

LEMMA HandleRequestInv ==
  ASSUME DcpInv, NEW r \in Reqs, HandleRequest(r) \/ Expire(r) \/ Answer(r)
  PROVE  /\ (HostTypeOK /\ HostSaysSo /\ NoLostWakeup)'
         /\ effects \subseteq effects'
         /\ \A s \in Reqs : handling'[s] # "none" => handling[s] # "none"
<1> USE DEF DcpInv, TypeOK, Goto
<1>0. StageAvailable = 4 /\ StageCreated = 1
  BY DEF StageAvailable, StageCreated
<1>1. CASE Lookup(r)
  <2>1. /\ hostOp' \in [Reqs -> {"open", "ok", "notFound", "err"}]
        /\ \A s \in Reqs : hostOp'[s] = "ok" => hostOp[s] = "ok"
    BY <1>1, FinishRequestType DEF Lookup, HostTypeOK
  <2>2. HostTypeOK'
    BY <1>1, <2>1 DEF Lookup, HostTypeOK
  <2>3. HostSaysSo' /\ \A s \in Reqs : handling'[s] # "none" => handling[s] # "none"
    BY SMT, <1>1, <2>1 DEF Lookup, HostSaysSo, HostTypeOK
  <2> QED  BY <1>1, <2>2, <2>3 DEF Lookup, NoLostWakeup
<1>2. CASE StageBarrier(r)
  <2>1. HostTypeOK'
    BY <1>2 DEF StageBarrier, HostTypeOK
  <2>2. HostSaysSo' /\ \A s \in Reqs : handling'[s] # "none" => handling[s] # "none"
    BY <1>2 DEF StageBarrier, HostSaysSo, HostTypeOK
  <2>3. NoLostWakeup'
    BY SMT, <1>0, <1>2 DEF StageBarrier, NoLostWakeup, HostTypeOK
  <2> QED  BY <1>2, <2>1, <2>2, <2>3 DEF StageBarrier
<1>3. CASE Wake(r)
  <2>1. HostTypeOK'
    BY <1>3 DEF Wake, HostTypeOK
  <2>2. HostSaysSo' /\ \A s \in Reqs : handling'[s] # "none" => handling[s] # "none"
    BY <1>3 DEF Wake, HostSaysSo, HostTypeOK
  <2> QED  BY <1>3, <2>1, <2>2 DEF Wake, NoLostWakeup
<1>4. CASE Refuse(r)
  <2>1. /\ hostOp' \in [Reqs -> {"open", "ok", "notFound", "err"}]
        /\ \A s \in Reqs : hostOp'[s] = "ok" => hostOp[s] = "ok"
    BY <1>4, FinishRequestType DEF Refuse
  <2>2. HostTypeOK'
    BY <1>4, <2>1 DEF Refuse, HostTypeOK
  <2>3. HostSaysSo' /\ \A s \in Reqs : handling'[s] # "none" => handling[s] # "none"
    BY <1>4, <2>1 DEF Refuse, HostSaysSo, HostTypeOK
  <2> QED  BY <1>4, <2>2, <2>3 DEF Refuse, NoLostWakeup
<1>5. CASE CarryOut(r)
  <2>1. HostTypeOK'
    BY <1>5 DEF CarryOut, HostTypeOK
  <2>2. HostSaysSo' /\ \A s \in Reqs : handling'[s] # "none" => handling[s] # "none"
    BY <1>5 DEF CarryOut, HostSaysSo, HostTypeOK
  <2> QED  BY <1>5, <2>1, <2>2 DEF CarryOut, NoLostWakeup
<1>6. CASE Complete(r)
  <2>1. /\ hostOp' \in [Reqs -> {"open", "ok", "notFound", "err"}]
        /\ \A s \in Reqs : hostOp'[s] = "ok" => hostOp[s] = "ok" \/ s = r
    BY <1>6, FinishRequestType DEF Complete
  <2>2. HostTypeOK'
    BY <1>6, <2>1 DEF Complete, HostTypeOK
  <2>3. HostSaysSo' /\ \A s \in Reqs : handling'[s] # "none" => handling[s] # "none"
    BY <1>6, <2>1 DEF Complete, HostSaysSo, HostTypeOK
  <2> QED  BY <1>6, <2>2, <2>3 DEF Complete, NoLostWakeup
<1>7. CASE Expire(r)
  <2>1. /\ hostOp' \in [Reqs -> {"open", "ok", "notFound", "err"}]
        /\ \A s \in Reqs : hostOp'[s] = "ok" => hostOp[s] = "ok"
    BY <1>7, FinishRequestType DEF Expire
  <2> QED  BY <1>7, <2>1 DEF Expire, HostTypeOK, HostSaysSo, NoLostWakeup
<1>8. CASE Answer(r)
  <2>1. HostTypeOK'
    BY <1>8 DEF Answer, HostTypeOK
  <2>2. HostSaysSo'
    BY <1>8 DEF Answer, HostSaysSo, HostTypeOK
  <2> QED  BY <1>8, <2>1, <2>2 DEF Answer, NoLostWakeup
<1> QED  BY <1>1, <1>2, <1>3, <1>4, <1>5, <1>6, <1>7, <1>8 DEF HandleRequest

LEMMA ReadRequestInv ==
  ASSUME DcpInv, NEW r \in Reqs, ReadRequest(r)
  PROVE  /\ (HostTypeOK /\ HostSaysSo /\ NoLostWakeup /\ pipe \subseteq Reqs)'
         /\ effects' = effects
         /\ \A s \in Reqs :
               s \in pipe' \/ handling'[s] # "none" => s \in pipe \/ handling[s] # "none"
<1> USE DEF DcpInv, TypeOK, ReadRequest, Accept, Goto
<1>1. HostTypeOK' /\ (pipe \subseteq Reqs)'
  BY DEF HostTypeOK
<1>2. HostSaysSo'
  BY DEF HostTypeOK, HostSaysSo
<1> QED  BY SMT, <1>1, <1>2 DEF HostTypeOK, NoLostWakeup

LEMMA HostStartsInv ==
  ASSUME DcpInv, Bind \/ HostStarts
  PROVE  (HostTypeOK /\ HostSaysSo /\ NoLostWakeup)' /\ UNCHANGED <<handling, effects>>
<1> USE DEF DcpInv, TypeOK, Bind, HostStarts, StartService, Initialize, HandleStart,
            MakeAvailable, SetStage, StageCreated, StageInitialized, StageStarted, StageAvailable
<1>1. HostTypeOK'
  <2>1. bound' \in BOOLEAN
    BY DEF HostTypeOK
  <2>2. stage' \in 1..4
    BY SMT DEF HostTypeOK
  <2>3. /\ starting' \in {"no", "bound", "handleStart", "started", "done", "failed"}
        /\ (barrier \subseteq Reqs)'
        /\ UNCHANGED <<handling, hostOp, answer, effects>>
    BY DEF HostTypeOK
  <2> QED  BY <2>1, <2>2, <2>3 DEF HostTypeOK
<1>2. NoLostWakeup'
  BY SMT DEF HostTypeOK, NoLostWakeup
<1>3. HostSaysSo' /\ UNCHANGED <<handling, effects>>
  BY DEF HostSaysSo
<1> QED  BY <1>1, <1>2, <1>3

-----------------------------------------------------------------------------
\* Complete and Fail settle an operation once, whoever calls them.
LEMMA FinalStep ==
  ASSUME DcpInv, [Next]_vars, NEW o \in Ops, done[o] # "open"
  PROVE  done'[o] = done[o]
<1>1. ASSUME NEW p \in Ops, ClientRuns(p) \/ ConnectionBreaks(p) PROVE done'[o] = done[o]
  BY <1>1 DEF DcpInv, TypeOK, ClientTypeOK, ClientRuns, ConnectionBreaks, ClientStep, OpExpires,
     WriteRequest, ReadResponse, Join, Send, Step, Issue, SelectDone, AwaitRoutine, SelectResult,
     WaitForRetryDelay, Register, Dial, Timeout, Write, Break, Respond, JoinN, FinishOp
<1>2. ASSUME Bind \/ HostStarts \/ \E r \in Reqs : HostRuns(r) PROVE done' = done
  BY <1>2 DEF Bind, HostStarts, HostRuns, ReadRequest, HostStep, HostExpires, HostAnswers,
     clientVars
<1>3. CASE UNCHANGED vars
  BY <1>3 DEF vars, clientVars
<1> QED  BY <1>1, <1>2, <1>3 DEF Next

\* The operations that are settled stay so, and their number grows.
LEMMA SettledGrow ==
  ASSUME DcpInv, [Next]_vars, NEW result \in {"ok", "err"}
  PROVE  /\ Cardinality(OpsWith(Ops, result)) \in Nat /\ Cardinality(OpsWith(Ops, result)') \in Nat
         /\ Cardinality(OpsWith(Ops, result)) <= Cardinality(OpsWith(Ops, result)')
<1>1. OpsWith(Ops, result) \subseteq OpsWith(Ops, result)'
  BY FinalStep DEF OpsWith
<1>2. OpsWith(Ops, result)' \subseteq Ops /\ IsFiniteSet(Ops)
  BY ClientAssumption DEF OpsWith
<1>3. IsFiniteSet(OpsWith(Ops, result)')
  BY <1>2, FS_Subset
<1> QED  BY <1>1, <1>3, FS_Subset, FS_CardinalityType

\* What JoinN collected is part of what there is.
LEMMA CollectedBound ==
  ASSUME DcpInv, NEW S \in SUBSET Ops, NEW result \in {"ok", "err"}
  PROVE  /\ Cardinality(OpsWith(S, result)) \in Nat
         /\ Cardinality(OpsWith(S, result)) <= Cardinality(OpsWith(Ops, result))
         /\ Cardinality(OpsWith(Ops, result)) \in Nat
<1>1. OpsWith(S, result) \subseteq OpsWith(Ops, result) /\ OpsWith(Ops, result) \subseteq Ops
  BY DEF OpsWith
<1>2. IsFiniteSet(OpsWith(Ops, result))
  BY <1>1, ClientAssumption, FS_Subset
<1> QED  BY <1>1, <1>2, FS_Subset, FS_CardinalityType

LEMMA JoinInv ==
  ASSUME DcpInv, NEW o \in Ops, Join(o)
  PROVE  (ClientTypeOK /\ JoinIsRight)' /\ UNCHANGED <<send, done, retries, sends, body, attempt>>
<1> DEFINE S == collected \cup {o}
<1>1. /\ S \subseteq Ops /\ collected' = S /\ done' = done
      /\ UNCHANGED <<send, retries, sends, body, attempt>>
  BY DEF DcpInv, TypeOK, ClientTypeOK, Join, JoinN
<1>2. OpsWith(collected', "ok") = OpsWith(S, "ok") /\ OpsWith(collected', "err") = OpsWith(S, "err")
  BY <1>1
<1>3. joined' = IF Cardinality(OpsWith(S, "ok")) = Needed THEN "ok"
                ELSE IF Cardinality(OpsWith(S, "err")) > Cardinality(Ops) - Needed
                THEN "err" ELSE "waiting"
  BY <1>2 DEF Join, JoinN
<1>4. OpsWith(Ops, "ok")' = OpsWith(Ops, "ok") /\ OpsWith(Ops, "err")' = OpsWith(Ops, "err")
  BY <1>1 DEF OpsWith
<1>5. Needed \in Nat /\ Cardinality(Ops) \in Nat
  BY SMT, ClientAssumption, FS_CardinalityType
<1> HIDE DEF S
<1>6. /\ Cardinality(OpsWith(S, "ok")) <= Cardinality(OpsWith(Ops, "ok"))
      /\ Cardinality(OpsWith(S, "ok")) \in Nat /\ Cardinality(OpsWith(Ops, "ok")) \in Nat
      /\ Cardinality(OpsWith(S, "err")) <= Cardinality(OpsWith(Ops, "err"))
      /\ Cardinality(OpsWith(S, "err")) \in Nat /\ Cardinality(OpsWith(Ops, "err")) \in Nat
  BY <1>1, CollectedBound
<1>7. JoinIsRight'
  BY SMT, <1>3, <1>4, <1>5, <1>6 DEF JoinIsRight
<1>8. ClientTypeOK'
  BY <1>1, <1>3 DEF DcpInv, TypeOK, ClientTypeOK
<1> QED  BY <1>1, <1>7, <1>8

LEMMA JoinKept ==
  ASSUME DcpInv, [Next]_vars, joined' = joined
  PROVE  JoinIsRight'
<1>1. Needed \in Nat /\ Cardinality(Ops) \in Nat
  BY SMT, ClientAssumption, FS_CardinalityType
<1> QED  BY SMT, <1>1, SettledGrow DEF DcpInv, JoinIsRight

-----------------------------------------------------------------------------
LEMMA DcpNextInv ==
  ASSUME DcpInv, [Next]_vars
  PROVE  DcpInv'
<1>1. ASSUME NEW o \in Ops, ClientStep(o) \/ OpExpires(o) \/ ConnectionBreaks(o) PROVE DcpInv'
  <2>1. UNCHANGED hostVars /\ pipe' \subseteq pipe
    BY <1>1 DEF ClientStep, OpExpires, ConnectionBreaks
  <2>2. (ClientTypeOK /\ Issued /\ ClientSaysSo)' /\ UNCHANGED <<body, joined, collected>>
    BY <1>1, <2>1, ClientStepInv DEF ClientStep, OpExpires, ConnectionBreaks
  <2>3. SentOnce'
    BY <2>1, <2>2, SentOnceKept DEF hostVars
  <2>4. JoinIsRight'
    BY <2>2, JoinKept
  <2>5. (HostTypeOK /\ HostSaysSo /\ NoLostWakeup /\ pipe \subseteq Reqs)'
    BY <2>1 DEF DcpInv, TypeOK, hostVars, HostTypeOK, HostSaysSo, NoLostWakeup
  <2> QED  BY <2>2, <2>3, <2>4, <2>5 DEF DcpInv, TypeOK
<1>2. ASSUME NEW o \in Ops, WriteRequest(o) PROVE DcpInv'
  <2>1. UNCHANGED <<hostVars, joined>>
    BY <1>2 DEF WriteRequest, Write
  <2>2. JoinIsRight'
    BY <2>1, JoinKept
  <2>3. (HostTypeOK /\ HostSaysSo /\ NoLostWakeup)'
    BY <2>1 DEF DcpInv, TypeOK, hostVars, HostTypeOK, HostSaysSo, NoLostWakeup
  <2> QED  BY <1>2, <2>2, <2>3, WriteInv DEF DcpInv, TypeOK
<1>3. ASSUME NEW o \in Ops, ReadResponse(o) PROVE DcpInv'
  <2>1. UNCHANGED <<hostVars, pipe>>
    BY <1>3 DEF ReadResponse
  <2>2. (ClientTypeOK /\ Issued /\ ClientSaysSo)' /\ UNCHANGED <<body, joined, collected>>
    BY <1>3, ReadResponseInv
  <2>3. SentOnce'
    BY <2>1, <2>2, SentOnceKept DEF hostVars
  <2>4. JoinIsRight'
    BY <2>2, JoinKept
  <2>5. (HostTypeOK /\ HostSaysSo /\ NoLostWakeup /\ pipe \subseteq Reqs)'
    BY <2>1 DEF DcpInv, TypeOK, hostVars, HostTypeOK, HostSaysSo, NoLostWakeup
  <2> QED  BY <2>2, <2>3, <2>4, <2>5 DEF DcpInv, TypeOK
<1>4. ASSUME NEW o \in Ops, Join(o) PROVE DcpInv'
  <2>1. UNCHANGED <<hostVars, pipe>>
    BY <1>4 DEF Join
  <2>2. (ClientTypeOK /\ JoinIsRight)' /\ UNCHANGED <<send, done, retries, sends, body, attempt>>
    BY <1>4, JoinInv
  <2>3. SentOnce'
    BY <2>1, <2>2, SentOnceKept DEF hostVars
  <2>4. Issued' /\ ClientSaysSo'
    BY <2>1, <2>2 DEF DcpInv, Issued, ClientSaysSo, CarriedOut, hostVars
  <2>5. (HostTypeOK /\ HostSaysSo /\ NoLostWakeup /\ pipe \subseteq Reqs)'
    BY <2>1 DEF DcpInv, TypeOK, hostVars, HostTypeOK, HostSaysSo, NoLostWakeup
  <2> QED  BY <2>2, <2>3, <2>4, <2>5 DEF DcpInv, TypeOK
<1>5. ASSUME UNCHANGED clientVars,
             (HostTypeOK /\ HostSaysSo /\ NoLostWakeup /\ pipe \subseteq Reqs)',
             effects \subseteq effects',
             \A s \in Reqs :
                 s \in pipe' \/ handling'[s] # "none" => s \in pipe \/ handling[s] # "none"
      PROVE  DcpInv'
  <2>1. ClientTypeOK' /\ Issued' /\ ClientSaysSo'
    BY <1>5 DEF DcpInv, TypeOK, ClientTypeOK, Issued, ClientSaysSo, CarriedOut, clientVars
  <2>2. SentOnce'
    BY <1>5, SentOnceKept DEF clientVars
  <2>3. JoinIsRight'
    BY <1>5, JoinKept DEF clientVars
  <2> QED  BY <1>5, <2>1, <2>2, <2>3 DEF DcpInv, TypeOK
<1>6. ASSUME Bind \/ HostStarts PROVE DcpInv'
  <2>1. UNCHANGED <<clientVars, pipe>>
    BY <1>6 DEF Bind, HostStarts
  <2> QED  BY <1>5, <1>6, <2>1, HostStartsInv DEF DcpInv, TypeOK
<1>7. ASSUME NEW r \in Reqs, HostRuns(r) PROVE DcpInv'
  <2>1. CASE ReadRequest(r)
    <3>1. UNCHANGED clientVars
      BY <2>1 DEF ReadRequest
    <3> QED  BY <1>5, <2>1, <3>1, ReadRequestInv
  <2>2. CASE HostStep(r) \/ HostExpires(r) \/ HostAnswers(r)
    <3>1. UNCHANGED <<clientVars, pipe>> /\ (HandleRequest(r) \/ Expire(r) \/ Answer(r))
      BY <2>2 DEF HostStep, HostExpires, HostAnswers
    <3> QED  BY <1>5, <3>1, HandleRequestInv DEF DcpInv, TypeOK
  <2> QED  BY <1>7, <2>1, <2>2 DEF HostRuns
<1>8. CASE UNCHANGED vars
  <2>1. UNCHANGED <<clientVars, hostVars, pipe>>
    BY <1>8 DEF vars
  <2>2. (HostTypeOK /\ HostSaysSo /\ NoLostWakeup /\ pipe \subseteq Reqs)'
    BY <2>1 DEF DcpInv, TypeOK, hostVars, HostTypeOK, HostSaysSo, NoLostWakeup
  <2> QED  BY <1>5, <2>1, <2>2 DEF hostVars
<1> QED  BY <1>1, <1>2, <1>3, <1>4, <1>6, <1>7, <1>8 DEF Next, ClientRuns

LEMMA DcpInvariant == Spec => []DcpInv
<1>1. DcpInv /\ [Next]_vars => DcpInv'
  BY DcpNextInv
<1> QED  BY <1>1, DcpInitInv, PTL DEF Spec

-----------------------------------------------------------------------------
\* No request waits for a stage that has been reached (StageBarrier,
\* SetStage), for any number of requests.
THEOREM NoWakeupIsLost == Spec => []NoLostWakeup
<1>1. DcpInv => NoLostWakeup
  BY DEF DcpInv
<1> QED  BY <1>1, DcpInvariant, PTL

\* An operation that completed was carried out by a handler (Send, ServeHTTP),
\* for any number of operations, retries and connections.
THEOREM CompletionIsHonest == Spec => []CompletedWasCarriedOut
<1>1. DcpInv => CompletedWasCarriedOut
  BY DEF DcpInv, ClientSaysSo, CarriedOut, CompletedWasCarriedOut
<1> QED  BY <1>1, DcpInvariant, PTL

\* An operation with a body is carried out once at most, however often Send
\* tries again.
THEOREM BodiesAreCarriedOutOnce == Spec => []BodyCarriedOutOnce
<1>1. ASSUME DcpInv, NEW o \in HasBody PROVE Cardinality({r \in effects : r[1] = o}) <= 1
  <2> DEFINE E == {r \in effects : r[1] = o}
  <2>1. \A r, s \in E : r = s
    BY SMT, <1>1 DEF DcpInv, TypeOK, HostTypeOK, HostSaysSo, SentOnce, Written
  <2>2. CASE E = {}
    BY SMT, <2>2, FS_EmptySet
  <2>3. CASE E # {}
    <3>1. PICK r \in E : TRUE
      BY <2>3
    <3>2. E = {r}
      BY <2>1, <3>1
    <3> HIDE DEF E
    <3>3. Cardinality(E) = 1
      BY <3>2, FS_Singleton
    <3> QED  BY SMT, <3>3 DEF E
  <2> QED  BY <2>2, <2>3
<1>2. DcpInv => BodyCarriedOutOnce
  BY <1>1 DEF BodyCarriedOutOnce
<1> QED  BY <1>2, DcpInvariant, PTL

\* JoinN returns what its operations returned, for every n and any number of
\* operations.
THEOREM JoinsAreRight == Spec => []JoinIsRight
<1>1. DcpInv => JoinIsRight
  BY DEF DcpInv
<1> QED  BY <1>1, DcpInvariant, PTL

\* The result of an operation is final (the sync.Once of Complete and Fail).
THEOREM ResultsAreFinal == Spec => ResultIsFinal
<1>1. DcpInv /\ [Next]_vars => [\A o \in Ops : done[o] # "open" => done'[o] = done[o]]_vars
  BY FinalStep
<1> QED  BY <1>1, DcpInvariant, PTL DEF Spec, ResultIsFinal

=============================================================================
