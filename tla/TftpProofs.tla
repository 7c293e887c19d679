----------------------------- MODULE TftpProofs -----------------------------
(***************************************************************************)
(* Proofs about TftpServer.  First, how the receiving loop and the         *)
(* routines of the peers share the table of channels.  Then the types.     *)
(* Then that client and server stay in step and a file arrives whole: the  *)
(* inductive invariant relates every packet, in the network, in a channel  *)
(* or in the loop's hands, to the client's progress when it was sent, and  *)
(* bounds how far behind the client it can be; within that bound block     *)
(* numbers tell blocks apart.                                              *)
(***************************************************************************)
EXTENDS TftpServer, TLAPS

\* Most leaves are first-order reasoning, which Zenon does; those with arithmetic,
\* records or long formulas name SMT.
USE Zenon

\* What the table, the channels and the routines are made of; the packets
\* themselves do not matter here.
Shape ==
    /\ table \subseteq Peers
    /\ chan = [p \in Peers |-> chan[p]]
    /\ session = [p \in Peers |-> session[p]]
    /\ \A p \in Peers :
         session[p] = [pc |-> session[p].pc, req |-> session[p].req,
                       blk |-> session[p].blk, sends |-> session[p].sends]
    /\ posting # NoPacket => posting.peer \in Peers

TableInv == Shape /\ NoPacketStranded

LEMMA TftpInitInv == Init => TableInv
BY SMT DEF Init, TableInv, Shape, NoPacketStranded, Idle

\* The loop: a peer without a routine gets one before its packet is posted.
LEMMA ReceiveInv ==
  ASSUME TableInv, NEW p \in Peers, Receive(p) PROVE TableInv'
<1>1. PICK k \in toServer[p] : posting' = [peer |-> p, packet |-> k]
  BY DEF Receive
<1>2. /\ table' = table \cup {p}
      /\ \/ p \in table /\ UNCHANGED <<chan, session>>
         \/ /\ p \notin table
            /\ chan' = [chan EXCEPT ![p] = <<>>]
            /\ session' = [session EXCEPT ![p] = [Idle EXCEPT !.pc = "serve"]]
  BY DEF Receive
<1>3. Shape'
  BY SMT, <1>1, <1>2 DEF TableInv, Shape, Idle
<1>4. NoPacketStranded'
  BY SMT, <1>1, <1>2 DEF TableInv, Shape, NoPacketStranded, Idle
<1> QED  BY <1>3, <1>4 DEF TableInv

LEMMA PostInv ==
  ASSUME TableInv, Post PROVE TableInv'
<1>1. Shape'
  BY DEF TableInv, Shape, Post
<1>2. NoPacketStranded'
  BY DEF TableInv, Shape, NoPacketStranded, Post
<1> QED  BY <1>1, <1>2 DEF TableInv

\* A routine that reads, sends or returns stays in the table, and at most
\* takes a packet from its channel.
LEMMA RunningInv ==
  ASSUME TableInv, NEW p \in Peers, NEW s,
         s = [pc |-> s.pc, req |-> s.req, blk |-> s.blk, sends |-> s.sends],
         session[p].pc # "none", s.pc # "none",
         session' = [session EXCEPT ![p] = s],
         chan' = chan \/ \E q : chan' = [chan EXCEPT ![p] = q],
         UNCHANGED <<posting, table>>
  PROVE  TableInv'
<1>1. Shape'
  BY DEF TableInv, Shape
<1>2. NoPacketStranded'
  BY DEF TableInv, Shape, NoPacketStranded
<1> QED  BY <1>1, <1>2 DEF TableInv

LEMMA LeaveInv ==
  ASSUME TableInv, NEW p \in Peers, Leave(p) PROVE TableInv'
<1>1. Shape'
  BY SMT DEF TableInv, Shape, Leave, Idle
<1>2. NoPacketStranded'
  BY SMT DEF TableInv, Shape, NoPacketStranded, Leave, Idle
<1> QED  BY <1>1, <1>2 DEF TableInv

\* What becomes of the routine of p when it sends a block or gives up.
Moves(p) ==
    \E s : /\ s = [pc |-> s.pc, req |-> s.req, blk |-> s.blk, sends |-> s.sends]
           /\ s.pc # "none" /\ session' = [session EXCEPT ![p] = s]

LEMMA ReturnMoves ==
  ASSUME NEW p \in Peers, Return(p) PROVE Moves(p)
<1> DEFINE s == [pc |-> "returned", req |-> 0, blk |-> 0, sends |-> 0]
<1>1. [Idle EXCEPT !.pc = "returned"] = s
  BY SMT DEF Idle
<1>2. session' = [session EXCEPT ![p] = s]
  BY <1>1 DEF Return
<1> QED  BY <1>2 DEF Moves

LEMMA SendBlockMoves ==
  ASSUME NEW p \in Peers, NEW r, NEW b, SendBlock(p, r, b) PROVE Moves(p)
<1> DEFINE s == [pc |-> "wait", req |-> r, blk |-> b, sends |-> 1]
<1>1. CASE session' = [session EXCEPT ![p] = s]
  BY <1>1 DEF Moves
<1>2. CASE Return(p)
  BY <1>2, ReturnMoves
<1> QED  BY <1>1, <1>2 DEF SendBlock

LEMMA RoutineInv ==
  ASSUME TableInv, NEW p \in Peers, Routine(p) PROVE TableInv'
<1>1. CASE serve(p) \/ serveTimeout(p)
  <2>1. Moves(p)
    BY <1>1, ReturnMoves, SendBlockMoves DEF serve, serveTimeout, serveRRQ
  <2> QED  BY <1>1, <2>1, RunningInv DEF serve, serveTimeout, Moves
<1>2. CASE ReadReply(p)
  <2>1. Moves(p) \/ UNCHANGED session
    BY <1>2, ReturnMoves, SendBlockMoves DEF ReadReply
  <2>2. CASE Moves(p)
    BY <1>2, <2>2, RunningInv DEF ReadReply, Moves
  <2>3. CASE UNCHANGED session
    <3>1. session' = [session EXCEPT ![p] = session[p]]
      BY <2>3 DEF TableInv, Shape
    <3> QED  BY <1>2, <3>1, RunningInv DEF ReadReply, TableInv, Shape
  <2> QED  BY <2>1, <2>2, <2>3
<1>3. CASE ReplyTimeout(p)
  <2>1. Moves(p)
    <3>1. CASE session' = [session EXCEPT ![p].sends = @ + 1]
      <4> DEFINE s == [pc |-> "wait", req |-> session[p].req, blk |-> session[p].blk,
                       sends |-> session[p].sends + 1]
      <4>1. session[p] = [pc |-> "wait", req |-> session[p].req,
                          blk |-> session[p].blk, sends |-> session[p].sends]
        BY <1>3 DEF ReplyTimeout, TableInv, Shape
      <4>2. [session[p] EXCEPT !.sends = @ + 1] = s
        BY SMT, <4>1
      <4>3. session' = [session EXCEPT ![p] = [session[p] EXCEPT !.sends = @ + 1]]
        BY <3>1
      <4>4. session' = [session EXCEPT ![p] = s]
        BY <4>2, <4>3
      <4> QED  BY <4>4 DEF Moves
    <3>2. CASE Return(p)
      BY <3>2, ReturnMoves
    <3> QED  BY <1>3, <3>1, <3>2 DEF ReplyTimeout
  <2> QED  BY <1>3, <2>1, RunningInv DEF ReplyTimeout, Moves
<1>4. CASE Leave(p)
  BY <1>4, LeaveInv
<1> QED  BY <1>1, <1>2, <1>3, <1>4 DEF Routine

LEMMA TftpNextInv == TableInv /\ [Next]_vars => TableInv'
<1> SUFFICES ASSUME TableInv, [Next]_vars PROVE TableInv'
  OBVIOUS
<1>1. CASE UNCHANGED server
  BY <1>1 DEF server, TableInv, Shape, NoPacketStranded
<1>2. ASSUME NEW p \in Peers, Client(p) \/ Lose(p) PROVE UNCHANGED server
  BY <1>2 DEF Client, Request, ReceiveDATA, ReceiveOther, Repeat, Lose
<1>3. UNCHANGED vars => UNCHANGED server
  BY DEF vars, server
<1> QED  BY <1>1, <1>2, <1>3, ReceiveInv, PostInv, RoutineInv DEF Next

\* However the loop and the routines interleave, no packet the loop accepted
\* is left in a channel that nobody reads, and no peer has two routines; for
\* any number of peers and any capacity of the channels.
THEOREM NothingIsStranded == Spec => []NoPacketStranded
<1>1. TableInv => NoPacketStranded
  BY DEF TableInv
<1> QED  BY TftpInitInv, TftpNextInv, <1>1, PTL DEF Spec

-----------------------------------------------------------------------------
\* The types of the state.  A client that waits has made a request and sent a
\* packet, and a routine that waits serves a request.

AtWork ==
    \A p \in Peers :
        /\ client[p].pc # "idle" => client[p].req >= 1
        /\ client[p].pc = "waiting" => client[p].last \in ClientPackets
        /\ session[p].pc = "wait" => session[p].req >= 1

TypeInv == TypeOK /\ AtWork

LEMMA PacketAt ==
  ASSUME NEW k \in ClientPackets, NEW now \in Nat
  PROVE  /\ [k EXCEPT !.at = now] \in ClientPackets
         /\ [k EXCEPT !.at = now].at = now
         /\ [k EXCEPT !.at = now].type = k.type
         /\ k.type = "RRQ" => [k EXCEPT !.at = now].req = k.req
         /\ k.type = "ACK" => [k EXCEPT !.at = now].nr = k.nr
<1>1. CASE k \in RRQs
  BY <1>1 DEF ClientPackets, Requests, RRQs
<1>2. CASE k \in WRQs
  BY <1>2 DEF ClientPackets, Requests, WRQs
<1>3. CASE k \in BadPackets
  BY <1>3 DEF ClientPackets, Requests, BadPackets
<1>4. CASE k \in ACKs
  BY <1>4 DEF ClientPackets, ACKs
<1> QED  BY <1>1, <1>2, <1>3, <1>4 DEF ClientPackets, Requests

LEMMA ClientPacketFields ==
  ASSUME NEW k \in ClientPackets
  PROVE  /\ k.at \in Nat
         /\ k.type \in {"RRQ", "WRQ", "bad", "ACK"}
         /\ k.type = "RRQ" => k.req \in 1..MaxRequests /\ k.options \in BOOLEAN
         /\ k.type = "ACK" => k.nr \in 0..Modulus-1 /\ k.data \in Data
BY DEF ClientPackets, Requests, RRQs, WRQs, BadPackets, ACKs

LEMMA ServerPacketFields ==
  ASSUME NEW k \in ServerPackets
  PROVE  /\ k.at \in Nat
         /\ k.type \in {"DATA", "OACK", "ERROR"}
         /\ k.type = "DATA" => k.nr \in 0..Modulus-1 /\ k.data \in Data
BY DEF ServerPackets, DATAs, OACKs, ERRORs

LEMMA ProgressType ==
  ASSUME NEW c, c.req \in Nat, c.got \in Seq(Data) PROVE Progress(c) \in Nat
<1>1. Blocks + 1 \in Nat /\ Len(c.got) \in Nat
  BY SMT, TftpAssumption
<1>2. c.req * (Blocks + 1) \in Nat
  BY SMT, <1>1
<1> QED  BY SMT, <1>1, <1>2 DEF Progress

LEMMA ClockType ==
  ASSUME TypeOK, NEW p \in Peers PROVE Clock(p) \in Nat
<1>1. client[p].req \in Nat /\ client[p].got \in Seq(Data)
  BY SMT, TftpAssumption DEF TypeOK, Clients
<1> QED  BY <1>1, ProgressType DEF Clock

LEMMA PacketOfType ==
  ASSUME TypeOK, NEW p \in Peers, NEW r \in 1..MaxRequests, NEW b \in 0..Blocks
  PROVE  PacketOf(p, r, b) \in ServerPackets
<1>1. Clock(p) \in Nat
  BY ClockType
<1>2. b % Modulus \in 0..Modulus-1
  BY SMT, TftpAssumption
<1>3. <<r, b>> \in Data
  BY DEF Data
<1> QED  BY <1>1, <1>2, <1>3 DEF PacketOf, ServerPackets, DATAs, OACKs

LEMMA ErrorType ==
  ASSUME TypeOK, NEW p \in Peers
  PROVE  [type |-> "ERROR", at |-> Clock(p)] \in ServerPackets
BY ClockType DEF ServerPackets, ERRORs

\* What the routine of p writes and becomes keeps its type.
RoutineType(p) ==
    /\ \E s \in Sessions : s.pc # "none" /\ (s.pc = "wait" => s.req >= 1)
                           /\ session' = [session EXCEPT ![p] = s]
    /\ toClient' = toClient \/ \E k \in ServerPackets : Write(p, k)
    /\ faults' \in 0..MaxFaults

LEMMA ReturnType ==
  ASSUME TypeOK, NEW p \in Peers, Return(p), NoFault \/ Fault,
         toClient' = toClient \/ writeError(p)
  PROVE  RoutineType(p)
<1> DEFINE s == [pc |-> "returned", req |-> 0, blk |-> 0, sends |-> 0]
<1>1. [Idle EXCEPT !.pc = "returned"] = s /\ s \in Sessions
  BY SMT, TftpAssumption DEF Idle, Sessions
<1>2. session' = [session EXCEPT ![p] = s]
  BY <1>1 DEF Return
<1>3. faults' \in 0..MaxFaults
  BY SMT, TftpAssumption DEF NoFault, Fault, TypeOK
<1>4. toClient' = toClient \/ \E k \in ServerPackets : Write(p, k)
  BY ErrorType DEF writeError
<1> QED  BY <1>1, <1>2, <1>3, <1>4 DEF RoutineType

LEMMA SendBlockType ==
  ASSUME TypeOK, NEW p \in Peers, NEW r \in 1..MaxRequests, NEW b \in 0..Blocks,
         SendBlock(p, r, b)
  PROVE  RoutineType(p)
<1> DEFINE s == [pc |-> "wait", req |-> r, blk |-> b, sends |-> 1]
<1>1. CASE Write(p, PacketOf(p, r, b)) /\ session' = [session EXCEPT ![p] = s] /\ NoFault
  <2>1. s \in Sessions /\ s.pc = "wait" /\ s.req >= 1
    BY SMT, TftpAssumption DEF Sessions
  <2>2. faults' \in 0..MaxFaults
    BY <1>1 DEF NoFault, TypeOK
  <2> QED  BY <1>1, <2>1, <2>2, PacketOfType DEF RoutineType
<1>2. CASE Return(p) /\ Fault /\ (toClient' = toClient \/ writeError(p))
  BY <1>2, ReturnType
<1> QED  BY <1>1, <1>2 DEF SendBlock

LEMMA RoutineKeepsType ==
  ASSUME TypeInv, NEW p \in Peers, RoutineType(p),
         chan' = chan \/ (chan[p] # <<>> /\ chan' = [chan EXCEPT ![p] = Tail(@)]),
         UNCHANGED <<posting, table, client, toServer>>
  PROVE  TypeInv'
<1>1. PICK s \in Sessions : /\ s.pc = "wait" => s.req >= 1
                            /\ session' = [session EXCEPT ![p] = s]
  BY DEF RoutineType
<1>2. session' \in [Peers -> Sessions]
  BY <1>1 DEF TypeInv, TypeOK
<1>3. AtWork'
  BY <1>1 DEF TypeInv, TypeOK, AtWork
<1>4. /\ chan' \in [Peers -> Seq(ClientPackets)]
      /\ \A q \in Peers : Len(chan'[q]) <= QueueSize
  <2>1. CASE chan' = chan
    BY <2>1 DEF TypeInv, TypeOK
  <2>2. CASE chan[p] # <<>> /\ chan' = [chan EXCEPT ![p] = Tail(@)]
    <3>1. Tail(chan[p]) \in Seq(ClientPackets) /\ Len(Tail(chan[p])) <= QueueSize
      BY SMT, <2>2, TftpAssumption DEF TypeInv, TypeOK
    <3> QED  BY <2>2, <3>1 DEF TypeInv, TypeOK
  <2> QED  BY <2>1, <2>2
<1>5. toClient' \in [Peers -> SUBSET ServerPackets] /\ faults' \in 0..MaxFaults
  BY SMT DEF RoutineType, Write, TypeInv, TypeOK
<1>6. /\ posting' \in [peer : Peers, packet : ClientPackets] \cup {NoPacket}
      /\ table' \subseteq Peers
      /\ client' \in [Peers -> Clients]
      /\ toServer' \in [Peers -> SUBSET ClientPackets]
  BY DEF TypeInv, TypeOK
<1> QED  BY <1>2, <1>3, <1>4, <1>5, <1>6 DEF TypeInv, TypeOK

LEMMA HeadType ==
  ASSUME TypeOK, NEW p \in Peers, chan[p] # <<>>
  PROVE  Head(chan[p]) \in ClientPackets
BY SMT DEF TypeOK

LEMMA RoutineTypes ==
  ASSUME TypeInv, NEW p \in Peers, Routine(p) PROVE TypeInv'
<1> USE DEF TypeInv
<1>1. CASE serve(p)
  <2> DEFINE k == Head(chan[p])
  <2>1. CASE k.type = "RRQ"
    <3>1. k.req \in 1..MaxRequests /\ (IF k.options THEN 0 ELSE 1) \in 0..Blocks
      BY SMT, <1>1, <2>1, HeadType, ClientPacketFields, TftpAssumption DEF serve
    <3>2. serveRRQ(p, k)
      BY <1>1, <2>1 DEF serve
    <3>3. RoutineType(p)
      BY <3>1, <3>2, SendBlockType, ReturnType DEF serveRRQ
    <3> QED  BY <1>1, <3>3, RoutineKeepsType DEF serve
  <2>2. CASE k.type # "RRQ"
    <3>1. RoutineType(p)
      BY <1>1, <2>2, ReturnType DEF serve
    <3> QED  BY <1>1, <3>1, RoutineKeepsType DEF serve
  <2> QED  BY <2>1, <2>2
<1>2. CASE serveTimeout(p)
  <2>1. RoutineType(p)
    BY <1>2, ReturnType DEF serveTimeout, NoFault
  <2> QED  BY <1>2, <2>1, RoutineKeepsType DEF serveTimeout
<1>3. CASE ReadReply(p)
  <2> DEFINE s == session[p]
  <2>1. s \in Sessions /\ s.req \in 1..MaxRequests
    BY SMT, <1>3, TftpAssumption DEF ReadReply, TypeOK, AtWork, Sessions
  <2>2. CASE s.blk < Blocks /\ SendBlock(p, s.req, s.blk + 1)
    <3>1. s.blk + 1 \in 0..Blocks
      BY SMT, <2>1, <2>2, TftpAssumption DEF Sessions
    <3>2. RoutineType(p)
      BY <2>1, <2>2, <3>1, SendBlockType
    <3> QED  BY <1>3, <3>2, RoutineKeepsType DEF ReadReply
  <2>3. CASE Return(p) /\ NoFault /\ (toClient' = toClient \/ writeError(p))
    BY <1>3, <2>3, ReturnType, RoutineKeepsType DEF ReadReply
  <2>4. CASE UNCHANGED <<session, toClient, faults>>
    <3>1. session' = [session EXCEPT ![p] = s]
      BY <2>4 DEF TypeOK
    <3>2. RoutineType(p)
      BY <1>3, <2>1, <2>4, <3>1 DEF RoutineType, ReadReply, TypeOK, AtWork
    <3> QED  BY <1>3, <3>2, RoutineKeepsType DEF ReadReply
  <2> QED  BY <1>3, <2>2, <2>3, <2>4 DEF ReadReply
<1>4. CASE ReplyTimeout(p)
  <2> DEFINE s == session[p]
  <2>1. s \in Sessions /\ s.req \in 1..MaxRequests /\ s.blk \in 0..Blocks /\ s.pc = "wait"
    BY SMT, <1>4, TftpAssumption DEF ReplyTimeout, TypeOK, AtWork, Sessions
  <2>2. CASE /\ s.sends < MaxSends /\ Write(p, PacketOf(p, s.req, s.blk))
             /\ session' = [session EXCEPT ![p].sends = @ + 1] /\ NoFault
    <3> DEFINE s2 == [s EXCEPT !.sends = @ + 1]
    <3>1. s2 \in Sessions /\ s2.pc = "wait" /\ s2.req >= 1
      BY SMT, <2>1, <2>2, TftpAssumption DEF Sessions
    <3>2. session' = [session EXCEPT ![p] = s2]
      BY <2>2
    <3>3. PacketOf(p, s.req, s.blk) \in ServerPackets
      BY <2>1, PacketOfType
    <3>4. faults' \in 0..MaxFaults
      BY <2>2 DEF NoFault, TypeOK
    <3> HIDE DEF s2
    <3>5. RoutineType(p)
      BY <2>2, <3>1, <3>2, <3>3, <3>4 DEF RoutineType
    <3> QED  BY <1>4, <3>5, RoutineKeepsType DEF ReplyTimeout
  <2>3. CASE Return(p) /\ (Fault \/ NoFault) /\ UNCHANGED toClient
    BY <1>4, <2>3, ReturnType, RoutineKeepsType DEF ReplyTimeout
  <2> QED  BY <1>4, <2>2, <2>3 DEF ReplyTimeout
<1>5. CASE Leave(p)
  <2>1. Idle \in Sessions /\ [Idle EXCEPT !.pc = "serve"] \in Sessions
    BY SMT, TftpAssumption DEF Idle, Sessions
  <2>2. Idle.pc = "none" /\ [Idle EXCEPT !.pc = "serve"].pc = "serve"
    BY DEF Idle
  <2>3. session' \in [Peers -> Sessions] /\ AtWork'
    BY <1>5, <2>1, <2>2 DEF Leave, TypeOK, AtWork
  <2> QED  BY <1>5, <2>3 DEF Leave, TypeOK
<1> QED  BY <1>1, <1>2, <1>3, <1>4, <1>5 DEF Routine

LEMMA LoopTypes ==
  ASSUME TypeInv, Post \/ \E p \in Peers : Receive(p) PROVE TypeInv'
<1> USE DEF TypeInv
<1>1. CASE Post
  <2>1. posting.peer \in Peers /\ posting.packet \in ClientPackets
    BY <1>1 DEF Post, TypeOK
  <2> DEFINE p == posting.peer
             q == Append(chan[p], posting.packet)
  <2>2. CASE Len(chan[p]) < QueueSize
    <3>1. chan' = [chan EXCEPT ![p] = q]
      BY <1>1, <2>2 DEF Post
    <3>2. q \in Seq(ClientPackets) /\ Len(q) <= QueueSize
      BY SMT, <2>1, <2>2, TftpAssumption DEF TypeOK
    <3> HIDE DEF q
    <3>3. /\ chan' \in [Peers -> Seq(ClientPackets)]
          /\ \A x \in Peers : Len(chan'[x]) <= QueueSize
      BY <2>1, <3>1, <3>2 DEF TypeOK
    <3> QED  BY <1>1, <3>3 DEF Post, TypeOK, AtWork
  <2>3. CASE ~(Len(chan[p]) < QueueSize)
    BY <1>1, <2>3 DEF Post, TypeOK, AtWork
  <2> QED  BY <2>2, <2>3
<1>2. ASSUME NEW p \in Peers, Receive(p) PROVE TypeInv'
  <2>1. PICK k \in toServer[p] :
          /\ posting' = [peer |-> p, packet |-> k]
          /\ \/ toServer' = [toServer EXCEPT ![p] = @ \ {k}] /\ NoFault
             \/ UNCHANGED toServer /\ Fault
    BY <1>2 DEF Receive
  <2>2. k \in ClientPackets
    BY DEF TypeOK
  <2>3. posting' \in [peer : Peers, packet : ClientPackets] \cup {NoPacket}
    BY <2>1, <2>2
  <2>4. toServer' \in [Peers -> SUBSET ClientPackets] /\ faults' \in 0..MaxFaults
    <3>1. faults' \in 0..MaxFaults
      BY SMT, <2>1, TftpAssumption DEF TypeOK, NoFault, Fault
    <3>2. toServer' \in [Peers -> SUBSET ClientPackets]
      BY <2>1 DEF TypeOK
    <3> QED  BY <3>1, <3>2
  <2>5. [Idle EXCEPT !.pc = "serve"] \in Sessions /\ [Idle EXCEPT !.pc = "serve"].pc = "serve"
    BY SMT, TftpAssumption DEF Idle, Sessions
  <2>6. /\ session' \in [Peers -> Sessions] /\ AtWork'
        /\ chan' \in [Peers -> Seq(ClientPackets)]
        /\ \A x \in Peers : Len(chan'[x]) <= QueueSize
    <3>1. CASE UNCHANGED <<chan, session>>
      BY <1>2, <3>1 DEF Receive, TypeOK, AtWork
    <3>2. CASE /\ chan' = [chan EXCEPT ![p] = <<>>]
               /\ session' = [session EXCEPT ![p] = [Idle EXCEPT !.pc = "serve"]]
      <4>1. <<>> \in Seq(ClientPackets) /\ Len(<<>>) <= QueueSize
        BY SMT, TftpAssumption
      <4>2. UNCHANGED client
        BY <1>2 DEF Receive
      <4> QED  BY <2>5, <3>2, <4>1, <4>2 DEF TypeOK, AtWork
    <3> QED  BY <1>2, <3>1, <3>2 DEF Receive
  <2> QED  BY <1>2, <2>3, <2>4, <2>6 DEF Receive, TypeOK
<1> QED  BY <1>1, <1>2

\* The client: c is what it becomes but for the packet it sends.
LEMMA ClientSendsType ==
  ASSUME TypeInv, NEW p \in Peers, NEW c \in Clients, NEW k \in ClientPackets,
         c.pc # "idle" => c.req >= 1, ClientSends(p, c, k)
  PROVE  /\ client' \in [Peers -> Clients]
         /\ toServer' \in [Peers -> SUBSET ClientPackets]
         /\ UNCHANGED session => AtWork'
<1> DEFINE now == Progress(c)
           sent == [k EXCEPT !.at = now]
           c2 == [c EXCEPT !.last = sent]
<1>1. now \in Nat
  BY SMT, ProgressType, TftpAssumption DEF Clients
<1>2. sent \in ClientPackets
  BY <1>1, PacketAt
<1>3. client' = [client EXCEPT ![p] = c2]
      /\ toServer' = [toServer EXCEPT ![p] = Fresh(@ \cup {sent}, now)]
  BY DEF ClientSends
<1> HIDE DEF now, sent
<1>4. c2 \in Clients /\ c2.last = sent /\ c2.pc = c.pc /\ c2.req = c.req
  BY <1>2 DEF Clients
<1> HIDE DEF c2
<1>5. client' \in [Peers -> Clients]
  BY <1>3, <1>4 DEF TypeInv, TypeOK
<1>6. toServer' \in [Peers -> SUBSET ClientPackets]
  BY <1>2, <1>3 DEF TypeInv, TypeOK, Fresh
<1>7. UNCHANGED session => AtWork'
  BY <1>2, <1>3, <1>4 DEF TypeInv, TypeOK, AtWork
<1> QED  BY <1>5, <1>6, <1>7

LEMMA TakeType ==
  ASSUME TypeInv, NEW p \in Peers, NEW k, NEW now, Take(p, k, now)
  PROVE  toClient' \in [Peers -> SUBSET ServerPackets] /\ faults' \in 0..MaxFaults
<1>1. faults' \in 0..MaxFaults
  BY SMT, TftpAssumption DEF TypeInv, TypeOK, Take, NoFault, Fault
<1>2. Fresh(toClient[p] \ {k}, now) \subseteq toClient[p] /\ Fresh(toClient[p], now) \subseteq toClient[p]
  BY DEF Fresh
<1>3. PICK kept : kept \subseteq toClient[p] /\ toClient' = [toClient EXCEPT ![p] = kept]
  BY <1>2 DEF Take
<1>4. toClient' \in [Peers -> SUBSET ServerPackets]
  BY <1>3 DEF TypeInv, TypeOK
<1> QED  BY <1>1, <1>4

LEMMA ClientWithPc ==
  ASSUME NEW c \in Clients, NEW x \in {"idle", "waiting", "done", "aborted"}
  PROVE  LET d == [c EXCEPT !.pc = x]
         IN d \in Clients /\ d.pc = x /\ d.req = c.req /\ d.last = c.last /\ d.got = c.got
BY DEF Clients

LEMMA ClientWithReq ==
  ASSUME NEW c \in Clients, NEW r \in 0..MaxRequests
  PROVE  LET d == [c EXCEPT !.req = r]
         IN d \in Clients /\ d.pc = c.pc /\ d.req = r /\ d.last = c.last /\ d.got = c.got
BY DEF Clients

LEMMA ClientWithGot ==
  ASSUME NEW c \in Clients, NEW g \in Seq(Data)
  PROVE  LET d == [c EXCEPT !.got = g]
         IN d \in Clients /\ d.pc = c.pc /\ d.req = c.req /\ d.last = c.last /\ d.got = g
BY DEF Clients

LEMMA ClientWithLast ==
  ASSUME NEW c \in Clients, NEW l \in ClientPackets
  PROVE  LET d == [c EXCEPT !.last = l]
         IN d \in Clients /\ d.pc = c.pc /\ d.req = c.req /\ d.last = l /\ d.got = c.got
BY DEF Clients

\* The client with a new request, and with the block it waited for.
Asking(c, r) == [c EXCEPT !.pc = "waiting", !.req = r, !.got = <<>>]
Receiving(c, d) == [c EXCEPT !.got = Append(@, d),
                             !.pc = IF d[2] = Blocks THEN "done" ELSE @]

LEMMA AskingType ==
  ASSUME NEW c \in Clients, NEW r \in 0..MaxRequests
  PROVE  /\ Asking(c, r) \in Clients
         /\ Asking(c, r).pc = "waiting" /\ Asking(c, r).req = r
         /\ Asking(c, r).last = c.last /\ Asking(c, r).got = <<>>
<1> DEFINE c1 == [c EXCEPT !.pc = "waiting"]
           c2 == [c1 EXCEPT !.req = r]
           c3 == [c2 EXCEPT !.got = <<>>]
<1>1. c1 \in Clients /\ c1.pc = "waiting" /\ c1.last = c.last
  BY ClientWithPc
<1>2. c2 \in Clients /\ c2.pc = c1.pc /\ c2.last = c1.last /\ c2.req = r
  <2> HIDE DEF c1
  <2> QED  BY <1>1, ClientWithReq
<1>3. c3 \in Clients /\ c3.pc = c2.pc /\ c3.last = c2.last /\ c3.req = c2.req /\ c3.got = <<>>
  <2>1. <<>> \in Seq(Data)
    BY SMT
  <2> HIDE DEF c2
  <2> QED  BY <1>2, <2>1, ClientWithGot
<1>4. Asking(c, r) = c3
  BY DEF Asking
<1> HIDE DEF c1, c2, c3
<1> QED  BY <1>1, <1>2, <1>3, <1>4

LEMMA ReceivingType ==
  ASSUME NEW c \in Clients, NEW d \in Data
  PROVE  /\ Receiving(c, d) \in Clients
         /\ Receiving(c, d).pc = (IF d[2] = Blocks THEN "done" ELSE c.pc)
         /\ Receiving(c, d).req = c.req
         /\ Receiving(c, d).last = c.last /\ Receiving(c, d).got = Append(c.got, d)
<1> DEFINE g == Append(c.got, d)
           x == IF d[2] = Blocks THEN "done" ELSE c.pc
           c1 == [c EXCEPT !.got = g]
           c2 == [c1 EXCEPT !.pc = x]
<1>1. g \in Seq(Data) /\ x \in {"idle", "waiting", "done", "aborted"}
  BY SMT DEF Clients
<1>2. c1 \in Clients /\ c1.pc = c.pc /\ c1.req = c.req /\ c1.last = c.last /\ c1.got = g
  <2> HIDE DEF g
  <2> QED  BY <1>1, ClientWithGot
<1>3. c2 \in Clients /\ c2.pc = x /\ c2.req = c1.req /\ c2.last = c1.last /\ c2.got = c1.got
  <2> HIDE DEF c1, x
  <2> QED  BY <1>1, <1>2, ClientWithPc
<1>4. Receiving(c, d) = c2
  BY <1>2 DEF Receiving
<1> HIDE DEF c1, c2
<1> QED  BY <1>2, <1>3, <1>4

LEMMA AckType ==
  ASSUME NEW nr \in 0..Modulus-1, NEW d \in Data PROVE ACK(nr, d) \in ClientPackets
BY DEF ACK, ClientPackets, ACKs

LEMMA ClientTypes ==
  ASSUME TypeInv, NEW p \in Peers, Client(p) \/ Lose(p) PROVE TypeInv'
<1> USE DEF TypeInv
<1> DEFINE c == client[p]
<1>0. c \in Clients /\ (c.pc # "idle" => c.req >= 1)
  BY DEF TypeOK, AtWork
<1>1. CASE Request(p)
  <2> DEFINE r == c.req + 1
             c2 == Asking(c, r)
  <2>1. r \in 1..MaxRequests
    BY SMT, <1>0, <1>1, TftpAssumption DEF Request, Clients
  <2>2. c2 \in Clients /\ c2.req >= 1
    BY SMT, <1>0, <2>1, AskingType
  <2>3. PICK k \in [type : {"RRQ"}, req : {r}, options : BOOLEAN, at : {0}]
                     \cup [type : {"WRQ", "bad"}, at : {0}] : ClientSends(p, c2, k)
    BY <1>1 DEF Request, Asking
  <2>4. k \in ClientPackets
    BY SMT, <2>1 DEF ClientPackets, Requests, RRQs, WRQs, BadPackets
  <2>5. toClient' \in [Peers -> SUBSET ServerPackets]
    BY <1>1 DEF Request, TypeOK, Fresh
  <2> HIDE DEF c2
  <2>6. /\ client' \in [Peers -> Clients] /\ toServer' \in [Peers -> SUBSET ClientPackets]
        /\ UNCHANGED session => AtWork'
    BY <2>2, <2>3, <2>4, ClientSendsType
  <2> QED  BY <1>1, <2>5, <2>6 DEF Request, server, TypeOK
<1>2. CASE ReceiveDATA(p)
  <2>1. PICK k \in toClient[p] :
          /\ k.type = "DATA"
          /\ \/ /\ Awaits(c, k)
                /\ ClientSends(p, Receiving(c, k.data), ACK(k.nr, k.data))
                /\ Take(p, k, Progress(Receiving(c, k.data)))
             \/ /\ Repeats(c, k)
                /\ ClientSends(p, c, ACK(k.nr, k.data))
                /\ Take(p, k, Progress(c))
             \/ /\ UNCHANGED <<client, toServer>>
                /\ Take(p, k, Progress(c))
    BY <1>2 DEF ReceiveDATA, Receiving
  <2>2. k.nr \in 0..Modulus-1 /\ k.data \in Data
    BY <2>1, ServerPacketFields DEF TypeOK
  <2>3. ACK(k.nr, k.data) \in ClientPackets
    BY <2>2, AckType
  <2>4. Receiving(c, k.data) \in Clients /\ Receiving(c, k.data).req = c.req
    BY <1>0, <2>2, ReceivingType
  <2>5. /\ client' \in [Peers -> Clients] /\ toServer' \in [Peers -> SUBSET ClientPackets]
        /\ UNCHANGED session => AtWork'
    <3>1. CASE Awaits(c, k) /\ ClientSends(p, Receiving(c, k.data), ACK(k.nr, k.data))
      BY <1>0, <2>3, <2>4, <3>1, ClientSendsType DEF Awaits
    <3>2. CASE ClientSends(p, c, ACK(k.nr, k.data))
      BY <1>0, <2>3, <3>2, ClientSendsType
    <3>3. CASE UNCHANGED <<client, toServer>>
      BY <3>3 DEF TypeOK, AtWork
    <3> QED  BY <2>1, <3>1, <3>2, <3>3
  <2>6. toClient' \in [Peers -> SUBSET ServerPackets] /\ faults' \in 0..MaxFaults
    BY <2>1, TakeType
  <2> QED  BY <1>2, <2>5, <2>6 DEF ReceiveDATA, server, TypeOK
<1>3. CASE ReceiveOther(p)
  <2>1. PICK k \in toClient[p] :
          /\ \/ c.pc = "waiting" /\ ClientSends(p, c, ACK(0, <<c.req, 0>>))
             \/ UNCHANGED <<client, toServer>>
             \/ /\ client' = [client EXCEPT ![p].pc =
                                IF @ = "waiting" THEN "aborted" ELSE @]
                /\ UNCHANGED toServer
          /\ Take(p, k, Progress(c))
    BY <1>3 DEF ReceiveOther
  <2>2. /\ client' \in [Peers -> Clients] /\ toServer' \in [Peers -> SUBSET ClientPackets]
        /\ UNCHANGED session => AtWork'
    <3>1. CASE c.pc = "waiting" /\ ClientSends(p, c, ACK(0, <<c.req, 0>>))
      <4>1. <<c.req, 0>> \in Data /\ 0 \in 0..Modulus-1
        BY SMT, <1>0, <3>1, TftpAssumption DEF Data, Clients
      <4>2. ACK(0, <<c.req, 0>>) \in ClientPackets
        BY <4>1, AckType
      <4> QED  BY <1>0, <3>1, <4>2, ClientSendsType
    <3>2. CASE UNCHANGED <<client, toServer>>
      BY <3>2 DEF TypeOK, AtWork
    <3>3. CASE /\ client' = [client EXCEPT ![p].pc = IF @ = "waiting" THEN "aborted" ELSE @]
               /\ UNCHANGED toServer
      <4> DEFINE c2 == [c EXCEPT !.pc = IF @ = "waiting" THEN "aborted" ELSE @]
      <4>1. /\ c2 \in Clients /\ c2.pc \in {"aborted", c.pc} /\ c2.pc # "waiting"
            /\ c2.req = c.req /\ (c2.pc = "idle" \/ c.pc # "idle")
        BY <1>0 DEF Clients
      <4>2. client' = [client EXCEPT ![p] = c2]
        BY <3>3
      <4> HIDE DEF c2
      <4>3. client' \in [Peers -> Clients]
        BY <4>1, <4>2 DEF TypeOK
      <4>4. UNCHANGED session => AtWork'
        BY <4>1, <4>2 DEF TypeOK, AtWork
      <4> QED  BY <3>3, <4>3, <4>4 DEF TypeOK
    <3> QED  BY <2>1, <3>1, <3>2, <3>3
  <2>3. toClient' \in [Peers -> SUBSET ServerPackets] /\ faults' \in 0..MaxFaults
    BY <2>1, TakeType
  <2> QED  BY <1>3, <2>2, <2>3 DEF ReceiveOther, server, TypeOK
<1>4. CASE Repeat(p)
  <2>1. c.last \in ClientPackets /\ ClientSends(p, c, c.last)
    BY <1>4 DEF Repeat, AtWork
  <2>2. /\ client' \in [Peers -> Clients] /\ toServer' \in [Peers -> SUBSET ClientPackets]
        /\ UNCHANGED session => AtWork'
    BY <1>0, <2>1, ClientSendsType
  <2>3. faults' \in 0..MaxFaults
    BY SMT, <1>4, TftpAssumption DEF Repeat, Fault, TypeOK
  <2> QED  BY <1>4, <2>2, <2>3 DEF Repeat, server, TypeOK
<1>5. CASE Lose(p)
  <2>1. faults' \in 0..MaxFaults
    BY SMT, <1>5, TftpAssumption DEF Lose, Fault, TypeOK
  <2>2. /\ toServer' \in [Peers -> SUBSET ClientPackets]
        /\ toClient' \in [Peers -> SUBSET ServerPackets]
    BY <1>5 DEF Lose, TypeOK
  <2> QED  BY <1>5, <2>1, <2>2 DEF Lose, server, TypeOK, AtWork
<1> QED  BY <1>1, <1>2, <1>3, <1>4, <1>5 DEF Client

LEMMA TftpTypes == TypeInv /\ [Next]_vars => TypeInv'
<1> SUFFICES ASSUME TypeInv, [Next]_vars PROVE TypeInv'
  OBVIOUS
<1>1. CASE UNCHANGED vars
  BY <1>1 DEF vars, TypeInv, TypeOK, AtWork
<1> QED  BY <1>1, LoopTypes, RoutineTypes, ClientTypes DEF Next

LEMMA TftpInitTypes == Init => TypeInv
<1> SUFFICES ASSUME Init PROVE TypeInv
  OBVIOUS
<1>1. Idle \in Sessions /\ Idle.pc = "none"
  BY SMT, TftpAssumption DEF Idle, Sessions
<1>2. [pc |-> "idle", req |-> 0, last |-> NoPacket, got |-> <<>>] \in Clients
  BY SMT, TftpAssumption DEF Clients
<1> QED  BY SMT, <1>1, <1>2, TftpAssumption DEF Init, TypeInv, TypeOK, AtWork

\* The state keeps its types whatever the network does: in particular a
\* channel never holds more than its capacity (Serve drops what does not fit
\* instead of waiting with the lock held), and no block beyond the last one is
\* asked for.
THEOREM TftpTypeCorrect == Spec => []TypeOK
<1>1. TypeInv => TypeOK
  BY DEF TypeInv
<1> QED  BY TftpInitTypes, TftpTypes, <1>1, PTL DEF Spec

-----------------------------------------------------------------------------
\* Client and server in step.  The place of a block in all that a client ever
\* asks for is a number; the client's own progress is the place of the last
\* block it has.  A block number on the wire is a place modulo Modulus, so
\* every argument is about how far apart two places can be.

Pos(r, b) == r * (Blocks + 1) + b

\* How far behind the client a block on the wire can be, and what makes block
\* numbers tell blocks apart that are not further from each other: there are
\* more numbers than that, and, where a client asks again from the same socket,
\* the last numbers of a file do not look like the first ones of the next.
Slack == 2 * MaxAge + 3

Apart ==
    /\ Slack < Modulus
    /\ MaxRequests <= 1 \/ Slack <= Blocks % Modulus

LEMMA PosFacts ==
  ASSUME NEW r \in Nat, NEW b \in Nat
  PROVE  /\ Pos(r, b) \in Nat
         /\ Pos(r, b + 1) = Pos(r, b) + 1
         /\ Pos(r + 1, 0) = Pos(r, Blocks) + 1
<1>1. Blocks + 1 \in Nat
  BY SMT, TftpAssumption
<1>2. r * (Blocks + 1) \in Nat
  BY SMT, <1>1
<1>3. (r + 1) * (Blocks + 1) = r * (Blocks + 1) + (Blocks + 1)
  BY SMT, <1>1
<1> HIDE DEF Pos
<1>4. Pos(r, b) \in Nat
  BY SMT, <1>2 DEF Pos
<1>5. Pos(r, b + 1) = Pos(r, b) + 1
  BY SMT, <1>2 DEF Pos
<1>6. Pos(r + 1, 0) = Pos(r, Blocks) + 1
  BY SMT, <1>1, <1>2, <1>3, TftpAssumption DEF Pos
<1> QED  BY <1>4, <1>5, <1>6

LEMMA PosLater ==
  ASSUME NEW r \in Nat, NEW s \in Nat, r < s, NEW b \in Nat
  PROVE  Pos(s, b) >= Pos(r, Blocks) + 1 + b
<1>1. PICK d \in Nat : s = r + 1 + d
  <2>1. s - (r + 1) \in Nat /\ s = r + 1 + (s - (r + 1))
    BY SMT
  <2> QED  BY <2>1
<1>2. Blocks + 1 \in Nat
  BY SMT, TftpAssumption
<1>3. r * (Blocks + 1) \in Nat /\ d * (Blocks + 1) \in Nat
  BY SMT, <1>2
<1>4. s * (Blocks + 1) = r * (Blocks + 1) + (Blocks + 1) + d * (Blocks + 1)
  BY SMT, <1>1, <1>2
<1> QED  BY SMT, <1>2, <1>3, <1>4, TftpAssumption DEF Pos

LEMMA PosMin ==
  ASSUME NEW r \in Nat, r >= 1, NEW b \in Nat PROVE Pos(1, 0) <= Pos(r, b)
<1>1. CASE r = 1
  BY SMT, <1>1, TftpAssumption DEF Pos
<1>2. CASE 1 < r
  <2>1. Pos(r, b) >= Pos(1, Blocks) + 1 + b
    BY <1>2, PosLater
  <2>2. Pos(1, 0) \in Nat /\ Pos(1, Blocks) = Pos(1, 0) + Blocks
    BY SMT, TftpAssumption DEF Pos
  <2>3. Pos(r, b) \in Nat
    BY PosFacts
  <2> QED  BY SMT, <2>1, <2>2, <2>3, TftpAssumption
<1> QED  BY SMT, <1>1, <1>2

LEMMA SmallMod ==
  ASSUME NEW m \in Nat \ {0}, NEW x \in Nat, NEW y \in Nat, x % m = y % m,
         x <= y, y < x + m
  PROVE  x = y
<1> DEFINE qx == x \div m
           qy == y \div m
           w == x % m
<1>1. qx \in Nat /\ qy \in Nat /\ w \in Nat /\ x = m * qx + w /\ y = m * qy + w
  BY SMT
<1> HIDE DEF qx, qy, w
<1>2. CASE qy <= qx
  <2>1. PICK e \in Nat : qx = qy + e
    <3>1. qx - qy \in Nat /\ qx = qy + (qx - qy)
      BY SMT, <1>1, <1>2
    <3> QED  BY <3>1
  <2>2. m * qx = m * qy + m * e /\ m * e \in Nat /\ m * qy \in Nat
    BY SMT, <1>1, <2>1
  <2> QED  BY SMT, <1>1, <2>2
<1>3. CASE qx < qy
  <2>1. PICK e \in Nat : qy = qx + 1 + e
    <3>1. qy - (qx + 1) \in Nat /\ qy = qx + 1 + (qy - (qx + 1))
      BY SMT, <1>1, <1>3
    <3> QED  BY <3>1
  <2>2. m * qy = m * qx + m + m * e /\ m * e \in Nat /\ m * qx \in Nat
    BY SMT, <1>1, <2>1
  <2> QED  BY SMT, <1>1, <2>2
<1> QED  BY SMT, <1>1, <1>2, <1>3

\* Two numbers that are the same modulo m still are when j is added.
LEMMA ModShift ==
  ASSUME NEW m \in Nat \ {0}, NEW x \in Nat, NEW i \in Nat, x % m = i % m,
         NEW y \in Nat, NEW z \in Nat, y - x = z - i, i <= z, z < m
  PROVE  y % m = z
<1> DEFINE j == z - i
<1>0. j \in Nat /\ y = x + j /\ z = i + j /\ i + j < m
  BY SMT
<1> HIDE DEF j
<1> SUFFICES (x + j) % m = i + j
  BY <1>0
<1> USE <1>0
<1> DEFINE qx == x \div m
           w == x % m
<1>1. i < m /\ i % m = i
  BY SMT
<1>2. qx \in Nat /\ x = m * qx + i
  <2>1. qx \in Nat /\ x = m * qx + w
    BY SMT
  <2> QED  BY <1>1, <2>1
<1> HIDE DEF qx, w
<1>3. x + j = m * qx + (i + j)
  <2>1. m * qx \in Nat
    BY SMT, <1>2
  <2> QED  BY SMT, <1>2, <2>1
<1>4. (m * qx + (i + j)) % m = (i + j) % m
  BY SMT, <1>2
<1>5. (i + j) % m = i + j
  BY SMT
<1> QED  BY <1>3, <1>4, <1>5

LEMMA NumbersOneWay ==
  ASSUME Apart, NEW r \in 1..MaxRequests, NEW s \in 1..MaxRequests,
         NEW b \in 0..Blocks, NEW d \in 0..Blocks, b % Modulus = d % Modulus,
         Pos(r, b) <= Pos(s, d), Pos(s, d) <= Pos(r, b) + Slack
  PROVE  r = s /\ b = d
<1> USE TftpAssumption
<1>0. Slack \in Nat /\ Slack < Modulus /\ Blocks \in Nat /\ Modulus \in Nat \ {0}
      /\ r \in Nat /\ s \in Nat /\ b \in Nat /\ d \in Nat /\ b <= Blocks /\ d <= Blocks
  BY SMT DEF Apart, Slack
<1>1. CASE r = s
  <2>1. r * (Blocks + 1) \in Nat
    BY SMT, <1>0
  <2>2. b <= d /\ d <= b + Slack
    BY SMT, <1>0, <1>1, <2>1 DEF Pos
  <2>3. d < b + Modulus
    BY SMT, <1>0, <2>2
  <2>4. b = d
    BY <1>0, <2>2, <2>3, SmallMod
  <2> QED  BY <1>1, <2>4
<1>2. CASE s < r
  <2>1. Pos(r, b) >= Pos(s, Blocks) + 1 + b
    BY <1>0, <1>2, PosLater
  <2>2. Pos(s, d) <= Pos(s, Blocks) /\ Pos(s, d) \in Nat /\ Pos(s, Blocks) \in Nat /\ Pos(r, b) \in Nat
    <3>1. s * (Blocks + 1) \in Nat
      BY SMT, <1>0
    <3> QED  BY SMT, <1>0, <3>1, PosFacts DEF Pos
  <2> QED  BY SMT, <1>0, <2>1, <2>2
<1>3. CASE r < s
  <2>1. Slack <= Blocks % Modulus
    BY SMT, <1>3 DEF Apart
  <2>2. Pos(s, d) >= Pos(r, Blocks) + 1 + d
    BY <1>0, <1>3, PosLater
  <2>3. Pos(r, Blocks) = Pos(r, b) + (Blocks - b) /\ Pos(r, b) \in Nat /\ Pos(s, d) \in Nat
    <3>1. r * (Blocks + 1) \in Nat
      BY SMT, <1>0
    <3> QED  BY SMT, <1>0, <3>1, PosFacts DEF Pos
  <2>4. d + (Blocks - b) < Slack
    BY SMT, <1>0, <2>2, <2>3
  <2>5. PICK z \in Nat : z = d + (Blocks - b)
    BY SMT, <1>0
  <2>6. Blocks - b = z - d /\ d <= z /\ z < Modulus
    BY SMT, <1>0, <2>4, <2>5
  <2>7. Blocks % Modulus = z
    BY <1>0, <2>6, ModShift
  <2> QED  BY SMT, <1>0, <2>1, <2>4, <2>5, <2>7
<1> QED  BY SMT, <1>0, <1>1, <1>2, <1>3

\* Two blocks with one number, not too far apart, are one block.
LEMMA NumbersTell ==
  ASSUME Apart, NEW r \in 1..MaxRequests, NEW s \in 1..MaxRequests,
         NEW b \in 0..Blocks, NEW d \in 0..Blocks, b % Modulus = d % Modulus,
         Pos(r, b) <= Pos(s, d) + Slack, Pos(s, d) <= Pos(r, b) + Slack
  PROVE  r = s /\ b = d
<1>1. Pos(r, b) \in Nat /\ Pos(s, d) \in Nat
  BY SMT, PosFacts, TftpAssumption
<1>2. CASE Pos(r, b) <= Pos(s, d)
  BY <1>2, NumbersOneWay
<1>3. CASE Pos(s, d) <= Pos(r, b)
  BY <1>3, NumbersOneWay
<1> QED  BY SMT, <1>1, <1>2, <1>3

-----------------------------------------------------------------------------
\* The invariant, for one peer: c is its client, s its routine, q its channel,
\* post what the loop is about to put there (a set of at most one packet), up
\* and down the packets in the network.

\* A packet of the client says where the client was when it was sent.
Genuine(k, now) ==
    /\ k.at >= Pos(1, 0) /\ k.at <= now
    /\ k.type = "RRQ" => k.at = Pos(k.req, 0)
    /\ k.type = "ACK" => \E r \in 1..MaxRequests, b \in 0..Blocks :
                            k.at = Pos(r, b) /\ k.nr = b % Modulus

\* What the client has is right, and it repeats what it has.
ClientOK(c) ==
    /\ \A i \in 1..Len(c.got) : c.got[i] = <<c.req, i>>
    /\ c.pc = "idle" => c.req = 0 /\ c.got = <<>>
    /\ c.pc # "idle" => c.req >= 1
    /\ c.pc \in {"waiting", "aborted"} => Len(c.got) < Blocks
    /\ c.pc = "done" => Len(c.got) = Blocks
    /\ c.pc = "waiting" => c.last \in ClientPackets
    /\ c.pc = "waiting" /\ c.last.type = "RRQ" => c.last.req = c.req /\ c.got = <<>>
    /\ c.pc = "waiting" /\ c.last.type = "ACK" => c.last.nr = Len(c.got) % Modulus

DataPos(k) == Pos(k.data[1], k.data[2])

\* The next block is on its way or can be sent again.
Ahead(now, s, down) ==
    \/ s.pc = "wait" /\ Pos(s.req, s.blk) = now + 1
    \/ \E k \in down : k.type = "DATA" /\ DataPos(k) = now + 1

\* What the server has not looked at yet cannot be far behind: the client
\* takes one block, or one and a new request, before it needs the server.
Near(c, s, down, a) ==
    /\ Ahead(Progress(c), s, down) => Progress(c) <= a + MaxAge
    /\ c.pc = "done" => Progress(c) <= a + MaxAge + 1
    /\ Progress(c) <= a + MaxAge + 2

UpOK(now, up) == \A k \in up : Genuine(k, now) /\ now <= k.at + MaxAge

\* A packet in the channel was fresh when the ones before it were there.
QueueOK(c, s, q, post, down) ==
    /\ \A i \in 1..Len(q) : Genuine(q[i], Progress(c)) /\ Near(c, s, down, q[i].at)
    /\ \A i, j \in 1..Len(q) : i < j => q[i].at <= q[j].at + MaxAge
    /\ \A k \in post : /\ Genuine(k, Progress(c)) /\ Near(c, s, down, k.at)
                       /\ \A i \in 1..Len(q) : q[i].at <= k.at + MaxAge

RoutineOK(c, s, down) ==
    s.pc = "wait" => /\ s.req >= 1 /\ Pos(s.req, s.blk) <= Progress(c) + 1
                     /\ Near(c, s, down, Pos(s.req, s.blk))

DownOK(now, down) ==
    \A k \in down : k.type = "DATA" =>
        /\ k.data[2] >= 1 /\ k.nr = k.data[2] % Modulus
        /\ DataPos(k) <= now + 1 /\ now <= k.at + MaxAge
        /\ k.at <= DataPos(k) + MaxAge + 2

PeerOK(c, s, q, post, up, down) ==
    /\ ClientOK(c)
    /\ UpOK(Progress(c), up)
    /\ QueueOK(c, s, q, post, down)
    /\ RoutineOK(c, s, down)
    /\ DownOK(Progress(c), down)

PeerType(c, s, q, post, up, down) ==
    /\ c \in Clients /\ s \in Sessions /\ q \in Seq(ClientPackets)
    /\ post \subseteq ClientPackets /\ up \subseteq ClientPackets
    /\ down \subseteq ServerPackets

Posted(p) == {k \in ClientPackets : posting # NoPacket /\ posting.peer = p
                                    /\ posting.packet = k}

StepInv ==
    /\ TypeInv
    /\ \A p \in Peers : PeerOK(client[p], session[p], chan[p], Posted(p),
                               toServer[p], toClient[p])

LEMMA PeerFields ==
  ASSUME NEW c, NEW s, NEW q, NEW post, NEW up, NEW down,
         PeerType(c, s, q, post, up, down)
  PROVE  /\ c.req \in Nat /\ c.req <= MaxRequests /\ Len(c.got) \in Nat
         /\ Progress(c) \in Nat /\ Progress(c) = Pos(c.req, Len(c.got))
         /\ s.req \in 0..MaxRequests /\ s.blk \in 0..Blocks /\ Pos(s.req, s.blk) \in Nat
         /\ Len(q) \in Nat
         /\ \A i \in 1..Len(q) : q[i] \in ClientPackets /\ q[i].at \in Nat
         /\ \A k \in post \cup up : k \in ClientPackets /\ k.at \in Nat
         /\ \A k \in down : /\ k.at \in Nat
                            /\ k.type = "DATA" => /\ k.data[1] \in 1..MaxRequests
                                                  /\ k.data[2] \in 0..Blocks
                                                  /\ DataPos(k) \in Nat
<1>1. c.req \in Nat /\ c.req <= MaxRequests /\ c.got \in Seq(Data) /\ Len(c.got) \in Nat
  BY SMT, TftpAssumption DEF PeerType, Clients
<1>2. Progress(c) \in Nat /\ Progress(c) = Pos(c.req, Len(c.got))
  <2>1. Progress(c) \in Nat
    BY <1>1, ProgressType
  <2>2. Progress(c) = Pos(c.req, Len(c.got))
    BY DEF Progress, Pos
  <2> QED  BY <2>1, <2>2
<1>3. s.req \in 0..MaxRequests /\ s.blk \in 0..Blocks
  BY DEF PeerType, Sessions
<1>4. Pos(s.req, s.blk) \in Nat
  <2>1. s.req \in Nat /\ s.blk \in Nat
    BY SMT, <1>3, TftpAssumption
  <2> QED  BY <2>1, PosFacts
<1>5. Len(q) \in Nat /\ \A i \in 1..Len(q) : q[i] \in ClientPackets
  BY SMT DEF PeerType
<1>6. \A k \in ClientPackets : k.at \in Nat
  BY ClientPacketFields
<1>7. \A k \in post \cup up : k \in ClientPackets
  BY DEF PeerType
<1>8. ASSUME NEW k \in down
      PROVE  k.at \in Nat /\ (k.type = "DATA" => /\ k.data[1] \in 1..MaxRequests
                                                 /\ k.data[2] \in 0..Blocks
                                                 /\ DataPos(k) \in Nat)
  <2>1. k \in ServerPackets
    BY DEF PeerType
  <2>2. k.at \in Nat /\ (k.type = "DATA" => k.data \in Data)
    BY <2>1, ServerPacketFields
  <2>3. k.type = "DATA" => k.data[1] \in 1..MaxRequests /\ k.data[2] \in 0..Blocks
    BY <2>2 DEF Data
  <2>4. k.type = "DATA" => Pos(k.data[1], k.data[2]) \in Nat
    <3> SUFFICES ASSUME k.type = "DATA" PROVE Pos(k.data[1], k.data[2]) \in Nat
      OBVIOUS
    <3>1. k.data[1] \in Nat /\ k.data[2] \in Nat
      BY SMT, <2>3, TftpAssumption
    <3> QED  BY <3>1, PosFacts
  <2> QED  BY <2>2, <2>3, <2>4 DEF DataPos
<1> QED  BY <1>1, <1>2, <1>3, <1>4, <1>5, <1>6, <1>7, <1>8

\* What is left of a channel.
Rest(q2, q) == q2 = q \/ q2 = <<>> \/ (q # <<>> /\ q2 = Tail(q))

LEMMA RestFacts ==
  ASSUME NEW q \in Seq(ClientPackets), NEW q2, Rest(q2, q)
  PROVE  \E d \in {0, 1} : \A i \in 1..Len(q2) : i + d \in 1..Len(q) /\ q2[i] = q[i + d]
<1>1. CASE q2 = q
  BY SMT, <1>1
<1>2. CASE q2 = <<>>
  BY SMT, <1>2
<1>3. CASE q # <<>> /\ q2 = Tail(q)
  BY SMT, <1>3
<1> QED  BY <1>1, <1>2, <1>3 DEF Rest

\* A step that does not move the client and sends no block.
LEMMA QuietStep ==
  ASSUME NEW c, NEW s, NEW q, NEW post, NEW up, NEW down,
         NEW c2, NEW s2, NEW q2, NEW post2, NEW up2, NEW down2,
         PeerType(c, s, q, post, up, down), PeerOK(c, s, q, post, up, down),
         PeerType(c2, s2, q2, post2, up2, down2),
         Progress(c2) = Progress(c), ClientOK(c2), c2.pc = "done" => c.pc = "done",
         s2.pc = "wait" => s.pc = "wait" /\ s2.req = s.req /\ s2.blk = s.blk,
         Rest(q2, q), post2 \subseteq post, UpOK(Progress(c), up2),
         \A k \in down2 : k.type = "DATA" => k \in down
  PROVE  PeerOK(c2, s2, q2, post2, up2, down2)
<1>1. Ahead(Progress(c2), s2, down2) => Ahead(Progress(c), s, down)
  BY DEF Ahead
<1>2. \A a : Near(c, s, down, a) => Near(c2, s2, down2, a)
  BY <1>1 DEF Near
<1>3. PICK d \in {0, 1} : \A i \in 1..Len(q2) : i + d \in 1..Len(q) /\ q2[i] = q[i + d]
  BY RestFacts DEF PeerType
<1>4. QueueOK(c2, s2, q2, post2, down2)
  <2>1. Len(q2) \in Nat
    BY SMT DEF PeerType
  <2>2. \A i \in 1..Len(q2) : Genuine(q2[i], Progress(c2)) /\ Near(c2, s2, down2, q2[i].at)
    BY <1>2, <1>3 DEF PeerOK, QueueOK
  <2>3. \A i, j \in 1..Len(q2) : i < j => q2[i].at <= q2[j].at + MaxAge
    <3> SUFFICES ASSUME NEW i \in 1..Len(q2), NEW j \in 1..Len(q2), i < j
                 PROVE  q2[i].at <= q2[j].at + MaxAge
      OBVIOUS
    <3>1. i + d \in 1..Len(q) /\ j + d \in 1..Len(q) /\ i + d < j + d
      BY SMT, <1>3, <2>1
    <3>2. q[i + d].at <= q[j + d].at + MaxAge
      BY <3>1 DEF PeerOK, QueueOK
    <3> QED  BY <1>3, <3>2
  <2>4. \A k \in post2 : /\ Genuine(k, Progress(c2)) /\ Near(c2, s2, down2, k.at)
                         /\ \A i \in 1..Len(q2) : q2[i].at <= k.at + MaxAge
    BY <1>2, <1>3 DEF PeerOK, QueueOK
  <2> QED  BY <2>2, <2>3, <2>4 DEF QueueOK
<1>5. RoutineOK(c2, s2, down2)
  BY <1>2 DEF PeerOK, RoutineOK
<1>6. DownOK(Progress(c2), down2)
  BY DEF PeerOK, DownOK
<1> QED  BY <1>4, <1>5, <1>6 DEF PeerOK

\* The same for a step of the client, and for one of the routine.
LEMMA QuietClientStep ==
  ASSUME NEW c, NEW s, NEW q, NEW post, NEW up, NEW down, NEW c2, NEW up2, NEW down2,
         PeerType(c, s, q, post, up, down), PeerOK(c, s, q, post, up, down),
         PeerType(c2, s, q, post, up2, down2),
         Progress(c2) = Progress(c), ClientOK(c2), c2.pc = "done" => c.pc = "done",
         UpOK(Progress(c), up2), down2 \subseteq down
  PROVE  PeerOK(c2, s, q, post, up2, down2)
<1>1. Rest(q, q) /\ post \subseteq post
  BY DEF Rest
<1> QED  BY SMT, <1>1, QuietStep

LEMMA QuietRoutineStep ==
  ASSUME NEW c, NEW s, NEW q, NEW post, NEW up, NEW down, NEW s2, NEW q2, NEW down2,
         PeerType(c, s, q, post, up, down), PeerOK(c, s, q, post, up, down),
         PeerType(c, s2, q2, post, up, down2),
         s2.pc = "wait" => s.pc = "wait" /\ s2.req = s.req /\ s2.blk = s.blk,
         Rest(q2, q), \A k \in down2 : k.type = "DATA" => k \in down
  PROVE  PeerOK(c, s2, q2, post, up, down2)
<1>1. ClientOK(c) /\ UpOK(Progress(c), up) /\ post \subseteq post
  BY DEF PeerOK
<1> QED  BY SMT, <1>1, QuietStep

\* Nothing in the channel, or about to be there, is old.
Recent(now, q, post) ==
    /\ \A i \in 1..Len(q) : now <= q[i].at + MaxAge
    /\ \A k \in post : now <= k.at + MaxAge

\* The only block that is new on the way down is the routine's.
Sends(s, now, down, down2) ==
    \A k \in down2 : k.type = "DATA" =>
        \/ k \in down
        \/ /\ k.data = <<s.req, s.blk>> /\ k.nr = s.blk % Modulus
           /\ s.blk >= 1 /\ k.at = now

\* The routine sends its block, for the first time or again.  When the client
\* has all before it, nothing left in the channel is old.
LEMMA SendStep ==
  ASSUME NEW c, NEW s, NEW q, NEW post, NEW up, NEW down, NEW s2, NEW q2, NEW down2,
         PeerType(c, s, q, post, up, down), PeerOK(c, s, q, post, up, down),
         PeerType(c, s2, q2, post, up, down2),
         s2.pc = "wait", s2.req >= 1, Pos(s2.req, s2.blk) <= Progress(c) + 1,
         Near(c, s, down, Pos(s2.req, s2.blk)), Rest(q2, q),
         Pos(s2.req, s2.blk) = Progress(c) + 1 => Recent(Progress(c), q2, post),
         Sends(s2, Progress(c), down, down2)
  PROVE  PeerOK(c, s2, q2, post, up, down2)
<1> USE DEF Recent, Sends
<1> DEFINE x == Pos(s2.req, s2.blk)
           now == Progress(c)
<1>0. x \in Nat /\ now \in Nat /\ MaxAge \in Nat
  BY PeerFields, TftpAssumption
<1>1. Ahead(now, s2, down2) => Ahead(now, s, down) \/ x = now + 1
  <2> SUFFICES ASSUME Ahead(now, s2, down2) PROVE Ahead(now, s, down) \/ x = now + 1
    OBVIOUS
  <2>1. CASE s2.pc = "wait" /\ Pos(s2.req, s2.blk) = now + 1
    BY <2>1
  <2>2. CASE \E k \in down2 : k.type = "DATA" /\ DataPos(k) = now + 1
    <3>1. PICK k \in down2 : k.type = "DATA" /\ DataPos(k) = now + 1
      BY <2>2
    <3>2. CASE k \in down
      BY <3>1, <3>2 DEF Ahead
    <3>3. CASE k.data = <<s2.req, s2.blk>>
      BY SMT, <3>1, <3>3 DEF DataPos
    <3> QED  BY <3>1, <3>2, <3>3
  <2> QED  BY <2>1, <2>2 DEF Ahead
<1>2. \A a : Near(c, s, down, a) /\ (x = now + 1 => now <= a + MaxAge)
             => Near(c, s2, down2, a)
  BY <1>1 DEF Near
<1>3. PICK d \in {0, 1} : \A i \in 1..Len(q2) : i + d \in 1..Len(q) /\ q2[i] = q[i + d]
  BY RestFacts DEF PeerType
<1>4. QueueOK(c, s2, q2, post, down2)
  <2>1. Len(q2) \in Nat
    BY SMT DEF PeerType
  <2>2. \A i \in 1..Len(q2) : Genuine(q2[i], now) /\ Near(c, s2, down2, q2[i].at)
    BY <1>2, <1>3 DEF PeerOK, QueueOK
  <2>3. \A i, j \in 1..Len(q2) : i < j => q2[i].at <= q2[j].at + MaxAge
    <3> SUFFICES ASSUME NEW i \in 1..Len(q2), NEW j \in 1..Len(q2), i < j
                 PROVE  q2[i].at <= q2[j].at + MaxAge
      OBVIOUS
    <3>1. i + d \in 1..Len(q) /\ j + d \in 1..Len(q) /\ i + d < j + d
      BY SMT, <1>3, <2>1
    <3>2. q[i + d].at <= q[j + d].at + MaxAge
      BY <3>1 DEF PeerOK, QueueOK
    <3> QED  BY <1>3, <3>2
  <2>4. \A k \in post : /\ Genuine(k, now) /\ Near(c, s2, down2, k.at)
                        /\ \A i \in 1..Len(q2) : q2[i].at <= k.at + MaxAge
    BY <1>2, <1>3 DEF PeerOK, QueueOK
  <2> QED  BY <2>2, <2>3, <2>4 DEF QueueOK
<1>5. RoutineOK(c, s2, down2)
  <2>1. x = now + 1 => now <= x + MaxAge
    BY SMT, <1>0
  <2> QED  BY <1>2, <2>1 DEF RoutineOK
<1>6. DownOK(now, down2)
  <2> SUFFICES ASSUME NEW k \in down2, k.type = "DATA"
               PROVE  /\ k.data[2] >= 1 /\ k.nr = k.data[2] % Modulus
                      /\ DataPos(k) <= now + 1 /\ now <= k.at + MaxAge
                      /\ k.at <= DataPos(k) + MaxAge + 2
    BY DEF DownOK
  <2>1. CASE k \in down
    BY <2>1 DEF PeerOK, DownOK
  <2>2. CASE /\ k.data = <<s2.req, s2.blk>> /\ k.nr = s2.blk % Modulus
             /\ s2.blk >= 1 /\ k.at = now
    <3>1. DataPos(k) = x
      BY SMT, <2>2 DEF DataPos
    <3>2. now <= x + MaxAge + 2
      BY DEF Near
    <3> HIDE DEF x, now
    <3>3. k.data[2] >= 1 /\ k.nr = k.data[2] % Modulus
      BY SMT, <2>2
    <3>4. DataPos(k) <= now + 1
      BY <3>1 DEF x, now
    <3> QED  BY SMT, <1>0, <2>2, <3>1, <3>2, <3>3, <3>4
  <2> QED  BY <2>1, <2>2
<1> QED  BY <1>4, <1>5, <1>6 DEF PeerOK

\* The loop takes a packet from the network.
LEMMA ReceiveStep ==
  ASSUME NEW c, NEW s, NEW q, NEW up, NEW down, NEW s2, NEW q2, NEW up2, NEW k \in up,
         PeerType(c, s, q, {}, up, down), PeerOK(c, s, q, {}, up, down),
         PeerType(c, s2, q2, {k}, up2, down),
         s2.pc = "wait" => s.pc = "wait" /\ s2.req = s.req /\ s2.blk = s.blk,
         Rest(q2, q), up2 \subseteq up
  PROVE  PeerOK(c, s2, q2, {k}, up2, down)
<1> DEFINE now == Progress(c)
<1>1. PeerOK(c, s2, q2, {}, up2, down)
  <2>1. UpOK(now, up2) /\ ClientOK(c)
    BY DEF PeerOK, UpOK
  <2>2. PeerType(c, s2, q2, {}, up2, down)
    BY DEF PeerType
  <2> QED  BY <2>1, <2>2, QuietStep
<1>2. Genuine(k, now) /\ now <= k.at + MaxAge /\ k.at \in Nat /\ now \in Nat /\ MaxAge \in Nat
  BY PeerFields, TftpAssumption DEF PeerOK, UpOK
<1>3. Near(c, s2, down, k.at)
  BY SMT, <1>2 DEF Near
<1>4. \A i \in 1..Len(q2) : q2[i].at <= now /\ q2[i].at \in Nat
  BY <1>1, PeerFields DEF PeerOK, QueueOK, Genuine
<1>5. \A i \in 1..Len(q2) : q2[i].at <= k.at + MaxAge
  BY SMT, <1>2, <1>4
<1> HIDE DEF now
<1>6. QueueOK(c, s2, q2, {k}, down)
  BY <1>1, <1>2, <1>3, <1>5 DEF PeerOK, QueueOK, now
<1> QED  BY <1>1, <1>6 DEF PeerOK

\* ... and puts it into the channel.
LEMMA PostStep ==
  ASSUME NEW c, NEW s, NEW q, NEW up, NEW down, NEW k,
         PeerType(c, s, q, {k}, up, down), PeerOK(c, s, q, {k}, up, down)
  PROVE  PeerOK(c, s, Append(q, k), {}, up, down)
<1> DEFINE q2 == Append(q, k)
<1>1. /\ Len(q) \in Nat /\ Len(q2) = Len(q) + 1 /\ q2[Len(q) + 1] = k
      /\ \A i \in 1..Len(q) : q2[i] = q[i]
  BY SMT DEF PeerType
<1> HIDE DEF q2
<1>2. \A i \in 1..Len(q2) : i \in 1..Len(q) \/ i = Len(q) + 1
  BY SMT, <1>1
<1>3. \A i \in 1..Len(q2) : Genuine(q2[i], Progress(c)) /\ Near(c, s, down, q2[i].at)
  BY <1>1, <1>2 DEF PeerOK, QueueOK
<1>4. ASSUME NEW i \in 1..Len(q2), NEW j \in 1..Len(q2), i < j
      PROVE  q2[i].at <= q2[j].at + MaxAge
  <2>1. i \in 1..Len(q)
    BY SMT, <1>1, <1>4
  <2>2. CASE j \in 1..Len(q)
    BY <1>1, <1>4, <2>1, <2>2 DEF PeerOK, QueueOK
  <2>3. CASE j = Len(q) + 1
    BY <1>1, <2>1, <2>3 DEF PeerOK, QueueOK
  <2> QED  BY <1>2, <2>2, <2>3
<1>5. QueueOK(c, s, q2, {}, down)
  BY <1>3, <1>4 DEF QueueOK
<1> QED  BY <1>5 DEF PeerOK, q2

\* The client moves on by one: it takes the block that is on its way, or asks
\* for the next file when it has all of this one.
LEMMA AdvanceStep ==
  ASSUME NEW c, NEW s, NEW q, NEW post, NEW up, NEW down, NEW c2, NEW up2, NEW down2,
         PeerType(c, s, q, post, up, down), PeerOK(c, s, q, post, up, down),
         PeerType(c2, s, q, post, up2, down2),
         Progress(c2) = Progress(c) + 1, ClientOK(c2),
         \/ Ahead(Progress(c), s, down)
         \/ c.pc = "done" /\ c2.pc # "done",
         UpOK(Progress(c2), up2),
         \A k \in down2 : k \in down /\ k.at + MaxAge >= Progress(c2)
  PROVE  PeerOK(c2, s, q, post, up2, down2)
<1> DEFINE now == Progress(c)
           x == Pos(s.req, s.blk)
<1>0. now \in Nat /\ MaxAge \in Nat /\ x \in Nat
  BY PeerFields, TftpAssumption
<1>1. ~Ahead(now + 1, s, down2)
  <2>1. s.pc = "wait" => x # now + 1 + 1
    <3>1. s.pc = "wait" => x <= now + 1
      BY DEF PeerOK, RoutineOK
    <3> HIDE DEF x, now
    <3> QED  BY SMT, <1>0, <3>1
  <2>2. ASSUME NEW k \in down2, k.type = "DATA" PROVE DataPos(k) # now + 1 + 1
    <3>1. DataPos(k) <= now + 1 /\ DataPos(k) \in Nat
      BY <2>2, PeerFields DEF PeerOK, DownOK
    <3> HIDE DEF now
    <3> QED  BY SMT, <1>0, <3>1
  <2> QED  BY <2>1, <2>2 DEF Ahead
<1>2. ASSUME NEW a \in Nat, Near(c, s, down, a) PROVE Near(c2, s, down2, a)
  <2>1. \/ now <= a + MaxAge
        \/ c2.pc # "done" /\ now <= a + MaxAge + 1
    BY <1>2 DEF Near
  <2>2. now + 1 <= a + MaxAge + 2 /\ (c2.pc = "done" => now + 1 <= a + MaxAge + 1)
    <3> HIDE DEF now
    <3> QED  BY SMT, <1>0, <2>1
  <2> QED  BY <1>1, <2>2 DEF Near
<1>3. \A k : k.at \in Nat /\ Genuine(k, now) => Genuine(k, now + 1)
  <2> HIDE DEF now
  <2> QED  BY SMT, <1>0 DEF Genuine
<1>4. QueueOK(c2, s, q, post, down2)
  <2>1. /\ \A i \in 1..Len(q) : q[i].at \in Nat
        /\ \A k \in post : k.at \in Nat
    BY PeerFields
  <2> HIDE DEF now
  <2>2. \A i \in 1..Len(q) : Genuine(q[i], Progress(c2)) /\ Near(c2, s, down2, q[i].at)
    BY <1>2, <1>3, <2>1 DEF PeerOK, QueueOK, now
  <2>3. \A k \in post : Genuine(k, Progress(c2)) /\ Near(c2, s, down2, k.at)
    BY <1>2, <1>3, <2>1 DEF PeerOK, QueueOK, now
  <2> QED  BY <2>2, <2>3 DEF PeerOK, QueueOK
<1>5. RoutineOK(c2, s, down2)
  <2> SUFFICES ASSUME s.pc = "wait"
               PROVE  s.req >= 1 /\ x <= Progress(c2) + 1 /\ Near(c2, s, down2, x)
    BY DEF RoutineOK
  <2>1. s.req >= 1 /\ x <= now + 1 /\ Near(c, s, down, x)
    BY DEF PeerOK, RoutineOK
  <2> HIDE DEF x, now
  <2>2. Near(c2, s, down2, x)
    BY <1>0, <1>2, <2>1
  <2>3. Progress(c2) = now + 1
    BY DEF now
  <2> QED  BY SMT, <1>0, <2>1, <2>2, <2>3
<1>6. DownOK(Progress(c2), down2)
  <2> SUFFICES ASSUME NEW k \in down2, k.type = "DATA"
               PROVE  /\ k.data[2] >= 1 /\ k.nr = k.data[2] % Modulus
                      /\ DataPos(k) <= Progress(c2) + 1 /\ Progress(c2) <= k.at + MaxAge
                      /\ k.at <= DataPos(k) + MaxAge + 2
    BY DEF DownOK
  <2>1. /\ k.data[2] >= 1 /\ k.nr = k.data[2] % Modulus
        /\ DataPos(k) <= now + 1 /\ k.at <= DataPos(k) + MaxAge + 2
    BY DEF PeerOK, DownOK
  <2>2. DataPos(k) \in Nat /\ k.at \in Nat
    BY PeerFields
  <2>3. Progress(c2) = now + 1 /\ k.at + MaxAge >= Progress(c2)
    OBVIOUS
  <2> HIDE DEF now
  <2> QED  BY SMT, <1>0, <2>1, <2>2, <2>3
<1> QED  BY <1>4, <1>5, <1>6 DEF PeerOK

\* Before the first request there is nothing anywhere.
LEMMA FirstStep ==
  ASSUME NEW c, NEW s, NEW q, NEW post, NEW up, NEW down, NEW c2, NEW up2, NEW down2,
         PeerType(c, s, q, post, up, down), PeerOK(c, s, q, post, up, down),
         PeerType(c2, s, q, post, up2, down2),
         c.pc = "idle", ClientOK(c2), UpOK(Progress(c2), up2), down2 \subseteq down
  PROVE  PeerOK(c2, s, q, post, up2, down2)
<1>1. Progress(c) = 0
  BY SMT, TftpAssumption DEF PeerOK, ClientOK, Progress
<1>2. Pos(1, 0) = Blocks + 1 /\ Pos(1, 0) > 1
  BY SMT, TftpAssumption DEF Pos
<1>3. \A k : k.at \in Nat => ~Genuine(k, Progress(c))
  BY SMT, <1>1, <1>2, TftpAssumption DEF Genuine
<1>4. Len(q) = 0 /\ post = {}
  <2>1. \A i \in 1..Len(q) : FALSE
    BY <1>3, PeerFields DEF PeerOK, QueueOK
  <2>2. \A k \in post : FALSE
    BY <1>3, PeerFields DEF PeerOK, QueueOK
  <2>3. Len(q) \in Nat
    BY PeerFields
  <2> QED  BY SMT, <2>1, <2>2, <2>3
<1>5. ASSUME NEW r \in Nat, r >= 1, NEW b \in Nat PROVE Pos(r, b) > 1
  <2>1. CASE r = 1
    BY SMT, <2>1, TftpAssumption DEF Pos
  <2>2. CASE 1 < r
    <3>1. Pos(r, b) >= Pos(1, Blocks) + 1 + b
      BY <2>2, PosLater
    <3>2. Pos(1, Blocks) \in Nat /\ Pos(1, Blocks) > 1
      BY SMT, TftpAssumption DEF Pos
    <3>3. Pos(r, b) \in Nat
      BY PosFacts
    <3> QED  BY SMT, <3>1, <3>2, <3>3
  <2> QED  BY SMT, <1>5, <2>1, <2>2
<1>6. s.pc # "wait"
  <2> SUFFICES ASSUME s.pc = "wait" PROVE FALSE
    OBVIOUS
  <2>1. s.req \in Nat /\ s.blk \in Nat /\ s.req >= 1 /\ Pos(s.req, s.blk) <= 1
    BY SMT, <1>1, PeerFields, TftpAssumption DEF PeerOK, RoutineOK
  <2>2. Pos(s.req, s.blk) > 1 /\ Pos(s.req, s.blk) \in Nat
    BY <1>5, <2>1, PosFacts
  <2> QED  BY SMT, <2>1, <2>2
<1>7. \A k \in down : k.type # "DATA"
  <2> SUFFICES ASSUME NEW k \in down, k.type = "DATA" PROVE FALSE
    OBVIOUS
  <2>1. k.data[1] \in Nat /\ k.data[2] \in Nat /\ k.data[1] >= 1
    BY SMT, PeerFields, TftpAssumption
  <2>2. DataPos(k) <= 0 + 1
    BY <1>1 DEF PeerOK, DownOK
  <2>3. Pos(k.data[1], k.data[2]) > 1 /\ Pos(k.data[1], k.data[2]) \in Nat
    BY <1>5, <2>1, PosFacts
  <2> QED  BY SMT, <2>2, <2>3 DEF DataPos
<1>8. QueueOK(c2, s, q, post, down2)
  BY SMT, <1>4 DEF QueueOK
<1> QED  BY <1>6, <1>7, <1>8 DEF PeerOK, RoutineOK, DownOK

-----------------------------------------------------------------------------
\* The steps of the specification.

Peer(p) == PeerOK(client[p], session[p], chan[p], Posted(p), toServer[p], toClient[p])

LEMMA PeerTyped ==
  ASSUME TypeInv, NEW p \in Peers
  PROVE  PeerType(client[p], session[p], chan[p], Posted(p), toServer[p], toClient[p])
BY DEF TypeInv, TypeOK, PeerType, Posted

LEMMA PeerTypedNext ==
  ASSUME TypeInv', NEW p \in Peers
  PROVE  PeerType(client[p], session[p], chan[p], Posted(p), toServer[p], toClient[p])'
BY DEF TypeInv, TypeOK, PeerType, Posted

\* A step of one peer leaves the others alone.
LEMMA OnePeer ==
  ASSUME StepInv, TypeInv', NEW p \in Peers, Peer(p)',
         \A x \in Peers \ {p} :
            /\ client'[x] = client[x] /\ session'[x] = session[x] /\ chan'[x] = chan[x]
            /\ toServer'[x] = toServer[x] /\ toClient'[x] = toClient[x]
            /\ Posted(x)' = Posted(x)
  PROVE  StepInv'
<1>1. ASSUME NEW x \in Peers
      PROVE  PeerOK(client[x], session[x], chan[x], Posted(x), toServer[x], toClient[x])'
  <2>1. CASE x = p
    BY <2>1 DEF Peer
  <2>2. CASE x # p
    <3>1. PeerOK(client[x], session[x], chan[x], Posted(x), toServer[x], toClient[x])
      BY DEF StepInv
    <3> QED  BY <2>2, <3>1
  <2> QED  BY <2>1, <2>2
<1> QED  BY <1>1 DEF StepInv

LEMMA SamePosting ==
  ASSUME UNCHANGED posting, NEW x PROVE Posted(x)' = Posted(x)
BY DEF Posted

\* A step of the routine of p.
OnlyRoutine(p) ==
    /\ UNCHANGED <<posting, client, toServer>>
    /\ \A x \in Peers \ {p} : /\ session'[x] = session[x] /\ chan'[x] = chan[x]
                              /\ toClient'[x] = toClient[x]

LEMMA QuietRoutine ==
  ASSUME StepInv, TypeInv', NEW p \in Peers, OnlyRoutine(p),
         session'[p].pc = "wait" => /\ session[p].pc = "wait"
                                    /\ session'[p].req = session[p].req
                                    /\ session'[p].blk = session[p].blk,
         Rest(chan'[p], chan[p]),
         \A k \in toClient'[p] : k.type = "DATA" => k \in toClient[p]
  PROVE  StepInv'
<1>1. PeerType(client[p], session[p], chan[p], Posted(p), toServer[p], toClient[p])
  BY PeerTyped DEF StepInv
<1>2. PeerType(client[p], session[p], chan[p], Posted(p), toServer[p], toClient[p])'
  BY PeerTypedNext
<1>3. Posted(p)' = Posted(p) /\ client' = client /\ toServer' = toServer
  BY SamePosting DEF OnlyRoutine
<1>4. PeerOK(client[p], session[p], chan[p], Posted(p), toServer[p], toClient[p])
  BY DEF StepInv
<1>5. PeerOK(client[p], session'[p], chan'[p], Posted(p), toServer[p], toClient'[p])
  <2>1. PeerType(client[p], session'[p], chan'[p], Posted(p), toServer[p], toClient'[p])
    BY <1>2, <1>3
  <2> QED  BY <1>1, <1>4, <2>1, QuietRoutineStep
<1>6. Peer(p)'
  BY <1>3, <1>5 DEF Peer
<1> QED  BY <1>6, OnePeer, SamePosting DEF OnlyRoutine

\* The routine returns: it waits for no acknowledgement any more.
LEMMA ReturnStep ==
  ASSUME StepInv, TypeInv', NEW p \in Peers, UNCHANGED <<posting, client, toServer>>,
         Return(p), toClient' = toClient \/ writeError(p),
         chan' = chan \/ (chan[p] # <<>> /\ chan' = [chan EXCEPT ![p] = Tail(@)])
  PROVE  StepInv'
<1> USE DEF StepInv, TypeInv
<1>1. /\ session'[p].pc = "returned"
      /\ \A x \in Peers \ {p} : session'[x] = session[x]
  BY DEF Return, Idle, TypeOK
<1>2. /\ Rest(chan'[p], chan[p])
      /\ \A x \in Peers \ {p} : chan'[x] = chan[x]
  BY DEF Rest, TypeOK
<1>3. /\ \A k \in toClient'[p] : k.type = "DATA" => k \in toClient[p]
      /\ \A x \in Peers \ {p} : toClient'[x] = toClient[x]
  BY SMT DEF writeError, Write, TypeOK
<1>4. OnlyRoutine(p)
  BY <1>1, <1>2, <1>3 DEF OnlyRoutine
<1> HIDE DEF StepInv, TypeInv
<1> QED  BY <1>1, <1>2, <1>3, <1>4, QuietRoutine

\* The routine has read k, which asks for a block or acknowledges the one
\* before it, and sends that block.
LEMMA SendNextStep ==
  ASSUME StepInv, TypeInv', NEW p \in Peers, chan[p] # <<>>,
         chan' = [chan EXCEPT ![p] = Tail(@)], UNCHANGED <<posting, client, toServer>>,
         NEW r \in 1..MaxRequests, NEW b \in 0..Blocks,
         Pos(r, b) = Head(chan[p]).at \/ Pos(r, b) = Head(chan[p]).at + 1,
         Write(p, PacketOf(p, r, b)),
         session' = [session EXCEPT ![p] =
                       [pc |-> "wait", req |-> r, blk |-> b, sends |-> 1]]
  PROVE  StepInv'
<1> DEFINE c == client[p]
           s == session[p]
           q == chan[p]
           s2 == session'[p]
           now == Progress(c)
           a == q[1].at
           x == Pos(r, b)
<1>0. TypeOK
  BY DEF StepInv, TypeInv
<1>1. /\ s2.pc = "wait" /\ s2.req = r /\ s2.blk = b
      /\ \A y \in Peers \ {p} : session'[y] = session[y]
  BY <1>0 DEF TypeOK
<1>2. /\ chan'[p] = Tail(q) /\ Rest(chan'[p], q)
      /\ \A y \in Peers \ {p} : chan'[y] = chan[y]
      /\ Head(q) = q[1] /\ Len(q) \in Nat /\ Len(q) >= 1
      /\ Len(Tail(q)) = Len(q) - 1 /\ \A i \in 1..Len(q) - 1 : Tail(q)[i] = q[i + 1]
  BY SMT, <1>0 DEF Rest, TypeOK
<1>3. /\ toClient'[p] = toClient[p] \cup {PacketOf(p, r, b)}
      /\ \A y \in Peers \ {p} : toClient'[y] = toClient[y]
  BY <1>0 DEF Write, TypeOK
<1>4. PeerType(c, s, q, Posted(p), toServer[p], toClient[p])
  BY PeerTyped DEF StepInv
<1>5. Posted(p)' = Posted(p) /\ client' = client /\ toServer' = toServer
  BY SamePosting
<1>6. PeerType(c, s2, Tail(q), Posted(p), toServer[p], toClient'[p])
  <2>1. PeerType(client[p], session[p], chan[p], Posted(p), toServer[p], toClient[p])'
    BY PeerTypedNext
  <2> QED  BY <1>2, <1>5, <2>1
<1>7. PeerOK(c, s, q, Posted(p), toServer[p], toClient[p])
  BY DEF StepInv
<1>8. /\ now \in Nat /\ a \in Nat /\ x \in Nat /\ MaxAge \in Nat
      /\ \A i \in 1..Len(q) : q[i].at \in Nat
  <2>1. r \in Nat /\ b \in Nat
    BY SMT, TftpAssumption
  <2>2. x \in Nat
    BY <2>1, PosFacts
  <2>3. now \in Nat /\ \A i \in 1..Len(q) : q[i].at \in Nat
    BY <1>4, PeerFields
  <2> QED  BY SMT, <1>2, <2>2, <2>3, TftpAssumption
<1>9. x = a \/ x = a + 1
  BY <1>2
<1>10. a <= now /\ Near(c, s, toClient[p], a)
  <2>1. 1 \in 1..Len(q)
    BY SMT, <1>2
  <2> QED  BY <1>2, <1>7, <2>1 DEF PeerOK, QueueOK, Genuine
<1>11. x <= now + 1 /\ Near(c, s, toClient[p], x)
  <2> HIDE DEF x, a, now
  <2>1. x <= now + 1
    BY SMT, <1>8, <1>9, <1>10
  <2>2. Near(c, s, toClient[p], x)
    BY SMT, <1>8, <1>9, <1>10 DEF Near, now
  <2> QED  BY <2>1, <2>2
<1>12. ASSUME x = now + 1
       PROVE  Recent(now, Tail(q), Posted(p))
  <2>1. a = now
    <3> HIDE DEF x, a, now
    <3> QED  BY SMT, <1>8, <1>9, <1>10, <1>12
  <2>2. \A i \in 1..Len(q) - 1 : q[1].at <= q[i + 1].at + MaxAge
    <3> TAKE i \in 1..Len(q) - 1
    <3>1. 1 \in 1..Len(q) /\ i + 1 \in 1..Len(q) /\ 1 < i + 1
      BY SMT, <1>2
    <3> QED  BY <1>7, <3>1 DEF PeerOK, QueueOK
  <2>3. \A k \in Posted(p) : q[1].at <= k.at + MaxAge
    <3>1. 1 \in 1..Len(q)
      BY SMT, <1>2
    <3> QED  BY <1>7, <3>1 DEF PeerOK, QueueOK
  <2> QED  BY SMT, <1>2, <2>1, <2>2, <2>3 DEF Recent
<1>13. ASSUME NEW k \in toClient'[p], k.type = "DATA"
       PROVE  \/ k \in toClient[p]
              \/ /\ k.data = <<s2.req, s2.blk>> /\ k.nr = s2.blk % Modulus
                 /\ s2.blk >= 1 /\ k.at = now
  BY SMT, <1>1, <1>3, <1>13 DEF PacketOf, Clock
<1>14. PeerOK(c, s2, Tail(q), Posted(p), toServer[p], toClient'[p])
  <2>1. s2.req >= 1 /\ Pos(s2.req, s2.blk) = x /\ Rest(Tail(q), q)
    BY SMT, <1>1, <1>2
  <2>2. /\ Pos(s2.req, s2.blk) <= Progress(c) + 1
        /\ Near(c, s, toClient[p], Pos(s2.req, s2.blk))
    BY <1>11, <2>1
  <2>3. Pos(s2.req, s2.blk) = Progress(c) + 1 => Recent(Progress(c), Tail(q), Posted(p))
    BY <1>12, <2>1
  <2>4. Sends(s2, Progress(c), toClient[p], toClient'[p])
    BY <1>13 DEF Sends
  <2> HIDE DEF c, s, q, s2
  <2> QED  BY <1>1, <1>4, <1>6, <1>7, <2>1, <2>2, <2>3, <2>4, SendStep
<1>15. Peer(p)'
  BY <1>2, <1>5, <1>14 DEF Peer
<1> QED  BY <1>1, <1>2, <1>3, <1>5, <1>15, OnePeer, SamePosting

\* The routine sends the block it waits for once more.
LEMMA ResendStep ==
  ASSUME StepInv, TypeInv', NEW p \in Peers, UNCHANGED <<posting, client, toServer, chan>>,
         session[p].pc = "wait", Write(p, PacketOf(p, session[p].req, session[p].blk)),
         session' = [session EXCEPT ![p].sends = @ + 1]
  PROVE  StepInv'
<1> DEFINE c == client[p]
           s == session[p]
           q == chan[p]
           s2 == session'[p]
           x == Pos(s.req, s.blk)
<1>0. TypeOK
  BY DEF StepInv, TypeInv
<1>1. /\ s2.pc = "wait" /\ s2.req = s.req /\ s2.blk = s.blk
      /\ \A y \in Peers \ {p} : session'[y] = session[y]
  BY <1>0 DEF TypeOK, Sessions
<1>2. /\ toClient'[p] = toClient[p] \cup {PacketOf(p, s.req, s.blk)}
      /\ \A y \in Peers \ {p} : toClient'[y] = toClient[y]
  BY <1>0 DEF Write, TypeOK
<1>3. PeerType(c, s, q, Posted(p), toServer[p], toClient[p])
  BY PeerTyped DEF StepInv
<1>4. Posted(p)' = Posted(p) /\ client' = client /\ toServer' = toServer /\ chan' = chan
  BY SamePosting
<1>5. PeerType(c, s2, q, Posted(p), toServer[p], toClient'[p])
  <2>1. PeerType(client[p], session[p], chan[p], Posted(p), toServer[p], toClient[p])'
    BY PeerTypedNext
  <2> QED  BY <1>4, <2>1
<1>6. PeerOK(c, s, q, Posted(p), toServer[p], toClient[p])
  BY DEF StepInv
<1>7. s.req >= 1 /\ x <= Progress(c) + 1 /\ Near(c, s, toClient[p], x)
  BY <1>6 DEF PeerOK, RoutineOK
<1>8. x = Progress(c) + 1 => Recent(Progress(c), q, Posted(p))
  <2>1. x = Progress(c) + 1 => Ahead(Progress(c), s, toClient[p])
    BY DEF Ahead
  <2> QED  BY <1>6, <2>1 DEF PeerOK, QueueOK, Near, Recent
<1>9. Sends(s2, Progress(c), toClient[p], toClient'[p])
  <2>1. s.blk \in Nat
    BY SMT, <1>0, TftpAssumption DEF TypeOK, Sessions
  <2> QED  BY SMT, <1>1, <1>2, <2>1 DEF PacketOf, Clock, Sends
<1>10. Rest(q, q)
  BY DEF Rest
<1>11. PeerOK(c, s2, q, Posted(p), toServer[p], toClient'[p])
  <2> HIDE DEF c, s, q, s2
  <2> QED  BY <1>1, <1>3, <1>5, <1>6, <1>7, <1>8, <1>9, <1>10, SendStep
<1>12. Peer(p)'
  BY <1>4, <1>11 DEF Peer
<1> QED  BY <1>1, <1>2, <1>4, <1>12, OnePeer, SamePosting

\* An acknowledgement with the number the routine waits for is the one of its
\* block.
LEMMA AckIsRight ==
  ASSUME Apart, StepInv, NEW p \in Peers, session[p].pc = "wait", chan[p] # <<>>,
         ackValidator(Head(chan[p]), session[p].blk % Modulus)
  PROVE  Head(chan[p]).at = Pos(session[p].req, session[p].blk)
<1> DEFINE c == client[p]
           s == session[p]
           q == chan[p]
           x == Pos(s.req, s.blk)
           now == Progress(c)
<1>1. PeerType(c, s, q, Posted(p), toServer[p], toClient[p])
  BY PeerTyped DEF StepInv
<1>2. PeerOK(c, s, q, Posted(p), toServer[p], toClient[p])
  BY DEF StepInv
<1>3. Head(q) = q[1] /\ 1 \in 1..Len(q)
  BY SMT, <1>1 DEF PeerType
<1>4. Genuine(q[1], now) /\ Near(c, s, toClient[p], q[1].at)
  BY <1>2, <1>3 DEF PeerOK, QueueOK
<1>5. PICK r \in 1..MaxRequests, b \in 0..Blocks : q[1].at = Pos(r, b) /\ q[1].nr = b % Modulus
  BY <1>3, <1>4 DEF Genuine, ackValidator
<1>6. b % Modulus = s.blk % Modulus
  BY <1>3, <1>5 DEF ackValidator
<1>7. s.req \in 1..MaxRequests /\ s.blk \in 0..Blocks
  <2>1. s.req \in 0..MaxRequests /\ s.blk \in 0..Blocks
    BY <1>1, PeerFields
  <2>2. s.req >= 1
    BY <1>2 DEF PeerOK, RoutineOK
  <2> HIDE DEF s
  <2> QED  BY SMT, <2>1, <2>2, TftpAssumption
<1>8. now \in Nat /\ q[1].at \in Nat /\ x \in Nat /\ MaxAge \in Nat
  BY <1>1, <1>3, PeerFields, TftpAssumption
<1>9. q[1].at <= now /\ now <= q[1].at + MaxAge + 2 /\ x <= now + 1 /\ now <= x + MaxAge + 2
  BY <1>2, <1>4 DEF Genuine, Near, PeerOK, RoutineOK
<1> HIDE DEF x, now
<1>10. q[1].at <= x + Slack /\ x <= q[1].at + Slack
  <2> DEFINE a == q[1].at
  <2>1. a \in Nat /\ a <= now /\ now <= a + MaxAge + 2
    BY <1>8, <1>9
  <2> HIDE DEF a
  <2>2. a <= x + Slack /\ x <= a + Slack
    BY SMT, <1>8, <1>9, <2>1 DEF Slack
  <2> QED  BY <2>2 DEF a
<1>11. r = s.req /\ b = s.blk
  BY SMT, <1>5, <1>6, <1>7, <1>10, NumbersTell DEF x
<1> QED  BY <1>3, <1>5, <1>11

LEMMA RoutineSteps ==
  ASSUME Apart, StepInv, NEW p \in Peers, Routine(p) PROVE StepInv'
<1>0. TypeInv' /\ TypeInv /\ TypeOK
  BY RoutineTypes DEF StepInv, TypeInv
<1>00. PeerType(client[p], session[p], chan[p], Posted(p), toServer[p], toClient[p])
       /\ PeerOK(client[p], session[p], chan[p], Posted(p), toServer[p], toClient[p])
  BY <1>0, PeerTyped DEF StepInv
<1> DEFINE s == session[p]
           k == Head(chan[p])
<1>1. CASE serve(p)
  <2>1. /\ chan[p] # <<>> /\ chan' = [chan EXCEPT ![p] = Tail(@)]
        /\ UNCHANGED <<posting, client, toServer>>
    BY <1>1 DEF serve
  <2>2. CASE Return(p) /\ (toClient' = toClient \/ writeError(p))
    BY <1>0, <2>1, <2>2, ReturnStep
  <2>3. CASE k.type = "RRQ" /\ SendBlock(p, k.req, IF k.options THEN 0 ELSE 1)
    <3> DEFINE b == IF k.options THEN 0 ELSE 1
    <3>1. k.req \in 1..MaxRequests /\ k.req \in Nat /\ b \in 0..Blocks
      BY SMT, <1>0, <2>1, <2>3, HeadType, ClientPacketFields, TftpAssumption
    <3>2. k.at = Pos(k.req, 0)
      <4>1. k = chan[p][1] /\ 1 \in 1..Len(chan[p])
        BY SMT, <1>0, <2>1 DEF TypeOK
      <4> QED  BY <1>00, <2>3, <4>1 DEF PeerOK, QueueOK, Genuine
    <3>3. Pos(k.req, b) = k.at \/ Pos(k.req, b) = k.at + 1
      <4>1. Pos(k.req, 0 + 1) = Pos(k.req, 0) + 1
        BY <3>1, PosFacts
      <4> QED  BY SMT, <3>2, <4>1
    <3>4. CASE Write(p, PacketOf(p, k.req, b)) /\ session' = [session EXCEPT ![p] =
                   [pc |-> "wait", req |-> k.req, blk |-> b, sends |-> 1]]
      <4> HIDE DEF b
      <4> QED  BY <1>0, <2>1, <3>1, <3>3, <3>4, SendNextStep
    <3>5. CASE Return(p) /\ (toClient' = toClient \/ writeError(p))
      BY <3>5, <2>2
    <3> QED  BY <2>3, <3>4, <3>5 DEF SendBlock
  <2> QED  BY <1>1, <2>2, <2>3 DEF serve, serveRRQ
<1>2. CASE serveTimeout(p)
  BY <1>0, <1>2, ReturnStep DEF serveTimeout
<1>3. CASE ReadReply(p)
  <2>1. /\ chan[p] # <<>> /\ chan' = [chan EXCEPT ![p] = Tail(@)] /\ s.pc = "wait"
        /\ UNCHANGED <<posting, client, toServer>>
    BY <1>3 DEF ReadReply
  <2>2. CASE Return(p) /\ (toClient' = toClient \/ writeError(p))
    BY <1>0, <2>1, <2>2, ReturnStep
  <2>3. CASE UNCHANGED <<session, toClient>>
    <3>1. OnlyRoutine(p) /\ Rest(chan'[p], chan[p])
      BY <1>0, <2>1, <2>3 DEF OnlyRoutine, Rest, TypeOK
    <3> QED  BY <1>0, <2>1, <2>3, <3>1, QuietRoutine
  <2>4. CASE ackValidator(k, s.blk % Modulus) /\ s.blk < Blocks /\ SendBlock(p, s.req, s.blk + 1)
    <3>1. s.req \in 1..MaxRequests /\ s.req \in Nat /\ s.blk \in Nat /\ s.blk + 1 \in 0..Blocks
      <4>1. s.req \in 0..MaxRequests /\ s.blk \in 0..Blocks
        BY <1>00, PeerFields
      <4>2. s.req >= 1
        BY <1>00, <2>1 DEF PeerOK, RoutineOK
      <4> QED  BY SMT, <2>4, <4>1, <4>2, TftpAssumption
    <3>2. k.at = Pos(s.req, s.blk)
      BY <2>1, <2>4, AckIsRight
    <3>3. Pos(s.req, s.blk + 1) = k.at + 1
      BY <3>1, <3>2, PosFacts
    <3>4. CASE Write(p, PacketOf(p, s.req, s.blk + 1)) /\ session' = [session EXCEPT ![p] =
                   [pc |-> "wait", req |-> s.req, blk |-> s.blk + 1, sends |-> 1]]
      <4> DEFINE b == s.blk + 1
      <4>1. /\ b \in 0..Blocks /\ Pos(s.req, b) = k.at + 1 /\ Write(p, PacketOf(p, s.req, b))
            /\ session' = [session EXCEPT ![p] =
                             [pc |-> "wait", req |-> s.req, blk |-> b, sends |-> 1]]
        BY <3>1, <3>3, <3>4
      <4> HIDE DEF b
      <4> QED  BY <1>0, <2>1, <3>1, <4>1, SendNextStep
    <3>5. CASE Return(p) /\ (toClient' = toClient \/ writeError(p))
      BY <3>5, <2>2
    <3> QED  BY <2>4, <3>4, <3>5 DEF SendBlock
  <2> QED  BY <1>3, <2>2, <2>3, <2>4 DEF ReadReply
<1>4. CASE ReplyTimeout(p)
  <2>1. UNCHANGED <<posting, client, toServer, chan>> /\ s.pc = "wait"
    BY <1>4 DEF ReplyTimeout
  <2>2. CASE Return(p) /\ UNCHANGED toClient
    BY <1>0, <2>1, <2>2, ReturnStep
  <2>3. CASE /\ Write(p, PacketOf(p, s.req, s.blk))
             /\ session' = [session EXCEPT ![p].sends = @ + 1]
    BY <1>0, <2>1, <2>3, ResendStep
  <2> QED  BY <1>4, <2>2, <2>3 DEF ReplyTimeout
<1>5. CASE Leave(p)
  <2>1. session'[p].pc # "wait" /\ \A x \in Peers \ {p} : session'[x] = session[x]
    BY SMT, <1>0, <1>5 DEF Leave, Idle, TypeOK
  <2>2. OnlyRoutine(p) /\ Rest(chan'[p], chan[p]) /\ toClient' = toClient
    BY <1>5, <2>1 DEF OnlyRoutine, Rest, Leave
  <2> QED  BY <1>0, <2>1, <2>2, QuietRoutine
<1> QED  BY <1>1, <1>2, <1>3, <1>4, <1>5 DEF Routine

\* The receiving loop.
LEMMA LoopSteps ==
  ASSUME StepInv, Post \/ \E p \in Peers : Receive(p) PROVE StepInv'
<1>0. TypeInv' /\ TypeInv /\ TypeOK
  BY LoopTypes DEF StepInv, TypeInv
<1>1. CASE Post
  <2>1. PICK p \in Peers, k \in ClientPackets :
          p = posting.peer /\ k = posting.packet /\ posting # NoPacket
    BY <1>0, <1>1 DEF Post, TypeOK
  <2>2. /\ Posted(p) = {k} /\ \A x \in Peers \ {p} : Posted(x) = {}
        /\ \A x \in Peers : Posted(x)' = {}
    BY <1>1, <2>1 DEF Posted, Post
  <2>3. /\ PeerType(client[p], session[p], chan[p], {k}, toServer[p], toClient[p])
        /\ PeerOK(client[p], session[p], chan[p], {k}, toServer[p], toClient[p])
    BY <1>0, <2>1, <2>2, PeerTyped DEF StepInv
  <2>4. UNCHANGED <<session, client, toServer, toClient>>
    BY <1>1 DEF Post
  <2>5. CASE chan' = [chan EXCEPT ![p] = Append(@, k)]
    <3>1. chan'[p] = Append(chan[p], k) /\ \A x \in Peers \ {p} : chan'[x] = chan[x]
      BY <1>0, <2>1, <2>5 DEF TypeOK
    <3>2. PeerOK(client[p], session[p], chan'[p], {}, toServer[p], toClient[p])
      BY <2>3, <3>1, PostStep
    <3>3. Peer(p)'
      BY <2>1, <2>2, <2>4, <3>2 DEF Peer
    <3> QED  BY <1>0, <2>1, <2>2, <2>4, <3>1, <3>3, OnePeer
  <2>6. CASE chan' = chan
    <3>1. PeerType(client[p], session[p], chan[p], {}, toServer[p], toClient[p])
      BY <2>3 DEF PeerType
    <3>2. PeerOK(client[p], session[p], chan[p], {}, toServer[p], toClient[p])
      BY <2>3, <3>1, QuietStep DEF PeerOK, Rest
    <3>3. Peer(p)'
      BY <2>1, <2>2, <2>4, <2>6, <3>2 DEF Peer
    <3> QED  BY <1>0, <2>1, <2>2, <2>4, <2>6, <3>3, OnePeer
  <2> QED  BY <1>1, <2>1, <2>5, <2>6 DEF Post
<1>2. ASSUME NEW p \in Peers, Receive(p) PROVE StepInv'
  <2>1. PICK k \in toServer[p] :
          /\ posting' = [peer |-> p, packet |-> k]
          /\ \/ toServer' = [toServer EXCEPT ![p] = @ \ {k}]
             \/ UNCHANGED toServer
    BY <1>2 DEF Receive
  <2>2. k \in ClientPackets
    BY <1>0 DEF TypeOK
  <2>3. /\ \A x \in Peers : Posted(x) = {}
        /\ \A x \in Peers \ {p} : Posted(x)' = {}
        /\ Posted(p)' \subseteq {k}
    BY <1>2, <2>1, <2>2 DEF Posted, Receive
  <2>4. toServer'[p] \subseteq toServer[p] /\ \A x \in Peers \ {p} : toServer'[x] = toServer[x]
    BY <1>0, <2>1 DEF TypeOK
  <2>5. /\ session'[p].pc = "wait" => session'[p] = session[p]
        /\ Rest(chan'[p], chan[p])
        /\ \A x \in Peers \ {p} : session'[x] = session[x] /\ chan'[x] = chan[x]
    BY SMT, <1>0, <1>2 DEF Receive, Rest, TypeOK, Idle
  <2>6. UNCHANGED <<client, toClient>>
    BY <1>2 DEF Receive
  <2>7. /\ PeerType(client[p], session[p], chan[p], {}, toServer[p], toClient[p])
        /\ PeerOK(client[p], session[p], chan[p], {}, toServer[p], toClient[p])
    BY <1>0, <2>3, PeerTyped DEF StepInv
  <2>8. PeerType(client[p], session'[p], chan'[p], Posted(p)', toServer'[p], toClient[p])
    BY <1>0, <2>6, PeerTypedNext
  <2>9. PeerType(client[p], session'[p], chan'[p], {k}, toServer'[p], toClient[p])
    BY <2>2, <2>8 DEF PeerType
  <2>10. PeerOK(client[p], session'[p], chan'[p], {k}, toServer'[p], toClient[p])
    BY <2>4, <2>5, <2>7, <2>9, ReceiveStep
  <2>11. PeerOK(client[p], session'[p], chan'[p], Posted(p)', toServer'[p], toClient[p])
    BY <2>3, <2>8, <2>9, <2>10, QuietStep DEF PeerOK, Rest
  <2>12. Peer(p)'
    BY <2>6, <2>11 DEF Peer
  <2> QED  BY <1>0, <2>3, <2>4, <2>5, <2>6, <2>12, OnePeer
<1> QED  BY <1>1, <1>2

\* A step of the client of p.
OnlyClient(p) ==
    /\ UNCHANGED server
    /\ \A x \in Peers \ {p} : /\ client'[x] = client[x] /\ toServer'[x] = toServer[x]
                              /\ toClient'[x] = toClient[x]

LEMMA ClientStep ==
  ASSUME StepInv, TypeInv', NEW p \in Peers, OnlyClient(p),
         PeerOK(client'[p], session[p], chan[p], Posted(p), toServer'[p], toClient'[p])
  PROVE  StepInv'
<1>1. session' = session /\ chan' = chan /\ \A x : Posted(x)' = Posted(x)
  BY DEF OnlyClient, server, Posted
<1>2. Peer(p)'
  BY <1>1 DEF Peer
<1> QED  BY <1>1, <1>2, OnePeer DEF OnlyClient

LEMMA ClientTyped ==
  ASSUME TypeInv', NEW p \in Peers, OnlyClient(p)
  PROVE  PeerType(client'[p], session[p], chan[p], Posted(p), toServer'[p], toClient'[p])
<1>1. session' = session /\ chan' = chan /\ Posted(p)' = Posted(p)
  BY DEF OnlyClient, server, Posted
<1>2. PeerType(client[p], session[p], chan[p], Posted(p), toServer[p], toClient[p])'
  BY PeerTypedNext
<1> QED  BY <1>1, <1>2

LEMMA QuietClient ==
  ASSUME StepInv, TypeInv', NEW p \in Peers, OnlyClient(p),
         Progress(client'[p]) = Progress(client[p]), ClientOK(client'[p]),
         client'[p].pc = "done" => client[p].pc = "done",
         UpOK(Progress(client[p]), toServer'[p]), toClient'[p] \subseteq toClient[p]
  PROVE  StepInv'
<1>1. /\ PeerType(client[p], session[p], chan[p], Posted(p), toServer[p], toClient[p])
      /\ PeerOK(client[p], session[p], chan[p], Posted(p), toServer[p], toClient[p])
  BY PeerTyped DEF StepInv
<1>2. PeerType(client'[p], session[p], chan[p], Posted(p), toServer'[p], toClient'[p])
  BY ClientTyped
<1>3. PeerOK(client'[p], session[p], chan[p], Posted(p), toServer'[p], toClient'[p])
  BY <1>1, <1>2, QuietClientStep
<1> QED  BY <1>3, ClientStep

\* What the client sends goes out with its progress.
LEMMA SendsEffect ==
  ASSUME TypeOK, NEW p \in Peers, NEW c \in Clients, NEW k \in ClientPackets,
         ClientSends(p, c, k)
  PROVE  LET n == client'[p]
         IN /\ n \in Clients /\ n.pc = c.pc /\ n.req = c.req /\ n.got = c.got
            /\ Progress(n) = Progress(c)
            /\ n.last \in ClientPackets /\ n.last.type = k.type /\ n.last.at = Progress(c)
            /\ k.type = "RRQ" => n.last.req = k.req
            /\ k.type = "ACK" => n.last.nr = k.nr
            /\ toServer'[p] = Fresh(toServer[p] \cup {n.last}, Progress(c))
            /\ \A x \in Peers \ {p} : client'[x] = client[x] /\ toServer'[x] = toServer[x]
<1> DEFINE now == Progress(c)
           sent == [k EXCEPT !.at = now]
           n == [c EXCEPT !.last = sent]
<1>1. now \in Nat
  BY SMT, ProgressType, TftpAssumption DEF Clients
<1>2. /\ sent \in ClientPackets /\ sent.at = now /\ sent.type = k.type
      /\ k.type = "RRQ" => sent.req = k.req
      /\ k.type = "ACK" => sent.nr = k.nr
  <2> HIDE DEF now
  <2> QED  BY <1>1, PacketAt
<1>3. /\ client' = [client EXCEPT ![p] = n]
      /\ toServer' = [toServer EXCEPT ![p] = Fresh(@ \cup {sent}, now)]
  BY DEF ClientSends
<1>4. n \in Clients /\ n.pc = c.pc /\ n.req = c.req /\ n.last = sent /\ n.got = c.got
  <2> HIDE DEF sent
  <2> QED  BY <1>2, ClientWithLast
<1>5. Progress(n) = now
  <2> HIDE DEF n
  <2> QED  BY <1>4 DEF Progress
<1>6. client'[p] = n /\ \A x \in Peers \ {p} : client'[x] = client[x]
  <2> HIDE DEF n
  <2> QED  BY <1>3 DEF TypeOK
<1>7. /\ toServer'[p] = Fresh(toServer[p] \cup {sent}, now)
      /\ \A x \in Peers \ {p} : toServer'[x] = toServer[x]
  <2> HIDE DEF sent, now
  <2> QED  BY <1>3 DEF TypeOK
<1> HIDE DEF n, sent, now
<1> QED  BY <1>2, <1>4, <1>5, <1>6, <1>7 DEF now

LEMMA UpAfter ==
  ASSUME NEW up, NEW old \in Nat, NEW now \in Nat, old <= now, UpOK(old, up),
         up \subseteq ClientPackets, NEW k, k.at = now, Genuine(k, now)
  PROVE  UpOK(now, Fresh(up \cup {k}, now))
<1>1. \A x \in up : x.at \in Nat
  BY ClientPacketFields
<1>2. MaxAge \in Nat
  BY TftpAssumption
<1>3. ASSUME NEW x \in Fresh(up \cup {k}, now) PROVE Genuine(x, now) /\ now <= x.at + MaxAge
  <2>1. x \in up \cup {k} /\ x.at + MaxAge >= now
    BY <1>3 DEF Fresh
  <2>2. CASE x \in up
    <3>1. Genuine(x, old) /\ x.at \in Nat
      BY <1>1, <2>2 DEF UpOK
    <3>2. Genuine(x, now)
      BY SMT, <3>1 DEF Genuine
    <3> QED  BY <1>1, <1>2, <2>1, <2>2, <3>2
  <2>3. CASE x = k
    BY SMT, <1>2, <2>3
  <2> QED  BY <2>1, <2>2, <2>3
<1> QED  BY <1>3 DEF UpOK

LEMMA TakeEffect ==
  ASSUME TypeOK, NEW p \in Peers, NEW k, NEW now, Take(p, k, now)
  PROVE  /\ \A x \in toClient'[p] : x \in toClient[p] /\ x.at + MaxAge >= now
         /\ \A x \in Peers \ {p} : toClient'[x] = toClient[x]
BY DEF TypeOK, Take, Fresh

\* The client sends k without having made progress.
LEMMA SendAgain ==
  ASSUME StepInv, TypeInv', NEW p \in Peers, NEW k \in ClientPackets,
         ClientSends(p, client[p], k), UNCHANGED server,
         client[p].pc \in {"waiting", "done"},
         \/ k.type = "RRQ" /\ k.req = client[p].req /\ client[p].got = <<>>
         \/ k.type = "ACK" /\ k.nr = Len(client[p].got) % Modulus
         \/ k.type \in {"WRQ", "bad"},
         toClient'[p] \subseteq toClient[p],
         \A x \in Peers \ {p} : toClient'[x] = toClient[x]
  PROVE  StepInv'
<1> DEFINE c == client[p]
           n == client'[p]
           now == Progress(c)
<1>0. TypeOK /\ c \in Clients
  BY DEF StepInv, TypeInv, TypeOK
<1>1. /\ PeerType(c, session[p], chan[p], Posted(p), toServer[p], toClient[p])
      /\ PeerOK(c, session[p], chan[p], Posted(p), toServer[p], toClient[p])
  BY PeerTyped DEF StepInv
<1>2. /\ n.pc = c.pc /\ n.req = c.req /\ n.got = c.got /\ Progress(n) = now
      /\ n.last \in ClientPackets /\ n.last.type = k.type /\ n.last.at = now
      /\ k.type = "RRQ" => n.last.req = k.req
      /\ k.type = "ACK" => n.last.nr = k.nr
      /\ toServer'[p] = Fresh(toServer[p] \cup {n.last}, now)
      /\ \A x \in Peers \ {p} : client'[x] = client[x] /\ toServer'[x] = toServer[x]
  BY <1>0, SendsEffect
<1>3. /\ c.req \in 1..MaxRequests /\ c.req \in Nat /\ Len(c.got) \in 0..Blocks
      /\ now \in Nat /\ now = Pos(c.req, Len(c.got)) /\ ClientOK(c)
  <2>1. /\ c.req \in Nat /\ c.req <= MaxRequests /\ Len(c.got) \in Nat
        /\ now \in Nat /\ now = Pos(c.req, Len(c.got))
    BY <1>1, PeerFields
  <2>2. ClientOK(c)
    BY <1>1 DEF PeerOK
  <2>3. c.req >= 1 /\ Len(c.got) <= Blocks
    BY SMT, <2>1, <2>2, TftpAssumption DEF ClientOK
  <2> QED  BY SMT, <2>1, <2>2, <2>3, TftpAssumption
<1>4. Pos(1, 0) <= now
  BY SMT, <1>3, PosMin
<1>5. Genuine(n.last, now)
  <2>1. now <= now
    BY SMT, <1>3
  <2>2. k.type = "RRQ" => now = Pos(n.last.req, 0)
    BY <1>2, <1>3
  <2>3. k.type = "ACK" => \E r \in 1..MaxRequests, b \in 0..Blocks :
                             now = Pos(r, b) /\ n.last.nr = b % Modulus
    BY <1>2, <1>3
  <2> HIDE DEF n, now
  <2> QED  BY <1>2, <1>4, <2>1, <2>2, <2>3 DEF Genuine
<1>6. UpOK(now, toServer'[p])
  <2>1. UpOK(now, toServer[p]) /\ toServer[p] \subseteq ClientPackets
    BY <1>1 DEF PeerOK, PeerType
  <2>2. toServer'[p] = Fresh(toServer[p] \cup {n.last}, now) /\ n.last.at = now
    BY <1>2
  <2> HIDE DEF n, c, now
  <2>3. now <= now
    BY SMT, <1>3
  <2>4. UpOK(now, Fresh(toServer[p] \cup {n.last}, now))
    BY <1>3, <1>5, <2>1, <2>2, <2>3, UpAfter
  <2> QED  BY <2>2, <2>4
<1>7. ClientOK(n)
  BY <1>2, <1>3 DEF ClientOK
<1>8. OnlyClient(p)
  BY <1>2 DEF OnlyClient
<1> QED  BY <1>2, <1>6, <1>7, <1>8, QuietClient

\* A client that asks again has all of the file before.
LEMMA RequestStep ==
  ASSUME StepInv, NEW p \in Peers, Request(p) PROVE StepInv'
<1> DEFINE c == client[p]
           r == c.req + 1
           c2 == Asking(c, r)
           n == client'[p]
           now == Progress(c2)
<1>0. TypeInv' /\ TypeInv /\ TypeOK /\ c \in Clients
  BY ClientTypes DEF StepInv, TypeInv, TypeOK, Client
<1>1. /\ PeerType(c, session[p], chan[p], Posted(p), toServer[p], toClient[p])
      /\ PeerOK(c, session[p], chan[p], Posted(p), toServer[p], toClient[p])
  BY <1>0, PeerTyped DEF StepInv
<1>2. c.pc \in {"idle", "done"} /\ c.req \in Nat /\ r \in 1..MaxRequests /\ r \in Nat
  <2>1. c.req \in Nat
    BY <1>1, PeerFields
  <2> QED  BY SMT, <2>1, TftpAssumption DEF Request
<1>3. PICK k \in [type : {"RRQ"}, req : {r}, options : BOOLEAN, at : {0}]
                   \cup [type : {"WRQ", "bad"}, at : {0}] :
        /\ ClientSends(p, c2, k)
        /\ toClient' = [toClient EXCEPT ![p] = Fresh(@, now)]
  BY DEF Request, Asking
<1>4. /\ k \in ClientPackets /\ k.type \in {"RRQ", "WRQ", "bad"}
      /\ k.type = "RRQ" => k.req = r
  BY SMT, <1>2 DEF ClientPackets, Requests, RRQs, WRQs, BadPackets
<1>5. c2 \in Clients /\ c2.pc = "waiting" /\ c2.req = r /\ c2.got = <<>>
  <2>1. r \in 0..MaxRequests
    BY SMT, <1>2, TftpAssumption
  <2> HIDE DEF r
  <2> QED  BY <1>0, <2>1, AskingType
<1>6. /\ n.pc = c2.pc /\ n.req = c2.req /\ n.got = c2.got /\ Progress(n) = now
      /\ n.last \in ClientPackets /\ n.last.type = k.type /\ n.last.at = now
      /\ k.type = "RRQ" => n.last.req = k.req
      /\ toServer'[p] = Fresh(toServer[p] \cup {n.last}, now)
      /\ \A x \in Peers \ {p} : client'[x] = client[x] /\ toServer'[x] = toServer[x]
  <2> HIDE DEF c2
  <2> QED  BY ZenonT(30), <1>0, <1>3, <1>4, <1>5, SendsEffect
<1>7. now = Pos(r, 0) /\ now \in Nat /\ Pos(1, 0) <= now
  <2>1. now = Pos(r, 0)
    <3> HIDE DEF c2, r
    <3> QED  BY <1>5 DEF Progress, Pos
  <2>2. r >= 1
    BY SMT, <1>2
  <2> HIDE DEF r, now
  <2> QED  BY <1>2, <2>1, <2>2, PosFacts, PosMin
<1>8. Genuine(n.last, now)
  <2> HIDE DEF n, now, c2, r
  <2>1. now <= now
    BY SMT, <1>7
  <2> QED  BY <1>4, <1>6, <1>7, <2>1 DEF Genuine
<1>9. ClientOK(n)
  <2>1. Len(n.got) = 0 /\ r >= 1
    BY SMT, <1>2, <1>5, <1>6
  <2> HIDE DEF n, c2, r
  <2> QED  BY SMT, <1>4, <1>5, <1>6, <2>1, TftpAssumption DEF ClientOK
<1>10. Progress(c) \in Nat /\ Progress(c) <= now /\ (c.pc = "done" => now = Progress(c) + 1)
  <2>1. Progress(c) \in Nat /\ Progress(c) = Pos(c.req, Len(c.got))
    BY <1>1, PeerFields
  <2>2. c.pc = "idle" => Progress(c) = 0
    <3>1. ClientOK(c)
      BY <1>1 DEF PeerOK
    <3> HIDE DEF c
    <3> QED  BY SMT, <3>1, TftpAssumption DEF ClientOK, Progress
  <2>3. c.pc = "done" => Progress(c) = Pos(c.req, Blocks)
    BY <1>1, <2>1 DEF PeerOK, ClientOK
  <2>4. Pos(c.req + 1, 0) = Pos(c.req, Blocks) + 1
    BY <1>2, PosFacts
  <2> QED  BY SMT, <1>2, <1>7, <2>1, <2>2, <2>3, <2>4
<1>11. UpOK(now, toServer'[p])
  <2>1. UpOK(Progress(c), toServer[p]) /\ toServer[p] \subseteq ClientPackets
    BY <1>1 DEF PeerOK, PeerType
  <2>2. toServer'[p] = Fresh(toServer[p] \cup {n.last}, now) /\ n.last.at = now
    BY <1>6
  <2> HIDE DEF n, c, now
  <2>3. UpOK(now, Fresh(toServer[p] \cup {n.last}, now))
    BY <1>7, <1>8, <1>10, <2>1, <2>2, UpAfter
  <2> QED  BY <2>2, <2>3
<1>12. /\ \A x \in toClient'[p] : x \in toClient[p] /\ x.at + MaxAge >= now
       /\ \A x \in Peers \ {p} : toClient'[x] = toClient[x]
  <2> HIDE DEF now
  <2> QED  BY <1>0, <1>3 DEF Fresh, TypeOK
<1>13. OnlyClient(p)
  <2>1. UNCHANGED server
    BY DEF Request
  <2>2. \A x \in Peers \ {p} : client'[x] = client[x] /\ toServer'[x] = toServer[x]
    BY <1>6
  <2>3. \A x \in Peers \ {p} : toClient'[x] = toClient[x]
    BY <1>12
  <2> QED  BY <2>1, <2>2, <2>3 DEF OnlyClient
<1>14. PeerType(n, session[p], chan[p], Posted(p), toServer'[p], toClient'[p])
  BY <1>0, <1>13, ClientTyped
<1>15. PeerOK(n, session[p], chan[p], Posted(p), toServer'[p], toClient'[p])
  <2>1. UpOK(Progress(n), toServer'[p]) /\ toClient'[p] \subseteq toClient[p]
    BY <1>6, <1>11, <1>12
  <2>2. CASE c.pc = "idle"
    <3> HIDE DEF n, c
    <3> QED  BY <1>1, <1>9, <1>14, <2>1, <2>2, FirstStep
  <2>3. CASE c.pc = "done"
    <3>1. Progress(n) = Progress(c) + 1 /\ n.pc # "done"
      BY <1>5, <1>6, <1>10, <2>3
    <3>2. \A x \in toClient'[p] : x \in toClient[p] /\ x.at + MaxAge >= Progress(n)
      BY <1>6, <1>12
    <3> HIDE DEF n, c
    <3> QED  BY ZenonT(30), <1>1, <1>9, <1>14, <2>1, <2>3, <3>1, <3>2, AdvanceStep
  <2> QED  BY <1>2, <2>2, <2>3
<1> QED  BY <1>0, <1>13, <1>15, ClientStep

\* A block with the number the client waits for is the one it waits for.
LEMMA BlockIsRight ==
  ASSUME Apart, StepInv, NEW p \in Peers, NEW k \in toClient[p], k.type = "DATA",
         Awaits(client[p], k)
  PROVE  /\ k.data = <<client[p].req, Len(client[p].got) + 1>>
         /\ DataPos(k) = Progress(client[p]) + 1
<1> DEFINE c == client[p]
           g == Len(c.got)
           now == Progress(c)
           r == k.data[1]
           b == k.data[2]
<1>1. /\ PeerType(c, session[p], chan[p], Posted(p), toServer[p], toClient[p])
      /\ PeerOK(c, session[p], chan[p], Posted(p), toServer[p], toClient[p])
  BY PeerTyped DEF StepInv
<1>2. /\ c.req \in Nat /\ c.req <= MaxRequests /\ g \in Nat
      /\ now \in Nat /\ now = Pos(c.req, g) /\ k.at \in Nat
      /\ r \in 1..MaxRequests /\ b \in 0..Blocks /\ DataPos(k) \in Nat /\ MaxAge \in Nat
  BY <1>1, PeerFields, TftpAssumption
<1>3. c.req >= 1 /\ g < Blocks
  BY <1>1 DEF Awaits, PeerOK, ClientOK
<1>4. c.req \in 1..MaxRequests /\ g + 1 \in 0..Blocks
  <2> HIDE DEF now, c, g, r, b
  <2> QED  BY SMT, <1>2, <1>3, TftpAssumption
<1>5. b % Modulus = (g + 1) % Modulus
  BY <1>1 DEF Awaits, PeerOK, DownOK
<1>6. PICK d \in 0..Blocks : d = g + 1
  BY <1>4
<1>7. Pos(c.req, d) = now + 1
  <2>1. Pos(c.req, g + 1) = Pos(c.req, g) + 1
    <3> HIDE DEF g, c
    <3> QED  BY <1>2, PosFacts
  <2> QED  BY <1>2, <1>6, <2>1
<1>8. /\ DataPos(k) <= now + 1 /\ now <= k.at + MaxAge /\ k.at <= DataPos(k) + MaxAge + 2
      /\ DataPos(k) = Pos(r, b)
  BY <1>1 DEF PeerOK, DownOK, DataPos
<1>9. Pos(r, b) <= Pos(c.req, d) + Slack /\ Pos(c.req, d) <= Pos(r, b) + Slack
  <2>1. DataPos(k) <= now + 1 + Slack /\ now + 1 <= DataPos(k) + Slack
    <3> HIDE DEF now, c, g, r, b
    <3> QED  BY SMT, <1>2, <1>8 DEF Slack
  <2> HIDE DEF now
  <2> QED  BY <1>7, <1>8, <2>1
<1>10. r = c.req /\ b = d
  <2> HIDE DEF g, c, r, b
  <2> QED  BY <1>2, <1>4, <1>5, <1>6, <1>9, NumbersTell
<1>11. k.data = <<r, b>>
  <2>1. k.data \in Data
    BY <1>1, ServerPacketFields DEF PeerType
  <2> QED  BY SMT, <2>1 DEF Data
<1> QED  BY <1>6, <1>7, <1>8, <1>10, <1>11

\* The client takes the block it waits for.
LEMMA TakeBlockStep ==
  ASSUME Apart, StepInv, TypeInv', NEW p \in Peers, UNCHANGED server,
         NEW k \in toClient[p], k.type = "DATA", Awaits(client[p], k),
         ClientSends(p, Receiving(client[p], k.data), ACK(k.nr, k.data)),
         Take(p, k, Progress(Receiving(client[p], k.data)))
  PROVE  StepInv'
<1> DEFINE c == client[p]
           c2 == Receiving(c, k.data)
           n == client'[p]
           g == Len(c.got)
           now == Progress(c2)
<1>0. TypeInv /\ TypeOK /\ c \in Clients /\ k \in ServerPackets
  BY DEF StepInv, TypeInv, TypeOK
<1>1. /\ PeerType(c, session[p], chan[p], Posted(p), toServer[p], toClient[p])
      /\ PeerOK(c, session[p], chan[p], Posted(p), toServer[p], toClient[p])
  BY <1>0, PeerTyped DEF StepInv
<1>2. k.nr \in 0..Modulus-1 /\ k.data \in Data
  BY <1>0, ServerPacketFields
<1>3. /\ ACK(k.nr, k.data) \in ClientPackets /\ ACK(k.nr, k.data).type = "ACK"
      /\ ACK(k.nr, k.data).nr = k.nr
  BY <1>2, AckType DEF ACK
<1>4. /\ c2 \in Clients /\ c2.pc = (IF k.data[2] = Blocks THEN "done" ELSE c.pc)
      /\ c2.req = c.req /\ c2.got = Append(c.got, k.data)
  BY <1>0, <1>2, ReceivingType
<1>5. /\ n.pc = c2.pc /\ n.req = c2.req /\ n.got = c2.got /\ Progress(n) = now
      /\ n.last \in ClientPackets /\ n.last.type = "ACK" /\ n.last.at = now
      /\ n.last.nr = k.nr
      /\ toServer'[p] = Fresh(toServer[p] \cup {n.last}, now)
      /\ \A x \in Peers \ {p} : client'[x] = client[x] /\ toServer'[x] = toServer[x]
  <2> HIDE DEF c2
  <2> QED  BY ZenonT(30), <1>0, <1>3, <1>4, SendsEffect DEF c2
<1>6. /\ c.pc = "waiting" /\ k.nr = (g + 1) % Modulus
      /\ k.data = <<c.req, g + 1>> /\ DataPos(k) = Progress(c) + 1
  BY BlockIsRight DEF Awaits
<1>7. /\ c.req \in 1..MaxRequests /\ g \in Nat /\ g + 1 \in 0..Blocks
      /\ Progress(c) \in Nat /\ Progress(c) = Pos(c.req, g)
  <2>1. /\ c.req \in Nat /\ c.req <= MaxRequests /\ g \in Nat
        /\ Progress(c) \in Nat /\ Progress(c) = Pos(c.req, g)
    BY <1>1, PeerFields
  <2>2. c.req >= 1 /\ g < Blocks
    BY <1>1, <1>6 DEF PeerOK, ClientOK
  <2> QED  BY SMT, <2>1, <2>2, TftpAssumption
<1>8. /\ Len(c2.got) = g + 1 /\ c2.got[g + 1] = <<c.req, g + 1>>
      /\ \A i \in 1..g : c2.got[i] = c.got[i]
  <2>1. c.got \in Seq(Data)
    BY <1>0 DEF Clients
  <2> HIDE DEF c2, c
  <2> QED  BY SMT, <1>2, <1>4, <1>6, <2>1
<1>9. now = Progress(c) + 1 /\ now = Pos(c.req, g + 1) /\ now \in Nat /\ Pos(1, 0) <= now
  <2>1. now = Pos(c.req, g + 1)
    <3> HIDE DEF c2, c, g
    <3> QED  BY <1>4, <1>8 DEF Progress, Pos, now
  <2>2. c.req \in Nat /\ c.req >= 1
    BY SMT, <1>7
  <2>3. Pos(c.req, g + 1) = Pos(c.req, g) + 1
    <3> HIDE DEF c, g
    <3> QED  BY <1>7, <2>2, PosFacts
  <2>4. Pos(1, 0) <= Pos(c.req, g + 1)
    <3>1. g + 1 \in Nat
      BY SMT, <1>7
    <3> QED  BY <2>2, <3>1, PosMin
  <2> QED  BY SMT, <1>7, <2>1, <2>3, <2>4
<1>10. Genuine(n.last, now)
  <2>1. \E r \in 1..MaxRequests, b \in 0..Blocks : now = Pos(r, b) /\ k.nr = b % Modulus
    BY <1>6, <1>7, <1>9
  <2>2. now <= now
    BY SMT, <1>9
  <2> HIDE DEF n, now
  <2> QED  BY <1>5, <1>9, <2>1, <2>2 DEF Genuine
<1>11. ClientOK(n)
  <2>1. \A i \in 1..g + 1 : c2.got[i] = <<c.req, i>>
    <3> SUFFICES ASSUME NEW i \in 1..g + 1 PROVE c2.got[i] = <<c.req, i>>
      OBVIOUS
    <3>1. i \in 1..g \/ i = g + 1
      BY SMT, <1>7
    <3>2. CASE i \in 1..g
      BY <1>1, <1>8, <3>2 DEF PeerOK, ClientOK
    <3>3. CASE i = g + 1
      BY <1>8, <3>3
    <3> QED  BY <3>1, <3>2, <3>3
  <2>2. c2.pc = (IF g + 1 = Blocks THEN "done" ELSE "waiting")
    <3> HIDE DEF c2, c, g
    <3>1. k.data[2] = g + 1
      BY SMT, <1>6
    <3> QED  BY SMT, <1>4, <1>6, <3>1
  <2>3. n.last.nr = (g + 1) % Modulus
    BY <1>5, <1>6
  <2> HIDE DEF n, c2, c, g
  <2>4. n.pc = c2.pc /\ n.req = c.req /\ Len(n.got) = g + 1
    BY <1>4, <1>5, <1>8
  <2>5. /\ n.req >= 1 /\ n.pc \in {"waiting", "done"}
        /\ n.pc = "waiting" => Len(n.got) < Blocks
        /\ n.pc = "done" => Len(n.got) = Blocks
    BY SMT, <1>7, <2>2, <2>4, TftpAssumption
  <2>6. \A i \in 1..Len(n.got) : n.got[i] = <<n.req, i>>
    BY <1>5, <2>1, <2>4
  <2> QED  BY <1>5, <2>3, <2>4, <2>5, <2>6 DEF ClientOK
<1>12. UpOK(now, toServer'[p])
  <2>1. UpOK(Progress(c), toServer[p]) /\ toServer[p] \subseteq ClientPackets
    BY <1>1 DEF PeerOK, PeerType
  <2>2. Progress(c) <= now
    <3> HIDE DEF c, now
    <3> QED  BY SMT, <1>7, <1>9
  <2>3. toServer'[p] = Fresh(toServer[p] \cup {n.last}, now) /\ n.last.at = now
    BY <1>5
  <2> HIDE DEF n, c, now
  <2>4. UpOK(now, Fresh(toServer[p] \cup {n.last}, now))
    BY <1>7, <1>9, <1>10, <2>1, <2>2, <2>3, UpAfter
  <2> QED  BY <2>3, <2>4
<1>13. /\ \A x \in toClient'[p] : x \in toClient[p] /\ x.at + MaxAge >= now
       /\ \A x \in Peers \ {p} : toClient'[x] = toClient[x]
  <2> HIDE DEF now
  <2> QED  BY <1>0, TakeEffect DEF now
<1>14. OnlyClient(p)
  <2>1. \A x \in Peers \ {p} : client'[x] = client[x] /\ toServer'[x] = toServer[x]
    BY <1>5
  <2>2. \A x \in Peers \ {p} : toClient'[x] = toClient[x]
    BY <1>13
  <2> QED  BY <2>1, <2>2 DEF OnlyClient
<1>15. PeerType(n, session[p], chan[p], Posted(p), toServer'[p], toClient'[p])
  BY <1>14, ClientTyped
<1>16. PeerOK(n, session[p], chan[p], Posted(p), toServer'[p], toClient'[p])
  <2>1. Progress(n) = Progress(c) + 1 /\ UpOK(Progress(n), toServer'[p])
    BY <1>5, <1>9, <1>12
  <2>2. \A x \in toClient'[p] : x \in toClient[p] /\ x.at + MaxAge >= Progress(n)
    BY <1>5, <1>13
  <2>3. Ahead(Progress(c), session[p], toClient[p])
    BY <1>6 DEF Ahead
  <2> HIDE DEF n, c
  <2> QED  BY ZenonT(30), <1>1, <1>11, <1>15, <2>1, <2>2, <2>3, AdvanceStep
<1> QED  BY <1>14, <1>16, ClientStep

LEMMA ClientSteps ==
  ASSUME Apart, StepInv, NEW p \in Peers, Client(p) \/ Lose(p) PROVE StepInv'
<1> DEFINE c == client[p]
           g == Len(c.got)
<1>0. TypeInv' /\ TypeInv /\ TypeOK
  BY ClientTypes DEF StepInv, TypeInv
<1>1. ClientOK(c) /\ UpOK(Progress(c), toServer[p])
  BY DEF StepInv, PeerOK
<1>2. CASE Request(p)
  BY <1>2, RequestStep
<1>3. CASE ReceiveDATA(p)
  <2>1. PICK k \in toClient[p] :
          /\ k.type = "DATA"
          /\ \/ /\ Awaits(c, k)
                /\ ClientSends(p, Receiving(c, k.data), ACK(k.nr, k.data))
                /\ Take(p, k, Progress(Receiving(c, k.data)))
             \/ /\ Repeats(c, k)
                /\ ClientSends(p, c, ACK(k.nr, k.data))
                /\ Take(p, k, Progress(c))
             \/ /\ UNCHANGED <<client, toServer>>
                /\ Take(p, k, Progress(c))
          /\ UNCHANGED server
    BY <1>3 DEF ReceiveDATA, Receiving
  <2>2. CASE /\ Awaits(c, k)
             /\ ClientSends(p, Receiving(c, k.data), ACK(k.nr, k.data))
             /\ Take(p, k, Progress(Receiving(c, k.data)))
    BY <1>0, <2>1, <2>2, TakeBlockStep
  <2>3. CASE Repeats(c, k) /\ ClientSends(p, c, ACK(k.nr, k.data)) /\ Take(p, k, Progress(c))
    <3>1. k.nr \in 0..Modulus-1 /\ k.data \in Data
      BY <1>0, <2>1, ServerPacketFields DEF TypeOK
    <3>2. /\ ACK(k.nr, k.data) \in ClientPackets /\ ACK(k.nr, k.data).type = "ACK"
          /\ ACK(k.nr, k.data).nr = g % Modulus
      BY <2>3, <3>1, AckType DEF ACK, Repeats
    <3>3. /\ toClient'[p] \subseteq toClient[p]
          /\ \A x \in Peers \ {p} : toClient'[x] = toClient[x]
      BY <1>0, <2>3, TakeEffect
    <3>4. c.pc \in {"waiting", "done"}
      BY <2>3 DEF Repeats
    <3> QED  BY <1>0, <2>1, <2>3, <3>2, <3>3, <3>4, SendAgain
  <2>4. CASE UNCHANGED <<client, toServer>> /\ Take(p, k, Progress(c))
    <3>1. /\ toClient'[p] \subseteq toClient[p]
          /\ \A x \in Peers \ {p} : toClient'[x] = toClient[x]
      BY <1>0, <2>4, TakeEffect
    <3>2. OnlyClient(p)
      BY <2>1, <2>4, <3>1 DEF OnlyClient
    <3> QED  BY <1>0, <1>1, <2>4, <3>1, <3>2, QuietClient
  <2> QED  BY <2>1, <2>2, <2>3, <2>4
<1>4. CASE ReceiveOther(p)
  <2>1. PICK k \in toClient[p] :
          /\ \/ /\ c.pc = "waiting" /\ c.got = <<>>
                /\ ClientSends(p, c, ACK(0, <<c.req, 0>>))
             \/ UNCHANGED <<client, toServer>>
             \/ /\ client' = [client EXCEPT ![p].pc =
                                IF @ = "waiting" THEN "aborted" ELSE @]
                /\ UNCHANGED toServer
          /\ Take(p, k, Progress(c))
          /\ UNCHANGED server
    BY <1>4 DEF ReceiveOther
  <2>2. /\ toClient'[p] \subseteq toClient[p]
        /\ \A x \in Peers \ {p} : toClient'[x] = toClient[x]
    BY <1>0, <2>1, TakeEffect
  <2>3. CASE c.pc = "waiting" /\ c.got = <<>> /\ ClientSends(p, c, ACK(0, <<c.req, 0>>))
    <3>1. <<c.req, 0>> \in Data /\ 0 \in 0..Modulus-1 /\ 0 = g % Modulus
      <4>1. c.req \in 0..MaxRequests /\ c.req >= 1
        BY <1>0, <1>1, <2>3 DEF Clients, TypeOK, ClientOK
      <4>2. g = 0
        BY SMT, <2>3
      <4> HIDE DEF c, g
      <4> QED  BY SMT, <4>1, <4>2, TftpAssumption DEF Data
    <3>2. /\ ACK(0, <<c.req, 0>>) \in ClientPackets /\ ACK(0, <<c.req, 0>>).type = "ACK"
          /\ ACK(0, <<c.req, 0>>).nr = g % Modulus
      BY <3>1, AckType DEF ACK
    <3> QED  BY <1>0, <2>1, <2>2, <2>3, <3>2, SendAgain
  <2>4. CASE UNCHANGED <<client, toServer>>
    <3>1. OnlyClient(p)
      BY <2>1, <2>2, <2>4 DEF OnlyClient
    <3> QED  BY <1>0, <1>1, <2>2, <2>4, <3>1, QuietClient
  <2>5. CASE /\ client' = [client EXCEPT ![p].pc = IF @ = "waiting" THEN "aborted" ELSE @]
             /\ UNCHANGED toServer
    <3> DEFINE pc == IF c.pc = "waiting" THEN "aborted" ELSE c.pc
               n == [c EXCEPT !.pc = pc]
    <3>1. c \in Clients /\ pc \in {"idle", "waiting", "done", "aborted"}
      BY <1>0 DEF TypeOK, Clients
    <3>2. n.pc = pc /\ n.req = c.req /\ n.last = c.last /\ n.got = c.got
      <4> HIDE DEF pc
      <4> QED  BY <3>1, ClientWithPc
    <3>3. client'[p] = n /\ \A x \in Peers \ {p} : client'[x] = client[x]
      BY <1>0, <2>5 DEF TypeOK
    <3> HIDE DEF n
    <3>4. ClientOK(n) /\ Progress(n) = Progress(c) /\ (n.pc = "done" => c.pc = "done")
      BY <1>1, <3>2 DEF ClientOK, Progress
    <3>5. OnlyClient(p)
      BY <2>1, <2>2, <2>5, <3>3 DEF OnlyClient
    <3> QED  BY <1>0, <1>1, <2>2, <2>5, <3>3, <3>4, <3>5, QuietClient
  <2> QED  BY <2>1, <2>3, <2>4, <2>5
<1>5. CASE Repeat(p)
  <2>1. /\ c.pc = "waiting" /\ ClientSends(p, c, c.last)
        /\ UNCHANGED server /\ UNCHANGED toClient
    BY <1>5 DEF Repeat
  <2>2. /\ c.last \in ClientPackets
        /\ \/ c.last.type = "RRQ" /\ c.last.req = c.req /\ c.got = <<>>
           \/ c.last.type = "ACK" /\ c.last.nr = g % Modulus
           \/ c.last.type \in {"WRQ", "bad"}
    BY <1>1, <2>1, ClientPacketFields DEF ClientOK
  <2> QED  BY <1>0, <2>1, <2>2, SendAgain
<1>6. CASE Lose(p)
  <2>1. UNCHANGED <<server, client>>
    BY <1>6 DEF Lose
  <2>2. /\ toServer'[p] \subseteq toServer[p] /\ toClient'[p] \subseteq toClient[p]
        /\ \A x \in Peers \ {p} : toServer'[x] = toServer[x] /\ toClient'[x] = toClient[x]
    BY <1>0, <1>6 DEF Lose, TypeOK
  <2>3. OnlyClient(p) /\ client'[p] = c
    BY <2>1, <2>2 DEF OnlyClient
  <2>4. UpOK(Progress(c), toServer'[p])
    BY <1>1, <2>2 DEF UpOK
  <2> QED  BY <1>0, <1>1, <2>2, <2>3, <2>4, QuietClient
<1> QED  BY <1>2, <1>3, <1>4, <1>5, <1>6 DEF Client

LEMMA StepNext == Apart /\ StepInv /\ [Next]_vars => StepInv'
<1> SUFFICES ASSUME Apart, StepInv, [Next]_vars PROVE StepInv'
  OBVIOUS
<1>1. CASE UNCHANGED vars
  <2>1. TypeInv'
    BY <1>1, TftpTypes DEF StepInv
  <2>2. /\ client' = client /\ session' = session /\ chan' = chan
        /\ toServer' = toServer /\ toClient' = toClient /\ \A x : Posted(x)' = Posted(x)
    BY <1>1 DEF vars, Posted
  <2> QED  BY <2>1, <2>2 DEF StepInv
<1> QED  BY <1>1, LoopSteps, RoutineSteps, ClientSteps DEF Next

LEMMA StepInit == Init => StepInv
<1> SUFFICES ASSUME Init PROVE StepInv
  OBVIOUS
<1>1. TypeInv
  BY TftpInitTypes
<1>2. ASSUME NEW p \in Peers PROVE Peer(p)
  <2>1. /\ client[p].pc = "idle" /\ client[p].req = 0 /\ client[p].got = <<>>
        /\ session[p].pc = "none" /\ chan[p] = <<>>
        /\ toServer[p] = {} /\ toClient[p] = {} /\ Posted(p) = {}
    BY DEF Init, Idle, Posted
  <2>2. ClientOK(client[p])
    BY SMT, <2>1 DEF ClientOK
  <2>3. QueueOK(client[p], session[p], chan[p], Posted(p), toClient[p])
    BY SMT, <2>1 DEF QueueOK
  <2> QED  BY <2>1, <2>2, <2>3 DEF Peer, PeerOK, UpOK, RoutineOK, DownOK
<1> QED  BY <1>1, <1>2 DEF StepInv, Peer

\* The server sends a block only to a client that has all blocks before it,
\* for any number of losses, repetitions, time-outs and failed calls, any
\* length of the file and any number of peers: as long as a packet does not
\* live until its number comes round (Apart), ackValidator's look at a number
\* of 16 bits is enough.
THEOREM ServerStaysInStep ==
  ASSUME Apart PROVE Spec => []LockStep
<1>1. StepInv => LockStep
  <2> SUFFICES ASSUME StepInv, NEW p \in Peers, session[p].pc = "wait",
                      session[p].req = client[p].req
               PROVE  session[p].blk <= Len(client[p].got) + 1
    BY DEF LockStep
  <2>1. /\ PeerType(client[p], session[p], chan[p], Posted(p), toServer[p], toClient[p])
        /\ PeerOK(client[p], session[p], chan[p], Posted(p), toServer[p], toClient[p])
    BY PeerTyped DEF StepInv
  <2>2. Pos(session[p].req, session[p].blk) <= Progress(client[p]) + 1
    BY <2>1 DEF PeerOK, RoutineOK
  <2>3. /\ session[p].blk \in 0..Blocks /\ Len(client[p].got) \in Nat
        /\ client[p].req \in Nat
    BY <2>1, PeerFields
  <2>4. client[p].req * (Blocks + 1) \in Nat
    BY SMT, <2>3, TftpAssumption
  <2> QED  BY SMT, <2>2, <2>3, <2>4 DEF Progress, Pos
<1>2. StepInv /\ [Next]_vars => StepInv'
  BY StepNext
<1> QED  BY StepInit, <1>1, <1>2, PTL DEF Spec

\* What a client has received is a prefix of the file it asked for, each block
\* once and in order, and all of it when the transfer is done, whatever the
\* network does within Apart (serveRRQ, writeAndWaitForPacket).
THEOREM FilesArriveWhole ==
  ASSUME Apart PROVE Spec => []FileIntegrity
<1>1. StepInv => FileIntegrity
  BY DEF StepInv, PeerOK, ClientOK, FileIntegrity
<1>2. StepInv /\ [Next]_vars => StepInv'
  BY StepNext
<1> QED  BY StepInit, <1>1, <1>2, PTL DEF Spec
=============================================================================
