----------------------------- MODULE TftpServer -----------------------------
(***************************************************************************)
(* The TFTP server that hands boot images to bare-metal machines           *)
(* (gotftpd: Serve and session).  One loop reads UDP packets and posts     *)
(* them to a channel per peer address; one routine per peer serves the     *)
(* requests it finds there, block by block, each block being sent again    *)
(* until its acknowledgement arrives or three sends were in vain.          *)
(*                                                                         *)
(* The peer is a TFTP client (RFC 1350), which is not part of the          *)
(* repository: it asks for one file after another from the same socket,    *)
(* acknowledges the block it waits for, acknowledges the block before it   *)
(* again, and gives up on an ERROR.  The network loses, duplicates,        *)
(* delays and reorders packets.                                            *)
(***************************************************************************)
EXTENDS Integers, Sequences, FiniteSets

CONSTANTS
    Peers,          \* addresses of the clients
    Blocks,         \* DATA packets of a file, the last (short) one included
    Modulus,        \* 2^16 in the code: block numbers are uint16
    QueueSize,      \* 10 in the code: the capacity of a peer's channel
    MaxSends,       \* 3 in the code: how often a packet is sent
    MaxRequests,    \* bound: requests a client makes, one after another
    MaxAge,         \* how many blocks a packet may stay in the network
    MaxFaults,      \* bound: packets lost, duplicated or repeated by the
                    \* client, and failed reads and writes of the server
    NoPacket

ASSUME TftpAssumption ==
    /\ Blocks \in Nat \ {0}
    /\ Modulus \in Nat \ {0}
    /\ QueueSize \in Nat \ {0}
    /\ MaxSends \in Nat \ {0}
    /\ MaxRequests \in Nat /\ MaxAge \in Nat /\ MaxFaults \in Nat

VARIABLES
    posting,        \* the packet the receiving loop holds, with the lock
    table,          \* peer addresses that have a channel
    chan,           \* the channel of each peer: a sequence of packets
    session,        \* the routine of each peer
    client,         \* the peer itself
    toServer, toClient,     \* packets in the network, by peer
    faults

vars == <<posting, table, chan, session, client, toServer, toClient, faults>>

-----------------------------------------------------------------------------
\* Packets.  data = <<request, block>> stands for the content of a block; in
\* an ACK it only tells which block was acknowledged and no code reads it.
\* at is the client's progress when the packet was sent.

Data == (1..MaxRequests) \X (0..Blocks)

RRQs == [type : {"RRQ"}, req : 1..MaxRequests, options : BOOLEAN, at : Nat]
WRQs == [type : {"WRQ"}, at : Nat]
BadPackets == [type : {"bad"}, at : Nat]
ACKs == [type : {"ACK"}, nr : 0..Modulus-1, data : Data, at : Nat]
DATAs == [type : {"DATA"}, nr : 0..Modulus-1, data : Data, at : Nat]
OACKs == [type : {"OACK"}, req : 1..MaxRequests, at : Nat]
ERRORs == [type : {"ERROR"}, at : Nat]

Requests == RRQs \cup WRQs \cup BadPackets
ClientPackets == Requests \cup ACKs
ServerPackets == DATAs \cup OACKs \cup ERRORs

\* The client's progress: requests made and blocks received.
Progress(c) == c.req * (Blocks + 1) + Len(c.got)
Clock(p) == Progress(client[p])

\* Packets the network still holds when p's client has come to now.
Fresh(packets, now) == {k \in packets : k.at + MaxAge >= now}

-----------------------------------------------------------------------------
Idle == [pc |-> "none", req |-> 0, blk |-> 0, sends |-> 0]

Sessions ==
    [pc : {"none", "serve", "wait", "returned"}, req : 0..MaxRequests,
     blk : 0..Blocks, sends : 0..MaxSends]

Clients ==
    [pc : {"idle", "waiting", "done", "aborted"}, req : 0..MaxRequests,
     last : ClientPackets \cup {NoPacket}, got : Seq(Data)]

Init ==
    /\ posting = NoPacket
    /\ table = {}
    /\ chan = [p \in Peers |-> <<>>]
    /\ session = [p \in Peers |-> Idle]
    /\ client = [p \in Peers |->
                   [pc |-> "idle", req |-> 0, last |-> NoPacket, got |-> <<>>]]
    /\ toServer = [p \in Peers |-> {}]
    /\ toClient = [p \in Peers |-> {}]
    /\ faults = 0

server == <<posting, table, chan, session>>

Fault == faults < MaxFaults /\ faults' = faults + 1
NoFault == UNCHANGED faults

-----------------------------------------------------------------------------
\* Serve, the receiving loop.  It holds the lock from its look at the table
\* until the packet is posted; the routine it starts does not wait for that.

Receive(p) ==
    /\ posting = NoPacket
    /\ \E k \in toServer[p] :
        /\ posting' = [peer |-> p, packet |-> k]
        /\ \/ toServer' = [toServer EXCEPT ![p] = @ \ {k}] /\ NoFault
           \/ UNCHANGED toServer /\ Fault         \* a duplicate stays
    /\ table' = table \cup {p}
    /\ IF p \in table
       THEN UNCHANGED <<chan, session>>
       ELSE /\ chan' = [chan EXCEPT ![p] = <<>>]
            /\ session' = [session EXCEPT ![p] = [Idle EXCEPT !.pc = "serve"]]
    /\ UNCHANGED <<client, toClient>>

\* As Post, but without a look at the room in the channel.
PostUnchecked ==
    /\ posting # NoPacket
    /\ chan' = [chan EXCEPT ![posting.peer] = Append(@, posting.packet)]
    /\ posting' = NoPacket
    /\ UNCHANGED <<table, session, client, toServer, toClient, faults>>

Post ==
    /\ posting # NoPacket
    /\ LET p == posting.peer
       IN IF Len(chan[p]) < QueueSize
          THEN chan' = [chan EXCEPT ![p] = Append(@, posting.packet)]
          ELSE UNCHANGED chan
    /\ posting' = NoPacket
    /\ UNCHANGED <<table, session, client, toServer, toClient, faults>>

-----------------------------------------------------------------------------
\* The routine of a peer.

\* A packet of the server, on its way or not: writing it may fail.
Write(p, k) == toClient' = [toClient EXCEPT ![p] = @ \cup {k}]

writeError(p) == Write(p, [type |-> "ERROR", at |-> Clock(p)])

Return(p) == session' = [session EXCEPT ![p] = [Idle EXCEPT !.pc = "returned"]]

\* Block 0 stands for the OACK that comes before the first block.
PacketOf(p, r, b) ==
    IF b = 0
    THEN [type |-> "OACK", req |-> r, at |-> Clock(p)]
    ELSE [type |-> "DATA", nr |-> b % Modulus, data |-> <<r, b>>, at |-> Clock(p)]

\* The first send of writeAndWaitForPacket: the block is read, written, and
\* the routine waits.  A failed read is reported to the peer, a failed write
\* is not; either way serveRRQ returns.
SendBlock(p, r, b) ==
    \/ /\ Write(p, PacketOf(p, r, b))
       /\ session' = [session EXCEPT ![p] =
                        [pc |-> "wait", req |-> r, blk |-> b, sends |-> 1]]
       /\ NoFault
    \/ b > 0 /\ writeError(p) /\ Return(p) /\ Fault
    \/ Return(p) /\ Fault /\ UNCHANGED toClient

\* serveRRQ up to its first wait; ReadFile or negotiate may fail.
serveRRQ(p, k) ==
    \/ SendBlock(p, k.req, IF k.options THEN 0 ELSE 1)
    \/ writeError(p) /\ Return(p) /\ Fault

\* session.serve reads its request with a timeout of 0.
serve(p) ==
    /\ session[p].pc = "serve"
    /\ chan[p] # <<>>
    /\ LET k == Head(chan[p])
       IN IF k.type = "RRQ"
          THEN serveRRQ(p, k)
          ELSE writeError(p) /\ Return(p) /\ NoFault
    /\ chan' = [chan EXCEPT ![p] = Tail(@)]
    /\ UNCHANGED <<posting, table, client, toServer>>

\* That timeout has always expired already: select may choose it whether or
\* not there is a packet.
serveTimeout(p) ==
    /\ session[p].pc = "serve"
    /\ writeError(p)
    /\ Return(p)
    /\ UNCHANGED <<posting, table, chan, client, toServer, faults>>

\* As ackValidator, but for any acknowledgement.
AckOfAnyBlock(k, blockNr) == k.type = "ACK"

ackValidator(k, blockNr) == k.type = "ACK" /\ k.nr = blockNr

\* writeAndWaitForPacket reads a packet: the acknowledgement it waits for,
\* one it cannot read, or one it ignores.
ReadReply(p) ==
    /\ session[p].pc = "wait"
    /\ chan[p] # <<>>
    /\ chan' = [chan EXCEPT ![p] = Tail(@)]
    /\ LET k == Head(chan[p])
           s == session[p]
       IN \/ /\ ackValidator(k, s.blk % Modulus)
             /\ IF s.blk < Blocks
                THEN SendBlock(p, s.req, s.blk + 1)
                ELSE Return(p) /\ NoFault /\ UNCHANGED toClient
          \/ k.type = "bad" /\ writeError(p) /\ Return(p) /\ NoFault
          \/ /\ ~ackValidator(k, s.blk % Modulus)
             /\ k.type # "bad"
             /\ UNCHANGED <<session, toClient, faults>>
    /\ UNCHANGED <<posting, table, client, toServer>>

\* As ReplyTimeout, but what is sent again is the content read for the next
\* block, or the sends are not counted.
ResendNextContent(p) ==
    /\ session[p].pc = "wait"
    /\ LET s == session[p]
       IN \/ /\ s.sends < MaxSends /\ s.blk > 0
             /\ Write(p, [PacketOf(p, s.req, s.blk) EXCEPT
                            !.data = <<s.req, IF s.blk < Blocks THEN s.blk + 1 ELSE s.blk>>])
             /\ session' = [session EXCEPT ![p].sends = @ + 1]
             /\ NoFault
          \/ s.sends = MaxSends /\ Return(p) /\ NoFault /\ UNCHANGED toClient
    /\ UNCHANGED <<posting, table, chan, client, toServer>>

ResendForever(p) ==
    /\ session[p].pc = "wait"
    /\ Write(p, PacketOf(p, session[p].req, session[p].blk))
    /\ UNCHANGED <<posting, table, chan, session, client, toServer, faults>>

\* The timeout of writeAndWaitForPacket: the packet is sent again (the write
\* may fail) or given up.  One that comes just then may stay in the channel.
ReplyTimeout(p) ==
    /\ session[p].pc = "wait"
    /\ LET s == session[p]
       IN \/ /\ s.sends < MaxSends
             /\ Write(p, PacketOf(p, s.req, s.blk))
             /\ session' = [session EXCEPT ![p].sends = @ + 1]
             /\ NoFault
          \/ s.sends < MaxSends /\ Return(p) /\ Fault /\ UNCHANGED toClient
          \/ s.sends = MaxSends /\ Return(p) /\ NoFault /\ UNCHANGED toClient
    /\ UNCHANGED <<posting, table, chan, client, toServer>>

\* As Leave, but without a look at the channel.
LeaveUnchecked(p) ==
    /\ session[p].pc = "returned"
    /\ posting = NoPacket
    /\ table' = table \ {p}
    /\ session' = [session EXCEPT ![p] = Idle]
    /\ UNCHANGED <<posting, chan, client, toServer, toClient, faults>>

\* After serve returns, with the lock held: another round, or the end.
Leave(p) ==
    /\ session[p].pc = "returned"
    /\ posting = NoPacket
    /\ IF chan[p] = <<>>
       THEN /\ table' = table \ {p}
            /\ session' = [session EXCEPT ![p] = Idle]
       ELSE /\ session' = [session EXCEPT ![p] = [Idle EXCEPT !.pc = "serve"]]
            /\ UNCHANGED table
    /\ UNCHANGED <<posting, chan, client, toServer, toClient, faults>>

Routine(p) ==
    serve(p) \/ serveTimeout(p) \/ ReadReply(p) \/ ReplyTimeout(p) \/ Leave(p)

-----------------------------------------------------------------------------
\* The client and the network.

\* The client sends k as its last packet; when that is progress, what has
\* been under way for too long is gone.
ClientSends(p, c, k) ==
    LET now == Progress(c)
        sent == [k EXCEPT !.at = now]
    IN /\ client' = [client EXCEPT ![p] = [c EXCEPT !.last = sent]]
       /\ toServer' = [toServer EXCEPT ![p] = Fresh(@ \cup {sent}, now)]

Request(p) ==
    /\ client[p].pc \in {"idle", "done"}
    /\ client[p].req < MaxRequests
    /\ LET r == client[p].req + 1
           c == [client[p] EXCEPT !.pc = "waiting", !.req = r, !.got = <<>>]
       IN /\ \E k \in [type : {"RRQ"}, req : {r}, options : BOOLEAN, at : {0}]
                       \cup [type : {"WRQ", "bad"}, at : {0}] :
                ClientSends(p, c, k)
          /\ toClient' = [toClient EXCEPT ![p] = Fresh(@, Progress(c))]
    /\ UNCHANGED <<server, faults>>

ACK(nr, data) == [type |-> "ACK", nr |-> nr, data |-> data, at |-> 0]

\* A packet is taken from the network, or a copy of it.
Take(p, k, now) ==
    \/ toClient' = [toClient EXCEPT ![p] = Fresh(@ \ {k}, now)] /\ NoFault
    \/ toClient' = [toClient EXCEPT ![p] = Fresh(@, now)] /\ Fault

\* The block the client waits for, and the one before it.
Awaits(c, k) ==
    c.pc = "waiting" /\ c.last.type \in {"RRQ", "ACK"}
    /\ k.nr = (Len(c.got) + 1) % Modulus

Repeats(c, k) ==
    c.pc \in {"waiting", "done"} /\ c.got # <<>> /\ k.nr = Len(c.got) % Modulus

ReceiveDATA(p) ==
    \E k \in toClient[p] :
        LET c == client[p]
            c2 == [c EXCEPT !.got = Append(@, k.data),
                            !.pc = IF k.data[2] = Blocks THEN "done" ELSE @]
        IN /\ k.type = "DATA"
           /\ \/ /\ Awaits(c, k)
                 /\ ClientSends(p, c2, ACK(k.nr, k.data))
                 /\ Take(p, k, Progress(c2))
              \/ /\ Repeats(c, k)
                 /\ ClientSends(p, c, ACK(k.nr, k.data))
                 /\ Take(p, k, Progress(c))
              \/ /\ ~Awaits(c, k) /\ ~Repeats(c, k)
                 /\ UNCHANGED <<client, toServer>>
                 /\ Take(p, k, Progress(c))
           /\ UNCHANGED server

ReceiveOther(p) ==
    \E k \in toClient[p] :
        LET c == client[p]
        IN /\ k.type # "DATA"
           /\ \/ /\ k.type = "OACK" /\ k.req = c.req
                 /\ c.pc = "waiting" /\ c.got = <<>>
                 /\ ClientSends(p, c, ACK(0, <<c.req, 0>>))
              \/ /\ k.type = "OACK"
                 /\ ~(k.req = c.req /\ c.pc = "waiting" /\ c.got = <<>>)
                 /\ UNCHANGED <<client, toServer>>
              \/ /\ k.type = "ERROR"
                 /\ client' = [client EXCEPT ![p].pc =
                                 IF @ = "waiting" THEN "aborted" ELSE @]
                 /\ UNCHANGED toServer
           /\ Take(p, k, Progress(c))
           /\ UNCHANGED server

\* The client's own timeout: it repeats what it sent last.
Repeat(p) ==
    /\ client[p].pc = "waiting"
    /\ Fault
    /\ ClientSends(p, client[p], client[p].last)
    /\ UNCHANGED <<server, toClient>>

Lose(p) ==
    /\ Fault
    /\ \/ \E k \in toServer[p] :
            toServer' = [toServer EXCEPT ![p] = @ \ {k}] /\ UNCHANGED toClient
       \/ \E k \in toClient[p] :
            toClient' = [toClient EXCEPT ![p] = @ \ {k}] /\ UNCHANGED toServer
    /\ UNCHANGED <<server, client>>

Client(p) == Request(p) \/ ReceiveDATA(p) \/ ReceiveOther(p) \/ Repeat(p)

Next ==
    \/ Post
    \/ \E p \in Peers : Receive(p) \/ Routine(p) \/ Client(p) \/ Lose(p)

Spec == Init /\ [][Next]_vars

\* The Go scheduler runs every routine that can run, timers fire, and select
\* chooses at random between a packet and a timeout that are both there.
FairSpec ==
    Spec /\ WF_vars(Post) /\ \A p \in Peers : WF_vars(Routine(p)) /\ SF_vars(serve(p))

-----------------------------------------------------------------------------
TypeOK ==
    /\ posting \in [peer : Peers, packet : ClientPackets] \cup {NoPacket}
    /\ table \subseteq Peers
    /\ chan \in [Peers -> Seq(ClientPackets)]
    /\ \A p \in Peers : Len(chan[p]) <= QueueSize
    /\ session \in [Peers -> Sessions]
    /\ client \in [Peers -> Clients]
    /\ toServer \in [Peers -> SUBSET ClientPackets]
    /\ toClient \in [Peers -> SUBSET ServerPackets]
    /\ faults \in 0..MaxFaults

\* A packet the loop accepted is never left in a channel nobody reads: the
\* table names exactly the peers whose routine runs, and a packet waits only
\* in, or on its way to, the channel of such a peer (Serve, the lock held
\* around the look at the table and the post, and around len(ch) == 0).
NoPacketStranded ==
    \A p \in Peers :
        /\ p \in table <=> session[p].pc # "none"
        /\ chan[p] # <<>> => session[p].pc # "none"
        /\ posting # NoPacket /\ posting.peer = p => p \in table

\* The server sends a block only to a client that has all blocks before it,
\* whatever acknowledgements were repeated, delayed or left over from before
\* the block number wrapped (serveRRQ, ackValidator).
LockStep ==
    \A p \in Peers :
        session[p].pc = "wait" /\ session[p].req = client[p].req
            => session[p].blk <= Len(client[p].got) + 1

\* What a client has received is a prefix of the file it asked for, each
\* block once and in order, and all of it when the transfer ended.
FileIntegrity ==
    \A p \in Peers :
        LET c == client[p]
        IN /\ \A i \in 1..Len(c.got) : c.got[i] = <<c.req, i>>
           /\ c.pc = "done" => Len(c.got) = Blocks

\* Whatever a client does or stops doing, its routine ends and its table
\* entry is given back (writeAndWaitForPacket gives up after three sends).
EverySessionEnds ==
    \A p \in Peers : session[p].pc # "none" ~> session[p].pc = "none"

=============================================================================
