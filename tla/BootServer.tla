----------------------------- MODULE BootServer -----------------------------
(***************************************************************************)
(* slingshot: how a bare-metal machine gets its address and its boot       *)
(* image.  On top of the transaction table (DhcpServer), ServeTxn builds   *)
(* a transaction from the first packet (newTxn: the subnet's and the       *)
(* machine's DHCP configuration and a lease, from cloud store) and answers *)
(* each packet (WriteReply); a PXE client is also given a boot file: the   *)
(* image is fetched through the file cache (filecache.Download) and bound  *)
(* to the machine's path (boundHandler.AddTar), where the TFTP server      *)
(* finds it (boundHandler.ReadFile).                                       *)
(*                                                                         *)
(* One machine; it makes one transaction per stage of its boot.  Its       *)
(* lease, and so its path, stay the same.  Cloud store, the image's HTTP   *)
(* server and the machine are not part of this code.                       *)
(***************************************************************************)
EXTENDS DhcpServer

CONSTANTS
    Stages,         \* what asks in each stage: "pxe", "ipxe" or "os"
    SubnetConf,     \* the subnet's configuration: [enabled, v]
    NodeConf,       \* the machine's own one at first, or None
    MaxChanges,     \* bound: new configurations and images
    MaxFaults,      \* bound: failures, lost and duplicated packets
    None


VARIABLES
    txn,            \* what the routine of each transaction works on
    nodeConf,       \* the machine's configuration in cloud store
    image,          \* version of the image on the HTTP server
    newer,          \* it changed after the cached file was written
    cache,          \* version of the cached image file, 0 if there is none,
                    \* negative if it is not one whole version
    tmp,            \* the file a download writes
    bound,          \* configuration the machine's path is bound with, or None
    machine,
    toServer, toClient,
    changes, faults

handler == <<txn, cache, tmp, newer, bound>>
world == <<nodeConf, image, changes>>
network == <<machine, toServer, toClient>>
vars == <<txnVars, handler, world, network, faults>>

Versions == 0..(1 + MaxChanges)
Confs == [enabled : BOOLEAN, v : Versions]
NoTmp == [by |-> 0, ver |-> 0, whole |-> FALSE]

ASSUME BootAssumption ==
    /\ Stages \in Seq({"pxe", "ipxe", "os"}) \ {<<>>}
    /\ Txns = 1..Len(Stages)
    /\ PacketTypes = {"DISCOVER", "REQUEST", "DECLINE"} /\ Discovers = {"DISCOVER"}
    /\ MaxChanges \in Nat /\ MaxFaults \in Nat
    /\ SubnetConf \in Confs /\ NodeConf \in Confs \cup {None} /\ None \notin Confs

NoTxn == [pc |-> "idle", packet |-> "DISCOVER", conf |-> None, set |-> FALSE,
          boot |-> FALSE, ver |-> 0]

Init ==
    /\ TxnInit
    /\ txn = [x \in Txns |-> NoTxn]
    /\ nodeConf = NodeConf
    /\ image = 1 /\ newer = FALSE /\ cache = 0 /\ tmp = NoTmp
    /\ bound = None
    /\ machine = [stage |-> 1, pc |-> "discover"]
    /\ toServer = {} /\ toClient = {}
    /\ changes = 0 /\ faults = 0

Fault == faults < MaxFaults /\ faults' = faults + 1
NoFault == UNCHANGED faults

-----------------------------------------------------------------------------
\* The routine of a transaction, one remote call at a time.

At(x, pc) == routine[x] = "busy" /\ txn[x].pc = pc
Set(x, t) == txn' = [txn EXCEPT ![x] = t]
Goto(x, pc) == Set(x, [txn[x] EXCEPT !.pc = pc])

\* ServeTxn returns: its transaction state is gone.
Abort(x) == Failed(x) /\ Set(x, NoTxn)

TakePacket(x) ==
    /\ Receive(x)
    /\ Set(x, [txn[x] EXCEPT !.packet = Head(ch[x]),
                             !.pc = IF txn[x].set THEN "serve" ELSE "subnet"])
    /\ UNCHANGED <<cache, tmp, newer, bound, world, network, faults>>

\* The machine is slow only by a fault; once it has gone on to another
\* stage, the transaction of this one ends for lack of packets.
IdleTooLong(x) ==
    /\ Timeout(x)
    /\ IF machine.stage = x /\ machine.pc \in {"discover", "request"}
       THEN Fault ELSE NoFault
    /\ Set(x, NoTxn)
    /\ UNCHANGED <<cache, tmp, newer, bound, world, network>>

\* getConfiguration: the subnet's configuration has to be there ...
LoadSubnetConfiguration(x) ==
    /\ At(x, "subnet")
    /\ \/ /\ Set(x, [txn[x] EXCEPT !.conf = SubnetConf, !.pc = "node"])
          /\ NoFault /\ UNCHANGED txnVars
       \/ Abort(x) /\ Fault
    /\ UNCHANGED <<cache, tmp, newer, bound, world, network>>

\* Get refuses a machine for which DHCP is disabled.
CheckEnabled(x, c) ==
    IF c.enabled
    THEN Set(x, [txn[x] EXCEPT !.conf = c, !.pc = "lease"]) /\ UNCHANGED txnVars
    ELSE Abort(x)

\* ... the machine's is laid over it, and is passed over when it is not
\* there or cannot be had.
LoadNodeConfiguration(x) ==
    /\ At(x, "node")
    /\ \/ nodeConf # None /\ CheckEnabled(x, nodeConf) /\ NoFault
       \/ nodeConf = None /\ CheckEnabled(x, txn[x].conf) /\ NoFault
       \/ nodeConf # None /\ CheckEnabled(x, txn[x].conf) /\ Fault
    /\ UNCHANGED <<cache, tmp, newer, bound, world, network>>

AcquireLease(x) ==
    /\ At(x, "lease")
    /\ \/ /\ Set(x, [txn[x] EXCEPT !.set = TRUE, !.pc = "serve"])
          /\ NoFault /\ UNCHANGED txnVars
       \/ Abort(x) /\ Fault
    /\ UNCHANGED <<cache, tmp, newer, bound, world, network>>

\* The switch of ServeTxn, and assignBootfile up to the download.
ServePacket(x) ==
    /\ At(x, "serve")
    /\ IF txn[x].packet = "DECLINE"
       THEN Handled(x) /\ Goto(x, "idle")
       ELSE /\ Goto(x, IF Stages[x] = "os" \/ txn[x].boot THEN "write" ELSE "download")
            /\ UNCHANGED txnVars
    /\ UNCHANGED <<cache, tmp, newer, bound, world, network, faults>>

\* filecache.Download.  Calls made while one is under way share its result
\* (singleflight).
Leaders == {x \in Txns : routine[x] = "busy" /\ txn[x].pc \in {"get", "copy", "rename"}}

\* As Download, but every caller downloads.
DownloadUnshared(x) ==
    /\ At(x, "download")
    /\ Goto(x, "get")
    /\ UNCHANGED <<txnVars, cache, tmp, newer, bound, world, network, faults>>

Download(x) ==
    /\ At(x, "download")
    /\ Goto(x, IF Leaders = {} THEN "get" ELSE "share")
    /\ UNCHANGED <<txnVars, cache, tmp, newer, bound, world, network, faults>>

\* The leader and those who share its result go on to pc.
Result(x, pc) ==
    txn' = [y \in Txns |->
              IF y = x \/ At(y, "share")
              THEN [txn[y] EXCEPT !.pc = pc] ELSE txn[y]]

\* As GetImage, but the boot file is assigned when the download failed too.
GetImageUnchecked(x) ==
    /\ At(x, "get")
    /\ Result(x, "bind") /\ Fault
    /\ UNCHANGED <<txnVars, tmp, cache, newer, bound, world, network>>

\* A cached file that is not older than the image makes the server answer
\* 304; a failed download means a reply without a boot file.
GetImage(x) ==
    /\ At(x, "get")
    /\ \/ /\ cache # 0 /\ ~newer
          /\ Result(x, "bind") /\ NoFault /\ UNCHANGED tmp
       \/ /\ cache = 0 \/ newer
          /\ Set(x, [txn[x] EXCEPT !.pc = "copy", !.ver = image])
          /\ tmp' = [by |-> x, ver |-> image, whole |-> FALSE]
          /\ NoFault
       \/ Result(x, "write") /\ Fault /\ UNCHANGED tmp
    /\ UNCHANGED <<txnVars, cache, newer, bound, world, network>>

CopyImage(x) ==
    /\ At(x, "copy")
    /\ \/ /\ tmp' = [tmp EXCEPT !.whole = (tmp.by = x)]
          /\ Goto(x, "rename") /\ NoFault
       \/ Result(x, "write") /\ Fault /\ UNCHANGED tmp
    /\ UNCHANGED <<txnVars, cache, newer, bound, world, network>>

\* The file is as old as its last write: what changed on the server during
\* the download does not count as newer.
RenameImage(x) ==
    /\ At(x, "rename")
    /\ \/ /\ cache' = IF tmp.whole THEN tmp.ver ELSE -1
          /\ newer' = FALSE /\ tmp' = NoTmp
          /\ Result(x, "bind") /\ NoFault
       \/ Result(x, "write") /\ Fault /\ UNCHANGED <<cache, newer, tmp>>
    /\ UNCHANGED <<txnVars, bound, world, network>>

\* AddTar, whatever was bound to the path before.
AddTar(x) ==
    /\ At(x, "bind")
    /\ bound' = txn[x].conf
    /\ Set(x, [txn[x] EXCEPT !.boot = TRUE, !.pc = "write"])
    /\ UNCHANGED <<txnVars, cache, tmp, newer, world, network, faults>>

ReplyTo == [DISCOVER |-> "OFFER", REQUEST |-> "ACK"]

WriteReply(x) ==
    /\ At(x, "write")
    /\ \/ /\ toClient' = toClient \cup
                {[type |-> ReplyTo[txn[x].packet], xid |-> x, boot |-> txn[x].boot]}
          /\ Handled(x) /\ Goto(x, "idle") /\ NoFault
       \/ Abort(x) /\ Fault /\ UNCHANGED toClient
    /\ UNCHANGED <<cache, tmp, newer, bound, world, machine, toServer>>

\* As ReportDone, but the routine takes its own entry off the table.
ReportDeletes(x) ==
    /\ routine[x] = "returned"
    /\ routine' = [routine EXCEPT ![x] = "none"]
    /\ txnMap' = txnMap \ {x} /\ ch' = [ch EXCEPT ![x] = <<>>]
    /\ UNCHANGED <<handler, world, network, faults>>

ReportDone(x) ==
    Report(x) /\ UNCHANGED <<handler, world, network, faults>>

Routine(x) ==
    \/ TakePacket(x) \/ IdleTooLong(x) \/ ReportDone(x)
    \/ LoadSubnetConfiguration(x) \/ LoadNodeConfiguration(x) \/ AcquireLease(x)
    \/ ServePacket(x) \/ Download(x) \/ GetImage(x) \/ CopyImage(x)
    \/ RenameImage(x) \/ AddTar(x) \/ WriteReply(x)

-----------------------------------------------------------------------------
\* The machine and the network.  A packet is [xid, type].

Packet(type) == [xid |-> machine.stage, type |-> type]

Deliver(k) ==
    /\ k \in toServer
    /\ ServeDHCP(k.xid, k.type)
    /\ \/ toServer' = toServer \ {k} /\ NoFault
       \/ UNCHANGED toServer /\ Fault
    /\ UNCHANGED <<handler, world, machine, toClient>>

\* Nothing of the machine's exchange is under way any more.
Quiet ==
    /\ \A k \in toServer \cup toClient : k.xid # machine.stage
    /\ routine[machine.stage] # "busy"
    /\ routine[machine.stage] = "recv" => ch[machine.stage] = <<>>

\* The machine asks, and asks again when nothing comes; sometimes too early.
Send ==
    /\ machine.pc \in {"discover", "request"}
    /\ IF Quiet THEN NoFault ELSE Fault
    /\ toServer' = toServer \cup
         {Packet(IF machine.pc = "discover" THEN "DISCOVER" ELSE "REQUEST")}
    /\ UNCHANGED <<txnVars, handler, world, machine, toClient>>

NextStage ==
    IF machine.stage = Len(Stages)
    THEN [machine EXCEPT !.pc = "booted"]
    ELSE [stage |-> machine.stage + 1, pc |-> "discover"]

\* An ACK ends the exchange: a PXE client without a boot file starts over,
\* and so does one that finds its address in use.
AfterAck(k) ==
    IF Stages[k.xid] = "os"
    THEN NextStage
    ELSE [machine EXCEPT !.pc = IF k.boot THEN "fetch" ELSE "discover"]

Expects(k, type, pc) == k.xid = machine.stage /\ k.type = type /\ machine.pc = pc

ReceiveReply ==
    /\ \E k \in toClient :
        /\ toClient' = toClient \ {k}
        /\ \/ /\ Expects(k, "OFFER", "discover")
              /\ machine' = [machine EXCEPT !.pc = "request"]
              /\ toServer' = toServer \cup {Packet("REQUEST")} /\ NoFault
           \/ /\ Expects(k, "ACK", "request")
              /\ machine' = AfterAck(k)
              /\ UNCHANGED toServer /\ NoFault
           \/ /\ Expects(k, "ACK", "request")
              /\ machine' = [machine EXCEPT !.pc = "discover"]
              /\ toServer' = toServer \cup {Packet("DECLINE")} /\ Fault
           \/ /\ ~Expects(k, "OFFER", "discover") /\ ~Expects(k, "ACK", "request")
              /\ UNCHANGED <<machine, toServer, faults>>
    /\ UNCHANGED <<txnVars, handler, world>>

GiveUp ==
    /\ machine.pc = "request" /\ Quiet
    /\ machine' = [machine EXCEPT !.pc = "discover"]
    /\ UNCHANGED <<txnVars, handler, world, toServer, toClient, faults>>

\* ReadFile on the bound path.
Fetch ==
    /\ machine.pc = "fetch"
    /\ machine' = IF bound # None THEN NextStage ELSE [machine EXCEPT !.pc = "discover"]
    /\ UNCHANGED <<txnVars, handler, world, toServer, toClient, faults>>

Lose ==
    /\ Fault
    /\ \/ \E k \in toServer : toServer' = toServer \ {k} /\ UNCHANGED toClient
       \/ \E k \in toClient : toClient' = toClient \ {k} /\ UNCHANGED toServer
    /\ UNCHANGED <<txnVars, handler, world, machine>>

\* Somebody stores another configuration for the machine, or another image.
Change ==
    /\ changes < MaxChanges
    /\ changes' = changes + 1
    /\ \/ /\ nodeConf' \in [enabled : BOOLEAN, v : {1 + changes'}] \cup {None}
          /\ UNCHANGED <<image, newer>>
       \/ image' = image + 1 /\ newer' = TRUE /\ UNCHANGED nodeConf
    /\ UNCHANGED <<txnVars, txn, cache, tmp, bound, network, faults>>

Machine == Send \/ ReceiveReply \/ GiveUp \/ Fetch

Next ==
    \/ \E x \in Txns : Routine(x)
    \/ \E k \in toServer : Deliver(k)
    \/ Machine \/ Lose \/ Change

Spec == Init /\ [][Next]_vars

\* Routines that can run do run and timers fire, what is not lost arrives,
\* and the machine gives up waiting in the end.
Fairness ==
    /\ \A x \in Txns : WF_vars(Routine(x))
    /\ \A k \in [xid : Txns, type : PacketTypes] : WF_vars(Deliver(k))
    /\ WF_vars(Send) /\ WF_vars(ReceiveReply) /\ SF_vars(GiveUp) /\ WF_vars(Fetch)

FairSpec == Spec /\ Fairness

-----------------------------------------------------------------------------
TxnRecords ==
    [pc : {"idle", "subnet", "node", "lease", "serve", "download", "share", "get",
           "copy", "rename", "bind", "write"},
     packet : PacketTypes, conf : Confs \cup {None}, set : BOOLEAN, boot : BOOLEAN,
     ver : Versions]

TmpFiles == [by : Txns \cup {0}, ver : Versions, whole : BOOLEAN]

TypeOK ==
    /\ TxnTypeOK
    /\ txn \in [Txns -> TxnRecords]
    /\ nodeConf \in Confs \cup {None} /\ bound \in Confs \cup {None}
    /\ image \in Versions /\ newer \in BOOLEAN /\ changes \in 0..MaxChanges
    /\ cache \in Versions \cup {-1}
    /\ tmp \in TmpFiles
    /\ machine \in [stage : Txns, pc : {"discover", "request", "fetch", "booted"}]
    /\ toServer \subseteq [xid : Txns, type : PacketTypes]
    /\ toClient \subseteq [xid : Txns, type : {"OFFER", "ACK"}, boot : BOOLEAN]
    /\ faults \in 0..MaxFaults

\* A machine is told of a boot file only when its path is bound and stays
\* bound, so that the TFTP request that follows finds an image, whatever
\* transactions of the machine run beside each other (assignBootfile).
BootfileIsBound ==
    machine.pc = "fetch" \/ (\E k \in toClient : k.boot)
        => bound # None /\ cache # 0

\* The image file handed out is one whole version of the image, although
\* several transactions download it at the same time and downloads fail half
\* way (Download: singleflight, the temporary file, the rename).
ImageIsWhole == cache >= 0

\* DHCP works for a machine that is enabled for good: it boots, although
\* packets get lost, fall to a routine that is just ending or to a full
\* channel, and calls fail.
MachineBoots ==
    <>[](IF nodeConf = None THEN SubnetConf.enabled ELSE nodeConf.enabled)
        => <>(machine.pc = "booted")

=============================================================================
