----------------------------- MODULE BootProofs -----------------------------
(***************************************************************************)
(* Proofs about DhcpServer and BootServer.  The transaction table is       *)
(* right whatever the routines do with their packets (TxnSpec); slingshot  *)
(* as a whole implements that table, so it is right there too.             *)
(***************************************************************************)
EXTENDS BootServer, TLAPS

\* Most leaves are first-order reasoning, which Zenon does; those with arithmetic,
\* records or long formulas name SMT.
USE Zenon

\* The table with its types is inductive: whether a transaction is open says
\* nothing by itself of a channel whose content has no bound.
TxnInv == TxnTypeOK /\ TableMatchesRoutines

LEMMA TxnInitInv == TxnInit => TxnInv
BY SMT, DhcpAssumption DEF TxnInit, TxnInv, TxnTypeOK, TableMatchesRoutines, RoutineStates

\* ServeDHCP: what is drained leaves table, channel and routine together.
LEMMA ServeDHCPKeepsInv ==
  ASSUME TxnInv, NEW x \in Txns, NEW k \in PacketTypes, ServeDHCP(x, k)
  PROVE  TxnInv'
<1> DEFINE live == txnMap \ Finished
           open == x \notin live /\ k \in Discovers
           kept == [y \in Txns |-> IF y \in Finished THEN <<>> ELSE ch[y]]
<1>1. /\ txnMap' = IF open THEN live \cup {x} ELSE live
      /\ routine' = [y \in Txns |->
                       IF y = x /\ open THEN "recv"
                       ELSE IF y \in Finished THEN "none" ELSE routine[y]]
      /\ ch' = IF x \in txnMap' /\ Len(kept[x]) < ChanSize
               THEN [kept EXCEPT ![x] = Append(@, k)] ELSE kept
  BY DEF ServeDHCP
<1>2. /\ kept \in [Txns -> Seq(PacketTypes)]
      /\ \A y \in Txns : Len(kept[y]) <= ChanSize
      /\ \A y \in Txns : kept[y] # <<>> => y \in live
  BY SMT, DhcpAssumption DEF TxnInv, TxnTypeOK, TableMatchesRoutines
<1>3. /\ ch' \in [Txns -> Seq(PacketTypes)]
      /\ \A y \in Txns : Len(ch'[y]) <= ChanSize
      /\ \A y \in Txns : ch'[y] # <<>> => y \in txnMap'
  <2> HIDE DEF live, open, kept
  <2>1. CASE x \in txnMap' /\ Len(kept[x]) < ChanSize
    <3>1. ch' = [kept EXCEPT ![x] = Append(kept[x], k)]
      BY <1>1, <2>1
    <3>2. /\ Append(kept[x], k) \in Seq(PacketTypes)
          /\ Len(Append(kept[x], k)) = Len(kept[x]) + 1
          /\ Len(kept[x]) \in Nat
      BY SMT, <1>2
    <3>3. live \subseteq txnMap'
      BY <1>1
    <3> QED  BY SMT, <1>2, <2>1, <3>1, <3>2, <3>3, DhcpAssumption
  <2>2. CASE ~(x \in txnMap' /\ Len(kept[x]) < ChanSize)
    BY <1>1, <1>2, <2>2
  <2> QED  BY <2>1, <2>2
<1>4. /\ txnMap' \subseteq Txns
      /\ routine' \in [Txns -> RoutineStates]
  BY <1>1 DEF TxnInv, TxnTypeOK, RoutineStates
<1>5. \A y \in Txns : y \in txnMap' <=> routine'[y] # "none"
  BY <1>1 DEF TxnInv, TableMatchesRoutines, Finished
<1> QED  BY <1>3, <1>4, <1>5 DEF TxnInv, TxnTypeOK, TableMatchesRoutines

\* A routine only takes packets, and moves on without an effect on the table.
LEMMA RoutineKeepsInv ==
  ASSUME TxnInv, NEW x \in Txns,
         Receive(x) \/ Timeout(x) \/ Handled(x) \/ Failed(x) \/ Report(x)
  PROVE  TxnInv'
<1>1. /\ ch' \in [Txns -> Seq(PacketTypes)]
      /\ \A y \in Txns : Len(ch'[y]) <= ChanSize /\ (ch'[y] # <<>> => ch[y] # <<>>)
  <2>1. CASE Receive(x)
    <3>1. ch' = [ch EXCEPT ![x] = Tail(ch[x])] /\ ch[x] # <<>>
      BY <2>1 DEF Receive
    <3>2. /\ Tail(ch[x]) \in Seq(PacketTypes)
          /\ Len(Tail(ch[x])) = Len(ch[x]) - 1 /\ Len(ch[x]) \in Nat
      BY SMT, <3>1 DEF TxnInv, TxnTypeOK
    <3> QED  BY SMT, <3>1, <3>2, DhcpAssumption DEF TxnInv, TxnTypeOK
  <2>2. CASE UNCHANGED ch
    BY <2>2 DEF TxnInv, TxnTypeOK
  <2> QED  BY <2>1, <2>2 DEF Timeout, Handled, Failed, Report
<1>2. /\ txnMap' = txnMap
      /\ routine' \in [Txns -> RoutineStates]
      /\ \A y \in Txns : routine'[y] # "none" <=> routine[y] # "none"
  BY DEF TxnInv, TxnTypeOK, RoutineStates, Receive, Timeout, Handled, Failed, Report
<1> QED  BY <1>1, <1>2 DEF TxnInv, TxnTypeOK, TableMatchesRoutines

LEMMA TxnNextInv == TxnInv /\ [TxnNext]_txnVars => TxnInv'
<1> SUFFICES ASSUME TxnInv, [TxnNext]_txnVars PROVE TxnInv'
  OBVIOUS
<1>1. CASE TxnNext
  BY <1>1, ServeDHCPKeepsInv, RoutineKeepsInv DEF TxnNext
<1>2. CASE UNCHANGED txnVars
  BY <1>2 DEF txnVars, TxnInv, TxnTypeOK, TableMatchesRoutines
<1> QED  BY <1>1, <1>2

\* However packets and routines interleave, ServeDHCP's table names exactly
\* the transactions that have a routine, and no packet is left in the channel
\* of a transaction without one.
THEOREM TableIsRight == TxnSpec => []TableMatchesRoutines
<1>1. TxnInv => TableMatchesRoutines
  BY DEF TxnInv
<1> QED  BY TxnInitInv, TxnNextInv, <1>1, PTL DEF TxnSpec

-----------------------------------------------------------------------------
\* Slingshot.  A transaction is at work exactly while its routine has a packet,
\* and what it works on is complete: a configuration once it has been read, and
\* no DECLINE beyond ServePacket.
WorkInv ==
    \A x \in Txns :
        LET t == txn[x]
        IN /\ t.pc # "idle" <=> routine[x] = "busy"
           /\ t.set \/ t.pc \notin {"idle", "subnet"} => t.conf # None
           /\ t.pc \notin {"idle", "subnet", "node", "lease", "serve"}
                => t.packet # "DECLINE"

Leading == {"get", "copy", "rename"}

\* One routine downloads at a time; the temporary file is its own while it
\* copies, and whole when it renames.
DownloadInv ==
    /\ \A x, y \in Txns : txn[x].pc \in Leading /\ txn[y].pc \in Leading => x = y
    /\ \A x \in Txns : txn[x].pc \in {"copy", "rename"} => tmp.by = x /\ tmp.ver # 0
    /\ \A x \in Txns : txn[x].pc = "rename" => tmp.whole
    /\ cache >= 0
    /\ image \in 1..(1 + changes)

\* A boot file is promised only when there is an image and a binding.
Bound == bound # None /\ cache # 0

PromiseInv ==
    /\ \A x \in Txns : txn[x].pc = "bind" => cache # 0
    /\ \A x \in Txns : txn[x].boot => Bound
    /\ \A k \in toClient : k.boot => Bound
    /\ machine.pc = "fetch" => Bound

BootInv == TypeOK /\ TableMatchesRoutines /\ WorkInv /\ DownloadInv /\ PromiseInv

LEMMA BootTypes ==
  /\ 1 \in Txns /\ Txns \subseteq Nat
  /\ Versions \subseteq Nat /\ 0 \in Versions
  /\ NoTxn \in TxnRecords /\ NoTxn.pc = "idle" /\ ~NoTxn.set /\ ~NoTxn.boot
  /\ NoTmp \in TmpFiles
BY SMT, BootAssumption DEF Versions, NoTxn, NoTmp, TxnRecords, TmpFiles

LEMMA BootInitInv == Init => BootInv
<1> SUFFICES ASSUME Init PROVE BootInv
  OBVIOUS
<1>1. TxnInv
  BY TxnInitInv DEF Init
<1>3. TypeOK
  <2>1. image \in Versions /\ changes \in 0..MaxChanges /\ faults \in 0..MaxFaults
    BY SMT, BootAssumption DEF Init, Versions
  <2> QED  BY <1>1, <2>1, BootTypes, BootAssumption DEF Init, TypeOK, TxnInv
<1>4. WorkInv /\ DownloadInv /\ PromiseInv
  BY SMT, BootTypes, BootAssumption
     DEF Init, TxnInit, WorkInv, DownloadInv, PromiseInv, NoTmp, Leading
<1> QED  BY <1>1, <1>3, <1>4 DEF BootInv, TxnInv

\* A step of slingshot is a step of its transaction table, or leaves it alone.
LEMMA BootStepIsTxnStep == TypeOK /\ [Next]_vars => [TxnNext]_txnVars
<1> SUFFICES ASSUME TypeOK, [Next]_vars PROVE [TxnNext]_txnVars
  OBVIOUS
<1>1. CASE UNCHANGED vars
  BY <1>1 DEF vars
<1>2. ASSUME NEW x \in Txns, Routine(x) PROVE [TxnNext]_txnVars
  <2>1. CASE TakePacket(x) \/ IdleTooLong(x) \/ ReportDone(x)
    BY <2>1 DEF TakePacket, IdleTooLong, ReportDone, TxnNext
  <2>2. CASE LoadSubnetConfiguration(x) \/ LoadNodeConfiguration(x) \/ AcquireLease(x)
    BY <2>2 DEF LoadSubnetConfiguration, LoadNodeConfiguration, AcquireLease,
                CheckEnabled, Abort, TxnNext
  <2>3. CASE ServePacket(x) \/ WriteReply(x)
    BY <2>3 DEF ServePacket, WriteReply, Abort, TxnNext
  <2>4. CASE Download(x) \/ GetImage(x) \/ CopyImage(x) \/ RenameImage(x) \/ AddTar(x)
    BY <2>4 DEF Download, GetImage, CopyImage, RenameImage, AddTar
  <2> QED  BY <1>2, <2>1, <2>2, <2>3, <2>4 DEF Routine
<1>3. ASSUME NEW k \in toServer, Deliver(k) PROVE [TxnNext]_txnVars
  <2>1. k.xid \in Txns /\ k.type \in PacketTypes
    BY DEF TypeOK
  <2>2. ServeDHCP(k.xid, k.type)
    BY <1>3 DEF Deliver
  <2> QED  BY <2>1, <2>2 DEF TxnNext
<1>4. CASE Machine \/ Lose \/ Change
  BY <1>4 DEF Machine, Send, ReceiveReply, GiveUp, Fetch, Lose, Change
<1> QED  BY <1>1, <1>2, <1>3, <1>4 DEF Next

\* Where x may go with t without a word to anybody else.
LEMMA SetKeepsInv ==
  ASSUME BootInv, NEW x \in Txns, NEW t \in TxnRecords, Set(x, t),
         UNCHANGED <<cache, tmp, newer, bound, nodeConf, image, changes,
                     machine, toServer, toClient>>,
         faults' \in 0..MaxFaults,
         TxnTypeOK',
         t.pc # "idle" <=> routine'[x] = "busy",
         \A y \in Txns \ {x} : routine'[y] = "busy" <=> routine[y] = "busy",
         t.pc \notin {"copy", "rename", "bind"},
         t.pc = "get" => \A y \in Txns : txn[y].pc \notin Leading,
         t.boot => txn[x].boot,
         t.set \/ t.pc \notin {"idle", "subnet"} => t.conf # None,
         t.pc \notin {"idle", "subnet", "node", "lease", "serve"} => t.packet # "DECLINE"
  PROVE  (TypeOK /\ WorkInv /\ DownloadInv /\ PromiseInv)'
<1>1. /\ txn \in [Txns -> TxnRecords]
      /\ txn' = [txn EXCEPT ![x] = t]
  BY DEF BootInv, TypeOK, Set
<1>2. TypeOK'
  BY <1>1 DEF BootInv, TypeOK
<1>3. WorkInv'
  BY <1>1 DEF BootInv, WorkInv
<1>4. DownloadInv'
  BY <1>1 DEF BootInv, DownloadInv, Leading
<1>5. PromiseInv'
  BY <1>1 DEF BootInv, PromiseInv, Bound
<1> QED  BY <1>2, <1>3, <1>4, <1>5

LEMMA FaultType ==
  ASSUME TypeOK, Fault \/ NoFault PROVE faults' \in 0..MaxFaults
BY SMT, BootAssumption DEF TypeOK, Fault, NoFault

\* Fields of txn[x] after a change of some of them.
LEMMA TxnFields ==
  ASSUME TypeOK, NEW x \in Txns
  PROVE  /\ txn[x] \in TxnRecords
         /\ txn[x].set \in BOOLEAN /\ txn[x].boot \in BOOLEAN
         /\ txn[x].conf \in Confs \cup {None}
BY DEF TypeOK, TxnRecords

LEMMA AbortKeepsInv ==
  ASSUME BootInv, NEW x \in Txns, Set(x, NoTxn), TxnTypeOK', faults' \in 0..MaxFaults,
         routine[x] \in {"busy", "recv"}, routine' = [routine EXCEPT ![x] = "returned"],
         UNCHANGED <<cache, tmp, newer, bound, nodeConf, image, changes,
                     machine, toServer, toClient>>
  PROVE  (TypeOK /\ WorkInv /\ DownloadInv /\ PromiseInv)'
<1>1. routine \in [Txns -> RoutineStates]
  BY DEF BootInv, TypeOK, TxnTypeOK
<1>2. routine'[x] = "returned" /\ \A y \in Txns \ {x} : routine'[y] = routine[y]
  BY <1>1
<1> QED  BY <1>2, BootTypes, SetKeepsInv

LEMMA TakePacketInv ==
  ASSUME BootInv, NEW x \in Txns, TakePacket(x), TxnTypeOK'
  PROVE  (TypeOK /\ WorkInv /\ DownloadInv /\ PromiseInv)'
<1> DEFINE t == [txn[x] EXCEPT !.packet = Head(ch[x]),
                               !.pc = IF txn[x].set THEN "serve" ELSE "subnet"]
<1>1. txn[x] \in TxnRecords /\ Head(ch[x]) \in PacketTypes
  BY SMT, TxnFields DEF BootInv, TypeOK, TxnTypeOK, TakePacket, Receive
<1>2. /\ t \in TxnRecords
      /\ t.pc = IF txn[x].set THEN "serve" ELSE "subnet"
      /\ t.set = txn[x].set /\ t.boot = txn[x].boot /\ t.conf = txn[x].conf
  BY <1>1 DEF TxnRecords
<1>3. /\ routine'[x] = "busy" /\ \A y \in Txns \ {x} : routine'[y] = routine[y]
  BY DEF TakePacket, Receive, BootInv, TypeOK, TxnTypeOK
<1>4. t.set => t.conf # None
  BY <1>2 DEF BootInv, WorkInv
<1>5. faults' \in 0..MaxFaults
  BY DEF BootInv, TypeOK, TakePacket
<1>6. /\ Set(x, t)
      /\ UNCHANGED <<cache, tmp, newer, bound, nodeConf, image, changes,
                     machine, toServer, toClient>>
  BY DEF TakePacket, world, network
<1> HIDE DEF t
<1> QED  BY <1>2, <1>3, <1>4, <1>5, <1>6, SetKeepsInv

LEMMA IdleTooLongInv ==
  ASSUME BootInv, NEW x \in Txns, IdleTooLong(x), TxnTypeOK'
  PROVE  (TypeOK /\ WorkInv /\ DownloadInv /\ PromiseInv)'
<1>1. faults' \in 0..MaxFaults
  BY FaultType DEF IdleTooLong, BootInv
<1> QED  BY <1>1, AbortKeepsInv DEF IdleTooLong, Timeout, world, network

\* A routine goes on with its packet.
LEMMA GoOnKeepsInv ==
  ASSUME BootInv, NEW x \in Txns, NEW t \in TxnRecords, Set(x, t),
         routine[x] = "busy",
         t.pc \in {"node", "lease", "serve", "download", "share", "get", "write"},
         t.pc = "get" => \A y \in Txns : txn[y].pc \notin Leading,
         t.conf # None, t.boot => txn[x].boot,
         t.pc \notin {"node", "lease", "serve"} => t.packet # "DECLINE",
         faults' \in 0..MaxFaults,
         UNCHANGED <<txnVars, cache, tmp, newer, bound, world, network>>
  PROVE  (TypeOK /\ WorkInv /\ DownloadInv /\ PromiseInv)'
<1>1. TxnTypeOK' /\ routine' = routine
  BY DEF BootInv, TypeOK, TxnTypeOK, txnVars
<1> QED  BY <1>1, SetKeepsInv DEF world, network

\* A call failed and ServeTxn returns.
LEMMA FailKeepsInv ==
  ASSUME BootInv, NEW x \in Txns, Abort(x), TxnTypeOK', faults' \in 0..MaxFaults,
         UNCHANGED <<cache, tmp, newer, bound, world, network>>
  PROVE  (TypeOK /\ WorkInv /\ DownloadInv /\ PromiseInv)'
BY AbortKeepsInv DEF Abort, Failed, world, network

LEMMA LoadSubnetConfigurationInv ==
  ASSUME BootInv, NEW x \in Txns, LoadSubnetConfiguration(x), TxnTypeOK'
  PROVE  (TypeOK /\ WorkInv /\ DownloadInv /\ PromiseInv)'
<1> DEFINE t == [txn[x] EXCEPT !.conf = SubnetConf, !.pc = "node"]
<1>1. /\ t \in TxnRecords
      /\ t.pc = "node" /\ t.conf = SubnetConf /\ t.boot = txn[x].boot
  BY TxnFields, BootAssumption DEF TxnRecords, BootInv
<1>2. SubnetConf # None
  BY BootAssumption
<1>3. routine[x] = "busy" /\ faults' \in 0..MaxFaults
  BY FaultType DEF LoadSubnetConfiguration, At, BootInv
<1>4. CASE Set(x, t) /\ UNCHANGED txnVars
  <2> HIDE DEF t
  <2> QED  BY <1>1, <1>2, <1>3, <1>4, GoOnKeepsInv DEF LoadSubnetConfiguration
<1>5. CASE Abort(x)
  BY <1>3, <1>5, FailKeepsInv DEF LoadSubnetConfiguration
<1> QED  BY <1>4, <1>5 DEF LoadSubnetConfiguration

LEMMA CheckEnabledInv ==
  ASSUME BootInv, NEW x \in Txns, NEW c \in Confs, CheckEnabled(x, c), routine[x] = "busy",
         TxnTypeOK', faults' \in 0..MaxFaults,
         UNCHANGED <<cache, tmp, newer, bound, world, network>>
  PROVE  (TypeOK /\ WorkInv /\ DownloadInv /\ PromiseInv)'
<1> DEFINE t == [txn[x] EXCEPT !.conf = c, !.pc = "lease"]
<1>1. /\ t \in TxnRecords
      /\ t.pc = "lease" /\ t.conf = c /\ t.boot = txn[x].boot
  BY TxnFields DEF TxnRecords, BootInv
<1>2. c # None
  BY BootAssumption
<1>4. CASE Set(x, t) /\ UNCHANGED txnVars
  <2> HIDE DEF t
  <2> QED  BY <1>1, <1>2, <1>4, GoOnKeepsInv
<1>5. CASE Abort(x)
  BY <1>5, FailKeepsInv
<1> QED  BY <1>4, <1>5 DEF CheckEnabled

LEMMA LoadNodeConfigurationInv ==
  ASSUME BootInv, NEW x \in Txns, LoadNodeConfiguration(x), TxnTypeOK'
  PROVE  (TypeOK /\ WorkInv /\ DownloadInv /\ PromiseInv)'
<1>1. routine[x] = "busy" /\ faults' \in 0..MaxFaults
  BY FaultType DEF LoadNodeConfiguration, At, BootInv
<1>2. txn[x].conf \in Confs
  BY TxnFields DEF LoadNodeConfiguration, At, BootInv, WorkInv
<1>3. nodeConf # None => nodeConf \in Confs
  BY DEF BootInv, TypeOK
<1>4. CASE nodeConf # None /\ CheckEnabled(x, nodeConf)
  BY <1>1, <1>3, <1>4, CheckEnabledInv DEF LoadNodeConfiguration
<1>5. CASE CheckEnabled(x, txn[x].conf)
  BY <1>1, <1>2, <1>5, CheckEnabledInv DEF LoadNodeConfiguration
<1> QED  BY <1>4, <1>5 DEF LoadNodeConfiguration

LEMMA AcquireLeaseInv ==
  ASSUME BootInv, NEW x \in Txns, AcquireLease(x), TxnTypeOK'
  PROVE  (TypeOK /\ WorkInv /\ DownloadInv /\ PromiseInv)'
<1> DEFINE t == [txn[x] EXCEPT !.set = TRUE, !.pc = "serve"]
<1>1. /\ t \in TxnRecords
      /\ t.pc = "serve" /\ t.conf = txn[x].conf /\ t.boot = txn[x].boot
  BY TxnFields DEF TxnRecords, BootInv
<1>2. txn[x].conf # None
  BY DEF AcquireLease, At, BootInv, WorkInv
<1>3. routine[x] = "busy" /\ faults' \in 0..MaxFaults
  BY FaultType DEF AcquireLease, At, BootInv
<1>4. CASE Set(x, t) /\ UNCHANGED txnVars
  <2> HIDE DEF t
  <2> QED  BY <1>1, <1>2, <1>3, <1>4, GoOnKeepsInv DEF AcquireLease
<1>5. CASE Abort(x)
  BY <1>3, <1>5, FailKeepsInv DEF AcquireLease
<1> QED  BY <1>4, <1>5 DEF AcquireLease

\* The packet is done with.
LEMMA HandledKeepsInv ==
  ASSUME BootInv, NEW x \in Txns, Handled(x), Goto(x, "idle"), TxnTypeOK',
         UNCHANGED <<cache, tmp, newer, bound, nodeConf, image, changes,
                     machine, toServer, toClient>>,
         faults' \in 0..MaxFaults
  PROVE  (TypeOK /\ WorkInv /\ DownloadInv /\ PromiseInv)'
<1> DEFINE t == [txn[x] EXCEPT !.pc = "idle"]
<1>1. /\ t \in TxnRecords /\ t.pc = "idle"
      /\ t.set = txn[x].set /\ t.boot = txn[x].boot /\ t.conf = txn[x].conf
  BY TxnFields DEF BootInv, TxnRecords
<1>2. txn[x].set => txn[x].conf # None
  BY DEF BootInv, WorkInv
<1>3. routine'[x] = "recv" /\ \A y \in Txns \ {x} : routine'[y] = routine[y]
  BY DEF Handled, BootInv, TypeOK, TxnTypeOK
<1>4. Set(x, t)
  BY DEF Goto
<1> HIDE DEF t
<1> QED  BY <1>1, <1>2, <1>3, <1>4, SetKeepsInv

LEMMA ServePacketInv ==
  ASSUME BootInv, NEW x \in Txns, ServePacket(x), TxnTypeOK'
  PROVE  (TypeOK /\ WorkInv /\ DownloadInv /\ PromiseInv)'
<1>1. /\ routine[x] = "busy" /\ txn[x].conf # None
      /\ faults' \in 0..MaxFaults
  BY DEF ServePacket, At, BootInv, WorkInv, TypeOK
<1>2. CASE txn[x].packet = "DECLINE"
  BY <1>1, <1>2, HandledKeepsInv DEF ServePacket, world, network
<1>3. CASE txn[x].packet # "DECLINE"
  <2> DEFINE pc == IF Stages[x] = "os" \/ txn[x].boot THEN "write" ELSE "download"
             t == [txn[x] EXCEPT !.pc = pc]
  <2>1. pc \in {"write", "download"}
    OBVIOUS
  <2>2. Set(x, t) /\ UNCHANGED txnVars
    BY <1>3 DEF ServePacket, Goto
  <2> HIDE DEF pc
  <2>3. /\ t \in TxnRecords /\ t.pc = pc
        /\ t.boot = txn[x].boot /\ t.conf = txn[x].conf /\ t.packet = txn[x].packet
    BY <2>1, TxnFields DEF BootInv, TxnRecords
  <2> HIDE DEF t
  <2> QED  BY <1>1, <1>3, <2>1, <2>2, <2>3, GoOnKeepsInv DEF ServePacket
<1> QED  BY <1>2, <1>3

LEMMA DownloadKeepsInv ==
  ASSUME BootInv, NEW x \in Txns, Download(x), TxnTypeOK'
  PROVE  (TypeOK /\ WorkInv /\ DownloadInv /\ PromiseInv)'
<1>1. /\ routine[x] = "busy" /\ txn[x].conf # None /\ txn[x].packet # "DECLINE"
      /\ faults' \in 0..MaxFaults
  BY DEF Download, At, BootInv, WorkInv, TypeOK
<1>2. Leaders = {} => \A y \in Txns : txn[y].pc \notin Leading
  BY DEF Leaders, Leading, BootInv, WorkInv
<1> DEFINE pc == IF Leaders = {} THEN "get" ELSE "share"
           t == [txn[x] EXCEPT !.pc = pc]
<1>3. pc \in {"get", "share"} /\ (pc = "get" => Leaders = {})
  OBVIOUS
<1>4. Set(x, t)
  BY DEF Download, Goto
<1> HIDE DEF pc
<1>5. /\ t \in TxnRecords /\ t.pc = pc
      /\ t.boot = txn[x].boot /\ t.conf = txn[x].conf /\ t.packet = txn[x].packet
  BY <1>3, TxnFields DEF BootInv, TxnRecords
<1> HIDE DEF t
<1> QED  BY <1>1, <1>2, <1>3, <1>4, <1>5, GoOnKeepsInv DEF Download

\* The download is over, for its leader and for those who share its result.
LEMMA ResultKeepsInv ==
  ASSUME BootInv, NEW x \in Txns, routine[x] = "busy", txn[x].pc \in Leading,
         NEW pc \in {"bind", "write"}, Result(x, pc),
         tmp' \in TmpFiles, newer' \in BOOLEAN,
         cache' \in Versions \cup {-1}, cache' >= 0, cache # 0 => cache' # 0,
         pc = "bind" => cache' # 0,
         faults' \in 0..MaxFaults,
         UNCHANGED <<txnVars, bound, world, network>>
  PROVE  (TypeOK /\ WorkInv /\ DownloadInv /\ PromiseInv)'
<1> DEFINE to(y) == [txn[y] EXCEPT !.pc = pc]
<1>1. \A y \in Txns : /\ to(y) \in TxnRecords /\ to(y).pc = pc
                      /\ to(y).set = txn[y].set /\ to(y).boot = txn[y].boot
                      /\ to(y).conf = txn[y].conf /\ to(y).packet = txn[y].packet
  BY TxnFields DEF BootInv, TxnRecords
<1>2. txn' = [y \in Txns |-> IF y = x \/ At(y, "share") THEN to(y) ELSE txn[y]]
  BY DEF Result
<1>3. txn \in [Txns -> TxnRecords]
  BY DEF BootInv, TypeOK
<1> HIDE DEF to
<1>4. /\ txn' \in [Txns -> TxnRecords]
      /\ \A y \in Txns :
            /\ txn'[y].set = txn[y].set /\ txn'[y].boot = txn[y].boot
            /\ txn'[y].conf = txn[y].conf /\ txn'[y].packet = txn[y].packet
            /\ \/ txn'[y].pc = txn[y].pc /\ y # x
               \/ /\ txn'[y].pc = pc /\ routine[y] = "busy"
                  /\ txn[y].pc \in Leading \cup {"share"}
  BY <1>1, <1>2, <1>3 DEF At
<1>5. TypeOK'
  BY <1>4 DEF BootInv, TypeOK, TxnTypeOK, txnVars, world, network
<1>6. WorkInv'
  BY SMT, <1>4 DEF BootInv, WorkInv, txnVars, Leading
<1>7. \A y \in Txns : txn'[y].pc \notin Leading
  BY <1>4 DEF BootInv, DownloadInv, Leading
<1>8. DownloadInv'
  BY <1>7 DEF BootInv, DownloadInv, world, Leading
<1>9. PromiseInv'
  BY <1>4 DEF BootInv, PromiseInv, Bound, network
<1> QED  BY <1>5, <1>6, <1>8, <1>9

LEMMA GetImageInv ==
  ASSUME BootInv, NEW x \in Txns, GetImage(x), TxnTypeOK'
  PROVE  (TypeOK /\ WorkInv /\ DownloadInv /\ PromiseInv)'
<1>1. /\ routine[x] = "busy" /\ txn[x].pc = "get" /\ txn[x].pc \in Leading
      /\ faults' \in 0..MaxFaults
      /\ UNCHANGED <<txnVars, cache, newer, bound, world, network>>
  BY FaultType DEF GetImage, At, Leading, BootInv
<1>2. cache \in Versions \cup {-1} /\ cache >= 0 /\ newer \in BOOLEAN /\ tmp \in TmpFiles
  BY DEF BootInv, TypeOK, DownloadInv
<1>3. CASE cache # 0 /\ Result(x, "bind") /\ UNCHANGED tmp
  BY <1>1, <1>2, <1>3, ResultKeepsInv
<1>4. CASE Result(x, "write") /\ UNCHANGED tmp
  BY <1>1, <1>2, <1>4, ResultKeepsInv
<1>5. CASE /\ Set(x, [txn[x] EXCEPT !.pc = "copy", !.ver = image])
           /\ tmp' = [by |-> x, ver |-> image, whole |-> FALSE]
  <2> DEFINE t == [txn[x] EXCEPT !.pc = "copy", !.ver = image]
  <2>1. /\ t \in TxnRecords /\ t.pc = "copy"
        /\ t.set = txn[x].set /\ t.boot = txn[x].boot
        /\ t.conf = txn[x].conf /\ t.packet = txn[x].packet
    BY ZenonT(30), TxnFields DEF BootInv, TxnRecords, TypeOK
  <2>2. tmp' \in TmpFiles /\ tmp'.by = x /\ tmp'.ver = image
    BY <1>5 DEF TmpFiles, BootInv, TypeOK
  <2>3. txn' = [txn EXCEPT ![x] = t] /\ txn \in [Txns -> TxnRecords]
    BY <1>5 DEF Set, BootInv, TypeOK
  <2>4. image \in 1..(1 + changes) /\ changes \in Nat
    BY SMT, BootAssumption DEF BootInv, DownloadInv, TypeOK
  <2> HIDE DEF t
  <2>5. TypeOK'
    BY <1>1, <2>1, <2>2, <2>3 DEF BootInv, TypeOK, TxnTypeOK, txnVars, world, network
  <2>6. WorkInv'
    BY <1>1, <2>1, <2>3 DEF BootInv, WorkInv, txnVars
  <2>7. DownloadInv'
    BY SMT, <1>1, <2>1, <2>2, <2>3, <2>4 DEF BootInv, DownloadInv, world, Leading
  <2>8. PromiseInv'
    BY <1>1, <2>1, <2>3 DEF BootInv, PromiseInv, Bound, network
  <2> QED  BY <2>5, <2>6, <2>7, <2>8
<1> QED  BY <1>3, <1>4, <1>5 DEF GetImage

LEMMA CopyImageInv ==
  ASSUME BootInv, NEW x \in Txns, CopyImage(x), TxnTypeOK'
  PROVE  (TypeOK /\ WorkInv /\ DownloadInv /\ PromiseInv)'
<1>1. /\ routine[x] = "busy" /\ txn[x].pc = "copy" /\ txn[x].pc \in Leading
      /\ faults' \in 0..MaxFaults
      /\ UNCHANGED <<txnVars, cache, newer, bound, world, network>>
  BY FaultType DEF CopyImage, At, Leading, BootInv
<1>2. cache \in Versions \cup {-1} /\ cache >= 0 /\ newer \in BOOLEAN /\ tmp \in TmpFiles
  BY DEF BootInv, TypeOK, DownloadInv
<1>3. CASE Result(x, "write") /\ UNCHANGED tmp
  BY <1>1, <1>2, <1>3, ResultKeepsInv
<1>4. CASE tmp' = [tmp EXCEPT !.whole = (tmp.by = x)] /\ Goto(x, "rename")
  <2> DEFINE t == [txn[x] EXCEPT !.pc = "rename"]
  <2>1. /\ t \in TxnRecords /\ t.pc = "rename"
        /\ t.set = txn[x].set /\ t.boot = txn[x].boot
        /\ t.conf = txn[x].conf /\ t.packet = txn[x].packet
    BY TxnFields DEF BootInv, TxnRecords
  <2>2. tmp.by = x /\ tmp.ver # 0
    BY <1>1 DEF BootInv, DownloadInv
  <2>3. tmp' \in TmpFiles /\ tmp'.by = x /\ tmp'.ver = tmp.ver /\ tmp'.whole
    BY <1>2, <1>4, <2>2 DEF TmpFiles
  <2>4. txn' = [txn EXCEPT ![x] = t] /\ txn \in [Txns -> TxnRecords]
    BY <1>4 DEF Set, Goto, BootInv, TypeOK
  <2> HIDE DEF t
  <2>5. TypeOK'
    BY <1>1, <2>1, <2>3, <2>4 DEF BootInv, TypeOK, TxnTypeOK, txnVars, world, network
  <2>6. WorkInv'
    BY <1>1, <2>1, <2>4 DEF BootInv, WorkInv, txnVars
  <2>7. DownloadInv'
    BY <1>1, <2>1, <2>2, <2>3, <2>4 DEF BootInv, DownloadInv, world, Leading
  <2>8. PromiseInv'
    BY <1>1, <2>1, <2>4 DEF BootInv, PromiseInv, Bound, network
  <2> QED  BY <2>5, <2>6, <2>7, <2>8
<1> QED  BY <1>3, <1>4 DEF CopyImage

LEMMA RenameImageInv ==
  ASSUME BootInv, NEW x \in Txns, RenameImage(x), TxnTypeOK'
  PROVE  (TypeOK /\ WorkInv /\ DownloadInv /\ PromiseInv)'
<1>1. /\ routine[x] = "busy" /\ txn[x].pc = "rename" /\ txn[x].pc \in Leading
      /\ faults' \in 0..MaxFaults
      /\ UNCHANGED <<txnVars, bound, world, network>>
  BY FaultType DEF RenameImage, At, Leading, BootInv
<1>2. /\ cache \in Versions \cup {-1} /\ cache >= 0 /\ newer \in BOOLEAN /\ tmp \in TmpFiles
      /\ tmp.whole /\ tmp.ver # 0
  BY <1>1 DEF BootInv, TypeOK, DownloadInv
<1>3. CASE Result(x, "write") /\ UNCHANGED <<cache, newer, tmp>>
  BY <1>1, <1>2, <1>3, ResultKeepsInv
<1>4. CASE /\ cache' = IF tmp.whole THEN tmp.ver ELSE -1
           /\ newer' = FALSE /\ tmp' = NoTmp /\ Result(x, "bind")
  <2>1. tmp.ver \in Versions /\ tmp.ver \in Nat
    BY <1>2, BootTypes DEF TmpFiles
  <2>2. cache' = tmp.ver
    BY <1>2, <1>4
  <2>3. cache' \in Versions \cup {-1} /\ cache' >= 0 /\ cache' # 0
    BY SMT, <1>2, <2>1, <2>2
  <2> QED  BY <1>1, <1>4, <2>3, BootTypes, ResultKeepsInv
<1> QED  BY <1>3, <1>4 DEF RenameImage

LEMMA AddTarInv ==
  ASSUME BootInv, NEW x \in Txns, AddTar(x), TxnTypeOK'
  PROVE  (TypeOK /\ WorkInv /\ DownloadInv /\ PromiseInv)'
<1> DEFINE t == [txn[x] EXCEPT !.boot = TRUE, !.pc = "write"]
<1>1. /\ routine[x] = "busy" /\ txn[x].pc = "bind"
      /\ UNCHANGED <<txnVars, cache, tmp, newer, world, network, faults>>
  BY DEF AddTar, At
<1>2. cache # 0 /\ txn[x].conf # None /\ txn[x].conf \in Confs
  BY <1>1, TxnFields DEF BootInv, PromiseInv, WorkInv
<1>3. Bound' /\ bound' \in Confs
  BY <1>1, <1>2 DEF AddTar, Bound
<1>4. /\ t \in TxnRecords /\ t.pc = "write"
      /\ t.set = txn[x].set /\ t.conf = txn[x].conf /\ t.packet = txn[x].packet
  BY TxnFields DEF BootInv, TxnRecords
<1>5. txn' = [txn EXCEPT ![x] = t] /\ txn \in [Txns -> TxnRecords]
  BY DEF AddTar, Set, BootInv, TypeOK
<1> HIDE DEF t
<1>6. TypeOK'
  BY <1>1, <1>3, <1>4, <1>5 DEF BootInv, TypeOK, TxnTypeOK, txnVars, world, network
<1>7. WorkInv'
  BY <1>1, <1>4, <1>5 DEF BootInv, WorkInv, txnVars
<1>8. DownloadInv'
  BY <1>1, <1>4, <1>5 DEF BootInv, DownloadInv, world, Leading
<1>9. PromiseInv'
  BY <1>1, <1>3, <1>4, <1>5 DEF BootInv, PromiseInv, network
<1> QED  BY <1>6, <1>7, <1>8, <1>9

LEMMA WriteReplyInv ==
  ASSUME BootInv, NEW x \in Txns, WriteReply(x), TxnTypeOK'
  PROVE  (TypeOK /\ WorkInv /\ DownloadInv /\ PromiseInv)'
<1>1. /\ routine[x] = "busy" /\ txn[x].pc = "write" /\ txn[x].packet # "DECLINE"
      /\ faults' \in 0..MaxFaults
      /\ UNCHANGED <<cache, tmp, newer, bound, world, machine, toServer>>
  BY FaultType DEF WriteReply, At, BootInv, WorkInv
<1>2. CASE Abort(x) /\ UNCHANGED toClient
  BY <1>1, <1>2, FailKeepsInv DEF network
<1>3. CASE /\ toClient' = toClient \cup
                {[type |-> ReplyTo[txn[x].packet], xid |-> x, boot |-> txn[x].boot]}
           /\ Handled(x) /\ Goto(x, "idle")
  <2> DEFINE t == [txn[x] EXCEPT !.pc = "idle"]
             reply == [type |-> ReplyTo[txn[x].packet], xid |-> x, boot |-> txn[x].boot]
  <2>1. /\ t \in TxnRecords /\ t.pc = "idle"
        /\ t.set = txn[x].set /\ t.boot = txn[x].boot /\ t.conf = txn[x].conf
    BY TxnFields DEF BootInv, TxnRecords
  <2>2. ReplyTo[txn[x].packet] \in {"OFFER", "ACK"}
    <3>1. txn[x].packet \in {"DISCOVER", "REQUEST"}
      BY <1>1, TxnFields, BootAssumption DEF BootInv, TxnRecords
    <3> QED  BY SMT, <3>1 DEF ReplyTo
  <2>3. reply \in [xid : Txns, type : {"OFFER", "ACK"}, boot : BOOLEAN]
    BY <2>2, TxnFields DEF BootInv
  <2>4. reply.boot = txn[x].boot
    OBVIOUS
  <2>5. routine'[x] = "recv" /\ \A y \in Txns \ {x} : routine'[y] = routine[y]
    BY <1>3 DEF Handled, BootInv, TypeOK, TxnTypeOK
  <2>6. /\ txn' = [txn EXCEPT ![x] = t] /\ txn \in [Txns -> TxnRecords]
        /\ toClient' = toClient \cup {reply}
    BY <1>3 DEF Goto, Set, BootInv, TypeOK
  <2> HIDE DEF t, reply
  <2>7. TypeOK'
    BY <1>1, <2>1, <2>3, <2>6 DEF BootInv, TypeOK, world
  <2>8. WorkInv'
    BY <1>1, <2>1, <2>5, <2>6 DEF BootInv, WorkInv
  <2>9. DownloadInv'
    BY <1>1, <2>1, <2>6 DEF BootInv, DownloadInv, world, Leading
  <2>10. PromiseInv'
    BY <1>1, <2>1, <2>4, <2>6 DEF BootInv, PromiseInv, Bound
  <2> QED  BY <2>7, <2>8, <2>9, <2>10
<1> QED  BY <1>2, <1>3 DEF WriteReply

\* The table changes, and the machine, the network or cloud store: nothing a
\* routine is at work with.
LEMMA OutsideKeepsInv ==
  ASSUME BootInv, TypeOK',
         \A x \in Txns : routine'[x] = "busy" <=> routine[x] = "busy",
         UNCHANGED <<txn, cache, tmp, bound>>,
         image' \in 1..(1 + changes'),
         \A k \in toClient' : k \in toClient,
         machine'.pc = "fetch" => machine.pc = "fetch" \/ \E k \in toClient : k.boot
  PROVE  (WorkInv /\ DownloadInv /\ PromiseInv)'
<1>1. WorkInv'
  BY DEF BootInv, WorkInv
<1>2. DownloadInv'
  BY DEF BootInv, DownloadInv
<1>3. PromiseInv'
  BY DEF BootInv, PromiseInv, Bound
<1> QED  BY <1>1, <1>2, <1>3

LEMMA ReportDoneInv ==
  ASSUME BootInv, NEW x \in Txns, ReportDone(x), TxnTypeOK'
  PROVE  (TypeOK /\ WorkInv /\ DownloadInv /\ PromiseInv)'
<1>1. TypeOK'
  BY DEF ReportDone, BootInv, TypeOK, handler, world, network
<1>2. \A y \in Txns : routine'[y] = "busy" <=> routine[y] = "busy"
  BY DEF ReportDone, Report, BootInv, TypeOK, TxnTypeOK
<1>3. image \in 1..(1 + changes)
  BY DEF BootInv, DownloadInv
<1> QED  BY <1>1, <1>2, <1>3, OutsideKeepsInv DEF ReportDone, handler, world, network

\* ServeDHCP starts routines and collects finished ones; none of them is busy.
LEMMA DeliverInv ==
  ASSUME BootInv, NEW k \in toServer, Deliver(k), TxnTypeOK'
  PROVE  (TypeOK /\ WorkInv /\ DownloadInv /\ PromiseInv)'
<1>1. faults' \in 0..MaxFaults
  BY FaultType DEF Deliver, BootInv
<1>2. toServer' \subseteq toServer
  BY DEF Deliver
<1>3. TypeOK'
  BY <1>1, <1>2 DEF Deliver, BootInv, TypeOK, handler, world
<1>4. \A y \in Txns : routine'[y] = "busy" <=> routine[y] = "busy"
  <2>1. ServeDHCP(k.xid, k.type)
    BY DEF Deliver
  <2> QED  BY <2>1 DEF ServeDHCP, Finished, BootInv, TableMatchesRoutines
<1>5. image \in 1..(1 + changes)
  BY DEF BootInv, DownloadInv
<1> QED  BY <1>3, <1>4, <1>5, OutsideKeepsInv DEF Deliver, handler, world

Machines == [stage : Txns, pc : {"discover", "request", "fetch", "booted"}]
Packets == [xid : Txns, type : PacketTypes]

LEMMA MachineTypes ==
  ASSUME TypeOK
  PROVE  /\ machine \in Machines /\ machine.stage \in Txns
         /\ NextStage \in Machines /\ NextStage.pc # "fetch"
         /\ \A pc \in {"discover", "request", "fetch", "booted"} :
               /\ [machine EXCEPT !.pc = pc] \in Machines
               /\ [machine EXCEPT !.pc = pc].pc = pc
         /\ \A type \in PacketTypes : Packet(type) \in Packets
<1>1. machine \in Machines
  BY DEF TypeOK, Machines
<1>2. machine.stage \in Txns
  BY <1>1 DEF Machines
<1>3. \A pc \in {"discover", "request", "fetch", "booted"} :
         /\ [machine EXCEPT !.pc = pc] \in Machines
         /\ [machine EXCEPT !.pc = pc].pc = pc
  BY <1>1 DEF Machines
<1>4. NextStage \in Machines /\ NextStage.pc # "fetch"
  <2>1. CASE machine.stage = Len(Stages)
    BY <1>3, <2>1 DEF NextStage
  <2>2. CASE machine.stage # Len(Stages)
    <3>1. machine.stage + 1 \in Txns
      BY SMT, <1>2, <2>2, BootAssumption
    <3> QED  BY <2>2, <3>1 DEF NextStage, Machines
  <2> QED  BY <2>1, <2>2
<1>5. \A type \in PacketTypes : Packet(type) \in Packets
  BY <1>2 DEF Packet, Packets
<1> QED  BY <1>1, <1>2, <1>3, <1>4, <1>5

\* The machine and its packets.
LEMMA NetworkKeepsInv ==
  ASSUME BootInv, UNCHANGED <<txnVars, handler, world>>,
         machine' \in Machines, toServer' \subseteq toServer \cup Packets,
         toClient' \subseteq toClient, faults' \in 0..MaxFaults,
         machine'.pc = "fetch" => machine.pc = "fetch" \/ \E k \in toClient : k.boot
  PROVE  (TypeOK /\ WorkInv /\ DownloadInv /\ PromiseInv)'
<1>1. TypeOK'
  BY DEF BootInv, TypeOK, TxnTypeOK, txnVars, handler, world, Machines, Packets
<1>2. image \in 1..(1 + changes)
  BY DEF BootInv, DownloadInv
<1> QED  BY <1>1, <1>2, OutsideKeepsInv DEF txnVars, handler, world

LEMMA MachineInv ==
  ASSUME BootInv, Machine \/ Lose
  PROVE  (TypeOK /\ WorkInv /\ DownloadInv /\ PromiseInv)'
<1> USE MachineTypes, FaultType DEF BootInv
<1>0. /\ "DISCOVER" \in PacketTypes /\ "REQUEST" \in PacketTypes /\ "DECLINE" \in PacketTypes
      /\ faults \in 0..MaxFaults
  BY BootAssumption DEF TypeOK
<1>1. CASE Send
  BY <1>0, <1>1, NetworkKeepsInv DEF Send
<1>2. CASE GiveUp
  BY <1>0, <1>2, NetworkKeepsInv DEF GiveUp
<1>3. CASE Fetch
  BY <1>0, <1>3, NetworkKeepsInv DEF Fetch
<1>4. CASE Lose
  BY <1>0, <1>4, NetworkKeepsInv DEF Lose
<1>5. CASE ReceiveReply
  <2>1. PICK k \in toClient :
          /\ toClient' = toClient \ {k}
          /\ \/ /\ machine' \in {[machine EXCEPT !.pc = "request"], [machine EXCEPT !.pc = "discover"]}
                /\ toServer' \in {toServer \cup {Packet("REQUEST")}, toServer \cup {Packet("DECLINE")}}
             \/ machine' = AfterAck(k) /\ UNCHANGED toServer
             \/ UNCHANGED <<machine, toServer>>
    BY <1>5 DEF ReceiveReply
  <2>2. faults' \in 0..MaxFaults
    BY <1>0, <1>5 DEF ReceiveReply
  <2>3. AfterAck(k) \in Machines /\ (AfterAck(k).pc = "fetch" => k.boot)
    BY DEF AfterAck
  <2>4. UNCHANGED <<txnVars, handler, world>>
    BY <1>5 DEF ReceiveReply
  <2>5. toServer' \subseteq toServer \cup Packets
    BY SMT, <1>0, <2>1
  <2>6. /\ machine' \in Machines
        /\ machine'.pc = "fetch" => machine.pc = "fetch" \/ k.boot
    BY <2>1, <2>3
  <2> QED  BY <2>1, <2>2, <2>4, <2>5, <2>6, NetworkKeepsInv
<1> QED  BY <1>1, <1>2, <1>3, <1>4, <1>5 DEF Machine

LEMMA ChangeInv ==
  ASSUME BootInv, Change
  PROVE  (TypeOK /\ WorkInv /\ DownloadInv /\ PromiseInv)'
<1>1. /\ changes \in Nat /\ changes' = changes + 1 /\ changes' \in 0..MaxChanges
      /\ image \in 1..(1 + changes)
      /\ image' \in {image, image + 1}
  BY SMT, BootAssumption DEF Change, BootInv, TypeOK, DownloadInv
<1>2. image' \in 1..(1 + changes') /\ image' \in Versions
  BY SMT, <1>1, BootAssumption DEF Versions
<1>3. nodeConf' \in Confs \cup {None}
  <2>1. 1 + changes' \in Versions
    BY SMT, <1>1, BootAssumption DEF Versions
  <2> QED  BY <2>1 DEF Change, Confs, BootInv, TypeOK
<1>4. TypeOK'
  BY <1>1, <1>2, <1>3 DEF Change, BootInv, TypeOK, TxnTypeOK, txnVars, network
<1> QED  BY <1>2, <1>4, OutsideKeepsInv DEF Change, txnVars, network

LEMMA BootNextInv == BootInv /\ [Next]_vars => BootInv'
<1> SUFFICES ASSUME BootInv, [Next]_vars PROVE BootInv'
  OBVIOUS
<1>1. TxnInv'
  BY BootStepIsTxnStep, TxnNextInv DEF BootInv, TxnInv, TypeOK
<1>2. TxnTypeOK' /\ TableMatchesRoutines'
  BY <1>1 DEF TxnInv
<1> DEFINE Rest == TypeOK /\ WorkInv /\ DownloadInv /\ PromiseInv
<1>3. Rest'
  <2>1. ASSUME NEW x \in Txns, Routine(x) PROVE Rest'
    <3>1. CASE TakePacket(x)
      BY <1>2, <3>1, TakePacketInv
    <3>2. CASE IdleTooLong(x)
      BY <1>2, <3>2, IdleTooLongInv
    <3>3. CASE ReportDone(x)
      BY <1>2, <3>3, ReportDoneInv
    <3>4. CASE LoadSubnetConfiguration(x)
      BY <1>2, <3>4, LoadSubnetConfigurationInv
    <3>5. CASE LoadNodeConfiguration(x)
      BY <1>2, <3>5, LoadNodeConfigurationInv
    <3>6. CASE AcquireLease(x)
      BY <1>2, <3>6, AcquireLeaseInv
    <3>7. CASE ServePacket(x)
      BY <1>2, <3>7, ServePacketInv
    <3>8. CASE Download(x)
      BY <1>2, <3>8, DownloadKeepsInv
    <3>9. CASE GetImage(x)
      BY <1>2, <3>9, GetImageInv
    <3>10. CASE CopyImage(x)
      BY <1>2, <3>10, CopyImageInv
    <3>11. CASE RenameImage(x)
      BY <1>2, <3>11, RenameImageInv
    <3>12. CASE AddTar(x)
      BY <1>2, <3>12, AddTarInv
    <3>13. CASE WriteReply(x)
      BY <1>2, <3>13, WriteReplyInv
    <3> QED  BY <2>1, <3>1, <3>2, <3>3, <3>4, <3>5, <3>6, <3>7, <3>8, <3>9, <3>10,
                <3>11, <3>12, <3>13 DEF Routine
  <2>2. ASSUME NEW k \in toServer, Deliver(k) PROVE Rest'
    BY <1>2, <2>2, DeliverInv
  <2>3. CASE Machine \/ Lose
    BY <2>3, MachineInv
  <2>4. CASE Change
    BY <2>4, ChangeInv
  <2>5. CASE UNCHANGED vars
    BY <2>5 DEF vars, handler, world, network, txnVars, BootInv, TypeOK, TxnTypeOK,
                WorkInv, DownloadInv, PromiseInv, Bound
  <2> HIDE DEF Rest
  <2> QED  BY <2>1, <2>2, <2>3, <2>4, <2>5 DEF Next
<1> QED  BY <1>2, <1>3 DEF BootInv

LEMMA BootInvariant == Spec => []BootInv
BY BootInitInv, BootNextInv, PTL DEF Spec

\* Whatever ServeTxn does with its packets, with the calls it makes and with
\* the downloads it shares, slingshot drives its transaction table as the
\* table's own specification says.
THEOREM SlingshotImplementsTable == Spec => TxnSpec
<1>1. Init => TxnInit
  BY DEF Init
<1>2. BootInv /\ [Next]_vars => [TxnNext]_txnVars
  BY BootStepIsTxnStep DEF BootInv
<1> QED  BY <1>1, <1>2, BootInvariant, PTL DEF Spec, TxnSpec

\* A machine that is told of a boot file finds its path bound and an image in
\* the cache (assignBootfile, AddTar), for any number of stages and failures.
THEOREM BootfilesAreBound == Spec => []BootfileIsBound
<1>1. BootInv => BootfileIsBound
  BY DEF BootInv, PromiseInv, Bound, BootfileIsBound
<1> QED  BY <1>1, BootInvariant, PTL

\* No half-written file takes the place of the image (filecache.Download).
THEOREM ImagesAreWhole == Spec => []ImageIsWhole
<1>1. BootInv => ImageIsWhole
  BY DEF BootInv, DownloadInv, ImageIsWhole
<1> QED  BY <1>1, BootInvariant, PTL


\* Type correctness of the boot server for any number of stages, changes and
\* faults: no channel outgrows its capacity (ServeDHCP looks at the room
\* before it posts), and the cached file is a version of the image or known
\* not to be one.
THEOREM BootTypeCorrect == Spec => []TypeOK
<1>1. BootInv => TypeOK
  BY DEF BootInv
<1> QED  BY <1>1, BootInvariant, PTL
=============================================================================
