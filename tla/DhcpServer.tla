----------------------------- MODULE DhcpServer -----------------------------
(***************************************************************************)
(* The transaction table of slingshot's DHCP server (dhcp.Server).  One    *)
(* loop calls ServeDHCP for every packet; packets of a transaction go to   *)
(* a channel that a routine of its own reads (ServeTxn).  A routine that   *)
(* ended reports its transaction over txnDone, an unbuffered channel that  *)
(* only ServeDHCP reads, before it looks at the table.                     *)
(*                                                                         *)
(* What a routine does with a packet is left open here: it may take the    *)
(* next one, or end (BootServer says which).                               *)
(***************************************************************************)
EXTENDS Integers, Sequences

CONSTANTS
    Txns,           \* transaction ids: client id and xid (generateTxnID)
    PacketTypes,    \* packets of a transaction
    Discovers,      \* those of them that are DHCPDISCOVER
    ChanSize        \* 2 in the code: the capacity of a transaction's channel

ASSUME DhcpAssumption == Discovers \subseteq PacketTypes /\ ChanSize \in Nat \ {0}

VARIABLES
    txnMap,         \* transactions that have an entry
    ch,             \* the channel of each
    routine         \* where the routine of each is

txnVars == <<txnMap, ch, routine>>

\* "recv": in ServeTxn's select; "busy": with a packet; "returned": ServeTxn
\* is over; "blocked": sending its id to txnDone; "none": gone.
RoutineStates == {"none", "recv", "busy", "returned", "blocked"}

TxnInit ==
    /\ txnMap = {}
    /\ ch = [x \in Txns |-> <<>>]
    /\ routine = [x \in Txns |-> "none"]

-----------------------------------------------------------------------------
\* The transactions the loop at the start of ServeDHCP takes off the table.
Finished == {x \in Txns : routine[x] = "blocked"}

\* As ServeDHCP, but with finished transactions left in the table, and also
\* without a look at the room in the channel.
ServeUnbounded(x, k) ==
    LET open == x \notin txnMap /\ k \in Discovers
    IN /\ txnMap' = IF open THEN txnMap \cup {x} ELSE txnMap
       /\ routine' = IF open THEN [routine EXCEPT ![x] = "recv"] ELSE routine
       /\ ch' = IF x \in txnMap' THEN [ch EXCEPT ![x] = Append(@, k)] ELSE ch

ServeUndrained(x, k) ==
    LET open == x \notin txnMap /\ k \in Discovers
    IN /\ txnMap' = IF open THEN txnMap \cup {x} ELSE txnMap
       /\ routine' = IF open THEN [routine EXCEPT ![x] = "recv"] ELSE routine
       /\ ch' = IF x \in txnMap' /\ Len(ch[x]) < ChanSize
                THEN [ch EXCEPT ![x] = Append(@, k)] ELSE ch

\* ServeDHCP with packet k of transaction x: finished transactions leave the
\* table; a DISCOVER may open a transaction, any other packet needs one; the
\* packet is posted unless the channel is full.
ServeDHCP(x, k) ==
    LET live == txnMap \ Finished
        open == x \notin live /\ k \in Discovers
        kept == [y \in Txns |-> IF y \in Finished THEN <<>> ELSE ch[y]]
    IN /\ txnMap' = IF open THEN live \cup {x} ELSE live
       /\ routine' = [y \in Txns |->
                        IF y = x /\ open THEN "recv"
                        ELSE IF y \in Finished THEN "none" ELSE routine[y]]
       /\ ch' = IF x \in txnMap' /\ Len(kept[x]) < ChanSize
                THEN [kept EXCEPT ![x] = Append(@, k)]
                ELSE kept

\* The routine of x.
Receive(x) ==
    /\ routine[x] = "recv" /\ ch[x] # <<>>
    /\ routine' = [routine EXCEPT ![x] = "busy"]
    /\ ch' = [ch EXCEPT ![x] = Tail(@)]
    /\ UNCHANGED txnMap

\* As Timeout, but the routine takes its own entry off the table.
TimeoutDeletes(x) ==
    /\ routine[x] = "recv"
    /\ routine' = [routine EXCEPT ![x] = "returned"]
    /\ txnMap' = txnMap \ {x}
    /\ UNCHANGED ch

\* The 10 seconds of ServeTxn's select are over.  A packet that comes just
\* then may be left in the channel.
Timeout(x) ==
    /\ routine[x] = "recv"
    /\ routine' = [routine EXCEPT ![x] = "returned"]
    /\ UNCHANGED <<txnMap, ch>>

Handled(x) ==
    /\ routine[x] = "busy"
    /\ routine' = [routine EXCEPT ![x] = "recv"]
    /\ UNCHANGED <<txnMap, ch>>

Failed(x) ==
    /\ routine[x] = "busy"
    /\ routine' = [routine EXCEPT ![x] = "returned"]
    /\ UNCHANGED <<txnMap, ch>>

Report(x) ==
    /\ routine[x] = "returned"
    /\ routine' = [routine EXCEPT ![x] = "blocked"]
    /\ UNCHANGED <<txnMap, ch>>

TxnNext ==
    \E x \in Txns :
        \/ \E k \in PacketTypes : ServeDHCP(x, k)
        \/ Receive(x) \/ Timeout(x) \/ Handled(x) \/ Failed(x) \/ Report(x)

TxnSpec == TxnInit /\ [][TxnNext]_txnVars

-----------------------------------------------------------------------------
TxnTypeOK ==
    /\ txnMap \subseteq Txns
    /\ ch \in [Txns -> Seq(PacketTypes)]
    /\ \A x \in Txns : Len(ch[x]) <= ChanSize
    /\ routine \in [Txns -> RoutineStates]

\* The table names exactly the transactions whose routine still runs or has
\* yet to be collected, so that no transaction has two routines, none is
\* collected twice, and a packet waits only where a routine was started for
\* it (ServeDHCP: the drain before the lookup, the one send to txnDone).
TableMatchesRoutines ==
    \A x \in Txns :
        /\ x \in txnMap <=> routine[x] # "none"
        /\ ch[x] # <<>> => x \in txnMap

=============================================================================
