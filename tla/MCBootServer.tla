---------------------------- MODULE MCBootServer ----------------------------
(***************************************************************************)
(* Instances of BootServer: what the machine asks for in each stage, and   *)
(* the configurations in cloud store.                                      *)
(***************************************************************************)
EXTENDS BootServer

AllStages == <<"pxe", "ipxe", "os">>

EnabledSubnet == [enabled |-> TRUE, v |-> 0]
EnabledNode == [enabled |-> TRUE, v |-> 1]

=============================================================================
