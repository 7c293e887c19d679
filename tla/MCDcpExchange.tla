--------------------------- MODULE MCDcpExchange ---------------------------
(***************************************************************************)
(* Instances of DcpExchange: how often each operation is tried again, and  *)
(* the requests that makes.                                                *)
(***************************************************************************)
EXTENDS DcpExchange

CONSTANTS a, b

OneRetries == [o \in Ops |-> IF o = a THEN 1 ELSE 0]

MCReqs == UNION {{o} \X (1..(RetryCount[o] + 1)) : o \in Ops}

=============================================================================
