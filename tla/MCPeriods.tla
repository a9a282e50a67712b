------------------------------ MODULE MCPeriods ------------------------------
(* Periods on one CPU, shared by a deadline and a FIFO task: as tasks keep their   *)
(* CPU, another CPU would only repeat it.                                       *)
EXTENDS Periods, TLC

CONSTANTS d, f

MCCpu    == (d :> 0) @@ (f :> 0)
MCCdf    == (d :> 0) @@ (f :> 4)
MCPeriod == (d :> 2) @@ (f :> 4)
=============================================================================
