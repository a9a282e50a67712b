----------------------------- MODULE MCPidList ------------------------------
(* Instances of PidList: odd PIDs are of one container, even ones of       *)
(* another.                                                                *)
EXTENDS PidList

CONSTANTS c1, c2

MCContOf == [p \in Pids |-> IF p % 2 = 1 THEN c1 ELSE c2]
=============================================================================
