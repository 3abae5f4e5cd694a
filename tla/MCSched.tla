------------------------------ MODULE MCSched ------------------------------
(* The scheduler with main, idle, init and one more thread. *)
EXTENDS Sched

CONSTANTS main, idle, init, child

MCThread == {main, idle, init, child}
MCPrio   == [t \in MCThread |-> IF t = main THEN 1 ELSE 0]
=============================================================================
