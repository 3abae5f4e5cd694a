----------------------------- MODULE MCIoQueue -----------------------------
(* The keyboard queue with two processes that read it. *)
EXTENDS IoQueue

CONSTANTS main, idle, init, child

MCThread == {main, idle, init, child}
MCKernel == {main}
MCPrio   == [t \in MCThread |-> 0]
=============================================================================
