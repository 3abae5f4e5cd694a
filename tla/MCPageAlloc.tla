---------------------------- MODULE MCPageAlloc ----------------------------
(* main allocates while it mounts the disk, init and its child in their    *)
(* system calls, init also when it starts.                                 *)
EXTENDS PageAlloc

CONSTANTS main, idle, init, child

MCThread == {main, idle, init, child}
MCPrio   == [t \in MCThread |-> 0]
=============================================================================
