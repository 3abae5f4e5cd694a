------------------------------- MODULE MCSync -------------------------------
(* A lock used by two kernel threads, which can be preempted inside        *)
(* lock_acquire and lock_release, and by init from its system calls.       *)
EXTENDS Sync

CONSTANTS main, idle, init, child

MCThread == {main, idle, init, child}
MCKernel == {main, child}
MCPrio   == [t \in MCThread |-> 0]
=============================================================================
