------------------------------- MODULE MCIde -------------------------------
(* One channel used by main with interrupts on and by a process with       *)
(* interrupts off, while init stays in user mode.                          *)
EXTENDS Ide

CONSTANTS main, idle, init, child

MCThread == {main, idle, init, child}
MCKernel == {main}
MCPrio   == [t \in MCThread |-> 0]
=============================================================================
