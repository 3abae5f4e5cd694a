----------------------------- MODULE MCOpenFiles -----------------------------
(* Three processes, two of them forked, and two files, one of them on the  *)
(* disk when the system boots.                                             *)
EXTENDS OpenFiles
==============================================================================
