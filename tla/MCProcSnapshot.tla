--------------------------- MODULE MCProcSnapshot ---------------------------
(* The configuration gives the numbers of processes and pids. *)
EXTENDS ProcSnapshot
=============================================================================
