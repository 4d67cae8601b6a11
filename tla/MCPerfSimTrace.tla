--------------------------- MODULE MCPerfSimTrace ---------------------------
(***************************************************************************)
(* The machines and programs of MCPerfSim, with the simulator's output.    *)
(***************************************************************************)
EXTENDS PerfSimTrace, MCPerfSim
=============================================================================
