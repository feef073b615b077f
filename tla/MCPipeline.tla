----------------------------- MODULE MCPipeline ------------------------------
(* Pipeline on a small instance. *)
EXTENDS Pipeline

CONSTANTS rrd, c1, c2
=============================================================================
