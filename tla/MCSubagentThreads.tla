--------------------------- MODULE MCSubagentThreads ---------------------------
(***************************************************************************)
(* One external Thread whose Host loses its Desktop while a Subagent runs.  *)
(***************************************************************************)
EXTENDS SubagentThreads

CONSTANTS s1, t1
=============================================================================
