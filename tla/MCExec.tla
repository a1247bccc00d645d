-------------------------------- MODULE MCExec --------------------------------
(* The procedures of MCProcedure, emitted and then executed.                *)
EXTENDS MCProcedure, CGProcedureExec

=============================================================================
