------------------------- MODULE MCAnalysisPipeline -------------------------
(***************************************************************************)
(* Model-checking instance of AnalysisPipeline.  MCAnalysisPipeline.cfg    *)
(* checks what holds when leases cover the work; MCPipelineBatch.cfg what  *)
(* a batch reports.                                                        *)
(***************************************************************************)
EXTENDS AnalysisPipeline
=============================================================================
