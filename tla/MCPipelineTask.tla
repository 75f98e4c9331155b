---------------------------- MODULE MCPipelineTask ----------------------------
(* Small instances of PipelineTask for TLC.                                *)
EXTENDS PipelineTask, TLC

CONSTANTS u1, u2, g1

Group1 == g1 :> {u1, u2}
=============================================================================
