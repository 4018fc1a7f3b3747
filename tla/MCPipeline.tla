----------------------------- MODULE MCPipeline -----------------------------
(* Bounds for Pipeline. *)
EXTENDS Pipeline
CONSTANTS s1, r1
MCSession == {s1}
MCMsgLen == {1}
MCServer == {r1}
=============================================================================
