---------------------------- MODULE MCMoldServer ----------------------------
(* Bounds for MoldServer. *)
EXTENDS MoldServer
CONSTANTS s1, s2
MCSession == {s1, s2}
MCMsgLen == {1}
=============================================================================
