----------------------------- MODULE MCMoldFeed -----------------------------
(* Bounds for MoldFeed. *)
EXTENDS MoldFeed
CONSTANTS s1, s2, r1, r2
MCSession == {s1, s2}
MCOneSession == {s1}
MCMsgLen == {1}
MCServer == {r1, r2}
MCOneServer == {r1}

MCManualRequests == {[session |-> s1, seq_num |-> 1, msg_count |-> 1]}

\* No property of the runs that use it reads what the view leaves out, and
\* nothing the view keeps depends on it: the data channel and what fills it.
GapView == <<senderVars, handleVars, cmds, multicast, gapVars, requestVars,
             receiving, sending, requests>>
=============================================================================
