------------------------------ MODULE MoldServer ------------------------------
(***************************************************************************)
(* The MoldUDP64 server (moldudp/src/server.rs): handles that queue        *)
(* commands, the sender thread that broadcasts and logs, and the           *)
(* re-request thread that answers from the log.                            *)
(*                                                                         *)
(* The two threads share the log only.  The sender stores a batch before   *)
(* it sends it; both are one step here, since a packet that was sent may   *)
(* stay under way as long as it likes.  What was sent is kept in sets, and *)
(* whoever receives takes any packet, at any time, any number of times or  *)
(* never: that is what UDP may do, and a send_to that fails is a packet    *)
(* never received.                                                         *)
(***************************************************************************)
EXTENDS MoldPackets

CONSTANTS
    FirstSession,   \* session of the builder
    FirstSeq,       \* seq_num of the builder
    QueueSize,      \* capacity of the command queue
    MaxBatch,       \* bound: messages in one batch
    MaxMsgs,        \* bound: messages handed to the server
    MaxCalls,       \* bound: calls of the handles' methods
    MaxAnswers      \* bound: no more requests once as many packets answered

ASSUME FirstSessionAssumption == FirstSession \in Session
ASSUME FirstSeqAssumption == FirstSeq \in Nat
ASSUME BoundsAssumption ==
    /\ QueueSize \in Nat \ {0}
    /\ MaxBatch \in Nat
    /\ MaxMsgs \in Nat
    /\ MaxCalls \in Nat
    /\ MaxAnswers \in Nat

VARIABLES
    handles,     \* some ServerHandle is left
    cmds,        \* the command queue
    running,     \* the sender thread is in its loop
    session,     \* session identifier of the sender thread
    next_seq,    \* sequence number of the next message
    stopped,     \* StopSession was processed
    log,         \* sequence number -> Message, the retransmission log
    multicast,   \* packets broadcast
    answers,     \* packets unicast by the re-request thread
    calls,       \* history: calls made
    submitted,   \* history: messages handed over
    closing      \* history: {messages handed over before the first shutdown()}

senderVars == <<running, session, next_seq, stopped, log>>
handleVars == <<handles, calls, submitted, closing>>
serverVars == <<senderVars, handleVars, cmds, multicast, answers>>

ServerInit ==
    /\ handles = TRUE
    /\ cmds = <<>>
    /\ running = TRUE
    /\ session = FirstSession
    /\ next_seq = FirstSeq
    /\ stopped = FALSE
    /\ log = [n \in {} |-> n]
    /\ multicast = {}
    /\ answers = {}
    /\ calls = 0
    /\ submitted = 0
    /\ closing = {}

-----------------------------------------------------------------------------
(* ServerHandle.  A call waits until the queue has room.                   *)

Command ==
    [op : {"Send", "SendDropped"}, msgs : Seq(Message)]
    \cup [op : {"Heartbeat", "EndOfSession", "StopSession"}]
    \cup [op : {"ChangeSession"}, session : Session]

\* Mutant: the queue has no bound.
SubmitUnbounded(cmd) ==
    /\ handles
    /\ calls < MaxCalls
    /\ cmds' = Append(cmds, cmd)
    /\ calls' = calls + 1
    /\ UNCHANGED <<senderVars, handles, multicast, answers>>

Submit(cmd) ==
    /\ handles
    /\ calls < MaxCalls
    /\ Len(cmds) < QueueSize
    /\ cmds' = Append(cmds, cmd)
    /\ calls' = calls + 1
    /\ UNCHANGED <<senderVars, handles, multicast, answers>>

\* send and send_dropped, of messages of the given lengths.
SubmitBatch(op, lens) ==
    LET msgs == [i \in DOMAIN lens |-> [no |-> submitted + i, len |-> lens[i]]]
    IN /\ submitted + Len(lens) =< MaxMsgs
       /\ Submit([op |-> op, msgs |-> msgs])
       /\ submitted' = submitted + Len(lens)
       /\ UNCHANGED closing

\* heartbeat and end_of_session
SubmitSpecial(op) == Submit([op |-> op]) /\ UNCHANGED <<submitted, closing>>

ChangeSession(s) ==
    /\ Submit([op |-> "ChangeSession", session |-> s])
    /\ UNCHANGED <<submitted, closing>>

Shutdown ==
    /\ Submit([op |-> "StopSession"])
    /\ closing' = IF closing = {} THEN {submitted} ELSE closing
    /\ UNCHANGED submitted

DropHandles ==
    /\ handles
    /\ handles' = FALSE
    /\ UNCHANGED <<senderVars, cmds, multicast, answers, calls, submitted, closing>>

-----------------------------------------------------------------------------
(* The sender thread, sender_loop.                                         *)

\* The next command is op, and is taken from the queue.
Take(op) ==
    /\ running
    /\ cmds # <<>>
    /\ Head(cmds).op = op
    /\ cmds' = Tail(cmds)
    /\ UNCHANGED <<handleVars, running, answers>>

store_messages(start_seq, msgs) ==
    [n \in DOMAIN log \cup Numbers(start_seq, Len(msgs)) |->
        IF n < start_seq THEN log[n] ELSE msgs[n - start_seq + 1]]

\* Mutant: batches queued behind StopSession are still taken.
RefusedEmptyOnly(msgs) == msgs = <<>>

\* An empty batch, and any batch after StopSession, is ignored.
Refused(msgs) == stopped \/ msgs = <<>>

StoreBatch(msgs) ==
    /\ log' = store_messages(next_seq, msgs)
    /\ next_seq' = next_seq + Len(msgs)

\* Mutant: the packets carry the sequence number after the batch.
SendBatchAfterStore ==
    /\ Take("Send")
    /\ LET msgs == Head(cmds).msgs
           chunks == chunk_messages(msgs)
       IN IF Refused(msgs)
          THEN UNCHANGED <<log, next_seq, multicast>>
          ELSE /\ StoreBatch(msgs)
               /\ multicast' = multicast \cup
                     {build_packet(session, next_seq', chunks[i]) :
                         i \in DOMAIN chunks}
    /\ UNCHANGED <<session, stopped>>

\* Every chunk goes out under the sequence number of the batch.
SendBatch ==
    /\ Take("Send")
    /\ LET msgs == Head(cmds).msgs
           chunks == chunk_messages(msgs)
       IN IF Refused(msgs)
          THEN UNCHANGED <<log, next_seq, multicast>>
          ELSE /\ StoreBatch(msgs)
               /\ multicast' = multicast \cup
                     {build_packet(session, next_seq, chunks[i]) :
                         i \in DOMAIN chunks}
    /\ UNCHANGED <<session, stopped>>

SendDropped ==
    /\ Take("SendDropped")
    /\ LET msgs == Head(cmds).msgs
       IN IF Refused(msgs)
          THEN UNCHANGED <<log, next_seq>>
          ELSE StoreBatch(msgs)
    /\ UNCHANGED <<session, stopped, multicast>>

\* Mutant: heartbeats go on after StopSession.
PeriodicHeartbeat == build_special(session, next_seq, HEARTBEAT_IDENT)

\* The packet of send_periodic, under the next sequence number.
PeriodicPacket ==
    build_special(session, next_seq,
                  IF stopped THEN END_OF_SESSION_IDENT ELSE HEARTBEAT_IDENT)

Heartbeat ==
    /\ Take("Heartbeat")
    /\ multicast' = multicast \cup {PeriodicPacket}
    /\ UNCHANGED <<session, next_seq, stopped, log>>

EndOfSession ==
    /\ Take("EndOfSession")
    /\ multicast' = multicast \cup
          {build_special(session, next_seq, END_OF_SESSION_IDENT)}
    /\ UNCHANGED <<session, next_seq, stopped, log>>

SwitchSession ==
    /\ Take("ChangeSession")
    /\ session' = IF stopped THEN session ELSE Head(cmds).session
    /\ UNCHANGED <<next_seq, stopped, log, multicast>>

StopSession ==
    /\ Take("StopSession")
    /\ stopped' = TRUE
    /\ UNCHANGED <<session, next_seq, log, multicast>>

\* No command came for heartbeat_interval.
Tick ==
    /\ running
    /\ cmds = <<>>
    /\ handles
    /\ multicast' = multicast \cup {PeriodicPacket}
    /\ UNCHANGED <<senderVars, handleVars, cmds, answers>>

\* The queue is empty and no handle is left.
Disconnected ==
    /\ running
    /\ cmds = <<>>
    /\ ~handles
    /\ running' = FALSE
    /\ UNCHANGED <<session, next_seq, stopped, log, handleVars, cmds,
                   multicast, answers>>

SenderStep ==
    \/ SendBatch
    \/ SendDropped
    \/ Heartbeat
    \/ EndOfSession
    \/ SwitchSession
    \/ StopSession
    \/ Disconnected

-----------------------------------------------------------------------------
(* The re-request thread, rerequest_loop.                                  *)

\* The logged messages from `first' on, up to a missing one and at most want.
Logged(first, want) ==
    LET hit == {k \in 0 .. want : Numbers(first, k) \subseteq DOMAIN log}
        count == CHOOSE k \in hit : \A j \in hit : j =< k
    IN [i \in 1 .. count |-> log[first + i - 1]]

\* Mutant: no answers once the session is stopped.
ServeUntilStopped(req) ==
    /\ ~stopped
    /\ req.session = FirstSession
    /\ req.msg_count # 0
    /\ LET chunks == chunk_messages(Logged(req.seq_num, req.msg_count))
       IN answers' = answers \cup
             {build_packet(FirstSession, req.seq_num, chunks[i]) :
                 i \in DOMAIN chunks}
    /\ UNCHANGED <<senderVars, handleVars, cmds, multicast>>

\* The thread keeps the session it was started with.
Serve(req) ==
    /\ req.session = FirstSession
    /\ req.msg_count # 0
    /\ LET chunks == chunk_messages(Logged(req.seq_num, req.msg_count))
       IN answers' = answers \cup
             {build_packet(FirstSession, req.seq_num, chunks[i]) :
                 i \in DOMAIN chunks}
    /\ UNCHANGED <<senderVars, handleVars, cmds, multicast>>

-----------------------------------------------------------------------------
Batches == UNION {[1 .. n -> MsgLen] : n \in 0 .. MaxBatch}

HandleStep ==
    \/ \E lens \in Batches : SubmitBatch("Send", lens)
    \/ \E lens \in Batches : SubmitBatch("SendDropped", lens)
    \/ SubmitSpecial("Heartbeat")
    \/ SubmitSpecial("EndOfSession")
    \/ \E s \in Session : ChangeSession(s)
    \/ Shutdown
    \/ DropHandles

\* The server with peers that ask for anything.
ServerNext ==
    \/ HandleStep
    \/ SenderStep
    \/ Tick
    \/ /\ Cardinality(answers) < MaxAnswers
       /\ \E s \in Session, n \in Numbers(FirstSeq, MaxMsgs), k \in 0 .. U16Max :
             Serve([session |-> s, seq_num |-> n, msg_count |-> k])

\* The sender thread keeps running; recv_timeout returns a queued command, or
\* times out.
ServerSpec ==
    /\ ServerInit
    /\ [][ServerNext]_serverVars
    /\ WF_serverVars(SenderStep)
    /\ WF_serverVars(Tick)

-----------------------------------------------------------------------------
(* Properties.                                                             *)

ServerTypeOK ==
    /\ {handles, running, stopped} \subseteq BOOLEAN
    /\ cmds \in Seq(Command) /\ Len(cmds) =< QueueSize
    /\ session \in Session
    /\ next_seq \in Nat
    /\ DOMAIN log \subseteq Nat /\ log \in [DOMAIN log -> Message]
    /\ multicast \cup answers \subseteq Packet
    /\ calls \in 0 .. MaxCalls /\ submitted \in 0 .. MaxMsgs
    /\ closing \subseteq 0 .. MaxMsgs

\* The log is the stream of messages handed over, in that order and without
\* holes, across queueing, dropped batches and changes of session; once the
\* session is stopped it ends with the last message handed over before the
\* first shutdown(), whatever was queued behind it ("Send and SendDropped are
\* refused").
StreamIntact ==
    /\ DOMAIN log = FirstSeq .. next_seq - 1
    /\ \A n \in DOMAIN log : log[n].no = n - FirstSeq + 1
    /\ stopped => closing = {next_seq - FirstSeq}

\* packet.rs, Packet::seq_num: "Sequence number of the *first* message in this
\* packet": the messages of every packet, live or retransmitted, are those
\* the log has from seq_num on.
PacketsTruthful ==
    \A p \in multicast \cup answers :
       \A i \in DOMAIN p.messages :
          /\ p.seq_num + i - 1 \in DOMAIN log
          /\ log[p.seq_num + i - 1] = p.messages[i]

\* After shutdown() an end-of-session packet goes out that covers everything
\* handed over before it, however much was queued then or is queued behind it,
\* unless the last handle is dropped: the sender thread then exits with the
\* queue, and before the timer (ServerHandle::shutdown: "periodic heartbeats
\* are replaced with end-of-session packets").
EndAnnounced ==
    \A n \in 0 .. MaxMsgs :
       closing = {n} ~>
          \/ ~handles
          \/ \E p \in multicast : /\ packet_kind(p) = "EndOfSession"
                                  /\ p.seq_num = FirstSeq + n

=============================================================================
