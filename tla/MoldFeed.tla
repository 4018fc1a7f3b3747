------------------------------- MODULE MoldFeed -------------------------------
(***************************************************************************)
(* Server and client over a network that loses, duplicates, delays and     *)
(* reorders datagrams: the client may receive any packet that was ever     *)
(* sent, and the server any request.                                       *)
(***************************************************************************)
EXTENDS MoldServer, MoldClient

CONSTANTS
    Operations,     \* bound: methods of the handle that are called
    Failures,       \* bound: failures that happen, a subset of {"recv", "send"}
    ManualRequests  \* bound: requests that the consumer makes of its own

ASSUME ManualRequestsAssumption == ManualRequests \subseteq PacketHeader

feedVars == <<serverVars, clientVars>>

FeedInit == ServerInit /\ ClientInit

FeedHandleStep ==
    \/ /\ "send" \in Operations
       /\ \E lens \in Batches : SubmitBatch("Send", lens)
    \/ /\ "send_dropped" \in Operations
       /\ \E lens \in Batches : SubmitBatch("SendDropped", lens)
    \/ /\ "end_of_session" \in Operations
       /\ SubmitSpecial("EndOfSession")
    \/ /\ "change_session" \in Operations
       /\ \E s \in Session : ChangeSession(s)
    \/ /\ "shutdown" \in Operations
       /\ Shutdown

\* The steps of the server alone, then those of the client alone.
ServerSide == (FeedHandleStep \/ SenderStep \/ Tick) /\ UNCHANGED clientVars

ClientSide ==
    /\ \/ \E s \in Server : TakeRequest(s) \/ SendRequest(s)
       \/ /\ "send" \in Failures
          /\ \E s \in Server : SendRequestFails(s)
       \/ /\ "recv" \in Failures
          /\ \E loop \in Loop : ReceiveFails(loop)
       \/ Consume
       \/ \E req \in ManualRequests : ManualRequest(req)
    /\ UNCHANGED serverVars

\* What passes over the network.
DeliverMulticast(p) == ReceiveMulticast(p) /\ UNCHANGED serverVars
DeliverAnswer(p) == ReceiveAnswer(p) /\ UNCHANGED serverVars
DeliverRequest(req) == Serve(req) /\ UNCHANGED clientVars

FeedNext ==
    \/ ServerSide
    \/ ClientSide
    \/ \E p \in multicast : DeliverMulticast(p)
    \/ \E p \in answers : DeliverAnswer(p)
    \/ \E req \in requests : DeliverRequest(req)

FeedSpec == FeedInit /\ [][FeedNext]_feedVars

-----------------------------------------------------------------------------
(* Fairness.  All threads keep running.  Of the network nothing is assumed *)
(* about data packets; the other datagrams get through.                    *)

RequestHeaders ==
    [session : Session, seq_num : FirstSeq .. FirstSeq + MaxMsgs - 1,
     msg_count : 1 .. MaxMsgs]

SpecialPackets ==
    {build_special(s, n, k) :
        s \in Session, n \in FirstSeq .. FirstSeq + MaxMsgs,
        k \in {HEARTBEAT_IDENT, END_OF_SESSION_IDENT}}

\* The answer that has all that the request asks for.
AnswerTo(req) ==
    {p \in answers : p.session = req.session /\ p.seq_num = req.seq_num
                      /\ p.msg_count = req.msg_count}

FeedFairness ==
    /\ WF_feedVars(SenderStep /\ UNCHANGED clientVars)
    /\ WF_feedVars(Tick /\ UNCHANGED clientVars)
    /\ WF_feedVars(Consume /\ UNCHANGED serverVars)
    /\ \A s \in Server :
          WF_feedVars((TakeRequest(s) \/ SendRequest(s)) /\ UNCHANGED serverVars)
    /\ \A p \in SpecialPackets :
          WF_feedVars(p \in multicast /\ DeliverMulticast(p))
    /\ \A req \in RequestHeaders :
          /\ WF_feedVars(req \in requests /\ DeliverRequest(req))
          /\ WF_feedVars(\E p \in AnswerTo(req) : DeliverAnswer(p))

FairFeedSpec == FeedSpec /\ FeedFairness

-----------------------------------------------------------------------------
(* Properties.                                                             *)

FeedTypeOK ==
    /\ exp_session \in Session \cup {None}
    /\ exp_seq \in Nat \cup {None}
    /\ receiving \subseteq Loop
    /\ data \in Seq(Packet) /\ Len(data) =< PoolSize
    /\ reqs \in Seq(RetransmissionRequest) /\ Len(reqs) =< PoolSize
    /\ sending \in [Server -> RetransmissionRequest \cup {None}]
    /\ requests \subseteq PacketHeader
    /\ low \in Nat \cup {None}

\* The messages that the client takes to be behind it, from where it began to
\* follow the session.
Behind ==
    {n \in DOMAIN log : low # None /\ exp_seq # None /\ low =< n /\ n < exp_seq}

\* client.rs: the client "transparently re-requests any missed packets".
\* Every message behind the expected sequence number was carried by a live
\* packet or asked for, and where neither is so the re-request channel was
\* full, which is logged.  Loss, reordering and duplicates included: an old
\* packet moves the expectation back.
NoSilentGap == Behind \subseteq live \cup asked \cup refused

\* The client asks only for what the server has: the log is written before
\* anything that could reveal a gap is sent.
AnswerableRequests ==
    \A req \in requests :
       Numbers(req.seq_num, req.msg_count) \subseteq DOMAIN log

\* The expected sequence number is one that the server has reached: "Advance
\* expectation to the seq right after this packet's last msg" (client.rs),
\* the packet of an end of session having no message.
ExpectationReached == exp_seq # None => exp_seq =< next_seq

\* client.rs, expected_session_ident: "If set, only packets matching this
\* session ident are forwarded."
PinnedSession ==
    ExpectedSession # None =>
       \A i \in DOMAIN data : data[i].session = ExpectedSession

\* The requests that are queued, held by a sender thread, or sent.
Pending ==
    {reqs[i].req : i \in DOMAIN reqs} \cup requests
    \cup {sending[s].req : s \in {r \in Server : sending[r] # None}}

\* client.rs, the sender threads: whatever was put into the re-request channel
\* is sent, or still held by one of the threads that share the channel, or was
\* given up after max_rerequest_retries or for a full queue, which is logged.
RequestsKept ==
    asked \subseteq abandoned \cup UNION {Wanted(req) : req \in Pending}

\* server.rs: the server "can synthesise a response to any range the client
\* asks for", after shutdown() too.
RequestsAnswered ==
    \A req \in RequestHeaders :
       /\ req \in requests
       /\ Numbers(req.seq_num, req.msg_count) \subseteq DOMAIN log
       ~> \E p \in answers : p.session = req.session /\ p.seq_num = req.seq_num

\* Every message that enters the log reaches the consumer's channel: live, or,
\* when its packet is lost, because a later heartbeat or end-of-session packet
\* reveals the gap and the answer fills it.  Where it does not, the client has
\* logged why: a channel was full or sending the request failed too often.
GapsClose ==
    \A n \in FirstSeq .. FirstSeq + MaxMsgs - 1 :
       n \in DOMAIN log ~>
          n \in delivered \cup overrun \cup refused \cup abandoned

=============================================================================
