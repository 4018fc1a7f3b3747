------------------------------ MODULE MoldClient ------------------------------
(***************************************************************************)
(* The MoldUDP64 client (moldudp/src/client.rs): the multicast thread with *)
(* its gap detection, the thread that receives retransmissions, one sender *)
(* thread per re-request server, and the two bounded channels between them *)
(* and the consumer.                                                       *)
(*                                                                         *)
(* A received datagram is handled in one step: the state of the gap        *)
(* detection is local to the multicast thread and the channels are only    *)
(* tried.  A sender thread holds a request between taking it from the      *)
(* queue and sending it, and others may fill the queue meanwhile.          *)
(* Datagrams shorter than a header change nothing and are left out; so are *)
(* the receive buffers.                                                    *)
(***************************************************************************)
EXTENDS MoldPackets

CONSTANTS
    None,              \* no value, Option::None
    ExpectedSession,   \* expected_session_ident, or None
    ExpectedSeq,       \* expected_seq_num, or None
    Server,            \* re-request servers, a sender thread for each
    PoolSize,          \* POOL_SIZE, the capacity of both channels
    MaxRetries         \* max_rerequest_retries

RetransmissionRequest == [req : PacketHeader, attempts : 0 .. MaxRetries]

ASSUME OptionAssumption ==
    /\ None \notin Session /\ None \notin Nat /\ None \notin RetransmissionRequest
    /\ ExpectedSession \in Session \cup {None}
    /\ ExpectedSeq \in Nat \cup {None}
ASSUME CapacityAssumption == PoolSize \in Nat \ {0} /\ MaxRetries \in Nat

VARIABLES
    exp_session,   \* expected_session_ident
    exp_seq,       \* expected_seq_num
    receiving,     \* the receive loops that have not exited
    data,          \* the data channel
    reqs,          \* the re-request channel
    sending,       \* server -> the request its sender thread holds, or None
    requests,      \* request datagrams sent
    low,           \* history: the session is followed from here on
    live,          \* history: its sequence numbers that live packets carried
    asked,         \* history: ... that were put into the re-request channel
    refused,       \* history: ... that were not, the channel being full
    abandoned,     \* history: ... whose request a sender thread gave up
    delivered,     \* history: ... that were put into the data channel
    overrun        \* history: ... that were not, the channel being full

gapVars == <<exp_session, exp_seq, low, live>>
askVars == <<asked, refused>>
requestVars == <<askVars, reqs, abandoned>>
dataVars == <<data, delivered, overrun>>
clientVars == <<gapVars, requestVars, dataVars, receiving, sending, requests>>

Loop == {"multicast", "rereq"}

ClientInit ==
    /\ exp_session = ExpectedSession
    /\ exp_seq = ExpectedSeq
    /\ receiving = Loop
    /\ data = <<>>
    /\ reqs = <<>>
    /\ sending = [s \in Server |-> None]
    /\ requests = {}
    /\ low = IF ExpectedSession = None THEN None ELSE ExpectedSeq
    /\ live = {}
    /\ asked = {}
    /\ refused = {}
    /\ abandoned = {}
    /\ delivered = {}
    /\ overrun = {}

-----------------------------------------------------------------------------
(* The channels are tried, never waited for.                               *)

forward(p) ==
    IF Len(data) < PoolSize
    THEN /\ data' = Append(data, p)
         /\ delivered' = delivered \cup Carries(p)
         /\ UNCHANGED overrun
    ELSE /\ overrun' = overrun \cup Carries(p)
         /\ UNCHANGED <<data, delivered>>

\* What a request asks for of the session that is followed.
Wanted(req) ==
    IF req.session = exp_session THEN Numbers(req.seq_num, req.msg_count) ELSE {}

Enqueue(req) ==
    /\ IF Len(reqs) < PoolSize
       THEN /\ reqs' = Append(reqs, [req |-> req, attempts |-> 0])
            /\ asked' = asked \cup Wanted(req)
            /\ UNCHANGED refused
       ELSE /\ refused' = refused \cup Wanted(req)
            /\ UNCHANGED <<reqs, asked>>
    /\ UNCHANGED abandoned

-----------------------------------------------------------------------------
(* The multicast thread, process_multicast_datagram.                       *)

\* The packet continues the expected session, at a known place in it.
Follows(p) == exp_session = p.session /\ exp_seq # None

\* Mutant: one missing message is tolerated.
GapOfTwo(p) == Follows(p) /\ p.seq_num > exp_seq + 1

\* The stream has skipped ahead.
Gap(p) == Follows(p) /\ p.seq_num > exp_seq

\* Mutant: the last missing message is not asked for.
GapRequestShort(p) ==
    LET gap == p.seq_num - exp_seq - 1
    IN [session |-> p.session, seq_num |-> exp_seq,
        msg_count |-> IF gap < U16Max THEN gap ELSE U16Max]

\* Mutant: the packet that revealed the gap is asked for too.
GapRequestInclusive(p) ==
    LET gap == p.seq_num - exp_seq + 1
    IN [session |-> p.session, seq_num |-> exp_seq,
        msg_count |-> IF gap < U16Max THEN gap ELSE U16Max]

GapRequest(p) ==
    LET gap == p.seq_num - exp_seq
    IN [session |-> p.session, seq_num |-> exp_seq,
        msg_count |-> IF gap < U16Max THEN gap ELSE U16Max]

\* The sequence number right after the packet's msg_count messages.
Advance(p) ==
    /\ exp_seq' = p.seq_num + p.msg_count
    /\ exp_session' = p.session

ReceiveMulticast(p) ==
    /\ "multicast" \in receiving
    /\ \/ Gap(p) /\ Enqueue(GapRequest(p))
       \/ /\ ~Gap(p)
          /\ asked' = IF Follows(p) THEN asked ELSE {}
          /\ refused' = IF Follows(p) THEN refused ELSE {}
          /\ abandoned' = IF Follows(p) THEN abandoned ELSE {}
          /\ UNCHANGED reqs
    /\ Advance(p)
    /\ low' = IF Follows(p) THEN low ELSE p.seq_num
    /\ live' = (IF Follows(p) THEN live ELSE {}) \cup Carries(p)
    /\ forward(p)
    /\ UNCHANGED <<receiving, sending, requests>>

-----------------------------------------------------------------------------
(* The other threads.                                                      *)

\* process_rereq_datagram
ReceiveAnswer(p) ==
    /\ "rereq" \in receiving
    /\ forward(p)
    /\ UNCHANGED <<gapVars, requestVars, receiving, sending, requests>>

\* recv on the loop's socket fails, and the loop exits.
ReceiveFails(loop) ==
    /\ loop \in receiving
    /\ receiving' = receiving \ {loop}
    /\ UNCHANGED <<gapVars, requestVars, dataVars, sending, requests>>

\* Mutant: one retry too many.
TakeRequestOneMore(s) ==
    /\ sending[s] = None
    /\ reqs # <<>>
    /\ reqs' = Tail(reqs)
    /\ IF Head(reqs).attempts > MaxRetries
       THEN /\ abandoned' = abandoned \cup Wanted(Head(reqs).req)
            /\ UNCHANGED sending
       ELSE /\ sending' = [sending EXCEPT ![s] = Head(reqs)]
            /\ UNCHANGED abandoned
    /\ UNCHANGED <<gapVars, askVars, dataVars, receiving, requests>>

\* The sender thread of server s takes a request, and abandons it when it has
\* failed too often.
TakeRequest(s) ==
    /\ sending[s] = None
    /\ reqs # <<>>
    /\ reqs' = Tail(reqs)
    /\ IF Head(reqs).attempts >= MaxRetries
       THEN /\ abandoned' = abandoned \cup Wanted(Head(reqs).req)
            /\ UNCHANGED sending
       ELSE /\ sending' = [sending EXCEPT ![s] = Head(reqs)]
            /\ UNCHANGED abandoned
    /\ UNCHANGED <<gapVars, askVars, dataVars, receiving, requests>>

SendRequest(s) ==
    /\ sending[s] # None
    /\ requests' = requests \cup {sending[s].req}
    /\ sending' = [sending EXCEPT ![s] = None]
    /\ UNCHANGED <<gapVars, requestVars, dataVars, receiving>>

\* Mutant: a request that could not be sent is not queued again.
SendRequestFailsForgets(s) ==
    /\ sending[s] # None
    /\ sending' = [sending EXCEPT ![s] = None]
    /\ UNCHANGED <<gapVars, requestVars, dataVars, receiving, requests>>

\* send_to fails: the request goes to the back of the queue, or is dropped
\* when the queue is full.
SendRequestFails(s) ==
    /\ sending[s] # None
    /\ IF Len(reqs) < PoolSize
       THEN /\ reqs' = Append(reqs, [sending[s] EXCEPT !.attempts = @ + 1])
            /\ UNCHANGED abandoned
       ELSE /\ abandoned' = abandoned \cup Wanted(sending[s].req)
            /\ UNCHANGED reqs
    /\ sending' = [sending EXCEPT ![s] = None]
    /\ UNCHANGED <<gapVars, askVars, dataVars, receiving, requests>>

-----------------------------------------------------------------------------
(* The consumer, which owns the other ends of the channels.                *)

Consume ==
    /\ data # <<>>
    /\ data' = Tail(data)
    /\ UNCHANGED <<gapVars, requestVars, delivered, overrun, receiving, sending,
                   requests>>

\* try_send of a request of the consumer's own.
ManualRequest(req) ==
    /\ Enqueue(req)
    /\ UNCHANGED <<gapVars, dataVars, receiving, sending, requests>>

=============================================================================
