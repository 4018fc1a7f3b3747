------------------------------ MODULE FeedProofs ------------------------------
(***************************************************************************)
(* What is proved about the MoldUDP64 client and its feed (MoldFeed), for  *)
(* every number of messages, servers and retries, every capacity of the    *)
(* channels and every behaviour of the network.                            *)
(***************************************************************************)
EXTENDS MoldFeed, ServerProofs

-----------------------------------------------------------------------------
(* The steps.                                                              *)

\* The steps of the client's threads, of its consumer and of the network: those
\* of FeedNext, and those of the modules that use the client.
ClientAction ==
    \/ \E p \in multicast : ReceiveMulticast(p)
    \/ \E p \in answers : ReceiveAnswer(p)
    \/ \E loop \in Loop : ReceiveFails(loop)
    \/ \E s \in Server : TakeRequest(s) \/ SendRequest(s) \/ SendRequestFails(s)
    \/ Consume
    \/ \E req \in ManualRequests : ManualRequest(req)

FeedAction ==
    \/ ServerAction /\ UNCHANGED clientVars
    \/ ClientAction /\ UNCHANGED serverVars

\* The state of the client.  What is in the data channel was sent, and a sender
\* thread holds no request that has failed too often.
ClientTypes ==
    /\ exp_session \in Session \cup {None}
    /\ exp_seq \in Nat \cup {None}
    /\ receiving \subseteq Loop
    /\ data \in Seq(multicast \cup answers) /\ Len(data) =< PoolSize
    /\ reqs \in Seq(RetransmissionRequest) /\ Len(reqs) =< PoolSize
    /\ sending \in [Server -> RetransmissionRequest \cup {None}]
    /\ \A s \in Server : sending[s] # None => sending[s].attempts < MaxRetries
    /\ requests \subseteq PacketHeader
    /\ low \in Nat \cup {None}

FeedInv == ServerInv /\ ClientTypes

\* Where the client starts, if told to, is not before the first message.
StartsInStream == ExpectedSeq = None \/ ExpectedSeq >= FirstSeq

\* Every request, wherever it is, is for what the log has.
InLog(req) == Numbers(req.seq_num, req.msg_count) \subseteq DOMAIN log

AllAnswerable ==
    /\ exp_seq # None => exp_seq >= FirstSeq
    /\ \A i \in 1 .. Len(reqs) : InLog(reqs[i].req)
    /\ \A s \in Server : sending[s] # None => InLog(sending[s].req)
    /\ \A req \in requests : InLog(req)

\* Only a stopped server announces the end of the session, and where it has
\* ended; the client is never ahead of a server that is not stopped, except
\* where it was told to start.
EndIsFinal ==
    /\ \A i \in 1 .. Len(cmds) : cmds[i].op # "EndOfSession"
    /\ \A p \in multicast :
          p.msg_count = U16Max => stopped /\ p.seq_num = next_seq

NotAhead ==
    exp_seq # None /\ low # None /\ ~stopped => exp_seq =< next_seq \/ exp_seq =< low

GapInv ==
    /\ exp_seq # None => exp_seq >= FirstSeq
    /\ EndIsFinal
    /\ NotAhead
    /\ NoSilentGap

-----------------------------------------------------------------------------
(* Every step is one of the server or one of the client.                   *)

\* A step of MoldFeed is one of the actions that the lemmas below treat.
LEMMA FeedNextIsAction ==
  ASSUME ClientTypes, FeedNext
  PROVE  FeedAction
<1>1. FeedHandleStep => HandleStep
  BY DEF FeedHandleStep, HandleStep
<1>2. CASE ServerSide
  BY <1>1, <1>2 DEF ServerSide, FeedAction, ServerAction
<1>3. CASE ClientSide
  BY <1>3 DEF ClientSide, FeedAction, ClientAction
<1>4. CASE \E p \in multicast : DeliverMulticast(p)
  BY <1>4 DEF DeliverMulticast, FeedAction, ClientAction
<1>5. CASE \E p \in answers : DeliverAnswer(p)
  BY <1>5 DEF DeliverAnswer, FeedAction, ClientAction
<1>6. CASE \E req \in requests : DeliverRequest(req)
  BY <1>6 DEF DeliverRequest, FeedAction, ServerAction, ClientTypes
<1> QED
  BY <1>2, <1>3, <1>4, <1>5, <1>6 DEF FeedNext

\* What was sent stays under way.
LEMMA PacketsStay ==
  ASSUME ServerAction \/ UNCHANGED serverVars
  PROVE  multicast \subseteq multicast' /\ answers \subseteq answers'
<1>1. HandleStep => UNCHANGED <<multicast, answers>>
  BY DEF HandleStep, SubmitBatch, SubmitSpecial, ChangeSession, Shutdown, DropHandles,
         Submit
<1>2. SenderStep => multicast \subseteq multicast' /\ UNCHANGED answers
  BY DEF SenderStep, SendBatch, SendDropped, Heartbeat, EndOfSession, SwitchSession,
         StopSession, Disconnected, Take
<1>3. Tick => multicast \subseteq multicast' /\ UNCHANGED answers
  BY DEF Tick
<1>4. ASSUME NEW req \in PacketHeader, Serve(req)
      PROVE  answers \subseteq answers' /\ UNCHANGED multicast
  BY <1>4 DEF Serve
<1>5. UNCHANGED serverVars => UNCHANGED <<multicast, answers>>
  BY DEF serverVars
<1> QED
  BY <1>1, <1>2, <1>3, <1>4, <1>5 DEF ServerAction

\* What a packet that may arrive has in it.
LEMMA PacketFields ==
  ASSUME ServerInv, NEW p \in multicast \cup answers
  PROVE  /\ p.session \in Session
         /\ p.seq_num \in Nat /\ FirstSeq =< p.seq_num /\ p.seq_num =< next_seq
         /\ p.msg_count \in Nat
         /\ \/ p.msg_count = 0
            \/ p.msg_count = U16Max
            \/ p.seq_num + p.msg_count =< next_seq
<1>1. LivePacket(p) \/ AnswerPacket(p)
  BY DEF ServerInv, PacketsReached
<1>2. WellFormed(p) /\ (Special(p) \/ Data(p))
  BY <1>1 DEF LivePacket, AnswerPacket
<1>3. next_seq \in Nat
  BY DEF ServerInv, ServerTypes
<1>4. CASE Special(p)
  BY <1>2, <1>3, <1>4, FirstSeqAssumption, U16MaxAssumption
     DEF WellFormed, Special, HEARTBEAT_IDENT, END_OF_SESSION_IDENT
<1>5. CASE Data(p)
  <2>1. p.msg_count \in Nat /\ p.seq_num \in Nat
    BY <1>2, <1>5 DEF WellFormed, Data
  <2> QED
    BY <1>2, <1>3, <1>5, <2>1, FirstSeqAssumption DEF WellFormed, Data
<1> QED
  BY <1>2, <1>4, <1>5

\* A sequence over a set is one over a larger set.
LEMMA SeqOfLarger ==
  ASSUME NEW S, NEW T, S \subseteq T, NEW s \in Seq(S)
  PROVE  s \in Seq(T)
OBVIOUS

-----------------------------------------------------------------------------
(* The types of the client.                                                *)

\* Server and client start well formed.
LEMMA FeedInitInv == FeedInit => FeedInv
<1> SUFFICES ASSUME FeedInit PROVE FeedInv
  OBVIOUS
<1>1. ServerInv
  BY ServerInitInv DEF FeedInit
<1>2. ClientTypes
  BY OptionAssumption, CapacityAssumption DEF FeedInit, ClientInit, ClientTypes
<1> QED
  BY <1>1, <1>2 DEF FeedInv

\* forward puts a packet into the data channel or drops it: the channel stays bounded.
LEMMA ForwardTypes ==
  ASSUME ClientTypes, NEW p \in multicast \cup answers, forward(p),
         UNCHANGED <<multicast, answers>>
  PROVE  (data \in Seq(multicast \cup answers) /\ Len(data) =< PoolSize)'
<1>1. data \in Seq(multicast \cup answers) /\ Len(data) =< PoolSize
  BY DEF ClientTypes
<1>2. data' = data \/ (Len(data) < PoolSize /\ data' = Append(data, p))
  BY DEF forward
<1>3. data' \in Seq(multicast \cup answers) /\ Len(data') =< PoolSize
  BY <1>1, <1>2, CapacityAssumption
<1> QED
  BY <1>3

\* A request is put into the re-request channel or refused: the channel stays bounded.
LEMMA EnqueueTypes ==
  ASSUME ClientTypes, NEW req \in PacketHeader, Enqueue(req)
  PROVE  (reqs \in Seq(RetransmissionRequest) /\ Len(reqs) =< PoolSize)'
<1>1. [req |-> req, attempts |-> 0] \in RetransmissionRequest
  BY CapacityAssumption DEF RetransmissionRequest
<1>2. reqs \in Seq(RetransmissionRequest) /\ Len(reqs) =< PoolSize
  BY DEF ClientTypes
<1>3. \/ reqs' = reqs
      \/ Len(reqs) < PoolSize /\ reqs' = Append(reqs, [req |-> req, attempts |-> 0])
  BY DEF Enqueue
<1> QED
  BY <1>1, <1>2, <1>3, CapacityAssumption

\* The request for a gap is a header, starts at the expectation, and covers the gap
\* unless that is wider than a count can say.
LEMMA GapRequestType ==
  ASSUME ServerInv, ClientTypes, NEW p \in multicast \cup answers, Gap(p)
  PROVE  /\ GapRequest(p) \in PacketHeader
         /\ GapRequest(p).session = p.session
         /\ GapRequest(p).seq_num = exp_seq
         /\ GapRequest(p).msg_count =< p.seq_num - exp_seq
         /\ p.seq_num - exp_seq < U16Max => GapRequest(p).msg_count = p.seq_num - exp_seq
<1>1. p.seq_num \in Nat /\ p.session \in Session
  BY PacketFields
<1>2. exp_seq \in Nat /\ p.seq_num > exp_seq
  BY DEF Gap, Follows, ClientTypes
<1> DEFINE count == IF p.seq_num - exp_seq < U16Max THEN p.seq_num - exp_seq ELSE U16Max
<1>3. /\ count \in 0 .. U16Max
      /\ count =< p.seq_num - exp_seq
      /\ p.seq_num - exp_seq < U16Max => count = p.seq_num - exp_seq
  BY <1>1, <1>2, U16MaxAssumption
<1>4. GapRequest(p) = [session |-> p.session, seq_num |-> exp_seq, msg_count |-> count]
  BY DEF GapRequest
<1> HIDE DEF count
<1> QED
  BY <1>1, <1>2, <1>3, <1>4 DEF PacketHeader

\* process_multicast keeps the client well formed.
LEMMA ReceiveMulticastTypes ==
  ASSUME FeedInv, NEW p \in multicast, ReceiveMulticast(p), UNCHANGED serverVars
  PROVE  ClientTypes'
<1>1. p.session \in Session /\ p.seq_num \in Nat /\ p.msg_count \in Nat
  BY PacketFields DEF FeedInv
<1>2. UNCHANGED <<multicast, answers>>
  BY DEF serverVars
<1>3. (data \in Seq(multicast \cup answers) /\ Len(data) =< PoolSize)'
  BY <1>2, ForwardTypes DEF FeedInv, ReceiveMulticast
<1>4. (reqs \in Seq(RetransmissionRequest) /\ Len(reqs) =< PoolSize)'
  <2>1. CASE Gap(p) /\ Enqueue(GapRequest(p))
    <3>1. GapRequest(p) \in PacketHeader
      BY <2>1, GapRequestType DEF FeedInv
    <3> QED
      BY <2>1, <3>1, EnqueueTypes DEF FeedInv
  <2>2. CASE UNCHANGED reqs
    BY <2>2 DEF FeedInv, ClientTypes
  <2> QED
    BY <2>1, <2>2 DEF ReceiveMulticast
<1>5. exp_session' \in Session /\ exp_seq' \in Nat
  BY <1>1 DEF ReceiveMulticast, Advance
<1>6. low' \in Nat \cup {None}
  BY <1>1 DEF FeedInv, ClientTypes, ReceiveMulticast
<1> QED
  BY <1>3, <1>4, <1>5, <1>6 DEF FeedInv, ClientTypes, ReceiveMulticast

\* A sender thread keeps the client well formed, sent or failed.
LEMMA SenderThreadTypes ==
  ASSUME FeedInv, NEW s \in Server, UNCHANGED serverVars,
         TakeRequest(s) \/ SendRequest(s) \/ SendRequestFails(s)
  PROVE  ClientTypes'
<1>1. UNCHANGED <<multicast, answers, exp_session, exp_seq, receiving, data, low>>
  BY DEF serverVars, TakeRequest, SendRequest, SendRequestFails, gapVars, dataVars
<1>2. reqs \in Seq(RetransmissionRequest) /\ Len(reqs) =< PoolSize
  BY DEF FeedInv, ClientTypes
<1>3. CASE TakeRequest(s)
  <2>1. Head(reqs) \in RetransmissionRequest
    BY <1>2, <1>3 DEF TakeRequest
  <2>2. reqs' \in Seq(RetransmissionRequest) /\ Len(reqs') =< PoolSize
    BY <1>2, <1>3, CapacityAssumption DEF TakeRequest
  <2>3. sending' \in [Server -> RetransmissionRequest \cup {None}]
    BY <1>3, <2>1 DEF FeedInv, ClientTypes, TakeRequest
  <2>4. \A r \in Server : sending'[r] # None => sending'[r].attempts < MaxRetries
    <3>1. Head(reqs).attempts \in Nat
      BY <2>1, CapacityAssumption DEF RetransmissionRequest
    <3> QED
      BY <1>3, <3>1, CapacityAssumption DEF FeedInv, ClientTypes, TakeRequest
  <2>5. UNCHANGED requests
    BY <1>3 DEF TakeRequest
  <2> QED
    BY <1>1, <2>2, <2>3, <2>4, <2>5 DEF FeedInv, ClientTypes
<1>4. CASE SendRequest(s) \/ SendRequestFails(s)
  <2>1. sending[s] \in RetransmissionRequest /\ sending[s].attempts < MaxRetries
    BY <1>4 DEF FeedInv, ClientTypes, SendRequest, SendRequestFails
  <2>2. sending[s].req \in PacketHeader
    BY <2>1 DEF RetransmissionRequest
  <2>3. sending' \in [Server -> RetransmissionRequest \cup {None}]
    BY <1>4 DEF FeedInv, ClientTypes, SendRequest, SendRequestFails
  <2>4. \A r \in Server : sending'[r] # None => sending'[r].attempts < MaxRetries
    BY <1>4 DEF FeedInv, ClientTypes, SendRequest, SendRequestFails
  <2>5. requests' \subseteq PacketHeader
    BY <1>4, <2>2 DEF FeedInv, ClientTypes, SendRequest, SendRequestFails
  <2>6. [sending[s] EXCEPT !.attempts = @ + 1] \in RetransmissionRequest
    BY <2>1, CapacityAssumption DEF RetransmissionRequest
  <2>7. reqs' \in Seq(RetransmissionRequest) /\ Len(reqs') =< PoolSize
    BY <1>2, <1>4, <2>6, CapacityAssumption
       DEF SendRequest, SendRequestFails, requestVars
  <2> QED
    BY <1>1, <2>3, <2>4, <2>5, <2>7 DEF FeedInv, ClientTypes
<1> QED
  BY <1>3, <1>4

\* Every step of the feed keeps server and client well formed.
LEMMA FeedActionInv ==
  ASSUME FeedInv, FeedAction \/ UNCHANGED feedVars
  PROVE  FeedInv'
<1>1. ServerAction \/ UNCHANGED serverVars
  BY DEF FeedAction, feedVars
<1>2. ServerInv'
  BY <1>1, ServerActionInv DEF FeedInv
<1>3. CASE UNCHANGED clientVars
  <2>1. multicast \cup answers \subseteq (multicast \cup answers)'
    BY <1>1, PacketsStay
  <2>2. data \in Seq((multicast \cup answers)')
    BY <2>1, SeqOfLarger DEF FeedInv, ClientTypes
  <2>3. UNCHANGED <<exp_session, exp_seq, receiving, data, reqs, sending, requests, low>>
    BY <1>3 DEF clientVars, gapVars, requestVars, dataVars
  <2>4. ClientTypes'
    BY <2>2, <2>3 DEF FeedInv, ClientTypes
  <2> QED
    BY <1>2, <2>4 DEF FeedInv
<1>4. CASE ClientAction /\ UNCHANGED serverVars
  <2>1. UNCHANGED <<multicast, answers>>
    BY <1>4 DEF serverVars
  <2>2. ASSUME NEW p \in multicast, ReceiveMulticast(p) PROVE ClientTypes'
    BY <1>4, <2>2, ReceiveMulticastTypes
  <2>3. ASSUME NEW p \in answers, ReceiveAnswer(p) PROVE ClientTypes'
    <3>1. (data \in Seq(multicast \cup answers) /\ Len(data) =< PoolSize)'
      BY <2>1, <2>3, ForwardTypes DEF FeedInv, ReceiveAnswer
    <3>2. UNCHANGED <<exp_session, exp_seq, receiving, reqs, sending, requests, low>>
      BY <2>3 DEF ReceiveAnswer, gapVars, requestVars
    <3> QED
      BY <3>1, <3>2 DEF FeedInv, ClientTypes
  <2>4. ASSUME NEW loop \in Loop, ReceiveFails(loop) PROVE ClientTypes'
    BY <2>1, <2>4 DEF FeedInv, ClientTypes, ReceiveFails, gapVars, requestVars, dataVars
  <2>5. ASSUME NEW s \in Server, TakeRequest(s) \/ SendRequest(s) \/ SendRequestFails(s)
        PROVE  ClientTypes'
    BY <1>4, <2>5, SenderThreadTypes
  <2>6. ASSUME Consume PROVE ClientTypes'
    <3>1. (data \in Seq(multicast \cup answers) /\ Len(data) =< PoolSize)'
      BY <2>1, <2>6, CapacityAssumption DEF FeedInv, ClientTypes, Consume
    <3> QED
      BY <2>1, <2>6, <3>1 DEF FeedInv, ClientTypes, Consume, gapVars, requestVars
  <2>7. ASSUME NEW req \in ManualRequests, ManualRequest(req) PROVE ClientTypes'
    <3>1. (reqs \in Seq(RetransmissionRequest) /\ Len(reqs) =< PoolSize)'
      BY <2>7, EnqueueTypes, ManualRequestsAssumption DEF FeedInv, ManualRequest
    <3> QED
      BY <2>1, <2>7, <3>1 DEF FeedInv, ClientTypes, ManualRequest, gapVars, dataVars
  <2> QED
    BY <1>2, <1>4, <2>2, <2>3, <2>4, <2>5, <2>6, <2>7 DEF ClientAction, FeedInv
<1> QED
  BY <1>3, <1>4 DEF FeedAction, feedVars

\* FeedInv holds in every reachable state of the feed: the server's invariant,
\* whatever the client asks for, and the types of the client's state.
THEOREM FeedInvariance == FeedSpec => []FeedInv
<1>1. FeedInv /\ [FeedNext]_feedVars => FeedInv'
  BY FeedNextIsAction, FeedActionInv DEF FeedInv
<1> QED
  BY <1>1, FeedInitInv, PTL DEF FeedSpec

\* The types of the client's state (client.rs), the capacity of both channels
\* and the range of every request's count among them, provided that no batch
\* has more messages than a packet can count.
THEOREM FeedTypeCorrect ==
  ASSUME MaxBatch =< U16Max
  PROVE  FeedSpec => []FeedTypeOK
<1>1. FeedInv => FeedTypeOK
  <2> SUFFICES ASSUME FeedInv PROVE FeedTypeOK
    OBVIOUS
  <2>1. multicast \cup answers \subseteq Packet
    BY ServerInvTypes DEF FeedInv, ServerTypeOK
  <2>2. data \in Seq(Packet)
    BY <2>1, SeqOfLarger DEF FeedInv, ClientTypes
  <2> QED
    BY <2>2 DEF FeedInv, ClientTypes, FeedTypeOK
<1> QED
  BY <1>1, FeedInvariance, PTL

-----------------------------------------------------------------------------
(* No request is forgotten.                                                *)

\* One request r may be new, change its place or be given up.
LEMMA KeptIf ==
  ASSUME RequestsKept, NEW r, exp_session' = exp_session,
         Pending \subseteq Pending' \cup {r},
         abandoned \subseteq abandoned',
         \/ r \in Pending' /\ asked' \subseteq asked \cup Wanted(r)
         \/ Wanted(r) \subseteq abandoned' /\ asked' = asked
  PROVE  RequestsKept'
<1> SUFFICES ASSUME NEW n \in asked', n \notin abandoned'
             PROVE  \E req \in Pending' : n \in Wanted(req)
  <2>1. exp_session' = exp_session
    OBVIOUS
  <2>2. RequestsKept' <=>
           asked' \subseteq abandoned' \cup UNION {Wanted(req) : req \in Pending'}
    BY <2>1, Zenon DEF RequestsKept, Wanted
  <2> QED
    BY <2>2
<1>1. CASE n \in asked
  <2>1. PICK req \in Pending : n \in Wanted(req)
    BY <1>1 DEF RequestsKept
  <2> QED
    BY <2>1
<1>2. CASE n \notin asked
  BY <1>2
<1> QED
  BY <1>1, <1>2

\* A new request is kept in the channel, or is one that was refused.
LEMMA EnqueueKeeps ==
  ASSUME ClientTypes, RequestsKept, NEW req \in PacketHeader, Enqueue(req),
         UNCHANGED <<exp_session, sending, requests>>
  PROVE  RequestsKept'
<1>1. reqs \in Seq(RetransmissionRequest)
  BY DEF ClientTypes
<1>2. UNCHANGED abandoned
  BY DEF Enqueue
<1>3. CASE Len(reqs) < PoolSize
  <2> DEFINE queued == [req |-> req, attempts |-> 0]
  <2>1. reqs' = Append(reqs, queued) /\ asked' = asked \cup Wanted(req)
    BY <1>3 DEF Enqueue
  <2>2. /\ DOMAIN reqs = 1 .. Len(reqs) /\ DOMAIN reqs' = 1 .. Len(reqs) + 1
        /\ reqs'[Len(reqs) + 1].req = req
        /\ \A i \in 1 .. Len(reqs) : reqs'[i] = reqs[i]
        /\ Len(reqs) + 1 \in 1 .. Len(reqs) + 1
    BY <1>1, <2>1
  <2>3. {reqs[i].req : i \in DOMAIN reqs} \subseteq {reqs'[i].req : i \in DOMAIN reqs'}
    BY <1>1, <2>2
  <2>4. req \in {reqs'[i].req : i \in DOMAIN reqs'}
    BY <2>2
  <2>5. Pending \subseteq Pending' /\ req \in Pending'
    BY <2>3, <2>4 DEF Pending
  <2> QED
    BY <1>2, <2>1, <2>5, KeptIf
<1>4. CASE ~(Len(reqs) < PoolSize)
  <2>1. UNCHANGED <<reqs, asked>>
    BY <1>4 DEF Enqueue
  <2> QED
    BY <1>2, <2>1 DEF RequestsKept, Pending, Wanted
<1> QED
  BY <1>3, <1>4

\* A sender thread passes a request on or gives it up after its last retry.
LEMMA SenderThreadKeeps ==
  ASSUME ClientTypes, RequestsKept, NEW s \in Server,
         TakeRequest(s) \/ SendRequest(s) \/ SendRequestFails(s)
  PROVE  RequestsKept'
<1>1. UNCHANGED <<exp_session, asked>>
  BY DEF TakeRequest, SendRequest, SendRequestFails, gapVars, requestVars, askVars
<1>2. reqs \in Seq(RetransmissionRequest) /\ DOMAIN reqs = 1 .. Len(reqs)
  BY DEF ClientTypes
<1>3. sending \in [Server -> RetransmissionRequest \cup {None}]
  BY DEF ClientTypes
<1> DEFINE Queued == {reqs[i].req : i \in DOMAIN reqs}
           Held == {sending[r].req : r \in {q \in Server : sending[q] # None}}
<1>4. Pending = Queued \cup requests \cup Held
  BY DEF Pending
<1>5. Pending' = Queued' \cup requests' \cup Held'
  BY DEF Pending
<1>6. CASE TakeRequest(s)
  <2> DEFINE taken == Head(reqs).req
  <2>1. /\ reqs # <<>> /\ reqs' = Tail(reqs) /\ sending[s] = None
        /\ UNCHANGED requests
    BY <1>6 DEF TakeRequest
  <2>2. Queued \subseteq Queued' \cup {taken}
    <3>1. /\ DOMAIN reqs' = 1 .. Len(reqs) - 1
          /\ \A i \in 1 .. Len(reqs) - 1 : reqs'[i] = reqs[i + 1]
          /\ Len(reqs) \in Nat
      BY <1>2, <2>1
    <3>2. ASSUME NEW i \in 1 .. Len(reqs), i # 1 PROVE reqs[i].req \in Queued'
      <4>1. i - 1 \in 1 .. Len(reqs) - 1 /\ (i - 1) + 1 = i
        BY <3>1, <3>2
      <4>2. reqs[i].req = reqs'[i - 1].req
        BY <3>1, <4>1
      <4> QED
        BY <3>1, <4>1, <4>2
    <3>3. reqs[1].req = taken
      BY <1>2, <2>1
    <3> HIDE DEF taken
    <3> QED
      BY <1>2, <3>2, <3>3
  <2>3. CASE Head(reqs).attempts >= MaxRetries
    <3>1. UNCHANGED sending /\ abandoned' = abandoned \cup Wanted(taken)
      BY <1>6, <2>3 DEF TakeRequest
    <3>2. Pending \subseteq Pending' \cup {taken}
      BY <1>4, <1>5, <2>1, <2>2, <3>1
    <3> QED
      BY <1>1, <3>1, <3>2, KeptIf
  <2>4. CASE ~(Head(reqs).attempts >= MaxRetries)
    <3>1. UNCHANGED abandoned /\ sending' = [sending EXCEPT ![s] = Head(reqs)]
      BY <1>6, <2>4 DEF TakeRequest
    <3>2. Head(reqs) \in RetransmissionRequest
      BY <1>2, <2>1
    <3>3. Head(reqs) # None
      BY <3>2, OptionAssumption
    <3>4. taken \in Held'
      BY <1>3, <3>1, <3>3
    <3>5. Held \subseteq Held'
      BY <1>3, <2>1, <3>1
    <3>6. Pending \subseteq Pending' /\ taken \in Pending'
      BY <1>4, <1>5, <2>1, <2>2, <3>4, <3>5
    <3> HIDE DEF taken
    <3> QED
      BY <1>1, <3>1, <3>6, KeptIf
  <2> QED
    BY <2>3, <2>4
<1>7. CASE SendRequest(s) \/ SendRequestFails(s)
  <2> DEFINE held == sending[s].req
  <2>1. sending[s] # None /\ sending' = [sending EXCEPT ![s] = None]
    BY <1>7 DEF SendRequest, SendRequestFails
  <2>2. Held \subseteq Held' \cup {held}
    BY <1>3, <2>1
  <2>3. CASE SendRequest(s)
    <3>1. requests' = requests \cup {held} /\ UNCHANGED <<reqs, abandoned>>
      BY <2>3 DEF SendRequest, requestVars
    <3>2. Pending \subseteq Pending' /\ held \in Pending'
      BY <1>4, <1>5, <2>2, <3>1
    <3> HIDE DEF held
    <3> QED
      BY <1>1, <3>1, <3>2, KeptIf
  <2>4. CASE SendRequestFails(s) /\ Len(reqs) < PoolSize
    <3> DEFINE again == [sending[s] EXCEPT !.attempts = @ + 1]
    <3>1. reqs' = Append(reqs, again) /\ UNCHANGED <<requests, abandoned>>
      BY <2>4 DEF SendRequestFails
    <3>2. again.req = held
      BY <1>3, <2>1 DEF RetransmissionRequest
    <3> HIDE DEF again
    <3>3. /\ DOMAIN reqs' = 1 .. Len(reqs) + 1
          /\ reqs'[Len(reqs) + 1] = again
          /\ \A i \in 1 .. Len(reqs) : reqs'[i] = reqs[i]
          /\ Len(reqs) + 1 \in 1 .. Len(reqs) + 1
      BY <1>2, <3>1
    <3>4. Queued \subseteq Queued' /\ held \in Queued'
      BY <1>2, <3>2, <3>3
    <3>5. Pending \subseteq Pending' /\ held \in Pending'
      BY <1>4, <1>5, <2>2, <3>1, <3>4
    <3> HIDE DEF held
    <3> QED
      BY <1>1, <3>1, <3>5, KeptIf
  <2>5. CASE SendRequestFails(s) /\ ~(Len(reqs) < PoolSize)
    <3>1. abandoned' = abandoned \cup Wanted(held) /\ UNCHANGED <<reqs, requests>>
      BY <2>5 DEF SendRequestFails
    <3>2. Pending \subseteq Pending' \cup {held}
      BY <1>4, <1>5, <2>2, <3>1
    <3> HIDE DEF held
    <3> QED
      BY <1>1, <3>1, <3>2, KeptIf
  <2> QED
    BY <1>7, <2>3, <2>4, <2>5
<1> QED
  BY <1>6, <1>7

\* client.rs, the sender threads: what was put into the re-request channel is
\* sent, queued, held by a sender thread, or was given up and logged, for any
\* number of threads that share the channel and any pattern of send errors.
THEOREM RequestsKeptHolds == FeedSpec => []RequestsKept
<1>1. FeedInit => RequestsKept
  BY DEF FeedInit, ClientInit, RequestsKept
<1>2. ASSUME FeedInv, RequestsKept, FeedAction \/ UNCHANGED feedVars
      PROVE  RequestsKept'
  <2>1. CASE UNCHANGED <<exp_session, requestVars, sending, requests>>
    BY <1>2, <2>1 DEF RequestsKept, Pending, Wanted, requestVars, askVars
  <2>2. ASSUME NEW p \in multicast, ReceiveMulticast(p) PROVE RequestsKept'
    <3>1. UNCHANGED <<sending, requests>>
      BY <2>2 DEF ReceiveMulticast
    <3>2. CASE Follows(p)
      <4>1. exp_session' = exp_session
        BY <2>2, <3>2 DEF ReceiveMulticast, Follows, Advance
      <4>2. CASE Gap(p)
        <5>1. GapRequest(p) \in PacketHeader /\ Enqueue(GapRequest(p))
          BY <1>2, <2>2, <4>2, GapRequestType DEF FeedInv, ReceiveMulticast
        <5> QED
          BY <1>2, <3>1, <4>1, <5>1, EnqueueKeeps DEF FeedInv
      <4>3. CASE ~Gap(p)
        <5>1. UNCHANGED <<asked, abandoned, reqs>>
          BY <2>2, <3>2, <4>3 DEF ReceiveMulticast
        <5> QED
          BY <1>2, <3>1, <4>1, <5>1 DEF RequestsKept, Pending, Wanted
      <4> QED
        BY <4>2, <4>3
    <3>3. CASE ~Follows(p)
      <4>1. asked' = {}
        BY <2>2, <3>3 DEF ReceiveMulticast, Gap
      <4> QED
        BY <4>1 DEF RequestsKept
    <3> QED
      BY <3>2, <3>3
  <2>3. ASSUME NEW req \in ManualRequests, ManualRequest(req) PROVE RequestsKept'
    BY <1>2, <2>3, EnqueueKeeps, ManualRequestsAssumption
       DEF FeedInv, ManualRequest, gapVars
  <2>4. ASSUME NEW s \in Server, TakeRequest(s) \/ SendRequest(s) \/ SendRequestFails(s)
        PROVE  RequestsKept'
    BY <1>2, <2>4, SenderThreadKeeps DEF FeedInv
  <2>5. ClientAction =>
           \/ \E p \in multicast : ReceiveMulticast(p)
           \/ \E s \in Server : TakeRequest(s) \/ SendRequest(s) \/ SendRequestFails(s)
           \/ \E req \in ManualRequests : ManualRequest(req)
           \/ UNCHANGED <<exp_session, requestVars, sending, requests>>
    BY DEF ClientAction, ReceiveAnswer, ReceiveFails, Consume, gapVars
  <2>6. UNCHANGED clientVars => UNCHANGED <<exp_session, requestVars, sending, requests>>
    BY DEF clientVars, gapVars
  <2> QED
    BY <1>2, <2>1, <2>2, <2>3, <2>4, <2>5, <2>6 DEF FeedAction, feedVars
<1>3. FeedInv /\ RequestsKept /\ [FeedNext]_feedVars => RequestsKept'
  BY <1>2, FeedNextIsAction DEF FeedInv
<1> QED
  BY <1>1, <1>3, FeedInvariance, PTL DEF FeedSpec

-----------------------------------------------------------------------------
(* The client asks only for what the server has.                           *)

\* Two facts about ends of ranges, apart from the sets they are used with.
LEMMA Arithmetic ==
  ASSUME NEW a \in Nat, NEW b \in Nat, NEW c \in Nat
  PROVE  /\ a - 1 \in c .. b - 1 => a =< b
         /\ a - c = b - c => a = b
OBVIOUS

\* The numbers of the server only advance, and stay once it is stopped.
LEMMA ServerAdvances ==
  ASSUME ServerInv, ServerAction \/ UNCHANGED serverVars
  PROVE  /\ DOMAIN log \subseteq DOMAIN log'
         /\ next_seq =< next_seq'
         /\ stopped => stopped' /\ next_seq' = next_seq
<1>1. ServerInv'
  BY ServerActionInv
<1>2. DOMAIN log \subseteq DOMAIN log'
  BY ServerLogGrows DEF LogGrows
<1>3. /\ next_seq \in Nat /\ FirstSeq =< next_seq
      /\ DOMAIN log = FirstSeq .. next_seq - 1
      /\ stopped => closing = {next_seq - FirstSeq}
  BY DEF ServerInv, ServerTypes, StreamIntact
<1>4. /\ next_seq' \in Nat /\ FirstSeq =< next_seq'
      /\ DOMAIN log' = FirstSeq .. next_seq' - 1
      /\ stopped' => closing' = {next_seq' - FirstSeq}
  BY <1>1 DEF ServerInv, ServerTypes, StreamIntact
<1>5. next_seq \in Nat /\ next_seq' \in Nat /\ FirstSeq \in Nat
  BY <1>3, <1>4, FirstSeqAssumption
<1>6. next_seq =< next_seq'
  <2>1. CASE next_seq = FirstSeq
    BY <1>4, <2>1
  <2>2. CASE next_seq # FirstSeq
    <3>1. next_seq - 1 \in FirstSeq .. next_seq - 1
      BY <1>3, <2>2, FirstSeqAssumption
    <3>2. next_seq - 1 \in FirstSeq .. next_seq' - 1
      BY <1>2, <1>3, <1>4, <3>1
    <3> QED
      BY <1>5, <3>2, Arithmetic
  <2> QED
    BY <2>1, <2>2
<1>7. /\ stopped => stopped'
      /\ closing # {} => closing' = closing
  <2>1. HandleStep => UNCHANGED stopped /\ (closing # {} => closing' = closing)
    BY DEF HandleStep, SubmitBatch, SubmitSpecial, ChangeSession, Shutdown, DropHandles,
           Submit, senderVars
  <2>2. SenderStep => (stopped => stopped') /\ UNCHANGED closing
    BY DEF SenderStep, SendBatch, SendDropped, Heartbeat, EndOfSession, SwitchSession,
           StopSession, Disconnected, Take, handleVars
  <2>3. Tick => UNCHANGED <<stopped, closing>>
    BY DEF Tick, senderVars, handleVars
  <2>4. ASSUME NEW req \in PacketHeader, Serve(req) PROVE UNCHANGED <<stopped, closing>>
    BY <2>4 DEF Serve, senderVars, handleVars
  <2>5. UNCHANGED serverVars => UNCHANGED <<stopped, closing>>
    BY DEF serverVars, senderVars, handleVars
  <2> QED
    BY <2>1, <2>2, <2>3, <2>4, <2>5 DEF ServerAction
<1>8. ASSUME stopped PROVE next_seq' = next_seq
  <2>1. {next_seq' - FirstSeq} = {next_seq - FirstSeq}
    BY <1>3, <1>4, <1>7, <1>8
  <2>2. next_seq' - FirstSeq = next_seq - FirstSeq
    BY <2>1
  <2> QED
    BY <1>5, <2>2, Arithmetic
<1> QED
  BY <1>2, <1>6, <1>7, <1>8

\* The request for a gap ends before the packet that revealed it.
LEMMA GapRequestInLog ==
  ASSUME FeedInv, AllAnswerable, NEW p \in multicast, Gap(p)
  PROVE  InLog(GapRequest(p))
<1> DEFINE req == GapRequest(p)
<1>1. /\ req \in PacketHeader /\ req.seq_num = exp_seq
      /\ req.msg_count =< p.seq_num - exp_seq
  BY GapRequestType DEF FeedInv
<1>2. p.seq_num \in Nat /\ p.seq_num =< next_seq
  BY PacketFields DEF FeedInv
<1>3. exp_seq \in Nat /\ exp_seq >= FirstSeq
  BY DEF Gap, Follows, FeedInv, ClientTypes, AllAnswerable
<1>4. DOMAIN log = FirstSeq .. next_seq - 1 /\ next_seq \in Nat
  BY DEF FeedInv, ServerInv, ServerTypes, StreamIntact
<1>5. req.msg_count \in Nat
  BY <1>1, U16MaxAssumption DEF PacketHeader
<1> HIDE DEF req
<1>6. InLog(req)
  BY <1>1, <1>2, <1>3, <1>4, <1>5, FirstSeqAssumption DEF InLog, Numbers
<1> QED
  BY <1>6 DEF req

\* Every step keeps each request, wherever it is, inside the log.
LEMMA AllAnswerableStep ==
  ASSUME ManualRequests = {}, FeedInv, AllAnswerable, FeedAction \/ UNCHANGED feedVars
  PROVE  AllAnswerable'
<1>1. reqs \in Seq(RetransmissionRequest)
  BY DEF FeedInv, ClientTypes
<1>2. sending \in [Server -> RetransmissionRequest \cup {None}]
  BY DEF FeedInv, ClientTypes
<1>3. CASE UNCHANGED clientVars
  <2>1. UNCHANGED <<exp_seq, reqs, sending, requests>>
    BY <1>3 DEF clientVars, gapVars, requestVars
  <2>2. DOMAIN log \subseteq DOMAIN log'
    BY ServerAdvances DEF FeedInv, FeedAction, feedVars
  <2>3. ASSUME NEW req, InLog(req) PROVE InLog(req)'
    BY <2>2, <2>3 DEF InLog
  <2> QED
    BY <2>1, <2>3 DEF AllAnswerable, InLog
<1>4. CASE ClientAction /\ UNCHANGED serverVars
  <2>1. UNCHANGED log
    BY <1>4 DEF serverVars, senderVars
  <2>2. ASSUME NEW p \in multicast, ReceiveMulticast(p) PROVE AllAnswerable'
    <3>1. UNCHANGED <<sending, requests>>
      BY <2>2 DEF ReceiveMulticast
    <3>2. exp_seq' \in Nat /\ exp_seq' >= FirstSeq
      <4>1. p.seq_num \in Nat /\ p.msg_count \in Nat /\ FirstSeq =< p.seq_num
        BY PacketFields DEF FeedInv
      <4> QED
        BY <2>2, <4>1, FirstSeqAssumption DEF ReceiveMulticast, Advance
    <3>3. \A i \in 1 .. Len(reqs') : Numbers(reqs'[i].req.seq_num, reqs'[i].req.msg_count)
                                        \subseteq DOMAIN log
      <4>1. CASE Gap(p) /\ Enqueue(GapRequest(p)) /\ Len(reqs) < PoolSize
        <5> DEFINE queued == [req |-> GapRequest(p), attempts |-> 0]
        <5>1. reqs' = Append(reqs, queued)
          BY <4>1 DEF Enqueue
        <5>2. InLog(queued.req)
          BY <4>1, GapRequestInLog
        <5> HIDE DEF queued
        <5>3. /\ Len(reqs') = Len(reqs) + 1 /\ Len(reqs) \in Nat
              /\ reqs'[Len(reqs) + 1] = queued
              /\ \A i \in 1 .. Len(reqs) : reqs'[i] = reqs[i]
          BY <1>1, <5>1
        <5> QED
          BY <5>2, <5>3 DEF AllAnswerable, InLog
      <4>2. CASE UNCHANGED reqs
        BY <4>2 DEF AllAnswerable, InLog
      <4> QED
        BY <2>2, <4>1, <4>2 DEF ReceiveMulticast, Enqueue
    <3> QED
      BY <2>1, <3>1, <3>2, <3>3 DEF AllAnswerable, InLog
  <2>3. ASSUME NEW s \in Server, TakeRequest(s) \/ SendRequest(s) \/ SendRequestFails(s)
        PROVE  AllAnswerable'
    <3>1. UNCHANGED exp_seq
      BY <2>3 DEF TakeRequest, SendRequest, SendRequestFails, gapVars
    <3>2. CASE TakeRequest(s)
      <4>1. /\ reqs # <<>> /\ reqs' = Tail(reqs) /\ UNCHANGED requests
            /\ UNCHANGED sending \/ sending' = [sending EXCEPT ![s] = Head(reqs)]
        BY <3>2 DEF TakeRequest
      <4>2. /\ Len(reqs') = Len(reqs) - 1 /\ Len(reqs) \in Nat /\ Len(reqs) > 0
            /\ Head(reqs) = reqs[1]
            /\ \A i \in 1 .. Len(reqs) - 1 : reqs'[i] = reqs[i + 1]
        BY <1>1, <4>1
      <4>3. InLog(Head(reqs).req)
        BY <4>2 DEF AllAnswerable
      <4>4. \A i \in 1 .. Len(reqs') : InLog(reqs'[i].req)
        BY <4>2 DEF AllAnswerable
      <4>5. \A r \in Server : sending'[r] # None => InLog(sending'[r].req)
        BY <1>2, <4>1, <4>3 DEF AllAnswerable
      <4> QED
        BY <2>1, <3>1, <4>1, <4>4, <4>5 DEF AllAnswerable, InLog
    <3>3. CASE SendRequest(s) \/ SendRequestFails(s)
      <4>1. InLog(sending[s].req)
        BY <3>3 DEF SendRequest, SendRequestFails, AllAnswerable
      <4>2. /\ sending[s] # None /\ sending' = [sending EXCEPT ![s] = None]
            /\ requests' \subseteq requests \cup {sending[s].req}
            /\ \/ UNCHANGED reqs
               \/ reqs' = Append(reqs, [sending[s] EXCEPT !.attempts = @ + 1])
        BY <3>3 DEF SendRequest, SendRequestFails, requestVars
      <4>3. \A r \in Server : sending'[r] # None => InLog(sending'[r].req)
        BY <1>2, <4>2 DEF AllAnswerable
      <4>4. \A req \in requests' : InLog(req)
        BY <4>1, <4>2 DEF AllAnswerable
      <4>5. \A i \in 1 .. Len(reqs') : InLog(reqs'[i].req)
        <5>1. CASE UNCHANGED reqs
          BY <5>1 DEF AllAnswerable
        <5>2. CASE reqs' = Append(reqs, [sending[s] EXCEPT !.attempts = @ + 1])
          <6> DEFINE again == [sending[s] EXCEPT !.attempts = @ + 1]
          <6>1. again.req = sending[s].req
            BY <1>2, <4>2 DEF RetransmissionRequest
          <6> HIDE DEF again
          <6>2. /\ Len(reqs') = Len(reqs) + 1 /\ Len(reqs) \in Nat
                /\ reqs'[Len(reqs) + 1] = again
                /\ \A i \in 1 .. Len(reqs) : reqs'[i] = reqs[i]
            BY <1>1, <5>2 DEF again
          <6> QED
            BY <4>1, <6>1, <6>2 DEF AllAnswerable
        <5> QED
          BY <4>2, <5>1, <5>2
      <4> QED
        BY <2>1, <3>1, <4>3, <4>4, <4>5 DEF AllAnswerable, InLog
    <3> QED
      BY <2>3, <3>2, <3>3
  <2>4. CASE UNCHANGED <<exp_seq, reqs, sending, requests>>
    BY <2>1, <2>4 DEF AllAnswerable, InLog
  <2>5. ClientAction =>
           \/ \E p \in multicast : ReceiveMulticast(p)
           \/ \E s \in Server : TakeRequest(s) \/ SendRequest(s) \/ SendRequestFails(s)
           \/ UNCHANGED <<exp_seq, reqs, sending, requests>>
    BY DEF ClientAction, ReceiveAnswer, ReceiveFails, Consume, gapVars, requestVars
  <2> QED
    BY <1>4, <2>2, <2>3, <2>4, <2>5
<1> QED
  BY <1>3, <1>4 DEF FeedAction, feedVars

\* client.rs and server.rs: with no requests but the client's own, and a client
\* that was not told to start before the first message, everything that is ever
\* asked for is in the server's log, whatever is lost, delayed or repeated.
THEOREM AnswerableRequestsHolds ==
  ASSUME ManualRequests = {}, StartsInStream
  PROVE  FeedSpec => []AnswerableRequests
<1>1. FeedInit => AllAnswerable
  BY OptionAssumption DEF FeedInit, ClientInit, AllAnswerable, StartsInStream
<1>2. FeedInv /\ AllAnswerable /\ [FeedNext]_feedVars => AllAnswerable'
  BY AllAnswerableStep, FeedNextIsAction DEF FeedInv
<1>3. AllAnswerable => AnswerableRequests
  BY DEF AllAnswerable, InLog, AnswerableRequests
<1> QED
  BY <1>1, <1>2, <1>3, FeedInvariance, PTL DEF FeedSpec

-----------------------------------------------------------------------------
(* No gap goes unnoticed.                                                  *)

\* A step of the server that queues no end of session.
EndlessAction ==
    \/ FeedHandleStep /\ "end_of_session" \notin Operations
    \/ SenderStep
    \/ Tick
    \/ \E req \in PacketHeader : Serve(req)
    \/ UNCHANGED serverVars

\* Such a step is one of those that ServerProofs treats.
LEMMA EndlessIsServerAction ==
  ASSUME EndlessAction
  PROVE  ServerAction \/ UNCHANGED serverVars
BY DEF EndlessAction, FeedHandleStep, HandleStep, ServerAction

\* Without end_of_session no such command gets into the queue.
LEMMA NoEndQueued ==
  ASSUME ServerInv, EndIsFinal, EndlessAction
  PROVE  \A i \in 1 .. Len(cmds') : cmds'[i].op # "EndOfSession"
<1>1. cmds \in Seq(Command)
  BY DEF ServerInv, ServerTypes
<1>2. CASE UNCHANGED cmds
  BY <1>2 DEF EndIsFinal
<1>3. ASSUME NEW cmd, cmd.op # "EndOfSession", cmds' = Append(cmds, cmd)
      PROVE  \A i \in 1 .. Len(cmds') : cmds'[i].op # "EndOfSession"
  <2>1. /\ Len(cmds') = Len(cmds) + 1 /\ Len(cmds) \in Nat
        /\ cmds'[Len(cmds) + 1] = cmd
        /\ \A i \in 1 .. Len(cmds) : cmds'[i] = cmds[i]
    BY <1>1, <1>3
  <2> QED
    BY <1>3, <2>1 DEF EndIsFinal
<1>4. CASE cmds # <<>> /\ cmds' = Tail(cmds)
  <2>1. /\ Len(cmds') = Len(cmds) - 1 /\ Len(cmds) \in Nat
        /\ \A i \in 1 .. Len(cmds) - 1 : cmds'[i] = cmds[i + 1]
    BY <1>1, <1>4
  <2> QED
    BY <2>1 DEF EndIsFinal
<1>5. ASSUME FeedHandleStep, "end_of_session" \notin Operations
      PROVE  \E cmd : cmd.op # "EndOfSession" /\ cmds' = Append(cmds, cmd)
  <2>1. ASSUME NEW op \in {"Send", "SendDropped"}, NEW lens, SubmitBatch(op, lens)
        PROVE  \E cmd : cmd.op # "EndOfSession" /\ cmds' = Append(cmds, cmd)
    <3> DEFINE cmd == [op |-> op,
                       msgs |-> [i \in DOMAIN lens |->
                                   [no |-> submitted + i, len |-> lens[i]]]]
    <3>1. cmd.op # "EndOfSession" /\ cmds' = Append(cmds, cmd)
      BY <2>1 DEF SubmitBatch, Submit
    <3> QED
      BY <3>1
  <2>2. ASSUME NEW s, ChangeSession(s)
        PROVE  \E cmd : cmd.op # "EndOfSession" /\ cmds' = Append(cmds, cmd)
    <3> DEFINE cmd == [op |-> "ChangeSession", session |-> s]
    <3>1. cmd.op # "EndOfSession" /\ cmds' = Append(cmds, cmd)
      BY <2>2 DEF ChangeSession, Submit
    <3> QED
      BY <3>1
  <2>3. ASSUME Shutdown
        PROVE  \E cmd : cmd.op # "EndOfSession" /\ cmds' = Append(cmds, cmd)
    <3> DEFINE cmd == [op |-> "StopSession"]
    <3>1. cmd.op # "EndOfSession" /\ cmds' = Append(cmds, cmd)
      BY <2>3 DEF Shutdown, Submit
    <3> QED
      BY <3>1
  <2> QED
    BY <1>5, <2>1, <2>2, <2>3 DEF FeedHandleStep
<1>6. SenderStep => UNCHANGED cmds \/ (cmds # <<>> /\ cmds' = Tail(cmds))
  BY DEF SenderStep, SendBatch, SendDropped, Heartbeat, EndOfSession, SwitchSession,
         StopSession, Disconnected, Take
<1>7. Tick => UNCHANGED cmds
  BY DEF Tick
<1>8. ASSUME NEW req \in PacketHeader, Serve(req) PROVE UNCHANGED cmds
  BY <1>8 DEF Serve
<1>9. UNCHANGED serverVars => UNCHANGED cmds
  BY DEF serverVars
<1> QED
  BY <1>2, <1>3, <1>4, <1>5, <1>6, <1>7, <1>8, <1>9 DEF EndlessAction

\* A new packet that announces the end comes from a stopped server.
LEMMA NewEndIsFinal ==
  ASSUME MaxMsgs < U16Max, ServerInv, EndIsFinal, EndlessAction,
         NEW p \in multicast', p \notin multicast, p.msg_count = U16Max
  PROVE  stopped /\ p.seq_num = next_seq
<1>1. CASE p = PeriodicPacket
  BY <1>1, U16MaxAssumption
     DEF PeriodicPacket, build_special, HEARTBEAT_IDENT, END_OF_SESSION_IDENT
<1>2. CASE EndOfSession
  <2>1. cmds \in Seq(Command) /\ cmds # <<>> /\ Head(cmds).op = "EndOfSession"
    BY <1>2 DEF EndOfSession, Take, ServerInv, ServerTypes
  <2>2. 1 \in 1 .. Len(cmds) /\ Head(cmds) = cmds[1]
    BY <2>1
  <2> QED
    BY <2>1, <2>2 DEF EndIsFinal
<1>3. CASE SendBatch
  <2> DEFINE msgs == Head(cmds).msgs
             chunks == chunk_messages(msgs)
  <2>1. ~Refused(msgs)
    BY <1>3 DEF SendBatch
  <2>2. PICK i \in DOMAIN chunks : p = build_packet(session, next_seq, chunks[i])
    BY <1>3, <2>1 DEF SendBatch
  <2>3. cmds # <<>> /\ IsBatch(Head(cmds)) /\ cmds \in Seq(Command)
    BY <1>3 DEF SendBatch, Take, IsBatch, ServerInv, ServerTypes
  <2>4. 1 \in 1 .. Len(cmds) /\ Head(cmds) = cmds[1] /\ Head(cmds) \in Command
    BY <2>3
  <2>5. msgs \in Seq(Message) /\ Len(msgs) =< MaxMsgs
    BY <2>3, <2>4, CommandFields DEF ServerInv, BatchSizes
  <2>6. Len(chunks[i]) \in 1 .. Len(msgs)
    BY <2>5, ChunkLength
  <2>7. p.msg_count = Len(chunks[i])
    BY <2>2 DEF build_packet
  <2> HIDE DEF chunks, msgs
  <2>8. Len(msgs) \in Nat
    BY <2>5
  <2> QED
    BY <2>5, <2>6, <2>7, <2>8, BoundsAssumption, U16MaxAssumption
<1>4. FeedHandleStep => UNCHANGED multicast
  BY DEF FeedHandleStep, SubmitBatch, SubmitSpecial, ChangeSession, Shutdown, Submit
<1>5. SenderStep => EndOfSession \/ SendBatch \/ UNCHANGED multicast
                    \/ multicast' = multicast \cup {PeriodicPacket}
  BY DEF SenderStep, SendDropped, Heartbeat, SwitchSession, StopSession, Disconnected
<1>6. Tick => multicast' = multicast \cup {PeriodicPacket}
  BY DEF Tick
<1>7. ASSUME NEW req \in PacketHeader, Serve(req) PROVE UNCHANGED multicast
  BY <1>7 DEF Serve
<1>8. UNCHANGED serverVars => UNCHANGED multicast
  BY DEF serverVars
<1> QED
  BY <1>1, <1>2, <1>3, <1>4, <1>5, <1>6, <1>7, <1>8 DEF EndlessAction

\* An end of session under way carries the last number there will be.
LEMMA EndIsFinalStep ==
  ASSUME MaxMsgs < U16Max, ServerInv, EndIsFinal, EndlessAction
  PROVE  EndIsFinal'
<1>1. \A i \in 1 .. Len(cmds') : cmds'[i].op # "EndOfSession"
  BY NoEndQueued
<1>2. stopped => stopped' /\ next_seq' = next_seq
  BY EndlessIsServerAction, ServerAdvances
<1>3. ASSUME NEW p \in multicast', p.msg_count = U16Max
      PROVE  stopped' /\ p.seq_num = next_seq'
  <2>1. stopped /\ p.seq_num = next_seq
    BY <1>3, NewEndIsFinal DEF EndIsFinal
  <2> QED
    BY <1>2, <2>1
<1> QED
  BY <1>1, <1>3 DEF EndIsFinal

\* Steps of the server: what they log is ahead of the client, where the client
\* is not ahead of the server.
LEMMA LoggedAhead ==
  ASSUME FeedInv, NoSilentGap, ServerAction \/ UNCHANGED serverVars, UNCHANGED clientVars,
         \/ next_seq' = next_seq
         \/ exp_seq # None /\ low # None => exp_seq =< next_seq \/ exp_seq =< low
  PROVE  NoSilentGap'
<1>1. UNCHANGED <<exp_seq, low, live, asked, refused>>
  BY DEF clientVars, gapVars, requestVars, askVars
<1>2. ServerInv'
  BY ServerActionInv DEF FeedInv
<1>3. /\ next_seq \in Nat /\ DOMAIN log = FirstSeq .. next_seq - 1
      /\ next_seq' \in Nat /\ DOMAIN log' = FirstSeq .. next_seq' - 1
  BY <1>2 DEF FeedInv, ServerInv, ServerTypes, StreamIntact
<1>4. exp_seq \in Nat \cup {None} /\ low \in Nat \cup {None}
  BY DEF FeedInv, ClientTypes
<1>5. ASSUME NEW n \in Behind' PROVE n \in Behind
  <2>1. n \in DOMAIN log' /\ low # None /\ exp_seq # None /\ low =< n /\ n < exp_seq
    BY <1>1 DEF Behind
  <2>2. CASE n \in DOMAIN log
    BY <2>1, <2>2 DEF Behind
  <2>3. CASE n \notin DOMAIN log
    <3>1. n \in Nat /\ low \in Nat /\ exp_seq \in Nat
      BY <1>3, <1>4, <2>1, FirstSeqAssumption
    <3>2. next_seq =< n
      BY <1>3, <2>1, <2>3, <3>1, FirstSeqAssumption
    <3>3. next_seq' # next_seq
      BY <1>3, <2>1, <2>3
    <3>4. exp_seq =< next_seq \/ exp_seq =< low
      BY <2>1, <3>3
    <3> QED
      BY <1>3, <2>1, <3>1, <3>2, <3>4
  <2> QED
    BY <2>2, <2>3
<1> QED
  BY <1>1, <1>5 DEF NoSilentGap

\* The server's steps leave the client's account of gaps in order.
LEMMA ServerKeepsGapInv ==
  ASSUME MaxMsgs < U16Max, FeedInv, GapInv, EndlessAction, UNCHANGED clientVars
  PROVE  GapInv'
<1>1. UNCHANGED <<exp_seq, low>>
  BY DEF clientVars, gapVars
<1>2. EndIsFinal'
  BY EndIsFinalStep DEF FeedInv, GapInv
<1>3. /\ next_seq =< next_seq'
      /\ stopped => stopped' /\ next_seq' = next_seq
  BY EndlessIsServerAction, ServerAdvances DEF FeedInv
<1>4. ServerInv'
  BY EndlessIsServerAction, ServerActionInv DEF FeedInv
<1>5. next_seq \in Nat /\ next_seq' \in Nat
  BY <1>4 DEF FeedInv, ServerInv, ServerTypes
<1>6. exp_seq \in Nat \cup {None} /\ low \in Nat \cup {None}
  BY DEF FeedInv, ClientTypes
<1>7. NotAhead'
  BY <1>1, <1>3, <1>5, <1>6, OptionAssumption DEF GapInv, NotAhead
<1>8. \/ next_seq' = next_seq
      \/ exp_seq # None /\ low # None => exp_seq =< next_seq \/ exp_seq =< low
  BY <1>3 DEF GapInv, NotAhead
<1>9. NoSilentGap'
  BY <1>8, EndlessIsServerAction, LoggedAhead DEF GapInv
<1> QED
  BY <1>1, <1>2, <1>7, <1>9 DEF GapInv

\* A live packet: what it skips is asked for or refused, what it has is live,
\* and an end of the session leaves nothing behind that is not.
LEMMA ReceiveMulticastNoGap ==
  ASSUME MaxMsgs < U16Max, FeedInv, NoSilentGap, exp_seq # None => exp_seq >= FirstSeq,
         NEW p \in multicast, p.msg_count = U16Max => p.seq_num = next_seq,
         ReceiveMulticast(p), UNCHANGED serverVars
  PROVE  /\ NoSilentGap'
         /\ exp_seq' \in Nat /\ exp_seq' >= FirstSeq
         /\ exp_seq' =< next_seq \/ p.msg_count = U16Max
<1>1. UNCHANGED log
  BY DEF serverVars, senderVars
<1>2. /\ p.session \in Session /\ p.seq_num \in Nat /\ p.msg_count \in Nat
      /\ FirstSeq =< p.seq_num /\ p.seq_num =< next_seq
      /\ \/ p.msg_count = 0
         \/ p.msg_count = U16Max
         \/ p.seq_num + p.msg_count =< next_seq
  BY PacketFields DEF FeedInv
<1>3. exp_seq' = p.seq_num + p.msg_count
  BY DEF ReceiveMulticast, Advance
<1>4. next_seq \in Nat /\ DOMAIN log = FirstSeq .. next_seq - 1
  BY DEF FeedInv, ServerInv, ServerTypes, StreamIntact
<1>5. exp_seq' \in Nat /\ exp_seq' >= FirstSeq
  BY <1>2, <1>3, FirstSeqAssumption
<1>6. exp_seq' =< next_seq \/ p.msg_count = U16Max
  BY <1>2, <1>3, <1>4
<1>7. ASSUME NEW n \in DOMAIN log, p.seq_num =< n, n < exp_seq'
      PROVE  n \in live'
  <2>1. n \in Nat /\ n < next_seq
    BY <1>4, <1>7, FirstSeqAssumption
  <2>2. p.msg_count # 0 /\ p.msg_count # U16Max
    BY <1>2, <1>3, <1>4, <1>7, <2>1
  <2>3. Carries(p) = Numbers(p.seq_num, p.msg_count)
    BY <2>2 DEF Carries, packet_kind, HEARTBEAT_IDENT, END_OF_SESSION_IDENT
  <2>4. n \in Carries(p)
    BY <1>2, <1>3, <1>7, <2>1, <2>3 DEF Numbers
  <2> QED
    BY <2>4 DEF ReceiveMulticast
<1>8. NoSilentGap'
  <2> SUFFICES ASSUME NEW n \in DOMAIN log, low' # None, low' =< n, n < exp_seq'
               PROVE  n \in live' \cup asked' \cup refused'
    BY <1>1 DEF NoSilentGap, Behind
  <2>1. n \in Nat
    BY <1>4, FirstSeqAssumption
  <2>2. CASE ~Follows(p)
    <3>1. low' = p.seq_num
      BY <2>2 DEF ReceiveMulticast
    <3> QED
      BY <1>7, <3>1
  <2>3. CASE Follows(p)
    <3>1. exp_seq \in Nat /\ exp_seq >= FirstSeq /\ exp_session = p.session
      BY <2>3 DEF Follows, FeedInv, ClientTypes
    <3>2. low' = low /\ live \subseteq live'
      BY <2>3 DEF ReceiveMulticast
    <3>3. asked \subseteq asked' /\ refused \subseteq refused'
      BY <2>3 DEF ReceiveMulticast, Enqueue
    <3>4. CASE n < exp_seq
      <4>1. n \in Behind
        BY <3>1, <3>2, <3>4, OptionAssumption DEF Behind
      <4> QED
        BY <3>2, <3>3, <4>1 DEF NoSilentGap
    <3>5. CASE p.seq_num =< n
      BY <1>7, <3>5
    <3>6. CASE exp_seq =< n /\ n < p.seq_num
      <4> DEFINE req == GapRequest(p)
      <4>1. Gap(p)
        BY <1>2, <2>1, <2>3, <3>1, <3>6 DEF Gap
      <4>2. p.seq_num - exp_seq < U16Max
        <5>1. next_seq - FirstSeq =< MaxMsgs
          BY LogBounded, BoundsAssumption DEF FeedInv
        <5> QED
          BY <1>2, <1>4, <3>1, <5>1, FirstSeqAssumption, BoundsAssumption, U16MaxAssumption
      <4>3. /\ req.session = p.session /\ req.seq_num = exp_seq
            /\ req.msg_count = p.seq_num - exp_seq
        BY <4>1, <4>2, GapRequestType DEF FeedInv
      <4>4. n \in Numbers(req.seq_num, req.msg_count)
        BY <1>2, <2>1, <3>1, <3>6, <4>3 DEF Numbers
      <4>5. n \in Wanted(req)
        BY <3>1, <4>3, <4>4 DEF Wanted
      <4>6. Enqueue(req)
        BY <4>1 DEF ReceiveMulticast
      <4> HIDE DEF req
      <4> QED
        BY <4>5, <4>6 DEF Enqueue
    <3> QED
      BY <1>2, <2>1, <3>1, <3>4, <3>5, <3>6
  <2> QED
    BY <2>2, <2>3
<1> QED
  BY <1>5, <1>6, <1>8

\* What a packet lets the client skip over, it asks for or counts as refused.
LEMMA ReceiveMulticastGapInv ==
  ASSUME MaxMsgs < U16Max, FeedInv, GapInv, NEW p \in multicast, ReceiveMulticast(p),
         UNCHANGED serverVars
  PROVE  GapInv'
<1>1. UNCHANGED <<cmds, multicast, stopped, next_seq>>
  BY DEF serverVars, senderVars
<1>2. EndIsFinal'
  BY <1>1 DEF GapInv, EndIsFinal
<1>3. p.msg_count = U16Max => stopped /\ p.seq_num = next_seq
  BY DEF GapInv, EndIsFinal
<1>4. /\ NoSilentGap'
      /\ exp_seq' \in Nat /\ exp_seq' >= FirstSeq
      /\ exp_seq' =< next_seq \/ p.msg_count = U16Max
  BY <1>3, ReceiveMulticastNoGap DEF GapInv
<1> QED
  BY <1>1, <1>2, <1>3, <1>4 DEF GapInv, NotAhead

\* Other steps of the client leave the gap detection alone.
LEMMA ClientKeepsGapInv ==
  ASSUME MaxMsgs < U16Max, FeedInv, GapInv, ClientAction, UNCHANGED serverVars
  PROVE  GapInv'
<1>1. UNCHANGED <<cmds, multicast, stopped, next_seq, log>>
  BY DEF serverVars, senderVars
<1>2. CASE \E p \in multicast : ReceiveMulticast(p)
  BY <1>2, ReceiveMulticastGapInv
<1>3. CASE /\ UNCHANGED <<exp_seq, low, live>>
           /\ asked \subseteq asked' /\ refused \subseteq refused'
  <2>1. Behind' = Behind
    BY <1>1, <1>3 DEF Behind
  <2> QED
    BY <1>1, <1>3, <2>1 DEF GapInv, EndIsFinal, NotAhead, NoSilentGap
<1>4. ClientAction =>
         \/ \E p \in multicast : ReceiveMulticast(p)
         \/ /\ UNCHANGED <<exp_seq, low, live>>
            /\ asked \subseteq asked' /\ refused \subseteq refused'
  BY DEF ClientAction, ReceiveAnswer, ReceiveFails, TakeRequest, SendRequest,
         SendRequestFails, Consume, ManualRequest, Enqueue, gapVars, requestVars, askVars
<1> QED
  BY <1>2, <1>3, <1>4

\* client.rs, the gap detection of process_multicast_datagram: whatever is lost,
\* repeated or reordered, a message behind the expected number was carried by a
\* live packet or asked for, or the full channel was logged.  The stream must
\* be shorter than u16::MAX, the most that one request asks for and the count
\* that marks the end of a session; the client starts inside the stream or where
\* it finds it; and end_of_session() is not called, since the expected number
\* then jumps ahead of the stream (run mold_end).
THEOREM NoSilentGapHolds ==
  ASSUME MaxMsgs < U16Max, "end_of_session" \notin Operations, StartsInStream
  PROVE  FeedSpec => []NoSilentGap
<1>1. FeedInit => GapInv
  <2> SUFFICES ASSUME FeedInit PROVE GapInv
    OBVIOUS
  <2>1. exp_seq # None => exp_seq >= FirstSeq
    BY DEF FeedInit, ClientInit, StartsInStream
  <2>2. EndIsFinal
    BY DEF FeedInit, ServerInit, EndIsFinal
  <2>3. low # None => low = exp_seq
    BY DEF FeedInit, ClientInit
  <2>4. NotAhead
    BY <2>3, OptionAssumption DEF NotAhead, FeedInit, ClientInit
  <2>5. NoSilentGap
    BY DEF FeedInit, ServerInit, NoSilentGap, Behind
  <2> QED
    BY <2>1, <2>2, <2>4, <2>5 DEF GapInv
<1>2. FeedInv /\ GapInv /\ [FeedNext]_feedVars => GapInv'
  <2> SUFFICES ASSUME FeedInv, GapInv, [FeedNext]_feedVars PROVE GapInv'
    OBVIOUS
  <2>1. CASE ServerSide \/ UNCHANGED feedVars
    <3>1. EndlessAction /\ UNCHANGED clientVars
      BY <2>1 DEF ServerSide, feedVars, EndlessAction
    <3> QED
      BY <3>1, ServerKeepsGapInv
  <2>2. CASE \E req \in requests : DeliverRequest(req)
    <3>1. EndlessAction /\ UNCHANGED clientVars
      BY <2>2 DEF DeliverRequest, EndlessAction, FeedInv, ClientTypes
    <3> QED
      BY <3>1, ServerKeepsGapInv
  <2>3. CASE \/ ClientSide
             \/ \E p \in multicast : DeliverMulticast(p)
             \/ \E p \in answers : DeliverAnswer(p)
    <3>1. ClientAction /\ UNCHANGED serverVars
      BY <2>3 DEF ClientSide, DeliverMulticast, DeliverAnswer, ClientAction
    <3> QED
      BY <3>1, ClientKeepsGapInv
  <2> QED
    BY <2>1, <2>2, <2>3 DEF FeedNext
<1>3. GapInv => NoSilentGap
  BY DEF GapInv
<1> QED
  BY <1>1, <1>2, <1>3, FeedInvariance, PTL DEF FeedSpec

=============================================================================
