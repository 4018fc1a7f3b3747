---------------------------- MODULE PipelineProofs ----------------------------
(***************************************************************************)
(* What is proved about the whole program (Pipeline), for every file,      *)
(* every size of batches and channels and every behaviour of the network.  *)
(***************************************************************************)
EXTENDS Pipeline, FeedProofs

\* replay's states in step with the handle, and every message of the file in
\* one place.
ReplayInStep ==
    /\ unread \in Nat /\ batch \in 0 .. MaxBatch
    /\ unread + batch + submitted = MaxMsgs
    /\ replay \in {"reading", "ending", "closing", "done"}
    /\ handles <=> replay # "done"

\* The receive loop holds a packet that was sent, and all it has given to the
\* handler is in the log.
LoopInStep ==
    /\ loop \in {"waiting", "parsing", "done"}
    /\ loop = "parsing" =>
          packet \in multicast \cup answers /\ packet_kind(packet) = "Standard"
    /\ loop # "parsing" => packet = None
    /\ ending \in Ending \cup {None}
    /\ loop = "done" <=> ending # None
    /\ applied \in Seq(DOMAIN log)

MainInStep ==
    /\ tui \in {"off", "running", "done"} /\ shutdown \in BOOLEAN
    /\ main \in {"join_server", "join_client", "join_tui", "report", "done"}
    /\ main \in {"join_tui", "report", "done"} => loop = "done"
    /\ report # None => main = "done" /\ report = applied

PipelineInv == FeedInv /\ ReplayInStep /\ LoopInStep /\ MainInStep

-----------------------------------------------------------------------------
(* Steps.                                                                  *)

\* Every step of the pipeline is a step of the feed or leaves the feed alone.
LEMMA PipelineNextIsAction ==
  ASSUME FeedInv, ReplayInStep, PipelineNext
  PROVE  FeedAction \/ UNCHANGED feedVars
<1>1. CASE ReplayStep
  <2>1. UNCHANGED clientVars
    BY <1>1 DEF ReplayStep
  <2>2. CASE ReadMessage \/ StopReading
    BY <2>1, <2>2 DEF ReadMessage, StopReading, feedVars
  <2>3. CASE FlushBatch
    <3>1. PICK lens \in [1 .. batch -> MsgLen] : SubmitBatch("Send", lens)
      BY <2>3 DEF FlushBatch
    <3>2. lens \in Batches
      BY <3>1 DEF Batches, ReplayInStep
    <3> QED
      BY <2>1, <3>1, <3>2 DEF FeedAction, ServerAction, HandleStep
  <2>4. CASE SendEnd \/ CloseHandle
    BY <2>1, <2>4 DEF SendEnd, CloseHandle, FeedAction, ServerAction, HandleStep
  <2> QED
    BY <1>1, <2>2, <2>3, <2>4 DEF ReplayStep
<1>2. CASE ReceiveStep \/ ReceiveTimeout
  BY <1>2 DEF ReceiveStep, ReceiveDatagram, ParsePacket, ReceiveTimeout, FeedAction,
              ClientAction
<1>3. CASE OtherThreads
  BY <1>3 DEF OtherThreads
<1>4. CASE Sender
  BY <1>4 DEF Sender, FeedAction, ServerAction
<1>5. CASE LibraryStep
  BY <1>5 DEF LibraryStep, FeedAction, ServerAction, ClientAction, DeliverRequest,
              FeedInv, ClientTypes
<1>6. CASE \/ \E p \in multicast : Deliver("multicast", p)
           \/ \E p \in answers : Deliver("rereq", p)
  BY <1>6 DEF Deliver, DeliverMulticast, DeliverAnswer, FeedAction, ClientAction
<1> QED
  BY <1>1, <1>2, <1>3, <1>4, <1>5, <1>6 DEF PipelineNext

\* Only replay's thread uses the handle.
LEMMA OthersLeaveReplay ==
  ASSUME PipelineNext \/ UNCHANGED pipelineVars, ~ReplayStep
  PROVE  UNCHANGED <<unread, batch, replay, handles, submitted>>
<1>1. UNCHANGED serverVars => UNCHANGED <<handles, submitted>>
  BY DEF serverVars, handleVars
<1>2. SenderStep \/ Tick => UNCHANGED <<handles, submitted>>
  BY DEF SenderStep, SendBatch, SendDropped, Heartbeat, EndOfSession, SwitchSession,
         StopSession, Disconnected, Take, Tick, handleVars
<1>3. ASSUME NEW req, DeliverRequest(req) PROVE UNCHANGED <<handles, submitted>>
  BY <1>3 DEF DeliverRequest, Serve, handleVars
<1>4. CASE ReceiveStep \/ ReceiveTimeout
  BY <1>1, <1>4 DEF ReceiveStep, ReceiveDatagram, ParsePacket, ReceiveTimeout, feedVars,
                    threadVars
<1>5. CASE OtherThreads
  BY <1>1, <1>5 DEF OtherThreads, feedVars, threadVars
<1>6. CASE Sender
  BY <1>2, <1>6 DEF Sender, appVars, threadVars
<1>7. CASE LibraryStep /\ UNCHANGED appVars
  BY <1>1, <1>2, <1>3, <1>7 DEF LibraryStep, appVars, threadVars
<1>8. CASE /\ \/ \E p \in multicast : Deliver("multicast", p)
              \/ \E p \in answers : Deliver("rereq", p)
           /\ UNCHANGED <<threadVars, loopVars, mainVars>>
  BY <1>1, <1>8 DEF Deliver, DeliverMulticast, DeliverAnswer, threadVars
<1>9. CASE UNCHANGED pipelineVars
  BY <1>1, <1>9 DEF pipelineVars, feedVars, appVars, threadVars
<1> QED
  BY <1>4, <1>5, <1>6, <1>7, <1>8, <1>9 DEF PipelineNext

\* Where the replay thread is agrees with what it has done to the handle.
LEMMA ReplayInStepNext ==
  ASSUME FeedInv, ReplayInStep, PipelineNext \/ UNCHANGED pipelineVars
  PROVE  ReplayInStep'
<1>1. submitted \in Nat /\ unread \in Nat /\ batch \in Nat /\ batch =< MaxBatch
      /\ unread + batch + submitted = MaxMsgs
  BY BoundsAssumption DEF FeedInv, ServerInv, ServerTypes, ReplayInStep
<1>2. CASE ReplayStep
  <2>1. CASE ReadMessage
    <3>1. UNCHANGED <<handles, submitted, replay>>
      BY <2>1 DEF ReadMessage, serverVars, handleVars
    <3>2. /\ unread' \in Nat /\ batch' \in 0 .. MaxBatch
          /\ unread' + batch' + submitted = MaxMsgs
      BY <1>1, <2>1, BoundsAssumption DEF ReadMessage
    <3> QED
      BY <3>1, <3>2 DEF ReplayInStep
  <2>2. CASE FlushBatch
    <3>1. PICK lens \in [1 .. batch -> MsgLen] : SubmitBatch("Send", lens)
      BY <2>2 DEF FlushBatch
    <3>2. Len(lens) = batch
      BY <1>1, <3>1
    <3>3. submitted' = submitted + batch /\ UNCHANGED <<handles, unread, replay>>
      BY <2>2, <3>1, <3>2 DEF SubmitBatch, Submit, FlushBatch
    <3>4. batch' = 0
      BY <2>2 DEF FlushBatch
    <3> QED
      BY <1>1, <3>3, <3>4, BoundsAssumption DEF ReplayInStep
  <2>3. CASE StopReading
    BY <2>3 DEF StopReading, ReplayInStep, serverVars, handleVars
  <2>4. CASE SendEnd
    BY <2>4 DEF SendEnd, SubmitSpecial, Submit, ReplayInStep
  <2>5. CASE CloseHandle
    BY <2>5 DEF CloseHandle, DropHandles, ReplayInStep
  <2> QED
    BY <1>2, <2>1, <2>2, <2>3, <2>4, <2>5 DEF ReplayStep
<1>3. CASE ~ReplayStep
  BY <1>3, OthersLeaveReplay DEF ReplayInStep
<1> QED
  BY <1>2, <1>3

\* A packet that is parsed has its messages in the log.
LEMMA ParsedIsLogged ==
  ASSUME ServerInv, NEW p \in multicast \cup answers, packet_kind(p) = "Standard"
  PROVE  /\ Data(p) /\ p.seq_num \in Nat /\ p.msg_count \in Nat
         /\ Carries(p) = Numbers(p.seq_num, p.msg_count)
         /\ Numbers(p.seq_num, p.msg_count) \subseteq DOMAIN log
<1>1. WellFormed(p) /\ (Special(p) \/ Data(p))
  BY DEF ServerInv, PacketsReached, LivePacket, AnswerPacket
<1>2. Data(p)
  BY <1>1 DEF Special, packet_kind
<1>3. p.seq_num \in Nat /\ p.msg_count \in Nat
  BY PacketFields
<1>4. next_seq \in Nat /\ DOMAIN log = FirstSeq .. next_seq - 1
  BY DEF ServerInv, ServerTypes, StreamIntact
<1>5. FirstSeq =< p.seq_num /\ p.seq_num + p.msg_count =< next_seq
  BY <1>2 DEF Data
<1>6. Numbers(p.seq_num, p.msg_count) \subseteq DOMAIN log
  BY <1>3, <1>4, <1>5, FirstSeqAssumption DEF Numbers
<1> QED
  BY <1>2, <1>3, <1>6 DEF Carries

\* What ParsePacket gives to the handler.
PacketNumbers(p) == [i \in 1 .. p.msg_count |-> p.seq_num + i - 1]

\* A packet's messages are applied from the first on, all of them unless the flag is up.
LEMMA ParseApplies ==
  ASSUME FeedInv, LoopInStep, ParsePacket
  PROVE  \E n \in 0 .. packet.msg_count :
            /\ n < packet.msg_count => shutdown
            /\ applied' = applied \o SubSeq(PacketNumbers(packet), 1, n)
            /\ PacketNumbers(packet) \in Seq(DOMAIN log)
            /\ Len(PacketNumbers(packet)) = packet.msg_count
            /\ packet.msg_count \in Nat
<1>1. packet \in multicast \cup answers /\ packet_kind(packet) = "Standard"
  BY DEF LoopInStep, ParsePacket
<1>2. /\ packet.seq_num \in Nat /\ packet.msg_count \in Nat
      /\ Numbers(packet.seq_num, packet.msg_count) \subseteq DOMAIN log
  BY <1>1, ParsedIsLogged DEF FeedInv
<1>3. \A i \in 1 .. packet.msg_count : packet.seq_num + i - 1 \in DOMAIN log
  <2>1. \A i \in 1 .. packet.msg_count :
           packet.seq_num + i - 1 \in Numbers(packet.seq_num, packet.msg_count)
    BY <1>2 DEF Numbers
  <2> QED
    BY <1>2, <2>1
<1>4. PacketNumbers(packet) \in [1 .. packet.msg_count -> DOMAIN log]
  BY <1>3 DEF PacketNumbers
<1>5. /\ PacketNumbers(packet) \in Seq(DOMAIN log)
      /\ Len(PacketNumbers(packet)) = packet.msg_count
  BY <1>2, <1>4
<1>6. PICK n \in 0 .. packet.msg_count :
         /\ n < packet.msg_count => shutdown
         /\ applied' = applied \o SubSeq(PacketNumbers(packet), 1, n)
  BY DEF ParsePacket, PacketNumbers
<1> QED
  BY <1>2, <1>5, <1>6

\* The receive loop has a packet exactly while it parses, and a reason once it ended.
LEMMA LoopInStepNext ==
  ASSUME FeedInv, ReplayInStep, LoopInStep, PipelineNext \/ UNCHANGED pipelineVars
  PROVE  LoopInStep'
<1>1. FeedAction \/ UNCHANGED feedVars
  BY PipelineNextIsAction DEF pipelineVars
<1>2. ServerAction \/ UNCHANGED serverVars
  BY <1>1 DEF FeedAction, feedVars
<1>3. /\ DOMAIN log \subseteq DOMAIN log'
      /\ multicast \cup answers \subseteq (multicast \cup answers)'
  BY <1>2, ServerAdvances, PacketsStay DEF FeedInv
<1>4. applied \in Seq((DOMAIN log)')
  BY <1>3, SeqOfLarger DEF LoopInStep
<1>5. CASE UNCHANGED loopVars
  BY <1>3, <1>4, <1>5 DEF LoopInStep, loopVars
<1>6. CASE ReceiveDatagram
  <2> DEFINE p == Head(data)
  <2>1. p \in multicast \cup answers
    BY <1>6 DEF ReceiveDatagram, Consume, FeedInv, ClientTypes
  <2>2. UNCHANGED applied /\ loop = "waiting"
    BY <1>6 DEF ReceiveDatagram
  <2>3. \/ loop' = "done" /\ ending' \in Ending /\ UNCHANGED packet
        \/ UNCHANGED <<loop, ending, packet>>
        \/ /\ loop' = "parsing" /\ packet' = p /\ packet_kind(p) = "Standard"
           /\ UNCHANGED ending
    BY <1>6 DEF ReceiveDatagram, EndLoop, Ending
  <2> HIDE DEF p
  <2> QED
    BY <1>3, <1>4, <2>1, <2>2, <2>3, PipelineAssumption DEF LoopInStep
<1>7. CASE ParsePacket
  <2>1. PICK n \in 0 .. packet.msg_count :
           /\ applied' = applied \o SubSeq(PacketNumbers(packet), 1, n)
           /\ PacketNumbers(packet) \in Seq(DOMAIN log)
           /\ Len(PacketNumbers(packet)) = packet.msg_count
           /\ packet.msg_count \in Nat
    BY <1>7, ParseApplies
  <2>2. SubSeq(PacketNumbers(packet), 1, n) \in Seq(DOMAIN log)
    BY <2>1
  <2>3. applied' \in Seq(DOMAIN log)
    BY <2>1, <2>2 DEF LoopInStep
  <2>4. applied' \in Seq((DOMAIN log)')
    BY <1>3, <2>3, SeqOfLarger
  <2> QED
    BY <1>7, <2>4 DEF ParsePacket, LoopInStep
<1>8. CASE ReceiveTimeout
  BY <1>3, <1>4, <1>8, PipelineAssumption DEF ReceiveTimeout, EndLoop, Ending, LoopInStep
<1> QED
  BY <1>5, <1>6, <1>7, <1>8
     DEF PipelineNext, ReplayStep, ReceiveStep, OtherThreads, Sender, pipelineVars, appVars

\* The main thread joins the receive loop before it goes on, and nothing is
\* applied afterwards.
LEMMA MainInStepNext ==
  ASSUME LoopInStep, MainInStep, PipelineNext \/ UNCHANGED pipelineVars
  PROVE  MainInStep'
<1>1. CASE OtherThreads
  <2>1. UNCHANGED <<loop, applied>>
    BY <1>1 DEF OtherThreads, loopVars
  <2>2. CASE TuiQuit \/ TuiEnds \/ RaiseShutdown
    BY <2>1, <2>2 DEF TuiQuit, TuiEnds, RaiseShutdown, MainInStep
  <2>3. CASE JoinServer \/ JoinClient \/ JoinTui
    BY <2>1, <2>3 DEF JoinServer, JoinClient, JoinTui, MainInStep
  <2>4. CASE WriteReport
    BY <2>1, <2>4 DEF WriteReport, MainInStep
  <2> QED
    BY <1>1, <2>2, <2>3, <2>4 DEF OtherThreads, MainStep
<1>2. CASE UNCHANGED mainVars /\ (loop = "done" => UNCHANGED <<loop, applied>>)
  BY <1>2 DEF MainInStep, mainVars
<1>3. ReceiveStep \/ ReceiveTimeout => UNCHANGED mainVars /\ loop # "done"
  BY DEF ReceiveStep, ReceiveDatagram, ParsePacket, ReceiveTimeout
<1> QED
  BY <1>1, <1>2, <1>3
     DEF PipelineNext, ReplayStep, Sender, pipelineVars, appVars, loopVars

\* The threads start in step.
LEMMA PipelineInitInv == PipelineInit => PipelineInv
<1> SUFFICES ASSUME PipelineInit PROVE PipelineInv
  OBVIOUS
<1>1. FeedInv
  BY FeedInitInv DEF PipelineInit
<1>2. ReplayInStep
  BY BoundsAssumption DEF PipelineInit, FeedInit, ServerInit, ReplayInStep
<1>3. LoopInStep
  BY DEF PipelineInit, LoopInStep
<1>4. MainInStep
  BY DEF PipelineInit, MainInStep
<1> QED
  BY <1>1, <1>2, <1>3, <1>4 DEF PipelineInv

\* Every step keeps the threads in step.
LEMMA PipelineNextInv ==
  ASSUME PipelineInv, PipelineNext \/ UNCHANGED pipelineVars
  PROVE  PipelineInv'
<1>1. FeedAction \/ UNCHANGED feedVars
  BY PipelineNextIsAction DEF pipelineVars, PipelineInv
<1>2. FeedInv'
  BY <1>1, FeedActionInv DEF PipelineInv
<1> QED
  BY <1>2, ReplayInStepNext, LoopInStepNext, MainInStepNext DEF PipelineInv

\* PipelineInv holds in every reachable state of the program.
THEOREM PipelineInvariance == PipelineSpec => []PipelineInv
<1>1. PipelineInv /\ [PipelineNext]_pipelineVars => PipelineInv'
  BY PipelineNextInv
<1> QED
  BY <1>1, PipelineInitInv, PTL DEF PipelineSpec

\* pipeline.rs: the report has everything that was ever given to the handler,
\* whenever the flag is raised and whatever the network does: the receive loop
\* is joined before the handler is taken apart.
THEOREM ReportFinalHolds == PipelineSpec => []ReportFinal
<1>1. PipelineInv => ReportFinal
  BY DEF PipelineInv, MainInStep, ReportFinal
<1> QED
  BY <1>1, PipelineInvariance, PTL

\* pipeline.rs, replay.rs and handler.rs: the threads' states are in step, every
\* message of the file is in one place, the receive loop parses only packets
\* with messages, and what it gives to the handler is in the server's log.
THEOREM PipelineTypeCorrect ==
  ASSUME MaxBatch =< U16Max
  PROVE  PipelineSpec => []PipelineTypeOK
<1>1. PipelineInv => PipelineTypeOK
  <2> SUFFICES ASSUME PipelineInv PROVE PipelineTypeOK
    OBVIOUS
  <2>1. multicast \cup answers \subseteq Packet
    BY ServerInvTypes DEF PipelineInv, FeedInv, ServerTypeOK
  <2>2. loop = "parsing" <=> packet # None
    BY <2>1, PipelineAssumption DEF PipelineInv, LoopInStep
  <2>3. \A i \in DOMAIN applied : applied[i] \in DOMAIN log
    BY DEF PipelineInv, LoopInStep
  <2> QED
    BY <2>2, <2>3 DEF PipelineInv, ReplayInStep, LoopInStep, MainInStep, PipelineTypeOK
<1> QED
  BY <1>1, PipelineInvariance, PTL

-----------------------------------------------------------------------------
(* The argument for EndAccounted.                                          *)

\* The end of the session is queued, or was sent.
Closing == replay \in {"closing", "done"}

\* There is one session, and its end is the last that is queued and sent.
EndIsLast ==
    /\ ~stopped /\ session = FirstSession
    /\ \A i \in 1 .. Len(cmds) :
          /\ cmds[i].op \in {"Send", "EndOfSession"}
          /\ cmds[i].op = "EndOfSession" => i = Len(cmds) /\ Closing
    /\ \A p \in multicast :
          /\ p.session = FirstSession
          /\ p.msg_count = U16Max => Closing /\ cmds = <<>> /\ p.seq_num = next_seq

\* What the receive loop has not reached yet: the packet in hand, and those in
\* the first i - 1 places of the channel.
InHand == IF loop = "parsing" THEN Carries(packet) ELSE {}
QueuedBefore(d, i) == UNION {Carries(d[j]) : j \in 1 .. i - 1}
Applied == {applied[i] : i \in 1 .. Len(applied)}
Accounted == Applied \cup asked \cup refused \cup overrun

\* The client: it is never ahead of the server's stream before the end, where it
\* was not told to start there, and has seen nothing until it follows a session.
FollowsStream ==
    /\ exp_seq # None => exp_seq >= FirstSeq
    /\ exp_session # None /\ exp_seq # None => low # None
    /\ exp_seq # None /\ low # None =>
          exp_seq =< next_seq \/ exp_seq =< low \/ (Closing /\ cmds = <<>>)
    /\ \/ exp_session = FirstSession /\ exp_seq # None
       \/ /\ live = {}
          /\ \A i \in 1 .. Len(data) : packet_kind(data[i]) # "EndOfSession"
    /\ NoSilentGap

\* What the client has seen is on its way to the handler, and what comes before
\* an end of the session in the channel accounts for everything before it.
OnTheWay ==
    ~shutdown /\ loop # "done" =>
       /\ live \subseteq Applied \cup overrun \cup InHand
                         \cup QueuedBefore(data, Len(data) + 1)
       /\ \A i \in 1 .. Len(data) : \A n \in Nat :
             /\ packet_kind(data[i]) = "EndOfSession"
             /\ FirstSeq =< n /\ low =< n /\ n < data[i].seq_num
             => n \in Accounted \cup InHand \cup QueuedBefore(data, i)

EndReached ==
    ending = "end_of_session" /\ ~shutdown =>
       /\ low # None
       /\ last_seq \in Nat /\ last_seq =< next_seq
       /\ \A n \in Nat :
             FirstSeq =< n /\ low =< n /\ n < last_seq => n \in Accounted

EndInv == EndIsLast /\ FollowsStream /\ OnTheWay /\ EndReached

\* The steps, by what they leave alone.
ServerStep ==
    /\ SenderStep \/ Tick \/ \E req \in PacketHeader : Serve(req)
    /\ UNCHANGED <<clientVars, appVars>>

RequestStep ==
    /\ \E s \in Server : TakeRequest(s) \/ SendRequest(s)
    /\ UNCHANGED <<serverVars, appVars>>

DeliverStep ==
    /\ loop # "done"
    /\ (\E p \in multicast : ReceiveMulticast(p)) \/ (\E p \in answers : ReceiveAnswer(p))
    /\ UNCHANGED <<serverVars, threadVars, loopVars, mainVars>>

ThreadStep ==
    /\ shutdown => shutdown'
    /\ UNCHANGED <<feedVars, threadVars, loopVars>>

\* The steps, grouped by the variables they may change.
LEMMA PipelineCases ==
  ASSUME PipelineInv, PipelineNext \/ UNCHANGED pipelineVars
  PROVE  \/ ReplayStep \/ ServerStep \/ RequestStep \/ DeliverStep
         \/ ReceiveDatagram \/ ParsePacket \/ ReceiveTimeout \/ ThreadStep
<1>1. OtherThreads => ThreadStep
  BY DEF OtherThreads, TuiQuit, TuiEnds, RaiseShutdown, MainStep, JoinServer, JoinClient,
         JoinTui, WriteReport, ThreadStep
<1>2. Sender => ServerStep
  BY DEF Sender, ServerStep
<1>3. LibraryStep /\ UNCHANGED appVars => ServerStep \/ RequestStep
  BY DEF LibraryStep, ServerStep, RequestStep, DeliverRequest, PipelineInv, FeedInv,
         ClientTypes
<1>4. ASSUME \/ \E p \in multicast : Deliver("multicast", p)
             \/ \E p \in answers : Deliver("rereq", p),
             UNCHANGED <<threadVars, loopVars, mainVars>>
      PROVE  DeliverStep
  BY <1>4 DEF Deliver, DeliverMulticast, DeliverAnswer, DeliverStep
<1>5. UNCHANGED pipelineVars => ThreadStep
  BY DEF pipelineVars, appVars, mainVars, ThreadStep
<1> QED
  BY <1>1, <1>2, <1>3, <1>4, <1>5 DEF PipelineNext, ReceiveStep

\* What is queued stays queued in this order.
LEMMA ReplayQueues ==
  ASSUME ReplayStep
  PROVE  /\ UNCHANGED <<running, session, next_seq, stopped, log, multicast, answers>>
         /\ UNCHANGED <<clientVars, loopVars, mainVars>>
         /\ \/ UNCHANGED cmds /\ (Closing => Closing')
            \/ /\ ~Closing /\ ~Closing'
               /\ \E cmd : cmd.op = "Send" /\ cmds' = Append(cmds, cmd)
            \/ /\ ~Closing /\ Closing'
               /\ \E cmd : cmd.op = "EndOfSession" /\ cmds' = Append(cmds, cmd)
<1>1. UNCHANGED <<clientVars, loopVars, mainVars>>
  BY DEF ReplayStep
<1>2. CASE ReadMessage \/ StopReading
  BY <1>1, <1>2 DEF ReadMessage, StopReading, serverVars, senderVars, Closing
<1>3. CASE FlushBatch
  <2>1. PICK lens \in [1 .. batch -> MsgLen] : SubmitBatch("Send", lens)
    BY <1>3 DEF FlushBatch
  <2> DEFINE cmd == [op |-> "Send",
                     msgs |-> [i \in DOMAIN lens |->
                                 [no |-> submitted + i, len |-> lens[i]]]]
  <2>2. cmd.op = "Send" /\ cmds' = Append(cmds, cmd)
    BY <2>1 DEF SubmitBatch, Submit
  <2>3. UNCHANGED <<running, session, next_seq, stopped, log, multicast, answers>>
    BY <2>1 DEF SubmitBatch, Submit, senderVars
  <2>4. ~Closing /\ ~Closing'
    BY <1>3 DEF FlushBatch, Closing
  <2> QED
    BY <1>1, <2>2, <2>3, <2>4
<1>4. CASE SendEnd
  <2> DEFINE cmd == [op |-> "EndOfSession"]
  <2>1. cmd.op = "EndOfSession" /\ cmds' = Append(cmds, cmd)
    BY <1>4 DEF SendEnd, SubmitSpecial, Submit
  <2>2. UNCHANGED <<running, session, next_seq, stopped, log, multicast, answers>>
    BY <1>4 DEF SendEnd, SubmitSpecial, Submit, senderVars
  <2>3. ~Closing /\ Closing'
    BY <1>4 DEF SendEnd, Closing
  <2> QED
    BY <1>1, <2>1, <2>2, <2>3
<1>5. CASE CloseHandle
  BY <1>1, <1>5 DEF CloseHandle, DropHandles, senderVars, Closing
<1> QED
  BY <1>2, <1>3, <1>4, <1>5 DEF ReplayStep

\* What the server's threads do to queue and packets.
LEMMA ServerStepEnd ==
  ASSUME MaxMsgs < U16Max, PipelineInv, EndIsLast, ServerStep
  PROVE  /\ ~stopped' /\ session' = FirstSession
         /\ UNCHANGED cmds \/ (cmds # <<>> /\ cmds' = Tail(cmds))
         /\ cmds = <<>> => next_seq' = next_seq
         /\ \A p \in multicast' \ multicast :
               /\ p.session = FirstSession
               /\ p.msg_count = U16Max =>
                     /\ cmds # <<>> /\ Head(cmds).op = "EndOfSession"
                     /\ p.seq_num = next_seq /\ next_seq' = next_seq
         /\ cmds # <<>> /\ Head(cmds).op = "EndOfSession" => next_seq' = next_seq
<1>1. ~stopped /\ session = FirstSession
  BY DEF EndIsLast
<1>2. cmds \in Seq(Command)
  BY DEF PipelineInv, FeedInv, ServerInv, ServerTypes
<1>3. cmds # <<>> => Head(cmds).op \in {"Send", "EndOfSession"}
  BY <1>2 DEF EndIsLast
<1>4. CASE SendBatch
  <2> DEFINE msgs == Head(cmds).msgs
             chunks == chunk_messages(msgs)
  <2>1. /\ cmds # <<>> /\ Head(cmds).op = "Send" /\ cmds' = Tail(cmds)
        /\ UNCHANGED <<session, stopped>>
    BY <1>4 DEF SendBatch, Take
  <2>2. Head(cmds) = cmds[1] /\ 1 \in 1 .. Len(cmds) /\ Head(cmds) \in Command
    BY <1>2, <2>1
  <2>3. IsBatch(Head(cmds)) /\ IsBatch(cmds[1])
    BY <2>1, <2>2 DEF IsBatch
  <2>4. msgs \in Seq(Message) /\ Len(msgs) =< MaxMsgs
    BY <2>2, <2>3, CommandFields DEF PipelineInv, FeedInv, ServerInv, BatchSizes
  <2>5. ASSUME NEW p \in multicast' \ multicast
        PROVE  p.session = FirstSession /\ p.msg_count # U16Max
    <3>1. PICK i \in DOMAIN chunks : p = build_packet(session, next_seq, chunks[i])
      BY <1>4 DEF SendBatch
    <3>2. Len(chunks[i]) \in 1 .. Len(msgs)
      BY <2>4, ChunkLength
    <3>3. p.session = session /\ p.msg_count = Len(chunks[i])
      BY <3>1 DEF build_packet
    <3> HIDE DEF chunks, msgs
    <3>4. Len(msgs) \in Nat
      BY <2>4
    <3> QED
      BY <1>1, <2>4, <3>2, <3>3, <3>4, BoundsAssumption, U16MaxAssumption
  <2> QED
    BY <1>1, <2>1, <2>5
<1>5. CASE EndOfSession
  <2>1. /\ cmds # <<>> /\ Head(cmds).op = "EndOfSession" /\ cmds' = Tail(cmds)
        /\ UNCHANGED <<session, stopped, next_seq>>
        /\ multicast' = multicast \cup
              {build_special(session, next_seq, END_OF_SESSION_IDENT)}
    BY <1>5 DEF EndOfSession, Take
  <2> QED
    BY <1>1, <2>1 DEF build_special
<1>6. CASE Tick
  <2>1. /\ UNCHANGED <<cmds, session, stopped, next_seq>>
        /\ multicast' = multicast \cup {PeriodicPacket}
    BY <1>6 DEF Tick, senderVars
  <2>2. PeriodicPacket.msg_count # U16Max /\ PeriodicPacket.session = session
    BY <1>1, U16MaxAssumption DEF PeriodicPacket, build_special, HEARTBEAT_IDENT
  <2> QED
    BY <1>1, <2>1, <2>2
<1>7. CASE UNCHANGED <<cmds, session, stopped, next_seq, multicast>>
  BY <1>1, <1>7
<1>8. Disconnected => UNCHANGED <<cmds, session, stopped, next_seq, multicast>>
  BY DEF Disconnected
<1>9. ASSUME NEW req, Serve(req)
      PROVE  UNCHANGED <<cmds, session, stopped, next_seq, multicast>>
  BY <1>9 DEF Serve, senderVars
<1>10. ~(SendDropped \/ Heartbeat \/ SwitchSession \/ StopSession)
  BY <1>3 DEF SendDropped, Heartbeat, SwitchSession, StopSession, Take
<1> QED
  BY <1>4, <1>5, <1>6, <1>7, <1>8, <1>9, <1>10 DEF ServerStep, SenderStep

\* The end of the session is announced after the last message.
LEMMA EndIsLastNext ==
  ASSUME MaxMsgs < U16Max, PipelineInv, EndIsLast, PipelineNext \/ UNCHANGED pipelineVars
  PROVE  EndIsLast'
<1>1. cmds \in Seq(Command)
  BY DEF PipelineInv, FeedInv, ServerInv, ServerTypes
<1>2. CASE ReplayStep
  <2>1. UNCHANGED <<session, next_seq, stopped, multicast>>
    BY <1>2, ReplayQueues
  <2>2. CASE UNCHANGED cmds /\ (Closing => Closing')
    BY <2>1, <2>2 DEF EndIsLast
  <2>3. ASSUME NEW cmd, ~Closing, cmd.op \in {"Send", "EndOfSession"},
               cmd.op = "EndOfSession" => Closing', cmds' = Append(cmds, cmd)
        PROVE  EndIsLast'
    <3>1. /\ Len(cmds') = Len(cmds) + 1 /\ Len(cmds) \in Nat
          /\ cmds'[Len(cmds) + 1] = cmd
          /\ \A i \in 1 .. Len(cmds) : cmds'[i] = cmds[i]
      BY <1>1, <2>3
    <3>2. \A i \in 1 .. Len(cmds') :
             /\ cmds'[i].op \in {"Send", "EndOfSession"}
             /\ cmds'[i].op = "EndOfSession" => i = Len(cmds') /\ Closing'
      BY <2>3, <3>1 DEF EndIsLast
    <3> QED
      BY <2>1, <2>3, <3>2 DEF EndIsLast
  <2> QED
    BY <1>2, <2>2, <2>3, ReplayQueues
<1>3. CASE ServerStep
  <2>1. Closing' = Closing
    BY <1>3 DEF ServerStep, appVars, threadVars, Closing
  <2>2. /\ ~stopped' /\ session' = FirstSession
        /\ UNCHANGED cmds \/ (cmds # <<>> /\ cmds' = Tail(cmds))
        /\ cmds = <<>> => next_seq' = next_seq
    BY <1>3, ServerStepEnd
  <2>3. \A i \in 1 .. Len(cmds') :
           /\ cmds'[i].op \in {"Send", "EndOfSession"}
           /\ cmds'[i].op = "EndOfSession" => i = Len(cmds') /\ Closing
    <3>1. CASE UNCHANGED cmds
      BY <3>1 DEF EndIsLast
    <3>2. CASE cmds # <<>> /\ cmds' = Tail(cmds)
      <4>1. /\ Len(cmds') = Len(cmds) - 1 /\ Len(cmds) \in Nat
            /\ \A i \in 1 .. Len(cmds) - 1 : cmds'[i] = cmds[i + 1]
        BY <1>1, <3>2
      <4> QED
        BY <4>1 DEF EndIsLast
    <3> QED
      BY <2>2, <3>1, <3>2
  <2>4. ASSUME NEW p \in multicast'
        PROVE  /\ p.session = FirstSession
               /\ p.msg_count = U16Max => Closing /\ cmds' = <<>> /\ p.seq_num = next_seq'
    <3>1. CASE p \in multicast
      BY <1>1, <2>2, <3>1 DEF EndIsLast
    <3>2. CASE p \notin multicast
      <4>1. /\ p.session = FirstSession
            /\ p.msg_count = U16Max =>
                  /\ cmds # <<>> /\ Head(cmds).op = "EndOfSession"
                  /\ p.seq_num = next_seq /\ next_seq' = next_seq
        BY <1>3, <3>2, ServerStepEnd
      <4>2. ASSUME p.msg_count = U16Max PROVE Closing /\ cmds' = <<>>
        <5>1. Head(cmds) = cmds[1] /\ 1 \in 1 .. Len(cmds) /\ Len(cmds) \in Nat
          BY <1>1, <4>1, <4>2
        <5>2. Len(cmds) = 1 /\ Closing
          BY <4>1, <4>2, <5>1 DEF EndIsLast
        <5>3. cmds' = Tail(cmds)
          <6>1. EndOfSession
            BY <1>3, <3>2, <4>1, <4>2 DEF ServerStep, SenderStep, SendBatch, SendDropped,
               Heartbeat, SwitchSession, StopSession, Disconnected, Tick, Serve, Take
          <6> QED
            BY <6>1 DEF EndOfSession, Take
        <5> QED
          BY <1>1, <5>2, <5>3
      <4> QED
        BY <4>1, <4>2
    <3> QED
      BY <3>1, <3>2
  <2> QED
    BY <2>1, <2>2, <2>3, <2>4 DEF EndIsLast
<1>4. CASE UNCHANGED <<serverVars, replay>>
  BY <1>4 DEF EndIsLast, serverVars, senderVars, Closing
<1>5. RequestStep \/ DeliverStep \/ ReceiveDatagram \/ ParsePacket \/ ReceiveTimeout
         \/ ThreadStep => UNCHANGED <<serverVars, replay>>
  BY DEF RequestStep, DeliverStep, ReceiveDatagram, ParsePacket, ReceiveTimeout, ThreadStep,
         feedVars, appVars, threadVars
<1> QED
  BY <1>2, <1>3, <1>4, <1>5, PipelineCases

\* The end of the session is not something that the server answers with.
LEMMA AnswerIsNoEnd ==
  ASSUME MaxMsgs < U16Max, ServerInv, NEW p \in answers
  PROVE  packet_kind(p) # "EndOfSession"
<1>1. p.seq_num \in Nat /\ Data(p)
  BY DEF ServerInv, PacketsReached, AnswerPacket, WellFormed
<1>2. p.msg_count \in Nat /\ FirstSeq =< p.seq_num /\ p.seq_num + p.msg_count =< next_seq
  BY <1>1 DEF Data
<1>3. next_seq - FirstSeq \in 0 .. MaxMsgs /\ next_seq \in Nat
  BY LogBounded DEF ServerInv, ServerTypes
<1>4. p.msg_count # U16Max
  BY <1>1, <1>2, <1>3, FirstSeqAssumption, BoundsAssumption, U16MaxAssumption
<1> QED
  BY <1>4 DEF packet_kind, END_OF_SESSION_IDENT

\* An end-of-session packet carries no message.
LEMMA EndKind ==
  ASSUME NEW p
  PROVE  packet_kind(p) = "EndOfSession" => p.msg_count = U16Max /\ Carries(p) = {}
BY DEF packet_kind, END_OF_SESSION_IDENT, HEARTBEAT_IDENT, Carries

\* What forward does to the channel.
LEMMA ForwardData ==
  ASSUME ClientTypes, NEW p, forward(p)
  PROVE  /\ Len(data) \in Nat
         /\ \/ data' = data /\ overrun' = overrun \cup Carries(p)
            \/ /\ Len(data') = Len(data) + 1 /\ overrun' = overrun
               /\ data'[Len(data) + 1] = p
               /\ \A i \in 1 .. Len(data) : data'[i] = data[i]
<1>1. data \in Seq(multicast \cup answers)
  BY DEF ClientTypes
<1>2. CASE Len(data) < PoolSize
  <2>1. data' = Append(data, p) /\ overrun' = overrun
    BY <1>2 DEF forward
  <2> QED
    BY <1>1, <2>1
<1>3. CASE ~(Len(data) < PoolSize)
  BY <1>1, <1>3 DEF forward
<1> QED
  BY <1>2, <1>3

\* recv takes the first packet of the data channel.
LEMMA ConsumeData ==
  ASSUME ClientTypes, Consume
  PROVE  /\ Len(data) \in Nat /\ Len(data) >= 1 /\ Len(data') = Len(data) - 1
         /\ Head(data) = data[1]
         /\ \A i \in 1 .. Len(data) - 1 : data'[i] = data[i + 1]
<1>1. data \in Seq(multicast \cup answers) /\ data # <<>> /\ data' = Tail(data)
  BY DEF ClientTypes, Consume
<1> QED
  BY <1>1

\* What the client expects stays within what the server has numbered.
LEMMA FollowsStreamNext ==
  ASSUME MaxMsgs < U16Max, PipelineInv, EndIsLast, FollowsStream,
         PipelineNext \/ UNCHANGED pipelineVars
  PROVE  FollowsStream'
<1> DEFINE Quiet == Closing /\ cmds = <<>>
<1>1. /\ exp_seq \in Nat \cup {None} /\ low \in Nat \cup {None} /\ next_seq \in Nat
      /\ FeedInv
  BY DEF PipelineInv, FeedInv, ClientTypes, ServerInv, ServerTypes
<1>2. CASE ReplayStep \/ ServerStep
  <2>1. UNCHANGED clientVars
    BY <1>2 DEF ReplayStep, ServerStep
  <2>2. UNCHANGED <<exp_session, exp_seq, low, live, data>>
    BY <2>1 DEF clientVars, gapVars, dataVars
  <2>3. ServerAction \/ UNCHANGED serverVars
    BY PipelineNextIsAction DEF pipelineVars, PipelineInv, FeedAction, feedVars
  <2>4. next_seq =< next_seq' /\ next_seq' \in Nat
    BY <1>1, <2>3, ServerAdvances, ServerActionInv DEF FeedInv, ServerInv, ServerTypes
  <2>5. Quiet => Quiet' /\ next_seq' = next_seq
    <3>1. CASE ReplayStep
      BY <3>1, ReplayQueues
    <3>2. CASE ServerStep
      <4>1. Closing' = Closing
        BY <3>2 DEF ServerStep, appVars, threadVars, Closing
      <4> QED
        BY <3>2, <4>1, ServerStepEnd
    <3> QED
      BY <1>2, <3>1, <3>2
  <2> HIDE DEF Quiet
  <2>6. exp_seq # None /\ low # None => exp_seq =< next_seq \/ exp_seq =< low \/ Quiet
    BY DEF FollowsStream, Quiet
  <2>7. exp_seq # None /\ low # None => exp_seq =< next_seq' \/ exp_seq =< low \/ Quiet'
    BY <1>1, <2>4, <2>5, <2>6
  <2>8. NoSilentGap'
    BY <1>1, <2>1, <2>3, <2>5, <2>6, LoggedAhead DEF FollowsStream
  <2> QED
    BY <2>2, <2>7, <2>8 DEF FollowsStream, Quiet
<1>3. CASE DeliverStep
  <2>1. UNCHANGED <<cmds, next_seq, log, replay>> /\ UNCHANGED serverVars
    BY <1>3 DEF DeliverStep, serverVars, senderVars, threadVars
  <2>2. CASE \E p \in multicast : ReceiveMulticast(p)
    <3>1. PICK p \in multicast : ReceiveMulticast(p)
      BY <2>2
    <3>2. /\ p.session = FirstSession
          /\ p.msg_count = U16Max => Quiet /\ p.seq_num = next_seq
      BY DEF EndIsLast
    <3>3. /\ NoSilentGap'
          /\ exp_seq' \in Nat /\ exp_seq' >= FirstSeq
          /\ exp_seq' =< next_seq \/ p.msg_count = U16Max
      BY <1>1, <2>1, <3>1, <3>2, ReceiveMulticastNoGap DEF FollowsStream
    <3>4. exp_session' = FirstSession
      BY <3>1, <3>2 DEF ReceiveMulticast, Advance
    <3>5. low' # None
      <4>1. CASE Follows(p)
        <5>1. exp_session # None /\ exp_seq # None
          BY <3>2, <4>1, OptionAssumption, FirstSessionAssumption DEF Follows
        <5> QED
          BY <3>1, <4>1, <5>1 DEF ReceiveMulticast, FollowsStream
      <4>2. CASE ~Follows(p)
        <5>1. low' = p.seq_num /\ p.seq_num \in Nat
          BY <1>1, <3>1, <4>2, PacketFields DEF ReceiveMulticast, FeedInv
        <5> QED
          BY <5>1, OptionAssumption
      <4> QED
        BY <4>1, <4>2
    <3>6. exp_seq' # None
      BY <3>3, OptionAssumption
    <3> QED
      BY <2>1, <3>2, <3>3, <3>4, <3>5, <3>6 DEF FollowsStream, Closing
  <2>3. CASE \E p \in answers : ReceiveAnswer(p)
    <3>1. PICK p \in answers : ReceiveAnswer(p)
      BY <2>3
    <3>2. UNCHANGED <<exp_session, exp_seq, low, live, asked, refused>> /\ forward(p)
      BY <3>1 DEF ReceiveAnswer, gapVars, requestVars, askVars
    <3>3. packet_kind(p) # "EndOfSession"
      BY <1>1, AnswerIsNoEnd DEF FeedInv
    <3>4. \/ data' = data
          \/ /\ Len(data) \in Nat /\ Len(data') = Len(data) + 1
             /\ data'[Len(data) + 1] = p
             /\ \A i \in 1 .. Len(data) : data'[i] = data[i]
      BY <1>1, <3>2, ForwardData DEF FeedInv
    <3>5. (\A i \in 1 .. Len(data) : packet_kind(data[i]) # "EndOfSession")
          => \A i \in 1 .. Len(data') : packet_kind(data'[i]) # "EndOfSession"
      BY <3>3, <3>4
    <3>6. NoSilentGap'
      BY <2>1, <3>2 DEF FollowsStream, NoSilentGap, Behind
    <3>7. \/ exp_session' = FirstSession /\ exp_seq' # None
          \/ /\ live' = {}
             /\ \A i \in 1 .. Len(data') : packet_kind(data'[i]) # "EndOfSession"
      BY <3>2, <3>5 DEF FollowsStream
    <3>8. /\ exp_seq' # None => exp_seq' >= FirstSeq
          /\ exp_session' # None /\ exp_seq' # None => low' # None
          /\ exp_seq' # None /\ low' # None =>
                exp_seq' =< next_seq' \/ exp_seq' =< low' \/ (Closing' /\ cmds' = <<>>)
      BY <2>1, <3>2 DEF FollowsStream, Closing
    <3> QED
      BY <3>6, <3>7, <3>8 DEF FollowsStream, packet_kind
  <2> QED
    BY <1>3, <2>2, <2>3 DEF DeliverStep
<1>4. CASE RequestStep \/ ReceiveDatagram \/ ParsePacket \/ ReceiveTimeout \/ ThreadStep
  <2>1. UNCHANGED <<cmds, next_seq, log, replay>>
    BY <1>4 DEF RequestStep, ReceiveDatagram, ParsePacket, ReceiveTimeout, ThreadStep,
                feedVars, serverVars, senderVars, appVars, threadVars
  <2>2. UNCHANGED <<exp_session, exp_seq, low, live, asked, refused>>
    BY <1>4 DEF RequestStep, TakeRequest, SendRequest, ReceiveDatagram, Consume, ParsePacket,
                ReceiveTimeout, ThreadStep, feedVars, clientVars, gapVars, requestVars, askVars
  <2>3. UNCHANGED data \/ Consume
    BY <1>4 DEF RequestStep, TakeRequest, SendRequest, ReceiveDatagram, ParsePacket,
                ReceiveTimeout, ThreadStep, feedVars, clientVars, dataVars
  <2>4. (\A i \in 1 .. Len(data) : packet_kind(data[i]) # "EndOfSession")
        => \A i \in 1 .. Len(data') : packet_kind(data'[i]) # "EndOfSession"
    <3>1. CASE Consume
      <4>1. /\ Len(data) \in Nat /\ Len(data) >= 1 /\ Len(data') = Len(data) - 1
            /\ \A i \in 1 .. Len(data) - 1 : data'[i] = data[i + 1]
        BY <1>1, <3>1, ConsumeData DEF FeedInv
      <4> QED
        BY <4>1
    <3> QED
      BY <2>3, <3>1
  <2>5. NoSilentGap'
    BY <2>1, <2>2 DEF FollowsStream, NoSilentGap, Behind
  <2>6. \/ exp_session' = FirstSession /\ exp_seq' # None
        \/ /\ live' = {}
           /\ \A i \in 1 .. Len(data') : packet_kind(data'[i]) # "EndOfSession"
    BY <2>2, <2>4 DEF FollowsStream
  <2>7. /\ exp_seq' # None => exp_seq' >= FirstSeq
        /\ exp_session' # None /\ exp_seq' # None => low' # None
        /\ exp_seq' # None /\ low' # None =>
              exp_seq' =< next_seq' \/ exp_seq' =< low' \/ (Closing' /\ cmds' = <<>>)
    BY <2>1, <2>2 DEF FollowsStream, Closing
  <2> QED
    BY <2>5, <2>6, <2>7 DEF FollowsStream, packet_kind
<1> QED
  BY <1>2, <1>3, <1>4, PipelineCases

-----------------------------------------------------------------------------
(* What is before a place in the channel, when it is filled or emptied.    *)

\* What is queued before a place depends on the places before it only.
LEMMA QueueSame ==
  ASSUME NEW d, NEW e, NEW m \in Nat, \A j \in 1 .. m : e[j] = d[j], NEW i \in 1 .. m + 1
  PROVE  QueuedBefore(e, i) = QueuedBefore(d, i)
<1>1. \A j \in 1 .. i - 1 : e[j] = d[j]
  OBVIOUS
<1> QED
  BY <1>1, Zenon DEF QueuedBefore

\* A packet put at the end of a queue comes after all that was queued.
LEMMA QueueFilled ==
  ASSUME NEW d, NEW e, NEW m \in Nat, \A j \in 1 .. m : e[j] = d[j]
  PROVE  /\ QueuedBefore(d, m + 1) \subseteq QueuedBefore(e, m + 2)
         /\ Carries(e[m + 1]) \subseteq QueuedBefore(e, m + 2)
<1>1. /\ \A j \in 1 .. (m + 1) - 1 : j \in 1 .. (m + 2) - 1 /\ e[j] = d[j]
      /\ m + 1 \in 1 .. (m + 2) - 1
  OBVIOUS
<1> QED
  BY <1>1, Zenon DEF QueuedBefore

\* What was queued before a place was the packet taken or still is.
LEMMA QueueTaken ==
  ASSUME NEW d, NEW e, NEW m \in Nat, \A j \in 1 .. m - 1 : e[j] = d[j + 1],
         NEW i \in 1 .. m
  PROVE  QueuedBefore(d, i + 1) \subseteq Carries(d[1]) \cup QueuedBefore(e, i)
<1> SUFFICES ASSUME NEW j \in 1 .. (i + 1) - 1, NEW x \in Carries(d[j])
             PROVE  x \in Carries(d[1]) \/ \E k \in 1 .. i - 1 : x \in Carries(e[k])
  BY Zenon DEF QueuedBefore
<1>1. CASE j = 1
  BY <1>1
<1>2. CASE j # 1
  <2>1. j - 1 \in 1 .. i - 1 /\ e[j - 1] = d[j]
    BY <1>2
  <2> QED
    BY <2>1
<1> QED
  BY <1>1, <1>2

\* A live packet that arrives: an end of the session is put behind everything
\* that the client has seen before it.
LEMMA ReceiveMulticastOnTheWay ==
  ASSUME MaxMsgs < U16Max, PipelineInv, EndIsLast, FollowsStream, OnTheWay,
         ~shutdown, loop # "done", NoSilentGap',
         NEW p \in multicast, ReceiveMulticast(p),
         UNCHANGED <<serverVars, loopVars, mainVars>>
  PROVE  OnTheWay'
<1>1. Applied' = Applied /\ InHand' = InHand /\ log' = log
  BY DEF loopVars, serverVars, senderVars, Applied, InHand
<1>2. /\ p.session = FirstSession
      /\ p.msg_count = U16Max => p.seq_num = next_seq
  BY DEF EndIsLast
<1>3. forward(p) /\ ClientTypes /\ ServerInv
  BY DEF ReceiveMulticast, PipelineInv, FeedInv
<1>4. Len(data) \in Nat
  BY <1>3, ForwardData
<1>5. /\ p.seq_num \in Nat /\ FirstSeq =< p.seq_num /\ p.seq_num =< next_seq
      /\ next_seq \in Nat /\ DOMAIN log = FirstSeq .. next_seq - 1
  BY <1>3, PacketFields DEF ServerInv, ServerTypes, StreamIntact
<1> DEFINE Full == data' = data /\ overrun' = overrun \cup Carries(p)
           Room == /\ Len(data') = Len(data) + 1 /\ overrun' = overrun
                   /\ data'[Len(data) + 1] = p
                   /\ \A i \in 1 .. Len(data) : data'[i] = data[i]
<1>6. Full \/ Room
  BY <1>3, ForwardData
<1>7. overrun \subseteq overrun'
  BY <1>6
<1>8. /\ QueuedBefore(data, Len(data) + 1) \subseteq QueuedBefore(data', Len(data') + 1)
      /\ Carries(p) \subseteq overrun' \cup QueuedBefore(data', Len(data') + 1)
  <2>1. CASE Full
    BY <2>1
  <2>2. CASE Room
    <3>1. Len(data') + 1 = Len(data) + 2
      BY <1>4, <2>2
    <3> QED
      BY <1>4, <2>2, <3>1, QueueFilled
  <2> QED
    BY <1>6, <2>1, <2>2
<1>9. \A i \in 1 .. Len(data) + 1 : QueuedBefore(data', i) = QueuedBefore(data, i)
  <2>1. CASE Full
    BY <2>1
  <2>2. CASE Room
    BY <1>4, <2>2, QueueSame
  <2> QED
    BY <1>6, <2>1, <2>2
<1> DEFINE Seen == Applied \cup overrun \cup InHand \cup QueuedBefore(data, Len(data) + 1)
<1>10. live \subseteq Seen
  BY DEF OnTheWay
<1>11. CASE Follows(p)
  <2>1. low' = low /\ live' = live \cup Carries(p)
    BY <1>11 DEF ReceiveMulticast
  <2>2. asked \subseteq asked' /\ refused \subseteq refused'
    BY <1>11 DEF ReceiveMulticast, Enqueue
  <2>3. live' \subseteq Applied' \cup overrun' \cup InHand'
                        \cup QueuedBefore(data', Len(data') + 1)
    BY <1>1, <1>7, <1>8, <1>10, <2>1
  <2>4. ASSUME NEW i \in 1 .. Len(data'), NEW n \in Nat,
               packet_kind(data'[i]) = "EndOfSession",
               FirstSeq =< n, low' =< n, n < data'[i].seq_num
        PROVE  n \in Accounted' \cup InHand' \cup QueuedBefore(data', i)
    <3>1. CASE i \in 1 .. Len(data)
      <4>1. data'[i] = data[i] /\ QueuedBefore(data', i) = QueuedBefore(data, i)
        BY <1>4, <1>6, <1>9, <3>1
      <4>2. n \in Accounted \cup InHand \cup QueuedBefore(data, i)
        BY <2>1, <2>4, <3>1, <4>1 DEF OnTheWay
      <4>3. Accounted \subseteq Accounted'
        BY <1>1, <1>7, <2>2 DEF Accounted
      <4> QED
        BY <1>1, <4>1, <4>2, <4>3
    <3>2. CASE i \notin 1 .. Len(data)
      <4>1. Room /\ i = Len(data) + 1
        BY <1>4, <1>6, <3>2
      <4>2. data'[i] = p
        BY <4>1
      <4>3. p.msg_count = U16Max /\ Carries(p) = {}
        BY <2>4, <4>2, EndKind
      <4>4. n \in DOMAIN log /\ n < exp_seq' /\ exp_seq' \in Nat
        <5>1. exp_seq' = p.seq_num + U16Max
          BY <4>3 DEF ReceiveMulticast, Advance
        <5> QED
          BY <1>5, <2>4, <4>2, <5>1, U16MaxAssumption, FirstSeqAssumption
      <4>5. low # None
        <5>1. exp_session # None /\ exp_seq # None
          BY <1>2, <1>11, OptionAssumption, FirstSessionAssumption DEF Follows
        <5> QED
          BY <5>1 DEF FollowsStream
      <4>6. n \in Behind'
        BY <1>1, <2>1, <2>4, <4>4, <4>5, OptionAssumption DEF Behind
      <4>7. n \in live' \cup asked' \cup refused'
        BY <4>6 DEF NoSilentGap
      <4>8. n \in Seen \cup asked' \cup refused'
        BY <1>10, <2>1, <4>3, <4>7
      <4>9. QueuedBefore(data', i) = QueuedBefore(data, Len(data) + 1)
        BY <1>4, <1>9, <4>1
      <4> QED
        BY <1>1, <1>7, <4>8, <4>9 DEF Accounted
    <3> QED
      BY <3>1, <3>2
  <2> QED
    BY <2>3, <2>4 DEF OnTheWay, packet_kind
<1>12. CASE ~Follows(p)
  <2>1. live = {} /\ \A i \in 1 .. Len(data) : packet_kind(data[i]) # "EndOfSession"
    BY <1>2, <1>12 DEF Follows, FollowsStream
  <2>2. low' = p.seq_num /\ live' = Carries(p)
    BY <1>12 DEF ReceiveMulticast
  <2>3. live' \subseteq Applied' \cup overrun' \cup InHand'
                        \cup QueuedBefore(data', Len(data') + 1)
    BY <1>8, <2>2
  <2>4. ASSUME NEW i \in 1 .. Len(data'), NEW n \in Nat,
               packet_kind(data'[i]) = "EndOfSession",
               low' =< n, n < data'[i].seq_num
        PROVE  FALSE
    <3>1. CASE i \in 1 .. Len(data)
      BY <1>4, <1>6, <2>1, <2>4, <3>1
    <3>2. CASE i \notin 1 .. Len(data)
      <4>1. data'[i] = p
        BY <1>4, <1>6, <3>2
      <4> QED
        BY <1>5, <2>2, <2>4, <4>1
    <3> QED
      BY <3>1, <3>2
  <2> QED
    BY <2>3, <2>4 DEF OnTheWay, packet_kind
<1> QED
  BY <1>11, <1>12

\* An answer taken off the network is on its way to the receive loop.
LEMMA ReceiveAnswerOnTheWay ==
  ASSUME MaxMsgs < U16Max, PipelineInv, OnTheWay, ~shutdown, loop # "done",
         NEW p \in answers, ReceiveAnswer(p), UNCHANGED <<loopVars, mainVars>>
  PROVE  OnTheWay'
<1>1. Applied' = Applied /\ InHand' = InHand
  BY DEF loopVars, Applied, InHand
<1>2. UNCHANGED <<low, live, asked, refused>> /\ forward(p)
  BY DEF ReceiveAnswer, gapVars, requestVars, askVars
<1>3. ClientTypes /\ ServerInv
  BY DEF PipelineInv, FeedInv
<1>4. packet_kind(p) # "EndOfSession"
  BY <1>3, AnswerIsNoEnd
<1>5. CASE data' = data /\ overrun' = overrun \cup Carries(p)
  BY <1>1, <1>2, <1>5 DEF OnTheWay, Accounted, packet_kind
<1>6. CASE /\ Len(data') = Len(data) + 1 /\ overrun' = overrun
           /\ data'[Len(data) + 1] = p
           /\ \A i \in 1 .. Len(data) : data'[i] = data[i]
  <2>1. Len(data) \in Nat
    BY <1>2, <1>3, ForwardData
  <2>2. QueuedBefore(data, Len(data) + 1) \subseteq QueuedBefore(data', Len(data') + 1)
    <3>1. Len(data') + 1 = Len(data) + 2
      BY <1>6, <2>1
    <3> QED
      BY <1>6, <2>1, <3>1, QueueFilled
  <2>3. \A i \in 1 .. Len(data) + 1 : QueuedBefore(data', i) = QueuedBefore(data, i)
    BY <1>6, <2>1, QueueSame
  <2>4. live' \subseteq Applied' \cup overrun' \cup InHand'
                        \cup QueuedBefore(data', Len(data') + 1)
    BY <1>1, <1>2, <1>6, <2>2 DEF OnTheWay
  <2>5. Accounted' = Accounted
    BY <1>1, <1>2, <1>6 DEF Accounted
  <2>6. ASSUME NEW i \in 1 .. Len(data'), NEW n \in Nat,
               packet_kind(data'[i]) = "EndOfSession",
               FirstSeq =< n, low' =< n, n < data'[i].seq_num
        PROVE  n \in Accounted' \cup InHand' \cup QueuedBefore(data', i)
    <3>1. i \in 1 .. Len(data)
      BY <1>4, <1>6, <2>1, <2>6
    <3>2. data'[i] = data[i] /\ QueuedBefore(data', i) = QueuedBefore(data, i)
      BY <1>6, <2>1, <2>3, <3>1
    <3>3. n \in Accounted \cup InHand \cup QueuedBefore(data, i)
      BY <1>2, <2>6, <3>1, <3>2 DEF OnTheWay
    <3> QED
      BY <1>1, <2>5, <3>2, <3>3
  <2> QED
    BY <2>4, <2>6 DEF OnTheWay, packet_kind
<1> QED
  BY <1>2, <1>3, <1>5, <1>6, ForwardData

\* The receive loop takes a packet into its hand, or skips a heartbeat.
LEMMA ReceiveDatagramOnTheWay ==
  ASSUME PipelineInv, OnTheWay, ReceiveDatagram, ~shutdown', loop' # "done"
  PROVE  OnTheWay'
<1> DEFINE p == Head(data)
<1>1. /\ UNCHANGED <<shutdown, applied, low, live, asked, refused, overrun>>
      /\ loop = "waiting" /\ Consume
  BY DEF ReceiveDatagram, Consume, mainVars, gapVars, requestVars, askVars
<1>2. Applied' = Applied /\ Accounted' = Accounted /\ InHand = {}
  BY <1>1 DEF Applied, Accounted, InHand
<1>3. /\ Len(data) \in Nat /\ Len(data) >= 1 /\ Len(data') = Len(data) - 1
      /\ p = data[1]
      /\ \A i \in 1 .. Len(data) - 1 : data'[i] = data[i + 1]
  BY <1>1, ConsumeData DEF PipelineInv, FeedInv
<1>4. Carries(data[1]) \subseteq InHand'
  <2>1. \/ packet_kind(p) = "Heartbeat"
        \/ packet_kind(p) = "Standard" /\ loop' = "parsing" /\ packet' = p
    BY <1>1 DEF ReceiveDatagram, EndLoop
  <2>2. packet_kind(p) = "Heartbeat" => Carries(p) = {}
    BY DEF Carries
  <2> HIDE DEF p
  <2> QED
    BY <1>3, <2>1, <2>2 DEF InHand
<1> HIDE DEF p
<1>5. \A i \in 1 .. Len(data) :
         QueuedBefore(data, i + 1) \subseteq InHand' \cup QueuedBefore(data', i)
  BY <1>3, <1>4, QueueTaken
<1>6. live' \subseteq Applied' \cup overrun' \cup InHand'
                      \cup QueuedBefore(data', Len(data') + 1)
  <2>1. Len(data') + 1 = Len(data) /\ Len(data) \in 1 .. Len(data)
    BY <1>3
  <2>2. live \subseteq Applied \cup overrun \cup QueuedBefore(data, Len(data) + 1)
    BY <1>1, <1>2 DEF OnTheWay
  <2> QED
    BY <1>1, <1>2, <1>5, <2>1, <2>2
<1>7. ASSUME NEW i \in 1 .. Len(data'), NEW n \in Nat,
             packet_kind(data'[i]) = "EndOfSession",
             FirstSeq =< n, low' =< n, n < data'[i].seq_num
      PROVE  n \in Accounted' \cup InHand' \cup QueuedBefore(data', i)
  <2>1. data'[i] = data[i + 1] /\ i + 1 \in 1 .. Len(data) /\ i \in 1 .. Len(data)
    BY <1>3
  <2>2. n \in Accounted \cup InHand \cup QueuedBefore(data, i + 1)
    BY <1>1, <1>7, <2>1 DEF OnTheWay
  <2> QED
    BY <1>2, <1>5, <2>1, <2>2
<1> QED
  BY <1>6, <1>7 DEF OnTheWay, packet_kind

\* The members of a concatenation.
LEMMA Concatenation ==
  ASSUME NEW S, NEW a \in Seq(S), NEW b \in Seq(S)
  PROVE  /\ Len(a) \in Nat /\ Len(b) \in Nat /\ Len(a \o b) = Len(a) + Len(b)
         /\ \A i \in 1 .. Len(a) : (a \o b)[i] = a[i]
         /\ \A i \in 1 .. Len(b) : (a \o b)[Len(a) + i] = b[i]
OBVIOUS

\* A number's place in a range that starts at first.
LEMMA PlaceInRange ==
  ASSUME NEW first \in Nat, NEW count \in Nat, NEW n \in Numbers(first, count)
  PROVE  n - first + 1 \in 1 .. count /\ first + (n - first + 1) - 1 = n
BY DEF Numbers

\* A packet that is parsed goes to the handler as a whole, unless the flag cuts
\* it short.
LEMMA ParsePacketOnTheWay ==
  ASSUME PipelineInv, OnTheWay, ParsePacket, ~shutdown'
  PROVE  OnTheWay'
<1>1. /\ UNCHANGED <<shutdown, data, low, live, asked, refused, overrun>>
      /\ loop = "parsing" /\ loop' = "waiting"
  BY DEF ParsePacket, mainVars, feedVars, clientVars, gapVars, requestVars, askVars, dataVars
<1>2. LoopInStep /\ FeedInv
  BY DEF PipelineInv
<1> DEFINE numbers == PacketNumbers(packet)
<1>3. /\ applied' = applied \o SubSeq(numbers, 1, packet.msg_count)
      /\ numbers \in Seq(DOMAIN log) /\ Len(numbers) = packet.msg_count
      /\ packet.msg_count \in Nat
  BY <1>1, <1>2, ParseApplies
<1>4. applied' = applied \o numbers /\ applied \in Seq(DOMAIN log)
  BY <1>2, <1>3 DEF LoopInStep
<1> HIDE DEF numbers
<1>5. /\ Len(applied) \in Nat /\ Len(applied') = Len(applied) + packet.msg_count
      /\ \A i \in 1 .. Len(applied) : applied'[i] = applied[i]
      /\ \A i \in 1 .. packet.msg_count : applied'[Len(applied) + i] = numbers[i]
  BY <1>3, <1>4, Concatenation
<1>6. Applied \subseteq Applied'
  <2>1. \A i \in 1 .. Len(applied) : i \in 1 .. Len(applied') /\ applied'[i] = applied[i]
    BY <1>3, <1>5
  <2> QED
    BY <2>1 DEF Applied
<1>7. Carries(packet) \subseteq Applied'
  <2>1. packet.seq_num \in Nat /\ Carries(packet) = Numbers(packet.seq_num, packet.msg_count)
    BY <1>1, <1>2, ParsedIsLogged DEF LoopInStep, FeedInv
  <2>2. ASSUME NEW n \in Carries(packet) PROVE n \in Applied'
    <3> DEFINE i == n - packet.seq_num + 1
    <3>1. i \in 1 .. packet.msg_count /\ packet.seq_num + i - 1 = n
      BY <1>3, <2>1, <2>2, PlaceInRange
    <3> HIDE DEF i
    <3>2. numbers[i] = n
      BY <3>1 DEF numbers, PacketNumbers
    <3>3. Len(applied) + i \in 1 .. Len(applied') /\ applied'[Len(applied) + i] = n
      BY <1>3, <1>5, <3>1, <3>2
    <3> QED
      BY <3>3 DEF Applied
  <2> QED
    BY <2>2
<1>8. InHand = Carries(packet) /\ InHand' = {}
  BY <1>1 DEF InHand
<1>9. Accounted \cup InHand \subseteq Accounted'
  BY <1>1, <1>6, <1>7, <1>8 DEF Accounted
<1>10. loop # "done"
  BY <1>1
<1>11. live' \subseteq Applied' \cup overrun' \cup InHand'
                       \cup QueuedBefore(data', Len(data') + 1)
  BY <1>1, <1>6, <1>7, <1>8, <1>10 DEF OnTheWay
<1>12. ASSUME NEW i \in 1 .. Len(data'), NEW n \in Nat,
              packet_kind(data'[i]) = "EndOfSession",
              FirstSeq =< n, low' =< n, n < data'[i].seq_num
       PROVE  n \in Accounted' \cup InHand' \cup QueuedBefore(data', i)
  <2>1. n \in Accounted \cup InHand \cup QueuedBefore(data, i)
    BY <1>1, <1>10, <1>12 DEF OnTheWay
  <2> QED
    BY <1>1, <1>9, <2>1
<1> QED
  BY <1>11, <1>12 DEF OnTheWay, packet_kind

\* A message taken off the network stays on its way until it is applied or dropped.
LEMMA OnTheWayNext ==
  ASSUME MaxMsgs < U16Max, PipelineInv, EndIsLast, FollowsStream, OnTheWay,
         PipelineNext \/ UNCHANGED pipelineVars
  PROVE  OnTheWay'
<1> SUFFICES ASSUME ~shutdown', loop' # "done" PROVE OnTheWay'
  BY DEF OnTheWay
<1>1. CASE ReplayStep \/ ServerStep \/ RequestStep \/ ThreadStep
  <2>1. UNCHANGED <<low, live, asked, refused, overrun, data, loop, packet, applied>>
        /\ (shutdown => shutdown')
    BY <1>1 DEF ReplayStep, ServerStep, RequestStep, TakeRequest, SendRequest, ThreadStep,
                feedVars, clientVars, gapVars, requestVars, askVars, dataVars, appVars,
                loopVars, mainVars
  <2> QED
    BY <2>1 DEF OnTheWay, Applied, Accounted, InHand, QueuedBefore, Carries, packet_kind,
                Numbers
<1>2. CASE DeliverStep
  <2>1. /\ UNCHANGED <<serverVars, loopVars, mainVars>> /\ loop # "done"
        /\ ~shutdown
    BY <1>2 DEF DeliverStep, mainVars
  <2>2. NoSilentGap'
    BY FollowsStreamNext DEF FollowsStream
  <2> QED
    BY <1>2, <2>1, <2>2, ReceiveMulticastOnTheWay, ReceiveAnswerOnTheWay DEF DeliverStep
<1>3. CASE ReceiveDatagram
  BY <1>3, ReceiveDatagramOnTheWay
<1>4. CASE ParsePacket
  BY <1>4, ParsePacketOnTheWay
<1>5. ReceiveTimeout => loop' = "done"
  BY DEF ReceiveTimeout, EndLoop
<1> QED
  BY <1>1, <1>2, <1>3, <1>4, <1>5, PipelineCases

\* A loop that ended at the end of the session has everything before it accounted for.
LEMMA EndReachedNext ==
  ASSUME PipelineInv, FollowsStream, OnTheWay, EndReached,
         PipelineNext \/ UNCHANGED pipelineVars
  PROVE  EndReached'
<1> SUFFICES ASSUME ending' = "end_of_session", ~shutdown' PROVE EndReached'
  BY DEF EndReached
<1>1. next_seq \in Nat /\ next_seq' \in Nat /\ next_seq =< next_seq'
  <2>1. ServerAction \/ UNCHANGED serverVars
    BY PipelineNextIsAction DEF pipelineVars, PipelineInv, FeedAction, feedVars
  <2> QED
    BY <2>1, ServerAdvances, ServerActionInv DEF PipelineInv, FeedInv, ServerInv, ServerTypes
<1>2. CASE ReplayStep \/ ServerStep \/ RequestStep \/ ThreadStep
  <2>1. UNCHANGED <<low, asked, refused, overrun, applied, ending, last_seq>>
        /\ (shutdown => shutdown')
    BY <1>2 DEF ReplayStep, ServerStep, RequestStep, TakeRequest, SendRequest, ThreadStep,
                feedVars, clientVars, gapVars, requestVars, askVars, dataVars, appVars,
                loopVars, mainVars
  <2>2. Accounted' = Accounted
    BY <2>1 DEF Accounted, Applied
  <2> QED
    BY <1>1, <2>1, <2>2 DEF EndReached
<1>3. CASE ReceiveDatagram
  <2> DEFINE p == Head(data)
  <2>1. /\ UNCHANGED <<shutdown, applied, low, asked, refused, overrun, next_seq>>
        /\ loop = "waiting" /\ Consume
    BY <1>3 DEF ReceiveDatagram, Consume, mainVars, gapVars, requestVars, askVars,
                serverVars, senderVars
  <2>2. ending # "end_of_session"
    BY <2>1, PipelineAssumption DEF PipelineInv, LoopInStep, Ending
  <2>3. packet_kind(p) = "EndOfSession" /\ last_seq' = p.seq_num
    BY <1>3, <2>1, <2>2 DEF ReceiveDatagram, EndLoop
  <2>4. p = data[1] /\ 1 \in 1 .. Len(data)
    BY <2>1, ConsumeData DEF PipelineInv, FeedInv
  <2>5. p \in multicast \cup answers
    BY <2>1 DEF PipelineInv, FeedInv, ClientTypes, Consume
  <2>6. p.seq_num \in Nat /\ p.seq_num =< next_seq
    BY <2>5, PacketFields DEF PipelineInv, FeedInv
  <2>7. low # None
    <3>1. exp_session = FirstSession /\ exp_seq # None
      BY <2>3, <2>4 DEF FollowsStream
    <3> QED
      BY <3>1, OptionAssumption, FirstSessionAssumption DEF FollowsStream
  <2> HIDE DEF p
  <2>8. QueuedBefore(data, 1) = {} /\ InHand = {}
    BY <2>1 DEF QueuedBefore, InHand
  <2>9. \A n \in Nat : FirstSeq =< n /\ low =< n /\ n < p.seq_num => n \in Accounted
    BY <2>1, <2>3, <2>4, <2>8 DEF OnTheWay
  <2>10. Accounted' = Accounted
    BY <2>1 DEF Accounted, Applied
  <2> QED
    BY <2>1, <2>3, <2>6, <2>7, <2>9, <2>10 DEF EndReached
<1>4. CASE DeliverStep
  <2>1. UNCHANGED ending /\ loop # "done"
    BY <1>4 DEF DeliverStep, loopVars
  <2> QED
    BY <2>1, PipelineAssumption DEF PipelineInv, LoopInStep, Ending
<1>5. CASE ParsePacket
  <2>1. UNCHANGED ending /\ loop # "done"
    BY <1>5 DEF ParsePacket
  <2> QED
    BY <2>1, PipelineAssumption DEF PipelineInv, LoopInStep, Ending
<1>6. ReceiveTimeout => ending' = "timeout"
  BY DEF ReceiveTimeout, EndLoop
<1> QED
  BY <1>2, <1>3, <1>4, <1>5, <1>6, PipelineCases

\* The invariant for EndAccounted holds at the start.
LEMMA EndInvInit ==
  ASSUME StartsInStream, PipelineInit
  PROVE  EndInv
<1>1. EndIsLast
  BY DEF PipelineInit, FeedInit, ServerInit, EndIsLast
<1>2. /\ exp_session = ExpectedSession /\ exp_seq = ExpectedSeq /\ live = {} /\ data = <<>>
      /\ low = IF ExpectedSession = None THEN None ELSE ExpectedSeq
      /\ log = [n \in {} |-> n]
  BY DEF PipelineInit, FeedInit, ClientInit, ServerInit
<1>3. NoSilentGap
  BY <1>2 DEF NoSilentGap, Behind
<1>4. exp_seq # None /\ low # None => exp_seq =< low
  BY <1>2, OptionAssumption
<1>5. \A i \in 1 .. Len(data) : packet_kind(data[i]) # "EndOfSession"
  BY <1>2
<1>6. FollowsStream
  BY <1>2, <1>3, <1>4, <1>5 DEF FollowsStream, StartsInStream
<1>7. OnTheWay
  BY <1>2 DEF OnTheWay
<1>8. EndReached
  BY PipelineAssumption DEF PipelineInit, EndReached, Ending
<1> QED
  BY <1>1, <1>6, <1>7, <1>8 DEF EndInv

\* handler.rs and client.rs together: when the end-of-session packet has ended
\* the receive loop and the flag was not raised, every message before it is
\* applied, or the client has asked for it or logged that it gave it up,
\* whatever the network loses, delays or reorders and however small the
\* channels are.  The stream must be shorter than u16::MAX, which is what one
\* request asks for at most and the count that marks the end of a session.
THEOREM EndAccountedHolds ==
  ASSUME MaxMsgs < U16Max, StartsInStream
  PROVE  PipelineSpec => []EndAccounted
<1>1. PipelineInit => EndInv
  BY EndInvInit
<1>2. PipelineInv /\ EndInv /\ [PipelineNext]_pipelineVars => EndInv'
  BY EndIsLastNext, FollowsStreamNext, OnTheWayNext, EndReachedNext DEF EndInv
<1>3. PipelineInv /\ EndInv => EndAccounted
  <2> SUFFICES ASSUME PipelineInv, EndInv, ending = "end_of_session", ~shutdown,
                      NEW n \in DOMAIN log, low =< n, n < last_seq
               PROVE  n \in {applied[i] : i \in DOMAIN applied}
                           \cup asked \cup refused \cup overrun
    BY DEF EndAccounted
  <2>1. n \in Nat /\ FirstSeq =< n
    BY FirstSeqAssumption DEF PipelineInv, FeedInv, ServerInv, ServerTypes, StreamIntact
  <2>2. n \in Accounted
    BY <2>1 DEF EndInv, EndReached
  <2>3. DOMAIN applied = 1 .. Len(applied)
    BY DEF PipelineInv, LoopInStep
  <2> QED
    BY <2>2, <2>3 DEF Accounted, Applied
<1> QED
  BY <1>1, <1>2, <1>3, PipelineInvariance, PTL DEF PipelineSpec

=============================================================================
