------------------------------- MODULE Pipeline -------------------------------
(***************************************************************************)
(* The whole program (app/src/pipeline.rs): the replay thread feeds the    *)
(* MoldUDP64 server, the receive loop (run of app/src/handler.rs) consumes *)
(* what the client forwards, the terminal UI may run beside them, one      *)
(* shutdown flag stops all of them, and the main thread joins them and     *)
(* writes the report.                                                      *)
(*                                                                         *)
(* Server, client and network are those of MoldFeed, except that no        *)
(* datagram is duplicated: it is received at most once, out of order or    *)
(* never.  A message is opaque here; Replay has what the receive loop does *)
(* with its bytes.  Once the receive loop has ended, nothing reads what    *)
(* the client still forwards, and its threads are left out; so are sockets *)
(* that fail, threads that panic and a UI that returns an error.           *)
(***************************************************************************)
EXTENDS MoldFeed

CONSTANTS
    Interactive,    \* the values of config.interactive, a set of Booleans
    OutputFile,     \* config.output_file_path.is_some()
    MaxHeartbeats   \* bound: heartbeats sent

\* Why the receive loop ends.
Ending == {"shutdown", "end_of_session", "timeout"}

ASSUME PipelineAssumption ==
    /\ Interactive \subseteq BOOLEAN /\ OutputFile \in BOOLEAN
    /\ MaxHeartbeats \in Nat
    /\ None \notin Packet /\ None \notin Ending

VARIABLES
    unread,        \* messages left in the file
    batch,         \* messages in replay's batch
    replay,        \* server thread: "reading", "ending", "closing", "done"
    loop,          \* receive loop: "waiting", "parsing", "done"
    packet,        \* the packet that is being parsed, or None
    tui,           \* the UI thread: "off", "running", "done"
    shutdown,      \* the flag
    main,          \* main thread: what it waits for, or "done"
    report,        \* the report is written: the messages in it, or None
    applied,       \* history: sequence numbers given to the handler, in order
    ending,        \* history: why the receive loop ended, or None
    last_seq,      \* history: seq_num of the end-of-session packet, or None
    seen           \* datagrams received, each tagged with its socket

threadVars == <<unread, batch, replay>>
loopVars == <<loop, packet, applied, ending, last_seq>>
mainVars == <<tui, shutdown, main, report>>
appVars == <<threadVars, loopVars, mainVars, seen>>
pipelineVars == <<feedVars, appVars>>

PipelineInit ==
    /\ FeedInit
    /\ unread = MaxMsgs
    /\ batch = 0
    /\ replay = "reading"
    /\ loop = "waiting"
    /\ packet = None
    /\ \E interactive \in Interactive :
          tui = IF interactive THEN "running" ELSE "off"
    /\ shutdown = FALSE
    /\ main = "join_server"
    /\ report = None
    /\ applied = <<>>
    /\ ending = None
    /\ last_seq = None
    /\ seen = {}

-----------------------------------------------------------------------------
(* The server thread: replay, then the end of session, then the handle is  *)
(* dropped.  The flag is read before every message.                        *)

ReadMessage ==
    /\ replay = "reading" /\ unread > 0 /\ ~shutdown
    /\ batch < MaxBatch
    /\ unread' = unread - 1
    /\ batch' = batch + 1
    /\ UNCHANGED <<replay, serverVars>>

\* The random size of the batch is reached, or the loop has ended.
FlushBatch ==
    /\ replay = "reading" /\ batch > 0
    /\ \E lens \in [1 .. batch -> MsgLen] : SubmitBatch("Send", lens)
    /\ batch' = 0
    /\ UNCHANGED <<unread, replay>>

StopReading ==
    /\ replay = "reading" /\ batch = 0
    /\ unread = 0 \/ shutdown
    /\ replay' = "ending"
    /\ UNCHANGED <<unread, batch, serverVars>>

SendEnd ==
    /\ replay = "ending"
    /\ SubmitSpecial("EndOfSession")
    /\ replay' = "closing"
    /\ UNCHANGED <<unread, batch>>

CloseHandle ==
    /\ replay = "closing"
    /\ DropHandles
    /\ replay' = "done"
    /\ UNCHANGED <<unread, batch>>

ReplayStep ==
    /\ ReadMessage \/ FlushBatch \/ StopReading \/ SendEnd \/ CloseHandle
    /\ UNCHANGED <<clientVars, loopVars, mainVars, seen>>

-----------------------------------------------------------------------------
(* The receive loop.                                                       *)

EndLoop(why) == loop' = "done" /\ ending' = why

\* Mutant: the kind of the packet is not looked at.
ReceiveDatagramAnyKind ==
    /\ loop = "waiting" /\ Consume
    /\ loop' = "parsing" /\ packet' = Head(data)
    /\ UNCHANGED <<serverVars, threadVars, mainVars, applied, ending, last_seq, seen>>

\* recv_timeout returns a datagram: the flag is read first, a heartbeat is
\* skipped, the end of the session ends the loop.
ReceiveDatagram ==
    /\ loop = "waiting" /\ Consume
    /\ LET p == Head(data)
       IN \/ /\ shutdown
             /\ EndLoop("shutdown")
             /\ UNCHANGED <<packet, last_seq>>
          \/ /\ ~shutdown /\ packet_kind(p) = "Heartbeat"
             /\ UNCHANGED <<loop, ending, packet, last_seq>>
          \/ /\ ~shutdown /\ packet_kind(p) = "EndOfSession"
             /\ EndLoop("end_of_session")
             /\ last_seq' = p.seq_num
             /\ UNCHANGED packet
          \/ /\ ~shutdown /\ packet_kind(p) = "Standard"
             /\ loop' = "parsing" /\ packet' = p
             /\ UNCHANGED <<ending, last_seq>>
    /\ UNCHANGED <<serverVars, threadVars, mainVars, applied, seen>>

\* The packet's messages go to the handler in order.  The handler looks at the
\* flag at every 256th message, so that some of the packet may be left out once
\* it is raised.
ParsePacket ==
    /\ loop = "parsing"
    /\ LET numbers == [i \in 1 .. packet.msg_count |-> packet.seq_num + i - 1]
       IN \E n \in 0 .. packet.msg_count :
            /\ n < packet.msg_count => shutdown
            /\ applied' = applied \o SubSeq(numbers, 1, n)
    /\ loop' = "waiting"
    /\ packet' = None
    /\ UNCHANGED <<feedVars, threadVars, mainVars, ending, last_seq, seen>>

\* Mutant: the loop waits for as long as it takes.
ReceiveTimeoutNever == FALSE /\ UNCHANGED pipelineVars

\* Five seconds without a datagram.
ReceiveTimeout ==
    /\ loop = "waiting" /\ data = <<>>
    /\ EndLoop("timeout")
    /\ UNCHANGED <<feedVars, threadVars, mainVars, packet, applied, last_seq, seen>>

ReceiveStep == ReceiveDatagram \/ ParsePacket

-----------------------------------------------------------------------------
(* The UI, the signal handler and the main thread.                         *)

\* The user quits, and the flag is raised.
TuiQuit ==
    /\ tui = "running"
    /\ tui' = "done" /\ shutdown' = TRUE
    /\ UNCHANGED <<main, report>>

\* The event loop sees the flag.
TuiEnds ==
    /\ tui = "running" /\ shutdown
    /\ tui' = "done"
    /\ UNCHANGED <<shutdown, main, report>>

\* Ctrl-C
RaiseShutdown ==
    /\ ~shutdown
    /\ shutdown' = TRUE
    /\ UNCHANGED <<tui, main, report>>

JoinServer ==
    /\ main = "join_server" /\ replay = "done"
    /\ main' = "join_client"
    /\ UNCHANGED <<tui, shutdown, report>>

\* Mutant: the receive loop is not waited for.
JoinClientNot ==
    /\ main = "join_client"
    /\ main' = "join_tui"
    /\ UNCHANGED <<tui, shutdown, report>>

JoinClient ==
    /\ main = "join_client" /\ loop = "done"
    /\ main' = "join_tui"
    /\ UNCHANGED <<tui, shutdown, report>>

JoinTui ==
    /\ main = "join_tui" /\ tui # "running"
    /\ main' = "report"
    /\ UNCHANGED <<tui, shutdown, report>>

should_make_report == OutputFile \/ tui = "off"

\* A snapshot of the handler, which no other thread refers to any more.
WriteReport ==
    /\ main = "report"
    /\ main' = "done"
    /\ report' = IF should_make_report THEN applied ELSE None
    /\ UNCHANGED <<tui, shutdown>>

MainStep == JoinServer \/ JoinClient \/ JoinTui \/ WriteReport

OtherThreads ==
    /\ TuiQuit \/ TuiEnds \/ RaiseShutdown \/ MainStep
    /\ UNCHANGED <<feedVars, threadVars, loopVars, seen>>

-----------------------------------------------------------------------------
(* The library's threads and the network.                                  *)

Sender == SenderStep /\ UNCHANGED <<clientVars, appVars>>

\* The sender thread's heartbeat, the client's sender threads and the server's
\* answers.
LibraryStep ==
    \/ /\ Cardinality({p \in multicast : packet_kind(p) = "Heartbeat"}) < MaxHeartbeats
       /\ Tick
       /\ UNCHANGED clientVars
    \/ \E s \in Server : (TakeRequest(s) \/ SendRequest(s)) /\ UNCHANGED serverVars
    \/ \E req \in requests : DeliverRequest(req)

Deliver(socket, p) ==
    /\ loop # "done" /\ <<socket, p>> \notin seen
    /\ IF socket = "multicast" THEN DeliverMulticast(p) ELSE DeliverAnswer(p)
    /\ seen' = seen \cup {<<socket, p>>}

PipelineNext ==
    \/ ReplayStep
    \/ ReceiveStep \/ ReceiveTimeout
    \/ OtherThreads
    \/ Sender
    \/ LibraryStep /\ loop # "done" /\ UNCHANGED appVars
    \/ /\ \/ \E p \in multicast : Deliver("multicast", p)
          \/ \E p \in answers : Deliver("rereq", p)
       /\ UNCHANGED <<threadVars, loopVars, mainVars>>

\* All threads keep running and recv_timeout returns; of the network, the user
\* and signals nothing is assumed.
PipelineFairness ==
    /\ WF_pipelineVars(ReplayStep)
    /\ WF_pipelineVars(Sender)
    /\ WF_pipelineVars(ReceiveStep)
    /\ WF_pipelineVars(ReceiveTimeout)
    /\ WF_pipelineVars(TuiEnds /\ UNCHANGED <<feedVars, threadVars, loopVars, seen>>)
    /\ WF_pipelineVars(MainStep /\ UNCHANGED <<feedVars, threadVars, loopVars, seen>>)

PipelineSpec == PipelineInit /\ [][PipelineNext]_pipelineVars /\ PipelineFairness

-----------------------------------------------------------------------------
(* Properties.                                                             *)

\* Types, and the threads' states in step with each other: messages are either
\* in the file, in the batch or handed to the server, and a loop that parses
\* has a packet with messages.
PipelineTypeOK ==
    /\ unread + batch + submitted = MaxMsgs
    /\ batch \in 0 .. MaxBatch
    /\ replay \in {"reading", "ending", "closing", "done"}
    /\ handles <=> replay # "done"
    /\ loop \in {"waiting", "parsing", "done"}
    /\ loop = "parsing" <=> packet # None
    /\ loop = "parsing" => packet_kind(packet) = "Standard"
    /\ ending \in Ending \cup {None} /\ (loop = "done" <=> ending # None)
    /\ tui \in {"off", "running", "done"} /\ shutdown \in BOOLEAN
    /\ main \in {"join_server", "join_client", "join_tui", "report", "done"}
    /\ \A i \in DOMAIN applied : applied[i] \in DOMAIN log

\* When the end of the session has ended the receive loop, a message before it
\* that did not reach the handler is one the client knows to be missing: it was
\* asked for, or logged as given up, unless the client was not following the
\* session yet.  The flag, if raised, may have cut packets short.
EndAccounted ==
    ending = "end_of_session" /\ ~shutdown =>
        \A n \in DOMAIN log :
            low =< n /\ n < last_seq =>
                n \in {applied[i] : i \in DOMAIN applied}
                      \cup asked \cup refused \cup overrun

\* The report has everything that was ever given to the handler: nothing is
\* applied any more when the main thread takes the handler apart.
ReportFinal == report # None => report = applied

\* The program ends: without the UI always, even if no end-of-session packet
\* arrives, with it once the flag is raised; every thread sees the flag or runs
\* out of work, whatever the network does.
Terminates == (tui = "off" \/ shutdown) ~> main = "done"

\* moldudp/src/client.rs: "The consumer is responsible for reordering by
\* (session_ident, seq_num)": the handler is given the messages in the order of
\* their sequence numbers, each once.
AppliedInOrder ==
    \A i \in DOMAIN applied \ {1} : applied[i - 1] < applied[i]
=============================================================================
