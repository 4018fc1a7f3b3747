------------------------------- MODULE Replay -------------------------------
(***************************************************************************)
(* From an ITCH file to the books: the replay loop (app/src/replay.rs)     *)
(* cuts the file into messages and sends them in batches of random size,   *)
(* the receive loop (run of app/src/handler.rs) parses each packet into    *)
(* the message handler.  The network between them is perfect here and has  *)
(* no heartbeats; MoldFeed and Pipeline have the other network.  A batch   *)
(* fits one packet, as it does by default (MoldServer has the chunks).     *)
(*                                                                         *)
(* A file is a sequence of frames, each with its bytes and with what its   *)
(* writer means by them: the fields of the message, or NoMessage for bytes *)
(* that are none.  The program sees the bytes only.                        *)
(***************************************************************************)
EXTENDS Handler

CONSTANTS
    Files,       \* the input files
    Kinds,       \* the kinds of registry: "vec", "hashmap"
    MaxMsgs,     \* config.max_msgs, the largest batch
    NoMessage

ASSUME MaxMsgsAssumption == MaxMsgs \in Nat \ {0}

ASSUME KindsAssumption == Kinds \subseteq {"vec", "hashmap"}

Byte == 0 .. 255

ASSUME FilesAssumption ==
    \A f \in Files : /\ f \in Seq(ToSet(f))
                     /\ \A n \in DOMAIN f : f[n].bytes \in Seq(Byte)

VARIABLES
    file,        \* the input file
    buf,         \* the bytes replay has not yet read
    batch,       \* Batch::buf
    next_flush,  \* Batch::next_flush
    server,      \* replay is "reading" or "done"
    sent,        \* the packets sent so far, in order
    received,    \* the number of them the receive loop has taken
    client,      \* "waiting", "parsing", "done" or "panicked"
    parser,      \* Parser::buf, the rest of the packet being parsed
    handler,     \* the message handler
    shutdown,    \* the flag
    applied      \* the messages that were dispatched, in order

serverVars == <<buf, batch, next_flush, server, sent>>
clientVars == <<received, client, parser, handler, applied>>
vars == <<file, serverVars, clientVars, shutdown>>

Bytes(frames) == FlattenSeq([n \in DOMAIN frames |-> frames[n].bytes])

END_OF_SESSION_IDENT == 65535

build_packet(msgs) == [msg_count |-> Len(msgs), messages |-> Blocks(msgs)]
EndOfSession == [msg_count |-> END_OF_SESSION_IDENT, messages |-> <<>>]

\* Packet::iter
Iterated(packet) ==
    Messages(packet.messages,
             IF packet.msg_count = END_OF_SESSION_IDENT THEN 0
             ELSE packet.msg_count)

Init ==
    /\ file \in Files
    /\ buf = Bytes(file)
    /\ batch = <<>>
    /\ next_flush \in 1 .. MaxMsgs
    /\ server = "reading"
    /\ sent = <<>>
    /\ received = 0
    /\ client = "waiting"
    /\ parser = <<>>
    /\ \E kind \in Kinds : handler = NewHandler(kind)
    /\ shutdown = FALSE
    /\ applied = <<>>

-----------------------------------------------------------------------------
(* The replay loop.                                                        *)

\* Mutant: the messages stay in the batch.
FlushKeeps(msgs) ==
    /\ sent' = Append(sent, build_packet(msgs))
    /\ batch' = msgs
    /\ next_flush' \in 1 .. MaxMsgs

\* Batch::flush: the next batch gets a size of its own.
Flush(msgs) ==
    /\ sent' = Append(sent, build_packet(msgs))
    /\ batch' = <<>>
    /\ next_flush' \in 1 .. MaxMsgs

\* The loop goes on: neither the end of the file, nor shutdown, nor a frame
\* that cannot be parsed.
CanRead == buf # <<>> /\ ~shutdown /\ parse_one(buf).error = "None"

ReadMessage ==
    /\ server = "reading" /\ CanRead
    /\ LET parsed == parse_one(buf)
           pushed == Append(batch, parsed.body)
       IN /\ buf' = parsed.rest
          /\ IF Len(pushed) >= next_flush THEN Flush(pushed)
             ELSE batch' = pushed /\ UNCHANGED <<next_flush, sent>>
    /\ UNCHANGED <<file, server, clientVars, shutdown>>

\* After the loop: the last batch, then the end of session.
StopReading ==
    /\ server = "reading" /\ ~CanRead
    /\ server' = "done"
    /\ batch' = <<>>
    /\ sent' = sent \o (IF batch = <<>> THEN <<>> ELSE <<build_packet(batch)>>)
                    \o <<EndOfSession>>
    /\ UNCHANGED <<file, buf, next_flush, clientVars, shutdown>>

-----------------------------------------------------------------------------
(* The receive loop.                                                       *)

\* recv_timeout returns a datagram: the flag first, then the kind of packet.
Receive ==
    /\ client = "waiting" /\ received < Len(sent)
    /\ received' = received + 1
    /\ LET packet == sent[received + 1]
           ends == shutdown \/ packet.msg_count = END_OF_SESSION_IDENT
       IN /\ client' = IF ends THEN "done" ELSE "parsing"
          /\ parser' = IF ends THEN <<>> ELSE packet.messages
    /\ UNCHANGED <<file, serverVars, handler, applied, shutdown>>

\* Five seconds without a datagram.
ReceiveTimeout ==
    /\ client = "waiting" /\ received = Len(sent)
    /\ client' = "done"
    /\ UNCHANGED <<file, serverVars, received, parser, handler, applied, shutdown>>

\* The end of parse_stream, by whatever return.
StopParsing == client' = "waiting" /\ parser' = <<>>

\* One turn of parse_stream's loop; an error or a Break gives up the rest of
\* the packet.
ParseMessage ==
    /\ client = "parsing"
    /\ LET parsed == parse_one(parser)
           msg == cast(parsed.body)
           next == Apply(Ticked(handler), msg)
       IN \/ /\ parser = <<>>
             /\ StopParsing /\ UNCHANGED <<handler, applied>>
          \/ /\ parser # <<>>
             /\ parsed.error # "None" \/ ~Castable(parsed.body)
             /\ StopParsing /\ UNCHANGED <<handler, applied>>
          \/ /\ parser # <<>> /\ parsed.error = "None" /\ Castable(parsed.body)
             /\ ~Handled(msg)
             /\ parser' = parsed.rest /\ applied' = Append(applied, msg)
             /\ UNCHANGED <<client, handler>>
          \/ /\ parser # <<>> /\ parsed.error = "None" /\ Castable(parsed.body)
             /\ Handled(msg) /\ ShouldStop(handler, shutdown)
             /\ StopParsing /\ handler' = Ticked(handler) /\ UNCHANGED applied
          \/ /\ parser # <<>> /\ parsed.error = "None" /\ Castable(parsed.body)
             /\ Handled(msg) /\ ~ShouldStop(handler, shutdown)
             /\ handler' = next
             /\ parser' = parsed.rest
             /\ client' = IF next.panicked THEN "panicked" ELSE "parsing"
             /\ applied' = IF next.panicked THEN applied ELSE Append(applied, msg)
    /\ UNCHANGED <<file, serverVars, received, shutdown>>

\* Ctrl-C.
RaiseShutdown ==
    /\ ~shutdown
    /\ shutdown' = TRUE
    /\ UNCHANGED <<file, serverVars, clientVars>>

Next ==
    \/ ReadMessage \/ StopReading
    \/ Receive \/ ReceiveTimeout \/ ParseMessage
    \/ RaiseShutdown

Spec == Init /\ [][Next]_vars

-----------------------------------------------------------------------------
(* Properties.                                                             *)

IsBookMap(b) ==
    \A id \in DOMAIN b :
        /\ b[id].id = id /\ b[id].side \in {"Bid", "Ask"}
        /\ b[id].price \in Nat /\ b[id].qty \in Nat

\* Types; a batch stays below the size that flushes it, since the loop tests
\* for it after every push.
ReplayTypeOK ==
    /\ next_flush \in 1 .. MaxMsgs
    /\ server \in {"reading", "done"}
    /\ client \in {"waiting", "parsing", "done", "panicked"}
    /\ received \in 0 .. Len(sent)
    /\ shutdown \in BOOLEAN
    /\ handler.tick \in 0 .. PollEvery - 1
    /\ \A s \in HandlerStats : handler.stats[s] \in Nat
    /\ \A l \in Registered(handler.registry) :
          IsBookMap(handler.registry.entries[l].book)
    /\ Len(batch) < next_flush \/ batch = <<>>

\* Replay and the packets' iterator agree on the frames: the messages read
\* back from all packets, the batch and the unread bytes, framed again, are
\* the file, every packet holds as many messages as its header says, and
\* nothing is left in the batch at the end.
FramesKept ==
    LET bodies == FlattenSeq([n \in DOMAIN sent |-> Iterated(sent[n])])
    IN /\ Blocks(bodies \o batch) \o buf = Bytes(file)
       /\ \A n \in DOMAIN sent :
            \/ sent[n] = EndOfSession
            \/ Len(Iterated(sent[n])) = sent[n].msg_count
       /\ server = "done" => batch = <<>>

\* The number of frames in the packets up to and including packet n.
FramesUpTo(packets, n) ==
    LET frames[k \in 0 .. n] ==
            IF k = 0 THEN 0
            ELSE frames[k - 1] + (IF packets[k] = EndOfSession THEN 0
                                  ELSE packets[k].msg_count)
    IN frames[n]

\* What the file means by the frames of packet n, up to the first that is no
\* message.
MeantBy(n) ==
    LET frames == SubSeq(file, FramesUpTo(sent, n - 1) + 1, FramesUpTo(sent, n))
        bad == {k \in DOMAIN frames : frames[k].says = NoMessage}
    IN SubSeq(frames, 1, IF bad = {} THEN Len(frames) ELSE Min(bad) - 1)

Agrees(msg, says) == \A name \in DOMAIN says : msg[name] = says[name]

\* A frame says what its bytes mean: the body is a message of a known type and
\* of its length, with the fields that it says it has, among them those that
\* registration depends on, or the frame says that it is no message.
Framed(bytes) == Len(bytes) >= 2 /\ BigEndian(SubSeq(bytes, 1, 2)) = Len(bytes) - 2

BodyOf(frame) == SubSeq(frame.bytes, 3, Len(frame.bytes))

IsMessage(body) ==
    /\ body # <<>> /\ body[1] \in Tags
    /\ Len(body) = TypeOf[body[1]].LEN

Means(frame) ==
    LET body == BodyOf(frame)
        says == frame.says
    IN IF IsMessage(body)
       THEN /\ says # NoMessage
            /\ Agrees(Decode(TypeOf[body[1]], body), says)
            /\ {"tag", "stock_locate"} \subseteq DOMAIN says
            /\ says.tag = StockDirectory.TAG => "stock" \in DOMAIN says
       ELSE says = NoMessage

\* The last frame of a file may be cut short.
CutShort(bytes) ==
    Len(bytes) < 2 \/ BigEndian(SubSeq(bytes, 1, 2)) > Len(bytes) - 2

FilesMeant ==
    \A f \in Files : \A n \in DOMAIN f :
        \/ Framed(f[n].bytes) /\ Means(f[n])
        \/ n = Len(f) /\ CutShort(f[n].bytes) /\ f[n].says = NoMessage

\* The handler is called with what the file means, message by message and in
\* order, whatever the batches; a frame that is no message costs the rest of
\* its packet, and shutdown or a panic the rest of the file.
DispatchedExactly ==
    LET meant == FlattenSeq([n \in 1 .. received |-> MeantBy(n)])
    IN /\ Len(applied) <= Len(meant)
       /\ \A n \in DOMAIN applied : Agrees(applied[n], meant[n].says)
       /\ client = "waiting" /\ ~shutdown => Len(applied) = Len(meant)

\* The directory messages among the applied ones that register locate l.
Directories(l) ==
    {n \in DOMAIN applied : /\ applied[n].tag = StockDirectory.TAG
                            /\ applied[n].stock_locate = l
                            /\ Watched(applied[n].stock)}

\* One message on a single book.
OnBook(book, msg) ==
    CASE msg.tag \in {AddOrderNoMPIDAttribution.TAG, AddOrderWithMPIDAttribution.TAG}
           /\ msg.buy_sell_indicator \in {<<66>>, <<83>>} ->
            BookAdd(book, [id |-> msg.order_reference_number,
                           side |-> IF msg.buy_sell_indicator = <<66>>
                                    THEN "Bid" ELSE "Ask",
                           price |-> msg.price, qty |-> msg.shares]).book
      [] msg.tag \in {OrderExecuted.TAG, OrderExecutedWithPrice.TAG} ->
            BookTake(book, msg.order_reference_number, msg.executed_shares).book
      [] msg.tag = OrderCancel.TAG ->
            BookTake(book, msg.order_reference_number, msg.cancelled_shares).book
      [] msg.tag = OrderDelete.TAG ->
            BookDelete(book, msg.order_reference_number).book
      [] msg.tag = OrderReplace.TAG ->
            BookReplace(book, msg.original_order_reference_number,
                        msg.new_order_reference_number, msg.price, msg.shares).book
      [] OTHER -> book

\* What the messages of locate l after the first m make of an empty book.
BookSince(msgs, l, m) ==
    LET book[n \in m .. Len(msgs)] ==
            IF n = m THEN NoEntries
            ELSE IF msgs[n].stock_locate = l THEN OnBook(book[n - 1], msgs[n])
            ELSE book[n - 1]
    IN book[Len(msgs)]

\* Every book is what the messages of its own locate since that locate's last
\* directory message make of an empty book: no message reaches another book,
\* none is applied to a book of an earlier registration, and exactly the
\* locates of watched symbols have a book.
BooksFollowFeed ==
    LET r == handler.registry IN
    \A l \in {msg.stock_locate : msg \in ToSet(applied)} \cup Registered(r) :
        /\ l \in Registered(r) <=> Directories(l) # {}
        /\ l \in Registered(r) =>
            LET last == Max(Directories(l))
            IN /\ r.entries[l].symbol = applied[last].stock
               /\ r.entries[l].book = BookSince(applied, l, last)

\* The orders of all books.
RestingIn(r) == UNION {{l} \X DOMAIN r.entries[l].book : l \in Registered(r)}
Resting == Cardinality(RestingIn(handler.registry))

\* The counters of the final summary account for the books: an order that
\* rests was added and not deleted, and while no order was replaced and no
\* locate registered twice, one that no longer rests was deleted, executed or
\* cancelled.
StatsExplainBooks ==
    LET s == handler.stats IN
    /\ Resting <= s.orders_added - s.orders_deleted
    /\ (/\ \A n \in DOMAIN applied : applied[n].tag # OrderReplace.TAG
        /\ \A l \in Registered(handler.registry) : Cardinality(Directories(l)) = 1)
       => Resting >= s.orders_added - s.orders_deleted - s.orders_executed
                     - s.orders_cancelled

\* The client thread panics only on the one locate that has no entry in the
\* Vecs, u16::MAX, and only with them: every other file is processed.
PanicsExplained ==
    handler.panicked =>
        /\ handler.registry.kind = "vec"
        /\ \E n \in DOMAIN file :
              /\ file[n].says # NoMessage
              /\ file[n].says.tag = StockDirectory.TAG
              /\ file[n].says.stock_locate >= MaxCapacity
              /\ Watched(file[n].says.stock)
=============================================================================
