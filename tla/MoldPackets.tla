----------------------------- MODULE MoldPackets -----------------------------
(***************************************************************************)
(* MoldUDP64 packets (moldudp/src/packet.rs) and how the server cuts a     *)
(* batch of messages into packets (moldudp/src/server.rs).                 *)
(*                                                                         *)
(* A message is opaque to the protocol.  It is told apart by `no', its     *)
(* number among the messages handed to the server, and has a length.       *)
(* Session identifiers are compared and never looked into; pad_session is  *)
(* taken to be applied to the members of Session already.                  *)
(***************************************************************************)
EXTENDS Integers, SequencesExt

CONSTANTS
    Session,      \* padded session identifiers
    MsgLen,       \* lengths a message may have
    MaxPayload,   \* max_payload of the server
    U16Max        \* u16::MAX, the largest msg_count

ASSUME MsgLenAssumption == MsgLen \subseteq Nat
ASSUME MaxPayloadAssumption == MaxPayload \in Nat
ASSUME U16MaxAssumption == U16Max \in Nat \ {0}

HEARTBEAT_IDENT == 0
END_OF_SESSION_IDENT == U16Max

Message == [no : Nat, len : MsgLen]

\* The 20 bytes of a header alone, which is what a re-request is.
PacketHeader == [session : Session, seq_num : Nat, msg_count : 0 .. U16Max]

Packet == [session : Session, seq_num : Nat, msg_count : 0 .. U16Max,
           messages : Seq(Message)]

\* More than u16::MAX messages would panic: ServerTypeOK has msg_count in range.
build_packet(session, seq_num, msgs) ==
    [session |-> session, seq_num |-> seq_num, msg_count |-> Len(msgs),
     messages |-> msgs]

build_special(session, seq_num, msg_count) ==
    [session |-> session, seq_num |-> seq_num, msg_count |-> msg_count,
     messages |-> <<>>]

packet_kind(p) ==
    CASE p.msg_count = HEARTBEAT_IDENT -> "Heartbeat"
      [] p.msg_count = END_OF_SESSION_IDENT -> "EndOfSession"
      [] OTHER -> "Standard"

\* The sequence numbers a range of `count' messages from `first' takes.
Numbers(first, count) == first .. first + count - 1

\* The sequence numbers that a packet says its messages have.
Carries(p) ==
    IF packet_kind(p) = "Standard" THEN Numbers(p.seq_num, p.msg_count) ELSE {}

-----------------------------------------------------------------------------
(* chunk_messages: greedy, a message that would not fit starts a chunk.    *)
(* Lengths of messages are added up, without their 2-byte prefixes.        *)

NoChunks == [chunks |-> <<>>, current |-> <<>>, current_size |-> 0]

AddToChunk(c, msg) ==
    IF c.current # <<>> /\ c.current_size + msg.len > MaxPayload
    THEN [chunks |-> Append(c.chunks, c.current), current |-> <<msg>>,
          current_size |-> msg.len]
    ELSE [c EXCEPT !.current = Append(@, msg), !.current_size = @ + msg.len]

chunk_messages(msgs) ==
    LET c == FoldLeft(AddToChunk, NoChunks, msgs)
    IN IF c.current = <<>> THEN c.chunks ELSE Append(c.chunks, c.current)

=============================================================================
