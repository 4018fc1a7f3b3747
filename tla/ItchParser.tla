----------------------------- MODULE ItchParser -----------------------------
(***************************************************************************)
(* Length-prefixed framing and dispatch: itch5/src/parse.rs, the message   *)
(* iterator of moldudp/src/packet.rs, and the blocks that build_packet of  *)
(* moldudp/src/server.rs writes.  All three use the same frame, a length   *)
(* of two bytes and as many bytes of body.                                 *)
(***************************************************************************)
EXTENDS ItchMessages

\* Types as parse_stream's match lists them; the handler sees a message as
\* its type's TAG with the decoded fields.
Types ==
    {SystemEvent, StockDirectory, StockTradingAction, RegSHORestriction,
     MarketParticipantPosition, MWCBDeclineLevel, MWCBStatus,
     QuotingPeriodUpdate, LULDAuctionCollar, OperationalHalt,
     AddOrderNoMPIDAttribution, AddOrderWithMPIDAttribution, OrderExecuted,
     OrderExecutedWithPrice, OrderCancel, OrderDelete, OrderReplace, Trade,
     CrossTrade, BrokenTrade, NetOrderImbalanceIndicator,
     RetailPriceImprovementIndicator,
     DirectListingwithCapitalRaisePriceDiscovery}

Tags == {type.TAG : type \in Types}

TypeOf == [tag \in Tags |-> CHOOSE type \in Types : type.TAG = tag]

\* split_at_checked, for n <= Len(bytes).
SplitAt(bytes, n) ==
    <<SubSeq(bytes, 1, n), SubSeq(bytes, n + 1, Len(bytes))>>

\* One frame: its body and the rest of the buffer, or the error.
parse_one(buf) ==
    LET Error(error) == [error |-> error, body |-> <<>>, rest |-> buf]
        len == BigEndian(SubSeq(buf, 1, 2))
        split == SplitAt(SubSeq(buf, 3, Len(buf)), len)
    IN IF Len(buf) < 2 THEN Error("EmptyBuffer")
       ELSE IF Len(buf) < 2 + len THEN Error("MalformedData")
       ELSE IF len = 0 THEN Error("MalformedData")
       ELSE IF Head(split[1]) \notin Tags
       THEN Error("UnknownMessageType")
       ELSE [error |-> "None", body |-> split[1], rest |-> split[2]]

\* Mutant: a longer body is accepted.
CastableAtLeast(body) == Len(body) >= TypeOf[body[1]].LEN

\* The cast accepts a body of exactly the type's length.
Castable(body) == Len(body) = TypeOf[body[1]].LEN

cast(body) == Decode(TypeOf[body[1]], body)

-----------------------------------------------------------------------------
(* Packets.                                                                *)

\* A length prefix and the body.
Block(body) == <<Len(body) \div 256, Len(body) % 256>> \o body

Blocks(bodies) == FlattenSeq([n \in DOMAIN bodies |-> Block(bodies[n])])

\* Messages::next, on the bytes that are left and what was yielded so far.  It
\* moves on only when the bytes hold a length and as many bytes as it says.
NextMessage(it) ==
    LET len == BigEndian(SubSeq(it.bytes, 1, 2)) IN
    IF Len(it.bytes) < 2 \/ Len(it.bytes) < 2 + len THEN it
    ELSE [bytes |-> SubSeq(it.bytes, 3 + len, Len(it.bytes)),
          yielded |-> Append(it.yielded, SubSeq(it.bytes, 3, 2 + len))]

\* What the iterator yields in all, with `remaining' calls.
Messages(bytes, remaining) ==
    LET it[n \in 0 .. remaining] ==
            IF n = 0 THEN [bytes |-> bytes, yielded |-> <<>>]
            ELSE NextMessage(it[n - 1])
    IN it[remaining].yielded
=============================================================================
