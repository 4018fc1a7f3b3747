---------------------------- MODULE ItchMessages ----------------------------
(***************************************************************************)
(* The layouts of the ITCH 5.0 messages (itch5/src/messages.rs).  A body   *)
(* is a sequence of bytes; a type is its TAG and its fields in wire order. *)
(* A field is a big-endian number or, for symbols, codes and identifiers   *)
(* that are only compared, the raw bytes.  An accessor returns the field   *)
(* of its name, so a decoded message is the record of its fields.  The     *)
(* enumerations that name the codes are left out, except the side.         *)
(***************************************************************************)
EXTENDS Integers, SequencesExt

Num(name, width) == [name |-> name, width |-> width, raw |-> FALSE]
Raw(name, width) == [name |-> name, width |-> width, raw |-> TRUE]

\* The types of fields.
U16(name) == Num(name, 2)
U32(name) == Num(name, 4)
U64(name) == Num(name, 8)
Price4(name) == Num(name, 4)
Price8(name) == Num(name, 8)
Timestamp(name) == Num(name, 6)
Symbol(name) == Raw(name, 8)
Code(name) == Raw(name, 1)

\* The common head, the tag included.
Common == <<Num("tag", 1), U16("stock_locate"), U16("tracking_number"),
          Timestamp("timestamp")>>

\* The bytes of the first n fields.
Width(fields, n) ==
    LET width[k \in 0 .. n] ==
            IF k = 0 THEN 0 ELSE width[k - 1] + fields[k].width
    IN width[n]

\* LEN is size_of the packed struct; layout has the place of every field.
Layout(TAG, fields) ==
    LET IndexOf(name) == CHOOSE n \in DOMAIN fields : fields[n].name = name
    IN [TAG |-> TAG, LEN |-> Width(fields, Len(fields)),
        layout |-> [name \in {fields[n].name : n \in DOMAIN fields} |->
                      LET n == IndexOf(name)
                      IN [first |-> Width(fields, n - 1) + 1,
                          last |-> Width(fields, n), raw |-> fields[n].raw]]]

Type(TAG, fields) == Layout(TAG, Common \o fields)

-----------------------------------------------------------------------------
(* Administrative messages.                                                *)

SystemEvent == Type(83, <<Code("event_code")>>)                        \* 'S'

StockDirectory == Type(82,                                             \* 'R'
    <<Symbol("stock"), Code("market_category"),
      Code("financial_status_indicator"), U32("round_lot_size"),
      Code("round_lots_only"), Code("issue_classification"),
      Raw("issue_sub_type", 2), Code("authenticity"),
      Code("short_sale_threshold_indicator"), Code("ipo_flag"),
      Code("luld_reference_price_tier"), Code("etp_flag"),
      U32("etp_leverage_factor"), Code("inverse_indicator")>>)

StockTradingAction == Type(72,                                         \* 'H'
    <<Symbol("stock"), Code("trading_state"), Code("reserved"),
      Raw("reason", 4)>>)

\* The struct calls stock_locate `locate_code'.
RegSHORestriction == Type(89, <<Symbol("stock"), Code("reg_sho_action")>>) \* 'Y'

MarketParticipantPosition == Type(76,                                  \* 'L'
    <<Raw("mpid", 4), Symbol("stock"), Code("primary_market_maker"),
      Code("market_maker_mode"), Code("market_participant_state")>>)

MWCBDeclineLevel == Type(86,                                           \* 'V'
    <<Price8("level_1"), Price8("level_2"), Price8("level_3")>>)

MWCBStatus == Type(87, <<Code("breached_level")>>)                     \* 'W'

QuotingPeriodUpdate == Type(75,                                        \* 'K'
    <<Symbol("stock"), U32("ipo_quotation_release_time"),
      Code("ipo_quotation_release_qualifier"), Price4("ipo_price")>>)

LULDAuctionCollar == Type(74,                                          \* 'J'
    <<Symbol("stock"), Price4("auction_collar_reference_price"),
      Price4("upper_auction_collar_price"),
      Price4("lower_auction_collar_price"), U32("auction_collar_extension")>>)

OperationalHalt == Type(104,                                           \* 'h'
    <<Symbol("stock"), Code("market_code"), Code("operational_halt_action")>>)

-----------------------------------------------------------------------------
(* Orders.                                                                 *)

AddOrderNoMPIDAttribution == Type(65,                                  \* 'A'
    <<U64("order_reference_number"), Code("buy_sell_indicator"),
      U32("shares"), Symbol("stock"), Price4("price")>>)

AddOrderWithMPIDAttribution == Type(70,                                \* 'F'
    <<U64("order_reference_number"), Code("buy_sell_indicator"),
      U32("shares"), Symbol("stock"), Price4("price"), Raw("attribution", 4)>>)

OrderExecuted == Type(69,                                              \* 'E'
    <<U64("order_reference_number"), U32("executed_shares"),
      U64("match_number")>>)

OrderExecutedWithPrice == Type(67,                                     \* 'C'
    <<U64("order_reference_number"), U32("executed_shares"),
      U64("match_number"), Code("printable"), Price4("execution_price")>>)

OrderCancel == Type(88,                                                \* 'X'
    <<U64("order_reference_number"), U32("cancelled_shares")>>)

OrderDelete == Type(68, <<U64("order_reference_number")>>)             \* 'D'

OrderReplace == Type(85,                                               \* 'U'
    <<U64("original_order_reference_number"),
      U64("new_order_reference_number"), U32("shares"), Price4("price")>>)

-----------------------------------------------------------------------------
(* Trades and auctions.                                                    *)

Trade == Type(80,                                                      \* 'P'
    <<U64("order_reference_number"), Code("buy_sell_indicator"),
      U32("shares"), Symbol("stock"), Price4("price"), U64("match_number")>>)

CrossTrade == Type(81,                                                 \* 'Q'
    <<U64("shares"), Symbol("stock"), Price4("cross_price"),
      U64("match_number"), Code("cross_type")>>)

BrokenTrade == Type(66, <<U64("match_number")>>)                       \* 'B'

NetOrderImbalanceIndicator == Type(73,                                 \* 'I'
    <<U64("paired_shares"), U64("imbalance_shares"),
      Code("imbalance_direction"), Symbol("stock"), Price4("far_price"),
      Price4("near_price"), Price4("current_reference_price"),
      Code("cross_type"), Code("price_variation_indicator")>>)

RetailPriceImprovementIndicator == Type(78,                            \* 'N'
    <<Symbol("stock"), Code("interest_flag")>>)

DirectListingwithCapitalRaisePriceDiscovery == Type(79,                \* 'O'
    <<Symbol("stock"), Code("open_eligibility_status"),
      Price4("minimum_allowable_price"), Price4("maximum_allowable_price"),
      Price4("near_execution_price"), U64("near_execution_time"),
      Price4("lower_price_range_collar"), Price4("upper_price_range_collar")>>)

-----------------------------------------------------------------------------
(* Reading a body.                                                         *)

\* TLC's integers have 32 bits: the numbers that occur are below 2^31.
BigEndian(bytes) ==
    LET value[n \in 0 .. Len(bytes)] ==
            IF n = 0 THEN 0 ELSE 256 * value[n - 1] + bytes[n]
    IN value[Len(bytes)]

\* The fields of a body of length LEN, by name.
Decode(type, body) ==
    [name \in DOMAIN type.layout |->
        LET field == type.layout[name]
            bytes == SubSeq(body, field.first, field.last)
        IN IF field.raw THEN bytes ELSE BigEndian(bytes)]

\* BuySellIndicator::from_byte; an unknown byte is neither side.
BuySellIndicator(code) ==
    CASE code = <<66>> -> "Buy"
      [] code = <<83>> -> "Sell"
      [] OTHER -> "Unknown"
=============================================================================
