------------------------------ MODULE MCReplay ------------------------------
(***************************************************************************)
(* Files for Replay.  The wire format is written out here once more, from  *)
(* the values of the fields, so that what a frame says does not come from  *)
(* the layouts of ItchMessages.                                            *)
(***************************************************************************)
EXTENDS Replay

\* Big-endian, for numbers below 2^16.
BE(n, width) == [i \in 1 .. width |->
                    IF i = width THEN n % 256
                    ELSE IF i = width - 1 THEN n \div 256 ELSE 0]
Zeros(n) == [i \in 1 .. n |-> 0]

AAA == <<65, 65, 65, 32, 32, 32, 32, 32>>
BBB == <<66, 66, 66, 32, 32, 32, 32, 32>>
CCC == <<67, 67, 67, 32, 32, 32, 32, 32>>

Frame(tag, locate, rest, says) ==
    [bytes |-> BE(11 + Len(rest), 2) \o <<tag>> \o BE(locate, 2)
               \o Zeros(8) \o rest,
     says |-> IF says = NoMessage THEN NoMessage
              ELSE [tag |-> tag, stock_locate |-> locate] @@ says]

Dir(locate, symbol) ==
    Frame(82, locate, symbol \o Zeros(20), [stock |-> symbol])
Add(locate, id, code, shares, price) ==
    Frame(65, locate,
          BE(id, 8) \o <<code>> \o BE(shares, 4) \o AAA \o BE(price, 4),
          [order_reference_number |-> id, buy_sell_indicator |-> <<code>>,
           shares |-> shares, price |-> price])
AddMPID(locate, id, code, shares, price) ==
    Frame(70, locate,
          BE(id, 8) \o <<code>> \o BE(shares, 4) \o AAA \o BE(price, 4) \o Zeros(4),
          [order_reference_number |-> id, buy_sell_indicator |-> <<code>>,
           shares |-> shares, price |-> price])
Exec(locate, id, shares) ==
    Frame(69, locate, BE(id, 8) \o BE(shares, 4) \o Zeros(8),
          [order_reference_number |-> id, executed_shares |-> shares])
ExecAt(locate, id, shares) ==
    Frame(67, locate, BE(id, 8) \o BE(shares, 4) \o Zeros(9) \o BE(300, 4),
          [order_reference_number |-> id, executed_shares |-> shares,
           execution_price |-> 300])
Cancel(locate, id, shares) ==
    Frame(88, locate, BE(id, 8) \o BE(shares, 4),
          [order_reference_number |-> id, cancelled_shares |-> shares])
Delete(locate, id) ==
    Frame(68, locate, BE(id, 8), [order_reference_number |-> id])
Replace(locate, old, new, shares, price) ==
    Frame(85, locate, BE(old, 8) \o BE(new, 8) \o BE(shares, 4) \o BE(price, 4),
          [original_order_reference_number |-> old,
           new_order_reference_number |-> new, shares |-> shares, price |-> price])

\* Tags with the lengths of the bodies on the wire.
Lengths ==
    {<<83, 12>>, <<82, 39>>, <<72, 25>>, <<89, 20>>, <<76, 26>>, <<86, 35>>,
     <<87, 12>>, <<75, 28>>, <<74, 35>>, <<104, 21>>, <<65, 36>>, <<70, 40>>,
     <<69, 31>>, <<67, 36>>, <<88, 23>>, <<68, 19>>, <<85, 35>>, <<80, 44>>,
     <<81, 40>>, <<66, 19>>, <<73, 50>>, <<78, 20>>, <<79, 48>>}

\* A body of each type, of the right length, one byte short and one long.
Sized == {Frame(t[1], 1, Zeros(t[2] - 11 + d),
                IF d # 0 THEN NoMessage
                ELSE IF t[1] = 82 THEN [stock |-> Zeros(8)] ELSE [tag |-> t[1]]) :
            t \in Lengths, d \in {-1, 0, 1}}

\* What ends the replay: an unknown tag, an empty body, half a length prefix
\* and a body that is cut short.
Ends == {Frame(90, 1, Zeros(8), NoMessage),
         [bytes |-> <<0, 0>>, says |-> NoMessage],
         [bytes |-> <<0>>, says |-> NoMessage],
         [bytes |-> <<0, 12, 83, 0, 1>>, says |-> NoMessage]}

Orders ==
    {AddMPID(1, 7, 66, 2, 257), Exec(1, 7, 2), ExecAt(1, 7, 5),
     Cancel(1, 7, 4), Delete(1, 7), Replace(1, 7, 7, 4, 299)}

\* Another book's, none's, with an unknown side, and directory messages.
Others ==
    {Add(2, 7, 66, 5, 300), Exec(2, 7, 6), Delete(0, 7), Add(1, 9, 88, 5, 300)}
Directory == {Dir(1, AAA), Dir(1, CCC), Dir(2, AAA), Dir(3, BBB)}

\* Two orders of one book, their deletion and replacement, and the book's
\* directory message once more.
Short == {Add(1, 8, 66, 2, 257), Delete(1, 8), Replace(1, 7, 8, 4, 299),
          Dir(1, BBB)}

MCFiles ==
    LET add == Add(1, 7, 83, 5, 300)
    IN {<<Dir(1, AAA), f, add>> : f \in Sized}
       \cup {<<Dir(1, AAA), add, f>> : f \in Ends}
       \cup {<<Dir(1, AAA), add, f, g>> : f \in Orders,
                                         g \in Orders \cup Others \cup Directory}
       \cup {<<Dir(1, AAA), add, f, g, h>> :
                f \in Short, g \in Short, h \in {Add(1, 8, 66, 2, 257), Delete(1, 8)}}
       \cup {<<add, d, f>> : d \in Directory, f \in Orders \cup Others}

\* What the frames say is what their bytes mean.
ASSUME MeantAssumption == FilesMeant

MCWatch == {AAA, BBB}
=============================================================================
