-------------------------------- MODULE MCTui --------------------------------
EXTENDS Tui

\* Symbols A, AB, B and C, in this order.
Sym(first, second) == <<first, second, 32, 32, 32, 32, 32, 32>>

Dir(locate, first, second) ==
    [tag |-> 82, stock_locate |-> locate, stock |-> Sym(first, second)]
Add(locate, id, code, price) ==
    [tag |-> 65, stock_locate |-> locate, order_reference_number |-> id,
     buy_sell_indicator |-> <<code>>, shares |-> id, price |-> price]
Del(locate, id) ==
    [tag |-> 68, stock_locate |-> locate, order_reference_number |-> id]

\* Symbols that arrive in an order that is not the list's, with a locate that
\* is given to another symbol; two locates with one symbol; one book with
\* several levels, in which the best ask goes.
MCFeeds ==
    {<<Dir(2, 66, 32), Dir(1, 67, 32), Dir(3, 65, 66), Dir(0, 65, 32),
       Add(3, 1, 66, 5), Dir(2, 65, 65)>>,
     <<Dir(1, 66, 32), Add(1, 1, 66, 5), Dir(0, 66, 32), Dir(1, 66, 32)>>,
     <<Dir(1, 65, 32), Add(1, 1, 66, 3), Add(1, 2, 66, 4), Add(1, 3, 83, 6),
       Add(1, 4, 83, 7), Del(1, 3)>>}

\* Characters that are typed as well: slash, a, Ctrl-C.
MCKeys ==
    {Char(47), Char(97), Ctrl(99), Named("Esc"), Named("Enter"),
     Named("Backspace"), Named("Down"), Named("Up"), Named("End"),
     Named("PageUp")}

MCWatch == {}
=============================================================================
