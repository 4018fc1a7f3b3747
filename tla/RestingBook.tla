----------------------------- MODULE RestingBook -----------------------------
(***************************************************************************)
(* A book as the application sees it (orderbook/src/book.rs): the map from *)
(* identifiers to resting orders of PriceTimeBook, which OrderBook         *)
(* implements (theorem Refinement of OrderBookProofs), with the calls as   *)
(* operators, so that one registry can hold many books.  Priority within a *)
(* level is left out: no caller in the application reads it.               *)
(***************************************************************************)
EXTENDS Integers, SequencesExt

\* Maps with insertion and removal.
NoEntries == [x \in {} |-> x]
Insert(f, k, v) == [x \in DOMAIN f \cup {k} |-> IF x = k THEN v ELSE f[x]]
Without(f, k) == Restrict(f, DOMAIN f \ {k})

-----------------------------------------------------------------------------
(* Calls.  Each returns Ok or Err with the book it leaves behind.          *)

Done(book) == [ok |-> TRUE, book |-> book]
Failed(book) == [ok |-> FALSE, book |-> book]

BookAdd(b, order) ==
    IF order.id \in DOMAIN b THEN Failed(b)
    ELSE Done(Insert(b, order.id, order))

\* execute, execute_at and cancel: they differ in errors and replies only.
BookTake(b, id, qty) ==
    IF id \notin DOMAIN b THEN Failed(b)
    ELSE IF qty > b[id].qty THEN Failed(b)
    ELSE IF qty = b[id].qty THEN Done(Without(b, id))
    ELSE Done([b EXCEPT ![id].qty = @ - qty])

\* Mutant: an unknown order is deleted, too.
BookDeleteAlways(b, id) == Done(Without(b, id))

BookDelete(b, id) ==
    IF id \in DOMAIN b THEN Done(Without(b, id)) ELSE Failed(b)

\* The old order has left when add refuses the new one.
BookReplace(b, old_id, new_id, price, qty) ==
    IF old_id \in DOMAIN b
    THEN BookAdd(Without(b, old_id),
                 [id |-> new_id, side |-> b[old_id].side, price |-> price,
                  qty |-> qty])
    ELSE Failed(b)

-----------------------------------------------------------------------------
(* Queries.  Levels are the prices at which orders rest, with the sum of   *)
(* their quantities (LevelAggregates of OrderBook).                        *)

OrdersAt(b, side, price) ==
    {id \in DOMAIN b : b[id].side = side /\ b[id].price = price}

TotalQty(b, side, price) ==
    FoldSet(LAMBDA id, sum : b[id].qty + sum, 0, OrdersAt(b, side, price))

SideLevels(b, side) ==
    {[price |-> p, qty |-> TotalQty(b, side, p)] :
        p \in {b[id].price : id \in {x \in DOMAIN b : b[x].side = side}}}

\* The members of S from first to last, where R is the strict order between
\* them, as a set of pairs: number n has n - 1 members before it.
Sorted(S, R) ==
    [n \in 1 .. Cardinality(S) |->
        CHOOSE x \in S : Cardinality({y \in S : <<y, x>> \in R}) = n - 1]

\* Levels, or rows, by price.
HighToLow(S) == Sorted(S, {xy \in S \X S : xy[1].price > xy[2].price})
LowToHigh(S) == Sorted(S, {xy \in S \X S : xy[1].price < xy[2].price})

\* iter().take(n)
Take(seq, n) == SubSeq(seq, 1, Min({n, Len(seq)}))

\* Top n levels of each side, near to far.
Depth(b, n) ==
    [bids |-> Take(HighToLow(SideLevels(b, "Bid")), n),
     asks |-> Take(LowToHigh(SideLevels(b, "Ask")), n)]
=============================================================================
