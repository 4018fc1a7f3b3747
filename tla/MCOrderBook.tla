----------------------------- MODULE MCOrderBook -----------------------------
EXTENDS OrderBook, TLC

CONSTANTS o1, o2, o3

MCOrderId == {o1, o2, o3}
MCPrice == 1 .. 2
MCQuantity == 0 .. 2

Sym == Permutations(MCOrderId)

\* `reply' is an output: no action reads it and no invariant but TypeOK.
View == <<book, ahead>>
=============================================================================
