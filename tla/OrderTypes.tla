----------------------------- MODULE OrderTypes -----------------------------
(***************************************************************************)
(* The domain types of the order book (orderbook/src/types.rs), the        *)
(* results its operations return (orderbook/src/error.rs), and the order   *)
(* of arrival of resting orders, which is what "time priority" means.      *)
(*                                                                         *)
(* Order::ts is carried by the code and read by none of it: it is left     *)
(* out.                                                                    *)
(***************************************************************************)
EXTENDS Integers

CONSTANTS
    OrderId,   \* order reference numbers (u64)
    Price,     \* prices in ticks (i64)
    Quantity   \* share quantities an operation may carry (u64), zero included

ASSUME PriceAssumption == Price \subseteq Int
ASSUME QuantityAssumption == Quantity \subseteq Nat

Side == {"Bid", "Ask"}

\* Executions and cancels lower qty, so it ranges over Nat and not Quantity.
Order == [id : OrderId, side : Side, price : Price, qty : Nat]

\* The orders a caller may ask the book to add.
NewOrder == [id : OrderId, side : Side, price : Price, qty : Quantity]

SameLevel(o, p) == o.side = p.side /\ o.price = p.price

-----------------------------------------------------------------------------
(* Results.  A reply names the operation and either Ok(()), the BookError, *)
(* or Ok(Trade) with the trade.                                            *)

Ok(op) == [op |-> op, result |-> "Ok"]

Err(op, error) == [op |-> op, result |-> error]

Traded(op, id, price, qty) ==
    [op |-> op, result |-> "Trade", maker_id |-> id, price |-> price,
     qty |-> qty]

Operation == {"new", "add", "execute", "execute_at", "cancel", "delete",
              "replace"}

Outcome == {"Ok", "DuplicateOrder", "UnknownOrder", "OverExecute", "OverCancel"}

Reply == [op : Operation, result : Outcome]
         \cup [op : Operation, result : {"Trade"}, maker_id : OrderId,
               price : Price, qty : Quantity]

-----------------------------------------------------------------------------
(* Order of arrival.  A set of pairs <<x, y>> of resting orders of one     *)
(* price level, x having arrived before y.  `resting' maps the identifiers *)
(* in the book to their orders.                                            *)

Arrive(ahead, resting, order) ==
    ahead \cup {<<id, order.id>> :
                  id \in {x \in DOMAIN resting : SameLevel(resting[x], order)}}

Depart(ahead, id) == {pair \in ahead : id \notin {pair[1], pair[2]}}
=============================================================================
