---------------------------- MODULE PriceTimeBook ----------------------------
(***************************************************************************)
(* What an order book promises, without pool, links, levels or counters:   *)
(* a map from identifiers to resting orders, and for every two orders of   *)
(* one price level which of them is ahead.  The documentation of           *)
(* orderbook/src/book.rs states it per event: add goes to the tail of its  *)
(* level, executions and cancels keep the place of what is left, replace   *)
(* loses it.                                                               *)
(***************************************************************************)
EXTENDS OrderTypes

VARIABLES
    resting,   \* identifiers in the book -> Order
    ahead,     \* <<x, y>>: x and y rest at one level and x has priority
    reply      \* what the last operation returned

vars == <<resting, ahead, reply>>

Init ==
    /\ resting = [x \in {} |-> x]
    /\ ahead = {}
    /\ reply = Ok("new")

Fail(op, error) == reply' = Err(op, error) /\ UNCHANGED <<resting, ahead>>

Without(id) == [x \in DOMAIN resting \ {id} |-> resting[x]]

With(r, order) ==
    [x \in DOMAIN r \cup {order.id} |-> IF x = order.id THEN order ELSE r[x]]

\* The order leaves and nothing else changes.
Leave(id) ==
    /\ resting' = Without(id)
    /\ ahead' = Depart(ahead, id)

\* The order keeps its place with less quantity, or leaves with none.
Take(id, qty) ==
    IF resting[id].qty = qty
    THEN Leave(id)
    ELSE resting' = [resting EXCEPT ![id].qty = @ - qty] /\ UNCHANGED ahead

Add(order) ==
    \/ /\ order.id \in DOMAIN resting
       /\ Fail("add", "DuplicateOrder")
    \/ /\ order.id \notin DOMAIN resting
       /\ resting' = With(resting, order)
       /\ ahead' = Arrive(ahead, resting, order)
       /\ reply' = Ok("add")

\* Take qty from a resting order that has as much; `done' is the reply.
Fill(op, id, qty, excess, done) ==
    \/ /\ id \notin DOMAIN resting
       /\ Fail(op, "UnknownOrder")
    \/ /\ id \in DOMAIN resting
       /\ resting[id].qty < qty
       /\ Fail(op, excess)
    \/ /\ id \in DOMAIN resting
       /\ resting[id].qty >= qty
       /\ Take(id, qty)
       /\ reply' = done

\* The trade prints at the resting price ...
Execute(id, qty) ==
    Fill("execute", id, qty, "OverExecute",
         Traded("execute", id, resting[id].price, qty))

\* ... or at one that is given.
ExecuteAt(id, qty, price) ==
    Fill("execute_at", id, qty, "OverExecute",
         Traded("execute_at", id, price, qty))

Cancel(id, qty) == Fill("cancel", id, qty, "OverCancel", Ok("cancel"))

Delete(id) ==
    \/ /\ id \notin DOMAIN resting
       /\ Fail("delete", "UnknownOrder")
    \/ /\ id \in DOMAIN resting
       /\ Leave(id)
       /\ reply' = Ok("delete")

\* The old order leaves in every case.  The new one takes its side, and
\* enters unless its identifier is that of another resting order.
Replace(old_id, new_id, price, qty) ==
    \/ /\ old_id \notin DOMAIN resting
       /\ Fail("replace", "UnknownOrder")
    \/ /\ old_id \in DOMAIN resting
       /\ new_id \in DOMAIN resting \ {old_id}
       /\ Leave(old_id)
       /\ reply' = Err("replace", "DuplicateOrder")
    \/ /\ old_id \in DOMAIN resting
       /\ new_id \notin DOMAIN resting \ {old_id}
       /\ LET order == [id |-> new_id, side |-> resting[old_id].side,
                        price |-> price, qty |-> qty]
          IN /\ resting' = With(Without(old_id), order)
             /\ ahead' = Arrive(Depart(ahead, old_id), Without(old_id), order)
       /\ reply' = Ok("replace")

Next ==
    \/ \E order \in NewOrder : Add(order)
    \/ \E id \in OrderId, qty \in Quantity : Execute(id, qty) \/ Cancel(id, qty)
    \/ \E id \in OrderId, qty \in Quantity, price \in Price :
          ExecuteAt(id, qty, price)
    \/ \E id \in OrderId : Delete(id)
    \/ \E old_id, new_id \in OrderId, price \in Price, qty \in Quantity :
          Replace(old_id, new_id, price, qty)

Spec == Init /\ [][Next]_vars

=============================================================================
