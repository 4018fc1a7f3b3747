------------------------------ MODULE OrderBook ------------------------------
(***************************************************************************)
(* One order book under any sequence of operations (orderbook/src/book.rs).*)
(* The book has a single owner, so an operation is one step.  Duplicate,   *)
(* unknown and excessive requests are inputs like any other: the feed is a *)
(* lossy one, and its consumer applies whatever arrives.                   *)
(*                                                                         *)
(* `ahead' is a history variable: it records who arrived before whom at a  *)
(* price level, no action reads it, and the properties compare the links   *)
(* of the code with it.                                                    *)
(***************************************************************************)
EXTENDS BookInvariants, FiniteSetsExt

VARIABLES
    book,    \* the OrderBook value
    reply,   \* what the last operation returned
    ahead    \* history: priority between the orders of a level

vars == <<book, reply, ahead>>

Init ==
    /\ book = EmptyBook
    /\ reply = Ok("new")
    /\ ahead = {}

-----------------------------------------------------------------------------
(* Operations.                                                             *)

Known(id) == id \in DOMAIN book.orders

\* The order `id' names, for a known id.
Held(id) == Node(book, book.orders[id]).order

\* An early return with an error, before anything was changed.
Reject(op, error) == reply' = Err(op, error) /\ UNCHANGED <<book, ahead>>

Add(order) ==
    \/ /\ Known(order.id)
       /\ Reject("add", "DuplicateOrder")
    \/ /\ ~Known(order.id)
       /\ HasRoom(book.pool)
       /\ book' = AddOrder(book, order)
       /\ ahead' = Arrive(ahead, Resting(book), order)
       /\ reply' = Ok("add")

\* Mutant: the quantity is not checked against what rests.
TakeFromUnchecked(op, id, qty, excess, done) ==
    \/ /\ ~Known(id)
       /\ Reject(op, "UnknownOrder")
    \/ /\ Known(id)
       /\ book' = Reduce(book, book.orders[id], qty)
       /\ ahead' = IF qty = Held(id).qty THEN Depart(ahead, id) ELSE ahead
       /\ reply' = done

\* execute_inner and cancel, which differ in the error and in the reply.
TakeFrom(op, id, qty, excess, done) ==
    \/ /\ ~Known(id)
       /\ Reject(op, "UnknownOrder")
    \/ /\ Known(id)
       /\ qty > Held(id).qty
       /\ Reject(op, excess)
    \/ /\ Known(id)
       /\ qty =< Held(id).qty
       /\ book' = Reduce(book, book.orders[id], qty)
       /\ ahead' = IF qty = Held(id).qty THEN Depart(ahead, id) ELSE ahead
       /\ reply' = done

Execute(id, qty) ==
    TakeFrom("execute", id, qty, "OverExecute",
             Traded("execute", id, Held(id).price, qty))

ExecuteAt(id, qty, price) ==
    TakeFrom("execute_at", id, qty, "OverExecute",
             Traded("execute_at", id, price, qty))

Cancel(id, qty) == TakeFrom("cancel", id, qty, "OverCancel", Ok("cancel"))

Delete(id) ==
    \/ /\ ~Known(id)
       /\ Reject("delete", "UnknownOrder")
    \/ /\ Known(id)
       /\ book' = Unlink(book, book.orders[id])
       /\ ahead' = Depart(ahead, id)
       /\ reply' = Ok("delete")

\* Mutant: a duplicate identifier is refused before the old order leaves.
ReplaceChecksFirst(old_id, new_id, price, qty) ==
    \/ /\ ~Known(old_id)
       /\ Reject("replace", "UnknownOrder")
    \/ /\ Known(old_id) /\ Known(new_id) /\ new_id # old_id
       /\ Reject("replace", "DuplicateOrder")
    \/ /\ Known(old_id) /\ (Known(new_id) => new_id = old_id)
       /\ LET rest == Unlink(book, book.orders[old_id])
              order == [id |-> new_id, side |-> Held(old_id).side,
                        price |-> price, qty |-> qty]
          IN /\ book' = AddOrder(rest, order)
             /\ ahead' = Arrive(Depart(ahead, old_id), Resting(rest), order)
             /\ reply' = Ok("replace")

\* unlink, then add: when add refuses a duplicate identifier the old order
\* has already left.
Replace(old_id, new_id, price, qty) ==
    \/ /\ ~Known(old_id)
       /\ Reject("replace", "UnknownOrder")
    \/ /\ Known(old_id)
       /\ LET rest == Unlink(book, book.orders[old_id])
              order == [id |-> new_id, side |-> Held(old_id).side,
                        price |-> price, qty |-> qty]
          IN \/ /\ new_id \in DOMAIN rest.orders
                /\ book' = rest
                /\ ahead' = Depart(ahead, old_id)
                /\ reply' = Err("replace", "DuplicateOrder")
             \/ /\ new_id \notin DOMAIN rest.orders
                /\ book' = AddOrder(rest, order)
                /\ ahead' = Arrive(Depart(ahead, old_id), Resting(rest), order)
                /\ reply' = Ok("replace")

Next ==
    \/ \E order \in NewOrder : Add(order)
    \/ \E id \in OrderId, qty \in Quantity : Execute(id, qty)
    \/ \E id \in OrderId, qty \in Quantity, price \in Price :
          ExecuteAt(id, qty, price)
    \/ \E id \in OrderId, qty \in Quantity : Cancel(id, qty)
    \/ \E id \in OrderId : Delete(id)
    \/ \E old_id, new_id \in OrderId, price \in Price, qty \in Quantity :
          Replace(old_id, new_id, price, qty)

Spec == Init /\ [][Next]_vars

-----------------------------------------------------------------------------
(* Properties.                                                             *)

\* Every field has its type; quantities and counters are natural numbers, so
\* none of the code's unsigned subtractions went below zero.
TypeOK ==
    /\ IsBook(book)
    /\ reply \in Reply
    /\ ahead \subseteq OrderId \X OrderId

\* No operation panics in any reachable state, whatever it is asked to do:
\* neither at the unreachable! of Pool::alloc, get and get_mut, nor at the
\* expect("level must exist for live order") of execute_inner, cancel and
\* unlink, nor by an underflow of total_qty or order_count.  The last
\* conjunct is about replace, whose add runs after its unlink.
PanicFree ==
    /\ AddSafe(book)
    /\ \A id \in DOMAIN book.orders :
          /\ UnlinkSafe(book, book.orders[id])
          /\ AddSafe(Unlink(book, book.orders[id]))

\* orderbook/README.md, roadmap: the "OrderId -> Index map being injective
\* onto live slots"; and the free list holds slots that are not live, each
\* of them once.
PoolConsistent == MapOntoLive(book) /\ FreeList(book)

\* At every level the linked list is the queue of arrival, whatever was
\* executed, cancelled, deleted or replaced in the middle of it ("so time
\* priority is preserved", add), and levels are where orders rest.
TimePriority ==
    /\ Ranked(book, ahead)
    /\ Linked(book, ahead)
    /\ LevelEnds(book)

\* orderbook/README.md, roadmap: "level total_qty equals the sum of resting
\* order qtys at that price ... Same for order_count".
LevelAggregates ==
    /\ Counted(book)
    /\ \A key \in DOMAIN book.levels :
          book.levels[key].total_qty =
             MapThenSumSet(LAMBDA i : Node(book, i).order.qty,
                           LiveAt(book, key))

\* Walking a list from its head passes, before each order, exactly the
\* quantity of the orders that arrived before it, and total_qty at the end.
QueuePosition ==
    IsQueuePosition(book, ahead,
        [i \in Live(book) |->
            MapThenSumSet(LAMBDA k : Node(book, k).order.qty,
                          {k \in Live(book) : Before(book, ahead, k, i)})])

\* No slot is leaked: the pool grows only when every slot it has is live, so
\* its slots number the most orders that ever rested at once.
NoSlotLeak ==
    LET free == DOMAIN book.pool.slots \ Live(book)
        led_to == {book.pool.free_head} \cup {Node(book, i).next : i \in free}
    IN free \subseteq led_to

\* best_bid, best_ask, spread and mid, which read levels only, agree with the
\* resting orders: the best price of each side and all that rests there, and
\* a mid price between the two unless the book is crossed.
TopOfBook ==
    LET on(side) == {id \in DOMAIN book.orders : Held(id).side = side}
        prices(side) == {Held(id).price : id \in on(side)}
        touch(side, p) ==
            [price |-> p,
             qty |-> MapThenSumSet(LAMBDA id : Held(id).qty,
                                   {id \in on(side) : Held(id).price = p})]
        bid == Max(prices("Bid"))
        ask == Min(prices("Ask"))
        two_sided == on("Bid") # {} /\ on("Ask") # {}
    IN /\ BestBid(book) = IF on("Bid") = {} THEN {} ELSE {touch("Bid", bid)}
       /\ BestAsk(book) = IF on("Ask") = {} THEN {} ELSE {touch("Ask", ask)}
       /\ Spread(book) = IF two_sided THEN {ask - bid} ELSE {}
       /\ two_sided /\ bid =< ask =>
             \E m \in bid .. ask : /\ Mid(book) = {m}
                                  /\ 2 * m - (bid + ask) \in -1 .. 1

\* The book implements the abstract one: same replies, and the orders and the
\* priorities that its operations promise.
PriceTime == INSTANCE PriceTimeBook WITH resting <- Resting(book)
ImplementsPriceTime == PriceTime!Spec

=============================================================================
