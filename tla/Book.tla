-------------------------------- MODULE Book --------------------------------
(***************************************************************************)
(* The representation of one order book (orderbook/src/book.rs, pool.rs,   *)
(* level.rs) and what its operations compute on it.                        *)
(*                                                                         *)
(* A book is a record                                                      *)
(*   levels  the BTreeMaps `bids' and `asks' as one partial function keyed *)
(*           by <<side, price>>                                            *)
(*   orders  OrderId -> Index, the HashMap                                 *)
(*   pool    the arena: slots is a function on 0 .. len - 1, the Vec, and  *)
(*           free_head starts the free list                                *)
(*                                                                         *)
(* The operations are operators on books, so that the specifications of    *)
(* one book and of a registry of books use the same definitions.  They are *)
(* meaningful only where the code does not panic; AddSafe and UnlinkSafe   *)
(* say where that is.                                                      *)
(***************************************************************************)
EXTENDS OrderTypes

CONSTANT NIL   \* u32::MAX in the code, the index that means "none"

ASSUME NILAssumption == NIL \in Nat \ {0}

Index == 0 .. NIL - 1
Link == 0 .. NIL

\* Insertion into, and removal from, a map.
Put(f, k, v) == [x \in DOMAIN f \cup {k} |-> IF x = k THEN v ELSE f[x]]
Remove(f, k) == [x \in DOMAIN f \ {k} |-> f[x]]

-----------------------------------------------------------------------------
(* The pool (orderbook/src/pool.rs).                                       *)

Occupied(order, prev, next) ==
    [kind |-> "Occupied", order |-> order, prev |-> prev, next |-> next]
FreeSlot(next) == [kind |-> "Free", next |-> next]

OccupiedSlots == [kind : {"Occupied"}, order : Order, prev : Link, next : Link]
FreeSlots == [kind : {"Free"}, next : Link]

LiveSlots(slots) == {i \in DOMAIN slots : slots[i].kind = "Occupied"}

\* The slot Pool::alloc takes: the head of the free list, else a new one.
AllocIndex(pool) == IF pool.free_head # NIL THEN pool.free_head ELSE pool.len

\* The slot count stays below u32::MAX, which alloc only debug_asserts.
HasRoom(pool) == pool.free_head # NIL \/ pool.len < NIL

PoolAlloc(pool, node) ==
    IF pool.free_head # NIL
    THEN [slots |-> Put(pool.slots, pool.free_head, node),
          len |-> pool.len,
          free_head |-> pool.slots[pool.free_head].next]
    ELSE [slots |-> Put(pool.slots, pool.len, node),
          len |-> pool.len + 1,
          free_head |-> NIL]

\* Mutant: the freed slot forgets the free list it becomes the head of.
PoolFreeForgetsList(pool, idx) ==
    [slots |-> Put(pool.slots, idx, FreeSlot(NIL)), len |-> pool.len,
     free_head |-> idx]

PoolFree(pool, idx) ==
    [slots |-> Put(pool.slots, idx, FreeSlot(pool.free_head)),
     len |-> pool.len,
     free_head |-> idx]

\* The pool after get_mut wrote to some of its slots.
WithSlots(pool, slots) ==
    [slots |-> slots, len |-> pool.len, free_head |-> pool.free_head]

-----------------------------------------------------------------------------
(* The price levels (orderbook/src/level.rs).                              *)

Level == [head : Link, tail : Link, total_qty : Nat, order_count : Nat]

EmptyLevel == [head |-> NIL, tail |-> NIL, total_qty |-> 0, order_count |-> 0]

LevelKey(order) == <<order.side, order.price>>

\* levels.entry(price).or_insert_with(Level::empty), read only
LevelOrEmpty(b, key) ==
    IF key \in DOMAIN b.levels THEN b.levels[key] ELSE EmptyLevel

-----------------------------------------------------------------------------
(* The book (orderbook/src/book.rs).                                       *)

NoMap == [x \in {} |-> x]

EmptyBook == [levels |-> NoMap, orders |-> NoMap,
              pool |-> [slots |-> NoMap, len |-> 0, free_head |-> NIL]]

Live(b) == LiveSlots(b.pool.slots)

\* The node in slot idx, Pool::get.
Node(b, idx) == b.pool.slots[idx]

\* level.tail becomes idx, and level.head too in an empty level.
PushBack(level, idx, qty) ==
    [head |-> IF level.head = NIL THEN idx ELSE level.head,
     tail |-> idx,
     total_qty |-> level.total_qty + qty,
     order_count |-> level.order_count + 1]

\* The old tail points to the new one, if there is an old one: NIL is no
\* slot.
LinkAfter(slots, tail, idx) ==
    [i \in DOMAIN slots |->
        IF i = tail THEN [slots[i] EXCEPT !.next = idx] ELSE slots[i]]

\* OrderBook::add of an identifier the book does not hold.
AddOrder(b, order) ==
    LET key == LevelKey(order)
        level == LevelOrEmpty(b, key)
        idx == AllocIndex(b.pool)
        placed == PoolAlloc(b.pool, Occupied(order, level.tail, NIL))
    IN [levels |-> Put(b.levels, key, PushBack(level, idx, order.qty)),
        orders |-> Put(b.orders, order.id, idx),
        pool |-> WithSlots(placed, LinkAfter(placed.slots, level.tail, idx))]

\* Mutant: the successor keeps pointing back to the order that left.
SpliceForwardOnly(slots, node) ==
    [i \in DOMAIN slots |->
        IF i = node.prev THEN [slots[i] EXCEPT !.next = node.next]
        ELSE slots[i]]

\* The first half of unlink: the neighbours of `node' point past it.  NIL is
\* no slot, so an absent neighbour is passed over, as in the code.
Splice(slots, node) ==
    [i \in DOMAIN slots |->
        IF i \in {node.prev, node.next}
        THEN Occupied(slots[i].order,
                      IF i = node.next THEN node.prev ELSE slots[i].prev,
                      IF i = node.prev THEN node.next ELSE slots[i].next)
        ELSE slots[i]]

SaturatingSub(x, y) == IF x >= y THEN x - y ELSE 0

\* Mutant: the total is left alone, as if the quantity were already taken.
DropFromKeepsTotal(level, idx, node) ==
    [head |-> IF level.head = idx THEN node.next ELSE level.head,
     tail |-> IF level.tail = idx THEN node.prev ELSE level.tail,
     total_qty |-> level.total_qty,
     order_count |-> level.order_count - 1]

\* The level once the order in slot idx has left it.
DropFrom(level, idx, node) ==
    [head |-> IF level.head = idx THEN node.next ELSE level.head,
     tail |-> IF level.tail = idx THEN node.prev ELSE level.tail,
     total_qty |-> SaturatingSub(level.total_qty, node.order.qty),
     order_count |-> level.order_count - 1]

\* Unlink with the levels and the identifier map it leaves as parameters,
\* for its mutants.
UnlinkWith(b, idx, levels, orders) ==
    [levels |-> levels, orders |-> orders,
     pool |-> PoolFree(WithSlots(b.pool, Splice(b.pool.slots, Node(b, idx))),
                       idx)]

\* Mutant: a level that lost its last order stays in the map.
UnlinkKeepsLevel(b, idx) ==
    LET node == Node(b, idx)
        key == LevelKey(node.order)
    IN UnlinkWith(b, idx, Put(b.levels, key, DropFrom(b.levels[key], idx, node)),
                  Remove(b.orders, node.order.id))

\* Mutant: the level goes with its head, not with its last order.
UnlinkDropsLevelWithHead(b, idx) ==
    LET node == Node(b, idx)
        key == LevelKey(node.order)
    IN UnlinkWith(b, idx,
                  IF b.levels[key].head = idx
                  THEN Remove(b.levels, key)
                  ELSE Put(b.levels, key, DropFrom(b.levels[key], idx, node)),
                  Remove(b.orders, node.order.id))

\* Mutant: the identifier of the order that left still names its slot.
UnlinkKeepsId(b, idx) ==
    LET node == Node(b, idx)
        key == LevelKey(node.order)
        level == DropFrom(b.levels[key], idx, node)
    IN UnlinkWith(b, idx,
                  IF level.head = NIL THEN Remove(b.levels, key)
                  ELSE Put(b.levels, key, level),
                  b.orders)

\* OrderBook::unlink
Unlink(b, idx) ==
    LET node == Node(b, idx)
        key == LevelKey(node.order)
        level == DropFrom(b.levels[key], idx, node)
    IN [levels |-> IF level.head = NIL
                   THEN Remove(b.levels, key)
                   ELSE Put(b.levels, key, level),
        orders |-> Remove(b.orders, node.order.id),
        pool |-> PoolFree(WithSlots(b.pool, Splice(b.pool.slots, node)), idx)]

\* Mutant: only the order loses qty.
DecrementOrderOnly(b, idx, qty) ==
    [levels |-> b.levels, orders |-> b.orders,
     pool |-> WithSlots(b.pool,
                        [b.pool.slots EXCEPT ![idx].order.qty = @ - qty])]

\* The resting order and its level both lose qty.
Decrement(b, idx, qty) ==
    LET key == LevelKey(Node(b, idx).order)
    IN [levels |-> [b.levels EXCEPT ![key].total_qty = @ - qty],
        orders |-> b.orders,
        pool |-> WithSlots(b.pool,
                           [b.pool.slots EXCEPT ![idx].order.qty = @ - qty])]

\* The tail of execute_inner and of cancel: an exhausted order leaves.
Reduce(b, idx, qty) ==
    LET less == Decrement(b, idx, qty)
    IN IF Node(less, idx).order.qty = 0 THEN Unlink(less, idx) ELSE less

Resting(b) == [id \in DOMAIN b.orders |-> Node(b, b.orders[id]).order]

-----------------------------------------------------------------------------
(* Where the code does not panic.                                          *)

\* Pool::alloc finds a Free slot at free_head (no unreachable!), and the
\* tail that add reads from the level is an Occupied slot.
AddSafe(b) ==
    /\ b.pool.free_head # NIL =>
          /\ b.pool.free_head \in DOMAIN b.pool.slots
          /\ Node(b, b.pool.free_head).kind = "Free"
    /\ \A key \in DOMAIN b.levels : b.levels[key].tail \in Live(b)

\* Every Pool::get that unlink makes hits an Occupied slot, the level
\* exists for the live order (the expect), neither counter underflows, and
\* the saturating subtraction has nothing to saturate.
UnlinkSafe(b, idx) ==
    /\ idx \in Live(b)
    /\ \A i \in {Node(b, idx).prev, Node(b, idx).next} \ {NIL} : i \in Live(b)
    /\ LET key == LevelKey(Node(b, idx).order)
       IN /\ key \in DOMAIN b.levels
          /\ b.levels[key].order_count >= 1
          /\ b.levels[key].total_qty >= Node(b, idx).order.qty

-----------------------------------------------------------------------------
(* Queries.  An Option is a set of at most one element.                    *)

PricesOn(b, side) == {p \in Price : <<side, p>> \in DOMAIN b.levels}

Quote(b, side, price) ==
    [price |-> price, qty |-> b.levels[<<side, price>>].total_qty]

\* bids.iter().next_back(): the last key of the ordered map
BestBid(b) ==
    {Quote(b, "Bid", p) :
        p \in {p \in PricesOn(b, "Bid") : \A q \in PricesOn(b, "Bid") : q =< p}}

\* asks.iter().next(): the first
BestAsk(b) ==
    {Quote(b, "Ask", p) :
        p \in {p \in PricesOn(b, "Ask") : \A q \in PricesOn(b, "Ask") : p =< q}}

Spread(b) == {a.price - x.price : a \in BestAsk(b), x \in BestBid(b)}

\* Rust's integer division drops the fraction, towards zero.
Halve(x) == IF x >= 0 THEN x \div 2 ELSE -((-x) \div 2)

Mid(b) == {Halve(a.price + x.price) : a \in BestAsk(b), x \in BestBid(b)}

=============================================================================
