--------------------------- MODULE BookInvariants ---------------------------
(***************************************************************************)
(* What makes a book well formed, as predicates on a book and on the       *)
(* priority relation R between the orders of its levels.  Their            *)
(* conjunction BookInv is inductive.  Each is local: it speaks of slots    *)
(* and their neighbours, never of the walk along a list.                   *)
(***************************************************************************)
EXTENDS Book, FiniteSets

Slot == OccupiedSlots \cup FreeSlots

IsPool(pool) ==
    /\ pool = [slots |-> pool.slots, len |-> pool.len,
               free_head |-> pool.free_head]
    /\ pool.len \in 0 .. NIL
    /\ pool.free_head \in Link
    /\ pool.slots \in [0 .. pool.len - 1 -> Slot]

IsBook(b) ==
    /\ b = [levels |-> b.levels, orders |-> b.orders, pool |-> b.pool]
    /\ IsPool(b.pool)
    /\ DOMAIN b.orders \subseteq OrderId
    /\ b.orders \in [DOMAIN b.orders -> Index]
    /\ DOMAIN b.levels \subseteq Side \X Price
    /\ b.levels \in [DOMAIN b.levels -> Level]

\* OrderId -> Index is injective onto the live slots, and each live slot
\* holds the order that its identifier names.
MapOntoLive(b) ==
    /\ \A id \in DOMAIN b.orders :
          /\ b.orders[id] \in Live(b)
          /\ Node(b, b.orders[id]).order.id = id
    /\ \A i \in Live(b) :
          /\ Node(b, i).order.id \in DOMAIN b.orders
          /\ b.orders[Node(b, i).order.id] = i

\* free_head and the links of free slots lead to free slots, and no slot is
\* led to twice: an allocation never hands out a slot that is in use, nor
\* one that another allocation could hand out again.
FreeList(b) ==
    LET free == DOMAIN b.pool.slots \ Live(b)
    IN /\ b.pool.free_head # NIL => b.pool.free_head \in free
       /\ \A i \in free :
             Node(b, i).next # NIL => /\ Node(b, i).next \in free
                                      /\ Node(b, i).next # b.pool.free_head
       /\ \A i, j \in free :
             Node(b, i).next = Node(b, j).next => i = j \/ Node(b, i).next = NIL

-----------------------------------------------------------------------------
(* Priority.                                                               *)

LiveAt(b, key) == {i \in Live(b) : LevelKey(Node(b, i).order) = key}

\* The order in slot i arrived before the one in slot j.
Before(b, R, i, j) == <<Node(b, i).order.id, Node(b, j).order.id>> \in R

\* R is a strict total order on the orders of each level.
Ranked(b, R) ==
    /\ R \subseteq (DOMAIN b.orders) \X (DOMAIN b.orders)
    /\ \A i, j \in Live(b) :
          /\ Before(b, R, i, j) =>
                /\ SameLevel(Node(b, i).order, Node(b, j).order)
                /\ ~Before(b, R, j, i)
          /\ SameLevel(Node(b, i).order, Node(b, j).order) =>
                i = j \/ Before(b, R, i, j) \/ Before(b, R, j, i)
    /\ \A i, j, k \in Live(b) :
          Before(b, R, i, j) /\ Before(b, R, j, k) => Before(b, R, i, k)

\* `next' leads to the order that arrived next at the level, `prev' back,
\* and NIL stands where there is none.
Linked(b, R) ==
    \A i \in Live(b) :
       LET next == Node(b, i).next
           prev == Node(b, i).prev
       IN /\ next # NIL =>
                /\ next \in Live(b)
                /\ Node(b, next).prev = i
                /\ Before(b, R, i, next)
                /\ \A k \in Live(b) :
                      ~(Before(b, R, i, k) /\ Before(b, R, k, next))
          /\ next = NIL => \A k \in Live(b) : ~Before(b, R, i, k)
          /\ prev # NIL => prev \in Live(b) /\ Node(b, prev).next = i
          /\ prev = NIL => \A k \in Live(b) : ~Before(b, R, k, i)

\* A level exists exactly where an order rests; its head is the one order
\* without a predecessor and its tail the one without a successor.
LevelEnds(b) ==
    /\ \A i \in Live(b) :
          LET key == LevelKey(Node(b, i).order)
          IN /\ key \in DOMAIN b.levels
             /\ Node(b, i).prev = NIL => b.levels[key].head = i
             /\ Node(b, i).next = NIL => b.levels[key].tail = i
    /\ \A key \in DOMAIN b.levels :
          /\ b.levels[key].head \in LiveAt(b, key)
          /\ Node(b, b.levels[key].head).prev = NIL
          /\ b.levels[key].tail \in LiveAt(b, key)
          /\ Node(b, b.levels[key].tail).next = NIL

-----------------------------------------------------------------------------
(* Aggregates.                                                             *)

Counted(b) ==
    \A key \in DOMAIN b.levels :
       b.levels[key].order_count = Cardinality(LiveAt(b, key))

\* f gives each live order the quantity that rests ahead of it at its level:
\* none for the head, and along the list what the predecessor has ahead plus
\* what it holds itself, up to the level's total_qty at the tail.
IsQueuePosition(b, R, f) ==
    /\ \A i \in Live(b) :
          LET end == f[i] + Node(b, i).order.qty
              next == Node(b, i).next
          IN /\ Node(b, i).prev = NIL => f[i] = 0
             /\ next # NIL => f[next] = end
             /\ next = NIL =>
                   b.levels[LevelKey(Node(b, i).order)].total_qty = end
    /\ \A i, j \in Live(b) :
          Before(b, R, i, j) => f[i] + Node(b, i).order.qty =< f[j]

\* The quantities along each list add up to the level's total_qty.
Summed(b, R) == \E f \in [Live(b) -> Nat] : IsQueuePosition(b, R, f)

BookInv(b, R) ==
    /\ IsBook(b)
    /\ MapOntoLive(b)
    /\ FreeList(b)
    /\ Ranked(b, R)
    /\ Linked(b, R)
    /\ LevelEnds(b)
    /\ Counted(b)
    /\ Summed(b, R)

=============================================================================
