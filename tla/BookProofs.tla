----------------------------- MODULE BookProofs -----------------------------
(***************************************************************************)
(* Every operator that changes a book keeps BookInv, for any book and any  *)
(* priority relation R, and a book with BookInv panics in no operation.    *)
(*                                                                         *)
(* For each operator a first lemma states what it does to slots and levels *)
(* (SlotsAfterUnlink, SlotsAfterAdd, AfterDecrement), so that the others   *)
(* need not expand it; then one lemma per part of BookInv: the map and the *)
(* free list, the priorities and links, the aggregates.                    *)
(***************************************************************************)
EXTENDS BookInvariants, FiniteSetTheorems, TLAPS

\* The slot of a live order: in range, occupied, and its fields have their types.
LEMMA LiveSlot ==
    ASSUME NEW b, IsBook(b), NEW i \in Live(b)
    PROVE  /\ i \in DOMAIN b.pool.slots
           /\ i \in 0 .. b.pool.len - 1
           /\ i \in Index
           /\ i # NIL
           /\ Node(b, i) \in OccupiedSlots
           /\ Node(b, i).kind = "Occupied"
           /\ Node(b, i).order \in Order
           /\ Node(b, i).prev \in Link
           /\ Node(b, i).next \in Link
           /\ Node(b, i).order.qty \in Nat
           /\ Node(b, i).order.id \in OrderId
           /\ LevelKey(Node(b, i).order) \in Side \X Price
  <1>1. i \in DOMAIN b.pool.slots /\ Node(b, i).kind = "Occupied"
    BY DEF Live, LiveSlots, Node
  <1>2. i \in 0 .. b.pool.len - 1 /\ Node(b, i) \in Slot
    BY <1>1 DEF IsBook, IsPool, Node
  <1>3. Node(b, i) \in OccupiedSlots
    BY <1>1, <1>2 DEF Slot, FreeSlots
  <1>4. b.pool.len \in Int /\ b.pool.len =< NIL /\ NIL \in Int
    BY NILAssumption DEF IsBook, IsPool
  <1>5. i \in Index /\ i # NIL
    BY <1>2, <1>4 DEF Index
  <1> QED
    BY <1>1, <1>2, <1>3, <1>5 DEF OccupiedSlots, Order, LevelKey

\* A level holds finitely many orders, so Cardinality counts them.
LEMMA FiniteLevel ==
    ASSUME NEW b, IsBook(b), NEW key
    PROVE  IsFiniteSet(LiveAt(b, key))
  <1>1. LiveAt(b, key) \subseteq 0 .. b.pool.len - 1
    BY LiveSlot DEF LiveAt
  <1>2. 0 \in Int /\ b.pool.len - 1 \in Int
    BY NILAssumption DEF IsBook, IsPool
  <1>3. IsFiniteSet(0 .. b.pool.len - 1)
    BY <1>2, FS_Interval, Zenon
  <1> QED
    BY <1>1, <1>3, FS_Subset

-----------------------------------------------------------------------------
(* unlink.                                                                 *)

(* The book c that unlink of slot idx leaves, in terms of b: slot by slot, *)
(* and level by level.                                                     *)

SlotsAfterUnlink(b, idx, c) ==
    LET n == Node(b, idx)
    IN /\ c = [levels |-> c.levels, orders |-> c.orders, pool |-> c.pool]
       /\ c.pool = [slots |-> c.pool.slots, len |-> b.pool.len, free_head |-> idx]
       /\ DOMAIN c.pool.slots = DOMAIN b.pool.slots
       /\ Node(c, idx) = FreeSlot(b.pool.free_head)
       /\ \A i \in DOMAIN b.pool.slots \ Live(b) : Node(c, i) = Node(b, i)
       /\ \A i \in Live(b) \ {idx} :
             Node(c, i) = Occupied(Node(b, i).order,
                  IF i = n.next THEN n.prev ELSE Node(b, i).prev,
                  IF i = n.prev THEN n.next ELSE Node(b, i).next)
       /\ Live(c) = Live(b) \ {idx}
       /\ c.orders = Remove(b.orders, n.order.id)
       /\ c.pool.slots = [i \in DOMAIN c.pool.slots |-> c.pool.slots[i]]

LevelsAfterUnlink(b, idx, c) ==
    LET n == Node(b, idx)
        key == LevelKey(n.order)
    IN /\ key \in DOMAIN b.levels
       /\ n.prev = NIL <=> b.levels[key].head = idx
       /\ n.next = NIL <=> b.levels[key].tail = idx
       /\ key \in DOMAIN c.levels <=> n.prev # NIL \/ n.next # NIL
       /\ key \in DOMAIN c.levels =>
             c.levels[key] = DropFrom(b.levels[key], idx, n)
       /\ DOMAIN c.levels \ {key} = DOMAIN b.levels \ {key}
       /\ \A k \in DOMAIN b.levels \ {key} : c.levels[k] = b.levels[k]
       /\ c.levels = [k \in DOMAIN c.levels |-> c.levels[k]]

\* unlink frees slot idx, makes its neighbours point past it, and leaves the
\* other slots alone.
LEMMA UnlinkSlots ==
    ASSUME NEW b, NEW R, BookInv(b, R), NEW idx \in Live(b)
    PROVE  SlotsAfterUnlink(b, idx, Unlink(b, idx))
  <1> DEFINE n == Node(b, idx)
             c == Unlink(b, idx)
  <1> USE DEF BookInv
  <1>0. /\ idx \in DOMAIN b.pool.slots /\ idx # NIL
        /\ DOMAIN b.pool.slots = 0 .. b.pool.len - 1
    BY LiveSlot DEF IsBook, IsPool
  <1>1. /\ c = [levels |-> c.levels, orders |-> c.orders, pool |-> c.pool]
        /\ c.orders = Remove(b.orders, n.order.id)
        /\ c.pool = PoolFree(WithSlots(b.pool, Splice(b.pool.slots, n)), idx)
    BY DEF Unlink
  <1> HIDE DEF n, c
  <1>2. c.pool = [slots |-> Put(Splice(b.pool.slots, n), idx, FreeSlot(b.pool.free_head)),
                  len |-> b.pool.len, free_head |-> idx]
    BY <1>1 DEF PoolFree, WithSlots
  <1>3. c.pool.slots = Put(Splice(b.pool.slots, n), idx, FreeSlot(b.pool.free_head))
    BY <1>2
  <1>4. DOMAIN c.pool.slots = DOMAIN b.pool.slots
    BY <1>0, <1>3 DEF Put, Splice
  <1>5. Node(c, idx) = FreeSlot(b.pool.free_head)
    BY <1>0, <1>3 DEF Put, Splice, Node
  <1>6. \A i \in Live(b) : n.prev # i /\ n.next # i => i \notin {n.prev, n.next}
    OBVIOUS
  <1>7. \A i \in {n.prev, n.next} : i = NIL \/ i \in Live(b)
    BY DEF Linked, n
  <1>8. ASSUME NEW i \in DOMAIN b.pool.slots, i # idx
        PROVE  Node(c, i) = IF i \in {n.prev, n.next}
                            THEN Occupied(Node(b, i).order,
                                   IF i = n.next THEN n.prev ELSE Node(b, i).prev,
                                   IF i = n.prev THEN n.next ELSE Node(b, i).next)
                            ELSE Node(b, i)
    BY <1>0, <1>3, <1>8 DEF Put, Splice, Node
  <1>9. ASSUME NEW i \in DOMAIN b.pool.slots \ Live(b) PROVE Node(c, i) = Node(b, i)
    <2>1. i # idx /\ i # NIL
      BY <1>0, NILAssumption DEF IsBook, IsPool
    <2> QED BY <1>7, <1>8, <2>1
  <1>10. ASSUME NEW i \in Live(b) \ {idx}
         PROVE  Node(c, i) = Occupied(Node(b, i).order,
                      IF i = n.next THEN n.prev ELSE Node(b, i).prev,
                      IF i = n.prev THEN n.next ELSE Node(b, i).next)
    <2>1. Node(b, i) = Occupied(Node(b, i).order, Node(b, i).prev, Node(b, i).next)
      BY LiveSlot DEF OccupiedSlots, Occupied
    <2>2. i \in DOMAIN b.pool.slots
      BY LiveSlot
    <2> QED BY <1>8, <2>1, <2>2
  <1>11. Live(c) = Live(b) \ {idx}
    <2>1. Live(c) \subseteq DOMAIN b.pool.slots
      BY <1>4 DEF Live, LiveSlots
    <2>2. Live(b) \subseteq DOMAIN b.pool.slots
      BY DEF Live, LiveSlots
    <2>3. ASSUME NEW i \in DOMAIN b.pool.slots
          PROVE  /\ i \in Live(c) <=> Node(c, i).kind = "Occupied"
                 /\ i \in Live(b) <=> Node(b, i).kind = "Occupied"
      BY <1>4 DEF Live, LiveSlots, Node
    <2>4. idx \notin Live(c)
      BY <1>5, <1>0, <2>3 DEF FreeSlot
    <2>5. \A i \in Live(b) \ {idx} : Node(c, i).kind = "Occupied"
      BY <1>10 DEF Occupied
    <2>6. \A i \in DOMAIN b.pool.slots \ Live(b) : i \notin Live(c)
      BY <1>9, <2>3
    <2> QED BY <2>1, <2>2, <2>3, <2>4, <2>5, <2>6
  <1>12. c.pool.slots = [i \in DOMAIN c.pool.slots |-> c.pool.slots[i]]
    BY <1>3 DEF Put
  <1> QED
    BY <1>1, <1>2, <1>4, <1>5, <1>9, <1>10, <1>11, <1>12
    DEF SlotsAfterUnlink, n, c

\* unlink drops the level exactly when the order was alone in it, although the
\* code tests only the new head.
LEMMA UnlinkLevels ==
    ASSUME NEW b, NEW R, BookInv(b, R), NEW idx \in Live(b)
    PROVE  LevelsAfterUnlink(b, idx, Unlink(b, idx))
  <1> DEFINE n == Node(b, idx)
             key == LevelKey(n.order)
             c == Unlink(b, idx)
  <1> DEFINE level == DropFrom(b.levels[key], idx, n)
  <1>1. c.levels = IF level.head = NIL THEN Remove(b.levels, key)
                   ELSE Put(b.levels, key, level)
    BY DEF Unlink
  <1>2. /\ key \in DOMAIN b.levels
        /\ n.prev = NIL <=> b.levels[key].head = idx
        /\ n.next = NIL <=> b.levels[key].tail = idx
    BY DEF BookInv, LevelEnds
  <1>3. b.levels[key].head # NIL
    BY <1>2, LiveSlot DEF BookInv, LevelEnds, LiveAt
  <1>4. level.head = NIL <=> n.prev = NIL /\ n.next = NIL
    BY <1>2, <1>3 DEF DropFrom
  <1> HIDE DEF level
  <1>5. key \in DOMAIN c.levels <=> n.prev # NIL \/ n.next # NIL
    BY <1>1, <1>4 DEF Remove, Put
  <1>6. key \in DOMAIN c.levels => c.levels[key] = level
    BY <1>1 DEF Remove, Put
  <1>7. /\ DOMAIN c.levels \ {key} = DOMAIN b.levels \ {key}
        /\ \A k \in DOMAIN b.levels \ {key} : c.levels[k] = b.levels[k]
    BY <1>1 DEF Remove, Put
  <1>8. c.levels = [k \in DOMAIN c.levels |-> c.levels[k]]
    BY <1>1 DEF Remove, Put
  <1> QED
    BY <1>2, <1>5, <1>6, <1>7, <1>8 DEF LevelsAfterUnlink, level

\* The neighbours of an order are live orders of its level, before and after
\* it, whose links lead back.
LEMMA Neighbours ==
    ASSUME NEW b, NEW R, BookInv(b, R), NEW i \in Live(b)
    PROVE  /\ \A j \in {Node(b, i).prev, Node(b, i).next} \ {NIL} :
                 /\ j \in Live(b)
                 /\ j # i
                 /\ LevelKey(Node(b, j).order) = LevelKey(Node(b, i).order)
           /\ Node(b, i).next # NIL => /\ Before(b, R, i, Node(b, i).next)
                                       /\ Node(b, Node(b, i).next).prev = i
           /\ Node(b, i).prev # NIL => /\ Before(b, R, Node(b, i).prev, i)
                                       /\ Node(b, Node(b, i).prev).next = i
  <1>1. i # NIL
    BY LiveSlot DEF BookInv
  <1>2. Node(b, i).next # NIL => /\ Node(b, i).next \in Live(b)
                                 /\ Before(b, R, i, Node(b, i).next)
                                 /\ Node(b, Node(b, i).next).prev = i
    BY DEF BookInv, Linked
  <1>3. Node(b, i).prev # NIL => /\ Node(b, i).prev \in Live(b)
                                 /\ Before(b, R, Node(b, i).prev, i)
                                 /\ Node(b, Node(b, i).prev).next = i
    BY <1>1 DEF BookInv, Linked
  <1>4. \A j \in Live(b) : Before(b, R, i, j) \/ Before(b, R, j, i) =>
                            j # i /\ SameLevel(Node(b, j).order, Node(b, i).order)
    BY DEF BookInv, Ranked, SameLevel
  <1> QED
    BY <1>2, <1>3, <1>4 DEF SameLevel, LevelKey

\* No order of the level is left when unlink removes it.
LEMMA LastOfLevel ==
    ASSUME NEW b, NEW R, BookInv(b, R), NEW idx \in Live(b),
           Node(b, idx).prev = NIL, Node(b, idx).next = NIL
    PROVE  LiveAt(b, LevelKey(Node(b, idx).order)) = {idx}
  <1>1. \A k \in Live(b) : ~Before(b, R, idx, k) /\ ~Before(b, R, k, idx)
    BY DEF BookInv, Linked
  <1>2. \A k \in Live(b) : SameLevel(Node(b, k).order, Node(b, idx).order) => k = idx
    BY <1>1 DEF BookInv, Ranked
  <1>3. \A k \in LiveAt(b, LevelKey(Node(b, idx).order)) :
           SameLevel(Node(b, k).order, Node(b, idx).order)
    BY DEF LiveAt, LevelKey, SameLevel
  <1> QED
    BY <1>2, <1>3 DEF LiveAt

\* After unlink the map is still injective onto the live slots, and the freed
\* slot has joined the free list.
LEMMA UnlinkBook ==
    ASSUME NEW b, NEW R, BookInv(b, R), NEW idx \in Live(b),
           NEW c, SlotsAfterUnlink(b, idx, c), LevelsAfterUnlink(b, idx, c)
    PROVE  IsBook(c) /\ MapOntoLive(c) /\ FreeList(c)
  <1> DEFINE n == Node(b, idx)
             key == LevelKey(n.order)
  <1>f. /\ c = [levels |-> c.levels, orders |-> c.orders, pool |-> c.pool]
        /\ c.pool = [slots |-> c.pool.slots, len |-> b.pool.len, free_head |-> idx]
        /\ DOMAIN c.pool.slots = DOMAIN b.pool.slots
        /\ Node(c, idx) = FreeSlot(b.pool.free_head)
        /\ \A i \in DOMAIN b.pool.slots \ Live(b) : Node(c, i) = Node(b, i)
        /\ \A i \in Live(b) \ {idx} :
              Node(c, i) = Occupied(Node(b, i).order,
                   IF i = n.next THEN n.prev ELSE Node(b, i).prev,
                   IF i = n.prev THEN n.next ELSE Node(b, i).next)
        /\ Live(c) = Live(b) \ {idx}
        /\ c.orders = Remove(b.orders, n.order.id)
        /\ c.pool.slots = [i \in DOMAIN c.pool.slots |-> c.pool.slots[i]]
    BY DEF SlotsAfterUnlink
  <1>g. /\ idx \in Index /\ n.prev \in Link /\ n.next \in Link
        /\ idx \in DOMAIN b.pool.slots
        /\ n.order.qty \in Nat
        /\ idx # NIL
    BY LiveSlot DEF BookInv
  <1>h. \A i \in Live(b) : /\ Node(b, i).order \in Order
                           /\ Node(b, i).prev \in Link
                           /\ Node(b, i).next \in Link
                           /\ i \in DOMAIN b.pool.slots
    BY LiveSlot DEF BookInv
  <1>l. /\ key \in DOMAIN b.levels
        /\ key \in DOMAIN c.levels =>
              c.levels[key] = DropFrom(b.levels[key], idx, n)
        /\ DOMAIN c.levels \ {key} = DOMAIN b.levels \ {key}
        /\ \A k \in DOMAIN b.levels \ {key} : c.levels[k] = b.levels[k]
        /\ c.levels = [k \in DOMAIN c.levels |-> c.levels[k]]
    BY DEF LevelsAfterUnlink
  <1> HIDE DEF n, key
  <1>1. IsPool(c.pool)
    <2>1. \A i \in DOMAIN b.pool.slots : Node(c, i) \in Slot
      <3>1. Node(c, idx) \in Slot
        BY <1>f DEF FreeSlot, Slot, FreeSlots, BookInv, IsBook, IsPool
      <3>2. \A i \in DOMAIN b.pool.slots \ Live(b) : Node(c, i) \in Slot
        BY <1>f DEF BookInv, IsBook, IsPool, Node
      <3>3. \A i \in Live(b) \ {idx} : Node(c, i) \in Slot
        BY <1>f, <1>g, <1>h DEF Occupied, Slot, OccupiedSlots
      <3> QED BY <3>1, <3>2, <3>3
    <2>3. c.pool.slots \in [0 .. b.pool.len - 1 -> Slot]
      BY <1>f, <2>1 DEF Node, BookInv, IsBook, IsPool
    <2>4. idx \in Link
      BY <1>g, NILAssumption DEF Index, Link
    <2> QED BY <1>f, <2>3, <2>4 DEF IsPool, BookInv, IsBook
  <1>2. /\ DOMAIN c.orders \subseteq OrderId
        /\ c.orders \in [DOMAIN c.orders -> Index]
    BY <1>f DEF Remove, BookInv, IsBook
  <1>3. DOMAIN c.levels \subseteq Side \X Price
    BY <1>l DEF BookInv, IsBook
  <1>4. c.levels \in [DOMAIN c.levels -> Level]
    <2>1. \A k \in DOMAIN c.levels : c.levels[k] \in Level
      <3>1. key \in DOMAIN c.levels => c.levels[key] \in Level
        <4>1. b.levels[key] \in Level
          BY <1>l DEF BookInv, IsBook
        <4>2. b.levels[key].order_count >= 1
          <5>1. b.levels[key].order_count = Cardinality(LiveAt(b, key))
            BY <1>l DEF BookInv, Counted
          <5>2. IsFiniteSet(LiveAt(b, key))
            BY FiniteLevel DEF BookInv
          <5>3. idx \in LiveAt(b, key)
            BY DEF LiveAt, key, n
          <5>4. Cardinality(LiveAt(b, key)) # 0 /\ Cardinality(LiveAt(b, key)) \in Nat
            BY <5>2, <5>3, FS_EmptySet, FS_CardinalityType
          <5> QED BY <5>1, <5>4
        <4>3. DropFrom(b.levels[key], idx, n) \in Level
          BY <4>1, <4>2, <1>g DEF DropFrom, SaturatingSub, Level
        <4> QED BY <4>3, <1>l
      <3>2. \A k \in DOMAIN c.levels : k # key => c.levels[k] \in Level
        BY <1>l DEF BookInv, IsBook
      <3> QED BY <3>1, <3>2
    <2> QED BY <2>1, <1>l
  <1>5. IsBook(c)
    BY <1>f, <1>1, <1>2, <1>3, <1>4 DEF IsBook
  <1>6. MapOntoLive(c)
    <2>1. \A i \in Live(c) : Node(c, i).order = Node(b, i).order
      BY <1>f DEF Occupied
    <2>2. DOMAIN c.orders = DOMAIN b.orders \ {n.order.id}
      BY <1>f DEF Remove
    <2>3. \A id \in DOMAIN c.orders : c.orders[id] = b.orders[id]
      BY <1>f DEF Remove
    <2>4. b.orders[n.order.id] = idx
      BY DEF n, BookInv, MapOntoLive
    <2> QED
      BY <1>f, <2>1, <2>2, <2>3, <2>4 DEF BookInv, MapOntoLive, n
  <1>7. FreeList(c)
    <2>1. DOMAIN c.pool.slots \ Live(c) = (DOMAIN b.pool.slots \ Live(b)) \cup {idx}
      BY <1>f, <1>g
    <2>2. Node(c, idx).next = b.pool.free_head /\ c.pool.free_head = idx
      BY <1>f DEF FreeSlot
    <2>3. \A i \in DOMAIN b.pool.slots \ Live(b) : Node(c, i).next = Node(b, i).next
      BY <1>f
    <2> QED
      BY <2>1, <2>2, <2>3, <1>g DEF FreeList, BookInv
  <1> QED
    BY <1>5, <1>6, <1>7

\* The orders that stay keep their priorities.
LEMMA UnlinkBefore ==
    ASSUME NEW b, NEW R, BookInv(b, R), NEW idx \in Live(b),
           NEW c, SlotsAfterUnlink(b, idx, c),
           NEW S, S = Depart(R, Node(b, idx).order.id)
    PROVE  /\ \A i \in Live(c) : Node(c, i).order = Node(b, i).order
           /\ \A i, j \in Live(c) : Before(c, S, i, j) <=> Before(b, R, i, j)
           /\ S \subseteq (DOMAIN c.orders) \X (DOMAIN c.orders)
  <1>1. \A i \in Live(c) : Node(c, i).order = Node(b, i).order
    BY DEF SlotsAfterUnlink, Occupied
  <1>2. Live(c) = Live(b) \ {idx}
    BY DEF SlotsAfterUnlink
  <1>3. \A i \in Live(c) : Node(b, i).order.id # Node(b, idx).order.id
    BY <1>2 DEF BookInv, MapOntoLive
  <1>4. \A i, j \in Live(c) : Before(c, S, i, j) <=> Before(b, R, i, j)
    BY <1>1, <1>3 DEF Before, Depart
  <1>5. DOMAIN c.orders = DOMAIN b.orders \ {Node(b, idx).order.id}
    BY DEF SlotsAfterUnlink, Remove
  <1>6. S \subseteq (DOMAIN c.orders) \X (DOMAIN c.orders)
    BY <1>5 DEF Depart, BookInv, Ranked
  <1> QED
    BY <1>1, <1>4, <1>6

\* After unlink the lists are still the queues of arrival, wherever in its
\* list the order was.
LEMMA UnlinkPriority ==
    ASSUME NEW b, NEW R, BookInv(b, R), NEW idx \in Live(b),
           NEW c, SlotsAfterUnlink(b, idx, c), LevelsAfterUnlink(b, idx, c),
           NEW S, S = Depart(R, Node(b, idx).order.id)
    PROVE  Ranked(c, S) /\ Linked(c, S) /\ LevelEnds(c)
  <1> DEFINE n == Node(b, idx)
             key == LevelKey(n.order)
  <1>a. /\ \A i \in Live(c) : Node(c, i).order = Node(b, i).order
        /\ \A i, j \in Live(c) : Before(c, S, i, j) <=> Before(b, R, i, j)
        /\ S \subseteq (DOMAIN c.orders) \X (DOMAIN c.orders)
    BY UnlinkBefore
  <1>b. Live(c) = Live(b) \ {idx}
    BY DEF SlotsAfterUnlink
  <1>c. \A i \in Live(c) :
           /\ Node(c, i).prev = IF i = n.next THEN n.prev ELSE Node(b, i).prev
           /\ Node(c, i).next = IF i = n.prev THEN n.next ELSE Node(b, i).next
    BY DEF SlotsAfterUnlink, Occupied
  <1>d. NIL \notin Live(b)
    BY LiveSlot DEF BookInv
  <1>1. Ranked(c, S)
    BY <1>a, <1>b DEF Ranked, BookInv
  <1>2. Linked(c, S)
    <2> SUFFICES ASSUME NEW i \in Live(c)
                 PROVE  /\ Node(c, i).next # NIL =>
                              /\ Node(c, i).next \in Live(c)
                              /\ Node(c, Node(c, i).next).prev = i
                              /\ Before(c, S, i, Node(c, i).next)
                              /\ \A k \in Live(c) :
                                    ~(Before(c, S, i, k) /\ Before(c, S, k, Node(c, i).next))
                        /\ Node(c, i).next = NIL => \A k \in Live(c) : ~Before(c, S, i, k)
                        /\ Node(c, i).prev # NIL =>
                              Node(c, i).prev \in Live(c) /\ Node(c, Node(c, i).prev).next = i
                        /\ Node(c, i).prev = NIL => \A k \in Live(c) : ~Before(c, S, k, i)
      BY DEF Linked
    <2>1. CASE i = n.prev
      <3>1. Node(b, i).next = idx /\ Before(b, R, i, idx)
        BY <2>1, <1>b, <1>d DEF BookInv, Linked
      <3>2. Node(c, i).next = n.next
        BY <2>1, <1>c
      <3>3. i # n.next
        BY <3>1, <1>b, <1>d DEF BookInv, Linked, Ranked
      <3>4. Node(c, i).prev = Node(b, i).prev
        BY <3>3, <1>c
      <3>5. \A k \in Live(c) : Before(b, R, i, k) => Before(b, R, idx, k)
        <4> SUFFICES ASSUME NEW k \in Live(c), Before(b, R, i, k) PROVE Before(b, R, idx, k)
          OBVIOUS
        <4>1. ~Before(b, R, k, idx)
          BY <3>1, <1>b, <1>d DEF BookInv, Linked
        <4>2. SameLevel(Node(b, k).order, Node(b, idx).order)
          BY <3>1, <1>b DEF BookInv, Ranked, SameLevel
        <4> QED BY <4>1, <4>2, <1>b DEF BookInv, Ranked
      <3>6. n.next # NIL => /\ n.next \in Live(c)
                            /\ Node(c, n.next).prev = i
                            /\ Before(b, R, i, n.next)
                            /\ \A k \in Live(c) : ~(Before(b, R, i, k) /\ Before(b, R, k, n.next))
        <4> SUFFICES ASSUME n.next # NIL PROVE /\ n.next \in Live(c)
                            /\ Node(c, n.next).prev = i
                            /\ Before(b, R, i, n.next)
                            /\ \A k \in Live(c) : ~(Before(b, R, i, k) /\ Before(b, R, k, n.next))
          OBVIOUS
        <4>1. /\ n.next \in Live(b) /\ Before(b, R, idx, n.next)
              /\ \A k \in Live(b) : ~(Before(b, R, idx, k) /\ Before(b, R, k, n.next))
          BY DEF BookInv, Linked
        <4>2. n.next # idx
          BY <4>1 DEF BookInv, Ranked
        <4>3. n.next \in Live(c) /\ Node(c, n.next).prev = i
          BY <4>1, <4>2, <1>b, <1>c, <2>1
        <4>4. Before(b, R, i, n.next)
          BY <3>1, <4>1, <1>b DEF BookInv, Ranked
        <4> QED BY <4>1, <4>3, <4>4, <3>5, <1>b
      <3>7. n.next = NIL => \A k \in Live(c) : ~Before(b, R, i, k)
        BY <3>5, <1>b DEF BookInv, Linked
      <3>8. Node(b, i).prev # NIL => /\ Node(b, i).prev \in Live(c)
                                     /\ Node(c, Node(b, i).prev).next = i
        <4> SUFFICES ASSUME Node(b, i).prev # NIL
                     PROVE  /\ Node(b, i).prev \in Live(c)
                            /\ Node(c, Node(b, i).prev).next = i
          OBVIOUS
        <4>1. Node(b, i).prev \in Live(b) /\ Node(b, Node(b, i).prev).next = i
          BY <1>b DEF BookInv, Linked
        <4>2. Node(b, i).prev # idx
          BY <4>1, <3>3
        <4>3. Node(b, i).prev # n.prev
          BY <4>1, <3>1, <2>1, <1>b DEF BookInv, Linked, Ranked
        <4> QED BY <4>1, <4>2, <4>3, <1>b, <1>c
      <3>9. Node(b, i).prev = NIL => \A k \in Live(c) : ~Before(b, R, k, i)
        BY <1>b DEF BookInv, Linked
      <3> QED BY <3>2, <3>4, <3>6, <3>7, <3>8, <3>9, <1>a
    <2>2. CASE i # n.prev
      <3>1. Node(c, i).next = Node(b, i).next
        BY <2>2, <1>c
      <3>2. Node(b, i).next # idx
        BY <2>2, <1>b, <1>d DEF BookInv, Linked
      <3>3. Node(b, i).next # NIL =>
               /\ Node(b, i).next \in Live(c)
               /\ Node(c, Node(b, i).next).prev = i
               /\ Before(b, R, i, Node(b, i).next)
               /\ \A k \in Live(c) :
                     ~(Before(b, R, i, k) /\ Before(b, R, k, Node(b, i).next))
        <4> SUFFICES ASSUME Node(b, i).next # NIL
                     PROVE  /\ Node(b, i).next \in Live(c)
                            /\ Node(c, Node(b, i).next).prev = i
                            /\ Before(b, R, i, Node(b, i).next)
                            /\ \A k \in Live(c) :
                                  ~(Before(b, R, i, k) /\ Before(b, R, k, Node(b, i).next))
          OBVIOUS
        <4>1. /\ Node(b, i).next \in Live(b)
              /\ Node(b, Node(b, i).next).prev = i
              /\ Before(b, R, i, Node(b, i).next)
              /\ \A k \in Live(b) :
                    ~(Before(b, R, i, k) /\ Before(b, R, k, Node(b, i).next))
          BY <1>b DEF BookInv, Linked
        <4>2. Node(b, i).next # n.next
          BY <4>1, <1>b, <1>d DEF BookInv, Linked
        <4> QED BY <4>1, <4>2, <3>2, <1>b, <1>c
      <3>4. Node(b, i).next = NIL => \A k \in Live(c) : ~Before(b, R, i, k)
        BY <1>b DEF BookInv, Linked
      <3>5. CASE i = n.next
        <4>1. Node(b, i).prev = idx /\ Before(b, R, idx, i)
          BY <3>5, <1>b, <1>d DEF BookInv, Linked
        <4>2. Node(c, i).prev = n.prev
          BY <3>5, <1>c
        <4>3. n.prev # NIL => n.prev \in Live(c) /\ Node(c, n.prev).next = i
          <5>1. n.prev # NIL => n.prev \in Live(b) /\ Node(b, n.prev).next = idx
            BY DEF BookInv, Linked
          <5>2. n.prev # NIL => n.prev # idx
            BY <5>1 DEF BookInv, Linked, Ranked
          <5> QED BY <5>1, <5>2, <3>5, <1>b, <1>c
        <4>4. \A k \in Live(c) : Before(b, R, k, i) => Before(b, R, k, idx)
          <5> SUFFICES ASSUME NEW k \in Live(c), Before(b, R, k, i) PROVE Before(b, R, k, idx)
            OBVIOUS
          <5>1. ~Before(b, R, idx, k)
            BY <4>1, <3>5, <1>b, <1>d DEF BookInv, Linked
          <5>2. SameLevel(Node(b, k).order, Node(b, idx).order)
            BY <4>1, <1>b DEF BookInv, Ranked, SameLevel
          <5> QED BY <5>1, <5>2, <1>b DEF BookInv, Ranked
        <4>5. n.prev = NIL => \A k \in Live(c) : ~Before(b, R, k, i)
          BY <4>4, <1>b DEF BookInv, Linked
        <4> QED BY <3>1, <3>3, <3>4, <4>2, <4>3, <4>5, <1>a
      <3>6. CASE i # n.next
        <4>1. Node(c, i).prev = Node(b, i).prev
          BY <3>6, <1>c
        <4>2. Node(b, i).prev # NIL => /\ Node(b, i).prev \in Live(c)
                                       /\ Node(c, Node(b, i).prev).next = i
          <5>1. Node(b, i).prev # NIL => /\ Node(b, i).prev \in Live(b)
                                         /\ Node(b, Node(b, i).prev).next = i
            BY <1>b DEF BookInv, Linked
          <5>2. Node(b, i).prev # NIL => Node(b, i).prev # idx
            BY <5>1, <3>6
          <5>3. Node(b, i).prev # NIL => Node(b, i).prev # n.prev
            BY <5>1, <1>b, <1>d DEF BookInv, Linked
          <5> QED BY <5>1, <5>2, <5>3, <1>b, <1>c
        <4>3. Node(b, i).prev = NIL => \A k \in Live(c) : ~Before(b, R, k, i)
          BY <1>b DEF BookInv, Linked
        <4> QED BY <3>1, <3>3, <3>4, <4>1, <4>2, <4>3, <1>a
      <3> QED BY <3>5, <3>6
    <2> QED BY <2>1, <2>2
  <1>3. LevelEnds(c)
    <2>1. ASSUME NEW i \in Live(c)
          PROVE  LET k == LevelKey(Node(c, i).order)
                 IN  /\ k \in DOMAIN c.levels
                     /\ Node(c, i).prev = NIL => c.levels[k].head = i
                     /\ Node(c, i).next = NIL => c.levels[k].tail = i
      <3> DEFINE k == LevelKey(Node(b, i).order)
      <3>1. /\ k \in DOMAIN b.levels
            /\ Node(b, i).prev = NIL => b.levels[k].head = i
            /\ Node(b, i).next = NIL => b.levels[k].tail = i
        BY <1>b DEF BookInv, LevelEnds
      <3>2. CASE k # key
        <4>1. i # n.prev /\ i # n.next
          <5>2. \A j \in {n.prev, n.next} \ {NIL} : LevelKey(Node(b, j).order) = key
            BY Neighbours
          <5> QED BY <5>2, <3>2, <1>b, <1>d
        <4>2. k \in DOMAIN c.levels /\ c.levels[k] = b.levels[k]
          BY <3>1, <3>2 DEF LevelsAfterUnlink
        <4> QED BY <3>1, <4>1, <4>2, <1>a, <1>c
      <3>3. CASE k = key
        <4>1. n.prev # NIL \/ n.next # NIL
          BY <3>3, <1>b, LastOfLevel DEF LiveAt
        <4>2. /\ key \in DOMAIN c.levels
              /\ c.levels[key] = DropFrom(b.levels[key], idx, n)
          BY <4>1 DEF LevelsAfterUnlink
        <4>3. /\ n.prev = NIL <=> b.levels[key].head = idx
              /\ n.next = NIL <=> b.levels[key].tail = idx
          BY DEF LevelsAfterUnlink
        <4>4. Node(c, i).prev = NIL => c.levels[key].head = i
          BY <4>2, <4>3, <3>1, <3>3, <1>b, <1>c, <1>d DEF DropFrom, BookInv, Linked
        <4>5. Node(c, i).next = NIL => c.levels[key].tail = i
          BY <4>2, <4>3, <3>1, <3>3, <1>b, <1>c, <1>d DEF DropFrom, BookInv, Linked
        <4> QED BY <4>2, <4>4, <4>5, <3>3, <1>a
      <3> QED BY <3>2, <3>3
    <2>2. ASSUME NEW k \in DOMAIN c.levels
          PROVE  /\ c.levels[k].head \in LiveAt(c, k)
                 /\ Node(c, c.levels[k].head).prev = NIL
                 /\ c.levels[k].tail \in LiveAt(c, k)
                 /\ Node(c, c.levels[k].tail).next = NIL
      <3>1. k \in DOMAIN b.levels
        BY DEF LevelsAfterUnlink
      <3>2. /\ b.levels[k].head \in LiveAt(b, k)
            /\ Node(b, b.levels[k].head).prev = NIL
            /\ b.levels[k].tail \in LiveAt(b, k)
            /\ Node(b, b.levels[k].tail).next = NIL
        BY <3>1 DEF BookInv, LevelEnds
      <3>3. LiveAt(c, k) = LiveAt(b, k) \ {idx}
        BY <1>a, <1>b DEF LiveAt
      <3>4. CASE k # key
        <4>1. c.levels[k] = b.levels[k]
          BY <3>1, <3>4 DEF LevelsAfterUnlink
        <4>2. idx \notin LiveAt(b, k)
          BY <3>4 DEF LiveAt
        <4>3. \A i \in LiveAt(b, k) : i # n.prev /\ i # n.next
          <5>2. \A j \in {n.prev, n.next} \ {NIL} : LevelKey(Node(b, j).order) = key
            BY Neighbours
          <5> QED BY <5>2, <3>4, <1>d DEF LiveAt
        <4>4. LiveAt(c, k) \subseteq Live(c)
          BY DEF LiveAt
        <4> QED BY <3>2, <3>3, <4>1, <4>2, <4>3, <4>4, <1>c
      <3>5. CASE k = key
        <4>1. c.levels[k] = DropFrom(b.levels[key], idx, n) /\ (n.prev # NIL \/ n.next # NIL)
          BY <3>5 DEF LevelsAfterUnlink
        <4>2. /\ n.prev = NIL <=> b.levels[key].head = idx
              /\ n.next = NIL <=> b.levels[key].tail = idx
          BY DEF LevelsAfterUnlink
        <4>3. \A j \in {n.prev, n.next} \ {NIL} : j \in LiveAt(c, k)
          BY <3>3, <3>5, Neighbours DEF LiveAt
        <4>4. c.levels[k].head = IF n.prev = NIL THEN n.next ELSE b.levels[key].head
          BY <4>1, <4>2 DEF DropFrom
        <4>5. c.levels[k].tail = IF n.next = NIL THEN n.prev ELSE b.levels[key].tail
          BY <4>1, <4>2 DEF DropFrom
        <4>6. c.levels[k].head \in LiveAt(c, k) /\ c.levels[k].tail \in LiveAt(c, k)
          BY <3>2, <3>3, <3>5, <4>1, <4>2, <4>3, <4>4, <4>5
        <4>7. c.levels[k].head \in Live(c) /\ c.levels[k].tail \in Live(c)
          BY <4>6 DEF LiveAt
        <4>8. Node(c, c.levels[k].head).prev = NIL
          <5>1. n.next # NIL => Node(b, n.next).prev # NIL
            BY Neighbours, <1>d
          <5>2. CASE n.prev = NIL
            BY <5>2, <4>4, <4>7, <1>c
          <5>3. CASE n.prev # NIL
            <6>1. Node(b, b.levels[key].head).prev = NIL /\ NIL \notin Live(c)
              BY <3>2, <3>5, <1>b, <1>d
            <6>2. b.levels[key].head # n.next
              BY <5>1, <6>1, <4>4, <4>7, <5>3
            <6> QED BY <5>3, <6>1, <6>2, <4>4, <4>7, <1>c
          <5> QED BY <5>2, <5>3
        <4>9. Node(c, c.levels[k].tail).next = NIL
          <5>1. n.prev # NIL => Node(b, n.prev).next # NIL
            BY Neighbours, <1>d
          <5>2. CASE n.next = NIL
            BY <5>2, <4>5, <4>7, <1>c
          <5>3. CASE n.next # NIL
            <6>1. Node(b, b.levels[key].tail).next = NIL /\ NIL \notin Live(c)
              BY <3>2, <3>5, <1>b, <1>d
            <6>2. b.levels[key].tail # n.prev
              BY <5>1, <6>1, <4>5, <4>7, <5>3
            <6> QED BY <5>3, <6>1, <6>2, <4>5, <4>7, <1>c
          <5> QED BY <5>2, <5>3
        <4> QED BY <4>6, <4>8, <4>9
      <3> QED BY <3>4, <3>5
    <2> QED BY <2>1, <2>2 DEF LevelEnds
  <1> QED
    BY <1>1, <1>2, <1>3

\* After unlink order_count and total_qty are those of the orders that stay.
\* The orders behind the one that left move up by its quantity.
LEMMA UnlinkAggregates ==
    ASSUME NEW b, NEW R, BookInv(b, R), NEW idx \in Live(b),
           NEW c, SlotsAfterUnlink(b, idx, c), LevelsAfterUnlink(b, idx, c),
           NEW S, S = Depart(R, Node(b, idx).order.id)
    PROVE  Counted(c) /\ Summed(c, S)
  <1> DEFINE n == Node(b, idx)
             key == LevelKey(n.order)
             q == n.order.qty
  <1>a. /\ \A i \in Live(c) : Node(c, i).order = Node(b, i).order
        /\ \A i, j \in Live(c) : Before(c, S, i, j) <=> Before(b, R, i, j)
    BY UnlinkBefore
  <1>b. Live(c) = Live(b) \ {idx}
    BY DEF SlotsAfterUnlink
  <1>c. \A i \in Live(c) :
           /\ Node(c, i).prev = IF i = n.next THEN n.prev ELSE Node(b, i).prev
           /\ Node(c, i).next = IF i = n.prev THEN n.next ELSE Node(b, i).next
    BY DEF SlotsAfterUnlink, Occupied
  <1>d. NIL \notin Live(b) /\ \A i \in Live(b) : Node(b, i).order.qty \in Nat
    BY LiveSlot DEF BookInv
  <1>1. Counted(c)
    <2> SUFFICES ASSUME NEW k \in DOMAIN c.levels
                 PROVE  c.levels[k].order_count = Cardinality(LiveAt(c, k))
      BY DEF Counted
    <2>1. LiveAt(c, k) = LiveAt(b, k) \ {idx}
      BY <1>a, <1>b DEF LiveAt
    <2>2. IsFiniteSet(LiveAt(b, k))
      BY FiniteLevel DEF BookInv
    <2>3. Cardinality(LiveAt(c, k)) = IF idx \in LiveAt(b, k)
                                      THEN Cardinality(LiveAt(b, k)) - 1
                                      ELSE Cardinality(LiveAt(b, k))
      BY <2>1, <2>2, FS_RemoveElement
    <2>4. k \in DOMAIN b.levels
      BY DEF LevelsAfterUnlink
    <2>5. b.levels[k].order_count = Cardinality(LiveAt(b, k))
      BY <2>4 DEF BookInv, Counted
    <2>6. idx \in LiveAt(b, k) <=> k = key
      BY DEF LiveAt
    <2>7. CASE k = key
      <3>1. c.levels[k] = DropFrom(b.levels[k], idx, n)
        BY <2>7 DEF LevelsAfterUnlink
      <3> QED BY <2>3, <2>5, <2>6, <2>7, <3>1 DEF DropFrom
    <2>8. CASE k # key
      <3>1. c.levels[k] = b.levels[k]
        BY <2>4, <2>8 DEF LevelsAfterUnlink
      <3> QED BY <2>3, <2>5, <2>6, <2>8, <3>1
    <2> QED BY <2>7, <2>8
  <1>2. Summed(c, S)
    <2>1. PICK f \in [Live(b) -> Nat] : IsQueuePosition(b, R, f)
      BY DEF BookInv, Summed
    <2> DEFINE g == [i \in Live(c) |-> IF Before(b, R, idx, i) THEN f[i] - q ELSE f[i]]
    <2>2. \A i \in Live(b) : f[i] \in Nat
      BY <2>1
    <2>3. q \in Nat
      BY <1>d
    <2>4. \A i, j \in Live(b) : Before(b, R, i, j) => f[i] + Node(b, i).order.qty =< f[j]
      BY <2>1 DEF IsQueuePosition
    <2>5. \A i \in Live(c) : Before(b, R, idx, i) => f[i] - q \in Nat
      BY <2>2, <2>3, <2>4, <1>b
    <2>6. g \in [Live(c) -> Nat]
      BY <2>2, <2>5, <1>b
    <2>7. \A i \in Live(b) :
             /\ Node(b, i).prev = NIL => f[i] = 0
             /\ Node(b, i).next # NIL => f[Node(b, i).next] = f[i] + Node(b, i).order.qty
             /\ Node(b, i).next = NIL =>
                   b.levels[LevelKey(Node(b, i).order)].total_qty = f[i] + Node(b, i).order.qty
      BY <2>1 DEF IsQueuePosition
    <2>8. \A i, j \in Live(c) :
             Before(c, S, i, j) => g[i] + Node(c, i).order.qty =< g[j]
      <3> SUFFICES ASSUME NEW i \in Live(c), NEW j \in Live(c), Before(b, R, i, j)
                   PROVE  g[i] + Node(b, i).order.qty =< g[j]
        BY <1>a
      <3>1. f[i] + Node(b, i).order.qty =< f[j]
        BY <2>4, <1>b
      <3>2. CASE Before(b, R, idx, i)
        <4>1. Before(b, R, idx, j)
          BY <3>2, <1>b DEF BookInv, Ranked
        <4> QED BY <3>1, <3>2, <4>1, <2>2, <2>3, <1>b, <1>d
      <3>3. CASE ~Before(b, R, idx, i) /\ ~Before(b, R, idx, j)
        BY <3>1, <3>3
      <3>4. CASE ~Before(b, R, idx, i) /\ Before(b, R, idx, j)
        <4>1. Before(b, R, i, idx)
          <5>1. SameLevel(Node(b, i).order, Node(b, j).order)
            BY <1>b DEF BookInv, Ranked
          <5>2. SameLevel(Node(b, idx).order, Node(b, j).order)
            BY <3>4, <1>b DEF BookInv, Ranked
          <5>3. SameLevel(Node(b, i).order, Node(b, idx).order)
            BY <5>1, <5>2 DEF SameLevel
          <5> QED BY <5>3, <3>4, <1>b DEF BookInv, Ranked
        <4>2. f[i] + Node(b, i).order.qty =< f[idx] /\ f[idx] + q =< f[j]
          BY <4>1, <3>4, <2>4, <1>b
        <4> QED BY <4>2, <3>4, <2>2, <2>3, <1>b, <1>d
      <3> QED BY <3>2, <3>3, <3>4
    <2>9. ASSUME NEW i \in Live(c)
          PROVE  /\ Node(c, i).prev = NIL => g[i] = 0
                 /\ Node(c, i).next # NIL =>
                       g[Node(c, i).next] = g[i] + Node(c, i).order.qty
                 /\ Node(c, i).next = NIL =>
                       c.levels[LevelKey(Node(c, i).order)].total_qty
                         = g[i] + Node(c, i).order.qty
      <3> DEFINE e == Node(b, i).order.qty
                 k == LevelKey(Node(b, i).order)
      <3>0. /\ i \in Live(b) /\ i # idx /\ e \in Nat /\ f[i] \in Nat
            /\ f[idx] \in Nat /\ Node(c, i).order = Node(b, i).order
        BY <1>a, <1>b, <1>d, <2>2
      <3>1. ASSUME Node(c, i).prev = NIL PROVE g[i] = 0
        <4>1. CASE i = n.next
          <5>1. n.prev = NIL
            BY <3>1, <4>1, <1>c
          <5>2. f[idx] = 0 /\ f[i] = f[idx] + q /\ Before(b, R, idx, i)
            BY <5>1, <4>1, <3>0, <2>7, <1>d, Neighbours
          <5> QED BY <5>2, <2>3
        <4>2. CASE i # n.next
          <5>1. Node(b, i).prev = NIL
            BY <3>1, <4>2, <1>c
          <5>2. f[i] = 0 /\ ~Before(b, R, idx, i)
            BY <5>1, <3>0, <2>7 DEF BookInv, Linked
          <5> QED BY <5>2
        <4> QED BY <4>1, <4>2
      <3>2. CASE i = n.prev
        <4>1. Before(b, R, i, idx) /\ Node(b, i).next = idx /\ k = key
          BY <3>2, <3>0, <1>d, Neighbours
        <4>2. f[idx] = f[i] + e /\ g[i] = f[i] /\ Node(c, i).next = n.next
          BY <4>1, <3>0, <3>2, <2>7, <1>c, <1>d DEF BookInv, Ranked
        <4>3. ASSUME n.next # NIL PROVE g[n.next] = g[i] + e
          <5>1. f[n.next] = f[idx] + q /\ Before(b, R, idx, n.next)
                /\ n.next \in Live(c)
            BY <4>3, <2>7, <1>b, Neighbours
          <5> QED BY <5>1, <4>2, <3>0, <2>3
        <4>4. ASSUME n.next = NIL PROVE c.levels[k].total_qty = g[i] + e
          <5>1. b.levels[key].total_qty = f[idx] + q
            BY <4>4, <2>7
          <5>2. c.levels[key] = DropFrom(b.levels[key], idx, n)
            BY <3>2, <3>0, <1>d DEF LevelsAfterUnlink
          <5>3. c.levels[key].total_qty = f[idx]
            BY <5>1, <5>2, <3>0, <2>3 DEF DropFrom, SaturatingSub
          <5> QED BY <5>3, <4>1, <4>2
        <4> QED BY <4>2, <4>3, <4>4, <3>0, <3>1
      <3>3. CASE i # n.prev
        <4>1. Node(c, i).next = Node(b, i).next
          BY <3>3, <1>c
        <4>2. ASSUME Node(b, i).next # NIL PROVE g[Node(b, i).next] = g[i] + e
          <5> DEFINE j == Node(b, i).next
          <5>1. j \in Live(b) /\ Before(b, R, i, j) /\ Node(b, j).prev = i /\ f[j] = f[i] + e
            BY <4>2, <3>0, <2>7, Neighbours
          <5>2. j # idx
            BY <5>1, <3>3
          <5>3. Before(b, R, idx, i) => Before(b, R, idx, j)
            BY <5>1, <3>0 DEF BookInv, Ranked
          <5>4. Before(b, R, idx, j) => Before(b, R, idx, i)
            <6>1. ~(Before(b, R, i, idx) /\ Before(b, R, idx, j))
              BY <4>2, <3>0 DEF BookInv, Linked
            <6>2. Before(b, R, idx, j) => SameLevel(Node(b, i).order, Node(b, idx).order)
              BY <5>1, <3>0 DEF BookInv, Ranked, SameLevel
            <6> QED BY <6>1, <6>2, <3>0 DEF BookInv, Ranked
          <5>5. j \in Live(c) /\ f[j] \in Nat
            BY <5>1, <5>2, <1>b, <2>2
          <5> QED BY <5>1, <5>3, <5>4, <5>5, <3>0, <2>3
        <4>3. ASSUME Node(b, i).next = NIL PROVE c.levels[k].total_qty = g[i] + e
          <5>1. b.levels[k].total_qty = f[i] + e /\ ~Before(b, R, i, idx)
            BY <4>3, <3>0, <2>7 DEF BookInv, Linked
          <5>2. CASE k = key
            <6>1. Before(b, R, idx, i)
              BY <5>1, <5>2, <3>0 DEF BookInv, Ranked, SameLevel, LevelKey
            <6>2. f[idx] + q =< f[i]
              BY <6>1, <3>0, <2>4
            <6>3. n.prev # NIL \/ n.next # NIL
              BY <6>1, <3>0 DEF BookInv, Linked
            <6>4. c.levels[key] = DropFrom(b.levels[key], idx, n)
              BY <6>3 DEF LevelsAfterUnlink
            <6>5. c.levels[key].total_qty = (f[i] + e) - q
              BY <6>2, <6>4, <5>1, <5>2, <3>0, <2>3 DEF DropFrom, SaturatingSub
            <6> QED BY <6>1, <6>5, <5>2, <3>0, <2>3
          <5>3. CASE k # key
            <6>1. ~Before(b, R, idx, i)
              BY <5>3, <3>0 DEF BookInv, Ranked, SameLevel, LevelKey
            <6>2. k \in DOMAIN b.levels
              BY <3>0 DEF BookInv, LevelEnds
            <6>3. c.levels[k] = b.levels[k]
              BY <6>2, <5>3 DEF LevelsAfterUnlink
            <6> QED BY <6>1, <6>3, <5>1
          <5> QED BY <5>2, <5>3
        <4> QED BY <4>1, <4>2, <4>3, <3>0, <3>1
      <3> QED BY <3>2, <3>3
    <2> QED
      <3>1. IsQueuePosition(c, S, g)
        BY <2>8, <2>9 DEF IsQueuePosition
      <3> QED BY <3>1, <2>6 DEF Summed
  <1> QED
    BY <1>1, <1>2

\* unlink keeps the invariant, the order gone from the priority relation.
THEOREM UnlinkInv ==
    ASSUME NEW b, NEW R, BookInv(b, R), NEW idx \in Live(b)
    PROVE  BookInv(Unlink(b, idx), Depart(R, Node(b, idx).order.id))
  <1>1. /\ SlotsAfterUnlink(b, idx, Unlink(b, idx))
        /\ LevelsAfterUnlink(b, idx, Unlink(b, idx))
    BY UnlinkSlots, UnlinkLevels
  <1> QED
    BY <1>1, UnlinkBook, UnlinkPriority, UnlinkAggregates, Zenon DEF BookInv

-----------------------------------------------------------------------------
(* add.  The book c after an order entered slot idx, behind slot tail.     *)

SlotsAfterAdd(b, o, idx, tail, c) ==
    /\ c = [levels |-> c.levels, orders |-> c.orders, pool |-> c.pool]
    /\ c.orders = Put(b.orders, o.id, idx)
    /\ idx \in Index
    /\ idx \notin Live(b)
    /\ DOMAIN c.pool.slots = DOMAIN b.pool.slots \cup {idx}
    /\ Node(c, idx) = Occupied(o, tail, NIL)
    /\ \A i \in DOMAIN b.pool.slots \ (Live(b) \cup {idx}) : Node(c, i) = Node(b, i)
    /\ \A i \in Live(b) : Node(c, i) = Occupied(Node(b, i).order, Node(b, i).prev,
                              IF i = tail THEN idx ELSE Node(b, i).next)
    /\ Live(c) = Live(b) \cup {idx}
    /\ c.levels = Put(b.levels, LevelKey(o),
                      PushBack(LevelOrEmpty(b, LevelKey(o)), idx, o.qty))

\* The tail of a level is its newest order, and NIL when no order rests there.
LEMMA TailOfLevel ==
    ASSUME NEW b, NEW R, BookInv(b, R), NEW key,
           NEW tail, tail = LevelOrEmpty(b, key).tail
    PROVE  /\ tail = NIL => key \notin DOMAIN b.levels /\ LiveAt(b, key) = {}
           /\ tail # NIL => /\ key \in DOMAIN b.levels
                            /\ tail = b.levels[key].tail
                            /\ tail \in LiveAt(b, key)
                            /\ Node(b, tail).next = NIL
                            /\ \A k \in LiveAt(b, key) \ {tail} : Before(b, R, k, tail)
  <1>1. CASE key \in DOMAIN b.levels
    <2>1. /\ tail = b.levels[key].tail /\ tail \in LiveAt(b, key)
          /\ Node(b, tail).next = NIL
      BY <1>1 DEF LevelOrEmpty, BookInv, LevelEnds
    <2>2. tail # NIL /\ tail \in Live(b)
      BY <2>1, LiveSlot DEF LiveAt, BookInv
    <2>3. \A k \in LiveAt(b, key) : SameLevel(Node(b, k).order, Node(b, tail).order)
      BY <2>1 DEF LiveAt, LevelKey, SameLevel
    <2>4. \A k \in LiveAt(b, key) \ {tail} : Before(b, R, k, tail)
      BY <2>1, <2>2, <2>3 DEF LiveAt, BookInv, Linked, Ranked
    <2> QED BY <1>1, <2>1, <2>2, <2>4
  <1>2. CASE key \notin DOMAIN b.levels
    <2>1. tail = NIL
      BY <1>2 DEF LevelOrEmpty, EmptyLevel
    <2>2. LiveAt(b, key) = {}
      BY <1>2 DEF LiveAt, BookInv, LevelEnds
    <2> QED BY <1>2, <2>1, <2>2
  <1> QED BY <1>1, <1>2

\* add takes a slot that is not live, puts the order behind the tail of its
\* level and leaves the other slots alone.
LEMMA AddSlots ==
    ASSUME NEW b, NEW R, BookInv(b, R), NEW o \in Order, HasRoom(b.pool)
    PROVE  SlotsAfterAdd(b, o, AllocIndex(b.pool),
                         LevelOrEmpty(b, LevelKey(o)).tail, AddOrder(b, o))
  <1> DEFINE idx == AllocIndex(b.pool)
             tail == LevelOrEmpty(b, LevelKey(o)).tail
             c == AddOrder(b, o)
             node == Occupied(o, tail, NIL)
             placed == PoolAlloc(b.pool, node)
  <1>1. /\ c = [levels |-> c.levels, orders |-> c.orders, pool |-> c.pool]
        /\ c.orders = Put(b.orders, o.id, idx)
        /\ c.levels = Put(b.levels, LevelKey(o),
                          PushBack(LevelOrEmpty(b, LevelKey(o)), idx, o.qty))
        /\ c.pool = WithSlots(placed, LinkAfter(placed.slots, tail, idx))
    BY DEF AddOrder
  <1>2. placed.slots = Put(b.pool.slots, idx, node)
    BY DEF PoolAlloc, AllocIndex
  <1>3. c.pool.slots = LinkAfter(Put(b.pool.slots, idx, node), tail, idx)
    BY <1>1, <1>2 DEF WithSlots
  <1>4. idx \in Index /\ idx \notin Live(b)
    <2>1. CASE b.pool.free_head # NIL
      BY <2>1, NILAssumption DEF AllocIndex, BookInv, FreeList, IsBook, IsPool, Index
    <2>2. CASE b.pool.free_head = NIL
      <3>1. idx = b.pool.len /\ idx \in Nat /\ idx < NIL
        BY <2>2, NILAssumption DEF AllocIndex, HasRoom, BookInv, IsBook, IsPool
      <3>2. idx \notin 0 .. b.pool.len - 1
        BY <3>1
      <3> QED BY <3>1, <3>2, LiveSlot, NILAssumption DEF BookInv, Index
    <2> QED BY <2>1, <2>2
  <1>5. tail = NIL \/ tail \in Live(b)
    BY TailOfLevel DEF LiveAt
  <1> HIDE DEF idx, tail, c, placed
  <1>6. DOMAIN c.pool.slots = DOMAIN b.pool.slots \cup {idx}
    BY <1>3 DEF LinkAfter, Put
  <1>7. idx # NIL /\ NIL \notin Live(b)
    BY <1>4, NILAssumption, LiveSlot DEF Index, BookInv
  <1>8. idx # tail
    BY <1>4, <1>5, <1>7
  <1>9. ASSUME NEW i \in DOMAIN b.pool.slots \cup {idx}
        PROVE  Node(c, i) = IF i = idx THEN node
                            ELSE IF i = tail THEN [Node(b, i) EXCEPT !.next = idx]
                            ELSE Node(b, i)
    BY <1>3, <1>8 DEF LinkAfter, Put, Node
  <1>10. Node(c, idx) = node
    BY <1>9
  <1>11. \A i \in DOMAIN b.pool.slots \ (Live(b) \cup {idx}) : Node(c, i) = Node(b, i)
    <2> SUFFICES ASSUME NEW i \in DOMAIN b.pool.slots \ (Live(b) \cup {idx})
                 PROVE  i # tail
      BY <1>9
    <2>1. i # NIL
      BY NILAssumption DEF BookInv, IsBook, IsPool
    <2> QED BY <1>5, <2>1
  <1>12. ASSUME NEW i \in Live(b)
         PROVE  Node(c, i) = Occupied(Node(b, i).order, Node(b, i).prev,
                              IF i = tail THEN idx ELSE Node(b, i).next)
    <2>1. i \in DOMAIN b.pool.slots /\ i # idx
      BY <1>4, LiveSlot DEF BookInv
    <2>2. Node(b, i) \in OccupiedSlots
      BY LiveSlot DEF BookInv
    <2>3. Node(b, i) = Occupied(Node(b, i).order, Node(b, i).prev, Node(b, i).next)
      BY <2>2 DEF OccupiedSlots, Occupied
    <2>4. [Node(b, i) EXCEPT !.next = idx] = Occupied(Node(b, i).order, Node(b, i).prev, idx)
      BY <2>2 DEF OccupiedSlots, Occupied
    <2> QED BY <1>9, <2>1, <2>3, <2>4
  <1>13. Live(c) = Live(b) \cup {idx}
    <2>1. Live(c) \subseteq DOMAIN b.pool.slots \cup {idx}
      BY <1>6 DEF Live, LiveSlots
    <2>2. Live(b) \subseteq DOMAIN b.pool.slots
      BY DEF Live, LiveSlots
    <2>3. ASSUME NEW i \in DOMAIN b.pool.slots \cup {idx}
          PROVE  i \in Live(c) <=> Node(c, i).kind = "Occupied"
      BY <1>6 DEF Live, LiveSlots, Node
    <2>4. idx \in Live(c)
      BY <1>10, <2>3 DEF Occupied
    <2>5. \A i \in Live(b) : Node(c, i).kind = "Occupied"
      BY <1>12 DEF Occupied
    <2>6. \A i \in DOMAIN b.pool.slots \ (Live(b) \cup {idx}) : Node(c, i).kind # "Occupied"
      BY <1>11 DEF Live, LiveSlots, Node
    <2> QED BY <2>1, <2>2, <2>3, <2>4, <2>5, <2>6
  <1> QED
    BY <1>1, <1>4, <1>6, <1>10, <1>11, <1>12, <1>13
    DEF SlotsAfterAdd, idx, tail, c

\* After add the map is still injective onto the live slots, and the free list
\* no longer leads to the slot that was taken from it.
LEMMA AddBook ==
    ASSUME NEW b, NEW R, BookInv(b, R), NEW o \in Order, HasRoom(b.pool),
           o.id \notin DOMAIN b.orders,
           NEW c, c = AddOrder(b, o),
           NEW idx, idx = AllocIndex(b.pool),
           NEW tail, tail = LevelOrEmpty(b, LevelKey(o)).tail,
           SlotsAfterAdd(b, o, idx, tail, c)
    PROVE  IsBook(c) /\ MapOntoLive(c) /\ FreeList(c)
  <1> DEFINE key == LevelKey(o)
             level == LevelOrEmpty(b, key)
  <1>a. /\ c = [levels |-> c.levels, orders |-> c.orders, pool |-> c.pool]
        /\ c.orders = Put(b.orders, o.id, idx)
        /\ c.levels = Put(b.levels, key, PushBack(level, idx, o.qty))
        /\ idx \in Index
        /\ idx \notin Live(b)
        /\ DOMAIN c.pool.slots = DOMAIN b.pool.slots \cup {idx}
        /\ Live(c) = Live(b) \cup {idx}
        /\ Node(c, idx) = Occupied(o, tail, NIL)
    BY DEF SlotsAfterAdd
  <1>b. /\ \A i \in DOMAIN b.pool.slots \ (Live(b) \cup {idx}) : Node(c, i) = Node(b, i)
        /\ \A i \in Live(b) : Node(c, i) = Occupied(Node(b, i).order, Node(b, i).prev,
                              IF i = tail THEN idx ELSE Node(b, i).next)
    BY DEF SlotsAfterAdd
  <1>c. o.qty \in Nat /\ o.id \in OrderId /\ key \in Side \X Price
    BY DEF Order, LevelKey
  <1>d. level \in Level
    BY NILAssumption DEF LevelOrEmpty, EmptyLevel, Level, Link, BookInv, IsBook
  <1>e. idx \in Link /\ tail \in Link /\ NIL \in Link
    BY <1>a, <1>d, NILAssumption DEF Link, Index, Level
  <1>f. /\ c.pool.free_head = IF b.pool.free_head # NIL
                              THEN Node(b, b.pool.free_head).next ELSE NIL
        /\ c.pool.len = IF b.pool.free_head # NIL THEN b.pool.len ELSE b.pool.len + 1
        /\ c.pool = [slots |-> c.pool.slots, len |-> c.pool.len, free_head |-> c.pool.free_head]
        /\ c.pool.slots = [i \in DOMAIN c.pool.slots |-> c.pool.slots[i]]
    BY DEF AddOrder, PoolAlloc, WithSlots, LinkAfter, Node
  <1>g. b.pool.free_head # NIL => /\ idx = b.pool.free_head
                                  /\ idx \in DOMAIN b.pool.slots \ Live(b)
    BY DEF AllocIndex, BookInv, FreeList
  <1>h. b.pool.free_head = NIL => idx = b.pool.len /\ b.pool.len < NIL
    BY DEF AllocIndex, HasRoom
  <1> HIDE DEF key, level
  <1>1. IsPool(c.pool)
    <2>1. \A i \in DOMAIN c.pool.slots : Node(c, i) \in Slot
      <3>1. Node(c, idx) \in Slot
        BY <1>a, <1>e DEF Occupied, Slot, OccupiedSlots
      <3>2. \A i \in DOMAIN b.pool.slots \ (Live(b) \cup {idx}) : Node(c, i) \in Slot
        BY <1>b DEF BookInv, IsBook, IsPool, Node
      <3>3. \A i \in Live(b) : Node(c, i) \in Slot
        <4>1. \A i \in Live(b) : /\ Node(b, i).order \in Order
                                 /\ Node(b, i).prev \in Link
                                 /\ Node(b, i).next \in Link
          BY LiveSlot DEF BookInv
        <4> QED BY <1>b, <1>e, <4>1 DEF Occupied, Slot, OccupiedSlots
      <3> QED BY <1>a, <3>1, <3>2, <3>3
    <2>2. c.pool.len \in 0 .. NIL /\ DOMAIN c.pool.slots = 0 .. c.pool.len - 1
      <3>1. b.pool.len \in Nat /\ b.pool.len =< NIL /\ DOMAIN b.pool.slots = 0 .. b.pool.len - 1
        BY NILAssumption DEF BookInv, IsBook, IsPool
      <3>2. CASE b.pool.free_head # NIL
        BY <3>1, <3>2, <1>a, <1>f, <1>g, NILAssumption
      <3>3. CASE b.pool.free_head = NIL
        BY <3>1, <3>3, <1>a, <1>f, <1>h, NILAssumption
      <3> QED BY <3>2, <3>3
    <2>3. c.pool.free_head \in Link
      <3>1. CASE b.pool.free_head # NIL
        <4>1. Node(b, b.pool.free_head) \in Slot
          BY <3>1, <1>g DEF BookInv, IsBook, IsPool, Node
        <4> QED BY <4>1, <3>1, <1>f DEF Slot, FreeSlots, OccupiedSlots
      <3>2. CASE b.pool.free_head = NIL
        BY <3>2, <1>f, <1>e
      <3> QED BY <3>1, <3>2
    <2>4. c.pool.slots \in [0 .. c.pool.len - 1 -> Slot]
      BY <1>f, <2>1, <2>2 DEF Node
    <2> QED BY <1>f, <2>2, <2>3, <2>4 DEF IsPool
  <1>2. /\ DOMAIN c.orders \subseteq OrderId
        /\ c.orders \in [DOMAIN c.orders -> Index]
    BY <1>a, <1>c DEF Put, BookInv, IsBook
  <1>3. PushBack(level, idx, o.qty) \in Level
    BY <1>c, <1>d, <1>e DEF PushBack, Level
  <1>4. /\ DOMAIN c.levels \subseteq Side \X Price
        /\ c.levels \in [DOMAIN c.levels -> Level]
    <2>1. DOMAIN c.levels = DOMAIN b.levels \cup {key}
      BY <1>a DEF Put
    <2>2. \A k \in DOMAIN c.levels : c.levels[k] \in Level
      BY <1>a, <1>3, <2>1 DEF Put, BookInv, IsBook
    <2>3. c.levels = [k \in DOMAIN c.levels |-> c.levels[k]]
      BY <1>a DEF Put
    <2> QED BY <2>1, <2>2, <2>3, <1>c DEF BookInv, IsBook
  <1>5. MapOntoLive(c)
    <2>1. \A i \in Live(b) : Node(c, i).order = Node(b, i).order
      BY <1>b DEF Occupied
    <2>2. Node(c, idx).order = o
      BY <1>a DEF Occupied
    <2>3. DOMAIN c.orders = DOMAIN b.orders \cup {o.id}
      BY <1>a DEF Put
    <2>4. c.orders[o.id] = idx /\ \A id \in DOMAIN b.orders : c.orders[id] = b.orders[id]
      BY <1>a DEF Put
    <2> QED
      BY <1>a, <2>1, <2>2, <2>3, <2>4 DEF BookInv, MapOntoLive
  <1>6. FreeList(c)
    <2>1. DOMAIN c.pool.slots \ Live(c) = (DOMAIN b.pool.slots \ Live(b)) \ {idx}
      BY <1>a
    <2>2. \A i \in (DOMAIN b.pool.slots \ Live(b)) \ {idx} : Node(c, i).next = Node(b, i).next
      BY <1>b
    <2>3. CASE b.pool.free_head # NIL
      BY <2>1, <2>2, <2>3, <1>f, <1>g DEF BookInv, FreeList
    <2>4. CASE b.pool.free_head = NIL
      <3>1. idx \notin DOMAIN b.pool.slots
        BY <2>4, <1>h, NILAssumption DEF BookInv, IsBook, IsPool
      <3> QED BY <2>1, <2>2, <2>4, <3>1, <1>f DEF BookInv, FreeList
    <2> QED BY <2>3, <2>4
  <1> QED
    BY <1>a, <1>1, <1>2, <1>4, <1>5, <1>6 DEF IsBook

\* The new order is behind every order of its level and ahead of none.
LEMMA AddBefore ==
    ASSUME NEW b, NEW R, BookInv(b, R), NEW o \in Order,
           o.id \notin DOMAIN b.orders,
           NEW c, NEW idx, NEW tail, SlotsAfterAdd(b, o, idx, tail, c),
           NEW S, S = Arrive(R, Resting(b), o)
    PROVE  /\ \A i \in Live(b) : Node(c, i).order = Node(b, i).order
           /\ Node(c, idx).order = o
           /\ \A i, j \in Live(b) : Before(c, S, i, j) <=> Before(b, R, i, j)
           /\ \A i \in Live(b) : Before(c, S, i, idx) <=> i \in LiveAt(b, LevelKey(o))
           /\ \A i \in Live(c) : ~Before(c, S, idx, i)
           /\ S \subseteq (DOMAIN c.orders) \X (DOMAIN c.orders)
  <1>1. /\ \A i \in Live(b) : Node(c, i).order = Node(b, i).order
        /\ Node(c, idx).order = o
        /\ Live(c) = Live(b) \cup {idx}
        /\ DOMAIN c.orders = DOMAIN b.orders \cup {o.id}
    BY DEF SlotsAfterAdd, Occupied, Put
  <1>2. \A i \in Live(b) : /\ Node(b, i).order.id \in DOMAIN b.orders
                           /\ Node(b, i).order.id # o.id
                           /\ Resting(b)[Node(b, i).order.id] = Node(b, i).order
    BY DEF BookInv, MapOntoLive, Resting
  <1>3. DOMAIN Resting(b) = DOMAIN b.orders
    BY DEF Resting
  <1>4. \A x, y : <<x, y>> \in S <=> \/ <<x, y>> \in R
                                     \/ /\ y = o.id /\ x \in DOMAIN b.orders
                                        /\ SameLevel(Resting(b)[x], o)
    BY <1>3 DEF Arrive
  <1>5. R \subseteq (DOMAIN b.orders) \X (DOMAIN b.orders)
    BY DEF BookInv, Ranked
  <1>6. \A i, j \in Live(b) : Before(c, S, i, j) <=> Before(b, R, i, j)
    BY <1>1, <1>2, <1>4 DEF Before
  <1>7. \A i \in Live(b) : SameLevel(Node(b, i).order, o) <=> i \in LiveAt(b, LevelKey(o))
    BY DEF SameLevel, LiveAt, LevelKey
  <1>8. \A i \in Live(b) : Before(c, S, i, idx) <=> i \in LiveAt(b, LevelKey(o))
    BY <1>1, <1>2, <1>4, <1>5, <1>7 DEF Before
  <1>9. \A i \in Live(c) : ~Before(c, S, idx, i)
    BY <1>1, <1>4, <1>5 DEF Before
  <1>10. S \subseteq (DOMAIN c.orders) \X (DOMAIN c.orders)
    BY <1>1, <1>3, <1>5 DEF Arrive
  <1> QED
    BY <1>1, <1>6, <1>8, <1>9, <1>10

\* After add the order is the last of the queue of its level, and the other
\* queues are as they were.
LEMMA AddPriority ==
    ASSUME NEW b, NEW R, BookInv(b, R), NEW o \in Order,
           o.id \notin DOMAIN b.orders,
           NEW c, NEW idx,
           NEW tail, tail = LevelOrEmpty(b, LevelKey(o)).tail,
           SlotsAfterAdd(b, o, idx, tail, c),
           NEW S, S = Arrive(R, Resting(b), o)
    PROVE  Ranked(c, S) /\ Linked(c, S) /\ LevelEnds(c)
  <1> DEFINE key == LevelKey(o)
  <1>a. /\ \A i \in Live(b) : Node(c, i).order = Node(b, i).order
        /\ Node(c, idx).order = o
        /\ \A i, j \in Live(b) : Before(c, S, i, j) <=> Before(b, R, i, j)
        /\ \A i \in Live(b) : Before(c, S, i, idx) <=> i \in LiveAt(b, key)
        /\ \A i \in Live(c) : ~Before(c, S, idx, i)
        /\ S \subseteq (DOMAIN c.orders) \X (DOMAIN c.orders)
    BY AddBefore
  <1>b. /\ Live(c) = Live(b) \cup {idx} /\ idx \notin Live(b)
        /\ Node(c, idx).prev = tail /\ Node(c, idx).next = NIL
        /\ \A i \in Live(b) :
              /\ Node(c, i).prev = Node(b, i).prev
              /\ Node(c, i).next = IF i = tail THEN idx ELSE Node(b, i).next
    BY DEF SlotsAfterAdd, Occupied
  <1>c. NIL \notin Live(b) /\ idx # NIL
    BY LiveSlot, NILAssumption DEF BookInv, SlotsAfterAdd, Index
  <1>d. /\ tail = NIL => key \notin DOMAIN b.levels /\ LiveAt(b, key) = {}
        /\ tail # NIL => /\ key \in DOMAIN b.levels
                         /\ tail = b.levels[key].tail
                         /\ tail \in LiveAt(b, key)
                         /\ Node(b, tail).next = NIL
                         /\ \A k \in LiveAt(b, key) \ {tail} : Before(b, R, k, tail)
    BY TailOfLevel
  <1>e. \A i \in Live(b) : i \in LiveAt(b, key) <=> SameLevel(Node(b, i).order, o)
    BY DEF LiveAt, SameLevel, LevelKey
  <1> HIDE DEF key
  <1>1. Ranked(c, S)
    <2>1. \A i, j \in Live(c) :
            /\ Before(c, S, i, j) => /\ SameLevel(Node(c, i).order, Node(c, j).order)
                                     /\ ~Before(c, S, j, i)
            /\ SameLevel(Node(c, i).order, Node(c, j).order) =>
                  i = j \/ Before(c, S, i, j) \/ Before(c, S, j, i)
      <3> SUFFICES ASSUME NEW i \in Live(c), NEW j \in Live(c)
                   PROVE  /\ Before(c, S, i, j) =>
                                /\ SameLevel(Node(c, i).order, Node(c, j).order)
                                /\ ~Before(c, S, j, i)
                          /\ SameLevel(Node(c, i).order, Node(c, j).order) =>
                                i = j \/ Before(c, S, i, j) \/ Before(c, S, j, i)
        OBVIOUS
      <3>1. CASE i \in Live(b) /\ j \in Live(b)
        BY <3>1, <1>a DEF BookInv, Ranked
      <3>2. CASE i = idx /\ j \in Live(b)
        BY <3>2, <1>a, <1>b, <1>e DEF SameLevel
      <3>3. CASE i \in Live(b) /\ j = idx
        BY <3>3, <1>a, <1>b, <1>e DEF SameLevel
      <3>4. CASE i = idx /\ j = idx
        BY <3>4, <1>a
      <3> QED BY <3>1, <3>2, <3>3, <3>4, <1>b
    <2>2. ASSUME NEW i \in Live(c), NEW j \in Live(c), NEW k \in Live(c),
                 Before(c, S, i, j), Before(c, S, j, k)
          PROVE  Before(c, S, i, k)
      <3>1. i \in Live(b) /\ j \in Live(b) /\ Before(b, R, i, j)
        BY <2>2, <1>a, <1>b
      <3>2. CASE k \in Live(b)
        BY <3>1, <3>2, <2>2, <1>a DEF BookInv, Ranked
      <3>3. CASE k = idx
        <4>1. SameLevel(Node(b, i).order, Node(b, j).order) /\ SameLevel(Node(b, j).order, o)
          BY <3>1, <3>3, <2>2, <1>a, <1>e DEF BookInv, Ranked
        <4> QED BY <4>1, <3>1, <3>3, <1>a, <1>e DEF SameLevel
      <3> QED BY <3>2, <3>3, <1>b
    <2> QED BY <2>1, <2>2, <1>a DEF Ranked
  <1>2. Linked(c, S)
    <2> SUFFICES ASSUME NEW i \in Live(c)
                 PROVE  /\ Node(c, i).next # NIL =>
                              /\ Node(c, i).next \in Live(c)
                              /\ Node(c, Node(c, i).next).prev = i
                              /\ Before(c, S, i, Node(c, i).next)
                              /\ \A k \in Live(c) :
                                    ~(Before(c, S, i, k) /\ Before(c, S, k, Node(c, i).next))
                        /\ Node(c, i).next = NIL => \A k \in Live(c) : ~Before(c, S, i, k)
                        /\ Node(c, i).prev # NIL =>
                              Node(c, i).prev \in Live(c) /\ Node(c, Node(c, i).prev).next = i
                        /\ Node(c, i).prev = NIL => \A k \in Live(c) : ~Before(c, S, k, i)
      BY DEF Linked
    <2>1. CASE i = idx
      <3>1. tail # NIL => tail \in Live(b)
        BY <1>d DEF LiveAt
      <3>2. tail = NIL => \A k \in Live(c) : ~Before(c, S, k, idx)
        BY <1>a, <1>b, <1>d
      <3> QED BY <2>1, <3>1, <3>2, <1>a, <1>b
    <2>2. CASE i \in Live(b)
      <3>1. Node(c, i).prev # NIL =>
              Node(c, i).prev \in Live(c) /\ Node(c, Node(c, i).prev).next = i
        <4>1. Node(b, i).prev # NIL => /\ Node(b, i).prev \in Live(b)
                                       /\ Node(b, Node(b, i).prev).next = i
          BY <2>2 DEF BookInv, Linked
        <4>2. Node(b, i).prev # NIL => Node(b, i).prev # tail
          BY <4>1, <2>2, <1>c, <1>d
        <4> QED BY <4>1, <4>2, <2>2, <1>b
      <3>2. Node(c, i).prev = NIL => \A k \in Live(c) : ~Before(c, S, k, i)
        BY <2>2, <1>a, <1>b DEF BookInv, Linked
      <3>3. CASE i = tail
        <4>1. i \in LiveAt(b, key) /\ Node(c, i).next = idx /\ Node(b, i).next = NIL
          BY <3>3, <2>2, <1>b, <1>c, <1>d
        <4>2. \A k \in Live(b) : ~Before(b, R, i, k)
          BY <4>1, <2>2 DEF BookInv, Linked
        <4> QED BY <3>1, <3>2, <3>3, <4>1, <4>2, <2>2, <1>a, <1>b, <1>c
      <3>4. CASE i # tail
        <4>1. Node(c, i).next = Node(b, i).next
          BY <3>4, <2>2, <1>b
        <4>2. ASSUME Node(b, i).next # NIL
              PROVE  /\ Node(b, i).next \in Live(c)
                     /\ Node(c, Node(b, i).next).prev = i
                     /\ Before(c, S, i, Node(b, i).next)
                     /\ \A k \in Live(c) :
                           ~(Before(c, S, i, k) /\ Before(c, S, k, Node(b, i).next))
          <5>1. /\ Node(b, i).next \in Live(b)
                /\ Node(b, Node(b, i).next).prev = i
                /\ Before(b, R, i, Node(b, i).next)
                /\ \A k \in Live(b) :
                      ~(Before(b, R, i, k) /\ Before(b, R, k, Node(b, i).next))
            BY <4>2, <2>2 DEF BookInv, Linked
          <5> QED BY <5>1, <2>2, <1>a, <1>b
        <4>3. ASSUME Node(b, i).next = NIL
              PROVE  \A k \in Live(c) : ~Before(c, S, i, k)
          <5>1. \A k \in Live(b) : ~Before(b, R, i, k)
            BY <4>3, <2>2 DEF BookInv, Linked
          <5>2. i \notin LiveAt(b, key)
            BY <5>1, <3>4, <1>d DEF LiveAt
          <5> QED BY <5>1, <5>2, <2>2, <1>a, <1>b
        <4> QED BY <3>1, <3>2, <4>1, <4>2, <4>3
      <3> QED BY <3>3, <3>4
    <2> QED BY <2>1, <2>2, <1>b
  <1>3. LevelEnds(c)
    <2>1. /\ DOMAIN c.levels = DOMAIN b.levels \cup {key}
          /\ c.levels[key] = PushBack(LevelOrEmpty(b, key), idx, o.qty)
          /\ \A k \in DOMAIN b.levels \ {key} : c.levels[k] = b.levels[k]
      BY DEF SlotsAfterAdd, Put, key
    <2>2. \A k : LiveAt(c, k) = IF k = key THEN LiveAt(b, k) \cup {idx} ELSE LiveAt(b, k)
      BY <1>a, <1>b DEF LiveAt, key
    <2>3. /\ c.levels[key].tail = idx
          /\ tail = NIL => c.levels[key].head = idx
          /\ tail # NIL => c.levels[key].head = b.levels[key].head
      <3>1. tail = NIL => LevelOrEmpty(b, key).head = NIL
        BY <1>d DEF LevelOrEmpty, EmptyLevel
      <3>2. tail # NIL => /\ LevelOrEmpty(b, key) = b.levels[key]
                          /\ b.levels[key].head \in Live(b)
        BY <1>d DEF LevelOrEmpty, BookInv, LevelEnds, LiveAt
      <3> QED BY <2>1, <3>1, <3>2, <1>c DEF PushBack
    <2>4. ASSUME NEW i \in Live(c)
          PROVE  LET k == LevelKey(Node(c, i).order)
                 IN  /\ k \in DOMAIN c.levels
                     /\ Node(c, i).prev = NIL => c.levels[k].head = i
                     /\ Node(c, i).next = NIL => c.levels[k].tail = i
      <3>1. CASE i = idx
        BY <3>1, <2>1, <2>3, <1>a, <1>b DEF key
      <3>2. CASE i \in Live(b)
        <4> DEFINE k == LevelKey(Node(b, i).order)
        <4>1. /\ k \in DOMAIN b.levels
              /\ Node(b, i).prev = NIL => b.levels[k].head = i
              /\ Node(b, i).next = NIL => b.levels[k].tail = i
          BY <3>2 DEF BookInv, LevelEnds
        <4>2. CASE k # key
          <5>1. i # tail
            BY <4>2, <3>2, <1>c, <1>d DEF LiveAt
          <5> QED BY <4>1, <4>2, <5>1, <3>2, <2>1, <1>a, <1>b
        <4>3. CASE k = key
          <5>1. tail # NIL
            BY <4>1, <4>3, <1>d
          <5>2. Node(c, i).next # NIL
            BY <4>1, <4>3, <5>1, <3>2, <1>b, <1>c, <1>d
          <5> QED BY <4>1, <4>3, <5>1, <5>2, <3>2, <2>1, <2>3, <1>a, <1>b
        <4> QED BY <4>2, <4>3
      <3> QED BY <3>1, <3>2, <1>b
    <2>5. ASSUME NEW k \in DOMAIN c.levels
          PROVE  /\ c.levels[k].head \in LiveAt(c, k)
                 /\ Node(c, c.levels[k].head).prev = NIL
                 /\ c.levels[k].tail \in LiveAt(c, k)
                 /\ Node(c, c.levels[k].tail).next = NIL
      <3>1. k \in DOMAIN b.levels =>
              /\ b.levels[k].head \in LiveAt(b, k)
              /\ Node(b, b.levels[k].head).prev = NIL
              /\ b.levels[k].tail \in LiveAt(b, k)
              /\ Node(b, b.levels[k].tail).next = NIL
        BY DEF BookInv, LevelEnds
      <3>2. LiveAt(b, k) \subseteq Live(b)
        BY DEF LiveAt
      <3>3. CASE k = key
        BY <3>1, <3>2, <3>3, <2>2, <2>3, <1>b, <1>d
      <3>4. CASE k # key
        <4>1. k \in DOMAIN b.levels /\ c.levels[k] = b.levels[k] /\ LiveAt(c, k) = LiveAt(b, k)
          BY <3>4, <2>1, <2>2
        <4>2. tail # NIL => tail \notin LiveAt(b, k)
          BY <3>4, <1>d DEF LiveAt
        <4> QED BY <3>1, <3>2, <4>1, <4>2, <1>b, <1>c
      <3> QED BY <3>3, <3>4
    <2> QED BY <2>4, <2>5 DEF LevelEnds
  <1> QED
    BY <1>1, <1>2, <1>3

\* After add order_count and total_qty include the new order, which has the
\* level's former total ahead of it.
LEMMA AddAggregates ==
    ASSUME NEW b, NEW R, BookInv(b, R), NEW o \in Order,
           o.id \notin DOMAIN b.orders,
           NEW c, NEW idx,
           NEW tail, tail = LevelOrEmpty(b, LevelKey(o)).tail,
           SlotsAfterAdd(b, o, idx, tail, c),
           NEW S, S = Arrive(R, Resting(b), o)
    PROVE  Counted(c) /\ Summed(c, S)
  <1> DEFINE key == LevelKey(o)
             level == LevelOrEmpty(b, key)
  <1>a. /\ \A i \in Live(b) : Node(c, i).order = Node(b, i).order
        /\ Node(c, idx).order = o
        /\ \A i, j \in Live(b) : Before(c, S, i, j) <=> Before(b, R, i, j)
        /\ \A i \in Live(b) : Before(c, S, i, idx) <=> i \in LiveAt(b, key)
        /\ \A i \in Live(c) : ~Before(c, S, idx, i)
    BY AddBefore
  <1>b. /\ Live(c) = Live(b) \cup {idx} /\ idx \notin Live(b)
        /\ Node(c, idx).prev = tail /\ Node(c, idx).next = NIL
        /\ \A i \in Live(b) :
              /\ Node(c, i).prev = Node(b, i).prev
              /\ Node(c, i).next = IF i = tail THEN idx ELSE Node(b, i).next
    BY DEF SlotsAfterAdd, Occupied
  <1>c. /\ NIL \notin Live(b) /\ idx # NIL
        /\ \A i \in Live(b) : Node(b, i).order.qty \in Nat
        /\ o.qty \in Nat
    BY LiveSlot, NILAssumption DEF BookInv, SlotsAfterAdd, Index, Order
  <1>d. /\ tail = NIL => key \notin DOMAIN b.levels /\ LiveAt(b, key) = {}
        /\ tail # NIL => /\ key \in DOMAIN b.levels
                         /\ tail = b.levels[key].tail
                         /\ tail \in LiveAt(b, key)
                         /\ Node(b, tail).next = NIL
                         /\ \A k \in LiveAt(b, key) \ {tail} : Before(b, R, k, tail)
    BY TailOfLevel
  <1>e. /\ DOMAIN c.levels = DOMAIN b.levels \cup {key}
        /\ c.levels[key] = PushBack(level, idx, o.qty)
        /\ \A k \in DOMAIN b.levels \ {key} : c.levels[k] = b.levels[k]
    BY DEF SlotsAfterAdd, Put
  <1> HIDE DEF key
  <1>1. Counted(c)
    <2> SUFFICES ASSUME NEW k \in DOMAIN c.levels
                 PROVE  c.levels[k].order_count = Cardinality(LiveAt(c, k))
      BY DEF Counted
    <2>1. LiveAt(c, k) = IF k = key THEN LiveAt(b, k) \cup {idx} ELSE LiveAt(b, k)
      BY <1>a, <1>b DEF LiveAt, key
    <2>2. k \in DOMAIN b.levels => b.levels[k].order_count = Cardinality(LiveAt(b, k))
      BY DEF BookInv, Counted
    <2>3. CASE k = key
      <3>1. IsFiniteSet(LiveAt(b, key))
        BY FiniteLevel DEF BookInv
      <3>2. idx \notin LiveAt(b, key)
        BY <1>b DEF LiveAt
      <3>3. Cardinality(LiveAt(b, key) \cup {idx}) = Cardinality(LiveAt(b, key)) + 1
        BY <3>1, <3>2, FS_AddElement
      <3>4. level.order_count = Cardinality(LiveAt(b, key))
        BY <2>2, <2>3, <1>d, FS_EmptySet DEF LevelOrEmpty, EmptyLevel
      <3> HIDE DEF level
      <3> QED BY <2>1, <2>3, <3>3, <3>4, <1>e DEF PushBack
    <2>4. CASE k # key
      BY <2>1, <2>2, <2>4, <1>e
    <2> QED BY <2>3, <2>4
  <1>2. Summed(c, S)
    <2>1. PICK f \in [Live(b) -> Nat] : IsQueuePosition(b, R, f)
      BY DEF BookInv, Summed
    <2> DEFINE g == [i \in Live(c) |-> IF i = idx THEN level.total_qty ELSE f[i]]
    <2>2. \A i \in Live(b) :
             /\ f[i] \in Nat
             /\ Node(b, i).prev = NIL => f[i] = 0
             /\ Node(b, i).next # NIL => f[Node(b, i).next] = f[i] + Node(b, i).order.qty
             /\ Node(b, i).next = NIL =>
                   b.levels[LevelKey(Node(b, i).order)].total_qty = f[i] + Node(b, i).order.qty
      BY <2>1 DEF IsQueuePosition
    <2>3. \A i, j \in Live(b) : Before(b, R, i, j) => f[i] + Node(b, i).order.qty =< f[j]
      BY <2>1 DEF IsQueuePosition
    <2>4. /\ tail = NIL => level.total_qty = 0
          /\ tail # NIL => /\ tail \in Live(b)
                           /\ level.total_qty = f[tail] + Node(b, tail).order.qty
      BY <1>d, <2>2 DEF LevelOrEmpty, EmptyLevel, LiveAt
    <2> HIDE DEF level
    <2>5. g \in [Live(c) -> Nat]
      BY <2>2, <2>4, <1>b, <1>c
    <2>6. /\ g[idx] = level.total_qty
          /\ \A i \in Live(b) : g[i] = f[i]
      BY <1>b
    <2> HIDE DEF g
    <2>7. ASSUME NEW i \in Live(c), NEW j \in Live(c), Before(c, S, i, j)
          PROVE  g[i] + Node(c, i).order.qty =< g[j]
      <3>1. i \in Live(b)
        BY <2>7, <1>a, <1>b
      <3>2. CASE j \in Live(b)
        BY <3>1, <3>2, <2>3, <2>6, <2>7, <1>a
      <3>3. CASE j = idx
        <4>1. i \in LiveAt(b, key) /\ tail # NIL
          BY <3>1, <3>3, <2>7, <1>a, <1>d
        <4>2. CASE i = tail
          BY <4>1, <4>2, <3>1, <3>3, <2>2, <2>4, <2>6, <1>a, <1>c
        <4>3. CASE i # tail
          <5>1. f[i] + Node(b, i).order.qty =< f[tail]
            BY <4>1, <4>3, <3>1, <2>3, <2>4, <1>d
          <5> QED BY <5>1, <4>1, <3>1, <3>3, <2>2, <2>4, <2>6, <1>a, <1>c
        <4> QED BY <4>2, <4>3
      <3> QED BY <3>2, <3>3, <1>b
    <2>8. ASSUME NEW i \in Live(c)
          PROVE  /\ Node(c, i).prev = NIL => g[i] = 0
                 /\ Node(c, i).next # NIL =>
                       g[Node(c, i).next] = g[i] + Node(c, i).order.qty
                 /\ Node(c, i).next = NIL =>
                       c.levels[LevelKey(Node(c, i).order)].total_qty
                         = g[i] + Node(c, i).order.qty
      <3>1. CASE i = idx
        <4>1. c.levels[key].total_qty = level.total_qty + o.qty
          BY <1>e DEF PushBack
        <4> QED BY <3>1, <4>1, <2>4, <2>6, <1>a, <1>b DEF key
      <3>2. CASE i \in Live(b)
        <4>1. Node(c, i).prev = NIL => g[i] = 0
          BY <3>2, <2>2, <2>6, <1>b
        <4>2. CASE i = tail
          BY <3>2, <4>1, <4>2, <2>4, <2>6, <1>a, <1>b, <1>c
        <4>3. CASE i # tail
          <5>1. Node(c, i).next = Node(b, i).next
            BY <3>2, <4>3, <1>b
          <5>2. Node(b, i).next # NIL => Node(b, i).next \in Live(b)
            BY <3>2 DEF BookInv, Linked
          <5>3. ASSUME Node(b, i).next = NIL
                PROVE  /\ LevelKey(Node(b, i).order) # key
                       /\ LevelKey(Node(b, i).order) \in DOMAIN b.levels
            BY <5>3, <3>2, <4>3, <1>d DEF BookInv, LevelEnds
          <5> QED BY <3>2, <4>1, <5>1, <5>2, <5>3, <2>2, <2>6, <1>a, <1>e
        <4> QED BY <4>2, <4>3
      <3> QED BY <3>1, <3>2, <1>b
    <2> QED
      <3>1. IsQueuePosition(c, S, g)
        BY <2>7, <2>8 DEF IsQueuePosition
      <3> QED BY <3>1, <2>5 DEF Summed
  <1> QED
    BY <1>1, <1>2

\* add of a new identifier keeps the invariant, the order last at its level.
THEOREM AddInv ==
    ASSUME NEW b, NEW R, BookInv(b, R), NEW o \in Order, HasRoom(b.pool),
           o.id \notin DOMAIN b.orders
    PROVE  BookInv(AddOrder(b, o), Arrive(R, Resting(b), o))
  <1> DEFINE idx == AllocIndex(b.pool)
             tail == LevelOrEmpty(b, LevelKey(o)).tail
             c == AddOrder(b, o)
             S == Arrive(R, Resting(b), o)
  <1>1. SlotsAfterAdd(b, o, idx, tail, c)
    BY AddSlots
  <1>2. IsBook(c) /\ MapOntoLive(c) /\ FreeList(c)
    BY <1>1, AddBook, Zenon
  <1>3. Ranked(c, S) /\ Linked(c, S) /\ LevelEnds(c)
    BY <1>1, AddPriority, Zenon
  <1>4. Counted(c) /\ Summed(c, S)
    BY <1>1, AddAggregates, Zenon
  <1> QED
    BY <1>2, <1>3, <1>4 DEF BookInv

-----------------------------------------------------------------------------
(* execute and cancel.                                                     *)

\* The level's total covers each of its orders and what is ahead of it.
LEMMA TotalCovers ==
    ASSUME NEW b, NEW R, BookInv(b, R),
           NEW f \in [Live(b) -> Nat], IsQueuePosition(b, R, f),
           NEW i \in Live(b)
    PROVE  LET key == LevelKey(Node(b, i).order)
           IN  /\ key \in DOMAIN b.levels
               /\ b.levels[key].total_qty \in Nat
               /\ f[i] + Node(b, i).order.qty =< b.levels[key].total_qty
  <1> DEFINE key == LevelKey(Node(b, i).order)
             t == b.levels[key].tail
  <1>1. /\ key \in DOMAIN b.levels
        /\ t \in LiveAt(b, key) /\ Node(b, t).next = NIL
        /\ b.levels[key].total_qty \in Nat
    BY DEF BookInv, LevelEnds, IsBook, Level
  <1>2. t \in Live(b) /\ LevelKey(Node(b, t).order) = key
    BY <1>1 DEF LiveAt
  <1>3. b.levels[key].total_qty = f[t] + Node(b, t).order.qty
    BY <1>1, <1>2 DEF IsQueuePosition
  <1>4. f[t] \in Nat /\ Node(b, t).order.qty \in Nat /\ f[i] \in Nat
        /\ Node(b, i).order.qty \in Nat
    BY <1>2, LiveSlot DEF BookInv
  <1>5. CASE i = t
    BY <1>1, <1>3, <1>4, <1>5
  <1>6. CASE i # t
    <2>1. ~Before(b, R, t, i)
      BY <1>1, <1>2 DEF BookInv, Linked
    <2>2. Before(b, R, i, t)
      BY <1>2, <1>6, <2>1 DEF BookInv, Ranked, SameLevel, LevelKey
    <2>3. f[i] + Node(b, i).order.qty =< f[t]
      BY <1>2, <2>2 DEF IsQueuePosition
    <2> QED BY <1>1, <1>3, <1>4, <2>3
  <1> QED BY <1>5, <1>6

\* The order with qty less.
Less(order, qty) == [id |-> order.id, side |-> order.side, price |-> order.price,
                     qty |-> order.qty - qty]

\* The book c after slot idx and its level lost qty.
AfterDecrement(b, idx, qty, c) ==
    LET n == Node(b, idx)
        key == LevelKey(n.order)
    IN /\ c = [levels |-> c.levels, orders |-> b.orders, pool |-> c.pool]
       /\ c.pool = [slots |-> c.pool.slots, len |-> b.pool.len,
                    free_head |-> b.pool.free_head]
       /\ c.pool.slots = [i \in DOMAIN b.pool.slots |-> c.pool.slots[i]]
       /\ Node(c, idx) = Occupied(Less(n.order, qty), n.prev, n.next)
       /\ \A i \in DOMAIN b.pool.slots \ {idx} : Node(c, i) = Node(b, i)
       /\ Live(c) = Live(b)
       /\ DOMAIN c.levels = DOMAIN b.levels
       /\ c.levels = [k \in DOMAIN b.levels |-> c.levels[k]]
       /\ key \in DOMAIN b.levels
       /\ \A k \in DOMAIN b.levels :
             /\ c.levels[k].head = b.levels[k].head
             /\ c.levels[k].tail = b.levels[k].tail
             /\ c.levels[k].order_count = b.levels[k].order_count
             /\ c.levels[k].total_qty = IF k = key THEN b.levels[k].total_qty - qty
                                        ELSE b.levels[k].total_qty
             /\ c.levels[k] = [head |-> c.levels[k].head, tail |-> c.levels[k].tail,
                               total_qty |-> c.levels[k].total_qty,
                               order_count |-> c.levels[k].order_count]

\* execute_inner and cancel lower the quantity of one order and of its level,
\* and no link.
LEMMA DecrementFacts ==
    ASSUME NEW b, NEW R, BookInv(b, R), NEW idx \in Live(b), NEW qty \in Nat
    PROVE  AfterDecrement(b, idx, qty, Decrement(b, idx, qty))
  <1> DEFINE n == Node(b, idx)
             key == LevelKey(n.order)
             c == Decrement(b, idx, qty)
  <1>1. /\ c = [levels |-> c.levels, orders |-> b.orders, pool |-> c.pool]
        /\ c.levels = [b.levels EXCEPT ![key].total_qty = @ - qty]
        /\ c.pool = WithSlots(b.pool, [b.pool.slots EXCEPT ![idx].order.qty = @ - qty])
    BY DEF Decrement
  <1>2. n \in OccupiedSlots /\ n.order \in Order /\ idx \in DOMAIN b.pool.slots
    BY LiveSlot DEF BookInv
  <1>3. key \in DOMAIN b.levels /\ \A k \in DOMAIN b.levels : b.levels[k] \in Level
    BY DEF BookInv, LevelEnds, IsBook
  <1> HIDE DEF c
  <1>4. c.pool.slots = [b.pool.slots EXCEPT ![idx].order.qty = @ - qty]
    BY <1>1 DEF WithSlots
  <1>5. /\ c.pool = [slots |-> c.pool.slots, len |-> b.pool.len,
                     free_head |-> b.pool.free_head]
        /\ c.pool.slots = [i \in DOMAIN b.pool.slots |-> c.pool.slots[i]]
    BY <1>1, <1>4 DEF WithSlots
  <1>6. Node(c, idx) = [n EXCEPT !.order.qty = @ - qty]
    BY <1>4, <1>2 DEF Node
  <1>7. [n EXCEPT !.order.qty = @ - qty] = Occupied(Less(n.order, qty), n.prev, n.next)
    <2> HIDE DEF n
    <2>1. [n.order EXCEPT !.qty = @ - qty] = Less(n.order, qty)
      BY <1>2 DEF Less, Order
    <2> QED BY <1>2, <2>1 DEF Occupied, OccupiedSlots
  <1>8. \A i \in DOMAIN b.pool.slots \ {idx} : Node(c, i) = Node(b, i)
    BY <1>4 DEF Node
  <1>9. Live(c) = Live(b)
    <2>1. DOMAIN c.pool.slots = DOMAIN b.pool.slots
      BY <1>4
    <2>2. \A i \in DOMAIN b.pool.slots : Node(c, i).kind = Node(b, i).kind
      BY <1>2, <1>6, <1>7, <1>8 DEF Occupied, OccupiedSlots
    <2> QED BY <2>1, <2>2 DEF Live, LiveSlots, Node
  <1>10. /\ DOMAIN c.levels = DOMAIN b.levels
         /\ c.levels = [k \in DOMAIN b.levels |-> c.levels[k]]
    BY <1>1
  <1>11. ASSUME NEW k \in DOMAIN b.levels
         PROVE  /\ c.levels[k].head = b.levels[k].head
                /\ c.levels[k].tail = b.levels[k].tail
                /\ c.levels[k].order_count = b.levels[k].order_count
                /\ c.levels[k].total_qty = IF k = key THEN b.levels[k].total_qty - qty
                                           ELSE b.levels[k].total_qty
                /\ c.levels[k] = [head |-> c.levels[k].head, tail |-> c.levels[k].tail,
                                  total_qty |-> c.levels[k].total_qty,
                                  order_count |-> c.levels[k].order_count]
    <2> HIDE DEF key
    <2>1. b.levels[k] \in Level
      BY <1>3
    <2>2. CASE k = key
      <3>1. c.levels[k] = [b.levels[k] EXCEPT !.total_qty = @ - qty]
        BY <1>1, <2>2
      <3> QED BY <2>1, <2>2, <3>1 DEF Level
    <2>3. CASE k # key
      <3>1. c.levels[k] = b.levels[k]
        BY <1>1, <2>3
      <3> QED BY <2>1, <2>3, <3>1 DEF Level
    <2> QED BY <2>2, <2>3
  <1> QED
    BY <1>1, <1>3, <1>5, <1>6, <1>7, <1>8, <1>9, <1>10, <1>11
    DEF AfterDecrement, c

\* Taking qty from an order that has as much keeps the invariant.
THEOREM DecrementInv ==
    ASSUME NEW b, NEW R, BookInv(b, R), NEW idx \in Live(b),
           NEW qty \in Nat, qty =< Node(b, idx).order.qty
    PROVE  BookInv(Decrement(b, idx, qty), R)
  <1> DEFINE n == Node(b, idx)
             key == LevelKey(n.order)
             c == Decrement(b, idx, qty)
  <1>a. AfterDecrement(b, idx, qty, c)
    BY DecrementFacts
  <1>b. n.order \in Order /\ n.prev \in Link /\ n.next \in Link /\ idx \in DOMAIN b.pool.slots
    BY LiveSlot DEF BookInv
  <1>c. \A i \in Live(b) : i \in DOMAIN b.pool.slots /\ Node(b, i).order.qty \in Nat
    BY LiveSlot DEF BookInv
  <1> HIDE DEF c
  <1>d. /\ Live(c) = Live(b)
        /\ \A i \in Live(b) :
              /\ Node(c, i).prev = Node(b, i).prev
              /\ Node(c, i).next = Node(b, i).next
              /\ Node(c, i).order.id = Node(b, i).order.id
              /\ Node(c, i).order.side = Node(b, i).order.side
              /\ Node(c, i).order.price = Node(b, i).order.price
              /\ Node(c, i).order.qty = IF i = idx THEN n.order.qty - qty
                                        ELSE Node(b, i).order.qty
    <2>1. Live(c) = Live(b)
      BY <1>a DEF AfterDecrement
    <2>2. Node(c, idx) = Occupied(Less(n.order, qty), n.prev, n.next)
      BY <1>a DEF AfterDecrement
    <2>3. \A i \in Live(b) \ {idx} : Node(c, i) = Node(b, i)
      BY <1>a, <1>c DEF AfterDecrement
    <2>4. /\ Node(c, idx).prev = n.prev /\ Node(c, idx).next = n.next
          /\ Node(c, idx).order = Less(n.order, qty)
      BY <2>2 DEF Occupied
    <2>5. /\ Node(c, idx).order.id = n.order.id
          /\ Node(c, idx).order.side = n.order.side
          /\ Node(c, idx).order.price = n.order.price
          /\ Node(c, idx).order.qty = n.order.qty - qty
      BY <2>4 DEF Less
    <2> QED BY <2>1, <2>3, <2>4, <2>5
  <1>e. /\ c.orders = b.orders /\ c.pool.free_head = b.pool.free_head
        /\ DOMAIN c.pool.slots = DOMAIN b.pool.slots
        /\ c.pool.len = b.pool.len
        /\ DOMAIN c.levels = DOMAIN b.levels
        /\ key \in DOMAIN b.levels
        /\ \A i \in DOMAIN b.pool.slots \ Live(b) : Node(c, i) = Node(b, i)
        /\ \A k \in DOMAIN b.levels :
             /\ c.levels[k].head = b.levels[k].head
             /\ c.levels[k].tail = b.levels[k].tail
             /\ c.levels[k].order_count = b.levels[k].order_count
             /\ c.levels[k].total_qty = IF k = key THEN b.levels[k].total_qty - qty
                                        ELSE b.levels[k].total_qty
    <2>1. c = [levels |-> c.levels, orders |-> b.orders, pool |-> c.pool]
      BY <1>a DEF AfterDecrement
    <2>2. c.pool = [slots |-> c.pool.slots, len |-> b.pool.len,
                    free_head |-> b.pool.free_head]
      BY <1>a DEF AfterDecrement
    <2>3. DOMAIN c.pool.slots = DOMAIN b.pool.slots
      BY <1>a DEF AfterDecrement
    <2>4. \A i \in DOMAIN b.pool.slots \ Live(b) : Node(c, i) = Node(b, i)
      BY <1>a DEF AfterDecrement
    <2>5. c.orders = b.orders /\ c.pool.len = b.pool.len
          /\ c.pool.free_head = b.pool.free_head
      BY <2>1, <2>2
    <2> QED BY <1>a, <2>3, <2>4, <2>5 DEF AfterDecrement
  <1>f. /\ \A i \in Live(b) : LevelKey(Node(c, i).order) = LevelKey(Node(b, i).order)
        /\ \A i, j \in Live(b) : SameLevel(Node(c, i).order, Node(c, j).order)
                                 <=> SameLevel(Node(b, i).order, Node(b, j).order)
        /\ \A i, j \in Live(b) : Before(c, R, i, j) <=> Before(b, R, i, j)
        /\ \A k : LiveAt(c, k) = LiveAt(b, k)
    <2>1. \A i \in Live(b) : LevelKey(Node(c, i).order) = LevelKey(Node(b, i).order)
      BY <1>d DEF LevelKey
    <2> QED BY <1>d, <2>1 DEF SameLevel, Before, LiveAt
  <1>1. IsBook(c)
    <2>1. Node(c, idx) \in Slot
      <3>1. n.order.qty - qty \in Nat
        BY <1>b DEF Order
      <3>2. Less(n.order, qty) \in Order
        BY <3>1, <1>b DEF Less, Order
      <3>3. Node(c, idx) = Occupied(Less(n.order, qty), n.prev, n.next)
        BY <1>a DEF AfterDecrement
      <3> QED BY <3>2, <3>3, <1>b DEF Occupied, Slot, OccupiedSlots
    <2>2. \A i \in DOMAIN b.pool.slots : Node(c, i) \in Slot
      BY <2>1, <1>a DEF AfterDecrement, BookInv, IsBook, IsPool, Node
    <2>3. c.pool.slots \in [0 .. b.pool.len - 1 -> Slot]
      BY <2>2, <1>a DEF AfterDecrement, BookInv, IsBook, IsPool, Node
    <2>4. IsPool(c.pool)
      BY <2>3, <1>a DEF AfterDecrement, BookInv, IsBook, IsPool
    <2>5. ASSUME NEW k \in DOMAIN b.levels PROVE c.levels[k] \in Level
      <3>1. c.levels[k].total_qty \in Nat
        <4>1. CASE k = key
          <5>1. PICK f \in [Live(b) -> Nat] : IsQueuePosition(b, R, f)
            BY DEF BookInv, Summed
          <5>2. /\ b.levels[key].total_qty \in Nat
                /\ f[idx] + n.order.qty =< b.levels[key].total_qty
            BY <5>1, TotalCovers
          <5>3. f[idx] \in Nat /\ n.order.qty \in Nat
            BY <5>1, <1>c
          <5> QED BY <5>2, <5>3, <4>1, <1>e
        <4>2. CASE k # key
          BY <4>2, <1>e DEF BookInv, IsBook, Level
        <4> QED BY <4>1, <4>2
      <3>2. b.levels[k] \in Level
        BY DEF BookInv, IsBook
      <3>3. c.levels[k] = [head |-> c.levels[k].head, tail |-> c.levels[k].tail,
                           total_qty |-> c.levels[k].total_qty,
                           order_count |-> c.levels[k].order_count]
        BY <1>a DEF AfterDecrement
      <3>4. c.levels[k].head \in Link /\ c.levels[k].tail \in Link /\ c.levels[k].order_count \in Nat
        BY <3>2, <1>e DEF Level
      <3> QED BY <3>1, <3>3, <3>4 DEF Level
    <2>6. c.levels \in [DOMAIN c.levels -> Level]
      BY <2>5, <1>a DEF AfterDecrement
    <2> QED BY <2>4, <2>6, <1>a, <1>e DEF AfterDecrement, BookInv, IsBook
  <1>2. MapOntoLive(c)
    BY <1>d, <1>e DEF BookInv, MapOntoLive
  <1>3. FreeList(c)
    BY <1>d, <1>e DEF BookInv, FreeList
  <1>4. Ranked(c, R)
    BY <1>d, <1>e, <1>f DEF BookInv, Ranked
  <1>5. Linked(c, R)
    BY <1>d, <1>f DEF BookInv, Linked
  <1>6. LevelEnds(c)
    <2>1. \A k : LiveAt(b, k) \subseteq Live(b)
      BY DEF LiveAt
    <2>2. \A i \in Live(c) :
             LET k == LevelKey(Node(c, i).order)
             IN  /\ k \in DOMAIN c.levels
                 /\ Node(c, i).prev = NIL => c.levels[k].head = i
                 /\ Node(c, i).next = NIL => c.levels[k].tail = i
      BY <1>d, <1>e, <1>f DEF BookInv, LevelEnds
    <2>3. ASSUME NEW k \in DOMAIN c.levels
          PROVE  /\ c.levels[k].head \in LiveAt(c, k)
                 /\ Node(c, c.levels[k].head).prev = NIL
                 /\ c.levels[k].tail \in LiveAt(c, k)
                 /\ Node(c, c.levels[k].tail).next = NIL
      <3>1. /\ b.levels[k].head \in LiveAt(b, k)
            /\ Node(b, b.levels[k].head).prev = NIL
            /\ b.levels[k].tail \in LiveAt(b, k)
            /\ Node(b, b.levels[k].tail).next = NIL
        BY <1>e DEF BookInv, LevelEnds
      <3> QED BY <3>1, <1>d, <1>e, <1>f, <2>1
    <2> QED BY <2>2, <2>3 DEF LevelEnds
  <1>7. Counted(c)
    BY <1>e, <1>f DEF BookInv, Counted
  <1>8. Summed(c, R)
    <2>1. PICK f \in [Live(b) -> Nat] : IsQueuePosition(b, R, f)
      BY DEF BookInv, Summed
    <2> DEFINE g == [i \in Live(b) |-> IF Before(b, R, idx, i) THEN f[i] - qty ELSE f[i]]
    <2>2. \A i, j \in Live(b) : Before(b, R, i, j) => f[i] + Node(b, i).order.qty =< f[j]
      BY <2>1 DEF IsQueuePosition
    <2>3. \A i \in Live(b) :
             /\ f[i] \in Nat
             /\ Node(b, i).prev = NIL => f[i] = 0
             /\ Node(b, i).next # NIL => f[Node(b, i).next] = f[i] + Node(b, i).order.qty
             /\ Node(b, i).next = NIL =>
                   b.levels[LevelKey(Node(b, i).order)].total_qty = f[i] + Node(b, i).order.qty
      BY <2>1 DEF IsQueuePosition
    <2>4. \A i \in Live(b) : Before(b, R, idx, i) => f[i] - qty \in Nat
      BY <2>2, <2>3, <1>c
    <2>5. g \in [Live(c) -> Nat]
      BY <2>3, <2>4, <1>d
    <2>6. ASSUME NEW i \in Live(b), NEW j \in Live(b), Before(b, R, i, j)
          PROVE  g[i] + Node(c, i).order.qty =< g[j]
      <3>1. f[i] + Node(b, i).order.qty =< f[j]
        BY <2>2, <2>6
      <3>2. CASE i = idx
        <4>1. ~Before(b, R, idx, i)
          BY <3>2 DEF BookInv, Ranked
        <4> QED BY <4>1, <3>1, <3>2, <2>3, <2>6, <1>c, <1>d
      <3>3. CASE i # idx /\ Before(b, R, idx, i)
        <4>1. Before(b, R, idx, j)
          BY <3>3, <2>6 DEF BookInv, Ranked
        <4> QED BY <4>1, <3>1, <3>3, <2>3, <1>c, <1>d
      <3>4. CASE i # idx /\ ~Before(b, R, idx, i)
        <4>1. CASE Before(b, R, idx, j)
          <5>1. Before(b, R, i, idx)
            <6>1. SameLevel(Node(b, i).order, Node(b, idx).order)
              BY <4>1, <2>6 DEF BookInv, Ranked, SameLevel
            <6> QED BY <6>1, <3>4 DEF BookInv, Ranked
          <5>2. f[i] + Node(b, i).order.qty =< f[idx] /\ f[idx] + n.order.qty =< f[j]
            BY <5>1, <4>1, <2>2
          <5> QED BY <5>2, <4>1, <3>4, <2>3, <1>c, <1>d
        <4>2. CASE ~Before(b, R, idx, j)
          BY <4>2, <3>1, <3>4, <1>d
        <4> QED BY <4>1, <4>2
      <3> QED BY <3>2, <3>3, <3>4
    <2>7. ASSUME NEW i \in Live(b)
          PROVE  /\ Node(b, i).prev = NIL => g[i] = 0
                 /\ Node(b, i).next # NIL =>
                       g[Node(b, i).next] = g[i] + Node(c, i).order.qty
                 /\ Node(b, i).next = NIL =>
                       c.levels[LevelKey(Node(b, i).order)].total_qty
                         = g[i] + Node(c, i).order.qty
      <3> DEFINE e == Node(b, i).order.qty
                 k == LevelKey(Node(b, i).order)
      <3>1. ASSUME Node(b, i).prev = NIL PROVE g[i] = 0
        <4>1. f[i] = 0 /\ ~Before(b, R, idx, i)
          BY <3>1, <2>3 DEF BookInv, Linked
        <4> QED BY <4>1
      <3>2. ASSUME Node(b, i).next # NIL
            PROVE  g[Node(b, i).next] = g[i] + Node(c, i).order.qty
        <4> DEFINE j == Node(b, i).next
        <4>1. /\ j \in Live(b) /\ Before(b, R, i, j) /\ f[j] = f[i] + e
              /\ ~(Before(b, R, i, idx) /\ Before(b, R, idx, j))
          BY <3>2, <2>3 DEF BookInv, Linked
        <4>2. CASE i = idx
          <5>1. ~Before(b, R, idx, i)
            BY <4>2 DEF BookInv, Ranked
          <5> QED BY <4>1, <4>2, <5>1, <2>3, <1>c, <1>d
        <4>3. CASE i # idx
          <5>1. Before(b, R, idx, i) <=> Before(b, R, idx, j)
            <6>1. Before(b, R, idx, i) => Before(b, R, idx, j)
              BY <4>1 DEF BookInv, Ranked
            <6>2. Before(b, R, idx, j) => SameLevel(Node(b, i).order, Node(b, idx).order)
              BY <4>1 DEF BookInv, Ranked, SameLevel
            <6> QED BY <6>1, <6>2, <4>1, <4>3 DEF BookInv, Ranked
          <5> QED BY <4>1, <4>3, <5>1, <2>3, <1>c, <1>d
        <4> QED BY <4>2, <4>3
      <3>3. ASSUME Node(b, i).next = NIL
            PROVE  c.levels[k].total_qty = g[i] + Node(c, i).order.qty
        <4>1. b.levels[k].total_qty = f[i] + e /\ ~Before(b, R, i, idx) /\ k \in DOMAIN b.levels
          BY <3>3, <2>3 DEF BookInv, Linked, LevelEnds
        <4>2. CASE i = idx
          <5>1. ~Before(b, R, idx, i)
            BY <4>2 DEF BookInv, Ranked
          <5> QED BY <4>1, <4>2, <5>1, <2>3, <1>c, <1>d, <1>e
        <4>3. CASE i # idx /\ k = key
          <5>1. Before(b, R, idx, i)
            BY <4>1, <4>3 DEF BookInv, Ranked, SameLevel, LevelKey
          <5> QED BY <4>1, <4>3, <5>1, <2>3, <1>c, <1>d, <1>e
        <4>4. CASE i # idx /\ k # key
          <5>1. ~Before(b, R, idx, i)
            BY <4>4 DEF BookInv, Ranked, SameLevel, LevelKey
          <5> QED BY <4>1, <4>4, <5>1, <1>d, <1>e
        <4> QED BY <4>2, <4>3, <4>4
      <3> QED BY <3>1, <3>2, <3>3
    <2> QED
      <3>1. IsQueuePosition(c, R, g)
        BY <2>6, <2>7, <1>d, <1>f DEF IsQueuePosition
      <3> QED BY <3>1, <2>5 DEF Summed
  <1> QED
    BY <1>1, <1>2, <1>3, <1>4, <1>5, <1>6, <1>7, <1>8 DEF BookInv, c

-----------------------------------------------------------------------------
(* What the invariant gives: no operation panics, and an operation changes *)
(* the resting orders as it should.                                        *)

\* A well-formed book panics in no operation: add finds a Free slot at
\* free_head, unlink finds its level and live neighbours.
LEMMA BookSafe ==
    ASSUME NEW b, NEW R, BookInv(b, R)
    PROVE  AddSafe(b) /\ \A i \in Live(b) : UnlinkSafe(b, i)
  <1>1. AddSafe(b)
    <2>1. \A key \in DOMAIN b.levels : b.levels[key].tail \in Live(b)
      BY DEF BookInv, LevelEnds, LiveAt
    <2>2. b.pool.free_head # NIL =>
            /\ b.pool.free_head \in DOMAIN b.pool.slots \ Live(b)
            /\ Node(b, b.pool.free_head) \in Slot
      BY DEF BookInv, FreeList, IsBook, IsPool, Node
    <2>3. b.pool.free_head # NIL => Node(b, b.pool.free_head).kind = "Free"
      BY <2>2 DEF Slot, OccupiedSlots, FreeSlots, Live, LiveSlots, Node
    <2> QED BY <2>1, <2>2, <2>3 DEF AddSafe
  <1>2. ASSUME NEW i \in Live(b) PROVE UnlinkSafe(b, i)
    <2> DEFINE key == LevelKey(Node(b, i).order)
    <2>1. \A j \in {Node(b, i).prev, Node(b, i).next} \ {NIL} : j \in Live(b)
      BY Neighbours
    <2>2. PICK f \in [Live(b) -> Nat] : IsQueuePosition(b, R, f)
      BY DEF BookInv, Summed
    <2>3. /\ key \in DOMAIN b.levels
          /\ b.levels[key].total_qty \in Nat
          /\ f[i] + Node(b, i).order.qty =< b.levels[key].total_qty
      BY <2>2, TotalCovers
    <2>4. f[i] \in Nat /\ Node(b, i).order.qty \in Nat
      BY <2>2, LiveSlot DEF BookInv
    <2>5. b.levels[key].total_qty >= Node(b, i).order.qty
      BY <2>3, <2>4
    <2>6. b.levels[key].order_count = Cardinality(LiveAt(b, key))
      BY <2>3 DEF BookInv, Counted
    <2>7. IsFiniteSet(LiveAt(b, key)) /\ i \in LiveAt(b, key)
      BY FiniteLevel DEF BookInv, LiveAt
    <2>8. Cardinality(LiveAt(b, key)) # 0 /\ Cardinality(LiveAt(b, key)) \in Nat
      BY <2>7, FS_EmptySet, FS_CardinalityType
    <2> QED BY <2>1, <2>3, <2>5, <2>6, <2>8 DEF UnlinkSafe
  <1> QED BY <1>1, <1>2

\* unlink removes one order from the resting ones and leaves the pool with a
\* slot to allocate, which replace relies on.
LEMMA RestingUnlink ==
    ASSUME NEW b, NEW R, BookInv(b, R), NEW id \in DOMAIN b.orders
    PROVE  /\ DOMAIN Unlink(b, b.orders[id]).orders = DOMAIN b.orders \ {id}
           /\ Resting(Unlink(b, b.orders[id]))
                = [x \in DOMAIN Resting(b) \ {id} |-> Resting(b)[x]]
           /\ HasRoom(Unlink(b, b.orders[id]).pool)
  <1> DEFINE idx == b.orders[id]
             c == Unlink(b, idx)
  <1>1. idx \in Live(b) /\ Node(b, idx).order.id = id
    BY DEF BookInv, MapOntoLive, Node
  <1>2. SlotsAfterUnlink(b, idx, c)
    BY <1>1, UnlinkSlots
  <1> HIDE DEF c
  <1>3. /\ c.orders = Remove(b.orders, id)
        /\ Live(c) = Live(b) \ {idx}
        /\ \A i \in Live(c) : Node(c, i).order = Node(b, i).order
    BY <1>1, <1>2 DEF SlotsAfterUnlink, Occupied
  <1>4. c.pool = [slots |-> c.pool.slots, len |-> b.pool.len, free_head |-> idx]
    BY <1>2 DEF SlotsAfterUnlink
  <1>5. DOMAIN c.orders = DOMAIN b.orders \ {id}
        /\ \A x \in DOMAIN c.orders : c.orders[x] = b.orders[x]
    BY <1>3 DEF Remove
  <1>6. \A x \in DOMAIN c.orders : c.orders[x] \in Live(c)
    BY <1>3, <1>5 DEF BookInv, MapOntoLive
  <1>7. Resting(c) = [x \in DOMAIN Resting(b) \ {id} |-> Resting(b)[x]]
    BY <1>3, <1>5, <1>6 DEF Resting
  <1>8. HasRoom(c.pool)
    BY <1>1, <1>4, LiveSlot DEF HasRoom, BookInv
  <1> QED BY <1>5, <1>7, <1>8 DEF c

\* add puts one order among the resting ones and changes no other.
LEMMA RestingAdd ==
    ASSUME NEW b, NEW R, BookInv(b, R), NEW o \in Order, HasRoom(b.pool),
           o.id \notin DOMAIN b.orders
    PROVE  Resting(AddOrder(b, o))
             = [x \in DOMAIN Resting(b) \cup {o.id} |->
                   IF x = o.id THEN o ELSE Resting(b)[x]]
  <1> DEFINE c == AddOrder(b, o)
             idx == AllocIndex(b.pool)
             tail == LevelOrEmpty(b, LevelKey(o)).tail
  <1>1. SlotsAfterAdd(b, o, idx, tail, c)
    BY AddSlots
  <1> HIDE DEF c, idx, tail
  <1>2. /\ c.orders = Put(b.orders, o.id, idx)
        /\ Node(c, idx).order = o
        /\ \A i \in Live(b) : Node(c, i).order = Node(b, i).order
    BY <1>1 DEF SlotsAfterAdd, Occupied
  <1>3. /\ DOMAIN c.orders = DOMAIN b.orders \cup {o.id}
        /\ \A x \in DOMAIN c.orders : c.orders[x] = IF x = o.id THEN idx ELSE b.orders[x]
    BY <1>2 DEF Put
  <1>4. \A x \in DOMAIN b.orders : b.orders[x] \in Live(b)
    BY DEF BookInv, MapOntoLive
  <1> QED BY <1>2, <1>3, <1>4 DEF Resting, c

\* A partial execution or cancel changes the quantity of one resting order.
LEMMA RestingDecrement ==
    ASSUME NEW b, NEW R, BookInv(b, R), NEW id \in DOMAIN b.orders, NEW qty \in Nat
    PROVE  Resting(Decrement(b, b.orders[id], qty))
             = [Resting(b) EXCEPT ![id].qty = @ - qty]
  <1> DEFINE idx == b.orders[id]
             c == Decrement(b, idx, qty)
             n == Node(b, idx)
  <1>1. /\ idx \in Live(b) /\ idx \in DOMAIN b.pool.slots
        /\ n.order \in Order
    BY LiveSlot DEF BookInv, MapOntoLive
  <1>2. AfterDecrement(b, idx, qty, c)
    BY <1>1, DecrementFacts
  <1> HIDE DEF c
  <1>3. c = [levels |-> c.levels, orders |-> b.orders, pool |-> c.pool]
        /\ Node(c, idx) = Occupied(Less(n.order, qty), n.prev, n.next)
        /\ \A i \in DOMAIN b.pool.slots \ {idx} : Node(c, i) = Node(b, i)
    BY <1>2 DEF AfterDecrement
  <1>4. c.orders = b.orders
    BY <1>3
  <1>5. Node(c, idx).order = [n.order EXCEPT !.qty = @ - qty]
    BY <1>1, <1>3 DEF Occupied, Less, Order
  <1>6. \A x \in DOMAIN b.orders \ {id} : b.orders[x] # idx /\ b.orders[x] \in DOMAIN b.pool.slots
    BY LiveSlot DEF BookInv, MapOntoLive
  <1> QED BY <1>3, <1>4, <1>5, <1>6 DEF Resting, c
=============================================================================
