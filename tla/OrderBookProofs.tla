-------------------------- MODULE OrderBookProofs --------------------------
(***************************************************************************)
(* Theorems about OrderBook, for any sets of identifiers, prices and       *)
(* quantities and any NIL.  BookProofs shows that each operator on books   *)
(* keeps BookInv; here the actions are put together from them.             *)
(***************************************************************************)
EXTENDS OrderBook, BookProofs, FoldProofs

\* The inductive invariant.
IInv == TypeOK /\ BookInv(book, ahead)

\* The empty book is well formed.
LEMMA InitInv == Init => IInv
  <1> SUFFICES ASSUME Init PROVE IInv
    OBVIOUS
  <1>1. /\ book = [levels |-> NoMap, orders |-> NoMap, pool |-> book.pool]
        /\ book.pool = [slots |-> NoMap, len |-> 0, free_head |-> NIL]
        /\ book.levels = NoMap /\ book.orders = NoMap
        /\ book.pool.slots = NoMap /\ book.pool.len = 0 /\ book.pool.free_head = NIL
        /\ ahead = {}
    BY DEF Init, EmptyBook
  <1>2. DOMAIN NoMap = {} /\ \A T : NoMap \in [{} -> T]
    BY DEF NoMap
  <1>3. Live(book) = {}
    BY <1>1, <1>2 DEF Live, LiveSlots
  <1>4. 0 .. (0 - 1) = {} /\ 0 \in 0 .. NIL /\ NIL \in Link
    BY NILAssumption DEF Link
  <1>5. IsPool(book.pool)
    BY <1>1, <1>2, <1>4 DEF IsPool
  <1>6. IsBook(book)
    BY <1>1, <1>2, <1>5 DEF IsBook
  <1>7. reply \in Reply
    BY DEF Init, Ok, Reply, Operation, Outcome
  <1>8. TypeOK
    BY <1>1, <1>6, <1>7 DEF TypeOK
  <1>9. /\ MapOntoLive(book) /\ FreeList(book)
        /\ Ranked(book, ahead) /\ Linked(book, ahead) /\ LevelEnds(book)
        /\ Counted(book)
    BY <1>1, <1>2, <1>3
    DEF MapOntoLive, FreeList, Ranked, Linked, LevelEnds, Counted
  <1>10. Summed(book, ahead)
    <2>1. [i \in Live(book) |-> 0] \in [Live(book) -> Nat]
      OBVIOUS
    <2>2. IsQueuePosition(book, ahead, [i \in Live(book) |-> 0])
      BY <1>3 DEF IsQueuePosition
    <2> QED BY <2>1, <2>2 DEF Summed
  <1> QED
    BY <1>6, <1>8, <1>9, <1>10 DEF IInv, BookInv

-----------------------------------------------------------------------------

\* An error return changes nothing.
LEMMA RejectInv ==
    ASSUME IInv, NEW op \in Operation, NEW error \in Outcome, Reject(op, error)
    PROVE  IInv'
  <1>1. book' = book /\ ahead' = ahead /\ reply' = Err(op, error)
    BY DEF Reject
  <1>2. reply' \in Reply
    BY <1>1 DEF Err, Reply
  <1> QED
    BY <1>1, <1>2 DEF IInv, TypeOK

\* A known identifier names a live slot that holds its order.
LEMMA HeldSlot ==
    ASSUME IInv, NEW id, Known(id)
    PROVE  /\ id \in OrderId
           /\ book.orders[id] \in Live(book)
           /\ Node(book, book.orders[id]).order = Held(id)
           /\ Held(id).id = id
           /\ Held(id) \in Order
           /\ id \in DOMAIN Resting(book)
           /\ Resting(book)[id] = Held(id)
  <1>1. /\ book.orders[id] \in Live(book)
        /\ Node(book, book.orders[id]).order = Held(id)
        /\ Held(id).id = id
    BY DEF IInv, BookInv, MapOntoLive, Known, Held
  <1>2. Held(id) \in Order /\ id \in OrderId
    BY <1>1, LiveSlot DEF IInv, BookInv, IsBook, Known
  <1>3. id \in DOMAIN Resting(book) /\ Resting(book)[id] = Held(id)
    BY DEF Resting, Held, Known, Node
  <1> QED BY <1>1, <1>2, <1>3

\* An order leaves: unlink, and its identifier out of the priorities.
LEMMA LeaveInv ==
    ASSUME IInv, NEW id, Known(id)
    PROVE  BookInv(Unlink(book, book.orders[id]), Depart(ahead, id))
  <1>1. book.orders[id] \in Live(book) /\ Node(book, book.orders[id]).order.id = id
    BY HeldSlot
  <1>2. BookInv(book, ahead)
    BY DEF IInv
  <1>3. BookInv(Unlink(book, book.orders[id]),
                Depart(ahead, Node(book, book.orders[id]).order.id))
    BY <1>1, <1>2, UnlinkInv
  <1> QED BY <1>1, <1>3

\* Priorities are pairs of identifiers.
LEMMA PriorityType ==
    ASSUME NEW b, NEW R, BookInv(b, R)
    PROVE  IsBook(b) /\ R \subseteq OrderId \X OrderId
  BY DEF BookInv, Ranked, IsBook

\* add, refused or not, keeps the invariant.
LEMMA AddStep ==
    ASSUME IInv, NEW o \in NewOrder, Add(o)
    PROVE  IInv'
  <1>0. o \in Order
    BY QuantityAssumption DEF NewOrder, Order
  <1>1. CASE Known(o.id) /\ Reject("add", "DuplicateOrder")
    BY <1>1, RejectInv DEF Operation, Outcome
  <1>2. CASE /\ ~Known(o.id)
             /\ HasRoom(book.pool)
             /\ book' = AddOrder(book, o)
             /\ ahead' = Arrive(ahead, Resting(book), o)
             /\ reply' = Ok("add")
    <2>1. BookInv(book', ahead')
      BY <1>0, <1>2, AddInv DEF IInv, Known
    <2>2. reply' \in Reply
      BY <1>2 DEF Ok, Reply, Operation, Outcome
    <2> QED BY <2>1, <2>2, PriorityType DEF IInv, TypeOK
  <1> QED BY <1>1, <1>2 DEF Add

\* execute_inner and cancel keep the invariant, whether the order stays with
\* less or is exhausted and leaves.
LEMMA ReduceInv ==
    ASSUME IInv, NEW id, Known(id), NEW qty \in Nat, qty =< Held(id).qty
    PROVE  BookInv(Reduce(book, book.orders[id], qty),
                   IF qty = Held(id).qty THEN Depart(ahead, id) ELSE ahead)
  <1> DEFINE idx == book.orders[id]
             less == Decrement(book, idx, qty)
  <1>1. /\ idx \in Live(book) /\ Node(book, idx).order = Held(id)
        /\ Held(id).id = id /\ Held(id) \in Order
    BY HeldSlot
  <1>2. BookInv(book, ahead)
    BY DEF IInv
  <1>3. BookInv(less, ahead)
    BY <1>1, <1>2, DecrementInv
  <1>4. AfterDecrement(book, idx, qty, less)
    BY <1>1, <1>2, DecrementFacts
  <1> HIDE DEF less
  <1>5. /\ idx \in Live(less)
        /\ Node(less, idx).order.id = id
        /\ Node(less, idx).order.qty = Held(id).qty - qty
    BY <1>1, <1>4 DEF AfterDecrement, Occupied, Less
  <1>6. Reduce(book, idx, qty) = IF Held(id).qty - qty = 0
                                 THEN Unlink(less, idx) ELSE less
    BY <1>5 DEF Reduce, less
  <1>7. Held(id).qty \in Nat
    BY <1>1 DEF Order
  <1>8. CASE qty = Held(id).qty
    <2>1. Reduce(book, idx, qty) = Unlink(less, idx)
      BY <1>6, <1>7, <1>8
    <2>2. BookInv(Unlink(less, idx), Depart(ahead, Node(less, idx).order.id))
      BY <1>3, <1>5, UnlinkInv
    <2> QED BY <2>1, <2>2, <1>5, <1>8
  <1>9. CASE qty # Held(id).qty
    BY <1>3, <1>6, <1>7, <1>9
  <1> QED BY <1>8, <1>9

\* Executions and cancels, refused or not, keep the invariant.
LEMMA TakeStep ==
    ASSUME IInv, NEW op \in Operation, NEW id, NEW qty \in Quantity,
           NEW excess \in Outcome, NEW done, Known(id) => done \in Reply,
           TakeFrom(op, id, qty, excess, done)
    PROVE  IInv'
  <1>1. CASE ~Known(id) /\ Reject(op, "UnknownOrder")
    BY <1>1, RejectInv DEF Outcome
  <1>2. CASE Known(id) /\ qty > Held(id).qty /\ Reject(op, excess)
    BY <1>2, RejectInv
  <1>3. CASE /\ Known(id)
             /\ qty =< Held(id).qty
             /\ book' = Reduce(book, book.orders[id], qty)
             /\ ahead' = IF qty = Held(id).qty THEN Depart(ahead, id) ELSE ahead
             /\ reply' = done
    <2>1. qty \in Nat
      BY QuantityAssumption
    <2>2. BookInv(book', ahead')
      BY <1>3, <2>1, ReduceInv
    <2> QED BY <1>3, <2>2, PriorityType DEF IInv, TypeOK
  <1> QED BY <1>1, <1>2, <1>3 DEF TakeFrom

\* replace keeps the invariant, also when its add refuses a duplicate after its
\* unlink took the old order out.
LEMMA ReplaceStep ==
    ASSUME IInv, NEW old_id \in OrderId, NEW new_id \in OrderId,
           NEW price \in Price, NEW qty \in Quantity,
           Replace(old_id, new_id, price, qty)
    PROVE  IInv'
  <1> DEFINE rest == Unlink(book, book.orders[old_id])
             order == [id |-> new_id, side |-> Held(old_id).side,
                       price |-> price, qty |-> qty]
  <1>1. CASE ~Known(old_id) /\ Reject("replace", "UnknownOrder")
    BY <1>1, RejectInv DEF Operation, Outcome
  <1>2. CASE /\ Known(old_id)
             /\ new_id \in DOMAIN rest.orders
             /\ book' = rest
             /\ ahead' = Depart(ahead, old_id)
             /\ reply' = Err("replace", "DuplicateOrder")
    <2>1. BookInv(book', ahead')
      BY <1>2, LeaveInv
    <2>2. reply' \in Reply
      BY <1>2 DEF Err, Reply, Operation, Outcome
    <2> QED BY <2>1, <2>2, PriorityType DEF IInv, TypeOK
  <1>3. CASE /\ Known(old_id)
             /\ new_id \notin DOMAIN rest.orders
             /\ book' = AddOrder(rest, order)
             /\ ahead' = Arrive(Depart(ahead, old_id), Resting(rest), order)
             /\ reply' = Ok("replace")
    <2>1. BookInv(rest, Depart(ahead, old_id))
      BY <1>3, LeaveInv
    <2>2. HasRoom(rest.pool)
      BY <1>3, RestingUnlink DEF IInv, Known
    <2>3. order \in Order /\ order.id = new_id
      BY <1>3, HeldSlot, QuantityAssumption DEF Order
    <2> HIDE DEF rest, order
    <2>4. BookInv(book', ahead')
      BY <1>3, <2>1, <2>2, <2>3, AddInv
    <2>5. reply' \in Reply
      BY <1>3 DEF Ok, Reply, Operation, Outcome
    <2> QED BY <2>4, <2>5, PriorityType DEF IInv, TypeOK
  <1> QED BY <1>1, <1>2, <1>3 DEF Replace

\* delete keeps the invariant.
LEMMA DeleteStep ==
    ASSUME IInv, NEW id \in OrderId, Delete(id)
    PROVE  IInv'
  <1>1. CASE ~Known(id) /\ Reject("delete", "UnknownOrder")
    BY <1>1, RejectInv DEF Operation, Outcome
  <1>2. CASE /\ Known(id)
             /\ book' = Unlink(book, book.orders[id])
             /\ ahead' = Depart(ahead, id)
             /\ reply' = Ok("delete")
    <2>1. BookInv(book', ahead')
      BY <1>2, LeaveInv
    <2>2. reply' \in Reply
      BY <1>2 DEF Ok, Reply, Operation, Outcome
    <2> QED BY <2>1, <2>2, PriorityType DEF IInv, TypeOK
  <1> QED BY <1>1, <1>2 DEF Delete

\* The invariant is inductive.
LEMMA NextInv == IInv /\ [Next]_vars => IInv'
  <1> SUFFICES ASSUME IInv, [Next]_vars PROVE IInv'
    OBVIOUS
  <1>1. ASSUME NEW o \in NewOrder, Add(o) PROVE IInv'
    BY <1>1, AddStep
  <1>2. ASSUME NEW id \in OrderId, NEW qty \in Quantity, Execute(id, qty)
        PROVE  IInv'
    <2>1. Known(id) => Traded("execute", id, Held(id).price, qty) \in Reply
      BY HeldSlot DEF Traded, Reply, Operation, Order
    <2> QED BY <1>2, <2>1, TakeStep DEF Execute, Operation, Outcome
  <1>3. ASSUME NEW id \in OrderId, NEW qty \in Quantity, NEW price \in Price,
               ExecuteAt(id, qty, price)
        PROVE  IInv'
    <2>1. Traded("execute_at", id, price, qty) \in Reply
      BY DEF Traded, Reply, Operation
    <2> QED BY <1>3, <2>1, TakeStep DEF ExecuteAt, Operation, Outcome
  <1>4. ASSUME NEW id \in OrderId, NEW qty \in Quantity, Cancel(id, qty)
        PROVE  IInv'
    <2>1. Ok("cancel") \in Reply
      BY DEF Ok, Reply, Operation, Outcome
    <2> QED BY <1>4, <2>1, TakeStep DEF Cancel, Operation, Outcome
  <1>5. ASSUME NEW id \in OrderId, Delete(id) PROVE IInv'
    BY <1>5, DeleteStep
  <1>6. ASSUME NEW old_id \in OrderId, NEW new_id \in OrderId,
               NEW price \in Price, NEW qty \in Quantity,
               Replace(old_id, new_id, price, qty)
        PROVE  IInv'
    BY <1>6, ReplaceStep
  <1>7. CASE UNCHANGED vars
    BY <1>7 DEF vars, IInv, TypeOK
  <1> QED
    BY <1>1, <1>2, <1>3, <1>4, <1>5, <1>6, <1>7 DEF Next

\* BookInv and the types hold in every reachable state of the book.
THEOREM Invariance == Spec => []IInv
  <1> QED
    BY InitInv, NextInv, PTL DEF Spec

-----------------------------------------------------------------------------

\* Every value has its type after any sequence of operations: in particular
\* no unsigned counter of the code goes below zero.
THEOREM TypeCorrect == Spec => []TypeOK
  <1>1. IInv => TypeOK
    BY DEF IInv
  <1> QED BY <1>1, Invariance, PTL

\* The linked lists are the queues of arrival after any sequence of adds,
\* executions, cancels, deletes and replaces.
THEOREM TimePriorityHolds == Spec => []TimePriority
  <1>1. IInv => TimePriority
    BY DEF IInv, BookInv, TimePriority
  <1> QED BY <1>1, Invariance, PTL

\* The identifier map is injective onto the live slots and the free list
\* never leads to a live slot.
THEOREM PoolConsistentHolds == Spec => []PoolConsistent
  <1>1. IInv => PoolConsistent
    BY DEF IInv, BookInv, PoolConsistent
  <1> QED BY <1>1, Invariance, PTL

\* At every level order_count is the number of its orders, and total_qty is
\* what one gets by adding up the quantities along the list from the head.
THEOREM AggregatesHold == Spec => [](Counted(book) /\ Summed(book, ahead))
  <1>1. IInv => Counted(book) /\ Summed(book, ahead)
    BY DEF IInv, BookInv
  <1> QED BY <1>1, Invariance, PTL

\* No sequence of operations leads to one that panics.
THEOREM PanicFreeHolds == Spec => []PanicFree
  <1>1. ASSUME IInv PROVE PanicFree
    <2>1. BookInv(book, ahead)
      BY <1>1 DEF IInv
    <2>2. AddSafe(book)
      BY <2>1, BookSafe
    <2>3. ASSUME NEW id \in DOMAIN book.orders
          PROVE  /\ UnlinkSafe(book, book.orders[id])
                 /\ AddSafe(Unlink(book, book.orders[id]))
      <3>1. Known(id)
        BY DEF Known
      <3>2. UnlinkSafe(book, book.orders[id])
        BY <1>1, <3>1, <2>1, HeldSlot, BookSafe
      <3>3. BookInv(Unlink(book, book.orders[id]), Depart(ahead, id))
        BY <1>1, <3>1, LeaveInv
      <3> QED BY <3>2, <3>3, BookSafe
    <2> QED BY <2>2, <2>3 DEF PanicFree
  <1> QED BY <1>1, Invariance, PTL

-----------------------------------------------------------------------------
(* The book implements PriceTimeBook.  The priorities are the same         *)
(* variable on both sides; what has to be shown is that the resting orders *)
(* found through the map and the pool change as the abstract ones do.      *)

\* The instance brings its own copy of the vocabulary of OrderTypes.
LEMMA SameVocabulary ==
    /\ \A op : PriceTime!Ok(op) = Ok(op)
    /\ \A op, error : PriceTime!Err(op, error) = Err(op, error)
    /\ \A op, id, price, qty :
          PriceTime!Traded(op, id, price, qty) = Traded(op, id, price, qty)
    /\ \A R, id : PriceTime!Depart(R, id) = Depart(R, id)
    /\ \A R, r, order : PriceTime!Arrive(R, r, order) = Arrive(R, r, order)
    /\ PriceTime!NewOrder = NewOrder
  <1>1. /\ \A op : PriceTime!Ok(op) = Ok(op)
        /\ \A op, error : PriceTime!Err(op, error) = Err(op, error)
        /\ \A op, id, price, qty :
              PriceTime!Traded(op, id, price, qty) = Traded(op, id, price, qty)
    BY DEF Ok, PriceTime!Ok, Err, PriceTime!Err, Traded, PriceTime!Traded
  <1>2. \A R, id : PriceTime!Depart(R, id) = Depart(R, id)
    BY DEF Depart, PriceTime!Depart
  <1>3. \A R, r, order : PriceTime!Arrive(R, r, order) = Arrive(R, r, order)
    BY DEF Arrive, PriceTime!Arrive, SameLevel, PriceTime!SameLevel
  <1>4. PriceTime!NewOrder = NewOrder
    BY DEF NewOrder, PriceTime!NewOrder, Side, PriceTime!Side
  <1> QED BY <1>1, <1>2, <1>3, <1>4

\* The empty book is the empty abstract book.
LEMMA RefineInit == Init => PriceTime!Init
  <1> SUFFICES ASSUME Init PROVE PriceTime!Init
    OBVIOUS
  <1>1. DOMAIN book.orders = {}
    BY DEF Init, EmptyBook, NoMap
  <1>2. Resting(book) = [x \in {} |-> x]
    BY <1>1 DEF Resting
  <1> QED BY <1>2, SameVocabulary DEF Init, PriceTime!Init

\* Known and Held read the abstract map.
LEMMA KnownResting ==
    ASSUME NEW id
    PROVE  /\ DOMAIN Resting(book) = DOMAIN book.orders
           /\ Known(id) <=> id \in DOMAIN Resting(book)
           /\ Known(id) => Resting(book)[id] = Held(id)
  BY DEF Known, Held, Resting, Node

\* An early return is an abstract refusal.
LEMMA RefineReject ==
    ASSUME NEW op, NEW error, Reject(op, error)
    PROVE  PriceTime!Fail(op, error)
  BY SameVocabulary DEF Reject, PriceTime!Fail, Resting, Node

\* unlink is an abstract departure.
LEMMA RefineLeave ==
    ASSUME IInv, NEW id, Known(id), book' = Unlink(book, book.orders[id]),
           ahead' = Depart(ahead, id)
    PROVE  PriceTime!Leave(id)
  <1>1. BookInv(book, ahead) /\ id \in DOMAIN book.orders
    BY DEF IInv, Known
  <1>2. Resting(book') = [x \in DOMAIN Resting(book) \ {id} |-> Resting(book)[x]]
    BY <1>1, RestingUnlink
  <1>3. Resting(book)' = Resting(book')
    BY DEF Resting, Node
  <1> QED BY <1>2, <1>3, SameVocabulary DEF PriceTime!Leave, PriceTime!Without

\* execute_inner and cancel take the quantity, and the order leaves exactly
\* when nothing is left of it.
LEMMA RefineTake ==
    ASSUME IInv, NEW id, Known(id), NEW qty \in Nat, qty =< Held(id).qty,
           book' = Reduce(book, book.orders[id], qty),
           ahead' = IF qty = Held(id).qty THEN Depart(ahead, id) ELSE ahead
    PROVE  PriceTime!Take(id, qty)
  <1> DEFINE idx == book.orders[id]
             less == Decrement(book, idx, qty)
  <1>0. Resting(book)' = Resting(book')
    BY DEF Resting, Node
  <1>1. /\ idx \in Live(book) /\ Node(book, idx).order = Held(id)
        /\ Held(id).id = id /\ Held(id) \in Order
        /\ id \in DOMAIN Resting(book) /\ Resting(book)[id] = Held(id)
    BY HeldSlot
  <1>2. BookInv(book, ahead) /\ id \in DOMAIN book.orders
    BY DEF IInv, Known
  <1>3. BookInv(less, ahead) /\ AfterDecrement(book, idx, qty, less)
    BY <1>1, <1>2, DecrementInv, DecrementFacts
  <1>4. Resting(less) = [Resting(book) EXCEPT ![id].qty = @ - qty]
    BY <1>2, RestingDecrement
  <1>5. book' = IF Node(less, idx).order.qty = 0 THEN Unlink(less, idx) ELSE less
    BY DEF Reduce
  <1> HIDE DEF less
  <1>6. /\ less.orders = book.orders
        /\ Node(less, idx).order.qty = Held(id).qty - qty
    <2>1. /\ less = [levels |-> less.levels, orders |-> book.orders, pool |-> less.pool]
          /\ Node(less, idx) = Occupied(Less(Held(id), qty), Node(book, idx).prev,
                                        Node(book, idx).next)
      BY <1>1, <1>3 DEF AfterDecrement
    <2> QED BY <2>1 DEF Occupied, Less
  <1>7. Held(id).qty \in Nat
    BY <1>1 DEF Order
  <1>8. CASE qty = Held(id).qty
    <2>1. book' = Unlink(less, less.orders[id]) /\ id \in DOMAIN less.orders
      BY <1>2, <1>5, <1>6, <1>7, <1>8
    <2>2. Resting(book') = [x \in DOMAIN Resting(less) \ {id} |-> Resting(less)[x]]
      BY <2>1, <1>3, RestingUnlink
    <2>3. Resting(book') = [x \in DOMAIN Resting(book) \ {id} |-> Resting(book)[x]]
      BY <2>2, <1>4
    <2>4. PriceTime!Leave(id)
      BY <2>3, <1>0, <1>8, SameVocabulary DEF PriceTime!Leave, PriceTime!Without
    <2> QED BY <2>4, <1>1, <1>8 DEF PriceTime!Take
  <1>9. CASE qty # Held(id).qty
    <2>1. book' = less
      BY <1>5, <1>6, <1>7, <1>9
    <2> QED BY <2>1, <1>0, <1>1, <1>4, <1>9 DEF PriceTime!Take
  <1> QED BY <1>8, <1>9

\* Executions and cancels are abstract fills.
LEMMA RefineTakeFrom ==
    ASSUME IInv, NEW op, NEW id, NEW qty \in Quantity, NEW excess, NEW done, NEW adone,
           Known(id) => done = adone,
           TakeFrom(op, id, qty, excess, done)
    PROVE  PriceTime!Fill(op, id, qty, excess, adone)
  <1>0. /\ Known(id) <=> id \in DOMAIN Resting(book)
        /\ Known(id) => Resting(book)[id] = Held(id) /\ Held(id).qty \in Nat
        /\ qty \in Nat
    BY KnownResting, HeldSlot, QuantityAssumption DEF Order
  <1>1. CASE ~Known(id) /\ Reject(op, "UnknownOrder")
    BY <1>0, <1>1, RefineReject DEF PriceTime!Fill
  <1>2. CASE Known(id) /\ qty > Held(id).qty /\ Reject(op, excess)
    BY <1>0, <1>2, RefineReject DEF PriceTime!Fill
  <1>3. CASE /\ Known(id)
             /\ qty =< Held(id).qty
             /\ book' = Reduce(book, book.orders[id], qty)
             /\ ahead' = IF qty = Held(id).qty THEN Depart(ahead, id) ELSE ahead
             /\ reply' = done
    <2>1. PriceTime!Take(id, qty)
      BY <1>0, <1>3, RefineTake
    <2> QED BY <1>0, <1>3, <2>1 DEF PriceTime!Fill
  <1> QED BY <1>1, <1>2, <1>3 DEF TakeFrom

\* add is the abstract add.
LEMMA RefineAdd ==
    ASSUME IInv, NEW o \in NewOrder, Add(o)
    PROVE  PriceTime!Add(o)
  <1>0. o \in Order /\ (Known(o.id) <=> o.id \in DOMAIN Resting(book))
    BY QuantityAssumption, KnownResting DEF NewOrder, Order
  <1>1. CASE Known(o.id) /\ Reject("add", "DuplicateOrder")
    BY <1>0, <1>1, RefineReject DEF PriceTime!Add
  <1>2. CASE /\ ~Known(o.id)
             /\ HasRoom(book.pool)
             /\ book' = AddOrder(book, o)
             /\ ahead' = Arrive(ahead, Resting(book), o)
             /\ reply' = Ok("add")
    <2>1. Resting(book') = [x \in DOMAIN Resting(book) \cup {o.id} |->
                              IF x = o.id THEN o ELSE Resting(book)[x]]
      BY <1>0, <1>2, RestingAdd DEF IInv, Known
    <2>2. Resting(book)' = Resting(book')
      BY DEF Resting, Node
    <2> QED BY <1>0, <1>2, <2>1, <2>2, SameVocabulary DEF PriceTime!Add, PriceTime!With
  <1> QED BY <1>1, <1>2 DEF Add

\* delete is the abstract delete.
LEMMA RefineDelete ==
    ASSUME IInv, NEW id \in OrderId, Delete(id)
    PROVE  PriceTime!Delete(id)
  <1>0. Known(id) <=> id \in DOMAIN Resting(book)
    BY KnownResting
  <1>1. CASE ~Known(id) /\ Reject("delete", "UnknownOrder")
    BY <1>0, <1>1, RefineReject DEF PriceTime!Delete
  <1>2. CASE /\ Known(id)
             /\ book' = Unlink(book, book.orders[id])
             /\ ahead' = Depart(ahead, id)
             /\ reply' = Ok("delete")
    BY <1>0, <1>2, RefineLeave, SameVocabulary DEF PriceTime!Delete
  <1> QED BY <1>1, <1>2 DEF Delete

\* replace is the abstract replace in each of its three outcomes.
LEMMA RefineReplace ==
    ASSUME IInv, NEW old_id \in OrderId, NEW new_id \in OrderId,
           NEW price \in Price, NEW qty \in Quantity,
           Replace(old_id, new_id, price, qty)
    PROVE  PriceTime!Replace(old_id, new_id, price, qty)
  <1> DEFINE rest == Unlink(book, book.orders[old_id])
             order == [id |-> new_id, side |-> Held(old_id).side,
                       price |-> price, qty |-> qty]
  <1>0. /\ Known(old_id) <=> old_id \in DOMAIN Resting(book)
        /\ Known(old_id) => Resting(book)[old_id] = Held(old_id)
        /\ DOMAIN Resting(book) = DOMAIN book.orders
    BY KnownResting
  <1>1. CASE ~Known(old_id) /\ Reject("replace", "UnknownOrder")
    BY <1>0, <1>1, RefineReject DEF PriceTime!Replace
  <1>2. ASSUME Known(old_id)
        PROVE  /\ DOMAIN rest.orders = DOMAIN Resting(book) \ {old_id}
               /\ Resting(rest) = [x \in DOMAIN Resting(book) \ {old_id} |-> Resting(book)[x]]
               /\ HasRoom(rest.pool)
    BY <1>0, <1>2, RestingUnlink DEF IInv, Known
  <1>3. CASE /\ Known(old_id)
             /\ new_id \in DOMAIN rest.orders
             /\ book' = rest
             /\ ahead' = Depart(ahead, old_id)
             /\ reply' = Err("replace", "DuplicateOrder")
    <2>1. PriceTime!Leave(old_id)
      BY <1>3, RefineLeave
    <2>2. new_id \in DOMAIN Resting(book) \ {old_id}
      BY <1>2, <1>3
    <2> QED BY <1>0, <1>3, <2>1, <2>2, SameVocabulary DEF PriceTime!Replace
  <1>4. CASE /\ Known(old_id)
             /\ new_id \notin DOMAIN rest.orders
             /\ book' = AddOrder(rest, order)
             /\ ahead' = Arrive(Depart(ahead, old_id), Resting(rest), order)
             /\ reply' = Ok("replace")
    <2>1. BookInv(rest, Depart(ahead, old_id))
      BY <1>4, LeaveInv
    <2>2. order \in Order /\ order.id = new_id
      BY <1>4, HeldSlot, QuantityAssumption DEF Order
    <2>3. order = [id |-> new_id, side |-> Resting(book)[old_id].side,
                   price |-> price, qty |-> qty]
      BY <1>0, <1>4
    <2>4. Resting(book)' = Resting(book')
      BY DEF Resting, Node
    <2>5. Resting(rest) = PriceTime!Without(old_id)
      BY <1>2, <1>4 DEF PriceTime!Without
    <2>6. new_id \notin DOMAIN Resting(book) \ {old_id}
      BY <1>2, <1>4
    <2> HIDE DEF rest, order
    <2>7. Resting(book') = [x \in DOMAIN Resting(rest) \cup {order.id} |->
                              IF x = order.id THEN order ELSE Resting(rest)[x]]
      BY <1>2, <1>4, <2>1, <2>2, RestingAdd
    <2>8. Resting(book') = PriceTime!With(PriceTime!Without(old_id), order)
      BY <2>5, <2>7 DEF PriceTime!With
    <2> QED
      BY <1>0, <1>4, <2>3, <2>4, <2>5, <2>6, <2>8, SameVocabulary
      DEF PriceTime!Replace
  <1> QED BY <1>1, <1>3, <1>4 DEF Replace

\* Every step of the book is an abstract step or a stutter.
LEMMA RefineNext == IInv /\ [Next]_vars => [PriceTime!Next]_(PriceTime!vars)
  <1> SUFFICES ASSUME IInv, [Next]_vars PROVE [PriceTime!Next]_(PriceTime!vars)
    OBVIOUS
  <1>1. ASSUME NEW o \in NewOrder, Add(o) PROVE PriceTime!Next
    BY <1>1, RefineAdd, SameVocabulary DEF PriceTime!Next
  <1>2. ASSUME NEW id \in OrderId, NEW qty \in Quantity, Execute(id, qty)
        PROVE  PriceTime!Next
    <2>1. Known(id) => Traded("execute", id, Held(id).price, qty)
                         = Traded("execute", id, Resting(book)[id].price, qty)
      BY KnownResting
    <2>2. PriceTime!Fill("execute", id, qty, "OverExecute",
                         Traded("execute", id, Resting(book)[id].price, qty))
      BY <1>2, <2>1, RefineTakeFrom DEF Execute
    <2>3. PriceTime!Execute(id, qty)
      BY <2>2, SameVocabulary DEF PriceTime!Execute
    <2> QED BY <2>3 DEF PriceTime!Next
  <1>3. ASSUME NEW id \in OrderId, NEW qty \in Quantity, NEW price \in Price,
               ExecuteAt(id, qty, price)
        PROVE  PriceTime!Next
    <2>1. PriceTime!ExecuteAt(id, qty, price)
      BY <1>3, RefineTakeFrom, SameVocabulary DEF ExecuteAt, PriceTime!ExecuteAt
    <2> QED BY <2>1 DEF PriceTime!Next
  <1>4. ASSUME NEW id \in OrderId, NEW qty \in Quantity, Cancel(id, qty)
        PROVE  PriceTime!Next
    <2>1. PriceTime!Cancel(id, qty)
      BY <1>4, RefineTakeFrom, SameVocabulary DEF Cancel, PriceTime!Cancel
    <2> QED BY <2>1 DEF PriceTime!Next
  <1>5. ASSUME NEW id \in OrderId, Delete(id) PROVE PriceTime!Next
    BY <1>5, RefineDelete DEF PriceTime!Next
  <1>6. ASSUME NEW old_id \in OrderId, NEW new_id \in OrderId,
               NEW price \in Price, NEW qty \in Quantity,
               Replace(old_id, new_id, price, qty)
        PROVE  PriceTime!Next
    BY <1>6, RefineReplace DEF PriceTime!Next
  <1>7. CASE UNCHANGED vars
    BY <1>7 DEF vars, PriceTime!vars, Resting, Node
  <1> QED
    BY <1>1, <1>2, <1>3, <1>4, <1>5, <1>6, <1>7 DEF Next

\* Every behaviour of the book is one of the abstract price-time book: same
\* replies, and the resting orders found through map and pool are those that
\* the operations promise.
THEOREM Refinement == Spec => ImplementsPriceTime
  <1> QED
    BY RefineInit, RefineNext, Invariance, PTL
    DEF Spec, ImplementsPriceTime, PriceTime!Spec

-----------------------------------------------------------------------------
(* Sums over the orders of a level.                                        *)

\* The quantity in the slots S of a book, as the properties write it.
SlotQty(b, S) == MapThenSumSet(LAMBDA i : Node(b, i).order.qty, S)

\* What the library's MapThenSumSet computes over the slots of a book.
LEMMA SlotSum ==
  ASSUME NEW b, NEW S, IsFiniteSet(S), NEW w \in [S -> Nat],
         \A i \in S : w[i] = Node(b, i).order.qty
  PROVE  \E g : /\ IsSum(g, S, w)
                /\ SlotQty(b, S) = g[S]
<1> DEFINE Iter(f) == f = [s \in SUBSET S |->
                             IF s = {} THEN 0
                             ELSE Node(b, CHOOSE x \in s : TRUE).order.qty
                                    + f[s \ {CHOOSE x \in s : TRUE}]]
           g == CHOOSE f : Iter(f)
           c == [s \in SUBSET S |-> CHOOSE x \in s : TRUE]
<1>1. Chooses(c, S)
  BY DEF Chooses
<1>2. PICK f : IsSumBy(f, S, w, c)
  <2> HIDE DEF c
  <2> QED
    BY <1>1, SumByExists
<1>3. Iter(f)
  <2>1. \A s \in SUBSET S : s # {} =>
           /\ (CHOOSE x \in s : TRUE) \in S
           /\ c[s] = CHOOSE x \in s : TRUE
    OBVIOUS
  <2>2. ASSUME NEW s \in SUBSET S, s # {}
        PROVE  f[s] = Node(b, CHOOSE x \in s : TRUE).order.qty
                        + f[s \ {CHOOSE x \in s : TRUE}]
    <3>1. f[s] = w[c[s]] + f[s \ {c[s]}]
      BY <1>2, <2>2 DEF IsSumBy
    <3> QED
      BY <2>1, <2>2, <3>1
  <2>3. f \in [SUBSET S -> Nat] /\ f[{}] = 0
    BY <1>2 DEF IsSumBy
  <2> QED
    BY <2>2, <2>3
<1>a. \E h : Iter(h)
  BY <1>3
<1>4. Iter(g)
  BY <1>a
<1>5. SlotQty(b, S) = g[S]
  BY Zenon DEF SlotQty, MapThenSumSet, MapThenFoldSet
<1> HIDE DEF g
<1>6. \A s \in SUBSET S : g[s] = IF s = {} THEN 0 ELSE w[c[s]] + g[s \ {c[s]}]
  <2> SUFFICES ASSUME NEW s \in SUBSET S
               PROVE  g[s] = IF s = {} THEN 0 ELSE w[c[s]] + g[s \ {c[s]}]
    OBVIOUS
  <2>1. CASE s = {}
    BY <1>4, <2>1
  <2>2. CASE s # {}
    <3>1. c[s] \in S /\ c[s] = CHOOSE x \in s : TRUE
      BY <2>2
    <3> QED
      BY <1>4, <2>2, <3>1
  <2> QED
    BY <2>1, <2>2
<1>7. g = [s \in SUBSET S |-> g[s]]
  BY <1>4
<1>8. IsSumBy(g, S, w, c)
  <2> HIDE DEF c
  <2> QED
    BY <1>1, <1>6, <1>7, SumByValues
<1>9. IsSum(g, S, w)
  <2> HIDE DEF c
  <2> QED
    BY <1>1, <1>8, SumOrder
<1> QED
  BY <1>5, <1>9
-----------------------------------------------------------------------------
(* The quantities at a level.                                              *)

Quantities(b) == [i \in Live(b) |-> Node(b, i).order.qty]

AheadOf(b, R, i) == {k \in Live(b) : Before(b, R, k, i)}

\* There are finitely many live slots, and they hold natural quantities.
LEMMA LiveFinite ==
  ASSUME NEW b, IsBook(b)
  PROVE  IsFiniteSet(Live(b)) /\ Quantities(b) \in [Live(b) -> Nat]
<1>1. Live(b) \subseteq 0 .. b.pool.len - 1
  BY LiveSlot
<1>2. b.pool.len \in Int
  BY NILAssumption DEF IsBook, IsPool
<1>3. IsFiniteSet(0 .. b.pool.len - 1)
  <2>1. PICK n \in Int : n = b.pool.len - 1
    BY <1>2
  <2>2. IsFiniteSet(0 .. n)
    BY ONLY FS_Interval, <2>1
  <2> QED
    BY ONLY <2>1, <2>2
<1>4. IsFiniteSet(Live(b))
  BY <1>1, <1>3, FS_Subset
<1>5. Quantities(b) \in [Live(b) -> Nat]
  BY LiveSlot DEF Quantities
<1> QED
  BY <1>4, <1>5

\* One function gives the sums of the quantities over all sets of live slots.
LEMMA SlotSums ==
  ASSUME NEW b, IsBook(b)
  PROVE  \E g : /\ IsSum(g, Live(b), Quantities(b))
                /\ \A S \in SUBSET Live(b) :
                      SlotQty(b, S) = g[S]
<1>1. IsFiniteSet(Live(b)) /\ Quantities(b) \in [Live(b) -> Nat]
  BY LiveFinite
<1>2. \A i \in Live(b) : Quantities(b)[i] = Node(b, i).order.qty
  BY DEF Quantities
<1>3. PICK g : IsSum(g, Live(b), Quantities(b))
  BY <1>1, <1>2, SlotSum
<1>4. ASSUME NEW S \in SUBSET Live(b)
      PROVE  SlotQty(b, S) = g[S]
  <2> DEFINE v == [i \in S |-> Quantities(b)[i]]
  <2>1. v \in [S -> Nat] /\ \A i \in S : v[i] = Node(b, i).order.qty
    BY <1>1, <1>2
  <2>2. \A i \in S : Quantities(b)[i] = v[i]
    OBVIOUS
  <2> HIDE DEF v
  <2>3. IsFiniteSet(S)
    BY <1>1, FS_Subset
  <2>4. PICK h : /\ IsSum(h, S, v)
                 /\ SlotQty(b, S) = h[S]
    BY <2>1, <2>3, SlotSum
  <2>5. g[S] = h[S]
    BY <1>1, <1>3, <2>2, <2>4, SumUnique
  <2> QED
    BY <2>4, <2>5
<1> QED
  BY <1>3, <1>4

\* The orders ahead of an order are its predecessor in the list and those
\* ahead of it.
LEMMA AheadStep ==
  ASSUME NEW b, NEW R, BookInv(b, R), NEW i \in Live(b), NEW p, p = Node(b, i).prev
  PROVE  /\ i \notin AheadOf(b, R, i)
         /\ p = NIL => AheadOf(b, R, i) = {}
         /\ p # NIL => /\ p \in Live(b)
                       /\ Node(b, p).next = i
                       /\ p \notin AheadOf(b, R, p)
                       /\ AheadOf(b, R, i) = AheadOf(b, R, p) \cup {p}
<1>1. \A k \in Live(b) : k \notin AheadOf(b, R, k)
  BY DEF BookInv, Ranked, AheadOf
<1>2. ASSUME p = NIL PROVE AheadOf(b, R, i) = {}
  BY <1>2 DEF BookInv, Linked, AheadOf
<1>3. ASSUME p # NIL
      PROVE  /\ p \in Live(b) /\ Node(b, p).next = i
             /\ AheadOf(b, R, i) = AheadOf(b, R, p) \cup {p}
  <2>1. p \in Live(b) /\ Node(b, p).next = i /\ Before(b, R, p, i)
    BY <1>3, Neighbours
  <2>2. i # NIL
    BY LiveSlot DEF BookInv
  <2>3. \A k \in Live(b) : ~(Before(b, R, p, k) /\ Before(b, R, k, i))
    BY <2>1, <2>2 DEF BookInv, Linked
  <2>4. ASSUME NEW k \in Live(b), Before(b, R, k, i) PROVE k = p \/ Before(b, R, k, p)
    <3>1. SameLevel(Node(b, k).order, Node(b, i).order)
      BY <2>4 DEF BookInv, Ranked
    <3>2. SameLevel(Node(b, p).order, Node(b, i).order)
      BY <2>1 DEF BookInv, Ranked
    <3>3. SameLevel(Node(b, k).order, Node(b, p).order)
      BY <3>1, <3>2 DEF SameLevel
    <3> QED
      BY <2>1, <2>3, <2>4, <3>3 DEF BookInv, Ranked
  <2>5. ASSUME NEW k \in Live(b), Before(b, R, k, p) PROVE Before(b, R, k, i)
    BY <2>1, <2>5 DEF BookInv, Ranked
  <2> QED
    BY <2>1, <2>4, <2>5 DEF AheadOf
<1> QED
  BY <1>1, <1>2, <1>3

\* Along the list, f is the sum of the quantities ahead.
LEMMA WalkSums ==
  ASSUME NEW b, NEW R, BookInv(b, R),
         NEW f \in [Live(b) -> Nat], IsQueuePosition(b, R, f),
         NEW g, IsSum(g, Live(b), Quantities(b)),
         NEW j \in Live(b)
  PROVE  g[AheadOf(b, R, j)] = f[j]
<1> DEFINE Bad == {n \in Nat : \E i \in Live(b) :
                      /\ Cardinality(AheadOf(b, R, i)) = n
                      /\ g[AheadOf(b, R, i)] # f[i]}
<1>1. IsBook(b) /\ IsFiniteSet(Live(b))
  BY LiveFinite DEF BookInv
<1>2. \A i : /\ AheadOf(b, R, i) \in SUBSET Live(b)
             /\ IsFiniteSet(AheadOf(b, R, i))
             /\ Cardinality(AheadOf(b, R, i)) \in Nat
  <2>1. \A i : AheadOf(b, R, i) \in SUBSET Live(b)
    BY DEF AheadOf
  <2> QED
    BY <1>1, <2>1, FS_Subset, FS_CardinalityType
<1>3. Bad = {}
  <2> SUFFICES ASSUME Bad # {} PROVE FALSE
    OBVIOUS
  <2>1. Bad \subseteq Nat
    OBVIOUS
  <2>2. PICK n \in Bad : \A m \in Bad : n =< m
    <3> HIDE DEF Bad
    <3> QED
      BY <2>1, LeastNatural
  <2>3. PICK i \in Live(b) : /\ Cardinality(AheadOf(b, R, i)) = n
                             /\ g[AheadOf(b, R, i)] # f[i]
    BY <2>2
  <2>4. PICK p : p = Node(b, i).prev
    OBVIOUS
  <2>5. p # NIL
    <3> SUFFICES ASSUME p = NIL PROVE FALSE
      OBVIOUS
    <3>1. AheadOf(b, R, i) = {}
      BY <2>4, AheadStep
    <3>2. f[i] = 0
      BY <2>4 DEF IsQueuePosition
    <3> QED
      BY <2>3, <3>1, <3>2 DEF IsSum
  <2>6. /\ p \in Live(b) /\ Node(b, p).next = i
        /\ p \notin AheadOf(b, R, p)
        /\ AheadOf(b, R, i) = AheadOf(b, R, p) \cup {p}
    BY <2>4, <2>5, AheadStep
  <2>7. f[i] = f[p] + Node(b, p).order.qty
    <3>1. i # NIL
      BY <1>1, LiveSlot
    <3> QED
      BY <2>6, <3>1 DEF IsQueuePosition
  <2>8. AheadOf(b, R, i) \ {p} = AheadOf(b, R, p) /\ p \in AheadOf(b, R, i)
    BY <2>6
  <2>9. g[AheadOf(b, R, i)] = Node(b, p).order.qty + g[AheadOf(b, R, p)]
    <3>1. g[AheadOf(b, R, i)] = Quantities(b)[p] + g[AheadOf(b, R, i) \ {p}]
      BY <1>2, <2>8 DEF IsSum
    <3> QED
      BY <2>6, <2>8, <3>1 DEF Quantities
  <2>10. g[AheadOf(b, R, p)] # f[p]
    <3>1. f[p] \in Nat /\ Node(b, p).order.qty \in Nat
      BY <1>1, <2>6, LiveSlot
    <3> QED
      BY <2>3, <2>7, <2>9, <3>1
  <2>11. Cardinality(AheadOf(b, R, p)) = n - 1
    BY <1>2, <2>3, <2>8, FS_RemoveElement
  <2>12. n - 1 \in Bad
    BY <1>2, <2>6, <2>10, <2>11
  <2> HIDE DEF Bad
  <2> QED
    BY <2>1, <2>2, <2>12
<1> QED
  BY <1>2, <1>3

\* The total of a level is the sum of the quantities of its orders.
LEMMA LevelTotal ==
  ASSUME NEW b, NEW R, BookInv(b, R), NEW key \in DOMAIN b.levels
  PROVE  b.levels[key].total_qty = SlotQty(b, LiveAt(b, key))
<1>1. PICK f \in [Live(b) -> Nat] : IsQueuePosition(b, R, f)
  BY DEF BookInv, Summed
<1>2. IsBook(b)
  BY DEF BookInv
<1>3. PICK g : /\ IsSum(g, Live(b), Quantities(b))
               /\ \A S \in SUBSET Live(b) : SlotQty(b, S) = g[S]
  BY <1>2, SlotSums
<1>4. PICK t : t = b.levels[key].tail
  OBVIOUS
<1>5. /\ t \in Live(b) /\ LevelKey(Node(b, t).order) = key
      /\ Node(b, t).next = NIL
  BY <1>4 DEF BookInv, LevelEnds, LiveAt
<1>6. b.levels[key].total_qty = f[t] + Node(b, t).order.qty
  BY <1>1, <1>5 DEF IsQueuePosition
<1>7. g[AheadOf(b, R, t)] = f[t]
  BY <1>1, <1>3, <1>5, WalkSums
<1>8. t \notin AheadOf(b, R, t)
  BY <1>5, AheadStep
<1>9. LiveAt(b, key) = AheadOf(b, R, t) \cup {t}
  <2>1. ASSUME NEW k \in LiveAt(b, key), k # t PROVE k \in AheadOf(b, R, t)
    <3>1. k \in Live(b) /\ SameLevel(Node(b, k).order, Node(b, t).order)
      BY <1>5 DEF LiveAt, LevelKey, SameLevel
    <3>2. ~Before(b, R, t, k)
      BY <1>5, <3>1 DEF BookInv, Linked
    <3> QED
      BY <1>5, <2>1, <3>1, <3>2 DEF BookInv, Ranked, AheadOf
  <2>2. ASSUME NEW k \in AheadOf(b, R, t) PROVE k \in LiveAt(b, key)
    <3>1. k \in Live(b) /\ SameLevel(Node(b, k).order, Node(b, t).order)
      BY <1>5 DEF AheadOf, BookInv, Ranked
    <3> QED
      BY <1>5, <3>1 DEF LiveAt, LevelKey, SameLevel
  <2>3. t \in LiveAt(b, key)
    BY <1>5 DEF LiveAt
  <2> QED
    BY <2>1, <2>2, <2>3
<1>10. LiveAt(b, key) \in SUBSET Live(b) /\ LiveAt(b, key) \ {t} = AheadOf(b, R, t)
  BY <1>8, <1>9 DEF LiveAt
<1>11. g[LiveAt(b, key)] = Node(b, t).order.qty + f[t]
  <2>1. g[LiveAt(b, key)] = Quantities(b)[t] + g[LiveAt(b, key) \ {t}]
    BY <1>3, <1>9, <1>10 DEF IsSum
  <2> QED
    BY <1>5, <1>7, <1>10, <2>1 DEF Quantities
<1>12. f[t] \in Nat /\ Node(b, t).order.qty \in Nat
  BY <1>2, <1>5, LiveSlot
<1>13. g[LiveAt(b, key)] = b.levels[key].total_qty
  BY <1>6, <1>11, <1>12
<1> QED
  BY <1>3, <1>10, <1>13

\* At every level total_qty is the sum of the quantities that rest there and
\* order_count their number, after any sequence of operations.
THEOREM LevelAggregatesHold == Spec => []LevelAggregates
<1>1. ASSUME IInv PROVE LevelAggregates
  <2>1. BookInv(book, ahead)
    BY <1>1 DEF IInv
  <2>2. Counted(book)
    BY <2>1 DEF BookInv
  <2>3. \A key \in DOMAIN book.levels :
           book.levels[key].total_qty = SlotQty(book, LiveAt(book, key))
    BY <2>1, LevelTotal
  <2> QED
    BY <2>2, <2>3, Zenon DEF LevelAggregates, SlotQty
<1> QED
  BY <1>1, Invariance, PTL

\* Walking a list from its head passes, before each order, the quantity of the
\* orders that arrived before it, and the level's total at the end.
THEOREM QueuePositionHolds == Spec => []QueuePosition
<1>1. ASSUME IInv PROVE QueuePosition
  <2>1. BookInv(book, ahead) /\ IsBook(book)
    BY <1>1 DEF IInv, BookInv
  <2>2. PICK f \in [Live(book) -> Nat] : IsQueuePosition(book, ahead, f)
    BY <2>1 DEF BookInv, Summed
  <2>3. PICK g : /\ IsSum(g, Live(book), Quantities(book))
                 /\ \A S \in SUBSET Live(book) : SlotQty(book, S) = g[S]
    BY <2>1, SlotSums
  <2>4. \A i \in Live(book) : SlotQty(book, AheadOf(book, ahead, i)) = f[i]
    <3> SUFFICES ASSUME NEW i \in Live(book)
                 PROVE  SlotQty(book, AheadOf(book, ahead, i)) = f[i]
      OBVIOUS
    <3>1. g[AheadOf(book, ahead, i)] = f[i]
      BY <2>1, <2>2, <2>3, WalkSums
    <3>2. AheadOf(book, ahead, i) \in SUBSET Live(book)
      BY DEF AheadOf
    <3> QED
      BY <2>3, <3>1, <3>2
  <2>5. f = [i \in Live(book) |-> SlotQty(book, AheadOf(book, ahead, i))]
    BY <2>2, <2>4
  <2>6. IsQueuePosition(book, ahead,
           [i \in Live(book) |-> SlotQty(book, AheadOf(book, ahead, i))])
    BY <2>2, <2>5
  <2> QED
    BY <2>6, Zenon DEF QueuePosition, SlotQty, AheadOf
<1> QED
  BY <1>1, Invariance, PTL

-----------------------------------------------------------------------------
(* The free list reaches every free slot.                                  *)

Free(b) == DOMAIN b.pool.slots \ Live(b)

\* free_head or a free slot leads to slot i.
LedTo(b, i) == i = b.pool.free_head \/ \E j \in Free(b) : Node(b, j).next = i

NoLeak(b) == \A i \in Free(b) : LedTo(b, i)

\* unlink puts the slot it frees in front of the free list.
LEMMA UnlinkNoLeak ==
  ASSUME NEW b, NEW R, BookInv(b, R), NoLeak(b), NEW idx \in Live(b)
  PROVE  NoLeak(Unlink(b, idx))
<1>1. PICK c : c = Unlink(b, idx)
  OBVIOUS
<1>2. SlotsAfterUnlink(b, idx, c)
  BY <1>1, UnlinkSlots
<1>3. /\ c.pool.free_head = idx
      /\ DOMAIN c.pool.slots = DOMAIN b.pool.slots
      /\ Live(c) = Live(b) \ {idx}
      /\ Node(c, idx) = FreeSlot(b.pool.free_head)
      /\ \A i \in Free(b) : Node(c, i) = Node(b, i)
  BY <1>2 DEF SlotsAfterUnlink, Free
<1>4. idx \in DOMAIN b.pool.slots
  BY LiveSlot DEF BookInv
<1>5. Free(c) = Free(b) \cup {idx}
  BY <1>3, <1>4 DEF Free
<1>6. Node(c, idx).next = b.pool.free_head
  BY <1>3 DEF FreeSlot
<1>7. ASSUME NEW i \in Free(c) PROVE LedTo(c, i)
  <2>1. CASE i = idx
    BY <1>3, <2>1 DEF LedTo
  <2>2. CASE i # idx
    <3>1. i \in Free(b) /\ LedTo(b, i)
      BY <1>5, <1>7, <2>2 DEF NoLeak
    <3> QED
      BY <1>3, <1>5, <1>6, <3>1 DEF LedTo
  <2> QED
    BY <2>1, <2>2
<1> QED
  BY <1>1, <1>7 DEF NoLeak

\* add takes the slot free_head leads to, or a new one.
LEMMA AddNoLeak ==
  ASSUME NEW b, NEW R, BookInv(b, R), NoLeak(b), NEW o \in Order, HasRoom(b.pool)
  PROVE  NoLeak(AddOrder(b, o))
<1>1. PICK c : c = AddOrder(b, o)
  OBVIOUS
<1>2. PICK idx : idx = AllocIndex(b.pool)
  OBVIOUS
<1>3. PICK tail : tail = LevelOrEmpty(b, LevelKey(o)).tail
  OBVIOUS
<1>4. SlotsAfterAdd(b, o, idx, tail, c)
  BY <1>1, <1>2, <1>3, AddSlots
<1>5. /\ DOMAIN c.pool.slots = DOMAIN b.pool.slots \cup {idx}
      /\ Live(c) = Live(b) \cup {idx}
      /\ \A i \in Free(b) \ {idx} : Node(c, i) = Node(b, i)
  BY <1>4 DEF SlotsAfterAdd, Free
<1>6. Free(c) = Free(b) \ {idx}
  BY <1>5 DEF Free
<1>7. c.pool.free_head = PoolAlloc(b.pool, Occupied(o, tail, NIL)).free_head
  BY <1>1, <1>3 DEF AddOrder, WithSlots
<1>8. ASSUME NEW i \in Free(c) PROVE LedTo(c, i)
  <2>1. i \in Free(b) /\ i # idx /\ LedTo(b, i)
    BY <1>6, <1>8 DEF NoLeak
  <2>2. CASE b.pool.free_head # NIL
    <3>1. idx = b.pool.free_head /\ c.pool.free_head = Node(b, idx).next
      BY <1>2, <1>7, <2>2 DEF AllocIndex, PoolAlloc, Node
    <3>2. PICK j \in Free(b) : Node(b, j).next = i
      BY <2>1, <3>1 DEF LedTo
    <3>3. CASE j = idx
      BY <3>1, <3>2, <3>3 DEF LedTo
    <3>4. CASE j # idx
      BY <1>5, <1>6, <3>2, <3>4 DEF LedTo
    <3> QED
      BY <3>3, <3>4
  <2>3. CASE b.pool.free_head = NIL
    <3>1. idx = b.pool.len /\ c.pool.free_head = NIL
      BY <1>2, <1>7, <2>3 DEF AllocIndex, PoolAlloc
    <3>2. /\ DOMAIN b.pool.slots = 0 .. b.pool.len - 1
          /\ b.pool.len \in Nat /\ NIL \in Nat /\ b.pool.len =< NIL
      BY NILAssumption DEF BookInv, IsBook, IsPool
    <3>3. i # NIL /\ idx \notin Free(b)
      BY <2>1, <3>1, <3>2 DEF Free
    <3>4. PICK j \in Free(b) : Node(b, j).next = i
      BY <2>1, <2>3, <3>3 DEF LedTo
    <3> QED
      BY <1>5, <1>6, <3>3, <3>4 DEF LedTo
  <2> QED
    BY <2>2, <2>3
<1> QED
  BY <1>1, <1>8 DEF NoLeak

\* Taking quantity from an order touches no link.
LEMMA DecrementNoLeak ==
  ASSUME NEW b, NEW R, BookInv(b, R), NoLeak(b), NEW idx \in Live(b), NEW qty \in Nat
  PROVE  NoLeak(Decrement(b, idx, qty))
<1>1. PICK c : c = Decrement(b, idx, qty)
  OBVIOUS
<1>2. AfterDecrement(b, idx, qty, c)
  BY <1>1, DecrementFacts
<1>3. /\ c.pool.free_head = b.pool.free_head
      /\ DOMAIN c.pool.slots = DOMAIN b.pool.slots
      /\ Live(c) = Live(b)
      /\ \A i \in DOMAIN b.pool.slots \ {idx} : Node(c, i) = Node(b, i)
  BY <1>2 DEF AfterDecrement
<1>4. Free(c) = Free(b) /\ \A i \in Free(b) : Node(c, i) = Node(b, i)
  BY <1>3 DEF Free
<1> QED
  BY <1>1, <1>3, <1>4 DEF NoLeak, LedTo

\* Every operation keeps every free slot on the free list.
LEMMA NoLeakStep ==
  ASSUME IInv, NoLeak(book), Next
  PROVE  NoLeak(book')
<1>0. BookInv(book, ahead)
  BY DEF IInv
<1>1. ASSUME NEW op, NEW error, Reject(op, error) PROVE NoLeak(book')
  BY <1>1 DEF Reject
<1>2. ASSUME NEW id, Known(id) PROVE NoLeak(Unlink(book, book.orders[id]))
  BY <1>0, <1>2, HeldSlot, UnlinkNoLeak
<1>3. ASSUME NEW o \in NewOrder, Add(o) PROVE NoLeak(book')
  <2>1. o \in Order
    BY QuantityAssumption DEF NewOrder, Order
  <2>2. CASE Reject("add", "DuplicateOrder")
    BY <1>1, <2>2
  <2>3. CASE HasRoom(book.pool) /\ book' = AddOrder(book, o)
    BY <1>0, <2>1, <2>3, AddNoLeak
  <2> QED
    BY <1>3, <2>2, <2>3 DEF Add
<1>4. ASSUME NEW op, NEW id, NEW qty \in Quantity, NEW excess, NEW done,
             TakeFrom(op, id, qty, excess, done)
      PROVE  NoLeak(book')
  <2>1. CASE Reject(op, "UnknownOrder") \/ Reject(op, excess)
    BY <1>1, <2>1
  <2>2. CASE /\ Known(id) /\ qty =< Held(id).qty
             /\ book' = Reduce(book, book.orders[id], qty)
    <3>1. PICK idx : idx = book.orders[id]
      OBVIOUS
    <3>2. PICK less : less = Decrement(book, idx, qty)
      OBVIOUS
    <3>3. idx \in Live(book) /\ Node(book, idx).order = Held(id) /\ qty \in Nat
      BY <2>2, <3>1, HeldSlot, QuantityAssumption
    <3>4. BookInv(less, ahead) /\ NoLeak(less)
      BY <1>0, <2>2, <3>2, <3>3, DecrementInv, DecrementNoLeak
    <3>a. AfterDecrement(book, idx, qty, less)
      BY <1>0, <3>2, <3>3, DecrementFacts
    <3>5. idx \in Live(less)
      BY <3>3, <3>a DEF AfterDecrement
    <3>6. NoLeak(Unlink(less, idx))
      BY <3>4, <3>5, UnlinkNoLeak
    <3>7. book' = less \/ book' = Unlink(less, idx)
      BY <2>2, <3>1, <3>2 DEF Reduce
    <3> QED
      BY <3>4, <3>6, <3>7
  <2> QED
    BY <1>4, <2>1, <2>2 DEF TakeFrom
<1>5. ASSUME NEW id \in OrderId, Delete(id) PROVE NoLeak(book')
  BY <1>1, <1>2, <1>5 DEF Delete
<1>6. ASSUME NEW old_id \in OrderId, NEW new_id \in OrderId,
             NEW price \in Price, NEW qty \in Quantity,
             Replace(old_id, new_id, price, qty)
      PROVE  NoLeak(book')
  <2>1. PICK rest : rest = Unlink(book, book.orders[old_id])
    OBVIOUS
  <2>2. PICK order : order = [id |-> new_id, side |-> Held(old_id).side,
                              price |-> price, qty |-> qty]
    OBVIOUS
  <2>3. CASE Reject("replace", "UnknownOrder")
    BY <1>1, <2>3
  <2>4. CASE Known(old_id) /\ (book' = rest \/ book' = AddOrder(rest, order))
    <3>1. NoLeak(rest)
      BY <1>2, <2>1, <2>4
    <3>2. BookInv(rest, Depart(ahead, old_id))
      BY <2>1, <2>4, LeaveInv
    <3>3. HasRoom(rest.pool)
      BY <1>0, <2>1, <2>4, RestingUnlink DEF Known
    <3>4. order \in Order
      BY <2>2, <2>4, HeldSlot, QuantityAssumption DEF Order
    <3>5. NoLeak(AddOrder(rest, order))
      BY <3>1, <3>2, <3>3, <3>4, AddNoLeak
    <3> QED
      BY <2>4, <3>1, <3>5
  <2> QED
    BY <1>6, <2>1, <2>2, <2>3, <2>4 DEF Replace
<1> QED
  BY <1>3, <1>4, <1>5, <1>6 DEF Next, Execute, ExecuteAt, Cancel

\* No slot is leaked: every free slot is on the way of the free list, so the
\* pool grows only when all its slots are live.
THEOREM NoSlotLeakHolds == Spec => []NoSlotLeak
<1>1. Init => NoLeak(book)
  <2> SUFFICES ASSUME Init PROVE NoLeak(book)
    OBVIOUS
  <2>1. DOMAIN book.pool.slots = {}
    BY DEF Init, EmptyBook, NoMap
  <2> QED
    BY <2>1 DEF NoLeak, Free
<1>2. IInv /\ NoLeak(book) /\ [Next]_vars => NoLeak(book)'
  <2> SUFFICES ASSUME IInv, NoLeak(book), [Next]_vars PROVE NoLeak(book')
    OBVIOUS
  <2>1. CASE Next
    BY <2>1, NoLeakStep
  <2>2. CASE UNCHANGED vars
    BY <2>2 DEF vars
  <2> QED
    BY <2>1, <2>2
<1>3. IInv /\ NoLeak(book) => NoSlotLeak
  BY DEF NoLeak, LedTo, Free, NoSlotLeak
<1> QED
  BY <1>1, <1>2, <1>3, Invariance, PTL DEF Spec

-----------------------------------------------------------------------------
(* The top of the book.                                                    *)

\* The quantity of the orders that the identifiers S name, as the property
\* writes it.
IdQty(S) == MapThenSumSet(LAMBDA id : Held(id).qty, S)

\* What the library's MapThenSumSet computes over the identifiers.
LEMMA IdSum ==
  ASSUME NEW S, IsFiniteSet(S), NEW w \in [S -> Nat],
         \A i \in S : w[i] = Held(i).qty
  PROVE  \E g : /\ IsSum(g, S, w)
                /\ IdQty(S) = g[S]
<1> DEFINE Iter(f) == f = [s \in SUBSET S |->
                             IF s = {} THEN 0
                             ELSE Held(CHOOSE x \in s : TRUE).qty
                                    + f[s \ {CHOOSE x \in s : TRUE}]]
           g == CHOOSE f : Iter(f)
           c == [s \in SUBSET S |-> CHOOSE x \in s : TRUE]
<1>1. Chooses(c, S)
  BY DEF Chooses
<1>2. PICK f : IsSumBy(f, S, w, c)
  <2> HIDE DEF c
  <2> QED
    BY <1>1, SumByExists
<1>3. Iter(f)
  <2>1. \A s \in SUBSET S : s # {} =>
           /\ (CHOOSE x \in s : TRUE) \in S
           /\ c[s] = CHOOSE x \in s : TRUE
    OBVIOUS
  <2>2. ASSUME NEW s \in SUBSET S, s # {}
        PROVE  f[s] = Held(CHOOSE x \in s : TRUE).qty
                        + f[s \ {CHOOSE x \in s : TRUE}]
    <3>1. f[s] = w[c[s]] + f[s \ {c[s]}]
      BY <1>2, <2>2 DEF IsSumBy
    <3> QED
      BY <2>1, <2>2, <3>1
  <2>3. f \in [SUBSET S -> Nat] /\ f[{}] = 0
    BY <1>2 DEF IsSumBy
  <2> QED
    BY <2>2, <2>3
<1>a. \E h : Iter(h)
  BY <1>3
<1>4. Iter(g)
  BY <1>a
<1>5. IdQty(S) = g[S]
  BY Zenon DEF IdQty, MapThenSumSet, MapThenFoldSet
<1> HIDE DEF g
<1>6. \A s \in SUBSET S : g[s] = IF s = {} THEN 0 ELSE w[c[s]] + g[s \ {c[s]}]
  <2> SUFFICES ASSUME NEW s \in SUBSET S
               PROVE  g[s] = IF s = {} THEN 0 ELSE w[c[s]] + g[s \ {c[s]}]
    OBVIOUS
  <2>1. CASE s = {}
    BY <1>4, <2>1
  <2>2. CASE s # {}
    <3>1. c[s] \in S /\ c[s] = CHOOSE x \in s : TRUE
      BY <2>2
    <3> QED
      BY <1>4, <2>2, <3>1
  <2> QED
    BY <2>1, <2>2
<1>7. g = [s \in SUBSET S |-> g[s]]
  BY <1>4
<1>8. IsSumBy(g, S, w, c)
  <2> HIDE DEF c
  <2> QED
    BY <1>1, <1>6, <1>7, SumByValues
<1>9. IsSum(g, S, w)
  <2> HIDE DEF c
  <2> QED
    BY <1>1, <1>8, SumOrder
<1> QED
  BY <1>5, <1>9

\* Adding up by identifier is adding up by slot.
LEMMA IdsAreSlots ==
  ASSUME IInv, NEW T \in SUBSET Live(book),
         NEW S, S = {Node(book, i).order.id : i \in T}
  PROVE  IdQty(S) = SlotQty(book, T)
<1> DEFINE Id(i) == Node(book, i).order.id
           w == [id \in S |-> Held(id).qty]
<1>1. IsBook(book) /\ MapOntoLive(book)
  BY DEF IInv, BookInv
<1>2. IsFiniteSet(Live(book)) /\ IsFiniteSet(T) /\ IsFiniteSet(S)
  <2>1. IsFiniteSet(T)
    BY <1>1, LiveFinite, FS_Subset
  <2> DEFINE idOf == [i \in T |-> Id(i)]
  <2>2. S = {idOf[i] : i \in T}
    OBVIOUS
  <2>3. IsFiniteSet({idOf[i] : i \in T})
    <3> HIDE DEF idOf
    <3> QED
      BY <2>1, ImageFinite
  <2> QED
    BY <1>1, <2>1, <2>2, <2>3, LiveFinite
<1>3. \A i \in T : /\ Id(i) \in S
                   /\ book.orders[Id(i)] = i
                   /\ Held(Id(i)) = Node(book, i).order
                   /\ Node(book, i).order.qty \in Nat
  BY <1>1, LiveSlot DEF MapOntoLive, Held
<1>4. w \in [S -> Nat] /\ (\A id \in S : w[id] = Held(id).qty)
      /\ \A i \in T : w[Id(i)] = Node(book, i).order.qty
  BY <1>3
<1> HIDE DEF w
<1>5. PICK h : IsSum(h, S, w) /\ IdQty(S) = h[S]
  BY <1>2, <1>4, IdSum
<1> DEFINE ids(t) == {Id(i) : i \in t}
           g == [t \in SUBSET T |-> h[ids(t)]]
<1>6. IsSum(g, T, Quantities(book))
  <2>1. \A t \in SUBSET T : ids(t) \in SUBSET S
    BY <1>3
  <2>2. g \in [SUBSET T -> Nat]
    BY <1>5, <2>1 DEF IsSum
  <2>3. g[{}] = 0
    <3>1. ids({}) = {}
      OBVIOUS
    <3> QED
      BY <1>5, <3>1 DEF IsSum
  <2>4. ASSUME NEW t \in SUBSET T, NEW x \in t
        PROVE  g[t] = Quantities(book)[x] + g[t \ {x}]
    <3>1. ids(t) \ {Id(x)} = ids(t \ {x})
      BY <1>3
    <3>2. ids(t) \in SUBSET S /\ Id(x) \in ids(t)
      BY <2>1
    <3> HIDE DEF ids, Id
    <3>3. h[ids(t)] = w[Id(x)] + h[ids(t) \ {Id(x)}]
      BY <1>5, <3>2 DEF IsSum
    <3>4. w[Id(x)] = Quantities(book)[x]
      BY <1>4 DEF Quantities
    <3>5. g[t] = h[ids(t)] /\ g[t \ {x}] = h[ids(t \ {x})]
      OBVIOUS
    <3> QED
      BY <3>1, <3>3, <3>4, <3>5
  <2> QED
    BY <2>2, <2>3, <2>4 DEF IsSum
<1>7. PICK f : /\ IsSum(f, Live(book), Quantities(book))
               /\ \A U \in SUBSET Live(book) : SlotQty(book, U) = f[U]
  BY <1>1, SlotSums
<1>8. f[T] = g[T]
  <2> HIDE DEF g
  <2> QED
    BY <1>2, <1>6, <1>7, SumUnique
<1>9. g[T] = h[S]
  OBVIOUS
<1> QED
  BY <1>5, <1>7, <1>8, <1>9

\* The orders of a side, their prices, and what rests at one of them, as the
\* property writes them.
OrdersOn(side) == {id \in DOMAIN book.orders : Held(id).side = side}
PricesOf(side) == {Held(id).price : id \in OrdersOn(side)}
Touch(side, p) ==
    [price |-> p, qty |-> IdQty({id \in OrdersOn(side) : Held(id).price = p})]

\* The levels of a side are at the prices of its resting orders, and a level's
\* total is what its orders hold.
LEMMA QuotesTrue ==
  ASSUME IInv, NEW side \in Side
  PROVE  /\ PricesOn(book, side) = PricesOf(side)
         /\ IsFiniteSet(PricesOf(side)) /\ PricesOf(side) \subseteq Int
         /\ \A p \in PricesOf(side) : Quote(book, side, p) = Touch(side, p)
<1> PICK on : on = OrdersOn(side)
  OBVIOUS
<1> PICK prices : prices = PricesOf(side)
  OBVIOUS
<1>0. /\ on = {id \in DOMAIN book.orders : Held(id).side = side}
      /\ prices = {Held(id).price : id \in on}
  BY DEF OrdersOn, PricesOf
<1>1. BookInv(book, ahead) /\ IsBook(book) /\ MapOntoLive(book) /\ LevelEnds(book)
  BY DEF IInv, BookInv
<1>2. \A id \in on : /\ id \in DOMAIN book.orders /\ Held(id) \in Order
                     /\ book.orders[id] \in Live(book)
                     /\ Node(book, book.orders[id]).order = Held(id)
                     /\ LevelKey(Held(id)) = <<side, Held(id).price>>
  BY <1>0, HeldSlot DEF Known, LevelKey
<1>3. prices \subseteq Price /\ prices \subseteq Int
  BY <1>0, <1>2, PriceAssumption DEF Order
<1>4. \A i \in Live(book) : /\ Node(book, i).order.id \in DOMAIN book.orders
                            /\ Held(Node(book, i).order.id) = Node(book, i).order
  BY <1>1 DEF MapOntoLive, Held
<1>5. ASSUME NEW p \in PricesOn(book, side) PROVE p \in prices
  <2>1. PICK i : i = book.levels[<<side, p>>].head
    OBVIOUS
  <2>2. i \in Live(book) /\ LevelKey(Node(book, i).order) = <<side, p>>
    BY <1>1, <2>1 DEF LevelEnds, LiveAt, PricesOn
  <2>3. Node(book, i).order.side = side /\ Node(book, i).order.price = p
    BY <2>2 DEF LevelKey
  <2> QED
    BY <1>0, <1>4, <2>2, <2>3
<1>6. ASSUME NEW p \in prices PROVE p \in PricesOn(book, side)
  <2>1. PICK id \in on : p = Held(id).price
    BY <1>0
  <2>2. LevelKey(Node(book, book.orders[id]).order) \in DOMAIN book.levels
    BY <1>1, <1>2 DEF LevelEnds
  <2> QED
    BY <1>2, <1>3, <2>1, <2>2 DEF PricesOn
<1>7. IsFiniteSet(prices)
  <2> DEFINE priceOf == [i \in Live(book) |-> Node(book, i).order.price]
  <2>1. prices \subseteq {priceOf[i] : i \in Live(book)}
    BY <1>0, <1>2
  <2>2. IsFiniteSet({priceOf[i] : i \in Live(book)})
    <3> HIDE DEF priceOf
    <3> QED
      BY <1>1, LiveFinite, ImageFinite
  <2> QED
    BY <2>1, <2>2, FS_Subset
<1>8. ASSUME NEW p \in prices
      PROVE  book.levels[<<side, p>>].total_qty
               = IdQty({id \in on : Held(id).price = p})
  <2>1. PICK T : T = LiveAt(book, <<side, p>>)
    OBVIOUS
  <2>2. <<side, p>> \in DOMAIN book.levels
    BY <1>6 DEF PricesOn
  <2>3. book.levels[<<side, p>>].total_qty = SlotQty(book, T)
    BY <1>1, <2>1, <2>2, LevelTotal
  <2>4. T \in SUBSET Live(book)
    BY <2>1 DEF LiveAt
  <2>5. {id \in on : Held(id).price = p} = {Node(book, i).order.id : i \in T}
    <3>1. ASSUME NEW id \in on, Held(id).price = p
          PROVE  book.orders[id] \in T /\ Node(book, book.orders[id]).order.id = id
      BY <1>1, <1>2, <2>1, <3>1 DEF LiveAt, MapOntoLive
    <3>2. ASSUME NEW i \in T
          PROVE  /\ Node(book, i).order.id \in on
                 /\ Held(Node(book, i).order.id).price = p
      <4>1. i \in Live(book) /\ LevelKey(Node(book, i).order) = <<side, p>>
        BY <2>1 DEF LiveAt
      <4>2. Node(book, i).order.side = side /\ Node(book, i).order.price = p
        BY <4>1 DEF LevelKey
      <4> QED
        BY <1>0, <1>4, <4>1, <4>2
    <3> QED
      BY <3>1, <3>2
  <2>6. IdQty({id \in on : Held(id).price = p}) = SlotQty(book, T)
    BY <2>4, <2>5, IdsAreSlots
  <2> QED
    BY <2>3, <2>6
<1> QED
  BY <1>3, <1>5, <1>6, <1>7, <1>8 DEF Quote, Touch

\* Rust's division of the sum by two stays between its operands, at most half a
\* tick from the middle.
LEMMA HalveBetween ==
  ASSUME NEW x \in Int, NEW y \in Int, x =< y
  PROVE  Halve(y + x) \in x .. y /\ 2 * Halve(y + x) - (x + y) \in -1 .. 1
<1>1. PICK s \in Int : s = y + x
  OBVIOUS
<1>2. CASE s >= 0
  <2>1. PICK q \in Int : q = s \div 2
    OBVIOUS
  <2>2. s = 2 * q \/ s = 2 * q + 1
    BY <2>1
  <2>3. Halve(s) = q
    BY <1>2, <2>1 DEF Halve
  <2> QED
    BY <1>1, <2>2, <2>3
<1>3. CASE ~(s >= 0)
  <2>1. PICK q \in Int : q = (-s) \div 2
    OBVIOUS
  <2>2. -s = 2 * q \/ -s = 2 * q + 1
    BY <2>1
  <2>3. Halve(s) = -q
    BY <1>3, <2>1 DEF Halve
  <2> QED
    BY <1>1, <2>2, <2>3
<1> QED
  BY <1>2, <1>3

\* best_bid, best_ask, spread and mid agree with the resting orders after any
\* sequence of operations.
THEOREM TopOfBookHolds == Spec => []TopOfBook
<1>1. ASSUME IInv PROVE TopOfBook
  <2> DEFINE bid == Max(PricesOf("Bid"))
             ask == Min(PricesOf("Ask"))
  <2>1. ASSUME NEW side \in Side
        PROVE  /\ PricesOn(book, side) = PricesOf(side)
               /\ IsFiniteSet(PricesOf(side)) /\ PricesOf(side) \subseteq Int
               /\ \A p \in PricesOf(side) : Quote(book, side, p) = Touch(side, p)
    BY <1>1, QuotesTrue
  <2>2. \A side : OrdersOn(side) = {} <=> PricesOf(side) = {}
    BY DEF PricesOf
  <2>3. "Bid" \in Side /\ "Ask" \in Side
    BY DEF Side
  <2>4. OrdersOn("Bid") # {} =>
           bid \in PricesOf("Bid") /\ \A q \in PricesOf("Bid") : q =< bid
    BY <2>1, <2>2, <2>3, FiniteBounds
  <2>5. OrdersOn("Ask") # {} =>
           ask \in PricesOf("Ask") /\ \A q \in PricesOf("Ask") : ask =< q
    BY <2>1, <2>2, <2>3, FiniteBounds
  <2> HIDE DEF bid, ask
  <2>6. OrdersOn("Bid") = {} => BestBid(book) = {}
    BY <2>1, <2>2, <2>3 DEF BestBid
  <2>7. OrdersOn("Ask") = {} => BestAsk(book) = {}
    BY <2>1, <2>2, <2>3 DEF BestAsk
  <2>8. ASSUME OrdersOn("Bid") # {}
        PROVE  BestBid(book) = {Touch("Bid", bid)} /\ bid \in Int
    <3>1. {p \in PricesOn(book, "Bid") : \A q \in PricesOn(book, "Bid") : q =< p} = {bid}
      BY <2>1, <2>3, <2>4, <2>8
    <3> QED
      BY <2>1, <2>3, <2>4, <2>8, <3>1 DEF BestBid
  <2>9. ASSUME OrdersOn("Ask") # {}
        PROVE  BestAsk(book) = {Touch("Ask", ask)} /\ ask \in Int
    <3>1. {p \in PricesOn(book, "Ask") : \A q \in PricesOn(book, "Ask") : p =< q} = {ask}
      BY <2>1, <2>3, <2>5, <2>9
    <3> QED
      BY <2>1, <2>3, <2>5, <2>9, <3>1 DEF BestAsk
  <2>10. Touch("Bid", bid).price = bid /\ Touch("Ask", ask).price = ask
    BY DEF Touch
  <2>11. Spread(book) =
            IF OrdersOn("Bid") # {} /\ OrdersOn("Ask") # {} THEN {ask - bid} ELSE {}
    BY <2>6, <2>7, <2>8, <2>9, <2>10 DEF Spread
  <2>12. ASSUME OrdersOn("Bid") # {}, OrdersOn("Ask") # {}, bid =< ask
         PROVE  \E m \in bid .. ask : /\ Mid(book) = {m}
                                      /\ 2 * m - (bid + ask) \in -1 .. 1
    <3>1. Mid(book) = {Halve(ask + bid)}
      BY <2>8, <2>9, <2>10, <2>12 DEF Mid
    <3>2. /\ Halve(ask + bid) \in bid .. ask
          /\ 2 * Halve(ask + bid) - (bid + ask) \in -1 .. 1
      BY <2>8, <2>9, <2>12, HalveBetween
    <3> QED
      BY <3>1, <3>2
  <2>13. /\ BestBid(book) = IF OrdersOn("Bid") = {} THEN {} ELSE {Touch("Bid", bid)}
         /\ BestAsk(book) = IF OrdersOn("Ask") = {} THEN {} ELSE {Touch("Ask", ask)}
    BY <2>6, <2>7, <2>8, <2>9
  <2> QED
    BY <2>11, <2>12, <2>13, Zenon
    DEF TopOfBook, OrdersOn, PricesOf, Touch, bid, ask, IdQty
<1> QED
  BY <1>1, Invariance, PTL
=============================================================================
