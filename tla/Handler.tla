------------------------------- MODULE Handler -------------------------------
(***************************************************************************)
(* MessageHandler of app/src/handler.rs: ITCH messages applied to a        *)
(* registry of books.  A handler is a record                               *)
(*   registry  the books                                                   *)
(*   stats     HandlerStats                                                *)
(*   tick      counts messages, so that the shutdown flag is only read at  *)
(*             every PollEvery-th of them                                  *)
(*   panicked  a callback has panicked, with the handler's mutex held      *)
(* Log records are left out.                                               *)
(***************************************************************************)
EXTENDS Registry, ItchParser

CONSTANTS
    PollEvery,         \* SHUTDOWN_POLL_MASK + 1
    SymbolsToWatch     \* symbols_to_watch, or {} for None

ASSUME PollEveryAssumption == PollEvery \in Nat \ {0}

HandlerStats ==
    {"orders_added", "orders_executed", "orders_cancelled", "orders_deleted",
     "orders_replaced", "stock_directory_msgs", "skipped_locate"}

NewHandler(kind) ==
    [registry |-> NewRegistry(kind), stats |-> [s \in HandlerStats |-> 0],
     tick |-> 0, panicked |-> FALSE]

Count(h, counter) == [h EXCEPT !.stats[counter] = @ + 1]

\* Mutant: the tick is never wrapped.
TickedPast(h) == [h EXCEPT !.tick = @ + 1]

\* tick is a u32 that wraps, and 2^32 is a multiple of the poll interval.
Ticked(h) == [h EXCEPT !.tick = (@ + 1) % PollEvery]

\* should_stop, after the tick.
ShouldStop(h, shutdown) == Ticked(h).tick = 0 /\ shutdown

-----------------------------------------------------------------------------
(* Messages that change the books.                                         *)

\* The book of a registered locate.
BookOf(h, locate) == h.registry.entries[locate].book

\* The callers of get_mut: a locate that is not registered is counted, a call
\* that succeeds is counted, an error is only logged.
WithBook(h, locate, called, counter) ==
    IF locate \notin Registered(h.registry) THEN Count(h, "skipped_locate")
    ELSE LET kept == [h EXCEPT !.registry = SetBook(@, locate, called.book)]
         IN IF called.ok THEN Count(kept, counter) ELSE kept

parse_side(indicator) == IF indicator = "Buy" THEN "Bid" ELSE "Ask"

apply_add_order(h, msg) ==
    LET indicator == BuySellIndicator(msg.buy_sell_indicator)
        book == BookOf(h, msg.stock_locate)
        order == [id |-> msg.order_reference_number,
                  side |-> parse_side(indicator),
                  price |-> msg.price, qty |-> msg.shares]
    IN WithBook(h, msg.stock_locate,
                IF indicator = "Unknown" THEN Failed(book) ELSE BookAdd(book, order),
                "orders_added")

Watched(symbol) == SymbolsToWatch = {} \/ symbol \in SymbolsToWatch

on_stock_directory(h, msg) ==
    LET counted == Count(h, "stock_directory_msgs")
    IN IF ~Watched(msg.stock) THEN counted
       ELSE IF RegisterPanics(h.registry, msg.stock_locate)
       THEN [counted EXCEPT !.registry = Resize(@, msg.stock_locate),
                            !.panicked = TRUE]
       ELSE [counted EXCEPT !.registry =
                Register(@, msg.stock_locate, msg.stock)]

\* on_order_executed and on_order_executed_with_price.
on_order_executed(h, msg) ==
    LET book == BookOf(h, msg.stock_locate)
    IN WithBook(h, msg.stock_locate,
                BookTake(book, msg.order_reference_number, msg.executed_shares),
                "orders_executed")

on_order_cancel(h, msg) ==
    LET book == BookOf(h, msg.stock_locate)
    IN WithBook(h, msg.stock_locate,
                BookTake(book, msg.order_reference_number, msg.cancelled_shares),
                "orders_cancelled")

on_order_delete(h, msg) ==
    LET book == BookOf(h, msg.stock_locate)
    IN WithBook(h, msg.stock_locate,
                BookDelete(book, msg.order_reference_number), "orders_deleted")

on_order_replace(h, msg) ==
    LET book == BookOf(h, msg.stock_locate)
    IN WithBook(h, msg.stock_locate,
                BookReplace(book, msg.original_order_reference_number,
                            msg.new_order_reference_number, msg.price, msg.shares),
                "orders_replaced")

HandledTypes == {StockDirectory, AddOrderNoMPIDAttribution,
             AddOrderWithMPIDAttribution, OrderExecuted,
             OrderExecutedWithPrice, OrderCancel, OrderDelete, OrderReplace}

\* The types that have a callback here; the others keep the default, which
\* does nothing and does not tick.
Handled(msg) == msg.tag \in {type.TAG : type \in HandledTypes}

Apply(h, msg) ==
    CASE msg.tag = StockDirectory.TAG -> on_stock_directory(h, msg)
      [] msg.tag \in {AddOrderNoMPIDAttribution.TAG,
                      AddOrderWithMPIDAttribution.TAG} -> apply_add_order(h, msg)
      [] msg.tag \in {OrderExecuted.TAG, OrderExecutedWithPrice.TAG} ->
            on_order_executed(h, msg)
      [] msg.tag = OrderCancel.TAG -> on_order_cancel(h, msg)
      [] msg.tag = OrderDelete.TAG -> on_order_delete(h, msg)
      [] msg.tag = OrderReplace.TAG -> on_order_replace(h, msg)
      [] OTHER -> h
=============================================================================
