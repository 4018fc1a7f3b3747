--------------------------------- MODULE Tui ---------------------------------
(***************************************************************************)
(* The terminal UI (app/src/tui/app.rs, mod.rs, ui.rs) beside a message    *)
(* handler that keeps changing.  Every 100 ms the event loop refreshes the *)
(* state of App from the handler, under the handler's mutex, and draws it; *)
(* in between, keys act on the state of the last refresh while messages    *)
(* change the books.                                                       *)
(*                                                                         *)
(* `app' holds the fields of App that outlive a frame.  What a frame draws *)
(* (the fields visible_rows, depth and viewport of App, which refresh      *)
(* overwrites and only the renderer reads, after the renderer has made the *)
(* highlighted row, the titles and the ladder of them) is a function of    *)
(* the refreshed app and the handler: draw.  Positions in `filtered' count *)
(* from zero, as in the code.                                              *)
(***************************************************************************)
EXTENDS Handler

CONSTANTS
    Feeds,       \* sequences of messages the handler may be given
    Keys,        \* the keys the user may press
    Heights,     \* the heights the terminal may have
    MaxFilter,   \* bound on the length of the filter
    None

ASSUME TuiAssumption ==
    /\ Heights \subseteq Nat /\ MaxFilter \in Nat
    /\ \A key \in Keys : key.char \in Nat
    /\ None \notin Nat

\* What a feed may bring: any messages, with symbols of eight bytes, locates
\* and prices as the layouts have them.
StockSymbol == [1 .. 8 -> 0 .. 255]

WellFormed(msg) ==
    /\ msg.tag = StockDirectory.TAG =>
          msg.stock_locate \in Nat /\ msg.stock \in StockSymbol
    /\ msg.tag \in {AddOrderNoMPIDAttribution.TAG, AddOrderWithMPIDAttribution.TAG,
                    OrderReplace.TAG} => msg.price \in Nat

ASSUME FeedsAssumption ==
    Feeds \subseteq Seq({msg \in UNION {ToSet(f) : f \in Feeds} : WellFormed(msg)})

VARIABLES
    feed,        \* the messages still to come
    handler,     \* the shared message handler
    app,         \* the state of App
    running      \* the event loop has not ended

vars == <<feed, handler, app, running>>

-----------------------------------------------------------------------------
(* Symbols.                                                                *)

\* to_u64 compares as the bytes do, first to last.
Before(s, t) ==
    \E n \in DOMAIN s : /\ s[n] < t[n]
                        /\ \A k \in 1 .. n - 1 : s[k] = t[k]

\* as_str().trim_end(), of a symbol in ASCII.
TrimEnd(symbol) ==
    SubSeq(symbol, 1, Max({0} \cup {n \in DOMAIN symbol : symbol[n] # 32}))

Matches(symbol, filter) == IsPrefix(filter, TrimEnd(symbol))

\* The sort is stable and the registry, a VecRegistry, goes by locate.
EntryBefore(e, f) ==
    \/ Before(e.symbol, f.symbol)
    \/ e.symbol = f.symbol /\ e.locate < f.locate

\* sort_by_key, of a set of entries.
SortEntries(S) == Sorted(S, {ef \in S \X S : EntryBefore(ef[1], ef[2])})

\* Positions in the order in which an iterator meets them.
Ascending(S) == Sorted(S, {mn \in S \X S : mn[1] < mn[2]})

-----------------------------------------------------------------------------
(* App::refresh.                                                           *)

NewApp ==
    [symbols |-> <<>>, filtered |-> <<>>, selected |-> None, offset |-> 0,
     filter |-> <<>>, mode |-> "Normal", selected_locate |-> None,
     last_directory_msgs |-> 0, last_filter |-> None]

viewport_for(height) ==
    LET body == Max({0, height - 6})
    IN [list_height |-> Max({0, body - 2}), ladder_rows |-> Max({0, body - 4})]

\* Mutant: the index is only rebuilt for a new filter.
RefreshListsOldIndex(a, h) ==
    LET changed == h.stats.stock_directory_msgs # a.last_directory_msgs
        symbols == IF changed
                   THEN SortEntries({[locate |-> e.locate, symbol |-> e.symbol] :
                                        e \in Entries(h.registry)})
                   ELSE a.symbols
        hits == {n \in DOMAIN symbols : Matches(symbols[n].symbol, a.filter)}
    IN [a EXCEPT !.symbols = symbols,
                 !.filtered = IF a.last_filter = a.filter THEN @
                              ELSE Ascending(hits),
                 !.last_directory_msgs = h.stats.stock_directory_msgs,
                 !.last_filter = a.filter]

\* The symbol table is rebuilt when directory messages have arrived, the index
\* of matching symbols when the table or the filter has changed.
RefreshLists(a, h) ==
    LET changed == h.stats.stock_directory_msgs # a.last_directory_msgs
        symbols == IF changed
                   THEN SortEntries({[locate |-> e.locate, symbol |-> e.symbol] :
                                        e \in Entries(h.registry)})
                   ELSE a.symbols
        hits == {n \in DOMAIN symbols : Matches(symbols[n].symbol, a.filter)}
    IN [a EXCEPT !.symbols = symbols,
                 !.filtered = IF ~changed /\ a.last_filter = a.filter THEN @
                              ELSE Ascending(hits),
                 !.last_directory_msgs = h.stats.stock_directory_msgs,
                 !.last_filter = a.filter]

\* The entry at a position of the filtered list.
SymbolAt(a, position) == a.symbols[a.filtered[position + 1]]

\* Mutant: the highlighted row stays where it was, whatever is there now.
ReconcileByPosition(a) ==
    LET total == Len(a.filtered)
        selected == IF total = 0 THEN None
                    ELSE IF a.selected = None THEN 0
                    ELSE Min({a.selected, total - 1})
    IN [a EXCEPT !.selected = selected,
                 !.offset = IF selected = None THEN 0 ELSE @,
                 !.selected_locate = IF selected = None THEN None
                                     ELSE SymbolAt(a, selected).locate]

\* The selected locate keeps its row, wherever that is now, else the first row
\* is selected.  ListState::select(None) also resets the offset.
Reconcile(a) ==
    LET same == {p \in 0 .. Len(a.filtered) - 1 :
                    SymbolAt(a, p).locate = a.selected_locate}
        selected == IF same # {} THEN Min(same)
                    ELSE IF a.filtered = <<>> THEN None ELSE 0
    IN [a EXCEPT !.selected = selected,
                 !.offset = IF selected = None THEN 0 ELSE @,
                 !.selected_locate = IF selected = None THEN None
                                     ELSE SymbolAt(a, selected).locate]

\* Mutant: a selection just below the window does not scroll it.
ScrollLate(a, height) ==
    LET into == IF a.selected = None THEN a.offset
                ELSE IF a.selected < a.offset THEN a.selected
                ELSE IF height > 0 /\ a.selected > a.offset + height
                THEN a.selected + 1 - height
                ELSE a.offset
    IN [a EXCEPT !.offset = Min({into, Max({0, Len(a.filtered) - height})})]

\* The window follows the selection and does not leave rows empty.
Scroll(a, height) ==
    LET into == IF a.selected = None THEN a.offset
                ELSE IF a.selected < a.offset THEN a.selected
                ELSE IF height > 0 /\ a.selected >= a.offset + height
                THEN a.selected + 1 - height
                ELSE a.offset
    IN [a EXCEPT !.offset = Min({into, Max({0, Len(a.filtered) - height})})]

refresh(a, viewport, h) ==
    Scroll(Reconcile(RefreshLists(a, h)), viewport.list_height)

-----------------------------------------------------------------------------
(* What refresh materialises and draw shows.                               *)

\* A locate of the table always has a book: entries are never removed.
VisibleRow(entry, h) ==
    LET book == h.registry.entries[entry.locate].book
    IN [symbol |-> entry.symbol, top |-> Depth(book, 1),
        orders |-> Cardinality(DOMAIN book)]

visible_rows(a, height, h) ==
    [n \in 1 .. Min({Len(a.filtered) - a.offset, height}) |->
        VisibleRow(SymbolAt(a, a.offset + n - 1), h)]

\* Mutant: as many levels of each side as the ladder has rows.
LadderDepthWhole(a, ladder_rows, h) ==
    IF a.selected_locate = None \/ ladder_rows = 0
    THEN [bids |-> <<>>, asks |-> <<>>]
    ELSE Depth(h.registry.entries[a.selected_locate].book, ladder_rows)

\* The levels the ladder may show: half of its rows for each side, rounded up.
ladder_depth(a, ladder_rows, h) ==
    IF a.selected_locate = None \/ ladder_rows = 0
    THEN [bids |-> <<>>, asks |-> <<>>]
    ELSE Depth(h.registry.entries[a.selected_locate].book,
               (ladder_rows + 1) \div 2)

LevelAt(levels, price) ==
    {level.qty : level \in {x \in ToSet(levels) : x.price = price}}

\* One row for each price, from the highest down; a quantity that is not there
\* is the empty set.
build_ladder(depth, max_rows) ==
    LET prices == {level.price : level \in ToSet(depth.bids) \cup ToSet(depth.asks)}
        Row(p) == [price |-> p, bid |-> LevelAt(depth.bids, p),
                   ask |-> LevelAt(depth.asks, p)]
    IN Take(HighToLow({Row(p) : p \in prices}), max_rows)

\* The list with its count and highlighted row (checked_sub of the offset), the
\* depth panel with its title.
draw(a, viewport, h) ==
    [viewport |-> viewport,
     count |-> Len(a.filtered),
     rows |-> visible_rows(a, viewport.list_height, h),
     highlighted |-> IF a.selected = None \/ a.selected < a.offset THEN None
                     ELSE a.selected - a.offset,
     depth_of |-> IF a.selected = None THEN None
                  ELSE SymbolAt(a, a.selected).symbol,
     ladder |-> build_ladder(ladder_depth(a, viewport.ladder_rows, h),
                             viewport.ladder_rows)]

-----------------------------------------------------------------------------
(* Keys.  KeyCode::Char has the character's code; `ctrl' is the modifier.  *)

Char(char) == [code |-> "Char", char |-> char, ctrl |-> FALSE]
Ctrl(char) == [code |-> "Char", char |-> char, ctrl |-> TRUE]
Named(code) == [code |-> code, char |-> 0, ctrl |-> FALSE]

to_uppercase(char) == IF char \in 97 .. 122 THEN char - 32 ELSE char

\* Mutant: the position is not looked up in the list.
MoveToUnchecked(a, position) == [a EXCEPT !.selected = position]

move_to(a, position) ==
    IF position \in 0 .. Len(a.filtered) - 1
    THEN [a EXCEPT !.selected = position,
                   !.selected_locate = SymbolAt(a, position).locate]
    ELSE a

move_selection(a, delta) ==
    LET cur == IF a.selected = None THEN 0 ELSE a.selected
    IN IF a.filtered = <<>> THEN a
       ELSE move_to(a, Max({0, Min({cur + delta, Len(a.filtered) - 1})}))

\* q, Esc and Ctrl-C; in filter mode no key quits.
Quits(a, key) ==
    /\ a.mode = "Normal"
    /\ key.char = 113 \/ key.code = "Esc" \/ key = Ctrl(99)

\* Ctrl is only looked at together with 'c'.
handle_key_normal(a, key) ==
    LET Is(char, code) == key.char = char \/ key.code = code
    IN CASE key.char = 47 -> [a EXCEPT !.mode = "Filter"]
         [] Is(106, "Down") -> move_selection(a, 1)
         [] Is(107, "Up") -> move_selection(a, -1)
         [] key.code = "PageDown" -> move_selection(a, 10)
         [] key.code = "PageUp" -> move_selection(a, -10)
         [] Is(103, "Home") -> move_to(a, 0)
         [] Is(71, "End") -> move_to(a, Len(a.filtered) - 1)
         [] OTHER -> a

handle_key_filter(a, key) ==
    CASE key.code = "Esc" -> [a EXCEPT !.filter = <<>>, !.mode = "Normal"]
      [] key.code = "Enter" -> [a EXCEPT !.mode = "Normal"]
      [] key.code = "Backspace" ->
            [a EXCEPT !.filter = IF @ = <<>> THEN @ ELSE Front(@)]
      [] key.code = "Char" ->
            [a EXCEPT !.filter = Append(@, to_uppercase(key.char))]
      [] OTHER -> a

-----------------------------------------------------------------------------
(* The event loop beside the receive loop.                                 *)

Init ==
    /\ feed \in Feeds
    /\ handler = NewHandler("vec")
    /\ app = NewApp
    /\ running = TRUE

\* The receive loop holds the mutex for a packet, here of one message.  (What
\* it does after the UI has ended is in Pipeline.)
HandleMessage ==
    /\ running /\ feed # <<>>
    /\ handler' = Apply(Ticked(handler), Head(feed))
    /\ feed' = Tail(feed)
    /\ UNCHANGED <<app, running>>

\* A frame on a terminal that may have been resized; drawing changes nothing.
Frame(height) ==
    /\ running
    /\ app' = refresh(app, viewport_for(height), handler)
    /\ UNCHANGED <<feed, handler, running>>

PressKey(key) ==
    /\ running /\ ~Quits(app, key)
    /\ app' = IF app.mode = "Normal" THEN handle_key_normal(app, key)
              ELSE handle_key_filter(app, key)
    /\ Len(app'.filter) <= MaxFilter
    /\ UNCHANGED <<feed, handler, running>>

\* The user quits: the loop ends.  (Pipeline has what follows.)
QuitKey(key) ==
    /\ running /\ Quits(app, key)
    /\ running' = FALSE
    /\ UNCHANGED <<feed, handler, app>>

Next ==
    \/ HandleMessage
    \/ \E height \in Heights : Frame(height)
    \/ \E key \in Keys : PressKey(key) \/ QuitKey(key)

Spec == Init /\ [][Next]_vars

-----------------------------------------------------------------------------
(* Properties.  Those about a frame say of every reachable state what a    *)
(* frame drawn now, on a terminal of any height, would show.               *)

\* Every index into the cached lists is inside them, also between two frames:
\* the code indexes them without a check.
TuiTypeOK ==
    /\ \A n \in DOMAIN app.filtered : app.filtered[n] \in DOMAIN app.symbols
    /\ app.selected \in {None} \cup 0 .. Len(app.filtered) - 1
    /\ app.offset \in 0 .. Len(app.filtered)
    /\ app.mode \in {"Normal", "Filter"}
    /\ Len(app.filter) <= MaxFilter
    /\ \A n \in DOMAIN app.symbols :
          app.symbols[n].locate \in Registered(handler.registry)
    /\ running \in BOOLEAN

Refreshed(height) == refresh(app, viewport_for(height), handler)
Screen(height) == draw(Refreshed(height), viewport_for(height), handler)

\* What the list has to show now: the registered symbols that match.
Listed == {e \in Entries(handler.registry) : Matches(e.symbol, app.filter)}

RowOf(e) == [symbol |-> e.symbol, top |-> Depth(e.book, 1),
             orders |-> Cardinality(DOMAIN e.book)]

\* A frame shows the books as they are: a window of the matching symbols in
\* order and without holes, as large as the list is high, each with its
\* current best prices and number of orders, whichever directory and order
\* messages came since the caches were built.
ScreenTruthful ==
    LET sorted == SortEntries(Listed)
        rows == [n \in DOMAIN sorted |-> RowOf(sorted[n])]
    IN \A height \in Heights :
        LET screen == Screen(height)
        IN /\ screen.count = Len(rows)
           /\ Len(screen.rows) = Min({screen.viewport.list_height, Len(rows)})
           /\ \E skip \in 0 .. Len(rows) :
                screen.rows = SubSeq(rows, skip + 1, skip + Len(screen.rows))

\* A frame with room for a row highlights the selected symbol's row, and the
\* depth panel is that symbol's.
SelectionVisible ==
    \A height \in Heights :
        LET screen == Screen(height)
            locate == Refreshed(height).selected_locate
        IN Listed # {} /\ screen.viewport.list_height > 0 =>
            /\ locate \in Registered(handler.registry)
            /\ screen.highlighted \in 0 .. Len(screen.rows) - 1
            /\ screen.rows[screen.highlighted + 1] =
                  RowOf(handler.registry.entries[locate])
            /\ screen.depth_of = handler.registry.entries[locate].symbol

\* A frame leaves the selection on the same locate, however many symbols were
\* registered before it in the list and whichever keys were pressed, unless
\* that locate does not match the filter.
SelectionSticks ==
    \A height \in Heights :
        Refreshed(height).selected_locate # app.selected_locate =>
            app.selected_locate \notin {e.locate : e \in Listed}

\* Of a book that is not crossed, a ladder of two rows or more shows the best
\* bid and the best ask, although it cuts the merged levels to its height.
LadderShowsTouch ==
    \A height \in Heights :
        LET screen == Screen(height)
            locate == Refreshed(height).selected_locate
            top == Depth(handler.registry.entries[locate].book, 1)
            Rows(price) ==
                {screen.ladder[n] : n \in {k \in DOMAIN screen.ladder :
                                              screen.ladder[k].price = price}}
        IN /\ Len(screen.ladder) <= screen.viewport.ladder_rows
           /\ (/\ screen.viewport.ladder_rows >= 2 /\ locate # None
               /\ top.bids # <<>> /\ top.asks # <<>>
               /\ top.bids[1].price < top.asks[1].price)
              => /\ \E row \in Rows(top.bids[1].price) : row.bid = {top.bids[1].qty}
                 /\ \E row \in Rows(top.asks[1].price) : row.ask = {top.asks[1].qty}
=============================================================================
