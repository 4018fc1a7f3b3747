# hftrs: a TLA+ model

hftrs receives a NASDAQ ITCH 5.0 feed over MoldUDP64 and keeps an order book
per symbol. This directory models it in TLA+, from the bytes of an ITCH file to
the rows of the terminal UI, checks the models with TLC and proves the safety
properties of the order book, the MoldUDP64 server and feed, the replay from the
file to the books, the pipeline and the terminal UI with TLAPS.

## The system

| component | state | operations | interacts with |
|---|---|---|---|
| order book (`orderbook/src/book.rs`, `level.rs`) | bid and ask levels, id -> slot, pool | `add`, `execute`, `execute_at`, `cancel`, `delete`, `replace`; queries | called by the message handler |
| slot pool (`pool.rs`) | slots, free list | `alloc`, `free`, `get` | called by the book |
| registries (`registry/*.rs`) | locate -> symbol, book | `register`, `get_mut` | called by the message handler |
| MoldUDP64 server (`moldudp/src/server.rs`) | command queue, session, next number, log | handle methods, sender thread, re-request thread | replay calls it; network |
| MoldUDP64 client (`client.rs`) | expected session and number, data and re-request channels, buffer pool | receive loops, gap detection, sender threads | network; the receive loop consumes its channel |
| packets (`packet.rs`) | - | header, kind, message iterator | client, server, receive loop |
| ITCH 5.0 (`itch5/src`) | - | `parse_one`, `parse_stream`, message records | replay, receive loop |
| message handler and receive loop (`app/src/handler.rs`) | registry, statistics | one method per ITCH message; `run` | client's channel; shared mutex with the TUI |
| replay, pipeline (`replay.rs`, `pipeline.rs`) | file cursor, batch, shutdown flag, threads | `replay`, `run`, signal handler | all of the above |
| TUI, report, configuration | selection, filter, snapshots | keys, refresh, output | read the handler's books |

Hard behaviours and what correctness means there:

- *order book*: long mixes of operations over intrusive doubly linked lists,
  whose nodes live in recycled slots. Correct: each level's list is its queue
  of arrival, aggregates agree with it, no slot is shared, lost or panicked
  about, and replies are those of a plain price-time book.
- *server*: commands of several handles queued around a shutdown, a sender and
  a responder that share the log. Correct: the log is the stream handed over,
  packets say which messages they carry, the end of the session is announced.
- *client*: packets lost, duplicated, reordered; bounded channels that are only
  tried; requests that fail to send. Correct: no message is skipped silently,
  requests are exact, and gaps are eventually filled.
- *framing, handler, registries*: messages of wrong lengths, packets cut at
  random places, repeated and untracked locates. Correct: the books are those
  of the messages the file means, and the counters account for them.
- *receive loop, pipeline*: data applied as it arrives, the end of the session
  racing the last answers, five threads and one flag. Correct: what is missing
  at the end is known to be missing, the report is final, the program ends.
- *TUI*: cached lists indexed by positions that keys move between two frames,
  while symbols are registered. Correct: a frame shows the books as they are,
  and the selection stays on its symbol and on the screen.

`PROJECT.json` lists the hazards with their lines and the properties that watch
them.

## Modules

| module | what it is | code |
|---|---|---|
| `OrderTypes` | identifiers, orders, replies, what "arrived before" means | `types.rs`, `error.rs` |
| `Book` | the book as a value: pool, lists, levels; `AddOrder`, `Unlink`, `Decrement`, `Reduce`, queries | `book.rs`, `pool.rs`, `level.rs` |
| `BookInvariants` | the parts of a well-formed book, as local predicates | - |
| `PriceTimeBook` | abstract specification: resting orders and a priority relation | - |
| `OrderBook` | the book under any sequence of calls; properties; refinement mapping | `book.rs` |
| `MoldPackets` | headers, kinds of packets, chunking | `packet.rs`, `server.rs` |
| `MoldServer` | handles, command queue, sender and re-request threads | `server.rs` |
| `MoldClient` | gap detection, channels, sender threads | `client.rs` |
| `MoldFeed` | server and client over an unreliable network | both |
| `RestingBook` | the abstract book's calls as operators, sorting and depth, for many books at once | `book.rs` |
| `Registry` | both registries: locate -> symbol and book | `registry/vec.rs`, `hashmap.rs` |
| `ItchMessages` | layouts of the 23 ITCH types and the decoder of their fields | `itch5/src/messages.rs` |
| `ItchParser` | framing, `parse_one`, `cast`, message blocks and their iterator | `itch5/src/parse.rs`, `packet.rs`, `server.rs` |
| `Handler` | the message handler's callbacks and counters | `app/src/handler.rs` |
| `Replay` | file -> batches -> packets -> parser -> handler, over a perfect network | `replay.rs`, `handler.rs`, `parse.rs` |
| `Tui` | `App` beside a handler that changes | `tui/app.rs`, `tui/mod.rs`, `tui/ui.rs` |
| `Pipeline` | all threads over `MoldFeed` | `pipeline.rs`, `handler.rs`, `replay.rs` |
| `FoldProofs` | induction, sums over finite sets and recursion along the numbers, for the proofs | - |
| `BookProofs`, `OrderBookProofs`, `ServerProofs`, `FeedProofs`, `ReplayProofs`, `PipelineProofs`, `TuiProofs` | proofs about `Book`, `OrderBook`, `MoldServer`, `MoldFeed`, `Replay`, `Pipeline`, `Tui` | - |
| `MCOrderBook`, `MCMoldServer`, `MCMoldFeed`, `MCReplay`, `MCTui`, `MCPipeline` | instances for TLC | - |

`Handler` extends `Registry` and `ItchParser`; `Replay` and `Tui` extend
`Handler`. `Pipeline` extends `MoldFeed`, which joins `MoldServer` and
`MoldClient`.

### Order book

A book is one record: `levels` (side and price -> head, tail, total, count),
`orders` (id -> slot) and `pool` (slots, free list head). Slots are occupied,
with an order and the links `prev` and `next`, or free, with the next free slot,
as in the code. `NIL` stands for `u32::MAX` and bounds the pool. The book has
one owner (`&mut self`), so each call is one action; calls with unknown or
duplicate identifiers and excessive quantities are inputs like others. An
`Option` is a set of at most one element. Timestamps are stored by the code and
read by nothing in the book, so they are left out.

The history variable `ahead` says which order arrived before which at a level.
No action reads it.

### MoldUDP64

What was sent is kept in the sets `multicast`, `answers` and `requests`, and a
receive takes any member: packets may be lost, delayed, reordered and
duplicated. Since storing a batch and sending it happen in this order, and a
packet may stay under way for as long as one likes, they are one step.
Messages are numbered as they are handed over and otherwise opaque.

The history variables of the client are sequence numbers of the session it
follows: `live` (carried by a live packet), `asked` and `refused` (put into the
re-request channel, or not because it was full), `abandoned` (request given
up), `delivered` and `overrun` (put into the data channel, or not because it
was full). `low` is where the client began to follow. All of them start afresh
when the client resynchronises to another session, except the last two.

`U16Max` stands for `u16::MAX`, both the largest `msg_count` and the mark of an
end of session. It is 2 to 4 in the runs and always larger than a batch.

### Application

*Books.* `OrderBook` implements `PriceTimeBook` (proved), so the application's
modules use the abstract book: a map from identifier to order. `RestingBook`
has its calls as operators that return Ok or Err and the book left behind,
`replace` with the old order gone included.

*Bytes.* In `Replay` a file is a sequence of bytes and stays one through
`parse_one`, `build_packet`, the iterator and `parse_stream`. A body is decoded
by the layout of its type. The files of `MCReplay` are written from the values
of the fields by definitions of their own, each frame together with what it
says, so that `DispatchedExactly` compares two independent readings of the
format. Bytes that are no message (unknown type, wrong length, cut short) say
`NoMessage`. That each frame of these files says what its bytes mean is the
assumption `MeantAssumption`, which TLC evaluates.

*Handler.* A handler is a record: registry, counters, tick, and whether a
callback has panicked. A callback is an operator on it. The shutdown flag is
read at every `PollEvery`-th handled message (256 in the code). Panics in
`register` leave the Vecs resized, as in the code, and end the client thread.

*TUI.* `app` has the fields of `App` that outlive a frame; `refresh` is
composed of its four stages in the code's order. What a frame shows is the
operator `draw` of the refreshed `app` and the handler, so the properties speak
of the frame that could be drawn now, at every height, after any keys and
messages. Keys act on the cached lists of the last frame.

*Pipeline.* One variable for the place of each thread: `replay`, `loop`, `tui`,
`main`. Messages are opaque and `applied` lists the sequence numbers given to
the handler. A datagram is received at most once (`seen`), in any order, or
never. Parsing a packet is one step, since the mutex is held for it; a raised
flag may cut it short.

## Runs

Passing:

| run | shows | bounds |
|---|---|---|
| `order_book` | types, no panics, pool and free list, time priority, aggregates, queue positions, no leaked slot, top of book; refinement of `PriceTimeBook` | 3 ids, 2 prices, quantities 0..2, 3 slots: lists with a middle, recycled slots, both sides, a full pool |
| `mold_server` | `StreamIntact`, `PacketsTruthful`, `EndAnnounced` | 2 sessions, queue of 2, 3 messages in batches up to 2, 4 calls, a peer that asks for anything |
| `mold_gaps` | `NoSilentGap`, `AnswerableRequests` | 2 messages in batches up to 2, 3 calls, channels of 1, 1 retry, send failures |
| `mold_requests` | `RequestsKept` | 2 sessions, 2 sender threads, channel of 1, all failures, end of session, a request of the consumer's own |
| `mold_live` | `GapsClose`, `RequestsAnswered` | 1 message, 2 calls, channels of 1, send failures, shutdown |
| `replay` | `FramesKept`, `DispatchedExactly`, `BooksFollowFeed`, `StatsExplainBooks`, `PanicsExplained` | files of 3 to 5 frames: each type with the right length, one less and one more, every way to end a file, pairs of messages on one order, two books, repeated and unwatched directory entries; batches of 1 and 2; both registries of 3 entries; the flag polled at every second message |
| `tui` | `ScreenTruthful`, `SelectionVisible`, `SelectionSticks`, `LadderShowsTouch` | 4 symbols registered out of order, one locate given to another symbol, two locates with one symbol, a book with 4 levels; 5 terminal heights (no row to five rows), 10 keys, a filter of up to 2 characters |
| `pipeline` | `EndAccounted`, `ReportFinal`, `Terminates` | 2 messages, 1 heartbeat, channels and queue of 1, with and without the UI |

Capacities of 1 make "full" common. Batches and gaps of one and two messages
show the off-by-one cases; more messages add packets of the same kinds.
`MaxCalls`, `MaxMsgs` and `MaxAnswers` bound the environment, not the code.

One heartbeat in `pipeline` is enough to let the client follow the stream before
a packet is lost, or to reveal the loss of the last one; the answer, the
end-of-session packet and the timeout then race. Packets of several messages
are in `replay` and `mold_gaps`.

Deadlock checking is off for the MoldUDP64 runs: the environment may stop
calling, and a server whose handles are dropped stops. It is off for `replay`,
`tui` and `pipeline`, which end. It is on for the book.

The book's run uses `VIEW <<book, ahead>>`: no action reads `reply`, and TLC
checks types and refinement on each step it generates. Order identifiers are
only compared, so permuting them is a symmetry. The runs `mold_gaps` and
`mold_requests` use `GapView`, without the data channel, its histories and the
answers: no variable that is kept depends on them, and no property of those
runs but the type invariant reads them.

Violations, each a disagreement between a comment and the code (quoted in
`PROJECT.json`, "findings"):

| run | property | what happens |
|---|---|---|
| `mold_chunks` | `PacketsTruthful` | a batch cut into several packets sends all of them under one number |
| `mold_pinned` | `PinnedSession` | packets of another session are forwarded and followed |
| `mold_end` | `ExpectationReached` | an end-of-session packet moves the expectation by 65535 |
| `reordered` | `AppliedInOrder` | the receive loop applies packets in the order they arrive, although reordering is left to it |

Where the passing runs stop, because the code does, and what TLC reports
beyond (change the constants of the named configuration to see it):

- `mold_server` has batches that fit one packet (see `mold_chunks`);
- `mold_gaps` has gaps up to `U16Max`: of a wider one, only that much is asked
  for and the rest is forgotten (`U16Max = 2` with three messages dropped
  violates `NoSilentGap`);
- `mold_gaps` has no `end_of_session` before the last message (see `mold_end`);
- `mold_gaps` and `mold_live` have a client that was told where to start:
  without `expected_seq_num` the first packet received sets the beginning, and
  nothing before it is asked for, although `client.rs:105` promises the
  beginning of the session;
- `mold_live` has no `change_session`: the re-request thread compares requests
  with the session the server was started with, so after a change none of them
  is answered (`Operations` with `change_session` violates `RequestsAnswered`);
- `EndAccounted` is about messages after the first packet the client received
  (the pipeline sets no `expected_seq_num`), and accounts for a message that
  was asked for: its answer may come after the loop has ended;
- `BooksFollowFeed` starts a book afresh at its last directory message: both
  registries replace the book of a locate that is registered again;
- `PanicsExplained` allows locate `u16::MAX` with the Vecs, which have
  `u16::MAX` entries: `register` then resizes to `locate` entries and writes one
  past the end;
- `StatsExplainBooks` bounds the number of resting orders by the counters of
  calls that succeeded. Errors are logged one by one and not counted, although
  the repository's README says that each kind has a counter at the end;
- `LadderShowsTouch` needs two rows: a ladder of one row shows the best ask;
- `Terminates` starts from a raised flag when the UI runs. In filter mode Ctrl-C
  types a C and does not raise it;
- `GapsClose` lets a message be lost when a channel is full or a request is
  abandoned, since the code then logs and moves on.

Each property of a passing run has a mutant: a plausible bug in a mapped
definition ("Mutant" in the modules) that makes TLC report the property
violated.

## Fairness

- `SenderStep`, `Tick`: the sender thread loops on `recv_timeout`, which returns
  a queued command or times out. Weak fairness of `Tick` needs an empty queue to
  last, which it does because the calls are finite in number (`MaxCalls`): under
  an endless stream of commands the timer would never fire.
- the client's sender threads block on a channel and act on what they get;
  `Consume` likewise.
- network, in `FairFeedSpec` only: each heartbeat, end-of-session packet,
  request and answer is received at some time if it could be. Nothing is assumed
  of live data packets, which may all be lost. `GapsClose` needs this much:
  the client never repeats a request that was sent and lost.

- `Pipeline`: the replay thread, the sender thread, the receive loop, the UI and
  the main thread keep running. `ReceiveTimeout` is weakly fair: `recv_timeout`
  returns after 5 s without a datagram. That the datagrams come to an end is the
  code's doing, not an assumption: the server's sender thread exits with its
  last handle, which the replay thread drops. Nothing is assumed of the network,
  the user or signals, so `Terminates` covers the loss of every packet.

## Proofs

Every theorem is for all values of the constants that satisfy the named
assumptions of the modules (`...Assumption`): sets of identifiers, sessions and
threads of any size, channels, queues and logs of any length. A theorem that
needs more says so in its statement; those hypotheses are the boundaries listed
above under "Where the passing runs stop", where the code itself stops keeping
the property. The instances of the passing runs satisfy them.

### Order book

| theorem | states | rests on |
|---|---|---|
| `Invariance` | `[]IInv`, that is `TypeOK` and `BookInv` | `UnlinkInv`, `AddInv`, `DecrementInv` |
| `TypeCorrect`, `TimePriorityHolds`, `PoolConsistentHolds`, `PanicFreeHolds` | the properties of these names | `Invariance` |
| `LevelAggregatesHold`, `QueuePositionHolds` | totals, counts and queue positions are sums over the resting orders | `Invariance`, `LevelTotal`, `WalkSums` |
| `NoSlotLeakHolds` | every slot is live or on the free list's way | `NoLeakStep` |
| `TopOfBookHolds` | the quotes agree with the orders | `Invariance`, `QuotesTrue` |
| `Refinement` | `ImplementsPriceTime`, step by step | `Invariance` |

None of the properties is inductive alone. That a removal keeps time priority
needs the links of both neighbours to agree, that needs the slot map to be
injective, and that an allocation keeps the map injective needs the free list
to lead only to slots that are not live, and to each once. `BookInv` is the
conjunction of these parts. They are local, about a slot and its neighbours.
Instead of the sum over a level, `Summed` asserts a function from orders to the
quantity ahead of them that starts at 0, grows by each order's quantity, and
ends at `total_qty`. From it follows that no order holds more than its level's
total, hence no underflow.

`BookProofs` proves, for any book with `BookInv` and any priority relation, that
`Unlink`, `AddOrder` and `Decrement` keep it, through lemmas that state what
each operator does to slots and levels. `OrderBookProofs` lifts this to the
actions. `Add` is guarded by `HasRoom`, that the pool has not reached `NIL`: the
code has a debug assertion there.

The statements about whole lists follow from the local ones by induction along
the list. The library's induction theorems take an operator as a parameter,
which the provers cannot instantiate, so `FoldProofs` supplies its own means: a
set of natural numbers that is not empty has a least member (`LeastNatural`),
and a set of naturals that counts counterexamples is refuted by its least
member; a fold over a finite set exists as a function on its subsets
(`FoldExists`), and sums defined by it add up element by element (`SumByExists`,
`SumByValues`, `SumUnique`). `NoLeak`, that the chain of free slots leads to
each of them, is an invariant on top of `IInv`.

### MoldUDP64

`ServerInvariance` proves `ServerInv`: the log is the stream handed over up to
the commands still queued (`StreamIntact`, `QueueContinues`), batches have the
sizes the handles accept, and packets under way speak of numbers that were
reached (`PacketsReached`). `ChunksCutTheBatch` is the fact about
`chunk_messages` it needs. `StreamIntactHolds` has no hypothesis, and neither has
`PacketsFromLogHolds`: for any lengths and payload size, a packet carries
consecutive messages of the log from its number on, possibly some way behind it.

| theorem | hypotheses | why the code needs them |
|---|---|---|
| `ServerTypeCorrect`, `FeedTypeCorrect` | `MaxBatch =< U16Max` | `build_packet` refuses a larger count by panicking |
| `PacketsTruthfulHolds` | `MaxMsgs` messages of the longest kind fit a packet | the chunks of a batch, or of an answer, go out under one number (`mold_chunks`) |
| `RequestsKeptHolds` | none | - |
| `AnswerableRequestsHolds` | the client starts in the stream (`StartsInStream`); no requests of the consumer's own | both are numbers the caller chooses freely |
| `NoSilentGapHolds` | `StartsInStream`; fewer than `U16Max` messages; no `end_of_session` before the stream's end | wider gaps are cut (`U16Max`), and an end of session moves the expectation (`mold_end`) |

`NoSilentGap` is not inductive: it needs that the client's expectation is never
ahead of what the server has numbered (`NotAhead`), which a stray
end-of-session packet would break (`EndIsFinal`). With it, the messages between
the expectation and a packet's number fit one request. `AnswerableRequests` is
carried by `AllAnswerable`: every request in the channel, in a sender thread or
on the network is for messages of the log.

### Replay

| theorem | states | rests on |
|---|---|---|
| `FramesKeptHolds` | the iterator yields the frames of the file | `FramesInv` |
| `DispatchedExactlyHolds` | the handler is called with what the file means, in order | `DispatchInv` |
| `ReplayTypeCorrect`, `PanicsExplainedHolds` | types; no panic but the one in `VecRegistry::register` | `DispatchInv`, `HandlerInv` |
| `BooksFollowFeedHolds` | a book is what its messages since its last registration make | `FeedInv` |
| `StatsExplainBooksHold` | the counters account for the resting orders | `StatsInv` |

The theorems are for files of any number of frames of any bytes
(`FilesAssumption`) and for batches whose number is below the mark of an end of
session (`Countable`: `msg_count` is a `u16` and `u16::MAX` ends the session).
All but the first also suppose `FilesMeant`: each frame says what its bytes mean,
and only the last may be cut short. This does not restrict the bytes. Any
sequence of bytes is cut into such frames by its length prefixes, and what a
frame says is fixed by its bytes up to the fields that are left unsaid.

Each invariant adds one stage of the way from the file to the counters:

1. `FramesInv`: the bodies in the packets and in the batch, framed again and
   followed by the unread bytes, are the bytes of the file (`Kept`). From it, a
   frame that the loop reads is one of the file's, and `IteratedPacket` shows that
   the iterator undoes `build_packet`.
2. `DispatchInv`: the replay loop has read the first n frames and stands at the
   next (`ReadFrom`), each packet holds the frames its number and count say, and
   the receive loop has applied what the frames before its own position mean,
   skipping those that are no message (`AppliedUpTo`, `ParsingAt`).
   `DispatchedExactly` alone is not inductive: it says nothing of the rest of the
   packet that is being parsed, and of a frame that was read and not yet sent.
3. `HandlerInv`: the handler's type, and the length of the Vecs, which changes
   only in the callback that panics. It needs stage 2, since only messages of the
   23 layouts decode to numbers where the callbacks calculate (`MsgForm`), and
   since the message behind a panic is to be found in the file.
4. `FeedInv`: each locate is as its messages have left it (`Follows`). A step
   changes one locate, and `BookSinceNext` lets the abstract book grow with it.
5. `StatsInv`: the resting orders are a finite set that one call on a book
   enlarges or diminishes by at most one (`RestingWritten`), in step with the
   counters. That
   a second registration of a locate throws its orders away is why the upper
   bound is unconditional and the lower one is not.

`ParseTurn` is what makes the last three tractable: `ParseMessage` is cut down to
the few cases a turn of `parse_stream` may take, each of them with the callback
it calls, and `ApplyForm` says of every callback which locate, which counter and
which kind of change it is.

Sequences that are put end to end, layouts and books since a message are
recursive functions along `0 .. n`, since the provers have no induction over
sequences. `FoldProofs` has the means: induction up to a number
(`InductionUpTo`), that such a function exists (`RunExists`) and that two which
start and go on alike are alike (`SameRun`).

### Pipeline

`PipelineInvariance` proves `PipelineInv`, the invariant of the feed together
with how the threads stand to each other (`ReplayInStep`, `LoopInStep`,
`MainInStep`). `ReportFinalHolds` and `PipelineTypeCorrect` follow without
further hypotheses: whatever ends the pipeline, the report is made after the
receive loop was joined. `EndAccountedHolds` has the hypotheses of
`NoSilentGapHolds`, less the one about `end_of_session`: here the replay thread
is the only caller, so the end announced is the end (`EndIsLast`), and everything
the client has taken off the network is on its way to the receive loop
(`OnTheWay`).

### Terminal UI

| theorem | states | rests on |
|---|---|---|
| `TuiInvariance` | `[]TuiInv` | `ApplyFollows`, `RefreshFacts`, `KeysNormal`, `KeysFilter` |
| `TuiTypeCorrect` | every index into the cached lists is inside them | `TuiInvariance` |
| `ScreenTruthfulHolds` | a frame is a window of the matching symbols, with the numbers of now | `TuiInvariance`, `RefreshFacts`, `ListedInOrder` |
| `SelectionVisibleHolds` | the selected symbol's row is on the screen and highlighted | `TuiInvariance`, `RefreshFacts`, `ListShows` |
| `SelectionSticksHolds` | a frame leaves the selection on its locate while that is listed | `TuiInvariance`, `RefreshFacts` |
| `LadderShowsTouchHolds` | the ladder shows both touch prices | `TuiInvariance`, `TouchShown` |

The theorems are for all keys and heights (`TuiAssumption`), and for any finite
feed of any number of messages, whose symbols have eight bytes and whose locates
and prices are natural numbers (`FeedsAssumption`, what the layouts guarantee).

The frame that could be drawn now depends on caches of any age, so the invariant
says how a cache tells its age (`Cached`): the table of symbols is the registry's
if the count of directory messages has not moved since, and the filtered list is
that of `last_filter` over the table as cached. For a message to keep this, a
callback that changes the table must move the count, and no other may
(`Follows`); that is proved of every callback, of `register` when it panics too.
Besides, the selection is a position of the filtered list, the window starts
inside it, and every cached locate still has its book.

Lists are sorted by rank (`Sorted`): the n-th member is the one with n - 1
members before it. The provers have no definition of the standard modules'
`SortSeq` and `SelectSeq`, so `RestingBook` and `Tui` do without them. `Ranks` and `SortedList`
prove that, for any strict order on a finite set, `Sorted` lists each member once
and in order, and `SortedUnique` that nothing else does. That the ladder keeps
both touch prices is then counting: at most `k` asks come before the best bid,
where `k` is the depth per side, half the rows rounded up, and less than the rows
when there are two.

### Only model-checked

Liveness (`EndAnnounced`, `GapsClose`, `RequestsAnswered`, `Terminates`), which is
out of the provers' reach, and the violations. Every other property of a passing
run is stated by a theorem.

## Not modelled

- Sockets, logging and tracing, with the conversions only log records use.
- The receive buffer pool: which buffer holds a datagram is visible to nobody,
  and its return is Rust's ownership. The io_uring loops: kernel I/O around the
  `process_*` functions, which are modelled.
- The report's formats and snapshot, the configuration's parsing, the UI's
  styles, columns and colours: pure output and input.
- The enumerations of one-byte ITCH codes that no component reads.
- Datagrams shorter than a header, the overflow of sequence numbers at 2^64. A
  chunk of more than `u16::MAX` messages, which `build_packet` refuses by
  panicking, is outside the bounds. The consumer that drops its end of the data
  channel is one that never consumes again.
- In `Pipeline`, sockets that fail, threads that panic (`join` then panics in the
  main thread), a UI that returns an error. Client threads after the receive
  loop has ended: nothing reads what they forward.
- In `Tui`, key releases, which are ignored, and characters outside ASCII.
- The request for a truncated packet in the receive loop: `Messages::len` is
  computed from `msg_count`, so the two numbers that are compared never differ.

## Plan

Every safety property of the passing runs is proved. What would add most now:

1. The handler of `Replay` under the packets of `Pipeline`: losses and
   reordering, where the books no longer are those of the whole feed.
2. A step-by-step argument for the liveness properties, once ENABLED and
   fairness can be reasoned about in the provers.
