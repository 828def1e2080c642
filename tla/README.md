# A TLA+ model of the NYSE Pillar market-data engine

This directory models the program in `src/` in TLA+, checks the models with TLC on
small instances and proves the facts that matter most with TLAPS for all instances.
Paths below are relative to the repository (`src/src/engine.cpp` is the file
`src/engine.cpp` of the repository, and so on).

## 1. The system

The engine reads a TAQ file of one channel (CSV, one message per line), decodes each line
into a public message, and hands the messages to a user's callback on another thread.
A callback typically feeds a model: an order book or a trade ledger.

```
 owner thread ── constructs / Join() / ~Engine ─┐
                                                ▼
 file ─▶ Ingest thread: ParseNext(line) ─▶ MessageQueue ─▶ Egress thread: callback(message)
            │ RecordSequence (gaps)          mutex, cv,            │
            │ RecordParseResult              stop token            ▼
            ▼                                            OrderBook::OnMessage / TradeLedger
       counters read by GetSuccess, GetTotal, GetEgressCount, GetIntegrityMetrics
```

| Component | State | Operations | What makes it correct |
|---|---|---|---|
| `MessageQueue` (`include/queue.hpp`) | `_queue`, `_closed`, a condition variable, the consumers' stop tokens | `Push`, `WaitPop`, `Close` (and `request_stop` from outside) | FIFO hand-off, no lost wakeup, every loop ends once the queue is closed or its token signalled |
| `Engine` (`include/engine.hpp`, `src/engine.cpp`) | two threads, the queue, the parser, three atomic counters | two constructors, `Join`, destructor, both ingest loops, the egress loop | an ordered replay of the source; `Join` means drained; teardown ends in every interleaving, and leaves nobody inside |
| `schema::Parser`, `schema::nyse::Parser` (`include/schema/parse.hpp`, `include/schema/nyse/parse.hpp`) | `IntegrityMetrics`, `_msgTypeCounts` | `ParseNext`, `RecordSequence`, `Emit` | what is reported lost is what was skipped, whatever repeats, goes back or fails to decode |
| CSV decoding (`include/schema/nyse/csv.hpp`) | a cache of comma positions per line | `GetField`, `PopulateField`, the constructors of `DEFINE_STRUCT` | a field is what splitting the line would give; a structure reads consecutive fields |
| Wire layouts (`include/schema/nyse/nyse_types.hpp`, `reference_types.hpp`) and public messages (`include/message.hpp`) | none | the structures of the lines, what of them is handed on | a line is handed on whole or not at all, every field from its own place |
| `model::OrderBook` (`src/model/order_book.cpp`) | per symbol: live orders, price levels, trade log and its two indices, statistics, halt state, last reference messages; two failure counters | fourteen message handlers, `GetTopOfBook`, `GetDailyStats`, ... | the incremental levels and statistics are those recomputed from the live orders and trades |
| `model::TradeLedger` (`src/model/trade_ledger.cpp`) | per symbol: trade log, index by id, statistics; a failure counter | `RecordTrade`, `CancelTrade`, `AdjustVolume`, `ReplaceTrade` | the statistics are those of the trades not cancelled |
| `examples/bbo-validation` | per symbol: the last real quote, an order book, a frozen top of book | `LoadLastQuote`, the callback that freezes, the comparison | the frozen book is the one as of the quote; a feed that agrees with its quotes validates |
| `examples/stock-summary` | per symbol: the summary record, a ledger | `LoadStockSummary`, `LoadTrades`, the comparison | the ledger is what the file's trades, cancels and corrections mean |

How they interact: the owner, Ingest and Egress share the queue and nothing else that is
not an atomic counter (the parser's metrics are the exception: Ingest writes them, anybody
may read them; see the hazards). The models (`OrderBook`, `TradeLedger`) are sequential:
one thread, the callback's, calls them.

What is hard here: notifications issued after the mutex is released; two ways for a
consumer to leave (closed, stopped) that race with messages still queued; teardown in a
fixed order while the other threads are anywhere; a constructor that fails with one thread
started; derived state (levels, statistics, losses) kept by increments beside the state it
is derived from, under message sequences that lose, repeat and reorder; unsigned arithmetic
at its limits. `PROJECT.json` lists each hazard at its line with the properties about it.

## 2. The modules

| Module | Models | Extends / composes |
|---|---|---|
| `HandoffQueue` | what a queue between threads promises: a FIFO hand-off | abstract specification |
| `MessageQueue` | `include/queue.hpp` | implements `HandoffQueue` |
| `MessageQueueProofs` | theorems about `MessageQueue`, for any threads and messages | |
| `Replay` | what an engine promises its user | abstract specification |
| `Engine` | `src/engine.cpp` | an instance of `MessageQueue`; implements `Replay` |
| `EngineProofs` | theorems about `Engine`, for a source of any length | |
| `NyseParser` | `RecordSequence` and `ParseNext` over a sequence of lines | |
| `NyseParserProofs` | theorems about `NyseParser` | |
| `CsvReader` | `include/schema/nyse/csv.hpp` | |
| `NyseTypes` | the layouts of `nyse_types.hpp` and `reference_types.hpp`, the fields of `message.hpp` | |
| `LineDecoder` | `ParseNext` for one line, and the loaders of the examples | extends `CsvReader` and `NyseTypes` |
| `LineDecoderProofs` | theorems about `LineDecoder` and the reader in it, for any lines and layouts | |
| `Maps` | `std::map`, `std::unordered_map` as functions | |
| `DailyStats` | the fold of trades into OHLCV, and what it should be | used by both ledgers |
| `RestingBook` | the displayed half of `OrderBook` | |
| `RestingBookProofs` | theorems about `RestingBook` | |
| `TradeLedger` | `src/model/trade_ledger.cpp` | |
| `TradeLedgerProofs` | theorems about `TradeLedger` | |
| `OrderBook` | `src/model/order_book.cpp`, all of it | an instance of `RestingBook`; its tape implements `TradeLedger` |
| `OrderBookProofs` | both halves of `OrderBook` implement those two modules, and what follows from it | uses `RestingBookProofs` and `TradeLedgerProofs` |
| `BboValidation` | `examples/bbo-validation/main.cpp` | an instance of `RestingBook` |
| `StockSummary` | `examples/stock-summary/main.cpp` | an instance of `TradeLedger` |
| `Examples` | the two programs of `examples/`, one or the other | extends `BboValidation`, an instance of `StockSummary` |
| `ExamplesProofs` | theorems about the two programs and `Examples` | uses `RestingBookProofs` and `TradeLedgerProofs` |
| `MC...` | instances for TLC: model values, lines, symmetry | |

### MessageQueue

One step is what is done under `_mutex`. `_cv.notify_one()` and `_cv.notify_all()` come
after the unlock and are steps of their own: `signal[t]` is the notification thread `t`
still owes, and until it is issued `t` does nothing else. `request_stop` is the standard
library's; what matters of it is that the wait's stop callback calls `notify_all` if a wait
is registered, and a consumer that is up may or may not be (`RequestStop` allows both).
`WaitPop` is `Take`, `ReturnNull` or `Sleep`, by the predicate, the token and the emptiness
of the queue, in the order in which the code tests them; `WakeSpuriously` is the condition
variable's right. A consumer calls `WaitPop` again after each message, as `EgressLoop` does,
and never after a `std::nullopt`. `pushed` and `popped` are histories. The queue's `Size`
changes nothing.

### Engine

The program counters of the owner (`mainPc`), Ingest (`ingestPc`) and Egress (`egressPc`),
and an instance `Q` of `MessageQueue` whose two pushing threads are the owner and Ingest.
An action of a thread that pushes, closes or stops is the queue's action with the thread's
move; the thread's next action waits until the queue's notification has been issued
(`Returned`). A message is the number of its line, and what `ParseNext` returns for every
line (`lines`) is any function, chosen in the initial state. The two atomic counters of
`RecordParseResult` are separate steps. The two constructors and ingest loops differ in that
only a file may fail to open (`OpenFails`). `SpawnIngestFails` is the failure of the second
`std::jthread`: the first is stopped and joined by its own destructor, and `~Engine` does
not run. After `~Engine` the members are destroyed in reverse order: Ingest is joined
before Egress. `request_stop` is repeated there without effect and is not a step.

### NyseParser

A line has a type, a sequence number and a body; the header or the body may fail to decode,
and every choice is free: the channel may lose, repeat and reorder lines in any way. The
four branches of `RecordSequence` are `Duplicate`, `BackwardsJump`, `Gap` and `InOrder`,
with 64-bit arithmetic modulo `SeqLimit`. `ParseNext` is one of `HeaderFails`,
`UnknownMsgType`, `BodyFails` and `Emit`, in the code's order: the sequence number is
recorded before the type is looked at and before the body is decoded. `raising` (the
numbers that raised the mark), `seen`, `lines` and `headerFailures` are histories. What a
line is made of and what of it is emitted is `LineDecoder`'s.

### CsvReader

The state is a `CSVReader` (the line, `commaPositions`, `exhausted`) and what its caller is
doing with it: looking at a field (`GetField`) or building a structure. A constructor
generated by `DEFINE_STRUCT` populates one member per step; a member that is itself a
structure pushes a frame on `frames`, as its constructor is called at the offset reached
(`PopulateStruct`), and its parent goes on `FieldCount` fields later. A `CSVReader::Error`
unwinds all of them (`Throw`). The reader may be used again afterwards, for any other
structure or field, which `ParseNext` does: the body is read with the reader that has read
the header, from the first field on.

A line is a sequence of pieces: a comma, a letter, or a text that is read as one, a number
or a time. The formats (`std::from_chars`, the fixed shape of `parse_source_time`) are
abstracted to the kind of piece; a number is a sequence of numerals, and two of them in a
row no longer fit in a byte, so that a field too large for its type is among the lines.
`Converts` says per type which texts are read, `Fault` with which error the others are
refused; an optional field may be empty. `Nesting` is no part of the program: it is a number
per structure that is smaller for each structure within it, and there is one because a C++
structure has only members whose type is complete. `Split` is the reference: the line cut at every
comma with no cache.

### NyseTypes and LineDecoder

`NyseTypes` has the layout of every structure, member by member in the order of the wire,
the type of every field, and for every public message the fields it carries. `LineDecoder`
is one line's way through its caller. `ParseNext` builds the header (`ReadHeader`), records
the sequence number, looks the type up (`UnknownType`) and builds the structure of that
type, the header once more included (`ReadBody`); an error of either ends the line
(`DecodeFails`). The three loaders look at field 0 (`LookAtType`), pass over the types they
do not know (`SkipOtherType`) and the records that do not decode (`SkipBadRecord`), and
`LoadLastQuote` also over a quote whose two prices are read as 0, the last record of every
symbol (`SkipClosingQuote`; `Zeros` are the pieces of a line that are read as 0).
`EmitMessage` and `StoreRecord` take `PublicFields` or `TakenFields` out of the structure
(`HandOn`); two fields have another name on the wire, and the printable flag becomes a
`bool`. The caller `anyone` uses a reader in any order at all. `ParseError::unknown` is not
among the outcomes: it stands for an exception that is none of the reader's, which is
memory or the logger failing.

### RestingBook and OrderBook

`RestingBook` is the half of `OrderBook` about displayed orders: `orders`, `levels` and
`bookBuildFailures`, with one action per handler and `AddLevel`/`RemoveLevel` as in the
code, including that `RemoveLevel` leaves a level with too little volume alone and returns
false. The feed may send anything: unknown ids (their Add was lost), ids in use, executions
of more shares than rest. `conforming` is a history: whether a live id of the symbol was
ever given to another order. `OrderBook` instantiates it and adds `_books`, the trade log
with its two indices, the statistics, the halt state and the last reference messages. Every
handler first makes the symbol's book (`GetOrCreateBook`). An Order Execution is one action
on both halves. All volumes are positive, those of orders (`BookAssumption`) and those of
prints, crosses and corrections (`OrderBookAssumption`), and the sum at a price fits in 64
bits (`MaxLevel`): the code adds them unchecked.

### DailyStats and TradeLedger

`FoldIntoStats` and `Recompute` are the routines both components hold under different
names; `StatsOf` says with no fold what they should compute. Total volume is modulo
`VolumeLimit`, which is 4 in the runs so that it wraps. `AdjustVolume` (and a Cross
Correction of the book) computes its difference and sum in `std::int64_t`, whose overflow C++
leaves undefined; nothing in the build asks for a trap (`CMakeLists.txt`), the optimised
build uses the machine's addition and the Debug build's sanitizer reports the overflow and
goes on with the same result, so the wrap is the one outcome modelled. `disturbed` remembers whether the
volume of a cancelled trade was adjusted, which the ledger's interface allows and no caller
in the repository does.

### BboValidation and StockSummary

The two programs of `examples/` have three phases: the reference file is loaded, the feed
(or the trades file) is replayed, what came of it is compared. The callback of
`bbo-validation` runs on Egress, message after message, and `main` compares after `Join`,
so the phases do not overlap (`JoinMeansDrained`).

`BboValidation` gives every message of `RestingBook` a time of its own, in any order. A
quote with no price on either side is the one of the closing time and is not kept. After
every message whose time is not later than its symbol's quote the top of book is frozen
again (`Freeze`); `Compare` passes over a symbol with no side, and a side that is empty
matches nothing. The histories know nothing of levels or of freezing: `asOfQuote` is a
symbol's best orders until the first message later than its quote, `lastQuote` what a BBO
feed would have sent last, `ordered` the symbols whose times have not gone back.

`StockSummary` replays trade, cancel and correction lines into a `TradeLedger` and compares
five numbers. `live` is what the lines mean, a list of trades with no log, index or flag;
`clean` are the symbols of which no two live trades ever had one id. A cancel of a trade
that is not there, because its line is missing or did not decode, means nothing, and a
correction of one means the corrected trade alone.

## 3. What is checked

| Run | Instance | What it shows |
|---|---|---|
| `queue` | 2 threads, 2 consumers, 2 messages, 2 pushes | `NoLostWakeup`, `EndIsAnnounced`; the queue implements `HandoffQueue`; `EveryLoopEnds`, `QueueDrains` |
| `engine` | every source of up to 3 lines | `NothingLostOrReordered`, `CountersAccountForEveryLine`, `JoinMeansDrained` (both threads have ended, so the counters and metrics may be read), `DestructionStrandsAtMostOne`, `NobodyLeftInside`; `CallsReturn`, `EgressWindsDown`; the engine implements `Replay` |
| `resting` | 1 symbol, 2 orders, 2 prices, 2 volumes, levels up to 4 | `LevelsCoverOrders` and `NoFalseAlarm` for any feed; `LevelsMatchOrders` and `TopOfBookIsBestOrder` while no live id is given again |
| `ledger` | 1 symbol, 2 ids, 3 prices, 2 volumes, 3 trades | `StatsMatchLiveTrades` (an adjusted cancelled trade spoils the volume only); `IdsNameTheirOwnTrade`, `LogIsAJournal` always |
| `book` | 1 symbol, 1 order id, 1 trade id, 1 cross id, 2 trades | `TradesAndCrossesApart`; the tape implements `TradeLedger`, its statistics and failures included; `PrintsTakeAtMostTheirVolume` |
| `parser` | 5 lines, sequence numbers 0..7, 2 types | `LostAreSkipped`, `GapsAreRuns`, `LossesBracketTheMissing` |
| `csv` | for each caller the lines of all its types, cut short, too long and with each field spoiled, quotes with a price of 0 on either side or both; every line of up to 5 pieces for anyone | `AnswersAgreeWithSplit`: the cache is invisible in any order of reading; `FailsAtFirstBadField`; `LinesAreDecodedWhole`: handed on whole or not at all, the closing quote excepted |
| `examples` | 1 symbol, 2 orders, 2 trade ids, prices, volumes and times 1 and 2, 4 messages, 3 trades | `FrozenIsBookAtQuote`, `ConsistentFeedValidates`; `TapeIsTheFile` |

Each of these runs also checks its module's `TypeOK` (`examples`: `ProgramTypeOK`, that of the program that runs), and four more runs exhibit the
findings of section 5. Every property is accompanied by a *mutant*, an operator just before
the definition it changes (`PushSilently` before `Push`) that puts a plausible mistake in
the code's place and makes TLC find the property violated.

Why the bounds are enough. In the queue, a lost wakeup needs one notification consumed by a
consumer that another message was meant for: two consumers, two messages and two threads;
one of the consumers may be stopped and the other not. The engine has three threads and a
queue whose length matters only as empty, one, more; three lines give a line before, at and
after the point where the engine is stopped, each of any outcome. In the book, an error of a
level needs two orders at one price, or one order that changes price; a Replace touches two
ids. An error of the statistics needs a first, a last and a middle trade, with three prices.
In the parser, the longest story is gap, straggler, repeat, gap: five lines, and the eighth
sequence number is the largest there is. The lines of run `csv` are
those of the layouts themselves, so that a constructor nests as deeply as it does in the
code and every field of every structure is once the one that is missing or wrong; the short
lines add every arrangement of commas. In `bbo-validation`, a wrong freeze needs a message
before, one at and one after the quote, and one that empties a side: four messages. In
`stock-summary`, a correction of a correction is three trades. The composed book takes one
id of each kind because symbols and ids do not interact beyond what `resting` and `ledger`
cover, which the proofs of section 4 confirm for any number of them; what it adds is
the interplay of both halves and of trade and cross ids. Bounds named `Max...` cut a
behaviour off by a guard on the next state (`WithinBounds`), and no property reads them.
Deadlock is checked for the queue and the engine (an engine that is gone rests in a
stuttering step of its own); the sequential models stop where their bounds end and say
`CHECK_DEADLOCK FALSE`.

Fairness. `MessageQueue!FairSpec` assumes that a thread which has released the mutex goes
on to its notification, and that a consumer which is not blocked takes its next step;
nobody is obliged to push, to close or to stop, and a blocked consumer has no fairness at
all: if nothing wakes it, it sleeps for ever. `Engine!FairSpec` is the same for its threads,
and adds that a constructor, a `Join` and a destructor in progress continue when they can;
that is what the scheduler of the operating system gives a runnable thread. It includes that
the user's callback returns and that reading a line does. The user is not obliged to call
`Join` nor to destroy the engine. The steps a thread blocks in (`Sleep`, `Block`) and
spurious wakeups have no fairness.

## 4. What is proved

`MessageQueueProofs`, for any sets of threads, consumers and messages and any bound on the
pushes (`BoundAssumption`):

- `TypesHold`, `EndsAreAnnounced`, `NoWakeupIsLost`: the three invariants of the run.
  `NoLostWakeup` is not inductive alone. `IInv` conjoins it with the types, with
  `EndIsAnnounced` and with `GoneIsAwake` (a consumer that has left is not asleep): a
  `notify_one` may discharge the debt of a queued message only because the sleeper it wakes
  is then running, which needs that it has not left. Each action is one step of
  `WakeupStep`.
- `HandoffImplemented`: the refinement of `HandoffQueue`, from `HandoffInv` (what was pushed
  is what was popped followed by what is queued) and three lemmas on sequences.

`NyseParserProofs`, for any set of message types, any number of lines and any `SeqLimit`
(`ParserAssumption`): the four properties of the run `parser`, and `HeadersAreClassified`:
`msgTypeCounts`, summed over the types, counts every line whose header was read, which is
every line that falls into one of the classes the parser reports, and what is pushed of a
type is at most what was counted. The sum is
stated as the number of `Tallies`, the pairs of a type and a number up to its count, of which
a line adds one (`TallyAdded`), so that no sum by recursion is needed. The inductive
invariant `IInv` has, besides the types, `GapsAreRuns`, `EveryHeaderIsClassified` and the
finiteness of `Tallies`, three parts. `MarkInv`: the mark is the
largest of the numbers that raised it. `LossInv`: the losses and the numbers that raised the
mark add up to the mark, so that the losses are the numbers skipped. `SeenInv`: a number
seen that did not raise the mark was a straggler, and there are at most as many of those as
backwards jumps. A number that raises the mark is larger than all before it, so it is a new
member of `raising` and starts a new run exactly if it skips something; the rest is the
library's facts on cardinalities.

`RestingBookProofs`, for any symbols, prices and volumes and any finite set of order ids
(`BookAssumption`): type correctness and the four invariants of the run `resting`. Both
invariants about levels are sums over sets of orders, which the proof counts as
cardinalities of sets of shares, one element per share of a live order. `IInv` says that the volume at every
price covers the live orders there (`Covers`), and that it is exactly theirs, and the level
there only if there are some, while no live id was given twice (`Exact`). Every handler
takes an order off its level, or enters one, or both, so two lemmas carry the proof:
`RemoveOrder` and `EnterOrder`, joined in `ExchangeOrder`. A partial execution is taking off
the whole order and entering what is left of it (`RemovedPart`). That removal never fails
for a live order (`NoFalseAlarm`) follows from `Covers` alone, so it survives refreshes and
lost messages.

`EngineProofs`, for a source of any length (`MaxLinesAssumption` says only that the bound is
a natural number): type correctness and the five invariants of the run `engine`. None of
them is inductive alone. `IInv` has four parts. `Types` leaves the counters unbounded at
first. `ControlInv` says where the three threads can be together: how far Ingest is while
the constructor runs (`StartInv`), who has ended when `Join` gets on (`JoinInv`), that
Ingest is stopped by the destructor only and that before that nothing tells Egress to leave
while Ingest may push (`StopInv`), what an Egress that has left may miss (`StrandInv`: the
queue and the line being decoded are one message at most), and who has ended when the
members are destroyed (`ReapInv`). `TransferInv` is `NothingLostOrReordered` with the
message in Egress's hands. `CountInv` ties the counters to the lines, each with the one that
is not counted yet. That no counter passes the number of lines, and that a drained source
was delivered whole, follows because the messages pushed are an increasing sequence of
decodable lines as long as there are such lines (`LengthsCompare`). `ReplayImplemented` is
the refinement: every step of the engine is a step of `Replay!SafeSpec` or leaves its state
alone. The feed of the abstract specification is the increasing sequence of the decodable
lines (it exists: `DecodableLinesAreListed`), or no line at all where the file cannot be
opened, which is known in the end only. The messages pushed so far are a beginning of it
(`PushedBeginsFeed`, by induction over their places: between two of them no decodable line
was passed over), so the one Egress hands to the callback is the feed's next
(`CallbackDelivers`), and when `Join` gets on the whole feed was delivered
(`JoinHasDelivered`). `UnreadInv`, that of an unreadable source no line was read and Ingest has
ended, is the one part the other invariants do not have.

`TradeLedgerProofs`, for any symbols, ids, prices, volumes and a log of any length: all four
properties of the run `ledger`. For `IdsNameTheirOwnTrade` and `LogIsAJournal`, every
operation is an `Advance`: it leaves the other symbols alone, continues the log (no trade
goes away, changes its price or is cancelled and comes back), and either keeps the index or
enters one id for the trade it has appended. `StatsMatchLiveTrades` needs what the folds
compute. The library has induction only in a form the installed provers cannot instantiate,
so the module begins with the fact it does offer, that `<` on the natural numbers is
well-founded, and derives from it that a set of numbers has a least element, induction over
a set, that the recursion behind a fold over a set has exactly one solution, and from that
the folds of the model element by element. With these, `Recompute` of a log is `StatsOf` it
(first, last, highest, lowest and the sum of the live trades), folding one more trade in
gives the statistics of the longer log, and adding a difference to the volume modulo
`VolumeLimit` gives the sum of the changed log. `StatsInv` says that the statistics are those
of the log, the volume only while no cancelled trade was adjusted.

`OrderBookProofs`, for any symbols, ids, prices and volumes: the book is its two halves.
`TradesStayApart`: no trade id leads to a cross, and a cross is never cancelled.
`TradeHalfIsLedger`: the trade half implements `TradeLedger` with one index of tagged ids
in the place of the two; a Cross Correction is `AdjustVolume`, and that its adjustment
agrees with the rescan needs `TradesStayApart`, since only then is what it adjusts not
cancelled. `DisplayedHalfIsRestingBook`: the displayed half makes steps of `RestingBook`
only. The theorems of the two other modules are then carried over: `StatsAreOfLiveTrades`
(nothing is disturbed in a book, so its statistics are always right), `BookFactsHold` (the
levels, the top of book and the removals) and, with the types of the reference messages,
`TypesHold`. `PrintsTakeNoMore` is `PrintsTakeAtMostTheirVolume` for any number of orders:
the volume displayed is a sum over ids and prices, and a message changes one term of it, or
two of which one moves into the other; the levels stay finite (`LevelsAreFinite`), else there
is no sum.

`LineDecoderProofs`, for lines of any length over any pieces, any structures and layouts and
any numbers a caller may ask for (`CsvAssumption`, `NestingAssumption`, `LinesAssumption`,
which says of `Zeros` only that they are numerals or decimals, and `LayoutAssumption`: the
header is a type and a sequence number, and a field that is
handed on is one of its structure's; TLC evaluates all of them for the layouts of the
repository): all four properties of the run `csv`. `Scan`, `Split`, `FieldCount` and
`WireFields` are recursions over data, so the first parts of the module are the same
induction as above and that each of these recursions has a solution, for which `Nesting`
decreases along the members of a structure and the number of commas a scan still needs along
`Scan`.
Then: `SplitIsBetweenCommas` (the fields of a line lie between the neighbours in the
increasing sequence of its commas), `AnswerIsOfSplit` (if the cache is a prefix of that
sequence, and all of it once `exhausted`, `GetField` answers from the split, because a scan
only adds the next comma), `OffsetsExist` (the fields of a structure are those of its members
one after another, each at its offset). The inductive invariant `DecoderInv` is about the
reader (`ReaderInv`) and the caller (`CallerInv`). Of the reader it says that the cache is
such a prefix (`CacheInv`); that the constructors under way are placed one within the other,
each where its parent's next member begins, so that the field each is at is the number of
fields populated so far (`FramesPlaced`); that those are the first fields of the line and all
good (`ValuesRead`); and that a structure that has ended has all its fields or stands at its
first bad one (`Ended`). Of the caller it says, per program counter, which structure is under
way and what has been recorded, and at the end that `LinesAreDecodedWhole`. That property
speaks of `Wanted`, the structure of the line's type if the text of the line decodes as one
and is no closing quote; `WantedIsBuilt` shows that what the loader sees in the structure it
has built, prices included, is what the text says. None of the four
properties is inductive without the places of the frames: that an inner constructor hands
back the offset its parent goes on from is what keeps fields from being skipped or read
twice.

`ExamplesProofs`, for any symbols, prices, volumes, times, quotes and summaries, any trade
ids, any finite set of order ids and files of any length (`BboAssumption` and
`ExamplesAssumption`, the book's and the ledger's assumptions included): all four properties
of the run `examples`.

- `BboValidation` instantiates `RestingBookProofs`: the program's book makes steps of a
  `RestingBook` only, so that its top of book is that of the live orders (`BookIsGood`).
  `IInv` then says of every symbol whose times have not gone back (`SymbolInv`) that what is
  frozen is `asOfQuote`; that its last quote is not later than its last message; that up to
  the quote's time `asOfQuote` is the book's; and that a last quote of the time of the
  reference is the quote of `asOfQuote`, unless both sides have been emptied since. A message
  moves its own symbol (`OwnSymbol`) and no other (`OtherSymbol`). With the types of what is
  frozen and compared (`ReportTypes`) these are `FrozenIsRight`, `NoFalseDifference` and
  `TypesHold`.
- `StockSummary` instantiates `TradeLedgerProofs`: its tape makes steps of a `TradeLedger`
  only (`LedgerStep`), none of which adjusts a volume, so that its statistics are those of
  the trades not cancelled. `TapeIsTheFile` needs in addition that those are the trades the
  file means. `StockInv` says it of every symbol that is `clean`: the index leads from
  the ids of `live`, in its order, to the live trades of the log, and to all of them
  (`Lists`). A cancel takes one member out of the middle of the list and leaves a cancelled
  trade in the log (`ListedTaken`), a trade's line adds to both ends (`ListedAdded`), and a
  correction does one after the other, under a new id or the old one. A trade that is not in
the list is not found live in the log either (`UnlistedIsGone`: no two ids lead to one
trade), so a line about one leaves the others alone. A list carried in
  order to the live positions of a log has the log's statistics (`StatsCarried`), whose
  volume is a sum over other positions (`VolumeCarried`). `ReportIsOfTheFile` is the result,
  with `StockTypesHold`.
- In `Examples` a run of the two programs is a run of one of them (`OneRuns`):
  `ProgramTypesHold`, `TapeIsRight` and `BboIsRight` carry the results over.

Only model-checked: everything under fairness, that is `CallsReturn`, `EgressWindsDown`,
`EveryLoopEnds`, `QueueDrains` and the liveness of `ImplementsReplay` (that the whole feed is
delivered in the end, if nobody stops it), since the prover handles neither fairness nor
`ENABLED`. What is proved of `Replay` is its `SafeSpec`.

## 5. Findings

Each is a run whose one property quotes a sentence of the repository and is violated.

- `queue_stop_delivery` (`include/queue.hpp:22-24` against `:27`): the comment promises
  `std::nullopt` when the stop token is signalled; the code returns a message as long as one
  is queued, because only the emptiness of the queue is tested after the wait.
- `engine_closed` (`include/queue.hpp:38` against `:17`): a closed queue is to have
  "finished accepting new messages"; `Push` does not look. The destructor can close the
  queue while Ingest is inside `ParseNext`, and the message then pushed may stay there
  (at most one: `DestructionStrandsAtMostOne`).
- `resting_refresh` (`src/model/order_book.cpp:257-264`): a refresh is sent for every order
  resting on the book, and is applied as an Add: the order is overwritten and its volume
  added to the level a second time, for good.
- `ledger_adjust` (`src/model/trade_ledger.cpp:61-79`): `AdjustVolume` does not look at
  `_cancelled`: adjusting a cancelled trade moves the day's volume.

## 6. Not modelled, and why

- In `include/schema/nyse/csv.hpp`, the formats of numbers (`std::from_chars`) and of times
  (`parse_source_time`, whose lack of a range check is a listed hazard): a text is of the
  format or it is not. Rounding, and the tolerance of 1e-6 the examples compare with, go
  with them.
- `include/common.hpp` (a comment), the `std::shared_ptr` and `std::variant` a message is
  wrapped in.
- `GetElapsedSeconds`, logging, opening of files and printing in the examples; the replay of
  the feed into an `OrderBook` beside the ledger in `stock-summary`, of which a counter is
  printed.
- Exceptions: one that leaves the callback ends the process; `ParseNext` is `noexcept`.
- The data race of `GetIntegrityMetrics` with Ingest: nothing in the repository reads it
  before `Join`, after which `JoinMeansDrained` says that nobody writes.
- Volumes of zero (a listed hazard), of orders and of prints, crosses and corrections: the
  feed does not publish them.
- Signed overflow as undefined behaviour (section 2, `TradeLedger`): a compiler that draws
  other conclusions from it than the machine's addition is outside the model.

## 7. Plan

Done: the queue and the engine, since everything passes through them; the two models with
derived state; the parser's integrity and the decoding of lines up to the public message;
the two examples; the theorems of section 4.

What would come next:

1. `Pipeline`: `NyseParser` inside `Engine`'s Ingest loop, with a reader of the metrics
   on another thread and the relation between `GetTotal`, `GetSuccess` and the metrics.
2. The replay of the feed into an `OrderBook` beside the ledger in `stock-summary`, if
   more of it than a counter is ever compared.
