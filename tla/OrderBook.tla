----------------------------- MODULE OrderBook -----------------------------
(***************************************************************************)
(* mde::model::OrderBook (src/model/order_book.cpp), whole: the displayed  *)
(* book of RestingBook.tla and, beside it, the trade log with its two      *)
(* indices and DailyStats, the halt state and the last reference messages. *)
(* OnMessage is the dispatch of Next; every handler begins by making the   *)
(* symbol's book.                                                          *)
(***************************************************************************)
EXTENDS DailyStats, FiniteSets, Maps

CONSTANTS
  Symbols, OrderIds, Prices, Volumes,
  TradeIds, CrossIds,
  Statuses,      (* security status codes; "4" halts and "5" resumes       *)
  Details,       (* the payloads of mappings, imbalances and indicators    *)
  MaxLevel, MaxFailures, MaxTrades     (* bounds                           *)

ASSUME OrderBookAssumption ==
  /\ IsFiniteSet(OrderIds)
  /\ Prices \subseteq Nat \ {NoPrice}
  /\ Volumes \subseteq 1..(VolumeLimit - 1)
  /\ {MaxLevel, MaxFailures, MaxTrades} \subseteq Nat

VARIABLES
  books,               (* the symbols _books has an entry for              *)
  orders, levels, bookBuildFailures, conforming,   (* the displayed book   *)
  tradeLog,            (* tradeLog[s]: _tradeLog                           *)
  tradesById,          (* tradesById[s]: trade id to index in the log      *)
  crossesById,         (* crossesById[s]: cross id to index in the log     *)
  stats,               (* stats[s]: _stats                                 *)
  tradeLedgerFailures,
  halted,              (* the symbols whose _halted is set                 *)
  info, imbalance, rpi,        (* the last such message of a symbol        *)
  tapes                (* history: the symbols with a trade message        *)

Resting == INSTANCE RestingBook

bookVars == <<orders, levels, bookBuildFailures, conforming>>
tapeVars == <<tradeLog, tradesById, crossesById, stats, tradeLedgerFailures,
              tapes>>
referenceVars == <<halted, info, imbalance, rpi>>
vars == <<books, bookVars, tapeVars, referenceVars>>

TradeRecord == [price : Prices, volume : Volumes, cancelled : BOOLEAN]

TypeOK ==
  /\ books \subseteq Symbols
  /\ Resting!TypeOK
  /\ tradeLog \in [Symbols -> Seq(TradeRecord)]
  /\ DOMAIN tradesById = Symbols /\ DOMAIN crossesById = Symbols
  /\ \A s \in Symbols : IsMap(tradesById[s], TradeIds, DOMAIN tradeLog[s])
  /\ \A s \in Symbols : IsMap(crossesById[s], CrossIds, DOMAIN tradeLog[s])
  /\ DOMAIN stats = Symbols
  /\ tradeLedgerFailures \in Nat
  /\ halted \subseteq Symbols
  /\ \A m \in {info, imbalance, rpi} : IsMap(m, Symbols, Details)
  /\ tapes \subseteq Symbols

Init ==
  /\ books = {}
  /\ Resting!Init
  /\ tradeLog = [s \in Symbols |-> <<>>]
  /\ tradesById = [s \in Symbols |-> Empty]
  /\ crossesById = [s \in Symbols |-> Empty]
  /\ stats = [s \in Symbols |-> NoStats]
  /\ tradeLedgerFailures = 0
  /\ halted = {}
  /\ info = Empty /\ imbalance = Empty /\ rpi = Empty
  /\ tapes = {}

(* What handlers of the three groups have in common.                       *)
GetOrCreateBook(s) == books' = books \cup {s}
ReferenceHandler(s) == GetOrCreateBook(s) /\ UNCHANGED <<bookVars, tapeVars>>
BookHandler(s) == GetOrCreateBook(s) /\ UNCHANGED <<tapeVars, referenceVars>>
TapeHandler(s) ==
  /\ GetOrCreateBook(s)
  /\ tapes' = tapes \cup {s}
  /\ UNCHANGED referenceVars

-----------------------------------------------------------------------------
(* Reference messages                                                      *)

SymbolIndexMapping(s, d) ==
  /\ ReferenceHandler(s)
  /\ info' = Put(info, s, d)
  /\ UNCHANGED <<halted, imbalance, rpi>>

SecurityStatus(s, status) ==
  /\ ReferenceHandler(s)
  /\ halted' = CASE status = "4" -> halted \cup {s}
                 [] status = "5" -> halted \ {s}
                 [] OTHER -> halted
  /\ UNCHANGED <<info, imbalance, rpi>>

Imbalance(s, d) ==
  /\ ReferenceHandler(s)
  /\ imbalance' = Put(imbalance, s, d)
  /\ UNCHANGED <<halted, info, rpi>>

RetailPriceImprovement(s, d) ==
  /\ ReferenceHandler(s)
  /\ rpi' = Put(rpi, s, d)
  /\ UNCHANGED <<halted, info, imbalance>>

-----------------------------------------------------------------------------
(* Orders                                                                  *)

OrderMessage(s, o) ==
  /\ BookHandler(s)
  /\ \/ Resting!DeleteOrder(s, o)
     \/ \E price \in Prices, volume \in Volumes :
          \/ Resting!ModifyOrder(s, o, price, volume)
          \/ \E side \in Resting!Sides :
               \/ Resting!AddOrder(s, o, price, volume, side)
               \/ Resting!AddOrderRefresh(s, o, price, volume, side)
               \/ \E n \in OrderIds :
                    Resting!ReplaceOrder(s, o, n, price, volume, side)

-----------------------------------------------------------------------------
(* Trades                                                                  *)

(* Mutant: the index handed out is one past the trade.                     *)
AppendPastEnd(s, price, volume, index, id) ==
  /\ tradeLog' = [tradeLog EXCEPT ![s] =
       Append(@, [price |-> price, volume |-> volume, cancelled |-> FALSE])]
  /\ stats' = [stats EXCEPT ![s] = FoldIntoStats(@, price, volume)]
  /\ index' = [index EXCEPT ![s] = Put(@, id, Len(tradeLog[s]) + 2)]

(* AppendTrade, and the entry of the trade in one of the two indices.      *)
AppendTrade(s, price, volume, index, id) ==
  /\ tradeLog' = [tradeLog EXCEPT ![s] =
       Append(@, [price |-> price, volume |-> volume, cancelled |-> FALSE])]
  /\ stats' = [stats EXCEPT ![s] = FoldIntoStats(@, price, volume)]
  /\ index' = [index EXCEPT ![s] = Put(@, id, Len(tradeLog[s]) + 1)]

(* The trade is recorded with the price and the volume of the message,     *)
(* before and whether or not the order is found.                           *)
OrderExecution(s, o, t, price, volume) ==
  /\ TapeHandler(s)
  /\ AppendTrade(s, price, volume, tradesById, t)
  /\ Resting!OrderExecution(s, o, volume)
  /\ UNCHANGED <<crossesById, tradeLedgerFailures>>

NonDisplayedTrade(s, t, price, volume) ==
  /\ TapeHandler(s)
  /\ AppendTrade(s, price, volume, tradesById, t)
  /\ UNCHANGED <<bookVars, crossesById, tradeLedgerFailures>>

(* Mutant: a cross is entered in the index of trades.                      *)
CrossAsTrade(s, x, price, volume) ==
  /\ TapeHandler(s)
  /\ AppendTrade(s, price, volume, crossesById, x)
  /\ \E t \in TradeIds : tradesById' =
       [tradesById EXCEPT ![s] = Put(@, t, Len(tradeLog[s]) + 1)]
  /\ UNCHANGED <<bookVars, tradeLedgerFailures>>

CrossTrade(s, x, price, volume) ==
  /\ TapeHandler(s)
  /\ AppendTrade(s, price, volume, crossesById, x)
  /\ UNCHANGED <<bookVars, tradesById, tradeLedgerFailures>>

TradeLedgerFailure ==
  /\ tradeLedgerFailures' = tradeLedgerFailures + 1
  /\ UNCHANGED <<tradeLog, stats>>

Cancellable(s, t) ==
  /\ t \in DOMAIN tradesById[s]
  /\ ~tradeLog[s][tradesById[s][t]].cancelled

(* Mutant: cancelling a trade gives the shares back to an order.           *)
CancelAndRestore(s, t) ==
  /\ TapeHandler(s)
  /\ Cancellable(s, t)
  /\ tradeLog' = [tradeLog EXCEPT ![s][tradesById[s][t]].cancelled = TRUE]
  /\ stats' = [stats EXCEPT ![s] = Recompute(tradeLog'[s])]
  /\ LET trade == tradeLog[s][tradesById[s][t]]
     IN \E o \in OrderIds :
          Resting!AddOrder(s, o, trade.price, trade.volume, "bid")
  /\ UNCHANGED <<tradesById, crossesById, tradeLedgerFailures>>

TradeCancel(s, t) ==
  /\ TapeHandler(s)
  /\ \/ ~Cancellable(s, t) /\ TradeLedgerFailure
     \/ /\ Cancellable(s, t)
        /\ tradeLog' = [tradeLog EXCEPT
             ![s][tradesById[s][t]].cancelled = TRUE]
        /\ stats' = [stats EXCEPT ![s] = Recompute(tradeLog'[s])]
        /\ UNCHANGED tradeLedgerFailures
  /\ UNCHANGED <<bookVars, tradesById, crossesById>>

(* Mutant: the statistics are left as the cross made them.                 *)
CorrectLogOnly(s, x, volume) ==
  /\ TapeHandler(s)
  /\ x \in DOMAIN crossesById[s]
  /\ tradeLog' = [tradeLog EXCEPT ![s][crossesById[s][x]].volume = volume]
  /\ UNCHANGED <<bookVars, tradesById, crossesById, stats,
                 tradeLedgerFailures>>

CrossCorrection(s, x, volume) ==
  /\ TapeHandler(s)
  /\ \/ x \notin DOMAIN crossesById[s] /\ TradeLedgerFailure
     \/ /\ x \in DOMAIN crossesById[s]
        /\ LET i == crossesById[s][x]
           IN /\ tradeLog' = [tradeLog EXCEPT ![s][i].volume = volume]
              /\ stats' = [stats EXCEPT ![s].totalVolume =
                   (@ + volume - tradeLog[s][i].volume) % VolumeLimit]
        /\ UNCHANGED tradeLedgerFailures
  /\ UNCHANGED <<bookVars, tradesById, crossesById>>

-----------------------------------------------------------------------------
ReferenceMessage(s) ==
  \/ \E status \in Statuses : SecurityStatus(s, status)
  \/ \E d \in Details :
       SymbolIndexMapping(s, d) \/ Imbalance(s, d)
         \/ RetailPriceImprovement(s, d)

TradeMessage(s) ==
  \/ \E t \in TradeIds, price \in Prices, volume \in Volumes :
       \/ NonDisplayedTrade(s, t, price, volume)
       \/ \E o \in OrderIds : OrderExecution(s, o, t, price, volume)
  \/ \E x \in CrossIds, volume \in Volumes :
       \/ CrossCorrection(s, x, volume)
       \/ \E price \in Prices : CrossTrade(s, x, price, volume)
  \/ \E t \in TradeIds : TradeCancel(s, t)

WithinBounds ==
  /\ Resting!WithinBounds
  /\ \A s \in Symbols : Len(tradeLog[s]) <= MaxTrades
  /\ bookBuildFailures + tradeLedgerFailures <= MaxFailures

Next ==
  /\ \E s \in Symbols :
       \/ ReferenceMessage(s)
       \/ \E o \in OrderIds : OrderMessage(s, o)
       \/ TradeMessage(s)
  /\ WithinBounds'

Spec == Init /\ [][Next]_vars

-----------------------------------------------------------------------------
(* Trade ids and cross ids are looked up in different indices of one log,  *)
(* and no record is in both: no cancel reaches a cross and no correction   *)
(* a trade, so that a cross is never cancelled.                            *)
TradesAndCrossesApart ==
  \A s \in Symbols :
    LET crossed == {crossesById[s][x] : x \in DOMAIN crossesById[s]}
        traded == {tradesById[s][t] : t \in DOMAIN tradesById[s]}
    IN /\ crossed \cap traded = {}
       /\ \A i \in crossed : ~tradeLog[s][i].cancelled

(* The volume displayed for a symbol, on a side and in all.                *)
Aggregate(s, side) ==
  MapThenSumSet(LAMBDA price : levels[s][side][price], DOMAIN levels[s][side])

Displayed(s) == Aggregate(s, "bid") + Aggregate(s, "ask")

(* The tape and the book move together as the feed specification says:     *)
(* printing a trade takes at most the printed volume off the displayed     *)
(* book and adds none, and cancelling or correcting one leaves it alone.   *)
PrintsTakeAtMostTheirVolume ==
  [][\A s \in Symbols :
       IF Len(tradeLog'[s]) > Len(tradeLog[s])
         THEN Displayed(s) - Displayed(s)'
                \in 0..tradeLog'[s][Len(tradeLog'[s])].volume
         ELSE tradeLog'[s] # tradeLog[s] => UNCHANGED bookVars]_vars

(* The trade half is a TradeLedger whose ids are the trade ids and the     *)
(* cross ids, kept apart, and that is never asked to adjust the volume of  *)
(* a cancelled trade: its statistics are those of the live trades, without *)
(* the rescan a cross correction is not followed by.                       *)
Tagged(s) ==
  [id \in ({"trade"} \X DOMAIN tradesById[s])
            \cup ({"cross"} \X DOMAIN crossesById[s]) |->
     IF id[1] = "trade" THEN tradesById[s][id[2]] ELSE crossesById[s][id[2]]]

Ledger == INSTANCE TradeLedger WITH
            TradeIds <- ({"trade"} \X TradeIds) \cup ({"cross"} \X CrossIds),
            ledgers <- tapes, log <- tradeLog,
            byId <- [s \in Symbols |-> Tagged(s)],
            failures <- tradeLedgerFailures,
            disturbed <- [s \in Symbols |-> FALSE]

ImplementsTradeLedger == Ledger!Spec

=============================================================================
