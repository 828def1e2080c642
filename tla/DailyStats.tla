----------------------------- MODULE DailyStats -----------------------------
(***************************************************************************)
(* mde::model::DailyStats: a day's open, high, low, close and volume, kept *)
(* by folding trades in one at a time.  trade_ledger.cpp and               *)
(* order_book.cpp hold the same two routines under different names.        *)
(*                                                                         *)
(* A trade record is [price, volume, cancelled].  Prices are positive      *)
(* numbers; NoPrice stands for an empty std::optional.  The volume is an   *)
(* unsigned integer of the code's 64 bits, here modulo VolumeLimit.        *)
(***************************************************************************)
EXTENDS Integers, Sequences, SequencesExt, FiniteSetsExt

CONSTANT VolumeLimit

ASSUME VolumeLimitAssumption == VolumeLimit \in Nat \ {0}

NoPrice == 0

NoStats == [open |-> NoPrice, high |-> NoPrice, low |-> NoPrice,
            close |-> NoPrice, totalVolume |-> 0]

(* FoldIntoStats, and the first half of OrderBook::AppendTrade.            *)
FoldIntoStats(stats, price, volume) ==
  [open  |-> IF stats.open = NoPrice THEN price ELSE stats.open,
   high  |-> IF stats.high = NoPrice \/ price > stats.high
               THEN price ELSE stats.high,
   low   |-> IF stats.low = NoPrice \/ price < stats.low
               THEN price ELSE stats.low,
   close |-> price,
   totalVolume |-> (stats.totalVolume + volume) % VolumeLimit]

(* Mutant: the rescan folds the cancelled trades in, too.                  *)
RecomputeAll(log) ==
  FoldLeft(LAMBDA stats, trade :
             FoldIntoStats(stats, trade.price, trade.volume),
           NoStats, log)

(* Recompute and RecomputeStats: a rescan of the trades that are not       *)
(* cancelled, in the order of the log.                                     *)
Recompute(log) ==
  FoldLeft(LAMBDA stats, trade :
             IF trade.cancelled THEN stats
             ELSE FoldIntoStats(stats, trade.price, trade.volume),
           NoStats, log)

(* What the numbers mean, with no fold: the first and the last live trade, *)
(* the dearest and the cheapest, and the volume of all of them.            *)
Cancelled(log) == {i \in DOMAIN log : log[i].cancelled}
LiveTrades(log) == DOMAIN log \ Cancelled(log)

StatsOf(log) ==
  LET live == LiveTrades(log)
      prices == {log[i].price : i \in live}
  IN IF live = {} THEN NoStats
     ELSE [open  |-> log[Min(live)].price,
           high  |-> Max(prices),
           low   |-> Min(prices),
           close |-> log[Max(live)].price,
           totalVolume |-> MapThenSumSet(LAMBDA i : log[i].volume, live)
                             % VolumeLimit]

=============================================================================
