----------------------------- MODULE MCExamples -----------------------------
(***************************************************************************)
(* Examples for TLC: the quotes and the summaries the files may hold.      *)
(***************************************************************************)
EXTENDS Examples, TLC

(* Quotes of both sides, of one, and of the close.                         *)
MCQuotes ==
  LET quotes(bid, bidVolume, ask, askVolume) ==
        [bid : {bid}, bidVolume : {bidVolume}, ask : {ask},
         askVolume : {askVolume}, time : Times]
  IN quotes(1, 1, 2, 1) \cup quotes(1, 2, 0, 0) \cup quotes(0, 0, 2, 1)
       \cup quotes(0, 0, 0, 0)

(* The opening and the closing price lie between the lowest and the        *)
(* highest, and are among the two.                                         *)
MCSummaries ==
  {summary \in [open : Prices, high : Prices, low : Prices, close : Prices,
                totalVolume : 0 .. (VolumeLimit - 1)] :
     /\ summary.low <= summary.high
     /\ {summary.open, summary.close} \subseteq {summary.low, summary.high}}

Symmetry == Permutations(OrderIds) \cup Permutations(TradeIds)

=============================================================================
