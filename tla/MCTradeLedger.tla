--------------------------- MODULE MCTradeLedger ---------------------------
(***************************************************************************)
(* Instances of TradeLedger for TLC.                                       *)
(***************************************************************************)
EXTENDS TradeLedger, TLC

CONSTANTS s1, s2, t1, t2

MCOneSymbol == {s1}
MCTwoSymbols == {s1, s2}
MCTradeIds == {t1, t2}

Symmetry == Permutations(Symbols) \cup Permutations(TradeIds)

=============================================================================
