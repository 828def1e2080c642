---------------------------- MODULE MCOrderBook ----------------------------
(***************************************************************************)
(* Instances of OrderBook for TLC.                                         *)
(***************************************************************************)
EXTENDS OrderBook, TLC

CONSTANTS s1, o1, t1, x1, d1

MCOneSymbol == {s1}
MCOrderIds == {o1}
MCOneTradeId == {t1}
MCCrossIds == {x1}
MCDetails == {d1}

=============================================================================
