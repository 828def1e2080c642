----------------------------- MODULE NyseTypes -----------------------------
(***************************************************************************)
(* The layouts of the lines (include/schema/nyse/nyse_types.hpp and        *)
(* reference_types.hpp), field by field in the order of the wire, and what *)
(* of them the public messages carry (include/message.hpp).  A field with  *)
(* one name has one type in all of the structures.  The member _header is  *)
(* written as the structure it is.                                         *)
(***************************************************************************)
EXTENDS Sequences, TLC

HeaderMembers ==
  [MessageHeader   |-> <<"_msgType", "_sequenceNumber">>,
   PerSymbolHeader |-> <<"MessageHeader", "_sourceTime", "_symbol",
                         "_symbolSeqNum">>]

(* Every per-symbol message begins with the same five fields.              *)
PerSymbol(fields) == <<"PerSymbolHeader">> \o fields

TradeConditions == <<"_tradeCondition1", "_tradeCondition2",
                     "_tradeCondition3", "_tradeCondition4">>

ReferenceDataMembers ==
  [SymbolIndexMapping |->
     <<"MessageHeader", "_symbol", "_marketId", "_systemId", "_exchangeCode",
       "_securityType", "_lotSize", "_prevClosePrice", "_prevCloseVolume",
       "_priceResolution", "_roundLot", "_mpv", "_unitOfTrade">>,
   SecurityStatus |-> PerSymbol(
     <<"_securityStatus", "_haltCondition", "_price1", "_price2",
       "_ssrTriggeringExchangeId", "_ssrTriggeringVolume", "_time",
       "_ssrState", "_marketState">>)]

OrderMembers ==
  [AddOrder |-> PerSymbol(
     <<"_orderId", "_price", "_volume", "_side", "_firmId", "_reserved">>),
   ModifyOrder |-> PerSymbol(
     <<"_orderId", "_price", "_volume", "_positionChange", "_side",
       "_reserved2">>),
   DeleteOrder |-> PerSymbol(<<"_orderId", "_reserved">>),
   OrderExecution |-> PerSymbol(
     <<"_orderId", "_tradeId", "_price", "_volume", "_printableFlag",
       "_reserved1">> \o TradeConditions),
   ReplaceOrder |-> PerSymbol(
     <<"_orderId", "_newOrderId", "_price", "_volume", "_side",
       "_reserved2">>)]

AuctionMembers ==
  [RetailPriceImprovement |-> PerSymbol(<<"_rpiIndicator">>),
   Imbalance |-> PerSymbol(
     <<"_referencePrice", "_pairedQty", "_totalImbalanceQty",
       "_marketImbalanceQty", "_auctionTime", "_auctionType",
       "_imbalanceSide", "_continuousBookClearingPrice",
       "_auctionInterestClearingPrice", "_ssrFilingPrice",
       "_indicativeMatchPrice", "_upperCollar", "_lowerCollar",
       "_auctionStatus", "_freezeStatus", "_numExtensions",
       "_unpairedQuantity", "_unpairedSide", "_significantImbalance">>)]

TradeMembers ==
  [AddOrderRefresh |-> PerSymbol(
     <<"_orderId", "_price", "_volume", "_side", "_firmId", "_reserved">>),
   NonDisplayedTrade |-> PerSymbol(
     <<"_tradeId", "_price", "_volume", "_printableFlag">>
       \o TradeConditions),
   CrossTrade |-> PerSymbol(
     <<"_crossId", "_price", "_volume", "_crossType">>),
   TradeCancel |-> PerSymbol(<<"_tradeId">>),
   CrossCorrection |-> PerSymbol(<<"_crossId", "_volume">>)]

(* The structures of the reference files, which the examples read.         *)
ReferenceFileMembers ==
  [StockSummary |->
     <<"MessageHeader", "_sourceTime", "_symbol", "_highPrice", "_lowPrice",
       "_open", "_close", "_totalVolume">>,
   Quote |-> PerSymbol(
     <<"_askPrice", "_askVolume", "_bidPrice", "_bidVolume",
       "_quoteCondition", "_rpiIndicator">>),
   TaqTrade |-> PerSymbol(
     <<"_tradeId", "_price", "_volume">> \o TradeConditions),
   TaqTradeCorrection |-> PerSymbol(
     <<"_originalTradeId", "_tradeId", "_price", "_volume">>
       \o TradeConditions)]

WireMembers ==
  HeaderMembers @@ ReferenceDataMembers @@ OrderMembers @@ AuctionMembers
    @@ TradeMembers @@ ReferenceFileMembers

WireStructs == DOMAIN WireMembers

-----------------------------------------------------------------------------
Strings == {"_symbol", "_firmId"}
Chars ==
  {"_exchangeCode", "_securityType", "_roundLot", "_securityStatus", "_side",
   "_auctionType", "_imbalanceSide", "_unpairedSide",
   "_significantImbalance", "_crossType", "_quoteCondition"}
OptionalChars ==
  {"_haltCondition", "_ssrTriggeringExchangeId", "_ssrState", "_marketState",
   "_rpiIndicator", "_tradeCondition1", "_tradeCondition2",
   "_tradeCondition3", "_tradeCondition4"}
Bytes ==
  {"_msgType", "_marketId", "_systemId", "_priceResolution", "_unitOfTrade",
   "_printableFlag", "_auctionStatus", "_freezeStatus"}
Doubles ==
  {"_prevClosePrice", "_mpv", "_price", "_referencePrice",
   "_continuousBookClearingPrice", "_auctionInterestClearingPrice",
   "_ssrFilingPrice", "_indicativeMatchPrice", "_upperCollar",
   "_lowerCollar", "_highPrice", "_lowPrice", "_open", "_close",
   "_askPrice", "_bidPrice"}
OptionalDoubles == {"_price1", "_price2"}
OptionalNumbers ==
  {"_ssrTriggeringVolume", "_time", "_reserved", "_reserved1", "_reserved2",
   "_positionChange"}

(* The names the layouts list; whatever is not said to be something else   *)
(* is an unsigned number of 64 bits.                                       *)
WireFieldNames ==
  UNION {{WireMembers[T][i] : i \in DOMAIN WireMembers[T]} : T \in WireStructs}
    \ WireStructs

WireKindOf ==
  [f \in WireFieldNames |->
     CASE f \in Strings -> "string"
       [] f \in Chars -> "char"
       [] f \in OptionalChars -> "char?"
       [] f \in Bytes -> "byte"
       [] f \in Doubles -> "double"
       [] f \in OptionalDoubles -> "double?"
       [] f \in OptionalNumbers -> "number?"
       [] f = "_sourceTime" -> "time"
       [] OTHER -> "number"]

-----------------------------------------------------------------------------
(* The public messages, one for each structure of the feed.                *)

Stamp == {"_nanosSinceMidnight", "_symbol", "_symbolSeqNum"}

PublicReferenceData ==
  [SymbolIndexMapping |->
     {"_symbol", "_marketId", "_systemId", "_exchangeCode", "_securityType",
      "_lotSize", "_prevClosePrice", "_prevCloseVolume", "_priceResolution",
      "_roundLot", "_mpv", "_unitOfTrade"},
   SecurityStatus |-> Stamp \cup
     {"_securityStatus", "_haltCondition", "_price1", "_price2",
      "_ssrTriggeringExchangeId", "_ssrTriggeringVolume", "_time",
      "_ssrState", "_marketState"}]

PublicOrders ==
  [AddOrder |-> Stamp \cup
     {"_orderId", "_price", "_volume", "_side", "_firmId"},
   ModifyOrder |-> Stamp \cup {"_orderId", "_price", "_volume", "_side"},
   DeleteOrder |-> Stamp \cup {"_orderId"},
   OrderExecution |-> Stamp \cup
     {"_orderId", "_tradeId", "_price", "_volume", "_printedToSip"},
   ReplaceOrder |-> Stamp \cup
     {"_orderId", "_newOrderId", "_price", "_volume", "_side"}]

PublicAuction ==
  [RetailPriceImprovement |-> Stamp \cup {"_rpiIndicator"},
   Imbalance |-> Stamp \cup
     {"_referencePrice", "_pairedQty", "_totalImbalanceQty",
      "_marketImbalanceQty", "_auctionTime", "_auctionType",
      "_imbalanceSide", "_continuousBookClearingPrice",
      "_auctionInterestClearingPrice", "_ssrFilingPrice",
      "_indicativeMatchPrice", "_upperCollar", "_lowerCollar",
      "_auctionStatus", "_freezeStatus", "_numExtensions",
      "_unpairedQuantity", "_unpairedSide", "_significantImbalance"}]

PublicTrades ==
  [AddOrderRefresh |-> Stamp \cup
     {"_orderId", "_price", "_volume", "_side", "_firmId"},
   NonDisplayedTrade |-> Stamp \cup
     {"_tradeId", "_price", "_volume", "_printedToSip"},
   CrossTrade |-> Stamp \cup {"_crossId", "_price", "_volume", "_crossType"},
   TradeCancel |-> Stamp \cup {"_tradeId"},
   CrossCorrection |-> Stamp \cup {"_crossId", "_volume"}]

PublicFields ==
  PublicReferenceData @@ PublicOrders @@ PublicAuction @@ PublicTrades

(* The two fields that go by another name on the wire.                     *)
WireNameOf(f) ==
  CASE f = "_nanosSinceMidnight" -> "_sourceTime"
    [] f = "_printedToSip" -> "_printableFlag"
    [] OTHER -> f

=============================================================================
