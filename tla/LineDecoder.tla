---------------------------- MODULE LineDecoder ----------------------------
(***************************************************************************)
(* What the callers of CSVReader do with a line, from its first field to   *)
(* what they hand on: Parser::ParseNext (include/schema/nyse/parse.hpp)    *)
(* and the loaders of the examples, LoadLastQuote, LoadStockSummary and    *)
(* LoadTrades.  "anyone" is a caller that uses a reader in any order,      *)
(* which is what csv.hpp allows.                                           *)
(***************************************************************************)
EXTENDS CsvReader, NyseTypes

CONSTANTS
  LinesOf,   (* LinesOf[c]: the lines that caller c may be given           *)
  Zeros      (* the numerals and decimals that are read as 0               *)

VARIABLES
  caller,
  pc,         (* where the caller is: "start", "header", "body", "done"    *)
  recorded,   (* what RecordSequence was called with, <<>> before          *)
  outcome,    (* what became of the line, "" before that is known          *)
  message     (* the fields handed on                                      *)

vars == <<csvVars, caller, pc, recorded, outcome, message>>

Loaders == {"LoadLastQuote", "LoadStockSummary", "LoadTrades"}
Callers == Loaders \cup {"ParseNext", "anyone"}

ASSUME LinesAssumption ==
  /\ LinesOf \in [Callers -> SUBSET Seq(Pieces)]
  /\ Zeros \subseteq Numerals \cup Decimals

(* The switch of ParseNext, and the types the loaders look for.            *)
CaseOf ==
  [ParseNext |->
     "003" :> "SymbolIndexMapping" @@ "034" :> "SecurityStatus"
       @@ "100" :> "AddOrder" @@ "101" :> "ModifyOrder"
       @@ "102" :> "DeleteOrder" @@ "103" :> "OrderExecution"
       @@ "104" :> "ReplaceOrder" @@ "105" :> "Imbalance"
       @@ "106" :> "AddOrderRefresh" @@ "110" :> "NonDisplayedTrade"
       @@ "111" :> "CrossTrade" @@ "112" :> "TradeCancel"
       @@ "113" :> "CrossCorrection" @@ "114" :> "RetailPriceImprovement",
   LoadLastQuote |-> [type \in {"140"} |-> "Quote"],
   LoadStockSummary |-> [type \in {"223"} |-> "StockSummary"],
   LoadTrades |-> "220" :> "TaqTrade" @@ "221" :> "TradeCancel"
                    @@ "222" :> "TaqTradeCorrection",
   anyone |-> << >>]

(* What the loaders take of a structure.                                   *)
TakenFields ==
  [Quote |-> {"_symbol", "_askPrice", "_askVolume", "_bidPrice",
              "_bidVolume", "_sourceTime"},
   StockSummary |-> {"_symbol", "_highPrice", "_lowPrice", "_open", "_close",
                     "_totalVolume"},
   TaqTrade |-> {"_symbol", "_tradeId", "_price", "_volume"},
   TradeCancel |-> {"_symbol", "_tradeId"},
   TaqTradeCorrection |-> {"_symbol", "_originalTradeId", "_tradeId",
                           "_price", "_volume"}]

FieldsFor(c, T) == IF c = "ParseNext" THEN PublicFields[T] ELSE TakenFields[T]

HandedOn(T) == FieldsFor(caller, T)

(* The header is a type and a sequence number, and every field that is     *)
(* handed on is one of its structure's.                                    *)
ASSUME LayoutAssumption ==
  /\ "MessageHeader" \in Structs
  /\ Members["MessageHeader"] = <<"_msgType", "_sequenceNumber">>
  /\ {"_msgType", "_sequenceNumber"} \subseteq Fields
  /\ KindOf["_msgType"] = "byte" /\ KindOf["_sequenceNumber"] = "number"
  /\ \A c \in Callers : \A type \in DOMAIN CaseOf[c] :
       LET T == CaseOf[c][type]
       IN /\ T \in Structs
          /\ \A f \in FieldsFor(c, T) :
               \E i \in DOMAIN WireFields[T] :
                 WireFields[T][i] = WireNameOf(f)

(* ParseError::unknown is left out: nothing in ParseNext throws but the    *)
(* reader, unless memory or the logger fails it.                           *)
Outcomes == {"", "none", "message_decode", "unknown_msg_type", "skipped"}

TypeOK ==
  /\ CsvTypeOK
  /\ caller \in Callers
  /\ pc \in {"start", "header", "body", "done"}
  /\ recorded \in {<<>>} \cup (Seq(Numerals) \X Seq(Numerals))
  /\ outcome \in Outcomes
  /\ outcome = "none" => DOMAIN message = HandedOn(target)

Init ==
  /\ caller \in Callers
  /\ csvLine \in LinesOf[caller]
  /\ CsvInit
  /\ pc = "start" /\ recorded = <<>> /\ outcome = "" /\ message = << >>

-----------------------------------------------------------------------------
Case(type) ==
  IF Len(type) = 1 /\ type[1] \in DOMAIN CaseOf[caller]
    THEN {CaseOf[caller][type[1]]} ELSE {}

(* Field f of the structure that has been built: the flag is made a bool.  *)
FieldValue(T, f) ==
  LET at == CHOOSE i \in DOMAIN WireFields[T] :
              WireFields[T][i] = WireNameOf(f)
  IN IF f = "_printedToSip"
       THEN <<IF values[at] = <<"000">> THEN "false" ELSE "true">>
       ELSE values[at]

Finish(result) ==
  /\ pc' = "done"
  /\ outcome' = result
  /\ UNCHANGED <<csvVars, caller, message>>

Built == frames = <<>> /\ error = NoError
Failed == frames = <<>> /\ error # NoError

(* ParseNext                                                               *)
ReadHeader ==
  /\ caller = "ParseNext" /\ pc = "start"
  /\ Construct("MessageHeader")
  /\ pc' = "header"
  /\ UNCHANGED <<caller, recorded, outcome, message>>

(* A CSVReader::Error of the header, or of the body.                       *)
DecodeFails ==
  /\ caller = "ParseNext" /\ pc \in {"header", "body"} /\ Failed
  /\ Finish("message_decode")
  /\ UNCHANGED recorded

UnknownType ==
  /\ caller = "ParseNext" /\ pc = "header" /\ Built
  /\ Case(values[1]) = {}
  /\ recorded' = values
  /\ Finish("unknown_msg_type")

(* Mutant: a number is recorded once its message is complete.              *)
ReadBodyUnrecorded ==
  /\ caller = "ParseNext" /\ pc = "header" /\ Built
  /\ \E T \in Case(values[1]) : Construct(T)
  /\ pc' = "body"
  /\ UNCHANGED <<caller, recorded, outcome, message>>

(* The structure of the body begins with the header once more.             *)
ReadBody ==
  /\ caller = "ParseNext" /\ pc = "header" /\ Built
  /\ recorded' = values
  /\ \E T \in Case(values[1]) : Construct(T)
  /\ pc' = "body"
  /\ UNCHANGED <<caller, outcome, message>>

(* The loaders                                                             *)
LookAtType ==
  /\ caller \in Loaders /\ pc = "start"
  /\ GetField(0)
  /\ pc' = "header"
  /\ UNCHANGED <<caller, recorded, outcome, message>>

SkipOtherType ==
  /\ caller \in Loaders /\ pc = "header"
  /\ \A type \in Answer(0) : Case(type) = {}
  /\ Finish("skipped")
  /\ UNCHANGED recorded

ReadRecord ==
  /\ caller \in Loaders /\ pc = "header"
  /\ \E type \in Answer(0) : \E T \in Case(type) : Construct(T)
  /\ pc' = "body"
  /\ UNCHANGED <<caller, recorded, outcome, message>>

SkipBadRecord ==
  /\ caller \in Loaders /\ pc = "body" /\ Failed
  /\ Finish("skipped")
  /\ UNCHANGED recorded

PriceFields == {"_askPrice", "_bidPrice"}

(* A text of a number or a decimal, and of the value 0.                    *)
IsZero(text) == \A i \in DOMAIN text : text[i] \in Zeros

(* Mutant: a quote of one side only is taken for the closing one.          *)
OneSidedQuoteBuilt ==
  /\ caller = "LoadLastQuote"
  /\ \E f \in PriceFields : IsZero(FieldValue(target, f))

(* The quote with no price on either side that ends a symbol's day.        *)
ClosingQuoteBuilt ==
  /\ caller = "LoadLastQuote"
  /\ \A f \in PriceFields : IsZero(FieldValue(target, f))

SkipClosingQuote ==
  /\ pc = "body" /\ Built /\ ClosingQuoteBuilt
  /\ Finish("skipped")
  /\ UNCHANGED recorded

(* What the structure is built for: its fields are taken out of it.        *)
HandOn ==
  /\ pc = "body" /\ Built
  /\ message' = [f \in HandedOn(target) |-> FieldValue(target, f)]
  /\ pc' = "done"
  /\ outcome' = "none"
  /\ UNCHANGED <<csvVars, caller, recorded>>

(* Emit of the public message.                                             *)
EmitMessage == caller = "ParseNext" /\ HandOn

(* An entry of the loader's table, or a call of its ledger.                *)
StoreRecord == caller \in Loaders /\ HandOn /\ ~ClosingQuoteBuilt

Build ==
  /\ Construction
  /\ UNCHANGED <<caller, pc, recorded, outcome, message>>

UseReader ==
  /\ caller = "anyone"
  /\ CsvNext
  /\ UNCHANGED <<caller, pc, recorded, outcome, message>>

Next ==
  \/ ReadHeader \/ ReadBody \/ DecodeFails \/ UnknownType
  \/ LookAtType \/ SkipOtherType \/ ReadRecord \/ SkipBadRecord
  \/ SkipClosingQuote \/ EmitMessage \/ StoreRecord \/ Build \/ UseReader

Spec == Init /\ [][Next]_vars

-----------------------------------------------------------------------------
(* What a line says, with no reader: its structure is that of its type.    *)
TypeOfLine == Case(Split[1])

Decodes(T) == BadFields(T) = {}

TextOf(T, f) ==
  Split[CHOOSE i \in DOMAIN WireFields[T] : WireFields[T][i] = WireNameOf(f)]

IsClosing(T) ==
  caller = "LoadLastQuote" /\ \A f \in PriceFields : IsZero(TextOf(T, f))

(* The structure to hand on, if any: at most one.                          *)
Wanted == {T \in TypeOfLine : Decodes(T) /\ ~IsClosing(T)}

(* A line is handed on if and only if its type is looked for, each field   *)
(* of its layout, header and reserved fields included, is there and        *)
(* converts, and it is not, for LoadLastQuote, the quote of the closing    *)
(* time, which has the price 0 on both sides; every field handed on is     *)
(* then the text at its place in the line.  ParseNext has recorded the     *)
(* line's own sequence number whenever the header could be read, whatever  *)
(* came of the body, and never else.                                       *)
LinesAreDecodedWhole ==
  pc = "done" =>
    LET header == caller = "ParseNext" => Decodes("MessageHeader")
    IN /\ outcome = "none" <=> header /\ Wanted # {}
       /\ caller = "ParseNext" =>
            /\ recorded = IF header THEN <<Split[1], Split[2]>> ELSE <<>>
            /\ outcome = "unknown_msg_type" <=> header /\ TypeOfLine = {}
       /\ outcome = "none" =>
            \A T \in Wanted : \A f \in DOMAIN message :
              IF f = "_printedToSip"
                THEN message[f] = <<"true">> <=> TextOf(T, f) # <<"000">>
                ELSE message[f] = TextOf(T, f)

=============================================================================
