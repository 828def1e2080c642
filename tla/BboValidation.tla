--------------------------- MODULE BboValidation ---------------------------
(***************************************************************************)
(* examples/bbo-validation/main.cpp: the last real quote of every symbol   *)
(* is loaded from the BBO file; the Integrated Feed is replayed into an    *)
(* OrderBook, of which the displayed half matters here, and after every    *)
(* message a symbol's top of book is frozen as long as the message is not  *)
(* later than the symbol's quote; what was frozen is then compared with    *)
(* the quotes.                                                             *)
(*                                                                         *)
(* The messages are those of RestingBook, each with any time: the channel  *)
(* may deliver them late.  The messages that do not move the book leave    *)
(* all of this alone.  A quote has price 0 for a side that is empty.       *)
(***************************************************************************)
EXTENDS Integers, FiniteSets, Maps

CONSTANTS
  Symbols, OrderIds, Prices, Volumes, MaxLevel, MaxFailures,
  Times,        (* nanosSinceMidnight                                      *)
  Quotes,       (* the quotes the BBO file may hold                        *)
  MaxMessages   (* bound on the messages of the feed                       *)

VARIABLES
  orders, levels, bookBuildFailures, conforming,     (* the book           *)
  phase,         (* "loading", "replaying", "compared"                     *)
  reference,     (* reference: symbol to its last real quote               *)
  frozen,        (* frozen: symbol to a top of book                        *)
  compared,      (* the symbols compared                                   *)
  priceMatches,  (* priceMatches[side]: those whose price is the quote's   *)
  volumeMatches, (* volumeMatches[side]: likewise their volume             *)
  messages,      (* how many messages have been replayed                   *)
  latest,        (* history: the latest time of a symbol's messages        *)
  ordered,       (* history: the symbols whose times have not gone back    *)
  asOfQuote,     (* history: a symbol's best orders, until the first       *)
                 (* message later than its quote                           *)
  lastQuote      (* history: what a BBO feed would have sent last          *)

Book == INSTANCE RestingBook

bookVars == <<orders, levels, bookBuildFailures, conforming>>
reportVars == <<compared, priceMatches, volumeMatches>>
historyVars == <<messages, latest, ordered, asOfQuote, lastQuote>>
vars == <<bookVars, phase, reference, frozen, reportVars, historyVars>>

ASSUME BboAssumption ==
  /\ Book!BookAssumption
  /\ Times \subseteq Nat
  /\ 0 \notin Prices
  /\ Quotes \subseteq [bid : Nat, bidVolume : Nat, ask : Nat,
                       askVolume : Nat, time : Times]
  /\ MaxMessages \in Nat

Sides == Book!Sides
Level == [price : Prices, volume : Nat]

TypeOK ==
  /\ Book!TypeOK
  /\ phase \in {"loading", "replaying", "compared"}
  /\ IsMap(reference, Symbols, Quotes)
  /\ DOMAIN frozen \subseteq DOMAIN reference
  /\ \A s \in DOMAIN frozen, side \in Sides :
       /\ frozen[s][side] \subseteq Level
       /\ Cardinality(frozen[s][side]) <= 1
  /\ compared \subseteq DOMAIN frozen
  /\ \A side \in Sides :
       /\ priceMatches[side] \subseteq compared
       /\ volumeMatches[side] \subseteq compared

Init ==
  /\ Book!Init
  /\ phase = "loading"
  /\ reference = Empty /\ frozen = Empty
  /\ compared = {}
  /\ priceMatches = [side \in Sides |-> {}]
  /\ volumeMatches = [side \in Sides |-> {}]
  /\ messages = 0
  /\ latest = Empty /\ ordered = Symbols
  /\ asOfQuote = Empty /\ lastQuote = Empty

-----------------------------------------------------------------------------
(* LoadLastQuote                                                           *)

IsReal(quote) == ~(quote.ask = 0 /\ quote.bid = 0)

(* A quote of no price on either side is the one of the closing time.      *)
LoadQuote(s, quote) ==
  /\ phase = "loading"
  /\ reference' = IF IsReal(quote) THEN Put(reference, s, quote)
                  ELSE reference
  /\ UNCHANGED <<bookVars, phase, frozen, reportVars, historyVars>>

StartReplay ==
  /\ phase = "loading"
  /\ phase' = "replaying"
  /\ UNCHANGED <<bookVars, reference, frozen, reportVars, historyVars>>

-----------------------------------------------------------------------------
(* The callback                                                            *)

(* GetTopOfBook: for each side its best level, if there is one.            *)
TopOfBook(s) ==
  [side \in Sides |->
     LET best == IF side = "bid" THEN Book!BestBid(s) ELSE Book!BestAsk(s)
     IN {[price |-> p, volume |-> levels[s][side][p]] : p \in best}]

(* Mutant: the message at the time of the quote comes too late.            *)
FreezeBefore(s, time) ==
  frozen' = IF s \in DOMAIN reference /\ time < reference[s].time
              THEN Put(frozen, s, TopOfBook(s)') ELSE frozen

Freeze(s, time) ==
  frozen' = IF s \in DOMAIN reference /\ time <= reference[s].time
              THEN Put(frozen, s, TopOfBook(s)') ELSE frozen

(* The best orders of s, with no price levels; at most one on each side.   *)
BestOrders(s) ==
  [side \in Sides |->
     LET prices == {orders[s][o].price :
                      o \in {x \in DOMAIN orders[s] :
                               orders[s][x].side = side}}
         best == {p \in prices :
                    \A q \in prices : IF side = "bid" THEN q <= p ELSE p <= q}
     IN {[price |-> p, volume |-> Book!RestingVolume(s, side, p)] :
           p \in best}]

PriceOf(side) == IF side = {} THEN 0 ELSE (CHOOSE l \in side : TRUE).price
VolumeOf(side) == IF side = {} THEN 0 ELSE (CHOOSE l \in side : TRUE).volume

QuoteOf(top, time) ==
  [bid |-> PriceOf(top["bid"]), bidVolume |-> VolumeOf(top["bid"]),
   ask |-> PriceOf(top["ask"]), askVolume |-> VolumeOf(top["ask"]),
   time |-> time]

(* The histories, which end for a symbol whose times have gone back.  The  *)
(* BBO feed sends a quote on any change of the top, at the time of the     *)
(* message that made it.                                                   *)
Observe(s, time) ==
  LET best == BestOrders(s)'
      quote == QuoteOf(best, time)
      late == s \in DOMAIN latest /\ time < latest[s]
      upToQuote == s \in DOMAIN reference /\ latest'[s] <= reference[s].time
      quoted == best # BestOrders(s) /\ IsReal(quote)
  IN /\ messages' = messages + 1
     /\ latest' = IF late THEN latest ELSE Put(latest, s, time)
     /\ ordered' = IF late THEN ordered \ {s} ELSE ordered
     /\ asOfQuote' = IF s \notin ordered' THEN Drop(asOfQuote, s)
                     ELSE IF upToQuote THEN Put(asOfQuote, s, best)
                     ELSE asOfQuote
     /\ lastQuote' = IF s \notin ordered' THEN Drop(lastQuote, s)
                     ELSE IF quoted THEN Put(lastQuote, s, quote)
                     ELSE lastQuote

(* What ExtractBookEventMeta takes for a message that changes the book of  *)
(* s; the callback returns early for any other.                            *)
BookEvent(s) == Book!Message(s)

Callback(s) ==
  /\ phase = "replaying"
  /\ messages < MaxMessages
  /\ BookEvent(s) /\ Book!WithinBounds'
  /\ \E time \in Times : Freeze(s, time) /\ Observe(s, time)
  /\ UNCHANGED <<phase, reference, reportVars>>

-----------------------------------------------------------------------------
(* The comparison, after Join.                                             *)

ReferencePrice(s, side) ==
  IF side = "bid" THEN reference[s].bid ELSE reference[s].ask
ReferenceVolume(s, side) ==
  IF side = "bid" THEN reference[s].bidVolume ELSE reference[s].askVolume

Report(tops, S) ==
  /\ compared' = S
  /\ priceMatches' = [side \in Sides |->
       {s \in S : \E level \in tops[s][side] :
                    level.price = ReferencePrice(s, side)}]
  /\ volumeMatches' = [side \in Sides |->
       {s \in S : \E level \in tops[s][side] :
                    level.volume = ReferenceVolume(s, side)}]

(* Mutant: the books as the whole file leaves them are compared.           *)
CompareFinalBooks ==
  LET tops == [s \in DOMAIN frozen |-> TopOfBook(s)]
  IN /\ phase = "replaying"
     /\ phase' = "compared"
     /\ Report(tops, {s \in DOMAIN frozen :
                        \E side \in Sides : tops[s][side] # {}})
     /\ UNCHANGED <<bookVars, reference, frozen, historyVars>>

(* A symbol frozen with no order on either side is passed over; a side of  *)
(* it that is empty matches no quote, be it empty too.                     *)
Compare ==
  /\ phase = "replaying"
  /\ phase' = "compared"
  /\ Report(frozen, {s \in DOMAIN frozen :
                       \E side \in Sides : frozen[s][side] # {}})
  /\ UNCHANGED <<bookVars, reference, frozen, historyVars>>

Next ==
  \/ \E s \in Symbols, quote \in Quotes : LoadQuote(s, quote)
  \/ StartReplay
  \/ \E s \in Symbols : Callback(s)
  \/ Compare

Spec == Init /\ [][Next]_vars

-----------------------------------------------------------------------------
(* While the messages of a symbol come in the order of their times, what   *)
(* is frozen is its book, recomputed from the live orders, as of the quote:*)
(* after the last message that is not later, before the first that is.     *)
FrozenIsBookAtQuote ==
  \A s \in ordered :
    conforming[s] =>
      /\ s \in DOMAIN frozen <=> s \in DOMAIN asOfQuote
      /\ s \in DOMAIN frozen => frozen[s] = asOfQuote[s]

(* The validation has no false alarms: if the BBO file ends with the quote *)
(* the replayed orders themselves call for, price and volume match on each *)
(* side the quote has, and the one side they do not match on is a side     *)
(* that is empty in both.  A symbol is left out only if its book has been  *)
(* emptied at the very time of the quote.                                  *)
ConsistentFeedValidates ==
  phase = "compared" =>
    \A s \in ordered \cap DOMAIN reference \cap DOMAIN lastQuote :
      conforming[s] /\ reference[s] = lastQuote[s] =>
        IF s \in compared
        THEN \A side \in Sides :
               LET quoted == ReferencePrice(s, side) # 0
               IN /\ s \in priceMatches[side] <=> quoted
                  /\ s \in volumeMatches[side] <=> quoted
        ELSE \A side \in Sides : asOfQuote[s][side] = {}

=============================================================================
