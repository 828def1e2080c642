--------------------------- MODULE ExamplesProofs ---------------------------
(***************************************************************************)
(* Theorems about the programs of examples/, for any symbols, any finite   *)
(* set of order ids, any trade ids, prices, volumes, times, quotes and     *)
(* summaries, and files of any length: first BboValidation, then           *)
(* StockSummary, then Examples, which runs either.  What RestingBookProofs *)
(* says of the book (Facts) and TradeLedgerProofs of the ledger (Ledger)   *)
(* is used as it is.                                                       *)
(***************************************************************************)
EXTENDS Examples, Sequences, FiniteSetTheorems, TLAPS

Facts == INSTANCE RestingBookProofs
Ledger == INSTANCE TradeLedgerProofs

(* One side of a top of book: empty, or one price and its volume.          *)
OneLevel(side) ==
  side = {} \/ \E price \in Prices : \E volume :
                 side = {[price |-> price, volume |-> volume]}

IsTop(top) == \A side \in Sides : OneLevel(top[side])

(* What the proofs need of the book: its top, read from the levels, is     *)
(* that of its live orders.                                                *)
TopIsBest ==
  \A s \in Symbols :
    /\ IsTop(BestOrders(s))
    /\ conforming[s] => TopOfBook(s) = BestOrders(s)

ReplayTypes ==
  /\ IsMap(reference, Symbols, Quotes)
  /\ IsMap(latest, Symbols, Times)
  /\ DOMAIN asOfQuote \subseteq Symbols
  /\ DOMAIN frozen \subseteq Symbols
  /\ DOMAIN lastQuote \subseteq Symbols
  /\ \A s \in DOMAIN lastQuote : lastQuote[s].time \in Times
  /\ \A s \in DOMAIN asOfQuote : IsTop(asOfQuote[s])

NothingReplayed ==
  frozen = Empty /\ latest = Empty /\ asOfQuote = Empty /\ lastQuote = Empty

IsBlank(top) == \A side \in Sides : top[side] = {}

(* The replay of one symbol whose times have not gone back: what is frozen *)
(* is its book as of the quote; its last quote is not later than its last  *)
(* message; up to the quote's time the best orders are those of the book;  *)
(* and if the last quote is of the time of the reference, it is that of    *)
(* the best orders, unless they have gone since.                           *)
SymbolInv(s) ==
  s \in ordered =>
    /\ conforming[s] =>
         /\ s \in DOMAIN frozen <=> s \in DOMAIN asOfQuote
         /\ s \in DOMAIN frozen => frozen[s] = asOfQuote[s]
    /\ s \in DOMAIN lastQuote =>
         s \in DOMAIN latest /\ lastQuote[s].time <= latest[s]
    /\ s \in DOMAIN latest /\ s \in DOMAIN reference =>
         (latest[s] <= reference[s].time =>
            s \in DOMAIN asOfQuote /\ asOfQuote[s] = BestOrders(s))
    /\ s \in DOMAIN lastQuote /\ s \in DOMAIN reference =>
         (lastQuote[s].time = reference[s].time =>
            /\ s \in DOMAIN asOfQuote
            /\ \/ IsBlank(asOfQuote[s])
               \/ QuoteOf(asOfQuote[s], reference[s].time) = lastQuote[s])

(* The inductive invariant.                                                *)
IInv ==
  /\ ReplayTypes
  /\ ordered \subseteq Symbols
  /\ phase = "loading" => NothingReplayed
  /\ \A s \in Symbols : SymbolInv(s)
  /\ ConsistentFeedValidates

-----------------------------------------------------------------------------
(* The book of this module is the one the theorems are about.              *)

(* A book starts empty.                                                    *)
LEMMA SameInit == Book!Init => Facts!Init
BY DEF Book!Init, Facts!Init, Book!Empty, Facts!Empty, Book!Sides,
       Facts!Sides

(* The messages are the same ...                                           *)
LEMMA SameMessage == ASSUME NEW s, Book!Message(s) PROVE Facts!Message(s)
BY DEF Book!Message, Facts!Message, Book!Amend, Facts!Amend, Book!Enter,
       Facts!Enter, Book!AddOrder, Facts!AddOrder, Book!AddOrderRefresh,
       Facts!AddOrderRefresh, Book!DeleteOrder, Facts!DeleteOrder,
       Book!OrderExecution, Facts!OrderExecution, Book!ModifyOrder,
       Facts!ModifyOrder, Book!ReplaceOrder, Facts!ReplaceOrder,
       Book!UnknownOrder, Facts!UnknownOrder, Book!Given, Facts!Given,
       Book!Live, Facts!Live, Book!Sides, Facts!Sides, Book!AddLevel,
       Facts!AddLevel, Book!RemoveLevel, Facts!RemoveLevel, Book!CanRemove,
       Facts!CanRemove, Book!FailureIf, Facts!FailureIf,
       Book!AfterExecution, Facts!AfterExecution, Book!Put, Facts!Put,
       Book!Drop, Facts!Drop, Book!CountAt, Facts!CountAt

(* ... and so are the bounds.                                              *)
LEMMA SameBounds == Book!WithinBounds => Facts!WithinBounds
BY DEF Book!WithinBounds, Facts!WithinBounds, Book!Sides, Facts!Sides

(* The assumption on the constants of the book is part of this module's.   *)
LEMMA SameAssumption == Facts!BookAssumption
BY BboAssumption DEF Book!BookAssumption, Facts!BookAssumption,
       Facts!IsFiniteSet, Book!IsFiniteSet

(* The program's book makes steps of a RestingBook only.                   *)
LEMMA BookStep == [Next]_vars => [Facts!Next]_(Facts!bookVars)
<1> SUFFICES ASSUME [Next]_vars PROVE [Facts!Next]_(Facts!bookVars)
  OBVIOUS
<1> USE DEF bookVars, Facts!bookVars
<1>1. ASSUME NEW s \in Symbols, Callback(s) PROVE Facts!Next
  <2>1. Book!Message(s) /\ Book!WithinBounds'
    BY <1>1 DEF Callback, BookEvent
  <2>2. (Book!WithinBounds => Facts!WithinBounds)'
    BY SameBounds, PTL
  <2>3. QED
    BY <2>1, <2>2, SameMessage DEF Facts!Next
<1>2. ASSUME NEW s, NEW quote, LoadQuote(s, quote) PROVE UNCHANGED bookVars
  BY <1>2 DEF LoadQuote
<1>3. StartReplay \/ Compare \/ UNCHANGED vars => UNCHANGED bookVars
  BY DEF StartReplay, Compare, vars
<1>4. QED
  BY <1>1, <1>2, <1>3 DEF Next

-----------------------------------------------------------------------------
(* The best orders of a symbol are a top of book.                          *)
LEMMA BestIsTop ==
  ASSUME Facts!TypeOK, NEW s \in Symbols
  PROVE  IsTop(BestOrders(s))
<1> SUFFICES ASSUME NEW side \in Sides PROVE OneLevel(BestOrders(s)[side])
  BY DEF IsTop
<1> DEFINE prices == {orders[s][o].price :
                        o \in {x \in DOMAIN orders[s] :
                                 orders[s][x].side = side}}
           best == {p \in prices :
                      \A q \in prices : IF side = "bid" THEN q <= p
                                        ELSE p <= q}
<1>1. prices \subseteq Prices /\ Prices \subseteq Nat
  BY BboAssumption DEF Book!BookAssumption, Facts!TypeOK, Facts!IsMap,
         Facts!LiveOrder
<1>2. BestOrders(s)[side]
        = {[price |-> p, volume |-> Book!RestingVolume(s, side, p)] :
             p \in best}
  BY DEF BestOrders
<1>3. ASSUME NEW p \in best, NEW q \in best PROVE p = q
  <2>1. p \in Nat /\ q \in Nat
    BY <1>1
  <2>2. \/ p <= q /\ q <= p
        \/ q <= p /\ p <= q
    OBVIOUS
  <2>3. QED
    BY <2>1, <2>2
<1> HIDE DEF best, prices
<1>4. best \subseteq Prices
  BY <1>1 DEF best
<1>5. CASE best = {}
  BY <1>2, <1>5 DEF OneLevel
<1>6. ASSUME NEW p \in best PROVE OneLevel(BestOrders(s)[side])
  <2>1. best = {p}
    BY <1>3, <1>6
  <2>2. BestOrders(s)[side]
          = {[price |-> p, volume |-> Book!RestingVolume(s, side, p)]}
    BY <1>2, <2>1
  <2>3. QED
    BY <1>4, <2>2 DEF OneLevel
<1>7. QED
  BY <1>5, <1>6

(* What is read from levels that match the orders is the best orders.      *)
LEMMA TopOfMatchingLevels ==
  ASSUME Facts!TypeOK, Facts!LevelsMatchOrders,
         Facts!TopOfBookIsBestOrder, NEW s \in Symbols, conforming[s]
  PROVE  TopOfBook(s) = BestOrders(s)
<1> DEFINE prices(side) == {orders[s][o].price :
                              o \in {x \in DOMAIN orders[s] :
                                       orders[s][x].side = side}}
           best(side) == {p \in prices(side) :
                            \A q \in prices(side) :
                              IF side = "bid" THEN q <= p ELSE p <= q}
           top(side) == IF side = "bid" THEN Book!BestBid(s)
                        ELSE Book!BestAsk(s)
<1>1. ASSUME NEW side \in Sides PROVE prices(side) \subseteq Nat
  <2>1. \A o \in DOMAIN orders[s] : orders[s][o].price \in Prices
    BY DEF Facts!TypeOK, Facts!IsMap, Facts!LiveOrder
  <2>2. QED
    BY <2>1, BboAssumption DEF Book!BookAssumption
<1>2. Book!BestBid(s) = best("bid") /\ Book!BestAsk(s) = best("ask")
  <2>1. /\ Facts!BestBid(s) = Book!BestBid(s)
        /\ Facts!BestAsk(s) = Book!BestAsk(s)
    BY DEF Facts!BestBid, Book!BestBid, Facts!BestAsk, Book!BestAsk
  <2>2. /\ Facts!BestBid(s) = {p \in prices("bid") :
                                 \A q \in prices("bid") : q <= p}
        /\ Facts!BestAsk(s) = {p \in prices("ask") :
                                 \A q \in prices("ask") : q >= p}
    BY DEF Facts!TopOfBookIsBestOrder
  <2>3. /\ best("bid") = {p \in prices("bid") :
                            \A q \in prices("bid") : q <= p}
        /\ best("ask") = {p \in prices("ask") :
                            \A q \in prices("ask") : q >= p}
    BY <1>1 DEF Sides, Book!Sides
  <2>4. QED
    BY <2>1, <2>2, <2>3
<1>3. \A side \in Sides : top(side) = best(side)
  BY <1>2 DEF Sides, Book!Sides
<1>4. \A side \in Sides : top(side) \subseteq DOMAIN levels[s][side]
  BY DEF Sides, Book!Sides, Book!BestBid, Book!BestAsk
<1>5. \A side \in Sides : DOMAIN levels[s][side] \subseteq Prices
  BY DEF Facts!TypeOK, Facts!IsMap, Sides, Book!Sides, Facts!Sides
<1>6. \A side \in Sides : \A p \in top(side) :
        levels[s][side][p] = Book!RestingVolume(s, side, p)
  <2> SUFFICES ASSUME NEW side \in Sides, NEW p \in top(side)
               PROVE  levels[s][side][p] = Book!RestingVolume(s, side, p)
    OBVIOUS
  <2>1. p \in Prices /\ p \in DOMAIN levels[s][side]
    BY <1>4, <1>5
  <2>2. Facts!CountAt(levels[s][side], p) = Facts!RestingVolume(s, side, p)
    BY <2>1 DEF Facts!LevelsMatchOrders, Facts!Matches, Sides, Book!Sides,
                Facts!Sides
  <2>3. Facts!RestingVolume(s, side, p) = Book!RestingVolume(s, side, p)
    BY DEF Facts!RestingVolume, Book!RestingVolume, Facts!Shares,
           Book!Shares, Facts!OrdersAt, Book!OrdersAt, Facts!Cardinality,
           Book!Cardinality, Facts!IsFiniteSet, Book!IsFiniteSet
  <2>4. QED
    BY <2>1, <2>2, <2>3 DEF Facts!CountAt
<1> HIDE DEF prices, best, top
<1>7. \A side \in Sides :
        {[price |-> p, volume |-> levels[s][side][p]] : p \in top(side)}
          = {[price |-> p, volume |-> Book!RestingVolume(s, side, p)] :
               p \in best(side)}
  BY <1>3, <1>6
<1>8. QED
  BY <1>7 DEF TopOfBook, BestOrders, top, best, prices

-----------------------------------------------------------------------------
(* Maps                                                                    *)

(* m and n agree on whether there is an entry for k, and on the entry.     *)
SameAt(m, n, k) ==
  /\ k \in DOMAIN m <=> k \in DOMAIN n
  /\ k \in DOMAIN m => m[k] = n[k]

(* Another entry is put or dropped.                                        *)
LEMMA OtherEntry ==
  ASSUME NEW m, NEW k, NEW v, NEW x, x # k
  PROVE  SameAt(Put(m, k, v), m, x) /\ SameAt(Drop(m, k), m, x)
BY DEF SameAt, Put, Drop

-----------------------------------------------------------------------------
(* A message of symbol s leaves the orders of the others alone, and a      *)
(* symbol that has not conformed never does again.                         *)
LEMMA MessageFrame ==
  ASSUME Facts!TypeOK, NEW s \in Symbols, Book!Message(s), NEW r \in Symbols
  PROVE  /\ r # s => orders'[r] = orders[r] /\ conforming'[r] = conforming[r]
         /\ conforming'[r] => conforming[r]
<1> DEFINE frame == /\ r # s => /\ orders'[r] = orders[r]
                                /\ conforming'[r] = conforming[r]
                    /\ conforming'[r] => conforming[r]
<1>1. /\ DOMAIN orders = Symbols
      /\ conforming \in [Symbols -> BOOLEAN]
  BY DEF Facts!TypeOK
<1>2. ASSUME NEW o, Book!UnknownOrder(s, o) PROVE frame
  BY <1>2 DEF Book!UnknownOrder
<1>3. ASSUME NEW o, Book!DeleteOrder(s, o) PROVE frame
  BY <1>1, <1>2, <1>3 DEF Book!DeleteOrder
<1>4. ASSUME NEW o, NEW volume, Book!OrderExecution(s, o, volume) PROVE frame
  BY <1>1, <1>2, <1>4 DEF Book!OrderExecution
<1>5. ASSUME NEW o, NEW price, NEW volume,
             Book!ModifyOrder(s, o, price, volume)
      PROVE  frame
  BY <1>1, <1>2, <1>5 DEF Book!ModifyOrder
<1>6. ASSUME NEW o, NEW price, NEW volume, NEW side,
             Book!AddOrder(s, o, price, volume, side)
      PROVE  frame
  BY <1>1, <1>6 DEF Book!AddOrder, Book!Given
<1>7. ASSUME NEW o, NEW n, NEW price, NEW volume, NEW side,
             Book!ReplaceOrder(s, o, n, price, volume, side)
      PROVE  frame
  BY <1>1, <1>7 DEF Book!ReplaceOrder, Book!Given
<1> HIDE DEF frame
<1>8. frame
  BY <1>3, <1>4, <1>5, <1>6, <1>7
  DEF Book!Message, Book!Amend, Book!Enter, Book!AddOrderRefresh
<1>9. QED
  BY <1>8 DEF frame

(* The best orders of a symbol depend on its orders alone.                 *)
LEMMA BestOfSameOrders ==
  ASSUME NEW r, orders'[r] = orders[r]
  PROVE  BestOrders(r)' = BestOrders(r)
BY DEF BestOrders, Book!RestingVolume, Book!Shares, Book!OrdersAt

(* What a message does to the replay of another symbol: nothing.           *)
LEMMA OtherSymbol ==
  ASSUME Facts!TypeOK, NEW s \in Symbols, Callback(s), NEW r \in Symbols,
         r # s, SymbolInv(r)
  PROVE  SymbolInv(r)'
<1>1. PICK time \in Times : Freeze(s, time) /\ Observe(s, time)
  BY DEF Callback, BookEvent
<1>2. r \in ordered' <=> r \in ordered
  BY <1>1 DEF Observe
<1>3. SameAt(frozen', frozen, r) /\ SameAt(latest', latest, r)
  <2>1. SameAt(frozen, frozen, r) /\ SameAt(latest, latest, r)
    BY DEF SameAt
  <2>2. /\ frozen' = Put(frozen, s, TopOfBook(s)') \/ frozen' = frozen
        /\ latest' = Put(latest, s, time) \/ latest' = latest
    BY <1>1 DEF Freeze, Observe
  <2>3. QED
    BY <2>1, <2>2, OtherEntry
<1>4. SameAt(asOfQuote', asOfQuote, r) /\ SameAt(lastQuote', lastQuote, r)
  <2>1. SameAt(asOfQuote, asOfQuote, r) /\ SameAt(lastQuote, lastQuote, r)
    BY DEF SameAt
  <2>2. /\ \/ asOfQuote' = asOfQuote \/ asOfQuote' = Drop(asOfQuote, s)
           \/ asOfQuote' = Put(asOfQuote, s, BestOrders(s)')
        /\ \/ lastQuote' = lastQuote \/ lastQuote' = Drop(lastQuote, s)
           \/ lastQuote' = Put(lastQuote, s, QuoteOf(BestOrders(s)', time))
    BY <1>1 DEF Observe
  <2>3. QED
    BY <2>1, <2>2, OtherEntry
<1>5. orders'[r] = orders[r] /\ conforming'[r] = conforming[r]
  BY MessageFrame DEF Callback, BookEvent
<1>6. BestOrders(r)' = BestOrders(r)
  BY <1>5, BestOfSameOrders
<1>7. reference' = reference
  BY DEF Callback, BookEvent
<1>8. QED
  BY <1>2, <1>3, <1>4, <1>5, <1>6, <1>7 DEF SymbolInv, SameAt, QuoteOf

-----------------------------------------------------------------------------
(* A top of book whose quote is not real is empty.                         *)
LEMMA UnrealIsBlank ==
  ASSUME NEW top, IsTop(top), NEW time,
         ~IsReal(QuoteOf(top, time))
  PROVE  IsBlank(top)
<1>1. ASSUME NEW side \in Sides, PriceOf(top[side]) = 0
      PROVE  top[side] = {}
  <2>1. OneLevel(top[side]) /\ 0 \notin Prices
    BY BboAssumption DEF IsTop
  <2>2. QED
    BY <1>1, <2>1 DEF OneLevel, PriceOf
<1>2. PriceOf(top["bid"]) = 0 /\ PriceOf(top["ask"]) = 0
  BY DEF IsReal, QuoteOf
<1>3. QED
  BY <1>1, <1>2 DEF IsBlank, Sides, Book!Sides

(* What a message does to the replay of its own symbol.                    *)
LEMMA OwnSymbol ==
  ASSUME Facts!TypeOK, TopIsBest', ReplayTypes,
         NEW s \in Symbols, Callback(s), SymbolInv(s)
  PROVE  SymbolInv(s)'
<1>1. PICK time \in Times : Freeze(s, time) /\ Observe(s, time)
  BY DEF Callback, BookEvent
<1> DEFINE best == BestOrders(s)'
           upToQuote == s \in DOMAIN reference /\ time <= reference[s].time
           quoted == best # BestOrders(s) /\ IsReal(QuoteOf(best, time))
<1> SUFFICES ASSUME s \in ordered' PROVE SymbolInv(s)'
  BY DEF SymbolInv
<1>2. /\ s \in ordered
      /\ s \in DOMAIN latest => latest[s] <= time
      /\ s \in DOMAIN latest' /\ latest'[s] = time
  <2>1. ~(s \in DOMAIN latest /\ time < latest[s])
    BY <1>1 DEF Observe
  <2>2. ordered' = ordered /\ latest' = Put(latest, s, time)
    BY <1>1, <2>1 DEF Observe
  <2>3. s \in DOMAIN latest => latest[s] \in Nat
    BY BboAssumption DEF ReplayTypes, IsMap
  <2>4. time \in Nat
    BY BboAssumption
  <2>5. QED
    BY <2>1, <2>2, <2>3, <2>4 DEF Put
<1>3. reference' = reference
  BY DEF Callback, BookEvent
<1>4. /\ frozen' = IF upToQuote THEN Put(frozen, s, TopOfBook(s)') ELSE frozen
      /\ asOfQuote' = IF upToQuote THEN Put(asOfQuote, s, best)
                      ELSE asOfQuote
      /\ lastQuote' = IF quoted THEN Put(lastQuote, s, QuoteOf(best, time))
                      ELSE lastQuote
  BY <1>1, <1>2 DEF Freeze, Observe
<1>5. conforming'[s] => conforming[s] /\ TopOfBook(s)' = best
  BY MessageFrame DEF Callback, BookEvent, TopIsBest
<1>6. IsTop(best)
  BY DEF TopIsBest
<1>7. /\ time \in Nat
      /\ s \in DOMAIN reference => reference[s].time \in Nat
      /\ s \in DOMAIN latest => latest[s] \in Nat
      /\ s \in DOMAIN lastQuote => lastQuote[s].time \in Nat
  BY BboAssumption DEF ReplayTypes, IsMap
<1> HIDE DEF best
<1>8. ASSUME upToQuote
      PROVE  /\ s \in DOMAIN asOfQuote' /\ asOfQuote'[s] = best
             /\ s \in DOMAIN frozen' /\ frozen'[s] = TopOfBook(s)'
  BY <1>4, <1>8 DEF Put
<1>9. ASSUME quoted
      PROVE  s \in DOMAIN lastQuote' /\ lastQuote'[s] = QuoteOf(best, time)
  BY <1>4, <1>9 DEF Put
<1>10. QuoteOf(best, time).time = time
  BY DEF QuoteOf
<1>11. ASSUME conforming'[s]
       PROVE  /\ s \in DOMAIN frozen' <=> s \in DOMAIN asOfQuote'
              /\ s \in DOMAIN frozen' => frozen'[s] = asOfQuote'[s]
  <2>1. CASE upToQuote
    BY <1>5, <1>8, <1>11, <2>1
  <2>2. CASE ~upToQuote
    BY <1>2, <1>4, <1>5, <1>11, <2>2 DEF SymbolInv
  <2>3. QED
    BY <2>1, <2>2
<1>12. s \in DOMAIN lastQuote' => lastQuote'[s].time <= time
  <2>1. CASE quoted
    BY <1>7, <1>9, <1>10, <2>1
  <2>2. CASE ~quoted
    BY <1>2, <1>4, <1>7, <2>2 DEF SymbolInv
  <2>3. QED
    BY <2>1, <2>2
<1>13. ASSUME s \in DOMAIN reference, time <= reference[s].time
       PROVE  s \in DOMAIN asOfQuote' /\ asOfQuote'[s] = best
  BY <1>8, <1>13
<1>14. ASSUME s \in DOMAIN lastQuote', s \in DOMAIN reference,
              lastQuote'[s].time = reference[s].time
       PROVE  /\ s \in DOMAIN asOfQuote'
              /\ \/ IsBlank(asOfQuote'[s])
                 \/ QuoteOf(asOfQuote'[s], reference[s].time) = lastQuote'[s]
  <2>1. CASE quoted
    <3>1. time = reference[s].time /\ upToQuote
      BY <1>7, <1>9, <1>10, <1>14, <2>1
    <3>2. QED
      BY <1>8, <1>9, <2>1, <3>1
  <2>2. CASE ~quoted
    <3>1. lastQuote' = lastQuote
      BY <1>4, <2>2
    <3>2. /\ s \in DOMAIN asOfQuote
          /\ \/ IsBlank(asOfQuote[s])
             \/ QuoteOf(asOfQuote[s], reference[s].time) = lastQuote[s]
      BY <1>2, <1>14, <3>1 DEF SymbolInv
    <3>3. /\ s \in DOMAIN latest
          /\ reference[s].time <= latest[s] /\ latest[s] <= time
      BY <1>2, <1>14, <3>1 DEF SymbolInv
    <3>4. CASE ~upToQuote
      BY <1>4, <3>1, <3>2, <3>4
    <3>5. CASE upToQuote /\ best = BestOrders(s)
      <4>1. latest[s] = reference[s].time
        BY <1>7, <3>3, <3>5
      <4>2. asOfQuote[s] = best
        BY <1>2, <1>7, <3>3, <3>5, <4>1 DEF SymbolInv
      <4>3. QED
        BY <1>8, <3>1, <3>2, <3>5, <4>2
    <3>6. CASE upToQuote /\ ~IsReal(QuoteOf(best, time))
      BY <1>6, <1>8, <3>6, UnrealIsBlank
    <3>7. QED
      BY <2>2, <3>4, <3>5, <3>6
  <2>3. QED
    BY <2>1, <2>2
<1>15. QED
  BY <1>2, <1>3, <1>11, <1>12, <1>13, <1>14 DEF SymbolInv, best, QuoteOf

-----------------------------------------------------------------------------
(* A message keeps the types.                                              *)
LEMMA CallbackTypes ==
  ASSUME TopIsBest', ReplayTypes, ordered \subseteq Symbols,
         NEW s \in Symbols, Callback(s)
  PROVE  ReplayTypes' /\ ordered' \subseteq Symbols
<1>1. PICK time \in Times : Freeze(s, time) /\ Observe(s, time)
  BY DEF Callback, BookEvent
<1>2. reference' = reference
  BY DEF Callback, BookEvent
<1>3. ordered' \subseteq Symbols
  BY <1>1 DEF Observe
<1>4. IsMap(latest', Symbols, Times)
  <2>1. latest' = latest \/ latest' = Put(latest, s, time)
    BY <1>1 DEF Observe
  <2>2. QED
    BY <2>1 DEF ReplayTypes, IsMap, Put
<1>5. DOMAIN frozen' \subseteq Symbols
  BY <1>1 DEF Freeze, ReplayTypes, Put
<1>6. /\ DOMAIN asOfQuote' \subseteq Symbols
      /\ \A r \in DOMAIN asOfQuote' : IsTop(asOfQuote'[r])
  <2>1. \/ asOfQuote' = asOfQuote \/ asOfQuote' = Drop(asOfQuote, s)
        \/ asOfQuote' = Put(asOfQuote, s, BestOrders(s)')
    BY <1>1 DEF Observe
  <2>2. IsTop(BestOrders(s)')
    BY DEF TopIsBest
  <2>3. QED
    BY <2>1, <2>2 DEF ReplayTypes, Put, Drop
<1>7. /\ DOMAIN lastQuote' \subseteq Symbols
      /\ \A r \in DOMAIN lastQuote' : lastQuote'[r].time \in Times
  <2> DEFINE quote == QuoteOf(BestOrders(s)', time)
  <2>1. \/ lastQuote' = lastQuote \/ lastQuote' = Drop(lastQuote, s)
        \/ lastQuote' = Put(lastQuote, s, quote)
    BY <1>1 DEF Observe
  <2>2. quote.time \in Times
    BY DEF QuoteOf
  <2> HIDE DEF quote
  <2>3. QED
    BY <2>1, <2>2 DEF ReplayTypes, Put, Drop
<1>8. QED
  BY <1>2, <1>3, <1>4, <1>5, <1>6, <1>7 DEF ReplayTypes, IsTop, OneLevel

(* A side of a top matches its own price, and its own volume, if and only  *)
(* if it has a price.                                                      *)
LEMMA SideMatchesItself ==
  ASSUME NEW side, OneLevel(side)
  PROVE  /\ (\E level \in side : level.price = PriceOf(side))
              <=> PriceOf(side) # 0
         /\ (\E level \in side : level.volume = VolumeOf(side))
              <=> PriceOf(side) # 0
<1>1. 0 \notin Prices
  BY BboAssumption
<1>2. CASE side = {}
  BY <1>2 DEF PriceOf
<1>3. ASSUME NEW price \in Prices, NEW volume,
             side = {[price |-> price, volume |-> volume]}
      PROVE  /\ PriceOf(side) = price /\ price # 0
             /\ VolumeOf(side) = volume
             /\ \E level \in side : level.price = price
             /\ \E level \in side : level.volume = volume
  <2> DEFINE only == [price |-> price, volume |-> volume]
             chosen == CHOOSE level \in side : TRUE
  <2>1. only.price = price /\ only.volume = volume /\ side = {only}
    BY <1>3
  <2> HIDE DEF only
  <2>2. chosen \in side
    BY <2>1
  <2>3. PriceOf(side) = chosen.price /\ VolumeOf(side) = chosen.volume
    BY <2>1 DEF PriceOf, VolumeOf
  <2> HIDE DEF chosen
  <2>4. QED
    BY <1>1, <2>1, <2>2, <2>3
<1>4. QED
  BY <1>2, <1>3 DEF OneLevel

(* The comparison has no false alarms.                                     *)
LEMMA CompareStep ==
  ASSUME ReplayTypes, \A s \in Symbols : SymbolInv(s), Compare
  PROVE  ConsistentFeedValidates'
<1> SUFFICES ASSUME NEW s \in ordered, s \in DOMAIN reference,
                    s \in DOMAIN lastQuote, conforming[s],
                    reference[s] = lastQuote[s]
             PROVE  IF s \in compared'
                    THEN \A side \in Sides :
                           LET quoted == ReferencePrice(s, side) # 0
                           IN /\ s \in priceMatches'[side] <=> quoted
                              /\ s \in volumeMatches'[side] <=> quoted
                    ELSE \A side \in Sides : asOfQuote[s][side] = {}
  BY DEF Compare, bookVars, historyVars, ConsistentFeedValidates,
         ReferencePrice
<1>1. SymbolInv(s)
  BY DEF ReplayTypes
<1>2. /\ s \in DOMAIN asOfQuote
      /\ \/ IsBlank(asOfQuote[s])
         \/ QuoteOf(asOfQuote[s], reference[s].time) = reference[s]
  BY <1>1 DEF SymbolInv
<1>3. s \in DOMAIN frozen /\ frozen[s] = asOfQuote[s]
  BY <1>1, <1>2 DEF SymbolInv
<1>4. s \in compared' <=> ~IsBlank(asOfQuote[s])
  BY <1>3 DEF Compare, Report, IsBlank
<1>5. CASE s \notin compared'
  BY <1>4, <1>5 DEF IsBlank
<1>6. ASSUME s \in compared', NEW side \in Sides
      PROVE  /\ s \in priceMatches'[side] <=> ReferencePrice(s, side) # 0
             /\ s \in volumeMatches'[side] <=> ReferencePrice(s, side) # 0
  <2>1. QuoteOf(asOfQuote[s], reference[s].time) = reference[s]
    BY <1>2, <1>4, <1>6
  <2>2. /\ ReferencePrice(s, side) = PriceOf(asOfQuote[s][side])
        /\ ReferenceVolume(s, side) = VolumeOf(asOfQuote[s][side])
    BY <2>1 DEF QuoteOf, ReferencePrice, ReferenceVolume, Sides, Book!Sides
  <2>3. /\ s \in priceMatches'[side] <=>
             \E level \in asOfQuote[s][side] :
               level.price = ReferencePrice(s, side)
        /\ s \in volumeMatches'[side] <=>
             \E level \in asOfQuote[s][side] :
               level.volume = ReferenceVolume(s, side)
    BY <1>3, <1>6 DEF Compare, Report
  <2>4. OneLevel(asOfQuote[s][side])
    BY <1>2 DEF ReplayTypes, IsTop
  <2>5. QED
    BY <2>2, <2>3, <2>4, SideMatchesItself
<1>7. QED
  BY <1>5, <1>6

-----------------------------------------------------------------------------
(* Nothing is loaded and nothing replayed.                                 *)
LEMMA InitHolds == Init => IInv
<1> SUFFICES ASSUME Init PROVE IInv
  OBVIOUS
<1>1. DOMAIN Empty = {} /\ \A K, V : IsMap(Empty, K, V)
  BY DEF Empty, IsMap
<1>2. QED
  BY <1>1 DEF Init, IInv, ReplayTypes, NothingReplayed, SymbolInv,
              ConsistentFeedValidates

(* Steps that leave book, reference and replay alone.                      *)
LEMMA NothingMoves ==
  ASSUME ReplayTypes, \A s \in Symbols : SymbolInv(s),
         UNCHANGED <<bookVars, reference, frozen, historyVars>>
  PROVE  ReplayTypes' /\ \A s \in Symbols : SymbolInv(s)'
<1>1. UNCHANGED <<orders, conforming, reference, frozen, latest, ordered,
                  asOfQuote, lastQuote>>
  BY DEF bookVars, historyVars
<1>2. ReplayTypes'
  BY <1>1 DEF ReplayTypes, IsTop, OneLevel
<1>3. ASSUME NEW s \in Symbols PROVE SymbolInv(s)'
  <2>1. BestOrders(s)' = BestOrders(s)
    BY <1>1, BestOfSameOrders
  <2>2. QED
    BY <1>1, <2>1 DEF SymbolInv, QuoteOf
<1>4. QED
  BY <1>2, <1>3

(* Every step keeps the invariant.                                         *)
LEMMA StepHolds ==
  ASSUME Facts!TypeOK, TopIsBest', IInv, [Next]_vars
  PROVE  IInv'
<1>1. ASSUME NEW s \in Symbols, NEW quote \in Quotes, LoadQuote(s, quote)
      PROVE  IInv'
  <2>1. /\ phase = "loading" /\ phase' = "loading"
        /\ UNCHANGED <<bookVars, frozen, historyVars>>
    BY <1>1 DEF LoadQuote
  <2>2. IsMap(reference', Symbols, Quotes)
    BY <1>1 DEF LoadQuote, IInv, ReplayTypes, IsMap, Put
  <2>3. NothingReplayed'
    BY <2>1 DEF IInv, NothingReplayed, historyVars
  <2>4. DOMAIN Empty = {} /\ \A K, V : IsMap(Empty, K, V)
    BY DEF Empty, IsMap
  <2>5. QED
    BY <2>1, <2>2, <2>3, <2>4
    DEF IInv, ReplayTypes, NothingReplayed, SymbolInv, historyVars,
        ConsistentFeedValidates
<1>2. CASE StartReplay
  <2>1. ReplayTypes' /\ \A s \in Symbols : SymbolInv(s)'
    BY <1>2, NothingMoves DEF StartReplay, IInv
  <2>2. phase' = "replaying" /\ ordered' = ordered
    BY <1>2 DEF StartReplay, historyVars
  <2>3. QED
    BY <2>1, <2>2 DEF IInv, ConsistentFeedValidates
<1>3. ASSUME NEW s \in Symbols, Callback(s) PROVE IInv'
  <2>1. ReplayTypes' /\ ordered' \subseteq Symbols
    BY <1>3, CallbackTypes DEF IInv
  <2>2. \A r \in Symbols : SymbolInv(r)'
    BY <1>3, OwnSymbol, OtherSymbol DEF IInv
  <2>3. phase' = "replaying"
    BY <1>3 DEF Callback, BookEvent
  <2>4. QED
    BY <2>1, <2>2, <2>3 DEF IInv, ConsistentFeedValidates
<1>4. CASE Compare
  <2>1. ConsistentFeedValidates'
    BY <1>4, CompareStep DEF IInv
  <2>2. ReplayTypes' /\ \A s \in Symbols : SymbolInv(s)'
    BY <1>4, NothingMoves DEF Compare, IInv
  <2>3. phase' = "compared" /\ ordered' = ordered
    BY <1>4 DEF Compare, historyVars
  <2>4. QED
    BY <2>1, <2>2, <2>3 DEF IInv
<1>5. CASE UNCHANGED vars
  <2>1. ReplayTypes' /\ \A s \in Symbols : SymbolInv(s)'
    BY <1>5, NothingMoves DEF vars, IInv
  <2>2. /\ UNCHANGED <<phase, frozen, latest, ordered, asOfQuote, lastQuote>>
        /\ UNCHANGED <<conforming, reference, compared, priceMatches,
                       volumeMatches>>
    BY <1>5 DEF vars, bookVars, reportVars, historyVars
  <2>3. ConsistentFeedValidates'
    BY <2>2 DEF IInv, ConsistentFeedValidates, ReferencePrice
  <2>4. QED
    BY <2>1, <2>2, <2>3 DEF IInv, NothingReplayed
<1>6. QED
  BY <1>1, <1>2, <1>3, <1>4, <1>5 DEF Next

(* In the whole run of bbo-validation the top of book read from the levels *)
(* is that of the live orders, for every symbol that conforms.             *)
THEOREM BookIsGood == Spec => [](Facts!TypeOK /\ TopIsBest)
<1>1. Facts!TypeOK /\ Facts!LevelsMatchOrders /\ Facts!TopOfBookIsBestOrder
        => TopIsBest
  BY BestIsTop, TopOfMatchingLevels DEF TopIsBest
<1>2. Init => Facts!Init
  BY SameInit DEF Init
<1>3. Spec => Facts!Spec
  BY <1>2, BookStep, PTL DEF Spec, Facts!Spec
<1>4. Facts!Spec => [](Facts!TypeOK /\ Facts!LevelsMatchOrders
                         /\ Facts!TopOfBookIsBestOrder)
  BY SameAssumption, Facts!TypesHold, Facts!LevelsMatch,
     Facts!TopOfBookIsRight, PTL
<1>5. QED
  BY <1>1, <1>3, <1>4, PTL

(* The invariant holds in every reachable state.                           *)
THEOREM InvariantHolds == Spec => []IInv
<1>1. Facts!TypeOK /\ TopIsBest' /\ IInv /\ [Next]_vars => IInv'
  BY StepHolds
<1>2. QED
  BY <1>1, InitHolds, BookIsGood, PTL DEF Spec

(* While the times of a symbol's messages do not go back, what is frozen   *)
(* is its book as of the quote, for a feed of any length.                  *)
THEOREM FrozenIsRight == Spec => []FrozenIsBookAtQuote
<1>1. IInv => FrozenIsBookAtQuote
  BY DEF IInv, SymbolInv, FrozenIsBookAtQuote
<1>2. QED
  BY <1>1, InvariantHolds, PTL

(* A feed whose last quotes are those of its own orders validates.         *)
THEOREM NoFalseDifference == Spec => []ConsistentFeedValidates
<1>1. IInv => ConsistentFeedValidates
  BY DEF IInv
<1>2. QED
  BY <1>1, InvariantHolds, PTL

-----------------------------------------------------------------------------
(* The types of bbo-validation's variables.                                *)

SideTyped(side) == side \subseteq Level /\ Cardinality(side) <= 1

TopsTyped ==
  \A s \in Symbols, side \in Sides : SideTyped(TopOfBook(s)[side])

ReportTypes ==
  /\ phase \in {"loading", "replaying", "compared"}
  /\ DOMAIN frozen \subseteq DOMAIN reference
  /\ \A s \in DOMAIN frozen, side \in Sides : SideTyped(frozen[s][side])
  /\ compared \subseteq DOMAIN frozen
  /\ \A side \in Sides : /\ priceMatches[side] \subseteq compared
                         /\ volumeMatches[side] \subseteq compared

(* GetTopOfBook finds at most one level on a side.                         *)
LEMMA TopsAreTyped == Facts!TypeOK => TopsTyped
<1> SUFFICES ASSUME Facts!TypeOK, NEW s \in Symbols, NEW side \in Sides
             PROVE  SideTyped(TopOfBook(s)[side])
  BY DEF TopsTyped
<1> DEFINE best == IF side = "bid" THEN Book!BestBid(s) ELSE Book!BestAsk(s)
           top == {[price |-> p, volume |-> levels[s][side][p]] : p \in best}
<1>1. TopOfBook(s)[side] = top
  BY DEF TopOfBook
<1>2. IsMap(levels[s][side], Prices, Nat) /\ Prices \subseteq Nat
  BY BboAssumption DEF Facts!TypeOK, Facts!IsMap, IsMap, Sides, Book!Sides,
                       Facts!Sides, Book!BookAssumption
<1>3. /\ best \subseteq DOMAIN levels[s][side]
      /\ \A p, q \in best : p <= q /\ q <= p
  <2>1. /\ IsMap(levels[s]["bid"], Prices, Nat)
        /\ IsMap(levels[s]["ask"], Prices, Nat)
    BY DEF Facts!TypeOK, Facts!IsMap, IsMap, Facts!Sides
  <2>2. /\ DOMAIN levels[s]["bid"] \subseteq Nat
        /\ DOMAIN levels[s]["ask"] \subseteq Nat
    BY <1>2, <2>1 DEF IsMap
  <2>3. side = "bid" \/ side = "ask"
    BY DEF Sides, Book!Sides
  <2>4. QED
    BY <2>2, <2>3 DEF Book!BestBid, Book!BestAsk
<1> HIDE DEF best
<1>4. \A p \in best : p \in Prices /\ levels[s][side][p] \in Nat
  BY <1>2, <1>3 DEF IsMap
<1>5. top \subseteq Level
  BY <1>4 DEF Level
<1>6. Cardinality(top) <= 1
  <2>1. CASE best = {}
    BY <2>1, FS_EmptySet
  <2>2. ASSUME NEW p \in best PROVE Cardinality(top) <= 1
    <3>1. ASSUME NEW q \in best PROVE q = p
      <4>1. q \in Nat /\ p \in Nat /\ q <= p /\ p <= q
        BY <1>2, <1>3, <1>4
      <4>2. QED
        BY <4>1
    <3>2. best = {p}
      BY <3>1
    <3>3. PICK level : top = {level}
      BY <3>2
    <3>4. Cardinality({level}) = 1
      BY FS_Singleton
    <3> HIDE DEF top
    <3>5. Cardinality(top) = 1
      BY <3>3, <3>4
    <3>6. QED
      BY <3>5
  <2>3. QED
    BY <2>1, <2>2
<1>7. QED
  BY <1>1, <1>5, <1>6 DEF SideTyped

(* What is frozen is a top of the book for which there is a quote; what is *)
(* compared was frozen.                                                    *)
LEMMA ReportTypesStep ==
  ASSUME TopsTyped', IInv, ReportTypes, [Next]_vars
  PROVE  ReportTypes'
<1>1. ASSUME NEW s \in Symbols, NEW quote \in Quotes, LoadQuote(s, quote)
      PROVE  ReportTypes'
  <2>1. DOMAIN reference \subseteq DOMAIN reference'
    BY <1>1 DEF LoadQuote, Put
  <2>2. UNCHANGED <<phase, frozen, reportVars>>
    BY <1>1 DEF LoadQuote
  <2>3. QED
    BY <2>1, <2>2 DEF ReportTypes, reportVars, SideTyped, Level
<1>2. CASE StartReplay
  BY <1>2 DEF StartReplay, ReportTypes, reportVars, SideTyped, Level
<1>3. ASSUME NEW s \in Symbols, Callback(s) PROVE ReportTypes'
  <2>1. PICK time \in Times : Freeze(s, time)
    BY <1>3 DEF Callback, BookEvent
  <2>2. /\ phase' = "replaying" \/ phase' = phase
        /\ UNCHANGED <<reference, reportVars>>
    BY <1>3 DEF Callback, BookEvent
  <2>3. CASE frozen' = frozen
    BY <2>2, <2>3 DEF ReportTypes, reportVars, SideTyped, Level
  <2>4. CASE s \in DOMAIN reference /\ frozen' = Put(frozen, s, TopOfBook(s)')
    <3>1. /\ DOMAIN frozen' = DOMAIN frozen \cup {s}
          /\ \A r \in DOMAIN frozen' :
               frozen'[r] = IF r = s THEN TopOfBook(s)' ELSE frozen[r]
      BY <2>4 DEF Put
    <3>2. \A side \in Sides : SideTyped(TopOfBook(s)'[side])
      BY DEF TopsTyped, SideTyped, Level
    <3>3. \A r \in DOMAIN frozen', side \in Sides :
            SideTyped(frozen'[r][side])
      BY <3>1, <3>2 DEF ReportTypes
    <3>4. QED
      BY <2>2, <2>4, <3>1, <3>3 DEF ReportTypes, reportVars, SideTyped, Level
  <2>5. QED
    BY <2>1, <2>3, <2>4 DEF Freeze
<1>4. CASE Compare
  BY <1>4 DEF Compare, Report, ReportTypes, SideTyped, Level
<1>5. CASE UNCHANGED vars
  BY <1>5 DEF vars, ReportTypes, reportVars, SideTyped, Level
<1>6. QED
  BY <1>1, <1>2, <1>3, <1>4, <1>5 DEF Next

(* Every variable of bbo-validation keeps its type: of every symbol with a *)
(* quote at most one level is frozen on each side, and what matches was    *)
(* compared.                                                               *)
THEOREM TypesHold == Spec => []TypeOK
<1>1. Facts!TypeOK /\ IInv /\ ReportTypes => TypeOK
  <2>1. Facts!TypeOK => Book!TypeOK
    BY DEF Facts!TypeOK, Book!TypeOK, Facts!IsMap, Book!IsMap, Facts!Sides,
           Book!Sides, Facts!LiveOrder, Book!LiveOrder
  <2>2. QED
    BY <2>1 DEF IInv, ReplayTypes, ReportTypes, SideTyped, TypeOK
<1>2. Init => ReportTypes
  <2>1. DOMAIN Empty = {}
    BY DEF Empty
  <2>2. QED
    BY <2>1 DEF Init, ReportTypes
<1>3. TopsTyped' /\ IInv /\ ReportTypes /\ [Next]_vars => ReportTypes'
  BY ReportTypesStep
<1>4. QED
  BY <1>1, <1>2, <1>3, BookIsGood, InvariantHolds, TopsAreTyped, PTL
     DEF Spec

-----------------------------------------------------------------------------
(* StockSummary: its ledger is the one the theorems are about.             *)

(* The assumption on its constants is part of this module's.               *)
LEMMA SameLedgerAssumption ==
  Ledger!LedgerAssumption /\ Ledger!VolumeLimitAssumption
BY ExamplesAssumption
DEF Stock!StockAssumption, Stock!Tape!LedgerAssumption,
    Stock!Tape!VolumeLimitAssumption, Ledger!LedgerAssumption,
    Ledger!VolumeLimitAssumption, Stock!Tape!NoPrice, Ledger!NoPrice

(* A ledger starts empty.                                                  *)
LEMMA SameLedgerInit == Stock!Tape!Init => Ledger!Init
BY DEF Stock!Tape!Init, Ledger!Init, Stock!Tape!Empty, Ledger!Empty,
       Stock!Tape!NoStats, Ledger!NoStats, Stock!Tape!NoPrice,
       Ledger!NoPrice

(* The rescan is the same, ...                                             *)
LEMMA SameRescan ==
  ASSUME NEW l
  PROVE  Stock!Tape!Recompute(l) = Ledger!Recompute(l)
BY DEF Stock!Tape!Recompute, Ledger!Recompute, Stock!Tape!FoldLeft,
       Ledger!FoldLeft, Stock!Tape!MapThenFoldSet, Ledger!MapThenFoldSet,
       Stock!Tape!FoldIntoStats, Ledger!FoldIntoStats, Stock!Tape!NoStats,
       Ledger!NoStats, Stock!Tape!NoPrice, Ledger!NoPrice, Stock!Tape!Max,
       Ledger!Max

(* ... so is the summary of a log, ...                                     *)
LEMMA SameSummary ==
  ASSUME NEW l
  PROVE  Stock!StatsOf(l) = Ledger!StatsOf(l)
BY DEF Stock!StatsOf, Ledger!StatsOf, Stock!LiveTrades, Ledger!LiveTrades,
       Stock!Cancelled, Ledger!Cancelled, Stock!NoStats, Ledger!NoStats,
       Stock!NoPrice, Ledger!NoPrice, Stock!Max, Ledger!Max, Stock!Min,
       Ledger!Min, Stock!MapThenSumSet, Ledger!MapThenSumSet,
       Stock!MapThenFoldSet, Ledger!MapThenFoldSet

(* ... and so are the operations.                                          *)
LEMMA SameOperations ==
  ASSUME NEW s, NEW id
  PROVE  /\ Stock!Tape!CancelTrade(s, id) => Ledger!CancelTrade(s, id)
         /\ \A price, volume :
              /\ Stock!Tape!RecordTrade(s, id, price, volume)
                   => Ledger!RecordTrade(s, id, price, volume)
              /\ \A new : Stock!Tape!ReplaceTrade(s, id, new, price, volume)
                          => Ledger!ReplaceTrade(s, id, new, price, volume)
<1>1. \A l : Stock!Tape!Recompute(l) = Ledger!Recompute(l)
  BY SameRescan
<1>2. QED
  BY <1>1
  DEF Stock!Tape!CancelTrade, Ledger!CancelTrade, Stock!Tape!RecordTrade,
      Ledger!RecordTrade, Stock!Tape!ReplaceTrade, Ledger!ReplaceTrade,
      Stock!Tape!GetOrCreate, Ledger!GetOrCreate, Stock!Tape!Fail,
      Ledger!Fail, Stock!Tape!Cancellable, Ledger!Cancellable,
      Stock!Tape!Known, Ledger!Known, Stock!Tape!IsCancelled,
      Ledger!IsCancelled, Stock!Tape!CancelAt, Ledger!CancelAt,
      Stock!Tape!Trade, Ledger!Trade, Stock!Tape!Put, Ledger!Put,
      Stock!Tape!FoldIntoStats, Ledger!FoldIntoStats, Stock!Tape!NoPrice,
      Ledger!NoPrice

(* The program's ledger makes steps of a TradeLedger only ...              *)
LEMMA LedgerStep ==
  [Stock!Next]_(Stock!vars) => [Ledger!Next]_(Ledger!ledgerVars)
<1> SUFFICES ASSUME [Stock!Next]_(Stock!vars)
             PROVE  [Ledger!Next]_(Ledger!ledgerVars)
  OBVIOUS
<1> USE DEF Stock!tapeVars, Ledger!ledgerVars
<1>1. ASSUME NEW s \in Symbols, NEW id \in TradeIds, Stock!Line(s, id),
             Stock!Tape!WithinBounds'
      PROVE  Ledger!Next
  <2>1. \/ Ledger!CancelTrade(s, id)
        \/ Ledger!RecordOrReplace(s, id)
        \/ \E old \in TradeIds : Ledger!RecordOrReplace(s, old)
    BY <1>1, SameOperations
    DEF Stock!Line, Stock!CancelLine, Stock!TradeLine,
        Stock!CorrectionLine, Ledger!RecordOrReplace
  <2>2. (Stock!Tape!WithinBounds => Ledger!WithinBounds)'
    BY DEF Stock!Tape!WithinBounds, Ledger!WithinBounds
  <2>3. QED
    BY <1>1, <2>1, <2>2 DEF Ledger!Next
<1>2. ASSUME NEW s, NEW summary, Stock!LoadSummary(s, summary)
      PROVE  UNCHANGED Stock!tapeVars
  BY <1>2 DEF Stock!LoadSummary
<1>3. Stock!StartReplay \/ Stock!Compare \/ UNCHANGED Stock!vars
        => UNCHANGED Stock!tapeVars
  BY DEF Stock!StartReplay, Stock!Compare, Stock!vars
<1>4. QED
  BY <1>1, <1>2, <1>3 DEF Stock!Next

(* ... so that what is known of any ledger is known of it.                 *)
LEMMA LedgerIsGood == Stock!Spec => []Ledger!IInv
<1>1. Stock!Init => Ledger!Init
  BY SameLedgerInit DEF Stock!Init
<1>2. Stock!Spec => Ledger!Spec
  BY <1>1, LedgerStep, PTL DEF Stock!Spec, Ledger!Spec
<1>3. QED
  BY <1>2, SameLedgerAssumption, Ledger!InvariantHolds, PTL

-----------------------------------------------------------------------------
(* The trades of a symbol, while no two live ones have one id, are, in     *)
(* order, the live trades of its log, found under their ids.  No volume is *)
(* ever adjusted, so the ledger's numbers are those of its live trades.    *)
StockInv ==
  /\ live \in [Symbols -> Seq(Ledger!Listing)]
  /\ clean \subseteq Symbols
  /\ \A s \in Symbols : ~disturbed[s]
  /\ \A s \in Symbols \ ledgers : live[s] = <<>>
  /\ \A s \in clean : Ledger!Lists(live[s], byId[s], log[s])

(* A list with one trade off it, or one trade more.                        *)
LEMMA ListsOfTrades ==
  ASSUME StockInv, NEW s \in Symbols, NEW id \in TradeIds
  PROVE  /\ Stock!Without(s, id) \in Seq(Ledger!Listing)
         /\ \A t \in Seq(Ledger!Listing) :
              \A new \in TradeIds, price \in Prices, volume \in Volumes :
                Stock!With(t, new, price, volume) \in Seq(Ledger!Listing)
         /\ Stock!IsLive(s, id) =>
              \E p \in DOMAIN live[s] :
                /\ live[s][p].id = id
                /\ Stock!Without(s, id) = Ledger!RemoveAt(live[s], p)
<1>1. live[s] \in Seq(Ledger!Listing)
  BY DEF StockInv
<1>2. ASSUME Stock!IsLive(s, id)
      PROVE  \E p \in DOMAIN live[s] :
               /\ live[s][p].id = id
               /\ Stock!Without(s, id) = Ledger!RemoveAt(live[s], p)
  <2> DEFINE p == CHOOSE i \in Stock!PlacesOf(s, id) : TRUE
  <2>1. p \in Stock!PlacesOf(s, id)
    BY <1>2 DEF Stock!IsLive
  <2>2. Stock!Without(s, id) = Stock!RemoveAt(live[s], p)
    BY <1>2 DEF Stock!Without
  <2> HIDE DEF p
  <2>3. Stock!RemoveAt(live[s], p) = Ledger!RemoveAt(live[s], p)
    BY DEF Stock!RemoveAt, Ledger!RemoveAt
  <2>4. QED
    BY <2>1, <2>2, <2>3 DEF Stock!PlacesOf
<1>3. Stock!Without(s, id) \in Seq(Ledger!Listing)
  <2>1. CASE ~Stock!IsLive(s, id)
    BY <1>1, <2>1 DEF Stock!Without
  <2>2. CASE Stock!IsLive(s, id)
    BY <1>1, <1>2, <2>2, SameLedgerAssumption, Ledger!TakenOut
  <2>3. QED
    BY <2>1, <2>2
<1>4. ASSUME NEW t \in Seq(Ledger!Listing), NEW new \in TradeIds,
             NEW price \in Prices, NEW volume \in Volumes
      PROVE  Stock!With(t, new, price, volume) \in Seq(Ledger!Listing)
  <2>1. [id |-> new, price |-> price, volume |-> volume] \in Ledger!Listing
    BY DEF Ledger!Listing
  <2>2. QED
    BY <2>1 DEF Stock!With
<1>5. QED
  BY <1>2, <1>3, <1>4

(* The step of a line, once it is known what becomes of its symbol.        *)
LEMMA LineKeeps ==
  ASSUME StockInv, NEW s \in Symbols, NEW t \in Seq(Ledger!Listing),
         NEW unambiguous, Stock!Means(s, t, unambiguous),
         \A r \in Symbols \ {s} : log'[r] = log[r] /\ byId'[r] = byId[r],
         ledgers' = ledgers \cup {s}, disturbed' = disturbed,
         s \in clean /\ unambiguous => Ledger!Lists(t, byId'[s], log'[s])
  PROVE  StockInv'
<1>1. /\ live' = [live EXCEPT ![s] = t]
      /\ clean' = IF unambiguous THEN clean ELSE clean \ {s}
  BY DEF Stock!Means
<1>2. /\ live' \in [Symbols -> Seq(Ledger!Listing)]
      /\ live'[s] = t /\ \A r \in Symbols \ {s} : live'[r] = live[r]
  BY <1>1 DEF StockInv
<1>3. clean' \subseteq Symbols /\ \A r \in Symbols : ~disturbed'[r]
  BY <1>1 DEF StockInv
<1>4. \A r \in Symbols \ ledgers' : live'[r] = <<>>
  BY <1>2 DEF StockInv
<1>5. ASSUME NEW r \in clean'
      PROVE  Ledger!Lists(live'[r], byId'[r], log'[r])
  <2>1. r \in clean /\ r \in Symbols /\ (r = s => unambiguous)
    BY <1>1, <1>3
  <2>2. CASE r = s
    BY <1>2, <2>1, <2>2
  <2>3. CASE r # s
    BY <1>2, <2>1, <2>3 DEF StockInv
  <2>4. QED
    BY <2>2, <2>3
<1>6. (\A r \in clean : Ledger!Lists(live[r], byId[r], log[r]))'
  BY <1>5 DEF Ledger!Lists, Ledger!Carries
<1>7. QED
  BY <1>2, <1>3, <1>4, <1>6 DEF StockInv, Ledger!Listing

(* What the lines of the file use of the ledger.                           *)
LEMMA TapeOf ==
  ASSUME Ledger!IInv, NEW s \in Symbols
  PROVE  /\ log[s] \in Seq(Ledger!TradeRecord)
         /\ DOMAIN log = Symbols /\ DOMAIN byId = Symbols
         /\ \A id \in DOMAIN byId[s] : byId[s][id] \in DOMAIN log[s]
BY DEF Ledger!IInv, Ledger!IndexInv, Ledger!LogTypes, Ledger!IsMap

(* What is not listed is not found live: every live trade of the log is    *)
(* listed under an id that leads to it, and no other id does.              *)
LEMMA UnlistedIsGone ==
  ASSUME Ledger!IInv, StockInv, NEW s \in clean, NEW id \in TradeIds,
         ~Stock!IsLive(s, id)
  PROVE  ~Ledger!Cancellable(s, id)
<1> SUFFICES ASSUME Ledger!Cancellable(s, id) PROVE FALSE
  OBVIOUS
<1>1. s \in Symbols /\ Ledger!Lists(live[s], byId[s], log[s])
  BY DEF StockInv
<1>2. /\ id \in DOMAIN byId[s]
      /\ byId[s][id] \in Ledger!LiveTrades(log[s])
  BY <1>1, TapeOf
  DEF Ledger!Cancellable, Ledger!Known, Ledger!IsCancelled,
      Ledger!LiveTrades, Ledger!Cancelled
<1>3. PICK i \in DOMAIN live[s] : byId[s][live[s][i].id] = byId[s][id]
  BY <1>1, <1>2 DEF Ledger!Lists, Ledger!Carries
<1>4. live[s][i].id \in DOMAIN byId[s]
  BY <1>1 DEF Ledger!Lists
<1>5. live[s][i].id = id
  BY <1>1, <1>2, <1>3, <1>4
  DEF Ledger!IInv, Ledger!IndexInv, Ledger!IdsNameTheirOwnTrade
<1>6. QED
  BY <1>5 DEF Stock!IsLive, Stock!PlacesOf

(* A trade's line.                                                         *)
LEMMA TradeLineKeeps ==
  ASSUME Ledger!IInv, StockInv, NEW s \in Symbols, NEW id \in TradeIds,
         NEW price \in Prices, NEW volume \in Volumes,
         Stock!TradeLine(s, id, price, volume)
  PROVE  StockInv'
<1> DEFINE t == Stock!With(live[s], id, price, volume)
           k == Append(log[s], Ledger!Trade(price, volume))
           c == Ledger!Put(byId[s], id, Len(log[s]) + 1)
<1>1. Ledger!RecordTrade(s, id, price, volume)
  BY SameOperations DEF Stock!TradeLine
<1>2. /\ log' = [log EXCEPT ![s] = k] /\ byId' = [byId EXCEPT ![s] = c]
      /\ ledgers' = ledgers \cup {s} /\ disturbed' = disturbed
  BY <1>1 DEF Ledger!RecordTrade, Ledger!GetOrCreate
<1>3. Stock!Means(s, t, ~Stock!IsLive(s, id))
  BY DEF Stock!TradeLine
<1>4. live[s] \in Seq(Ledger!Listing)
  BY DEF StockInv
<1>5. t = Append(live[s], [id |-> id, price |-> price, volume |-> volume])
  BY DEF Stock!With
<1>6. t \in Seq(Ledger!Listing)
  BY <1>4, ListsOfTrades
<1>7. ASSUME s \in clean, ~Stock!IsLive(s, id) PROVE Ledger!Lists(t, c, k)
  <2>1. Ledger!Lists(live[s], byId[s], log[s])
    BY <1>7 DEF StockInv
  <2>2. \A i \in DOMAIN live[s] : live[s][i].id # id
    BY <1>7 DEF Stock!IsLive, Stock!PlacesOf
  <2>3. log[s] \in Seq(Ledger!TradeRecord)
    BY TapeOf
  <2> HIDE DEF t, k, c
  <2>4. Ledger!Lists(t, Ledger!Put(byId[s], id, Len(log[s]) + 1),
                     Append(log[s], Ledger!Trade(price, volume)))
    BY <1>4, <1>5, <2>1, <2>2, <2>3, SameLedgerAssumption,
       Ledger!ListedAdded
  <2>5. QED
    BY <2>4 DEF k, c
<1> HIDE DEF t, k, c
<1>8. /\ log'[s] = k /\ byId'[s] = c
      /\ \A r \in Symbols \ {s} : log'[r] = log[r] /\ byId'[r] = byId[r]
  BY <1>2, TapeOf
<1>9. QED
  BY <1>2, <1>3, <1>6, <1>7, <1>8, LineKeeps

(* The line that cancels a trade: one that is listed is found live, and no *)
(* other is.                                                               *)
LEMMA CancelLineKeeps ==
  ASSUME Ledger!IInv, StockInv, NEW s \in Symbols, NEW id \in TradeIds,
         Stock!CancelLine(s, id)
  PROVE  StockInv'
<1> DEFINE t == Stock!Without(s, id)
           k == Ledger!CancelAt(log[s], byId[s][id])
<1>1. Ledger!CancelTrade(s, id)
  BY SameOperations DEF Stock!CancelLine
<1>2. Stock!Means(s, t, TRUE)
  BY DEF Stock!CancelLine
<1>3. t \in Seq(Ledger!Listing)
  BY ListsOfTrades
<1>4. /\ byId' = byId /\ disturbed' = disturbed
      /\ ledgers' = ledgers \cup {s}
      /\ log' = log \/ log' = [log EXCEPT ![s] = k]
      /\ IF Ledger!Cancellable(s, id) THEN log' = [log EXCEPT ![s] = k]
         ELSE log' = log
  BY <1>1 DEF Ledger!CancelTrade, Ledger!GetOrCreate, Ledger!Fail
<1>5. ASSUME s \in clean, Stock!IsLive(s, id)
      PROVE  Ledger!Cancellable(s, id) /\ Ledger!Lists(t, byId[s], k)
  <2>1. PICK p \in DOMAIN live[s] : /\ live[s][p].id = id
                                   /\ t = Ledger!RemoveAt(live[s], p)
    BY <1>5, ListsOfTrades
  <2>2. /\ Ledger!Lists(live[s], byId[s], log[s])
        /\ live[s] \in Seq(Ledger!Listing)
        /\ log[s] \in Seq(Ledger!TradeRecord)
    BY <1>5, TapeOf DEF StockInv
  <2>3. /\ id \in DOMAIN byId[s] /\ byId[s][id] \in Ledger!LiveTrades(log[s])
        /\ Ledger!Lists(Ledger!RemoveAt(live[s], p), byId[s], k)
    BY <2>1, <2>2, SameLedgerAssumption, Ledger!ListedTaken
  <2>4. Ledger!Cancellable(s, id)
    BY <2>3 DEF Ledger!Cancellable, Ledger!Known, Ledger!IsCancelled,
                Ledger!LiveTrades, Ledger!Cancelled
  <2>5. QED
    BY <2>1, <2>3, <2>4
<1> HIDE DEF t, k
<1>6. \A r \in Symbols \ {s} : log'[r] = log[r] /\ byId'[r] = byId[r]
  BY <1>4, TapeOf
<1>7. ASSUME s \in clean PROVE Ledger!Lists(t, byId'[s], log'[s])
  <2>1. CASE Stock!IsLive(s, id)
    <3>1. log'[s] = k /\ byId'[s] = byId[s]
      BY <1>4, <1>5, <1>7, <2>1, TapeOf
    <3>2. QED
      BY <1>5, <1>7, <2>1, <3>1
  <2>2. CASE ~Stock!IsLive(s, id)
    <3>1. log' = log /\ byId' = byId
      BY <1>4, <1>7, <2>2, UnlistedIsGone
    <3>2. t = live[s]
      BY <2>2 DEF t, Stock!Without
    <3>3. QED
      BY <1>7, <3>1, <3>2 DEF StockInv
  <2>3. QED
    BY <2>1, <2>2
<1>8. QED
  BY <1>2, <1>3, <1>4, <1>6, <1>7, LineKeeps

(* The line that corrects a trade, under a new id or under its own.        *)
LEMMA CorrectionLineKeeps ==
  ASSUME Ledger!IInv, StockInv, NEW s \in Symbols, NEW old \in TradeIds,
         NEW new \in TradeIds, NEW price \in Prices, NEW volume \in Volumes,
         Stock!CorrectionLine(s, old, new, price, volume)
  PROVE  StockInv'
<1> DEFINE rest == Stock!Without(s, old)
           t == Stock!With(rest, new, price, volume)
           kept == IF Ledger!Cancellable(s, old)
                   THEN Ledger!CancelAt(log[s], byId[s][old]) ELSE log[s]
           k == Append(kept, Ledger!Trade(price, volume))
           c == Ledger!Put(byId[s], new, Len(log[s]) + 1)
           unambiguous == new = old \/ ~Stock!IsLive(s, new)
<1>1. Ledger!ReplaceTrade(s, old, new, price, volume)
  BY SameOperations DEF Stock!CorrectionLine
<1>2. /\ log' = [log EXCEPT ![s] = k] /\ byId' = [byId EXCEPT ![s] = c]
      /\ ledgers' = ledgers \cup {s} /\ disturbed' = disturbed
  BY <1>1 DEF Ledger!ReplaceTrade, Ledger!GetOrCreate
<1>3. Stock!Means(s, t, unambiguous)
  BY DEF Stock!CorrectionLine
<1>4. rest \in Seq(Ledger!Listing) /\ t \in Seq(Ledger!Listing)
  BY ListsOfTrades
<1>5. t = Append(rest, [id |-> new, price |-> price, volume |-> volume])
  BY DEF Stock!With
<1> HIDE DEF t
<1> DEFINE l == IF Stock!IsLive(s, old)
                THEN Ledger!CancelAt(log[s], byId[s][old]) ELSE log[s]
<1>6. ASSUME s \in clean
      PROVE  /\ Ledger!Lists(rest, byId[s], l) /\ kept = l
             /\ l \in Seq(Ledger!TradeRecord) /\ Len(l) = Len(log[s])
             /\ \A i \in DOMAIN rest : rest[i].id # old
             /\ \A i \in DOMAIN rest : \E j \in DOMAIN live[s] :
                  rest[i].id = live[s][j].id
  <2>1. /\ Ledger!Lists(live[s], byId[s], log[s])
        /\ live[s] \in Seq(Ledger!Listing)
        /\ log[s] \in Seq(Ledger!TradeRecord)
    BY <1>6, TapeOf DEF StockInv
  <2>2. CASE Stock!IsLive(s, old)
    <3>1. PICK p \in DOMAIN live[s] : /\ live[s][p].id = old
                                     /\ rest = Ledger!RemoveAt(live[s], p)
      BY <2>2, ListsOfTrades
    <3>2. l = Ledger!CancelAt(log[s], byId[s][old])
      BY <2>2
    <3> HIDE DEF rest, l
    <3>3. /\ old \in DOMAIN byId[s]
          /\ byId[s][old] \in Ledger!LiveTrades(log[s])
          /\ Ledger!Lists(rest, byId[s], l)
          /\ \A i \in DOMAIN rest : rest[i].id # old
      BY <2>1, <3>1, <3>2, SameLedgerAssumption, Ledger!ListedTaken
    <3>4. Ledger!Cancellable(s, old)
      BY <3>3 DEF Ledger!Cancellable, Ledger!Known, Ledger!IsCancelled,
                  Ledger!LiveTrades, Ledger!Cancelled
    <3>5. byId[s][old] \in DOMAIN log[s]
      BY <3>3 DEF Ledger!LiveTrades
    <3>6. l \in Seq(Ledger!TradeRecord) /\ Len(l) = Len(log[s])
      BY <2>1, <3>2, <3>5, SameLedgerAssumption, Ledger!CancelledAt
    <3>7. \A i \in DOMAIN rest : \E j \in DOMAIN live[s] :
            rest[i].id = live[s][j].id
      <4> DEFINE x == live[s]
                 V == Ledger!Listing
      <4>1. x \in Seq(V) /\ p \in DOMAIN x
        BY <2>1
      <4> HIDE DEF x, V
      <4>2. /\ DOMAIN Ledger!RemoveAt(x, p) = 1 .. (Len(x) - 1)
            /\ \A i \in 1 .. (Len(x) - 1) :
                 Ledger!RemoveAt(x, p)[i] = IF i < p THEN x[i] ELSE x[i + 1]
        BY <4>1, SameLedgerAssumption, Ledger!TakenOut
      <4>3. DOMAIN x = 1 .. Len(x) /\ Len(x) \in Nat /\ p \in Nat
        BY <4>1
      <4>4. \A i \in 1 .. (Len(x) - 1) : i \in DOMAIN x /\ i + 1 \in DOMAIN x
        BY <4>3
      <4>5. rest = Ledger!RemoveAt(x, p)
        BY <3>1 DEF x
      <4>6. \A i \in DOMAIN rest : \E j \in DOMAIN x : rest[i] = x[j]
        BY <4>2, <4>4, <4>5
      <4>7. QED
        BY <4>6 DEF x
    <3>8. QED
      BY <3>2, <3>3, <3>4, <3>6, <3>7
  <2>3. CASE ~Stock!IsLive(s, old)
    <3>1. rest = live[s] /\ l = log[s]
      BY <2>3 DEF Stock!Without
    <3>2. ~Ledger!Cancellable(s, old)
      BY <1>6, <2>3, UnlistedIsGone
    <3>3. \A i \in DOMAIN live[s] : live[s][i].id # old
      BY <2>3 DEF Stock!IsLive, Stock!PlacesOf
    <3> HIDE DEF rest, l
    <3>4. QED
      BY <2>1, <3>1, <3>2, <3>3
  <2>4. QED
    BY <2>2, <2>3
<1> HIDE DEF rest, l, kept
<1>7. ASSUME s \in clean, unambiguous PROVE Ledger!Lists(t, c, k)
  <2>1. \A i \in DOMAIN rest : rest[i].id # new
    BY <1>6, <1>7 DEF Stock!IsLive, Stock!PlacesOf
  <2>2. Ledger!Lists(t, Ledger!Put(byId[s], new, Len(l) + 1),
                     Append(l, Ledger!Trade(price, volume)))
    BY <1>4, <1>5, <1>6, <1>7, <2>1, SameLedgerAssumption,
       Ledger!ListedAdded
  <2>3. QED
    BY <1>6, <1>7, <2>2
<1> HIDE DEF k, c, unambiguous
<1>8. /\ log'[s] = k /\ byId'[s] = c
      /\ \A r \in Symbols \ {s} : log'[r] = log[r] /\ byId'[r] = byId[r]
  BY <1>2, TapeOf
<1>9. QED
  BY <1>2, <1>3, <1>4, <1>7, <1>8, LineKeeps

(* Every step keeps the list.                                              *)
LEMMA StockStep ==
  ASSUME Ledger!IInv, StockInv, [Stock!Next]_(Stock!vars)
  PROVE  StockInv'
<1>1. ASSUME NEW s \in Symbols, NEW id \in TradeIds, Stock!Line(s, id)
      PROVE  StockInv'
  BY <1>1, TradeLineKeeps, CancelLineKeeps, CorrectionLineKeeps
  DEF Stock!Line
<1>2. ASSUME UNCHANGED <<Stock!tapeVars, Stock!historyVars>>
      PROVE  StockInv'
  <2>1. UNCHANGED <<ledgers, log, byId, disturbed, live, clean>>
    BY <1>2 DEF Stock!tapeVars, Stock!historyVars
  <2>2. ASSUME NEW s \in clean'
        PROVE  Ledger!Lists(live'[s], byId'[s], log'[s])
    BY <2>1 DEF StockInv
  <2>3. (\A s \in clean : Ledger!Lists(live[s], byId[s], log[s]))'
    BY <2>2 DEF Ledger!Lists, Ledger!Carries
  <2>4. QED
    BY <2>1, <2>3 DEF StockInv, Ledger!Listing
<1>3. ASSUME NEW s, NEW summary, Stock!LoadSummary(s, summary)
      PROVE  UNCHANGED <<Stock!tapeVars, Stock!historyVars>>
  BY <1>3 DEF Stock!LoadSummary
<1>4. Stock!StartReplay \/ Stock!Compare \/ UNCHANGED Stock!vars
        => UNCHANGED <<Stock!tapeVars, Stock!historyVars>>
  BY DEF Stock!StartReplay, Stock!Compare, Stock!vars
<1>5. QED
  BY <1>1, <1>2, <1>3, <1>4 DEF Stock!Next

(* Nothing is listed before the first line.                                *)
LEMMA StockInitHolds == Stock!Init => StockInv
<1> SUFFICES ASSUME Stock!Init PROVE StockInv
  OBVIOUS
<1>1. /\ live = [s \in Symbols |-> <<>>] /\ clean = Symbols
      /\ log = [s \in Symbols |-> <<>>]
      /\ disturbed = [s \in Symbols |-> FALSE]
  BY DEF Stock!Init, Stock!Tape!Init
<1>2. Ledger!LiveTrades(<<>>) = {} /\ DOMAIN <<>> = {}
  BY DEF Ledger!LiveTrades
<1>3. \A b : Ledger!Lists(<<>>, b, <<>>)
  BY <1>2 DEF Ledger!Lists, Ledger!Carries
<1>4. \A s \in clean : Ledger!Lists(live[s], byId[s], log[s])
  BY <1>1, <1>3
<1>5. live \in [Symbols -> Seq(Ledger!Listing)]
  BY <1>1
<1>6. QED
  BY <1>1, <1>4, <1>5 DEF StockInv

-----------------------------------------------------------------------------
(* The comparison                                                          *)

(* The ledger's numbers are those of the listed trades; there is an open   *)
(* price if and only if there is such a trade.                             *)
LEMMA NumbersOfListed ==
  ASSUME Ledger!IInv, StockInv, NEW s \in clean
  PROVE  /\ stats[s] = Stock!SummaryOf(s)
         /\ stats[s].open # Stock!NoPrice <=> live[s] # <<>>
<1> DEFINE D == Ledger!LiveTrades(log[s])
<1>1. /\ s \in Symbols /\ live[s] \in Seq(Ledger!Listing)
      /\ ~disturbed[s] /\ Ledger!Lists(live[s], byId[s], log[s])
  BY DEF StockInv
<1>2. log[s] \in Seq(Ledger!TradeRecord)
  BY <1>1, TapeOf
<1>3. stats[s] = Ledger!StatsOf(log[s])
  BY <1>1 DEF Ledger!IInv, Ledger!StatsInv, Ledger!Agree
<1>4. stats[s] = Stock!SummaryOf(s)
  <2> DEFINE k == [i \in DOMAIN live[s] |->
                     [price |-> live[s][i].price,
                      volume |-> live[s][i].volume, cancelled |-> FALSE]]
  <2>1. Stock!SummaryOf(s) = Ledger!StatsOf(k)
    BY SameSummary DEF Stock!SummaryOf
  <2>2. \A t : t = k => Ledger!StatsOf(t) = Ledger!StatsOf(log[s])
    BY <1>1, <1>2, SameLedgerAssumption, Ledger!StatsOfListed
  <2> HIDE DEF k
  <2>3. QED
    BY <1>3, <2>1, <2>2
<1>5. live[s] = <<>> <=> D = {}
  <2>1. live[s] = <<>> <=> DOMAIN live[s] = {}
    <3>1. DOMAIN <<>> = {}
      OBVIOUS
    <3>2. ASSUME DOMAIN live[s] = {} PROVE live[s] = <<>>
      <4>1. Len(live[s]) \in Nat /\ DOMAIN live[s] = 1 .. Len(live[s])
        BY <1>1
      <4>2. 1 \notin 1 .. Len(live[s])
        BY <3>2, <4>1
      <4>3. Len(live[s]) = 0
        BY <4>1, <4>2
      <4>4. QED
        BY <1>1, <4>3
    <3>3. QED
      BY <3>1, <3>2
  <2>2. D = {} <=> DOMAIN live[s] = {}
    BY <1>1 DEF Ledger!Lists, Ledger!Carries
  <2>3. QED
    BY <2>1, <2>2
<1>6. stats[s] = Ledger!StatsOver(log[s], D)
  BY <1>3, SameLedgerAssumption, Ledger!StatsOfIsOver
<1>7. ASSUME D = {} PROVE stats[s].open = Stock!NoPrice
  BY <1>6, <1>7 DEF Ledger!StatsOver, Ledger!NoStats, Ledger!NoPrice,
                    Stock!NoPrice
<1>8. ASSUME D # {} PROVE stats[s].open # Stock!NoPrice
  <2>1. /\ Ledger!Prints(log[s], D)
        /\ \A i \in D : log[s][i].price \in Nat \ {0}
    <3>1. D \in SUBSET DOMAIN log[s]
      BY DEF Ledger!LiveTrades
    <3> HIDE DEF D
    <3>2. QED
      BY <1>2, <3>1, SameLedgerAssumption, Ledger!LogPrints
  <2> HIDE DEF D
  <2>2. PICK first \in D, last \in D, high \in D, low \in D : \A i \in D :
           /\ first <= i /\ i <= last
           /\ log[s][low].price <= log[s][i].price
           /\ log[s][i].price <= log[s][high].price
    BY <1>8, <2>1, SameLedgerAssumption, Ledger!ExtremesExist
  <2> DEFINE l == log[s]
  <2>3. Ledger!Prints(l, D) /\ \A i \in D : /\ first <= i /\ i <= last
                                         /\ l[low].price <= l[i].price
                                         /\ l[i].price <= l[high].price
    BY <2>1, <2>2
  <2> HIDE DEF l
  <2>4. Ledger!StatsOver(l, D).open = l[first].price
    <3>1. Ledger!StatsOver(l, D) =
            [open |-> l[first].price, high |-> l[high].price,
             low |-> l[low].price, close |-> l[last].price,
             totalVolume |-> Ledger!Volume(l, D) % VolumeLimit]
      BY <2>3, SameLedgerAssumption, Ledger!StatsAre
    <3>2. QED
      BY <3>1
  <2>5. QED
    BY <1>6, <2>1, <2>4 DEF l, Stock!NoPrice
<1>9. QED
  BY <1>4, <1>5, <1>7, <1>8

(* The comparison finds what the file says.                                *)
LEMMA StockCompareStep ==
  ASSUME Ledger!IInv, StockInv, Stock!Compare
  PROVE  Stock!TapeIsTheFile'
<1>1. UNCHANGED <<ledgers, stats, reference, live, clean>>
  BY DEF Stock!Compare, Stock!tapeVars, Stock!historyVars
<1>2. ASSUME NEW s \in clean, s \in DOMAIN reference
      PROVE  /\ s \in compared' <=> live[s] # <<>>
             /\ s \in compared' =>
                  \A f \in Stock!StatFields :
                    s \in matches'[f]
                      <=> Stock!SummaryOf(s)[f] = reference[s][f]
  <2>1. /\ stats[s] = Stock!SummaryOf(s)
        /\ stats[s].open # Stock!NoPrice <=> live[s] # <<>>
    BY NumbersOfListed
  <2>2. s \in Symbols /\ (live[s] # <<>> => s \in ledgers)
    BY DEF StockInv
  <2>3. s \in compared' <=> live[s] # <<>>
    BY <1>2, <2>1, <2>2 DEF Stock!Compare
  <2>4. \A f \in Stock!StatFields :
          s \in matches'[f] <=> s \in compared' /\ stats[s][f] = reference[s][f]
    BY DEF Stock!Compare
  <2>5. QED
    BY <2>1, <2>3, <2>4
<1>3. QED
  BY <1>1, <1>2 DEF Stock!TapeIsTheFile, Stock!SummaryOf

(* Before and after the comparison it says nothing, or what it said.       *)
LEMMA TapeIsTheFileStep ==
  ASSUME Ledger!IInv, StockInv, Stock!TapeIsTheFile,
         [Stock!Next]_(Stock!vars)
  PROVE  Stock!TapeIsTheFile'
<1>1. CASE Stock!Compare
  BY <1>1, StockCompareStep
<1>2. CASE UNCHANGED Stock!vars
  <2>1. UNCHANGED <<phase, reference, compared, matches, live, clean>>
    BY <1>2 DEF Stock!vars, Stock!historyVars
  <2>2. QED
    BY <2>1 DEF Stock!TapeIsTheFile, Stock!SummaryOf
<1>3. ASSUME NEW s \in Symbols, NEW id \in TradeIds, Stock!Line(s, id)
      PROVE  phase' # "compared"
  BY <1>3 DEF Stock!Line, Stock!TradeLine, Stock!CancelLine,
              Stock!CorrectionLine, Stock!Replaying
<1>4. ASSUME NEW s, NEW summary, Stock!LoadSummary(s, summary)
      PROVE  phase' # "compared"
  BY <1>4 DEF Stock!LoadSummary
<1>5. Stock!StartReplay => phase' # "compared"
  BY DEF Stock!StartReplay
<1>6. phase' # "compared" => Stock!TapeIsTheFile'
  BY DEF Stock!TapeIsTheFile
<1>7. QED
  BY <1>1, <1>2, <1>3, <1>4, <1>5, <1>6 DEF Stock!Next

(* What StockSummary keeps beside the ledger.                              *)
StockTypes ==
  /\ phase \in {"loading", "replaying", "compared"}
  /\ IsMap(reference, Symbols, Summaries)
  /\ compared \subseteq DOMAIN reference
  /\ matches \in [Stock!StatFields -> SUBSET compared]
  /\ phase = "loading" => compared = {}

(* Every step keeps its types.                                             *)
LEMMA StockTypesStep ==
  ASSUME StockTypes, [Stock!Next]_(Stock!vars)
  PROVE  StockTypes'
<1>1. ASSUME NEW s \in Symbols, NEW summary \in Summaries,
             Stock!LoadSummary(s, summary)
      PROVE  StockTypes'
  <2>1. /\ phase' = phase /\ compared' = compared /\ matches' = matches
        /\ compared = {} /\ reference' = Stock!Put(reference, s, summary)
    BY <1>1 DEF Stock!LoadSummary, StockTypes
  <2>2. IsMap(reference', Symbols, Summaries)
    BY <2>1 DEF StockTypes, IsMap, Stock!Put
  <2>3. QED
    BY <2>1, <2>2 DEF StockTypes
<1>2. CASE Stock!StartReplay
  BY <1>2 DEF Stock!StartReplay, StockTypes, IsMap
<1>3. ASSUME NEW s \in Symbols, NEW id \in TradeIds, Stock!Line(s, id)
      PROVE  StockTypes'
  <2>1. UNCHANGED <<phase, reference, compared, matches>>
    BY <1>3 DEF Stock!Line, Stock!TradeLine, Stock!CancelLine,
                Stock!CorrectionLine, Stock!Replaying
  <2>2. QED
    BY <2>1 DEF StockTypes, IsMap
<1>4. CASE Stock!Compare
  <2>1. /\ phase' = "compared" /\ reference' = reference
        /\ compared' \subseteq DOMAIN reference
        /\ matches' \in [Stock!StatFields -> SUBSET compared']
    BY <1>4 DEF Stock!Compare
  <2>2. QED
    BY <2>1 DEF StockTypes, IsMap
<1>5. CASE UNCHANGED Stock!vars
  BY <1>5 DEF Stock!vars, StockTypes, IsMap
<1>6. QED
  BY <1>1, <1>2, <1>3, <1>4, <1>5 DEF Stock!Next

(* The program stock-summary keeps the list and its types.                 *)
THEOREM StockInvariantHolds == Stock!Spec => [](StockInv /\ StockTypes)
<1>1. Stock!Init => StockTypes
  <2>1. DOMAIN Stock!Empty = {} /\ \A K, V : IsMap(Stock!Empty, K, V)
    BY DEF Stock!Empty, IsMap
  <2>2. QED
    BY <2>1 DEF Stock!Init, StockTypes
<1>2. Ledger!IInv /\ StockInv /\ [Stock!Next]_(Stock!vars) => StockInv'
  BY StockStep
<1>3. StockTypes /\ [Stock!Next]_(Stock!vars) => StockTypes'
  BY StockTypesStep
<1>4. QED
  BY <1>1, <1>2, <1>3, StockInitHolds, LedgerIsGood, PTL DEF Stock!Spec

(* The validation of the trades file neither misses nor invents a          *)
(* difference, for a file of any length.                                   *)
THEOREM ReportIsOfTheFile == Stock!Spec => []Stock!TapeIsTheFile
<1>1. Stock!Init => Stock!TapeIsTheFile
  BY DEF Stock!Init, Stock!TapeIsTheFile
<1>2. Ledger!IInv /\ StockInv /\ Stock!TapeIsTheFile
        /\ [Stock!Next]_(Stock!vars) => Stock!TapeIsTheFile'
  BY TapeIsTheFileStep
<1>3. QED
  BY <1>1, <1>2, StockInvariantHolds, LedgerIsGood, PTL DEF Stock!Spec

(* Every variable of stock-summary keeps its type.                         *)
THEOREM StockTypesHold == Stock!Spec => []Stock!TypeOK
<1>1. Ledger!IInv => Stock!Tape!TypeOK
  BY DEF Ledger!IInv, Ledger!IndexInv, Ledger!StatsInv, Ledger!LogTypes,
         Stock!Tape!TypeOK, Ledger!TradeRecord, Stock!Tape!TradeRecord,
         Ledger!Stats, Stock!Tape!Stats, Ledger!NoPrice,
         Stock!Tape!NoPrice, Ledger!IsMap, Stock!Tape!IsMap
<1>2. StockInv => live \in [Symbols -> Seq([id : TradeIds, price : Prices,
                                           volume : Volumes])]
  BY DEF StockInv, Ledger!Listing
<1>3. Ledger!IInv /\ StockInv /\ StockTypes => Stock!TypeOK
  BY <1>1, <1>2 DEF StockInv, StockTypes, Stock!TypeOK, Stock!IsMap, IsMap
<1>4. QED
  BY <1>3, LedgerIsGood, StockInvariantHolds, PTL

-----------------------------------------------------------------------------
(* Examples: either program.                                               *)

NothingFrozen == frozen = Empty /\ asOfQuote = Empty /\ lastQuote = Empty

(* A run of the two is a run of one, which stays the one.                  *)
LEMMA OneRuns ==
  ExamplesSpec => \/ []BboRuns /\ Spec
                  \/ [](StockRuns /\ NothingFrozen) /\ Stock!Spec
<1>1. ExamplesInit => (BboRuns \/ StockRuns) /\ NothingFrozen
                        /\ Init /\ Stock!Init
  BY DEF ExamplesInit, BboRuns, StockRuns, Init, NothingFrozen
<1>2. ~(BboRuns /\ StockRuns)
  BY DEF BboRuns, StockRuns
<1>3. BboRuns /\ [ExamplesNext]_exampleVars => BboRuns' /\ [Next]_vars
  BY <1>2 DEF ExamplesNext, exampleVars, BboRuns, bboVars, vars, reportVars,
              bookVars, historyVars
<1>4. StockRuns /\ NothingFrozen /\ [ExamplesNext]_exampleVars
        => StockRuns' /\ NothingFrozen' /\ [Stock!Next]_(Stock!vars)
  BY <1>2 DEF ExamplesNext, exampleVars, StockRuns, stockVars, Stock!vars,
              Stock!tapeVars, Stock!historyVars, bboVars, historyVars,
              NothingFrozen
<1>5. QED
  BY <1>1, <1>3, <1>4, PTL DEF ExamplesSpec, Spec, Stock!Spec

(* The variables of the program that runs have their types.                *)
THEOREM ProgramTypesHold == ExamplesSpec => []ProgramTypeOK
<1>1. ProgramTypeOK <=> (BboRuns /\ TypeOK) \/ (StockRuns /\ Stock!TypeOK)
  BY DEF ProgramTypeOK
<1>2. QED
  BY <1>1, OneRuns, TypesHold, StockTypesHold, PTL

(* A number of stock-summary matches if and only if it is that of the      *)
(* trades still live by the meaning of the file.                           *)
THEOREM TapeIsRight == ExamplesSpec => []TapeIsTheFile
<1>1. TapeIsTheFile <=> (StockRuns => Stock!TapeIsTheFile)
  BY DEF TapeIsTheFile
<1>2. BboRuns => ~StockRuns
  BY DEF BboRuns, StockRuns
<1>3. QED
  BY <1>1, <1>2, OneRuns, ReportIsOfTheFile, PTL

(* What is shown of bbo-validation holds of the two: beside stock-summary  *)
(* nothing is frozen.                                                      *)
THEOREM BboIsRight ==
  ExamplesSpec => [](FrozenIsBookAtQuote /\ ConsistentFeedValidates)
<1>1. NothingFrozen => FrozenIsBookAtQuote /\ ConsistentFeedValidates
  <2>1. DOMAIN Empty = {}
    BY DEF Empty
  <2>2. QED
    BY <2>1 DEF NothingFrozen, FrozenIsBookAtQuote, ConsistentFeedValidates
<1>2. QED
  BY <1>1, OneRuns, FrozenIsRight, NoFalseDifference, PTL

=============================================================================
