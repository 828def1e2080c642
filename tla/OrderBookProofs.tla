--------------------------- MODULE OrderBookProofs ---------------------------
(***************************************************************************)
(* Theorems about OrderBook, for any symbols, ids, prices and volumes: its *)
(* displayed half is a RestingBook and its trade half a TradeLedger, so    *)
(* that what is proved of those two holds of it (BookFacts, TapeFacts).    *)
(***************************************************************************)
EXTENDS OrderBook, FiniteSetTheorems, TLAPS

(* The part of the types that the trade half relies on.                    *)
TapeTypes ==
  /\ bookBuildFailures \in Nat
  /\ tradeLedgerFailures \in Nat
  /\ tradeLog \in [Symbols -> Seq(TradeRecord)]
  /\ DOMAIN tradesById = Symbols /\ DOMAIN crossesById = Symbols
  /\ \A s \in Symbols : IsMap(tradesById[s], TradeIds, DOMAIN tradeLog[s])
  /\ \A s \in Symbols : IsMap(crossesById[s], CrossIds, DOMAIN tradeLog[s])

(* The inductive invariant.                                                *)
IInv == TapeTypes /\ TradesAndCrossesApart

(* A cross is not the trade of any trade id, and not cancelled.            *)
Apart(l, traded, crossed) ==
  \A x \in DOMAIN crossed :
    /\ \A t \in DOMAIN traded : crossed[x] # traded[t]
    /\ ~l[crossed[x]].cancelled

(* The property, one symbol at a time.                                     *)
LEMMA ApartIsTheProperty ==
  TradesAndCrossesApart <=>
    \A s \in Symbols : Apart(tradeLog[s], tradesById[s], crossesById[s])
BY DEF TradesAndCrossesApart, Apart

-----------------------------------------------------------------------------
(* Tagged, for any two indices.                                            *)
Tag(traded, crossed) ==
  [id \in ({"trade"} \X DOMAIN traded) \cup ({"cross"} \X DOMAIN crossed) |->
     IF id[1] = "trade" THEN traded[id[2]] ELSE crossed[id[2]]]

(* An entry in one of the indices is one in the tagged index.              *)
LEMMA TagTrade ==
  ASSUME NEW traded, NEW crossed, NEW t, NEW n
  PROVE  Tag(Put(traded, t, n), crossed)
           = Ledger!Put(Tag(traded, crossed), <<"trade", t>>, n)
BY DEF Tag, Put, Ledger!Put

(* Likewise for a cross.                                                   *)
LEMMA TagCross ==
  ASSUME NEW traded, NEW crossed, NEW x, NEW n
  PROVE  Tag(traded, Put(crossed, x, n))
           = Ledger!Put(Tag(traded, crossed), <<"cross", x>>, n)
BY DEF Tag, Put, Ledger!Put

(* The two modules mean the same by their statistics.                      *)
LEMMA SameFold ==
  ASSUME NEW st, NEW price, NEW volume
  PROVE  FoldIntoStats(st, price, volume)
           = Ledger!FoldIntoStats(st, price, volume)
BY DEF FoldIntoStats, Ledger!FoldIntoStats, NoPrice, Ledger!NoPrice

(* Likewise for the rescan of the log.                                     *)
LEMMA SameRecompute ==
  ASSUME NEW l
  PROVE  Recompute(l) = Ledger!Recompute(l)
BY DEF Recompute, Ledger!Recompute, FoldIntoStats, Ledger!FoldIntoStats,
       NoStats, Ledger!NoStats, NoPrice, Ledger!NoPrice, FoldLeft,
       Ledger!FoldLeft, MapThenFoldSet, Ledger!MapThenFoldSet, Max, Ledger!Max

-----------------------------------------------------------------------------
(* The tagged indices of all symbols, after a step on those of s.          *)
Index == [s \in Symbols |-> Tagged(s)]

(* The index after a step is the index before it, but for symbol s.        *)
LEMMA IndexStep ==
  ASSUME NEW s \in Symbols, NEW b,
         \A u \in Symbols \ {s} : /\ tradesById'[u] = tradesById[u]
                                  /\ crossesById'[u] = crossesById[u],
         Tag(tradesById'[s], crossesById'[s]) = b
  PROVE  Index' = [Index EXCEPT ![s] = b]
<1>1. \A u \in Symbols :
        Index'[u] = Tag(tradesById'[u], crossesById'[u])
  BY DEF Index, Tagged, Tag
<1>2. \A u \in Symbols : Index[u] = Tag(tradesById[u], crossesById[u])
  BY DEF Index, Tagged, Tag
<1>3. Index' = [u \in Symbols |-> Index'[u]] /\ DOMAIN Index = Symbols
  BY DEF Index
<1>4. QED
  BY <1>1, <1>2, <1>3

(* What the steps on the tape of s find.                                   *)
LEMMA TapeOf ==
  ASSUME TapeTypes, NEW s \in Symbols
  PROVE  /\ tradeLog[s] \in Seq(TradeRecord)
         /\ DOMAIN tradeLog[s] = 1..Len(tradeLog[s]) /\ Len(tradeLog[s]) \in Nat
         /\ \A t \in DOMAIN tradesById[s] :
              t \in TradeIds /\ tradesById[s][t] \in 1..Len(tradeLog[s])
         /\ \A x \in DOMAIN crossesById[s] :
              x \in CrossIds /\ crossesById[s][x] \in 1..Len(tradeLog[s])
         /\ Index[s] = Tag(tradesById[s], crossesById[s])
BY DEF TapeTypes, IsMap, Index, Tagged, Tag

(* The invariant is kept if it is for the one symbol the step is about.    *)
LEMMA OneTape ==
  ASSUME IInv, NEW s \in Symbols,
         bookBuildFailures' \in Nat, tradeLedgerFailures' \in Nat,
         tradeLog' \in [Symbols -> Seq(TradeRecord)],
         DOMAIN tradesById' = Symbols, DOMAIN crossesById' = Symbols,
         \A u \in Symbols \ {s} : /\ tradeLog'[u] = tradeLog[u]
                                  /\ tradesById'[u] = tradesById[u]
                                  /\ crossesById'[u] = crossesById[u],
         IsMap(tradesById'[s], TradeIds, DOMAIN tradeLog'[s]),
         IsMap(crossesById'[s], CrossIds, DOMAIN tradeLog'[s]),
         Apart(tradeLog'[s], tradesById'[s], crossesById'[s])
  PROVE  IInv'
<1>1. TapeTypes'
  BY DEF IInv, TapeTypes
<1>2. \A u \in Symbols :
        Apart(tradeLog'[u], tradesById'[u], crossesById'[u])
  BY ApartIsTheProperty DEF IInv
<1>3. TradesAndCrossesApart'
  BY <1>2 DEF TradesAndCrossesApart, Apart
<1>4. QED
  BY <1>1, <1>3 DEF IInv

(* A trade appended.                                                       *)
NewTrade(price, volume) ==
  [price |-> price, volume |-> volume, cancelled |-> FALSE]

(* What a log is with a trade at its end.                                  *)
LEMMA Appended ==
  ASSUME NEW l \in Seq(TradeRecord), NEW price \in Prices,
         NEW volume \in Volumes
  PROVE  /\ Append(l, NewTrade(price, volume)) \in Seq(TradeRecord)
         /\ DOMAIN Append(l, NewTrade(price, volume)) = 1..(Len(l) + 1)
         /\ \A i \in 1..Len(l) : Append(l, NewTrade(price, volume))[i] = l[i]
         /\ ~Append(l, NewTrade(price, volume))[Len(l) + 1].cancelled
<1> DEFINE r == NewTrade(price, volume)
<1>1. r \in TradeRecord /\ ~r.cancelled
  BY DEF NewTrade, TradeRecord
<1> HIDE DEF r
<1>2. /\ Append(l, r) \in Seq(TradeRecord)
      /\ DOMAIN Append(l, r) = 1..(Len(l) + 1)
      /\ \A i \in 1..Len(l) : Append(l, r)[i] = l[i]
      /\ Append(l, r)[Len(l) + 1] = r
  BY <1>1
<1>3. QED
  BY <1>1, <1>2 DEF r

(* A map into a log stays one when the log grows.                          *)
LEMMA ExtendedMap ==
  ASSUME NEW K, NEW n \in Nat, NEW m, IsMap(m, K, 1..n)
  PROVE  IsMap(m, K, 1..(n + 1)) /\ \A i \in DOMAIN m : m[i] \in 1..n
<1>1. 1..n \subseteq 1..(n + 1)
  OBVIOUS
<1>2. QED
  BY <1>1 DEF IsMap

(* One trade of a log changed.                                             *)
LEMMA Changed ==
  ASSUME NEW l \in Seq(TradeRecord), NEW i \in DOMAIN l, NEW r \in TradeRecord
  PROVE  /\ [l EXCEPT ![i] = r] \in Seq(TradeRecord)
         /\ DOMAIN [l EXCEPT ![i] = r] = DOMAIN l
         /\ \A k \in DOMAIN l : k # i => [l EXCEPT ![i] = r][k] = l[k]
         /\ [l EXCEPT ![i] = r][i] = r
OBVIOUS

-----------------------------------------------------------------------------
(* A trade printed: an order execution or a trade that was not displayed.  *)
LEMMA TradePrinted ==
  ASSUME IInv, bookBuildFailures' \in Nat,
         NEW s \in Symbols, NEW t \in TradeIds, NEW price \in Prices,
         NEW volume \in Volumes,
         TapeHandler(s), AppendTrade(s, price, volume, tradesById, t),
         UNCHANGED <<crossesById, tradeLedgerFailures>>
  PROVE  IInv' /\ Ledger!RecordTrade(s, <<"trade", t>>, price, volume)
<1> DEFINE n == Len(tradeLog[s])
<1>1. /\ tradeLog' = [tradeLog EXCEPT ![s] = Append(@, NewTrade(price, volume))]
      /\ stats' = [stats EXCEPT ![s] = FoldIntoStats(@, price, volume)]
      /\ tradesById' = [tradesById EXCEPT ![s] = Put(@, t, n + 1)]
      /\ crossesById' = crossesById
      /\ tradeLedgerFailures' = tradeLedgerFailures
      /\ tapes' = tapes \cup {s}
  BY DEF AppendTrade, TapeHandler, NewTrade
<1>2. /\ TapeTypes /\ Apart(tradeLog[s], tradesById[s], crossesById[s])
      /\ tradeLog \in [Symbols -> Seq(TradeRecord)]
      /\ DOMAIN tradesById = Symbols /\ DOMAIN crossesById = Symbols
      /\ tradeLog[s] \in Seq(TradeRecord) /\ n \in Nat
      /\ IsMap(tradesById[s], TradeIds, 1..n)
      /\ IsMap(crossesById[s], CrossIds, 1..n)
      /\ tradeLedgerFailures \in Nat
  BY ApartIsTheProperty DEF IInv, TapeTypes
<1>3. /\ tradeLog'[s] = Append(tradeLog[s], NewTrade(price, volume))
      /\ tradesById'[s] = Put(tradesById[s], t, n + 1)
      /\ crossesById'[s] = crossesById[s]
      /\ \A u \in Symbols \ {s} : /\ tradeLog'[u] = tradeLog[u]
                                  /\ tradesById'[u] = tradesById[u]
                                  /\ crossesById'[u] = crossesById[u]
      /\ DOMAIN tradesById' = Symbols /\ DOMAIN crossesById' = Symbols
  BY <1>1, <1>2
<1> HIDE DEF n
<1>4. IInv'
  <2>1. /\ tradeLog'[s] \in Seq(TradeRecord)
        /\ DOMAIN tradeLog'[s] = 1..(n + 1)
        /\ \A i \in 1..n : tradeLog'[s][i] = tradeLog[s][i]
    BY <1>2, <1>3, Appended DEF n
  <2>2. tradeLog' \in [Symbols -> Seq(TradeRecord)]
    BY <1>1, <1>2, <1>3, <2>1
  <2>3. /\ IsMap(tradesById'[s], TradeIds, 1..(n + 1))
        /\ DOMAIN tradesById'[s] = DOMAIN tradesById[s] \cup {t}
        /\ \A i \in DOMAIN tradesById[s] :
             i # t => tradesById'[s][i] = tradesById[s][i]
        /\ tradesById'[s][t] = n + 1
    <3>1. tradesById'[s] = Put(tradesById[s], t, n + 1)
      BY <1>3
    <3>2. /\ IsMap(tradesById[s], TradeIds, 1..n) /\ n \in Nat
      BY <1>2
    <3>3. \A i \in DOMAIN tradesById[s] : tradesById[s][i] \in 1..n
      BY <3>2 DEF IsMap
    <3>4. /\ DOMAIN tradesById'[s] = DOMAIN tradesById[s] \cup {t}
          /\ \A i \in DOMAIN tradesById[s] :
               i # t => tradesById'[s][i] = tradesById[s][i]
          /\ tradesById'[s][t] = n + 1
      BY <3>1 DEF Put
    <3>5. IsMap(tradesById'[s], TradeIds, 1..(n + 1))
      BY <3>1, <3>2 DEF Put, IsMap
    <3>6. QED
      BY <3>3, <3>4, <3>5
  <2>4. /\ IsMap(crossesById'[s], CrossIds, 1..(n + 1))
        /\ \A i \in DOMAIN crossesById[s] : crossesById[s][i] \in 1..n
    BY <1>2, <1>3, ExtendedMap
  <2>5. Apart(tradeLog'[s], tradesById'[s], crossesById'[s])
    BY <1>2, <1>3, <2>1, <2>3, <2>4 DEF Apart
  <2>6. QED
    BY <1>1, <1>2, <1>3, <2>1, <2>2, <2>3, <2>4, <2>5, OneTape
<1>5. Index' = [Index EXCEPT ![s] = Ledger!Put(@, <<"trade", t>>, n + 1)]
  <2>1. Tag(tradesById'[s], crossesById'[s])
          = Ledger!Put(Tag(tradesById[s], crossesById[s]), <<"trade", t>>, n + 1)
    BY <1>3, TagTrade
  <2>2. Index[s] = Tag(tradesById[s], crossesById[s]) /\ DOMAIN Index = Symbols
    BY <1>2, TapeOf DEF Index
  <2>3. QED
    BY <1>3, <2>1, <2>2, IndexStep
<1>6. Ledger!RecordTrade(s, <<"trade", t>>, price, volume)
  BY <1>1, <1>5, SameFold
  DEF Ledger!RecordTrade, Ledger!GetOrCreate, Ledger!Trade, NewTrade, Index, n
<1>7. QED
  BY <1>4, <1>6

(* A cross printed.                                                        *)
LEMMA CrossPrinted ==
  ASSUME IInv, bookBuildFailures' \in Nat,
         NEW s \in Symbols, NEW x \in CrossIds, NEW price \in Prices,
         NEW volume \in Volumes,
         TapeHandler(s), AppendTrade(s, price, volume, crossesById, x),
         UNCHANGED <<tradesById, tradeLedgerFailures>>
  PROVE  IInv' /\ Ledger!RecordTrade(s, <<"cross", x>>, price, volume)
<1> DEFINE n == Len(tradeLog[s])
<1>1. /\ tradeLog' = [tradeLog EXCEPT ![s] = Append(@, NewTrade(price, volume))]
      /\ stats' = [stats EXCEPT ![s] = FoldIntoStats(@, price, volume)]
      /\ crossesById' = [crossesById EXCEPT ![s] = Put(@, x, n + 1)]
      /\ tradesById' = tradesById
      /\ tradeLedgerFailures' = tradeLedgerFailures
      /\ tapes' = tapes \cup {s}
  BY DEF AppendTrade, TapeHandler, NewTrade
<1>2. /\ TapeTypes /\ Apart(tradeLog[s], tradesById[s], crossesById[s])
      /\ tradeLog \in [Symbols -> Seq(TradeRecord)]
      /\ DOMAIN tradesById = Symbols /\ DOMAIN crossesById = Symbols
      /\ tradeLog[s] \in Seq(TradeRecord) /\ n \in Nat
      /\ IsMap(tradesById[s], TradeIds, 1..n)
      /\ IsMap(crossesById[s], CrossIds, 1..n)
      /\ tradeLedgerFailures \in Nat
  BY ApartIsTheProperty DEF IInv, TapeTypes
<1>3. /\ tradeLog'[s] = Append(tradeLog[s], NewTrade(price, volume))
      /\ crossesById'[s] = Put(crossesById[s], x, n + 1)
      /\ tradesById'[s] = tradesById[s]
      /\ \A u \in Symbols \ {s} : /\ tradeLog'[u] = tradeLog[u]
                                  /\ tradesById'[u] = tradesById[u]
                                  /\ crossesById'[u] = crossesById[u]
      /\ DOMAIN tradesById' = Symbols /\ DOMAIN crossesById' = Symbols
  BY <1>1, <1>2
<1> HIDE DEF n
<1>4. IInv'
  <2>1. /\ tradeLog'[s] \in Seq(TradeRecord)
        /\ DOMAIN tradeLog'[s] = 1..(n + 1)
        /\ \A i \in 1..n : tradeLog'[s][i] = tradeLog[s][i]
    BY <1>2, <1>3, Appended DEF n
  <2>2. tradeLog' \in [Symbols -> Seq(TradeRecord)]
    BY <1>1, <1>2, <1>3, <2>1
  <2>3. /\ IsMap(crossesById'[s], CrossIds, 1..(n + 1))
        /\ DOMAIN crossesById'[s] = DOMAIN crossesById[s] \cup {x}
        /\ \A i \in DOMAIN crossesById[s] : crossesById[s][i] \in 1..n
        /\ \A i \in DOMAIN crossesById[s] :
             i # x => crossesById'[s][i] = crossesById[s][i]
        /\ crossesById'[s][x] = n + 1
    <3>1. crossesById'[s] = Put(crossesById[s], x, n + 1)
      BY <1>3
    <3>2. /\ IsMap(crossesById[s], CrossIds, 1..n) /\ n \in Nat
      BY <1>2
    <3>3. \A i \in DOMAIN crossesById[s] : crossesById[s][i] \in 1..n
      BY <3>2 DEF IsMap
    <3>4. /\ DOMAIN crossesById'[s] = DOMAIN crossesById[s] \cup {x}
          /\ \A i \in DOMAIN crossesById[s] :
               i # x => crossesById'[s][i] = crossesById[s][i]
          /\ crossesById'[s][x] = n + 1
      BY <3>1 DEF Put
    <3>5. IsMap(crossesById'[s], CrossIds, 1..(n + 1))
      BY <3>1, <3>2 DEF Put, IsMap
    <3>6. QED
      BY <3>3, <3>4, <3>5
  <2>4. /\ IsMap(tradesById'[s], TradeIds, 1..(n + 1))
        /\ \A i \in DOMAIN tradesById[s] : tradesById[s][i] \in 1..n
    BY <1>2, <1>3, ExtendedMap
  <2>c. ~tradeLog'[s][n + 1].cancelled
    BY <1>2, <1>3, Appended DEF n
  <2>5. Apart(tradeLog'[s], tradesById'[s], crossesById'[s])
    BY <1>2, <1>3, <2>1, <2>3, <2>4, <2>c DEF Apart
  <2>6. QED
    BY <1>1, <1>2, <1>3, <2>1, <2>2, <2>3, <2>4, <2>5, OneTape
<1>5. Index' = [Index EXCEPT ![s] = Ledger!Put(@, <<"cross", x>>, n + 1)]
  <2>1. Tag(tradesById'[s], crossesById'[s])
          = Ledger!Put(Tag(tradesById[s], crossesById[s]), <<"cross", x>>, n + 1)
    BY <1>3, TagCross
  <2>2. Index[s] = Tag(tradesById[s], crossesById[s]) /\ DOMAIN Index = Symbols
    BY <1>2, TapeOf DEF Index
  <2>3. QED
    BY <1>3, <2>1, <2>2, IndexStep
<1>6. Ledger!RecordTrade(s, <<"cross", x>>, price, volume)
  BY <1>1, <1>5, SameFold
  DEF Ledger!RecordTrade, Ledger!GetOrCreate, Ledger!Trade, NewTrade, Index, n
<1>7. QED
  BY <1>4, <1>6

(* A message that names no trade, or no cross, that could be changed.      *)
LEMMA NothingFound ==
  ASSUME IInv, bookBuildFailures' \in Nat, NEW s \in Symbols,
         TapeHandler(s), TradeLedgerFailure,
         UNCHANGED <<tradesById, crossesById>>
  PROVE  IInv' /\ Index' = Index /\ Ledger!Fail
<1>1. /\ tradeLog' = tradeLog /\ stats' = stats
      /\ tradeLedgerFailures' = tradeLedgerFailures + 1
      /\ tradesById' = tradesById /\ crossesById' = crossesById
  BY DEF TradeLedgerFailure
<1>2. IInv'
  <2>1. TapeTypes'
    BY <1>1 DEF IInv, TapeTypes
  <2>2. TradesAndCrossesApart'
    BY <1>1 DEF IInv, TradesAndCrossesApart
  <2>3. QED
    BY <2>1, <2>2 DEF IInv
<1>3. Index' = Index
  BY <1>1 DEF Index, Tagged
<1>4. Ledger!Fail
  BY <1>1, <1>3 DEF Ledger!Fail, Index
<1>5. QED
  BY <1>2, <1>3, <1>4

(* A trade cancelled: it is not a cross.                                   *)
LEMMA TradeCancelled ==
  ASSUME IInv, bookBuildFailures' \in Nat,
         NEW s \in Symbols, NEW t \in TradeIds, TradeCancel(s, t)
  PROVE  IInv' /\ Ledger!CancelTrade(s, <<"trade", t>>)
<1>1. /\ tapes' = tapes \cup {s}
      /\ tradesById' = tradesById /\ crossesById' = crossesById
      /\ TapeHandler(s)
  BY DEF TradeCancel, TapeHandler
<1>2. /\ TapeTypes /\ Apart(tradeLog[s], tradesById[s], crossesById[s])
      /\ tradeLog \in [Symbols -> Seq(TradeRecord)]
      /\ tradeLog[s] \in Seq(TradeRecord)
      /\ tradeLedgerFailures \in Nat
  BY ApartIsTheProperty DEF IInv, TapeTypes
<1>3. /\ <<"trade", t>> \in DOMAIN Index[s] <=> t \in DOMAIN tradesById[s]
      /\ t \in DOMAIN tradesById[s] =>
           Index[s][<<"trade", t>>] = tradesById[s][t]
  <2>1. Index[s] = Tag(tradesById[s], crossesById[s])
    BY <1>2, TapeOf
  <2>2. QED
    BY <2>1 DEF Tag
<1>4. Ledger!Cancellable(s, <<"trade", t>>) <=> Cancellable(s, t)
  BY <1>3 DEF Ledger!Cancellable, Ledger!IsCancelled, Ledger!Known,
              Cancellable, Index
<1>5. CASE ~Cancellable(s, t)
  <2>1. TradeLedgerFailure
    BY <1>5 DEF TradeCancel
  <2>2. QED
    BY <1>1, <1>4, <1>5, <2>1, NothingFound
    DEF Ledger!CancelTrade, Ledger!GetOrCreate
<1>6. CASE Cancellable(s, t)
  <2> DEFINE i == tradesById[s][t]
  <2>1. /\ tradeLog' = [tradeLog EXCEPT ![s][i].cancelled = TRUE]
        /\ stats' = [stats EXCEPT ![s] = Recompute(tradeLog'[s])]
        /\ tradeLedgerFailures' = tradeLedgerFailures
    BY <1>6 DEF TradeCancel
  <2>2. i \in DOMAIN tradeLog[s]
    BY <1>2, <1>6, TapeOf DEF Cancellable
  <2> DEFINE l == [tradeLog[s] EXCEPT ![i].cancelled = TRUE]
  <2>3. tradeLog' = [tradeLog EXCEPT ![s] = l]
    BY <1>2, <2>1
  <2>4. /\ l \in Seq(TradeRecord) /\ DOMAIN l = DOMAIN tradeLog[s]
        /\ \A k \in DOMAIN l : k # i => l[k] = tradeLog[s][k]
    <3> DEFINE r == [tradeLog[s][i] EXCEPT !.cancelled = TRUE]
    <3>0. tradeLog[s][i] \in TradeRecord
      BY <1>2, <2>2
    <3>1. r \in TradeRecord
      BY <3>0 DEF TradeRecord
    <3>2. l = [tradeLog[s] EXCEPT ![i] = r]
      OBVIOUS
    <3> HIDE DEF r, l, i
    <3>3. QED
      BY <1>2, <2>2, <3>1, <3>2
  <2>5. Ledger!CancelTrade(s, <<"trade", t>>)
    <3>1. Index' = Index
      BY <1>1 DEF Index, Tagged
    <3>2. tradeLog' = [tradeLog EXCEPT ![s] =
                         Ledger!CancelAt(@, Index[s][<<"trade", t>>])]
      BY <1>3, <1>6, <2>3 DEF Ledger!CancelAt, Cancellable
    <3>3. stats' = [stats EXCEPT ![s] = Ledger!Recompute(tradeLog'[s])]
      BY <2>1, SameRecompute
    <3>4. QED
      BY <1>1, <1>4, <1>6, <2>1, <3>1, <3>2, <3>3
      DEF Ledger!CancelTrade, Ledger!GetOrCreate, Index
  <2> HIDE DEF l, i
  <2>6. IInv'
    <3>1. /\ tradeLog'[s] = l /\ tradeLog' \in [Symbols -> Seq(TradeRecord)]
          /\ \A u \in Symbols \ {s} : tradeLog'[u] = tradeLog[u]
      BY <1>2, <2>3, <2>4
    <3>2. \A x \in DOMAIN crossesById[s] :
            crossesById[s][x] \in DOMAIN l /\ crossesById[s][x] # i
      BY <1>2, <1>6, <2>4, TapeOf DEF Apart, Cancellable, i
    <3>3. Apart(tradeLog'[s], tradesById'[s], crossesById'[s])
      BY <1>1, <1>2, <2>4, <3>1, <3>2 DEF Apart
    <3>4. /\ IsMap(tradesById'[s], TradeIds, DOMAIN tradeLog'[s])
          /\ IsMap(crossesById'[s], CrossIds, DOMAIN tradeLog'[s])
          /\ DOMAIN tradesById' = Symbols /\ DOMAIN crossesById' = Symbols
          /\ tradeLedgerFailures' \in Nat
      BY <1>1, <1>2, <2>1, <2>4, <3>1 DEF TapeTypes
    <3>5. QED
      BY <1>1, <3>1, <3>3, <3>4, OneTape
  <2>7. QED
    BY <2>5, <2>6
<1>7. QED
  BY <1>5, <1>6

(* The volume of a cross corrected: it is not cancelled, so that the       *)
(* ledger would not say its volume was disturbed.                          *)
LEMMA CrossCorrected ==
  ASSUME IInv, bookBuildFailures' \in Nat, NEW s \in Symbols,
         NEW x \in CrossIds, NEW volume \in Volumes,
         CrossCorrection(s, x, volume)
  PROVE  IInv' /\ Ledger!AdjustVolume(s, <<"cross", x>>, volume)
<1>1. /\ tapes' = tapes \cup {s}
      /\ tradesById' = tradesById /\ crossesById' = crossesById
      /\ TapeHandler(s)
  BY DEF CrossCorrection, TapeHandler
<1>2. /\ TapeTypes /\ Apart(tradeLog[s], tradesById[s], crossesById[s])
      /\ tradeLog \in [Symbols -> Seq(TradeRecord)]
      /\ tradeLog[s] \in Seq(TradeRecord)
      /\ tradeLedgerFailures \in Nat
  BY ApartIsTheProperty DEF IInv, TapeTypes
<1>3. /\ <<"cross", x>> \in DOMAIN Index[s] <=> x \in DOMAIN crossesById[s]
      /\ x \in DOMAIN crossesById[s] =>
           Index[s][<<"cross", x>>] = crossesById[s][x]
  <2>1. Index[s] = Tag(tradesById[s], crossesById[s])
    BY <1>2, TapeOf
  <2>2. QED
    BY <2>1 DEF Tag
<1>4. Ledger!Known(s, <<"cross", x>>) <=> x \in DOMAIN crossesById[s]
  BY <1>3 DEF Ledger!Known, Index
<1>5. CASE x \notin DOMAIN crossesById[s]
  <2>1. TradeLedgerFailure
    BY <1>5 DEF CrossCorrection
  <2>2. QED
    BY <1>1, <1>4, <1>5, <2>1, NothingFound
    DEF Ledger!AdjustVolume, Ledger!GetOrCreate
<1>6. CASE x \in DOMAIN crossesById[s]
  <2> DEFINE i == crossesById[s][x]
  <2>1. /\ tradeLog' = [tradeLog EXCEPT ![s][i].volume = volume]
        /\ stats' = [stats EXCEPT ![s].totalVolume =
                        (@ + volume - tradeLog[s][i].volume) % VolumeLimit]
        /\ tradeLedgerFailures' = tradeLedgerFailures
    BY <1>6 DEF CrossCorrection
  <2>2. i \in DOMAIN tradeLog[s] /\ ~tradeLog[s][i].cancelled
    BY <1>2, <1>6, TapeOf DEF Apart
  <2> DEFINE r == [tradeLog[s][i] EXCEPT !.volume = volume]
             l == [tradeLog[s] EXCEPT ![i] = r]
  <2>3. tradeLog' = [tradeLog EXCEPT ![s] = l]
    BY <1>2, <2>1
  <2>4. Ledger!AdjustVolume(s, <<"cross", x>>, volume)
    <3>1. Index' = Index
      BY <1>1 DEF Index, Tagged
    <3>2. ~Ledger!IsCancelled(s, <<"cross", x>>)
      BY <1>3, <1>6, <2>2 DEF Ledger!IsCancelled, Index
    <3>3. [u \in Symbols |-> FALSE] =
            [[u \in Symbols |-> FALSE] EXCEPT
               ![s] = @ \/ Ledger!IsCancelled(s, <<"cross", x>>)]
      BY <3>2
    <3>4. /\ tradeLog' = [tradeLog EXCEPT
                            ![s][Index[s][<<"cross", x>>]].volume = volume]
          /\ stats' = [stats EXCEPT ![s].totalVolume =
               (@ + volume - tradeLog[s][Index[s][<<"cross", x>>]].volume)
                 % VolumeLimit]
      BY <1>3, <1>6, <2>1
    <3>5. QED
      BY <1>1, <1>4, <1>6, <2>1, <3>1, <3>3, <3>4
      DEF Ledger!AdjustVolume, Ledger!GetOrCreate, Index
  <2>5. /\ l \in Seq(TradeRecord) /\ DOMAIN l = DOMAIN tradeLog[s]
        /\ \A k \in DOMAIN l : l[k].cancelled = tradeLog[s][k].cancelled
    <3>0. tradeLog[s][i] \in TradeRecord
      BY <1>2, <2>2
    <3>1. r \in TradeRecord /\ r.cancelled = tradeLog[s][i].cancelled
      BY <3>0 DEF TradeRecord
    <3> HIDE DEF r
    <3>2. QED
      BY <1>2, <2>2, <3>1, Changed
  <2> HIDE DEF l, i, r
  <2>6. IInv'
    <3>1. /\ tradeLog'[s] = l /\ tradeLog' \in [Symbols -> Seq(TradeRecord)]
          /\ \A u \in Symbols \ {s} : tradeLog'[u] = tradeLog[u]
      BY <1>2, <2>3, <2>5
    <3>2. \A y \in DOMAIN crossesById[s] : crossesById[s][y] \in DOMAIN l
      BY <1>2, <2>5, TapeOf
    <3>3. Apart(tradeLog'[s], tradesById'[s], crossesById'[s])
      BY <1>1, <1>2, <2>5, <3>1, <3>2 DEF Apart
    <3>4. /\ IsMap(tradesById'[s], TradeIds, DOMAIN tradeLog'[s])
          /\ IsMap(crossesById'[s], CrossIds, DOMAIN tradeLog'[s])
          /\ DOMAIN tradesById' = Symbols /\ DOMAIN crossesById' = Symbols
          /\ tradeLedgerFailures' \in Nat
      BY <1>1, <1>2, <2>1, <2>5, <3>1 DEF TapeTypes
    <3>5. QED
      BY <1>1, <3>1, <3>3, <3>4, OneTape
  <2>7. QED
    BY <2>4, <2>6
<1>7. QED
  BY <1>5, <1>6

-----------------------------------------------------------------------------
(* The displayed half counts failures from one Nat to the next.            *)
LEMMA FailuresCount ==
  ASSUME bookBuildFailures \in Nat, NEW s \in Symbols,
         \/ UNCHANGED bookVars
         \/ \E o \in OrderIds : OrderMessage(s, o)
         \/ \E o \in OrderIds, volume \in Volumes :
              Resting!OrderExecution(s, o, volume)
  PROVE  bookBuildFailures' \in Nat
<1>1. \A b \in BOOLEAN : Resting!FailureIf(b) \in Nat
  BY DEF Resting!FailureIf
<1>2. ASSUME NEW o \in OrderIds, Resting!UnknownOrder(s, o)
      PROVE  bookBuildFailures' \in Nat
  BY <1>2 DEF Resting!UnknownOrder
<1>3. ASSUME NEW o \in OrderIds, OrderMessage(s, o)
      PROVE  bookBuildFailures' \in Nat
  <2>1. CASE Resting!DeleteOrder(s, o)
    BY <1>1, <1>2, <2>1 DEF Resting!DeleteOrder, Resting!FailureIf
  <2>2. ASSUME NEW price \in Prices, NEW volume \in Volumes,
               Resting!ModifyOrder(s, o, price, volume)
        PROVE  bookBuildFailures' \in Nat
    BY <1>1, <1>2, <2>2 DEF Resting!ModifyOrder, Resting!FailureIf
  <2>3. ASSUME NEW price \in Prices, NEW volume \in Volumes,
               NEW side \in Resting!Sides,
               \/ Resting!AddOrder(s, o, price, volume, side)
               \/ Resting!AddOrderRefresh(s, o, price, volume, side)
        PROVE  bookBuildFailures' \in Nat
    BY <2>3 DEF Resting!AddOrder, Resting!AddOrderRefresh
  <2>4. ASSUME NEW price \in Prices, NEW volume \in Volumes,
               NEW side \in Resting!Sides, NEW n \in OrderIds,
               Resting!ReplaceOrder(s, o, n, price, volume, side)
        PROVE  bookBuildFailures' \in Nat
    BY <1>1, <2>4 DEF Resting!ReplaceOrder, Resting!FailureIf
  <2>5. QED
    BY <1>3, <2>1, <2>2, <2>3, <2>4 DEF OrderMessage
<1>4. ASSUME NEW o \in OrderIds, NEW volume \in Volumes,
             Resting!OrderExecution(s, o, volume)
      PROVE  bookBuildFailures' \in Nat
  BY <1>1, <1>2, <1>4 DEF Resting!OrderExecution, Resting!FailureIf
<1>5. CASE UNCHANGED bookVars
  BY <1>5 DEF bookVars
<1>6. QED
  BY <1>3, <1>4, <1>5

(* A step as the ledger sees it.                                           *)
LedgerStep(s) ==
  \E id \in ({"trade"} \X TradeIds) \cup ({"cross"} \X CrossIds) :
    \/ Ledger!RecordOrReplace(s, id)
    \/ Ledger!CancelTrade(s, id)
    \/ \E volume \in Volumes : Ledger!AdjustVolume(s, id, volume)

(* Every trade message is an operation of the ledger.                      *)
LEMMA TradeMessageIsOperation ==
  ASSUME IInv, NEW s \in Symbols, TradeMessage(s)
  PROVE  IInv' /\ LedgerStep(s)
<1>0. bookBuildFailures \in Nat
  BY DEF IInv, TapeTypes
<1>1. ASSUME NEW t \in TradeIds, NEW price \in Prices, NEW volume \in Volumes,
             NonDisplayedTrade(s, t, price, volume)
      PROVE  IInv' /\ LedgerStep(s)
  <2>1. bookBuildFailures' \in Nat
    BY <1>0, <1>1, FailuresCount DEF NonDisplayedTrade
  <2>2. IInv' /\ Ledger!RecordTrade(s, <<"trade", t>>, price, volume)
    BY <1>1, <2>1, TradePrinted DEF NonDisplayedTrade
  <2>3. QED
    BY <2>2 DEF LedgerStep, Ledger!RecordOrReplace
<1>2. ASSUME NEW t \in TradeIds, NEW price \in Prices, NEW volume \in Volumes,
             NEW o \in OrderIds, OrderExecution(s, o, t, price, volume)
      PROVE  IInv' /\ LedgerStep(s)
  <2>1. bookBuildFailures' \in Nat
    BY <1>0, <1>2, FailuresCount DEF OrderExecution
  <2>2. IInv' /\ Ledger!RecordTrade(s, <<"trade", t>>, price, volume)
    BY <1>2, <2>1, TradePrinted DEF OrderExecution
  <2>3. QED
    BY <2>2 DEF LedgerStep, Ledger!RecordOrReplace
<1>3. ASSUME NEW x \in CrossIds, NEW price \in Prices, NEW volume \in Volumes,
             CrossTrade(s, x, price, volume)
      PROVE  IInv' /\ LedgerStep(s)
  <2>1. bookBuildFailures' \in Nat
    BY <1>0, <1>3, FailuresCount DEF CrossTrade
  <2>2. IInv' /\ Ledger!RecordTrade(s, <<"cross", x>>, price, volume)
    BY <1>3, <2>1, CrossPrinted DEF CrossTrade
  <2>3. QED
    BY <2>2 DEF LedgerStep, Ledger!RecordOrReplace
<1>4. ASSUME NEW x \in CrossIds, NEW volume \in Volumes,
             CrossCorrection(s, x, volume)
      PROVE  IInv' /\ LedgerStep(s)
  <2>1. bookBuildFailures' \in Nat
    BY <1>0, <1>4, FailuresCount DEF CrossCorrection
  <2>2. IInv' /\ Ledger!AdjustVolume(s, <<"cross", x>>, volume)
    BY <1>4, <2>1, CrossCorrected
  <2>3. QED
    BY <2>2 DEF LedgerStep
<1>5. ASSUME NEW t \in TradeIds, TradeCancel(s, t)
      PROVE  IInv' /\ LedgerStep(s)
  <2>1. bookBuildFailures' \in Nat
    BY <1>0, <1>5, FailuresCount DEF TradeCancel
  <2>2. IInv' /\ Ledger!CancelTrade(s, <<"trade", t>>)
    BY <1>5, <2>1, TradeCancelled
  <2>3. QED
    BY <2>2 DEF LedgerStep
<1>6. QED
  BY <1>1, <1>2, <1>3, <1>4, <1>5 DEF TradeMessage

(* A step that leaves the trade half alone.                                *)
LEMMA TapeUntouched ==
  ASSUME IInv, bookBuildFailures' \in Nat, UNCHANGED tapeVars
  PROVE  IInv' /\ UNCHANGED Ledger!ledgerVars
<1>1. TapeTypes'
  BY DEF IInv, TapeTypes, tapeVars
<1>2. TradesAndCrossesApart'
  BY DEF IInv, TradesAndCrossesApart, tapeVars
<1>3. Index' = Index
  BY DEF Index, Tagged, tapeVars
<1>4. UNCHANGED Ledger!ledgerVars
  BY <1>3 DEF Ledger!ledgerVars, Index, tapeVars
<1>5. QED
  BY <1>1, <1>2, <1>4 DEF IInv

(* Every step keeps the invariant and is one of the ledger, or none.       *)
LEMMA NextStep ==
  ASSUME IInv, [Next]_vars
  PROVE  IInv' /\ [Ledger!Next]_Ledger!ledgerVars
<1>0. bookBuildFailures \in Nat
  BY DEF IInv, TapeTypes
<1>1. CASE UNCHANGED vars
  BY <1>0, <1>1, TapeUntouched DEF vars, bookVars, tapeVars
<1>2. ASSUME NEW s \in Symbols, WithinBounds', TradeMessage(s)
      PROVE  IInv' /\ Ledger!Next
  <2>1. IInv' /\ LedgerStep(s)
    BY <1>2, TradeMessageIsOperation
  <2>2. /\ bookBuildFailures' \in Nat /\ tradeLedgerFailures' \in Nat
        /\ MaxFailures \in Nat
    BY <2>1, OrderBookAssumption DEF IInv, TapeTypes
  <2>3. Ledger!WithinBounds'
    <3>1. \A u \in Symbols : Len(tradeLog'[u]) <= MaxTrades
      BY <1>2 DEF WithinBounds
    <3>2. bookBuildFailures' + tradeLedgerFailures' <= MaxFailures
      BY <1>2 DEF WithinBounds
    <3>3. \A m, n, k \in Nat : m + n <= k => n <= k
      OBVIOUS
    <3>4. tradeLedgerFailures' <= MaxFailures
      BY <2>2, <3>2, <3>3
    <3>5. QED
      BY <3>1, <3>4 DEF Ledger!WithinBounds
  <2>4. QED
    BY <2>1, <2>3 DEF LedgerStep, Ledger!Next
<1>3. ASSUME NEW s \in Symbols, ReferenceMessage(s)
      PROVE  IInv' /\ UNCHANGED Ledger!ledgerVars
  <2>1. UNCHANGED <<bookVars, tapeVars>>
    BY <1>3
    DEF ReferenceMessage, ReferenceHandler, SymbolIndexMapping,
        SecurityStatus, Imbalance, RetailPriceImprovement
  <2>2. QED
    BY <1>0, <2>1, FailuresCount, TapeUntouched
<1>4. ASSUME NEW s \in Symbols, NEW o \in OrderIds, OrderMessage(s, o)
      PROVE  IInv' /\ UNCHANGED Ledger!ledgerVars
  <2>1. UNCHANGED tapeVars
    BY <1>4 DEF OrderMessage, BookHandler
  <2>2. QED
    BY <1>0, <1>4, <2>1, FailuresCount, TapeUntouched
<1>5. QED
  BY <1>1, <1>2, <1>3, <1>4 DEF Next

-----------------------------------------------------------------------------
(* The initial state satisfies the invariant and is one of the ledger.     *)
LEMMA InitHolds == Init => IInv /\ Ledger!Init
<1> SUFFICES ASSUME Init PROVE IInv /\ Ledger!Init
  OBVIOUS
<1>1. /\ tradeLog = [s \in Symbols |-> <<>>]
      /\ tradesById = [s \in Symbols |-> Empty]
      /\ crossesById = [s \in Symbols |-> Empty]
      /\ tradeLedgerFailures = 0 /\ bookBuildFailures = 0
  BY DEF Init, Resting!Init
<1>2. \A s \in Symbols :
        /\ tradesById[s] = Empty /\ crossesById[s] = Empty
        /\ DOMAIN tradesById[s] = {} /\ DOMAIN crossesById[s] = {}
        /\ IsMap(tradesById[s], TradeIds, DOMAIN tradeLog[s])
        /\ IsMap(crossesById[s], CrossIds, DOMAIN tradeLog[s])
  BY <1>1 DEF Empty, IsMap
<1>3. tradeLog \in [Symbols -> Seq(TradeRecord)]
  BY <1>1
<1>4. TapeTypes
  BY <1>1, <1>2, <1>3 DEF TapeTypes
<1>5. TradesAndCrossesApart
  BY <1>2 DEF TradesAndCrossesApart
<1>6. \A s \in Symbols : Tagged(s) = Ledger!Empty
  BY <1>2 DEF Tagged, Ledger!Empty
<1>7. [s \in Symbols |-> Tagged(s)] = [s \in Symbols |-> Ledger!Empty]
  BY <1>6
<1>8. NoStats = Ledger!NoStats
  BY DEF NoStats, Ledger!NoStats, NoPrice, Ledger!NoPrice
<1>9. Ledger!Init
  BY <1>7, <1>8 DEF Init, Ledger!Init
<1>10. QED
  BY <1>4, <1>5, <1>9 DEF IInv

(* The inductive invariant holds in every reachable state.                 *)
THEOREM InvariantHolds == Spec => []IInv
BY InitHolds, NextStep, PTL DEF Spec

(* No trade record is in both indices, so that no cancel reaches a cross   *)
(* and no correction a trade, whatever ids are used again.                 *)
THEOREM TradesStayApart == Spec => []TradesAndCrossesApart
<1>1. IInv => TradesAndCrossesApart
  BY DEF IInv
<1>2. QED
  BY <1>1, InvariantHolds, PTL

(* The trade half of the order book is a ledger that is never asked to     *)
(* adjust the volume of a cancelled trade.                                 *)
THEOREM TradeHalfIsLedger == Spec => ImplementsTradeLedger
<1>1. IInv /\ [Next]_vars => [Ledger!Next]_Ledger!ledgerVars
  BY NextStep
<1>2. Init => Ledger!Init
  BY InitHolds
<1>3. QED
  BY <1>1, <1>2, InvariantHolds, PTL
  DEF Spec, ImplementsTradeLedger, Ledger!Spec

(* The displayed half of the order book is a RestingBook: whatever the     *)
(* trade and reference messages between them, its levels and orders make   *)
(* steps of that module only, and what is proved of it holds of the book.  *)
THEOREM DisplayedHalfIsRestingBook == Spec => Resting!Spec
<1>1. Init => Resting!Init
  BY DEF Init
<1>2. ASSUME [Next]_vars PROVE [Resting!Next]_Resting!bookVars
  <2> USE DEF bookVars, Resting!bookVars
  <2>1. CASE UNCHANGED vars
    BY <2>1 DEF vars
  <2>2. ASSUME NEW s \in Symbols, Resting!Message(s), WithinBounds'
        PROVE  Resting!Next
    BY <2>2 DEF Resting!Next, WithinBounds
  <2>3. ASSUME NEW s \in Symbols, NEW o \in OrderIds, OrderMessage(s, o)
        PROVE  Resting!Message(s)
    BY <2>3
    DEF OrderMessage, Resting!Message, Resting!Amend, Resting!Enter
  <2>4. ASSUME NEW s \in Symbols, TradeMessage(s)
        PROVE  Resting!Message(s) \/ UNCHANGED bookVars
    <3>1. ASSUME NEW t \in TradeIds, NEW price \in Prices,
                 NEW volume \in Volumes, NEW o \in OrderIds,
                 OrderExecution(s, o, t, price, volume)
          PROVE  Resting!Message(s)
      BY <3>1 DEF OrderExecution, Resting!Message, Resting!Amend
    <3>2. QED
      BY <2>4, <3>1
      DEF TradeMessage, NonDisplayedTrade, CrossTrade, CrossCorrection,
          TradeCancel
  <2>5. ASSUME NEW s \in Symbols, ReferenceMessage(s)
        PROVE  UNCHANGED bookVars
    BY <2>5
    DEF ReferenceMessage, ReferenceHandler, SymbolIndexMapping,
        SecurityStatus, Imbalance, RetailPriceImprovement
  <2>6. QED
    BY <1>2, <2>1, <2>2, <2>3, <2>4, <2>5 DEF Next
<1>3. QED
  BY <1>1, <1>2, PTL DEF Spec, Resting!Spec

-----------------------------------------------------------------------------
(* What RestingBookProofs says of a book and TradeLedgerProofs of a tape.  *)
BookFacts == INSTANCE RestingBookProofs

TapeFacts == INSTANCE TradeLedgerProofs WITH
               TradeIds <- ({"trade"} \X TradeIds) \cup ({"cross"} \X CrossIds),
               ledgers <- tapes, log <- tradeLog,
               byId <- [s \in Symbols |-> Tagged(s)],
               failures <- tradeLedgerFailures,
               disturbed <- [s \in Symbols |-> FALSE]

(* The displayed half is the book that the theorems are about: it starts   *)
(* empty, ...                                                              *)
LEMMA SameBookInit == Resting!Init => BookFacts!Init
BY DEF Resting!Init, BookFacts!Init, Resting!Empty, BookFacts!Empty,
       Resting!Sides, BookFacts!Sides

(* ... the messages are the same, ...                                      *)
LEMMA SameBookMessage ==
  ASSUME NEW s, Resting!Message(s)
  PROVE  BookFacts!Message(s)
BY DEF Resting!Message, BookFacts!Message, Resting!Amend, BookFacts!Amend,
       Resting!Enter, BookFacts!Enter, Resting!AddOrder, BookFacts!AddOrder,
       Resting!AddOrderRefresh, BookFacts!AddOrderRefresh,
       Resting!DeleteOrder, BookFacts!DeleteOrder, Resting!OrderExecution,
       BookFacts!OrderExecution, Resting!ModifyOrder, BookFacts!ModifyOrder,
       Resting!ReplaceOrder, BookFacts!ReplaceOrder, Resting!UnknownOrder,
       BookFacts!UnknownOrder, Resting!Given, BookFacts!Given, Resting!Live,
       BookFacts!Live, Resting!Sides, BookFacts!Sides, Resting!AddLevel,
       BookFacts!AddLevel, Resting!RemoveLevel, BookFacts!RemoveLevel,
       Resting!CanRemove, BookFacts!CanRemove, Resting!FailureIf,
       BookFacts!FailureIf, Resting!AfterExecution, BookFacts!AfterExecution,
       Resting!Put, BookFacts!Put, Resting!Drop, BookFacts!Drop,
       Resting!CountAt, BookFacts!CountAt

(* ... so are the bounds, ...                                              *)
LEMMA SameBookBounds == Resting!WithinBounds => BookFacts!WithinBounds
BY DEF Resting!WithinBounds, BookFacts!WithinBounds, Resting!Sides,
       BookFacts!Sides

(* ... and its assumption is part of this module's.                        *)
LEMMA SameBookAssumption == BookFacts!BookAssumption
BY OrderBookAssumption DEF BookFacts!BookAssumption, NoPrice,
       BookFacts!IsFiniteSet, IsFiniteSet

(* The trade half is the ledger that the theorems are about: it starts     *)
(* empty, ...                                                              *)
LEMMA SameTapeInit == Ledger!Init => TapeFacts!Init
BY DEF Ledger!Init, TapeFacts!Init, Ledger!Empty, TapeFacts!Empty,
       Ledger!NoStats, TapeFacts!NoStats, Ledger!NoPrice, TapeFacts!NoPrice

(* ... rescans the same, ...                                               *)
LEMMA SameTapeRecompute ==
  ASSUME NEW l
  PROVE  Ledger!Recompute(l) = TapeFacts!Recompute(l)
BY DEF TapeFacts!Recompute, Ledger!Recompute, TapeFacts!FoldIntoStats,
       Ledger!FoldIntoStats, TapeFacts!NoStats, Ledger!NoStats,
       TapeFacts!NoPrice, Ledger!NoPrice, TapeFacts!FoldLeft, Ledger!FoldLeft,
       TapeFacts!MapThenFoldSet, Ledger!MapThenFoldSet, TapeFacts!Max,
       Ledger!Max

(* ... has the same bounds, ...                                            *)
LEMMA SameTapeBounds == Ledger!WithinBounds => TapeFacts!WithinBounds
BY DEF Ledger!WithinBounds, TapeFacts!WithinBounds

(* ... the same operations, ...                                            *)
LEMMA SameTapeOperation ==
  ASSUME NEW s, NEW id,
         \/ Ledger!RecordOrReplace(s, id)
         \/ Ledger!CancelTrade(s, id)
         \/ \E volume \in Volumes : Ledger!AdjustVolume(s, id, volume)
  PROVE  \/ TapeFacts!RecordOrReplace(s, id)
         \/ TapeFacts!CancelTrade(s, id)
         \/ \E volume \in Volumes : TapeFacts!AdjustVolume(s, id, volume)
<1> USE DEF Ledger!GetOrCreate, TapeFacts!GetOrCreate, Ledger!Fail,
            TapeFacts!Fail, Ledger!Known, TapeFacts!Known,
            Ledger!IsCancelled, TapeFacts!IsCancelled, Ledger!Cancellable,
            TapeFacts!Cancellable, Ledger!CancelAt, TapeFacts!CancelAt,
            Ledger!Trade, TapeFacts!Trade, Ledger!Put, TapeFacts!Put,
            Ledger!FoldIntoStats, TapeFacts!FoldIntoStats, Ledger!NoPrice,
            TapeFacts!NoPrice
<1>1. ASSUME NEW price, NEW volume, Ledger!RecordTrade(s, id, price, volume)
      PROVE  TapeFacts!RecordTrade(s, id, price, volume)
  BY <1>1 DEF Ledger!RecordTrade, TapeFacts!RecordTrade
<1>2. ASSUME NEW new, NEW price, NEW volume,
             Ledger!ReplaceTrade(s, id, new, price, volume)
      PROVE  TapeFacts!ReplaceTrade(s, id, new, price, volume)
  BY <1>2, SameTapeRecompute DEF Ledger!ReplaceTrade, TapeFacts!ReplaceTrade
<1>3. ASSUME Ledger!CancelTrade(s, id)
      PROVE  TapeFacts!CancelTrade(s, id)
  BY <1>3, SameTapeRecompute DEF Ledger!CancelTrade, TapeFacts!CancelTrade
<1>4. ASSUME NEW volume, Ledger!AdjustVolume(s, id, volume)
      PROVE  TapeFacts!AdjustVolume(s, id, volume)
  BY <1>4 DEF Ledger!AdjustVolume, TapeFacts!AdjustVolume
<1>5. QED
  BY <1>1, <1>2, <1>3, <1>4
  DEF Ledger!RecordOrReplace, TapeFacts!RecordOrReplace

(* ... and so the same steps, ...                                          *)
LEMMA SameTapeNext == Ledger!Next => TapeFacts!Next
<1>1. (Ledger!WithinBounds => TapeFacts!WithinBounds)'
  BY SameTapeBounds, PTL
<1>2. QED
  BY <1>1, SameTapeOperation DEF Ledger!Next, TapeFacts!Next

(* ... and its assumptions are part of this module's.                      *)
LEMMA SameTapeAssumptions ==
  TapeFacts!LedgerAssumption /\ TapeFacts!VolumeLimitAssumption
BY OrderBookAssumption, VolumeLimitAssumption
DEF TapeFacts!LedgerAssumption, TapeFacts!VolumeLimitAssumption, NoPrice,
    TapeFacts!NoPrice

(* What the theorems about RestingBook say.                                *)
BookIsRight ==
  /\ BookFacts!TypeOK
  /\ BookFacts!LevelsMatchOrders
  /\ BookFacts!LevelsCoverOrders
  /\ BookFacts!TopOfBookIsBestOrder
  /\ BookFacts!NoFalseAlarm

(* The types are those of this module.                                     *)
LEMMA SameBookTypes == BookFacts!TypeOK => Resting!TypeOK
BY DEF Resting!TypeOK, BookFacts!TypeOK, BookFacts!Sides, Resting!Sides,
       Resting!IsMap, BookFacts!IsMap, Resting!LiveOrder, BookFacts!LiveOrder

(* What is proved of a RestingBook holds of the displayed half, whatever   *)
(* trade and reference messages come between the orders: the levels are    *)
(* the volumes of the live orders, the top of book is the best of them, and *)
(* no removal of a conforming feed fails.                                  *)
THEOREM BookFactsHold == Spec => []BookIsRight
<1>1. Resting!Init => BookFacts!Init
  BY SameBookInit
<1>2. [Resting!Next]_(Resting!bookVars)
         => [BookFacts!Next]_(BookFacts!bookVars)
  <2> SUFFICES ASSUME [Resting!Next]_(Resting!bookVars)
               PROVE  [BookFacts!Next]_(BookFacts!bookVars)
    OBVIOUS
  <2>1. (Resting!WithinBounds => BookFacts!WithinBounds)'
    BY SameBookBounds, PTL
  <2>2. CASE Resting!Next
    BY <2>1, <2>2, SameBookMessage DEF Resting!Next, BookFacts!Next
  <2>3. CASE UNCHANGED Resting!bookVars
    BY <2>3 DEF Resting!bookVars, BookFacts!bookVars
  <2>4. QED
    BY <2>2, <2>3
<1>3. Resting!Spec => BookFacts!Spec
  BY <1>1, <1>2, PTL DEF Resting!Spec, BookFacts!Spec
<1>4. BookFacts!Spec => []BookIsRight
  BY SameBookAssumption, BookFacts!TypesHold, BookFacts!LevelsMatch,
     BookFacts!LevelsCover, BookFacts!TopOfBookIsRight,
     BookFacts!RemovalSucceeds, PTL
  DEF BookIsRight
<1>5. QED
  BY <1>3, <1>4, DisplayedHalfIsRestingBook, PTL

(* The statistics of a book are those of the trades not cancelled, after   *)
(* any sequence of executions, prints, crosses, cancels and corrections: a *)
(* correction, which is followed by no rescan, never spoils them.          *)
THEOREM StatsAreOfLiveTrades ==
  Spec => [](\A s \in Symbols : stats[s] = TapeFacts!StatsOf(tradeLog[s]))
<1>1. [Ledger!Next]_(Ledger!ledgerVars)
         => [TapeFacts!Next]_(TapeFacts!ledgerVars)
  BY SameTapeNext DEF Ledger!ledgerVars, TapeFacts!ledgerVars
<1>2. Ledger!Spec => TapeFacts!Spec
  BY <1>1, SameTapeInit, PTL DEF Ledger!Spec, TapeFacts!Spec
<1>3. TapeFacts!Spec => [](TapeFacts!StatsMatchLiveTrades /\ TapeFacts!TypeOK)
  BY SameTapeAssumptions, TapeFacts!StatsAreOfLiveTrades, TapeFacts!TypesHold,
     PTL
<1>4. TapeFacts!StatsMatchLiveTrades =>
        \A s \in Symbols : stats[s] = TapeFacts!StatsOf(tradeLog[s])
  BY DEF TapeFacts!StatsMatchLiveTrades
<1>5. QED
  BY <1>2, <1>3, <1>4, TradeHalfIsLedger, PTL DEF ImplementsTradeLedger

(* The types of what is in neither half.                                   *)
ReferenceTypes ==
  /\ books \subseteq Symbols
  /\ halted \subseteq Symbols
  /\ tapes \subseteq Symbols
  /\ DOMAIN stats = Symbols
  /\ IsMap(info, Symbols, Details)
  /\ IsMap(imbalance, Symbols, Details)
  /\ IsMap(rpi, Symbols, Details)

(* A reference message remembered.                                         *)
LEMMA PutTyped ==
  ASSUME NEW m, IsMap(m, Symbols, Details),
         NEW s \in Symbols, NEW d \in Details
  PROVE  IsMap(Put(m, s, d), Symbols, Details)
BY DEF IsMap, Put

(* Every handler keeps these types.                                        *)
LEMMA ReferenceStep == ReferenceTypes /\ [Next]_vars => ReferenceTypes'
<1> SUFFICES ASSUME ReferenceTypes, [Next]_vars PROVE ReferenceTypes'
  OBVIOUS
<1> USE DEF ReferenceTypes
<1>1. CASE UNCHANGED vars
  BY <1>1 DEF vars, tapeVars, referenceVars
<1>2. ASSUME NEW s \in Symbols, ReferenceMessage(s) PROVE ReferenceTypes'
  <2>1. books' = books \cup {s} /\ UNCHANGED tapeVars
    BY <1>2
    DEF ReferenceMessage, ReferenceHandler, GetOrCreateBook,
        SymbolIndexMapping, SecurityStatus, Imbalance, RetailPriceImprovement
  <2>2. ASSUME NEW status, SecurityStatus(s, status) PROVE ReferenceTypes'
    BY <2>1, <2>2 DEF SecurityStatus, tapeVars
  <2>3. ASSUME NEW d \in Details, SymbolIndexMapping(s, d)
        PROVE  ReferenceTypes'
    BY <2>1, <2>3, PutTyped DEF SymbolIndexMapping, tapeVars
  <2>4. ASSUME NEW d \in Details, Imbalance(s, d)
        PROVE  ReferenceTypes'
    BY <2>1, <2>4, PutTyped DEF Imbalance, tapeVars
  <2>5. ASSUME NEW d \in Details, RetailPriceImprovement(s, d)
        PROVE  ReferenceTypes'
    BY <2>1, <2>5, PutTyped DEF RetailPriceImprovement, tapeVars
  <2>6. QED
    BY <1>2, <2>2, <2>3, <2>4, <2>5 DEF ReferenceMessage
<1>3. ASSUME NEW s \in Symbols, NEW o \in OrderIds, OrderMessage(s, o)
      PROVE  ReferenceTypes'
  BY <1>3
  DEF OrderMessage, BookHandler, GetOrCreateBook, tapeVars, referenceVars
<1>4. ASSUME NEW s \in Symbols, TradeMessage(s) PROVE ReferenceTypes'
  <2>1. /\ books' = books \cup {s} /\ tapes' = tapes \cup {s}
        /\ UNCHANGED referenceVars
    BY <1>4
    DEF TradeMessage, TapeHandler, GetOrCreateBook, NonDisplayedTrade,
        OrderExecution, CrossCorrection, CrossTrade, TradeCancel
  <2>2. DOMAIN stats' = Symbols
    BY <1>4
    DEF TradeMessage, NonDisplayedTrade, OrderExecution, CrossCorrection,
        CrossTrade, TradeCancel, TradeLedgerFailure, AppendTrade
  <2>3. QED
    BY <2>1, <2>2 DEF referenceVars
<1>5. QED
  BY <1>1, <1>2, <1>3, <1>4 DEF Next

(* Every variable keeps its type: the indices lead into the log, orders    *)
(* have shares and levels are numbers that never went below zero.          *)
THEOREM TypesHold == Spec => []TypeOK
<1>1. Init => ReferenceTypes
  BY DEF Init, ReferenceTypes, Empty, IsMap
<1>2. Spec => []ReferenceTypes
  BY <1>1, ReferenceStep, PTL DEF Spec
<1>3. IInv /\ ReferenceTypes /\ BookIsRight => TypeOK
  BY SameBookTypes DEF TypeOK, IInv, TapeTypes, ReferenceTypes, BookIsRight
<1>4. QED
  BY <1>2, <1>3, InvariantHolds, BookFactsHold, PTL

-----------------------------------------------------------------------------
(* Finite sets are the same in both modules.                               *)
LEMMA SameFinite ==
  ASSUME NEW S
  PROVE  IsFiniteSet(S) <=> TapeFacts!IsFiniteSet(S)
BY DEF IsFiniteSet, TapeFacts!IsFiniteSet

(* The volume displayed on a side is a total as the lemmas on sums know it. *)
LEMMA AggregateIsTotal ==
  ASSUME NEW s, NEW side
  PROVE  Aggregate(s, side)
           = TapeFacts!Total(levels[s][side], DOMAIN levels[s][side])
BY DEF Aggregate, TapeFacts!Total, MapThenSumSet, TapeFacts!MapThenSumSet,
       MapThenFoldSet, TapeFacts!MapThenFoldSet

(* The volume in a map of levels.                                          *)
InAll(m) == TapeFacts!Total(m, DOMAIN m)

(* A map of finitely many levels.                                          *)
IsLevels(m) == IsMap(m, Prices, Nat) /\ IsFiniteSet(DOMAIN m)

(* A level loses v shares, and is erased with the last of them.            *)
LEMMA LevelReduced ==
  ASSUME NEW m, IsLevels(m), NEW p \in DOMAIN m, NEW v \in Nat, v <= m[p],
         NEW k, k = IF m[p] = v THEN Drop(m, p) ELSE Put(m, p, m[p] - v)
  PROVE  InAll(m) \in Nat /\ InAll(k) \in Nat /\ InAll(m) = InAll(k) + v
<1> DEFINE D == DOMAIN m
           E == D \ {p}
<1>1. /\ IsFiniteSet(D) /\ TapeFacts!IsFiniteSet(D)
      /\ IsFiniteSet(E) /\ TapeFacts!IsFiniteSet(E)
      /\ \A x \in D : m[x] \in Nat
  BY FS_RemoveElement, SameFinite DEF IsLevels, IsMap
<1> HIDE DEF D, E
<1>2. /\ TapeFacts!Total(m, D) \in Nat /\ TapeFacts!Total(m, E) \in Nat
      /\ TapeFacts!Total(m, D) = m[p] + TapeFacts!Total(m, E)
  BY <1>1, SameTapeAssumptions, TapeFacts!TotalWithout DEF D, E
<1>3. \A x \in E : m[x] \in Nat /\ k[x] = m[x]
  BY <1>1 DEF D, E, Drop, Put
<1>4. TapeFacts!Total(k, E) = TapeFacts!Total(m, E)
  BY <1>1, <1>3, SameTapeAssumptions, TapeFacts!TotalSame
<1>5. CASE m[p] = v
  <2>1. DOMAIN k = E
    BY <1>5 DEF Drop, E, D
  <2>2. QED
    BY <1>2, <1>4, <1>5, <2>1 DEF InAll, D
<1>6. CASE m[p] # v
  <2>1. DOMAIN k = D /\ k[p] = m[p] - v /\ m[p] \in Nat /\ k[p] \in Nat
    BY <1>1, <1>6 DEF Put, D
  <2>2. \A x \in D : k[x] \in Nat
    BY <1>1, <1>3, <2>1 DEF E
  <2>3. /\ TapeFacts!Total(k, D) \in Nat
        /\ TapeFacts!Total(k, D) = k[p] + TapeFacts!Total(k, E)
    BY <1>1, <2>2, SameTapeAssumptions, TapeFacts!TotalWithout DEF D, E
  <2> DEFINE a == TapeFacts!Total(m, D)
             b == TapeFacts!Total(m, E)
             c == TapeFacts!Total(k, D)
  <2>4. /\ a \in Nat /\ b \in Nat /\ c \in Nat /\ m[p] \in Nat
        /\ a = m[p] + b /\ c = m[p] - v + b
    BY <1>2, <1>4, <2>1, <2>3
  <2> HIDE DEF a, b, c
  <2>5. a = c + v
    BY <2>4
  <2>6. QED
    BY <2>1, <2>4, <2>5 DEF InAll, a, b, c, D
<1>7. QED
  BY <1>5, <1>6

(* The two maps of a symbol.                                               *)
AllLevels(lv) ==
  /\ DOMAIN lv = {"bid", "ask"}
  /\ IsLevels(lv["bid"]) /\ IsLevels(lv["ask"])

(* The volume in a map of levels is a number.                              *)
LEMMA InAllNat ==
  ASSUME NEW m, IsLevels(m)
  PROVE  InAll(m) \in Nat
<1>1. CASE DOMAIN m = {}
  BY <1>1, SameTapeAssumptions, TapeFacts!TotalOfNone DEF InAll
<1>2. CASE DOMAIN m # {}
  <2>1. PICK p \in DOMAIN m : TRUE
    BY <1>2
  <2>2. TapeFacts!IsFiniteSet(DOMAIN m) /\ \A x \in DOMAIN m : m[x] \in Nat
    BY SameFinite DEF IsLevels, IsMap
  <2>3. QED
    BY <2>1, <2>2, SameTapeAssumptions, TapeFacts!TotalWithout DEF InAll
<1>3. QED
  BY <1>1, <1>2

(* RemoveLevel takes v shares off the book, or none.                       *)
LEMMA RemovalTakes ==
  ASSUME NEW lv, AllLevels(lv), NEW side \in {"bid", "ask"}, NEW price,
         NEW v \in Nat, NEW new,
         new = Resting!RemoveLevel(lv, side, price, v)
  PROVE  (InAll(lv["bid"]) + InAll(lv["ask"]))
           - (InAll(new["bid"]) + InAll(new["ask"])) \in 0..v
<1>0. InAll(lv["bid"]) \in Nat /\ InAll(lv["ask"]) \in Nat
  BY InAllNat DEF AllLevels
<1>1. CASE ~Resting!CanRemove(lv, side, price, v)
  <2>1. new = lv
    BY <1>1 DEF Resting!RemoveLevel
  <2>2. QED
    BY <1>0, <2>1
<1>2. CASE Resting!CanRemove(lv, side, price, v)
  <2> DEFINE m == lv[side]
             k == IF m[price] = v THEN Drop(m, price)
                  ELSE Put(m, price, m[price] - v)
  <2>1. IsLevels(m) /\ price \in DOMAIN m /\ v <= m[price]
    <3>1. /\ IsLevels(m) /\ price \in DOMAIN m
          /\ m[price] \in Nat /\ m[price] >= v
      BY <1>2 DEF AllLevels, Resting!CanRemove, IsLevels, IsMap
    <3>2. QED
      BY <3>1
  <2>2. new = [lv EXCEPT ![side] = k]
    BY <1>2 DEF Resting!RemoveLevel, Drop, Put, Resting!Drop, Resting!Put
  <2> HIDE DEF m, k
  <2>3. InAll(m) \in Nat /\ InAll(k) \in Nat /\ InAll(m) = InAll(k) + v
    BY <2>1, LevelReduced DEF k
  <2>4. /\ new[side] = k
        /\ \A other \in {"bid", "ask"} \ {side} : new[other] = lv[other]
    BY <2>2 DEF AllLevels
  <2>5. CASE side = "bid"
    BY <1>0, <2>3, <2>4, <2>5 DEF m
  <2>6. CASE side = "ask"
    BY <1>0, <2>3, <2>4, <2>6 DEF m
  <2>7. QED
    BY <2>5, <2>6
<1>3. QED
  BY <1>1, <1>2

-----------------------------------------------------------------------------
(* The levels of a book are finitely many, so that they have a sum.        *)
LevelsAreFinite ==
  \A s \in Symbols : \A side \in Resting!Sides :
    IsFiniteSet(DOMAIN levels[s][side])

(* At most one price is new on a side.                                     *)
Grows(new, lv) ==
  \A side \in Resting!Sides : \E p :
    DOMAIN new[side] \subseteq DOMAIN lv[side] \cup {p}

(* RemoveLevel makes no level.                                             *)
LEMMA RemovedNeverGrows ==
  ASSUME NEW lv, DOMAIN lv = Resting!Sides, NEW side, NEW price, NEW v
  PROVE  /\ DOMAIN Resting!RemoveLevel(lv, side, price, v) = Resting!Sides
         /\ \A x \in Resting!Sides :
              DOMAIN Resting!RemoveLevel(lv, side, price, v)[x]
                \subseteq DOMAIN lv[x]
BY DEF Resting!RemoveLevel, Resting!CanRemove, Resting!Drop, Resting!Put

(* AddLevel makes one at most.                                             *)
LEMMA AddedGrows ==
  ASSUME NEW lv, DOMAIN lv = Resting!Sides, NEW side, NEW price, NEW v
  PROVE  \A x \in Resting!Sides :
           DOMAIN Resting!AddLevel(lv, side, price, v)[x]
             \subseteq DOMAIN lv[x] \cup {price}
BY DEF Resting!AddLevel, Resting!Put

(* So does what a deletion or an execution does, ...                       *)
LEMMA RemovalGrows ==
  ASSUME NEW lv, DOMAIN lv = Resting!Sides, NEW side, NEW price, NEW v
  PROVE  Grows(Resting!RemoveLevel(lv, side, price, v), lv)
BY RemovedNeverGrows DEF Grows

(* ... what an addition does, ...                                          *)
LEMMA AdditionGrows ==
  ASSUME NEW lv, DOMAIN lv = Resting!Sides, NEW side, NEW price, NEW v
  PROVE  Grows(Resting!AddLevel(lv, side, price, v), lv)
BY AddedGrows DEF Grows

(* ... and what a modification or a replacement does.                      *)
LEMMA ExchangeGrows ==
  ASSUME NEW lv, DOMAIN lv = Resting!Sides, NEW side, NEW price, NEW v,
         NEW side2, NEW price2, NEW v2
  PROVE  Grows(Resting!AddLevel(Resting!RemoveLevel(lv, side, price, v),
                                side2, price2, v2), lv)
<1> DEFINE m == Resting!RemoveLevel(lv, side, price, v)
<1>1. /\ DOMAIN m = Resting!Sides
      /\ \A x \in Resting!Sides : DOMAIN m[x] \subseteq DOMAIN lv[x]
  BY RemovedNeverGrows
<1> HIDE DEF m
<1>2. \A x \in Resting!Sides :
        DOMAIN Resting!AddLevel(m, side2, price2, v2)[x]
          \subseteq DOMAIN m[x] \cup {price2}
  BY <1>1, AddedGrows
<1>3. Grows(Resting!AddLevel(m, side2, price2, v2), lv)
  BY <1>1, <1>2 DEF Grows
<1>4. QED
  BY <1>3 DEF m

(* No message makes more than one level on a side.                         *)
LEMMA MessageGrows ==
  ASSUME NEW s \in Symbols, Resting!Message(s),
         DOMAIN levels[s] = Resting!Sides
  PROVE  \/ levels' = levels
         \/ \E new : /\ levels' = [levels EXCEPT ![s] = new]
                     /\ Grows(new, levels[s])
<1> DEFINE Goal == \/ levels' = levels
                   \/ \E new : /\ levels' = [levels EXCEPT ![s] = new]
                               /\ Grows(new, levels[s])
<1>1. ASSUME NEW o, Resting!UnknownOrder(s, o) PROVE Goal
  BY <1>1 DEF Resting!UnknownOrder
<1>2. ASSUME NEW o, NEW price, NEW volume, NEW side,
             Resting!Enter(s, o, price, volume, side)
      PROVE  Goal
  BY <1>2, AdditionGrows
  DEF Resting!Enter, Resting!AddOrder, Resting!AddOrderRefresh
<1>3. ASSUME NEW o, Resting!DeleteOrder(s, o) PROVE Goal
  BY <1>1, <1>3, RemovalGrows DEF Resting!DeleteOrder
<1>4. ASSUME NEW o, NEW volume, Resting!OrderExecution(s, o, volume) PROVE Goal
  BY <1>1, <1>4, RemovalGrows DEF Resting!OrderExecution
<1>5. ASSUME NEW o, NEW price, NEW volume,
             Resting!ModifyOrder(s, o, price, volume)
      PROVE  Goal
  BY <1>1, <1>5, ExchangeGrows DEF Resting!ModifyOrder
<1>6. ASSUME NEW o, NEW n, NEW price, NEW volume, NEW side,
             Resting!ReplaceOrder(s, o, n, price, volume, side)
      PROVE  Goal
  BY <1>6, AdditionGrows, ExchangeGrows DEF Resting!ReplaceOrder
<1> HIDE DEF Goal
<1>7. Goal
  BY <1>2, <1>3, <1>4, <1>5, <1>6 DEF Resting!Message, Resting!Amend
<1>8. QED
  BY <1>7 DEF Goal

(* The levels stay finitely many.                                          *)
LEMMA FiniteStep ==
  ASSUME LevelsAreFinite, Resting!TypeOK, [Resting!Next]_(Resting!bookVars)
  PROVE  LevelsAreFinite'
<1>1. CASE levels' = levels
  BY <1>1 DEF LevelsAreFinite
<1>2. CASE Resting!Next /\ levels' # levels
  <2>1. PICK s \in Symbols : Resting!Message(s)
    BY <1>2 DEF Resting!Next
  <2>2. /\ DOMAIN levels = Symbols /\ DOMAIN levels[s] = Resting!Sides
    BY DEF Resting!TypeOK
  <2>3. PICK new : /\ levels' = [levels EXCEPT ![s] = new]
                   /\ Grows(new, levels[s])
    BY <1>2, <2>1, <2>2, MessageGrows
  <2>4. ASSUME NEW side \in Resting!Sides
        PROVE  IsFiniteSet(DOMAIN new[side])
    <3>1. PICK p : DOMAIN new[side] \subseteq DOMAIN levels[s][side] \cup {p}
      BY <2>3 DEF Grows
    <3>2. IsFiniteSet(DOMAIN levels[s][side] \cup {p})
      BY FS_AddElement DEF LevelsAreFinite
    <3>3. QED
      BY <3>1, <3>2, FS_Subset
  <2>5. QED
    BY <2>2, <2>3, <2>4 DEF LevelsAreFinite
<1>3. QED
  BY <1>1, <1>2 DEF Resting!bookVars

-----------------------------------------------------------------------------
(* The volume displayed is that in the two maps, ...                       *)
LEMMA DisplayedInAll ==
  ASSUME NEW s
  PROVE  Displayed(s) = InAll(levels[s]["bid"]) + InAll(levels[s]["ask"])
BY AggregateIsTotal DEF Displayed, InAll

(* ... before a step and after it.                                         *)
LEMMA DisplayedNext ==
  ASSUME NEW s
  PROVE  Displayed(s)' = InAll(levels'[s]["bid"]) + InAll(levels'[s]["ask"])
<1>1. (Displayed(s) = InAll(levels[s]["bid"]) + InAll(levels[s]["ask"]))'
  BY DisplayedInAll, PTL
<1>2. QED
  BY <1>1

(* The levels of a symbol are such maps and the volume is a number.        *)
LEMMA BookLevels ==
  ASSUME LevelsAreFinite, Resting!TypeOK, NEW s \in Symbols
  PROVE  AllLevels(levels[s]) /\ Displayed(s) \in Nat
<1>1. AllLevels(levels[s])
  BY DEF AllLevels, IsLevels, LevelsAreFinite, Resting!TypeOK, Resting!Sides,
         Resting!IsMap, IsMap
<1>2. InAll(levels[s]["bid"]) \in Nat /\ InAll(levels[s]["ask"]) \in Nat
  BY <1>1, InAllNat DEF AllLevels
<1>3. QED
  BY <1>1, <1>2, DisplayedInAll

(* An execution takes at most its volume off the displayed book: the       *)
(* shares it reports are clipped to those the order rests with.            *)
LEMMA ExecutionTakes ==
  ASSUME LevelsAreFinite, Resting!TypeOK, NEW s \in Symbols, NEW o,
         NEW volume \in Nat, Resting!OrderExecution(s, o, volume)
  PROVE  Displayed(s) - Displayed(s)' \in 0..volume
<1>1. AllLevels(levels[s]) /\ Displayed(s) \in Nat
  BY BookLevels
<1>2. CASE levels' = levels
  <2>1. Displayed(s)' = Displayed(s)
    BY <1>2, DisplayedInAll, DisplayedNext
  <2>2. QED
    BY <1>1, <2>1
<1>3. CASE Resting!Live(s, o) /\ ~Resting!UnknownOrder(s, o)
  <2> DEFINE old == orders[s][o]
             executed == IF volume > old.volume THEN old.volume ELSE volume
             lv == levels[s]
             new == Resting!RemoveLevel(lv, old.side, old.price, executed)
  <2>1. levels' = [levels EXCEPT ![s] = new] /\ DOMAIN levels = Symbols
    BY <1>3 DEF Resting!OrderExecution, Resting!TypeOK
  <2>2. old \in Resting!LiveOrder
    BY <1>3 DEF Resting!Live, Resting!TypeOK, Resting!IsMap
  <2> HIDE DEF old
  <2>3. executed \in Nat /\ executed <= volume /\ old.side \in {"bid", "ask"}
    BY <2>2 DEF Resting!LiveOrder, Resting!Sides
  <2> HIDE DEF executed, new
  <2>4. (InAll(lv["bid"]) + InAll(lv["ask"]))
          - (InAll(new["bid"]) + InAll(new["ask"])) \in 0..executed
    BY <1>1, <2>3, RemovalTakes DEF new
  <2>5. levels'[s] = new
    BY <2>1
  <2>6. Displayed(s) = InAll(lv["bid"]) + InAll(lv["ask"])
    BY DisplayedInAll
  <2>7. Displayed(s)' = InAll(new["bid"]) + InAll(new["ask"])
    BY <2>5, DisplayedNext
  <2> DEFINE x == Displayed(s) - Displayed(s)'
  <2>8. x \in 0..executed
    BY <2>4, <2>6, <2>7
  <2> HIDE DEF x
  <2>9. x \in 0..volume
    BY <2>3, <2>8
  <2>10. QED
    BY <2>9 DEF x
<1>4. QED
  BY <1>2, <1>3 DEF Resting!OrderExecution, Resting!UnknownOrder

(* The property PrintsTakeAtMostTheirVolume, of one step and one symbol.   *)
TakesNoMore(s) ==
  IF Len(tradeLog'[s]) > Len(tradeLog[s])
    THEN Displayed(s) - Displayed(s)'
           \in 0..tradeLog'[s][Len(tradeLog'[s])].volume
    ELSE tradeLog'[s] # tradeLog[s] => UNCHANGED bookVars

(* A log that is as it was.                                                *)
LEMMA NoPrintNothing ==
  ASSUME TapeTypes, NEW s \in Symbols, tradeLog'[s] = tradeLog[s]
  PROVE  TakesNoMore(s)
<1>1. ~(Len(tradeLog'[s]) > Len(tradeLog[s]))
  BY DEF TapeTypes
<1>2. QED
  BY <1>1 DEF TakesNoMore

(* A trade printed.                                                        *)
LEMMA PrintTakes ==
  ASSUME TapeTypes, NEW s \in Symbols, NEW price \in Prices,
         NEW volume \in Volumes,
         tradeLog' = [tradeLog EXCEPT ![s] =
                        Append(@, NewTrade(price, volume))],
         Displayed(s) - Displayed(s)' \in 0..volume
  PROVE  TakesNoMore(s)
<1> DEFINE l == tradeLog[s]
           k == Append(l, NewTrade(price, volume))
<1>1. l \in Seq(TradeRecord) /\ tradeLog'[s] = k
  BY DEF TapeTypes
<1>2. k[Len(k)].volume = volume
  <2> DEFINE r == NewTrade(price, volume)
  <2>1. r \in TradeRecord /\ r.volume = volume
    BY DEF NewTrade, TradeRecord
  <2> HIDE DEF r, l
  <2>2. Append(l, r)[Len(Append(l, r))] = r
    BY <1>1, <2>1
  <2>3. QED
    BY <2>1, <2>2 DEF r
<1>3. Len(k) > Len(l)
  <2> DEFINE r == NewTrade(price, volume)
  <2>1. r \in TradeRecord
    BY DEF NewTrade, TradeRecord
  <2> HIDE DEF r, l
  <2>2. QED
    BY <1>1, <2>1 DEF r
<1> HIDE DEF l, k
<1>4. QED
  BY <1>1, <1>2, <1>3 DEF TakesNoMore, l

(* Every step takes no more than it prints.                                *)
LEMMA NextTakes ==
  ASSUME LevelsAreFinite, Resting!TypeOK, IInv, [Next]_vars, NEW s \in Symbols
  PROVE  TakesNoMore(s)
<1>0. TapeTypes /\ \A volume \in Volumes : volume \in Nat
  BY OrderBookAssumption, VolumeLimitAssumption DEF IInv
<1>1. CASE tradeLog' = tradeLog
  BY <1>0, <1>1, NoPrintNothing
<1>2. ASSUME NEW u \in Symbols, TradeMessage(u) PROVE TakesNoMore(s)
  <2>1. CASE u # s
    <3>1. tradeLog'[s] = tradeLog[s]
      BY <1>0, <1>2, <2>1
      DEF TradeMessage, NonDisplayedTrade, OrderExecution, CrossTrade,
          CrossCorrection, TradeCancel, TradeLedgerFailure, AppendTrade,
          TapeTypes
    <3>2. QED
      BY <1>0, <3>1, NoPrintNothing
  <2>2. CASE u = s
    <3>1. ASSUME UNCHANGED bookVars
          PROVE  /\ Displayed(s)' = Displayed(s)
                 /\ \A volume \in Volumes :
                      Displayed(s) - Displayed(s)' \in 0..volume
      <4>1. Displayed(s)' = Displayed(s)
        BY <3>1, DisplayedInAll, DisplayedNext DEF bookVars
      <4>2. QED
        BY <1>0, <4>1, BookLevels
    <3>2. ASSUME NEW t, NEW price \in Prices, NEW volume \in Volumes,
                 NonDisplayedTrade(s, t, price, volume)
          PROVE  TakesNoMore(s)
      BY <1>0, <3>1, <3>2, PrintTakes
      DEF NonDisplayedTrade, AppendTrade, NewTrade
    <3>3. ASSUME NEW x, NEW price \in Prices, NEW volume \in Volumes,
                 CrossTrade(s, x, price, volume)
          PROVE  TakesNoMore(s)
      BY <1>0, <3>1, <3>3, PrintTakes DEF CrossTrade, AppendTrade, NewTrade
    <3>4. ASSUME NEW o, NEW t, NEW price \in Prices, NEW volume \in Volumes,
                 OrderExecution(s, o, t, price, volume)
          PROVE  TakesNoMore(s)
      BY <1>0, <3>4, ExecutionTakes, PrintTakes
      DEF OrderExecution, AppendTrade, NewTrade
    <3>5. ASSUME NEW x, NEW volume, CrossCorrection(s, x, volume)
          PROVE  UNCHANGED bookVars /\ Len(tradeLog'[s]) = Len(tradeLog[s])
      <4>1. \/ tradeLog' = tradeLog
            \/ \E i : tradeLog' = [tradeLog EXCEPT ![s][i].volume = volume]
        BY <3>5 DEF CrossCorrection, TradeLedgerFailure
      <4>2. QED
        BY <1>0, <3>5, <4>1 DEF CrossCorrection, TapeTypes
    <3>6. ASSUME NEW t, TradeCancel(s, t)
          PROVE  UNCHANGED bookVars /\ Len(tradeLog'[s]) = Len(tradeLog[s])
      <4>1. \/ tradeLog' = tradeLog
            \/ \E i : tradeLog' = [tradeLog EXCEPT ![s][i].cancelled = TRUE]
        BY <3>6 DEF TradeCancel, TradeLedgerFailure
      <4>2. QED
        BY <1>0, <3>6, <4>1 DEF TradeCancel, TapeTypes
    <3>7. ASSUME UNCHANGED bookVars, Len(tradeLog'[s]) = Len(tradeLog[s])
          PROVE  TakesNoMore(s)
      <4>1. Len(tradeLog[s]) \in Nat
        BY <1>0 DEF TapeTypes
      <4>2. QED
        BY <3>7, <4>1 DEF TakesNoMore
    <3>8. QED
      BY <1>2, <2>2, <3>2, <3>3, <3>4, <3>5, <3>6, <3>7 DEF TradeMessage
  <2>3. QED
    BY <2>1, <2>2
<1>3. ASSUME NEW u \in Symbols, NEW o,
             ReferenceMessage(u) \/ OrderMessage(u, o)
      PROVE  tradeLog' = tradeLog
  BY <1>3
  DEF ReferenceMessage, ReferenceHandler, SymbolIndexMapping, SecurityStatus,
      Imbalance, RetailPriceImprovement, OrderMessage, BookHandler, tapeVars
<1>4. QED
  BY <1>1, <1>2, <1>3 DEF Next, vars, tapeVars

(* Printing a trade takes at most the printed volume off the displayed book *)
(* and adds none, and cancelling or correcting one leaves the book alone,  *)
(* for any feed, conforming or not.                                        *)
THEOREM PrintsTakeNoMore == Spec => PrintsTakeAtMostTheirVolume
<1>1. BookIsRight => Resting!TypeOK
  BY SameBookTypes DEF BookIsRight
<1>2. Init => LevelsAreFinite
  <2>1. IsFiniteSet({})
    BY FS_EmptySet
  <2>2. QED
    BY <2>1 DEF Init, Resting!Init, Resting!Empty, LevelsAreFinite
<1>3. Spec => []LevelsAreFinite
  <2>1. LevelsAreFinite /\ Resting!TypeOK
          /\ [Resting!Next]_(Resting!bookVars) => LevelsAreFinite'
    BY FiniteStep
  <2>2. QED
    BY <1>1, <1>2, <2>1, BookFactsHold, DisplayedHalfIsRestingBook, PTL
    DEF Spec, Resting!Spec
<1>4. LevelsAreFinite /\ Resting!TypeOK /\ IInv /\ [Next]_vars
        => [\A s \in Symbols : TakesNoMore(s)]_vars
  BY NextTakes
<1>5. QED
  BY <1>1, <1>3, <1>4, InvariantHolds, BookFactsHold, PTL
  DEF Spec, PrintsTakeAtMostTheirVolume, TakesNoMore

=============================================================================
