---------------------------- MODULE TradeLedger ----------------------------
(***************************************************************************)
(* mde::model::TradeLedger (src/model/trade_ledger.cpp): per symbol a log  *)
(* of trades, an index of it by id, and DailyStats that record and adjust  *)
(* by increments and cancel and replace by a rescan.                       *)
(*                                                                         *)
(* The ledger is called in any way.  The history variable disturbed        *)
(* remembers for which symbols the volume of a cancelled trade was         *)
(* adjusted, which no caller in the repository does.                       *)
(***************************************************************************)
EXTENDS DailyStats, FiniteSets, Maps

CONSTANTS
  Symbols, TradeIds, Prices, Volumes,
  MaxTrades,     (* bound on the trades recorded for a symbol              *)
  MaxFailures    (* bound on failures                                      *)

ASSUME LedgerAssumption ==
  /\ Prices \subseteq Nat \ {NoPrice}
  /\ Volumes \subseteq 0..(VolumeLimit - 1)
  /\ MaxTrades \in Nat
  /\ MaxFailures \in Nat

VARIABLES
  ledgers,       (* the symbols _ledgers has an entry for                  *)
  log,           (* log[s]: _log                                           *)
  byId,          (* byId[s]: _byId, id to index in the log                 *)
  stats,         (* stats[s]: _stats                                       *)
  failures,      (* _failures                                              *)
  disturbed      (* history: a cancelled trade of s was adjusted           *)

ledgerVars == <<ledgers, log, byId, stats, failures, disturbed>>

TradeRecord == [price : Prices, volume : Volumes, cancelled : BOOLEAN]
Stats == [open : Prices \cup {NoPrice}, high : Prices \cup {NoPrice},
          low : Prices \cup {NoPrice}, close : Prices \cup {NoPrice},
          totalVolume : 0..(VolumeLimit - 1)]

TypeOK ==
  /\ ledgers \subseteq Symbols
  /\ log \in [Symbols -> Seq(TradeRecord)]
  /\ DOMAIN byId = Symbols
  /\ \A s \in Symbols : IsMap(byId[s], TradeIds, DOMAIN log[s])
  /\ stats \in [Symbols -> Stats]
  /\ failures \in Nat
  /\ disturbed \in [Symbols -> BOOLEAN]

Init ==
  /\ ledgers = {}
  /\ log = [s \in Symbols |-> <<>>]
  /\ byId = [s \in Symbols |-> Empty]
  /\ stats = [s \in Symbols |-> NoStats]
  /\ failures = 0
  /\ disturbed = [s \in Symbols |-> FALSE]

-----------------------------------------------------------------------------
Trade(price, volume) ==
  [price |-> price, volume |-> volume, cancelled |-> FALSE]

CancelAt(trades, i) == [trades EXCEPT ![i].cancelled = TRUE]

Known(s, id) == id \in DOMAIN byId[s]
IsCancelled(s, id) == Known(s, id) /\ log[s][byId[s][id]].cancelled
Cancellable(s, id) == Known(s, id) /\ ~IsCancelled(s, id)

(* GetOrCreate, which every operation begins with.                         *)
GetOrCreate(s) == ledgers' = ledgers \cup {s}

Fail ==
  /\ failures' = failures + 1
  /\ UNCHANGED <<log, byId, stats, disturbed>>

(* Mutant: the index is the size of the log after the trade was added.     *)
RecordPastEnd(s, id, price, volume) ==
  /\ GetOrCreate(s)
  /\ log' = [log EXCEPT ![s] = Append(@, Trade(price, volume))]
  /\ byId' = [byId EXCEPT ![s] = Put(@, id, Len(log[s]) + 2)]
  /\ stats' = [stats EXCEPT ![s] = FoldIntoStats(@, price, volume)]
  /\ UNCHANGED <<failures, disturbed>>

RecordTrade(s, id, price, volume) ==
  /\ GetOrCreate(s)
  /\ log' = [log EXCEPT ![s] = Append(@, Trade(price, volume))]
  /\ byId' = [byId EXCEPT ![s] = Put(@, id, Len(log[s]) + 1)]
  /\ stats' = [stats EXCEPT ![s] = FoldIntoStats(@, price, volume)]
  /\ UNCHANGED <<failures, disturbed>>

(* Mutant: a cancelled trade is taken out of the log.                      *)
CancelByErasing(s, id) ==
  /\ GetOrCreate(s)
  /\ Cancellable(s, id)
  /\ log' = [log EXCEPT ![s] = RemoveAt(@, byId[s][id])]
  /\ stats' = [stats EXCEPT ![s] = Recompute(log'[s])]
  /\ byId' = [byId EXCEPT ![s] = Drop(@, id)]
  /\ UNCHANGED <<failures, disturbed>>

CancelTrade(s, id) ==
  /\ GetOrCreate(s)
  /\ \/ ~Cancellable(s, id) /\ Fail
     \/ /\ Cancellable(s, id)
        /\ log' = [log EXCEPT ![s] = CancelAt(@, byId[s][id])]
        /\ stats' = [stats EXCEPT ![s] = Recompute(log'[s])]
        /\ UNCHANGED <<byId, failures, disturbed>>

(* The difference is a signed 64-bit number and is added as one.  Where it *)
(* overflows C++ defines no outcome; the only one the builds produce is    *)
(* that of the machine, the wrap that unsigned arithmetic gives too.       *)
AdjustVolume(s, id, volume) ==
  /\ GetOrCreate(s)
  /\ \/ ~Known(s, id) /\ Fail
     \/ /\ Known(s, id)
        /\ disturbed' = [disturbed EXCEPT ![s] = @ \/ IsCancelled(s, id)]
        /\ LET i == byId[s][id]
           IN /\ log' = [log EXCEPT ![s][i].volume = volume]
              /\ stats' = [stats EXCEPT ![s].totalVolume =
                             (@ + volume - log[s][i].volume) % VolumeLimit]
        /\ UNCHANGED <<byId, failures>>

(* Mutant: the correction overwrites the trade it replaces.                *)
ReplaceInPlace(s, old, new, price, volume) ==
  /\ GetOrCreate(s)
  /\ Cancellable(s, old)
  /\ log' = [log EXCEPT ![s][byId[s][old]] = Trade(price, volume)]
  /\ byId' = [byId EXCEPT ![s] = Put(@, new, byId[s][old])]
  /\ stats' = [stats EXCEPT ![s] = Recompute(log'[s])]
  /\ UNCHANGED <<failures, disturbed>>

(* The new trade is recorded whether or not the old one was there.         *)
ReplaceTrade(s, old, new, price, volume) ==
  /\ GetOrCreate(s)
  /\ LET kept == IF Cancellable(s, old) THEN CancelAt(log[s], byId[s][old])
                 ELSE log[s]
     IN log' = [log EXCEPT ![s] = Append(kept, Trade(price, volume))]
  /\ byId' = [byId EXCEPT ![s] = Put(@, new, Len(log[s]) + 1)]
  /\ stats' = [stats EXCEPT ![s] = Recompute(log'[s])]
  /\ failures' = IF Cancellable(s, old) THEN failures ELSE failures + 1
  /\ UNCHANGED disturbed

-----------------------------------------------------------------------------
WithinBounds ==
  /\ \A s \in Symbols : Len(log[s]) <= MaxTrades
  /\ failures <= MaxFailures

RecordOrReplace(s, id) ==
  \E price \in Prices, volume \in Volumes :
    \/ RecordTrade(s, id, price, volume)
    \/ \E new \in TradeIds : ReplaceTrade(s, id, new, price, volume)

Next ==
  /\ \E s \in Symbols, id \in TradeIds :
       \/ RecordOrReplace(s, id)
       \/ CancelTrade(s, id)
       \/ \E volume \in Volumes : AdjustVolume(s, id, volume)
  /\ WithinBounds'

Spec == Init /\ [][Next]_ledgerVars

-----------------------------------------------------------------------------
(* After any sequence of records, cancels, replacements and adjustments    *)
(* of live trades, with ids reused, the incremental numbers are those of   *)
(* the trades not cancelled.  The adjustment of a cancelled trade spoils   *)
(* the volume and nothing else.                                            *)
StatsMatchLiveTrades ==
  \A s \in Symbols :
    LET live == StatsOf(log[s])
    IN /\ [stats[s] EXCEPT !.totalVolume = live.totalVolume] = live
       /\ ~disturbed[s] => stats[s] = live

(* DailyStats is derived "from whatever's still live", whoever calls what. *)
StatsAlwaysMatch == \A s \in Symbols : stats[s] = StatsOf(log[s])

(* An id leads to one trade of the log, and no two ids to the same: a      *)
(* cancel or an adjustment never reaches another id's trade, through       *)
(* replacements and reused ids.                                            *)
IdsNameTheirOwnTrade ==
  \A s \in Symbols : \A i, j \in DOMAIN byId[s] :
    i # j => byId[s][i] # byId[s][j]

(* The log is a journal: a trade once recorded stays where it is with its  *)
(* price, and a cancelled one is never live again.                         *)
LogIsAJournal ==
  [][\A s \in Symbols : \A i \in DOMAIN log[s] :
       /\ i \in DOMAIN log'[s]
       /\ log'[s][i].price = log[s][i].price
       /\ log[s][i].cancelled => log'[s][i].cancelled]_ledgerVars

=============================================================================
