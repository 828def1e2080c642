---------------------------- MODULE StockSummary ----------------------------
(***************************************************************************)
(* examples/stock-summary/main.cpp: the last record of every symbol is     *)
(* loaded from the Stock Summary file, a trades file is replayed into a    *)
(* TradeLedger, and the day's statistics are compared.  The replay of the  *)
(* Integrated Feed into an OrderBook beside it shares nothing with this.   *)
(*                                                                         *)
(* The trades file holds any lines: one may be missing, or there twice.    *)
(* A line that does not decode is a line that is missing (LineDecoder).    *)
(***************************************************************************)
EXTENDS DailyStats, FiniteSets, Maps

CONSTANTS
  Symbols, TradeIds, Prices, Volumes, MaxTrades, MaxFailures,
  Summaries     (* the records the Stock Summary file may hold             *)

VARIABLES
  ledgers, log, byId, stats, failures, disturbed,    (* the tape           *)
  phase,        (* "loading", "replaying", "compared"                      *)
  reference,    (* reference: symbol to its last summary                   *)
  compared,     (* the symbols compared                                    *)
  matches,      (* matches[f]: those of them whose number f matches        *)
  live,         (* history: a symbol's trades by the meaning of the file,  *)
                (* in the order of its lines                               *)
  clean         (* history: the symbols with no id given to a trade while  *)
                (* another live one had it                                 *)

Tape == INSTANCE TradeLedger

tapeVars == <<ledgers, log, byId, stats, failures, disturbed>>
historyVars == <<live, clean>>
vars == <<tapeVars, phase, reference, compared, matches, historyVars>>

StockAssumption ==
  /\ Tape!LedgerAssumption /\ Tape!VolumeLimitAssumption
  /\ Summaries \subseteq Tape!Stats

StatFields == DOMAIN NoStats

TypeOK ==
  /\ Tape!TypeOK
  /\ phase \in {"loading", "replaying", "compared"}
  /\ IsMap(reference, Symbols, Summaries)
  /\ compared \subseteq DOMAIN reference
  /\ matches \in [StatFields -> SUBSET compared]
  /\ live \in [Symbols ->
       Seq([id : TradeIds, price : Prices, volume : Volumes])]
  /\ clean \subseteq Symbols

Init ==
  /\ Tape!Init
  /\ phase = "loading"
  /\ reference = Empty
  /\ compared = {} /\ matches = [f \in StatFields |-> {}]
  /\ live = [s \in Symbols |-> <<>>]
  /\ clean = Symbols

-----------------------------------------------------------------------------
(* LoadStockSummary: a later record takes the place of an earlier one.     *)
LoadSummary(s, summary) ==
  /\ phase = "loading"
  /\ reference' = Put(reference, s, summary)
  /\ UNCHANGED <<tapeVars, phase, compared, matches, historyVars>>

StartReplay ==
  /\ phase = "loading"
  /\ phase' = "replaying"
  /\ UNCHANGED <<tapeVars, reference, compared, matches, historyVars>>

-----------------------------------------------------------------------------
(* LoadTrades, by the type of the line, and what the line means.           *)

PlacesOf(s, id) == {i \in DOMAIN live[s] : live[s][i].id = id}
IsLive(s, id) == PlacesOf(s, id) # {}

Without(s, id) ==
  IF IsLive(s, id) THEN RemoveAt(live[s], CHOOSE i \in PlacesOf(s, id) : TRUE)
  ELSE live[s]
With(trades, id, price, volume) ==
  Append(trades, [id |-> id, price |-> price, volume |-> volume])

Means(s, trades, unambiguous) ==
  /\ live' = [live EXCEPT ![s] = trades]
  /\ clean' = IF unambiguous THEN clean ELSE clean \ {s}

Replaying == phase = "replaying" /\ UNCHANGED <<phase, reference, compared,
                                                matches>>

TradeLine(s, id, price, volume) ==
  /\ Replaying
  /\ Tape!RecordTrade(s, id, price, volume)
  /\ Means(s, With(live[s], id, price, volume), ~IsLive(s, id))

(* Of a trade that is not there: nothing.                                  *)
CancelLine(s, id) ==
  /\ Replaying
  /\ Tape!CancelTrade(s, id)
  /\ Means(s, Without(s, id), TRUE)

(* Mutant: the corrected trade is recorded, the one it corrects remains.   *)
CorrectionAsTrade(s, old, new, price, volume) ==
  /\ Replaying
  /\ Tape!RecordTrade(s, new, price, volume)
  /\ Means(s, With(Without(s, old), new, price, volume),
           new = old \/ ~IsLive(s, new))

(* Of a trade that is not there: the corrected trade alone.                *)
CorrectionLine(s, old, new, price, volume) ==
  /\ Replaying
  /\ Tape!ReplaceTrade(s, old, new, price, volume)
  /\ Means(s, With(Without(s, old), new, price, volume),
           new = old \/ ~IsLive(s, new))

-----------------------------------------------------------------------------
(* The comparison: symbols of the tape with a summary and a live trade.    *)
Compare ==
  LET S == {s \in ledgers \cap DOMAIN reference : stats[s].open # NoPrice}
  IN /\ phase = "replaying"
     /\ phase' = "compared"
     /\ compared' = S
     /\ matches' = [f \in StatFields |->
                      {s \in S : stats[s][f] = reference[s][f]}]
     /\ UNCHANGED <<tapeVars, reference, historyVars>>

Line(s, id) ==
  \/ CancelLine(s, id)
  \/ \E price \in Prices, volume \in Volumes :
       \/ TradeLine(s, id, price, volume)
       \/ \E new \in TradeIds : CorrectionLine(s, id, new, price, volume)

Next ==
  \/ \E s \in Symbols, summary \in Summaries : LoadSummary(s, summary)
  \/ StartReplay
  \/ (\E s \in Symbols, id \in TradeIds : Line(s, id)) /\ Tape!WithinBounds'
  \/ Compare

Spec == Init /\ [][Next]_vars

-----------------------------------------------------------------------------
(* The summary of the trades that are live by the meaning of the file.     *)
SummaryOf(s) ==
  StatsOf([i \in DOMAIN live[s] |->
             [price |-> live[s][i].price, volume |-> live[s][i].volume,
              cancelled |-> FALSE]])

(* The validation neither misses nor invents a difference: whatever was    *)
(* cancelled, corrected and corrected again, was missing from the file or  *)
(* came twice, a number matches if and only if the summary's is that of    *)
(* the trades which are still live by the meaning of the lines, and the    *)
(* symbol is left out only if it has none or has no summary.  Not so for a *)
(* symbol of which two live trades had one id.                             *)
TapeIsTheFile ==
  phase = "compared" =>
    \A s \in clean \cap DOMAIN reference :
      /\ s \in compared <=> live[s] # <<>>
      /\ s \in compared =>
           \A f \in StatFields :
             s \in matches[f] <=> SummaryOf(s)[f] = reference[s][f]

=============================================================================
