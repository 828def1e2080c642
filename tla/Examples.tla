------------------------------ MODULE Examples ------------------------------
(***************************************************************************)
(* The two programs of examples/, one or the other: program says which     *)
(* main is run, and the variables both have are that main's.  While        *)
(* stock-summary runs, the books of bbo-validation stay as Init left them. *)
(***************************************************************************)
EXTENDS BboValidation

CONSTANTS TradeIds, MaxTrades, VolumeLimit, Summaries

VARIABLES
  program,
  ledgers, log, byId, stats, failures, disturbed, matches, live, clean

Stock == INSTANCE StockSummary

ASSUME ExamplesAssumption == Stock!StockAssumption

bboVars == <<bookVars, frozen, priceMatches, volumeMatches, historyVars>>
stockVars ==
  <<ledgers, log, byId, stats, failures, disturbed, matches, live, clean>>
exampleVars == <<program, phase, reference, compared, bboVars, stockVars>>

BboRuns == program = "bbo-validation"
StockRuns == program = "stock-summary"

ExamplesInit ==
  /\ program \in {"bbo-validation", "stock-summary"}
  /\ Init /\ Stock!Init

ExamplesNext ==
  /\ UNCHANGED program
  /\ \/ BboRuns /\ Next /\ UNCHANGED stockVars
     \/ StockRuns /\ Stock!Next /\ UNCHANGED bboVars

ExamplesSpec == ExamplesInit /\ [][ExamplesNext]_exampleVars

(* The variables of the program that runs have their types.                *)
ProgramTypeOK == (BboRuns /\ TypeOK) \/ (StockRuns /\ Stock!TypeOK)

(* What StockSummary says of its program: a number matches if and only if  *)
(* it is that of the trades still live by the meaning of the file.         *)
TapeIsTheFile == StockRuns => Stock!TapeIsTheFile

=============================================================================
