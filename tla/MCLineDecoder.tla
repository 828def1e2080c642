--------------------------- MODULE MCLineDecoder ---------------------------
(***************************************************************************)
(* LineDecoder for TLC: every short line for anyone, and for each caller   *)
(* the lines of the types it knows and one it does not, whole, cut short   *)
(* and with one field spoiled.                                             *)
(***************************************************************************)
EXTENDS LineDecoder

MCNumerals ==
  UNION {DOMAIN CaseOf[c] : c \in DOMAIN CaseOf} \cup {"000", "199"}

MCNesting ==
  [T \in WireStructs |-> CASE T = "MessageHeader" -> 0
                           [] T = "PerSymbolHeader" -> 1
                           [] OTHER -> 2]

(* A field of each kind as it should be.                                   *)
Sample(f) ==
  CASE WireKindOf[f] \in {"char", "char?", "string"} -> <<"x">>
    [] WireKindOf[f] \in {"byte", "number", "number?"} -> <<"199">>
    [] WireKindOf[f] \in {"double", "double?"} -> <<"1.5">>
    [] WireKindOf[f] = "time" -> <<"09:30:00.000000000">>

Spoiled(f) ==
  {<<>>, <<"x">>} \cup
    CASE WireKindOf[f] = "byte" -> {<<"000">>, <<"199", "199">>}
      [] WireKindOf[f] \in {"char", "char?"} -> {<<"x", "x">>}
      [] OTHER -> {}

Join(fields) ==
  FoldLeft(LAMBDA line, f : line \o <<",">> \o f, Head(fields), Tail(fields))

Whole(type, T) ==
  [i \in DOMAIN WireFields[T] |->
     IF i = 1 THEN <<type>> ELSE Sample(WireFields[T][i])]

Variants(fields) ==
  {fields, Append(fields, <<"x">>)}
    \cup {SubSeq(fields, 1, n) : n \in 1 .. Len(fields)}

WithFieldSpoiled(fields, T) ==
  UNION {{[fields EXCEPT ![i] = text] : text \in Spoiled(WireFields[T][i])} :
           i \in 2 .. FieldCount[T]}

(* The quotes with a price of 0 in its different forms on either side, the *)
(* closing one also with a field spoiled.                                  *)
Quote(ask, bid) ==
  [i \in DOMAIN WireFields["Quote"] |->
     CASE WireFields["Quote"][i] = "_askPrice" -> <<ask>>
       [] WireFields["Quote"][i] = "_bidPrice" -> <<bid>>
       [] OTHER -> Whole("140", "Quote")[i]]

Quotes ==
  {Quote(ask, bid) : ask, bid \in {"000", "0.0", "1.5"}}
    \cup WithFieldSpoiled(Quote("0.0", "0.0"), "Quote")

LinesFor(c) ==
  {Join(fields) :
     fields \in UNION {Variants(Whole(type, CaseOf[c][type]))
                         \cup WithFieldSpoiled(Whole(type, CaseOf[c][type]),
                                               CaseOf[c][type]) :
                         type \in DOMAIN CaseOf[c]}
                \cup (IF c = "LoadLastQuote" THEN Quotes ELSE {})}

MCShortLines ==
  BoundedSeq({",", "100", "x"}, 5) \cup {Join(Whole("112", "TradeCancel"))}

MCLinesOf ==
  [c \in Callers |-> IF c = "anyone" THEN MCShortLines
                     ELSE LinesFor(c) \cup BoundedSeq({",", "199", "x"}, 3)]

=============================================================================
