----------------------------- MODULE CsvReader -----------------------------
(***************************************************************************)
(* CSVReader and the constructors DEFINE_STRUCT generates                  *)
(* (include/schema/nyse/csv.hpp): a line is decoded field by field, and    *)
(* the reader keeps the positions of the commas it has come across.  The   *)
(* caller may ask for fields in any order and build several structures     *)
(* from one reader; LineDecoder.tla has the callers of the repository.     *)
(*                                                                         *)
(* A line is a sequence of pieces, counted from 1: a comma, a character,   *)
(* or a longer text that is read as one (a number, a time).                *)
(***************************************************************************)
EXTENDS Integers, SequencesExt

CONSTANTS
  Comma,
  Letters,    (* characters that are neither commas nor digits             *)
  Numerals,   (* numbers of several digits that fit in a byte; two in a    *)
              (* row make a number that does not                           *)
  Decimals,   (* what else a double is read from                           *)
  Times,      (* texts of the shape HH:MM:SS.nnnnnnnnn                     *)
  Structs,    (* the structures                                            *)
  Members,    (* Members[T]: what DEFINE_STRUCT lists for T, structures    *)
              (* and fields                                                *)
  Nesting,    (* Nesting[T]: how deep structures are within T              *)
  KindOf,     (* KindOf[f]: the type of field f                            *)
  FieldNums   (* the fields a caller may ask for by number                 *)

VARIABLES
  csvLine,          (* _csvLine                                            *)
  commaPositions,   (* _commaPositions                                     *)
  exhausted,        (* _exhausted                                          *)
  target,           (* the structure built last, or ""                     *)
  frames,           (* its constructors under way, the innermost last      *)
  values,           (* the fields they have populated                      *)
  error             (* the CSVReader::Error that ended them, if any        *)

csvVars ==
  <<csvLine, commaPositions, exhausted, target, frames, values, error>>

(* What the code has as std::optional of another kind.                     *)
Optional == [char |-> "char?", number |-> "number?", double |-> "double?"]
Kinds == {"char", "string", "byte", "number", "double", "time",
          "char?", "number?", "double?"}

Fields == DOMAIN KindOf
Pieces == {Comma} \cup Letters \cup Numerals \cup Decimals \cup Times

ASSUME CsvAssumption ==
  /\ KindOf \in [Fields -> Kinds]
  /\ Members \in [Structs -> Seq(Structs \cup Fields)]
  /\ Structs \cap Fields = {} /\ "" \notin Structs
  /\ FieldNums \subseteq Nat

(* A structure has only members whose type is complete: none is within     *)
(* itself.                                                                 *)
ASSUME NestingAssumption ==
  /\ Nesting \in [Structs -> Nat]
  /\ \A T \in Structs : \A i \in DOMAIN Members[T] :
       Members[T][i] \in Structs => Nesting[Members[T][i]] < Nesting[T]

ErrorKinds == {"FieldNotFound", "InvalidCharCount", "ParseFailure"}
NoError == [kind |-> "none", fieldIndex |-> 0]

CsvInit ==
  /\ csvLine \in Seq(Pieces)
  /\ commaPositions = <<>>
  /\ exhausted = FALSE
  /\ target = ""
  /\ frames = <<>>
  /\ values = <<>>
  /\ error = NoError

-----------------------------------------------------------------------------
(* GetField.  A field that may be missing is a set of at most one.         *)

(* The positions of the commas that are not cached yet.                    *)
CommasAfter(cache) ==
  {p \in DOMAIN csvLine :
     csvLine[p] = Comma /\ \A i \in DOMAIN cache : p > cache[i]}

(* Mutant: npos is cached like a position.                                 *)
ScanWithEnd(cache, n) ==
  LET scan[c \in Seq(Nat)] ==
        IF Len(c) > n THEN c
        ELSE IF CommasAfter(c) = {} THEN Append(c, Len(csvLine) + 1)
        ELSE scan[Append(c, Min(CommasAfter(c)))]
  IN IF exhausted THEN cache ELSE scan[cache]

(* Search until n + 1 commas are cached or the line has no other.          *)
Scan(cache, n) ==
  LET scan[c \in Seq(Nat)] ==
        IF Len(c) > n \/ CommasAfter(c) = {} THEN c
        ELSE scan[Append(c, Min(CommasAfter(c)))]
  IN IF exhausted THEN cache ELSE scan[cache]

FieldStart(cache, n) ==
  IF n = 0 THEN 1
  ELSE IF n <= Len(cache) THEN cache[n] + 1
  ELSE Len(csvLine) + 2

(* Mutant: an empty last field is taken for a missing one.                 *)
FieldInLineOnly(cache, n) ==
  LET start == FieldStart(cache, n)
      end == IF n < Len(cache) THEN cache[n + 1] ELSE Len(csvLine) + 1
  IN IF start > Len(csvLine) THEN {} ELSE {SubSeq(csvLine, start, end - 1)}

Field(cache, n) ==
  LET start == FieldStart(cache, n)
      end == IF n < Len(cache) THEN cache[n + 1] ELSE Len(csvLine) + 1
  IN IF start > Len(csvLine) + 1 THEN {}
     ELSE {SubSeq(csvLine, start, end - 1)}

Answer(n) == Field(Scan(commaPositions, n), n)

(* What GetField(n) leaves in the reader.                                  *)
Cache(n) ==
  /\ commaPositions' = Scan(commaPositions, n)
  /\ exhausted' = (exhausted \/ Len(commaPositions') <= n)
  /\ UNCHANGED csvLine

(* A caller looks at field n itself.                                       *)
GetField(n) ==
  /\ frames = <<>>
  /\ Cache(n)
  /\ UNCHANGED <<target, frames, values, error>>

-----------------------------------------------------------------------------
(* The constructors.                                                       *)

IsNumber(text) ==
  text # <<>> /\ \A i \in DOMAIN text : text[i] \in Numerals

IsOne(text, pieces) == Len(text) = 1 /\ text[1] \in pieces

(* PopulateField<k> of a text that a value of kind k is read from.         *)
Converts(k, text) ==
  CASE k = "string" -> TRUE
    [] k = "char" -> IsOne(text, Letters)
    [] k = "byte" -> IsOne(text, Numerals)
    [] k = "number" -> IsNumber(text)
    [] k = "double" -> IsNumber(text) \/ IsOne(text, Decimals)
    [] k = "time" -> IsOne(text, Times)

(* What it throws, "none" if the text converts.                            *)
Fault(kind, text) ==
  LET inner == {k \in DOMAIN Optional : Optional[k] = kind}
      k == IF inner = {} THEN kind ELSE CHOOSE x \in inner : TRUE
  IN IF (inner # {} /\ text = <<>>) \/ Converts(k, text) THEN "none"
     ELSE IF k = "char" THEN "InvalidCharCount" ELSE "ParseFailure"

(* Mutant: a structure within a structure is stepped over as one field.    *)
OneEach == [m \in Structs \cup Fields |-> 1]

(* The number of fields of a member: CSVFieldCount.                        *)
FieldCount ==
  LET count[m \in Structs \cup Fields] ==
        IF m \in Fields THEN 1
        ELSE FoldLeft(LAMBDA n, x : n + count[x], 0, Members[m])
  IN count

(* T{&reader}, with field_offset 0.                                        *)
Construct(T) ==
  /\ frames = <<>>
  /\ target' = T
  /\ frames' = <<[struct |-> T, next |-> 1, fieldIdx |-> 0]>>
  /\ values' = <<>>
  /\ error' = NoError
  /\ UNCHANGED <<csvLine, commaPositions, exhausted>>

Member == Members[Last(frames).struct][Last(frames).next]

Populating ==
  /\ frames # <<>>
  /\ Last(frames).next <= Len(Members[Last(frames).struct])

(* The innermost constructor has done its next member.                     *)
Stepped ==
  LET frame == Last(frames)
  IN [frames EXCEPT ![Len(frames)] =
        [struct |-> frame.struct, next |-> frame.next + 1,
         fieldIdx |-> frame.fieldIdx + FieldCount[Member]]]

(* The error leaves all the constructors.                                  *)
Throw(kind, fieldIdx) ==
  /\ error' = [kind |-> kind, fieldIndex |-> fieldIdx]
  /\ frames' = <<>>
  /\ UNCHANGED values

PopulateField ==
  /\ Populating /\ Member \in Fields
  /\ LET idx == Last(frames).fieldIdx
     IN /\ Cache(idx)
        /\ \/ Answer(idx) = {} /\ Throw("FieldNotFound", idx)
           \/ \E text \in Answer(idx) :
                LET fault == Fault(KindOf[Member], text)
                IN \/ fault # "none" /\ Throw(fault, idx)
                   \/ /\ fault = "none"
                      /\ values' = Append(values, text)
                      /\ frames' = Stepped
                      /\ UNCHANGED error
  /\ UNCHANGED target

(* A member that is a structure: its constructor starts at the offset.     *)
PopulateStruct ==
  /\ Populating /\ Member \in Structs
  /\ frames' = Append(Stepped, [struct |-> Member, next |-> 1,
                                fieldIdx |-> Last(frames).fieldIdx])
  /\ UNCHANGED <<csvLine, commaPositions, exhausted, target, values, error>>

Constructed ==
  /\ frames # <<>> /\ ~Populating
  /\ frames' = Front(frames)
  /\ UNCHANGED <<csvLine, commaPositions, exhausted, target, values, error>>

(* A constructor under way goes on.                                        *)
Construction == PopulateField \/ PopulateStruct \/ Constructed

CsvNext ==
  \/ \E n \in FieldNums : GetField(n)
  \/ \E T \in Structs : Construct(T)
  \/ Construction

-----------------------------------------------------------------------------
(* The reference: the line split at its commas, and a structure's fields   *)
(* in the order of the wire.                                               *)

Split ==
  FoldLeft(LAMBDA fs, c : IF c = Comma THEN Append(fs, <<>>)
                          ELSE Front(fs) \o <<Append(Last(fs), c)>>,
           <<<<>>>>, csvLine)

WireFields ==
  LET fields[m \in Structs \cup Fields] ==
        IF m \in Fields THEN <<m>>
        ELSE FoldLeft(LAMBDA fs, x : fs \o fields[x], <<>>, Members[m])
  IN fields

(* The fields of T the line lacks or has wrong.                            *)
FaultAt(T, i) ==
  IF i > Len(Split) THEN "FieldNotFound"
  ELSE Fault(KindOf[WireFields[T][i]], Split[i])

BadFields(T) == {i \in 1 .. FieldCount[T] : FaultAt(T, i) # "none"}

(* The reader, the constructors' stack and their results have their types, *)
(* and no constructor is ever past its structure's members.                *)
CsvTypeOK ==
  /\ csvLine \in Seq(Pieces)
  /\ commaPositions \in Seq(DOMAIN csvLine)
  /\ exhausted \in BOOLEAN
  /\ target \in Structs \cup {""}
  /\ \A i \in DOMAIN frames :
       /\ frames[i].struct \in Structs
       /\ frames[i].next \in 1 .. Len(Members[frames[i].struct]) + 1
       /\ frames[i].fieldIdx \in 0 .. FieldCount[target]
  /\ values \in Seq(Seq(Pieces \ {Comma}))
  /\ \/ error = NoError
     \/ error \in [kind : ErrorKinds, fieldIndex : 0 .. FieldCount[target]]

(* Whatever has been asked before, in whatever order, GetField(n) finds    *)
(* the n-th of the fields the line has when it is split at every comma, an *)
(* empty last one included, and nothing past them.                         *)
AnswersAgreeWithSplit ==
  LET fields == Split
  IN \A n \in FieldNums :
       Answer(n) = IF n < Len(fields) THEN {fields[n + 1]} ELSE {}

(* A structure is read from consecutive fields, those of the structures    *)
(* within it included, neither skipping one nor reading one twice.  When   *)
(* its constructor is done it has populated them all, or has thrown at the *)
(* first that is missing or does not convert, with that field's index and  *)
(* the error that says why.                                                *)
FailsAtFirstBadField ==
  /\ values = SubSeq(Split, 1, Len(values))
  /\ frames = <<>> /\ target # "" =>
       LET bad == BadFields(target)
       IN IF bad = {}
          THEN error = NoError /\ Len(values) = FieldCount[target]
          ELSE /\ error = [kind |-> FaultAt(target, Min(bad)),
                           fieldIndex |-> Min(bad) - 1]
               /\ Len(values) = Min(bad) - 1

=============================================================================
