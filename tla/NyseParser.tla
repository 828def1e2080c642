----------------------------- MODULE NyseParser -----------------------------
(***************************************************************************)
(* mde::schema::nyse::Parser::ParseNext (include/schema/nyse/parse.hpp)    *)
(* and the sequence integrity it keeps through RecordSequence of its base  *)
(* class (include/schema/parse.hpp).                                       *)
(*                                                                         *)
(* A line has a header, the message type and the sequence number, and a    *)
(* body; either may fail to decode.  Sequence numbers are unsigned         *)
(* integers of the code's 64 bits, here below SeqLimit.  A line arrives    *)
(* with any sequence number: lines are lost, repeated and out of order.    *)
(***************************************************************************)
EXTENDS Integers, FiniteSets

CONSTANTS
  MsgTypes,      (* the message types that occur                           *)
  Implemented,   (* those with a case in ParseNext                         *)
  SeqLimit,      (* 2^64 in the code                                       *)
  MaxLines       (* bound on the number of lines                           *)

ASSUME ParserAssumption ==
  /\ Implemented \subseteq MsgTypes
  /\ SeqLimit \in Nat \ {0, 1}
  /\ MaxLines \in Nat

VARIABLES
  lastSequenceNumber, gapEvents, messagesLost, duplicates,
  backwardsJumps,      (* IntegrityMetrics                                 *)
  msgTypeCounts,       (* _msgTypeCounts                                   *)
  emitted,             (* emitted[t]: how many messages of t were pushed   *)
  lines,               (* history: the lines parsed                        *)
  headerFailures,      (* history: those whose header did not decode       *)
  raising,             (* history: the numbers that raised the mark        *)
  seen                 (* history: the sequence numbers recorded           *)

metrics == <<lastSequenceNumber, gapEvents, messagesLost, duplicates,
             backwardsJumps>>
vars == <<metrics, msgTypeCounts, emitted, lines, headerFailures, raising,
          seen>>

SequenceNumbers == 0..(SeqLimit - 1)

TypeOK ==
  /\ {lastSequenceNumber, messagesLost} \subseteq SequenceNumbers
  /\ {gapEvents, duplicates, backwardsJumps, lines, headerFailures}
       \subseteq Nat
  /\ msgTypeCounts \in [MsgTypes -> Nat]
  /\ emitted \in [MsgTypes -> Nat]
  /\ raising \subseteq SequenceNumbers
  /\ seen \subseteq SequenceNumbers

Init ==
  /\ lastSequenceNumber = 0
  /\ gapEvents = 0 /\ messagesLost = 0
  /\ duplicates = 0 /\ backwardsJumps = 0
  /\ msgTypeCounts = [t \in MsgTypes |-> 0]
  /\ emitted = [t \in MsgTypes |-> 0]
  /\ lines = 0 /\ headerFailures = 0
  /\ raising = {} /\ seen = {}

-----------------------------------------------------------------------------
(* RecordSequence: one branch of its chain of conditions each.             *)

Duplicate(n) ==
  /\ n = lastSequenceNumber
  /\ duplicates' = duplicates + 1
  /\ UNCHANGED <<lastSequenceNumber, gapEvents, messagesLost, backwardsJumps,
                 raising>>

(* Mutant: whatever comes late is taken off the losses.                    *)
BackwardsJumpIsFound(n) ==
  /\ n < lastSequenceNumber
  /\ backwardsJumps' = backwardsJumps + 1
  /\ messagesLost' = messagesLost - 1
  /\ UNCHANGED <<lastSequenceNumber, gapEvents, duplicates, raising>>

BackwardsJump(n) ==
  /\ n < lastSequenceNumber
  /\ backwardsJumps' = backwardsJumps + 1
  /\ UNCHANGED <<lastSequenceNumber, gapEvents, messagesLost, duplicates,
                 raising>>

(* Mutant: the number that ends the gap is counted with the lost ones.     *)
GapOffByOne(n) ==
  /\ n > lastSequenceNumber + 1
  /\ gapEvents' = gapEvents + 1
  /\ messagesLost' = messagesLost + (n - lastSequenceNumber)
  /\ lastSequenceNumber' = n
  /\ raising' = raising \cup {n}
  /\ UNCHANGED <<duplicates, backwardsJumps>>

Gap(n) ==
  /\ n > (lastSequenceNumber + 1) % SeqLimit
  /\ n > lastSequenceNumber
  /\ gapEvents' = gapEvents + 1
  /\ messagesLost' =
       (messagesLost + (n - lastSequenceNumber - 1)) % SeqLimit
  /\ lastSequenceNumber' = n
  /\ raising' = raising \cup {n}
  /\ UNCHANGED <<duplicates, backwardsJumps>>

(* Mutant: a number in order is a gap of none.                             *)
InOrderIsGap(n) ==
  /\ n = lastSequenceNumber + 1
  /\ gapEvents' = gapEvents + 1
  /\ lastSequenceNumber' = n
  /\ raising' = raising \cup {n}
  /\ UNCHANGED <<messagesLost, duplicates, backwardsJumps>>

InOrder(n) ==
  /\ n = lastSequenceNumber + 1
  /\ lastSequenceNumber' = n
  /\ raising' = raising \cup {n}
  /\ UNCHANGED <<gapEvents, messagesLost, duplicates, backwardsJumps>>

Classify(n) == Duplicate(n) \/ BackwardsJump(n) \/ Gap(n) \/ InOrder(n)

RecordSequence(t, n) ==
  /\ msgTypeCounts' = [msgTypeCounts EXCEPT ![t] = @ + 1]
  /\ seen' = seen \cup {n}
  /\ Classify(n)

-----------------------------------------------------------------------------
(* ParseNext, by what it returns.                                          *)

(* The header does not decode: nothing is recorded.                        *)
HeaderFails ==
  /\ headerFailures' = headerFailures + 1
  /\ UNCHANGED <<metrics, msgTypeCounts, emitted, raising, seen>>

(* ParseError::unknown_msg_type                                            *)
UnknownMsgType(t, n) ==
  /\ t \notin Implemented
  /\ RecordSequence(t, n)
  /\ UNCHANGED <<emitted, headerFailures>>

(* ParseError::message_decode: the line has been recorded all the same.    *)
BodyFails(t, n) ==
  /\ t \in Implemented
  /\ RecordSequence(t, n)
  /\ UNCHANGED <<emitted, headerFailures>>

(* ParseError::none                                                        *)
Emit(t, n) ==
  /\ t \in Implemented
  /\ RecordSequence(t, n)
  /\ emitted' = [emitted EXCEPT ![t] = @ + 1]
  /\ UNCHANGED headerFailures

ParseNext ==
  /\ lines < MaxLines
  /\ lines' = lines + 1
  /\ \/ HeaderFails
     \/ \E t \in MsgTypes, n \in SequenceNumbers :
          UnknownMsgType(t, n) \/ BodyFails(t, n) \/ Emit(t, n)

Spec == Init /\ [][ParseNext]_vars

-----------------------------------------------------------------------------
(* The numbers the mark went past without stopping.                        *)
Skipped == (1..lastSequenceNumber) \ raising

(* "Messages lost", accumulated gap by gap, is the number of sequence      *)
(* numbers up to the mark that no message ever raised it to, and never     *)
(* overflows.                                                              *)
LostAreSkipped == messagesLost = Cardinality(Skipped)

(* A gap event is one unbroken run of skipped numbers, no matter what      *)
(* duplicates and stragglers came between.                                 *)
GapsAreRuns ==
  gapEvents = Cardinality({n \in Skipped : n + 1 \in raising})

(* What is really missing from the source: stragglers fill gaps without    *)
(* being taken off the losses, so the losses are an upper bound, which the *)
(* backwards jumps turn into a lower one.                                  *)
LossesBracketTheMissing ==
  LET missing == (1..lastSequenceNumber) \ seen
  IN /\ Cardinality(missing) <= messagesLost
     /\ messagesLost <= Cardinality(missing) + backwardsJumps

(* The lines counted by type, as <<type, number among those of the type>>. *)
Tallies == UNION {{t} \X (1..msgTypeCounts[t]) : t \in MsgTypes}

(* Every line with a readable header is counted once by its type and       *)
(* classified once: it raised the mark, repeated it or fell behind it; the *)
(* lines whose header failed are neither.  An unimplemented type or a      *)
(* broken body makes no gap, and is counted although nothing of it is      *)
(* pushed.                                                                 *)
EveryHeaderIsClassified ==
  LET classified == Cardinality(raising) + duplicates + backwardsJumps
  IN /\ classified + headerFailures = lines
     /\ Cardinality(Tallies) = classified
     /\ \A t \in MsgTypes :
          /\ emitted[t] <= msgTypeCounts[t]
          /\ t \notin Implemented => emitted[t] = 0

=============================================================================
