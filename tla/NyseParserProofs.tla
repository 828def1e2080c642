-------------------------- MODULE NyseParserProofs --------------------------
(***************************************************************************)
(* Theorems about NyseParser, for any message types, any width of the      *)
(* sequence numbers and any number of lines.                               *)
(***************************************************************************)
EXTENDS NyseParser, FiniteSetTheorems, TLAPS

(* What the mark says of the numbers that made it: it is the last of them, *)
(* and 0, where it starts, is none.                                        *)
MarkInv ==
  /\ raising \subseteq 1..lastSequenceNumber
  /\ lastSequenceNumber > 0 => lastSequenceNumber \in raising

(* The losses, with no set of skipped numbers in the formula.              *)
LossInv == messagesLost + Cardinality(raising) = lastSequenceNumber

(* What is skipped and was seen came behind the mark.                      *)
Stragglers == Skipped \cap seen

SeenInv ==
  /\ raising \subseteq seen
  /\ seen \subseteq 0..lastSequenceNumber
  /\ Cardinality(Stragglers) <= backwardsJumps

(* The inductive invariant.                                                *)
IInv ==
  /\ TypeOK /\ MarkInv /\ LossInv /\ SeenInv
  /\ GapsAreRuns /\ IsFiniteSet(Tallies) /\ EveryHeaderIsClassified

-----------------------------------------------------------------------------
(* Whatever raises the mark to n leaves the counters a new member of       *)
(* raising to count.                                                       *)
LEMMA RaisingIsFinite ==
  ASSUME TypeOK, MarkInv
  PROVE  /\ IsFiniteSet(raising)
         /\ Cardinality(raising) \in Nat
         /\ Cardinality(raising) <= lastSequenceNumber
<1>1. lastSequenceNumber \in Nat
  BY ParserAssumption DEF TypeOK, SequenceNumbers
<1>2. /\ IsFiniteSet(1..lastSequenceNumber)
      /\ Cardinality(1..lastSequenceNumber) = lastSequenceNumber
  BY <1>1, FS_Interval
<1>3. /\ IsFiniteSet(raising)
      /\ Cardinality(raising) <= lastSequenceNumber
  BY <1>2, FS_Subset DEF MarkInv
<1>4. QED
  BY <1>3, FS_CardinalityType

LEMMA RaisingGrows ==
  ASSUME TypeOK, MarkInv, NEW n \in SequenceNumbers, n > lastSequenceNumber
  PROVE  Cardinality(raising \cup {n}) = Cardinality(raising) + 1
<1>1. n \notin raising
  BY ParserAssumption DEF TypeOK, MarkInv, SequenceNumbers
<1>2. QED
  BY <1>1, RaisingIsFinite, FS_AddElement

(* The skipped numbers are those up to the mark that did not raise it.     *)
LEMMA SkippedCount ==
  ASSUME TypeOK, MarkInv
  PROVE  /\ IsFiniteSet(Skipped)
         /\ Cardinality(Skipped) \in Nat
         /\ Cardinality(Skipped) + Cardinality(raising) = lastSequenceNumber
<1>1. lastSequenceNumber \in Nat
  BY ParserAssumption DEF TypeOK, SequenceNumbers
<1>2. /\ IsFiniteSet(1..lastSequenceNumber)
      /\ Cardinality(1..lastSequenceNumber) = lastSequenceNumber
  BY <1>1, FS_Interval
<1>3. IsFiniteSet(Skipped)
  BY <1>2, FS_Subset DEF Skipped
<1>4. Cardinality(Skipped) \in Nat
  BY <1>3, FS_CardinalityType
<1>5. Skipped \cup raising = 1..lastSequenceNumber /\ Skipped \cap raising = {}
  BY DEF Skipped, MarkInv
<1>6. Cardinality(1..lastSequenceNumber)
        = Cardinality(Skipped) + Cardinality(raising) - Cardinality({})
  <2>1. Cardinality(Skipped \cup raising)
          = Cardinality(Skipped) + Cardinality(raising)
              - Cardinality(Skipped \cap raising)
    <3>1. IsFiniteSet(raising)
      BY RaisingIsFinite
    <3>2. QED
      BY <1>3, <3>1, FS_Union, Zenon
  <2>2. QED
    BY <1>5, <2>1, Zenon
<1>7. Cardinality({}) = 0
  BY FS_EmptySet
<1>8. Cardinality(raising) \in Nat
  BY RaisingIsFinite
<1>9. QED
  BY <1>1, <1>2, <1>3, <1>4, <1>6, <1>7, <1>8, SMTT(30)

(* The ends of the runs of skipped numbers.                                *)
RunEnds == {n \in Skipped : n + 1 \in raising}

LEMMA RunEndsCount ==
  ASSUME TypeOK, MarkInv
  PROVE  IsFiniteSet(RunEnds) /\ Cardinality(RunEnds) \in Nat
<1>1. IsFiniteSet(RunEnds)
  BY SkippedCount, FS_Subset DEF RunEnds
<1>2. QED
  BY <1>1, FS_CardinalityType

LEMMA StragglersCount ==
  ASSUME TypeOK, MarkInv
  PROVE  IsFiniteSet(Stragglers) /\ Cardinality(Stragglers) \in Nat
<1>1. IsFiniteSet(Stragglers)
  BY SkippedCount, FS_Subset DEF Stragglers
<1>2. QED
  BY <1>1, FS_CardinalityType

-----------------------------------------------------------------------------
(* The initial state: no number, no line.                                  *)
LEMMA InitHolds == Init => IInv
<1> SUFFICES ASSUME Init PROVE IInv
  OBVIOUS
<1>1. TypeOK
  BY ParserAssumption DEF Init, TypeOK, SequenceNumbers
<1>2. Tallies = {} /\ IsFiniteSet(Tallies) /\ Cardinality(Tallies) = 0
  BY FS_EmptySet, 1..0 = {} DEF Init, Tallies
<1>3. MarkInv /\ LossInv /\ EveryHeaderIsClassified
  BY <1>2, FS_EmptySet DEF Init, MarkInv, LossInv, EveryHeaderIsClassified
<1>4. Skipped = {}
  BY DEF Init, Skipped
<1>5. SeenInv
  BY <1>4, FS_EmptySet DEF Init, SeenInv, Stragglers
<1>6. GapsAreRuns
  BY <1>4, FS_EmptySet DEF Init, GapsAreRuns
<1>7. QED
  BY <1>1, <1>2, <1>3, <1>5, <1>6 DEF IInv

(* A line counted by its type is one tally more.                           *)
LEMMA TallyAdded ==
  ASSUME TypeOK, IsFiniteSet(Tallies), NEW t \in MsgTypes,
         msgTypeCounts' = [msgTypeCounts EXCEPT ![t] = @ + 1]
  PROVE  /\ IsFiniteSet(Tallies')
         /\ Cardinality(Tallies') = Cardinality(Tallies) + 1
<1> DEFINE tally == <<t, msgTypeCounts[t] + 1>>
<1>1. msgTypeCounts \in [MsgTypes -> Nat]
  BY DEF TypeOK
<1>2. 1..msgTypeCounts'[t] = 1..msgTypeCounts[t] \cup {msgTypeCounts[t] + 1}
  BY <1>1
<1>3. \A u \in MsgTypes :
        {u} \X (1..msgTypeCounts'[u]) =
          ({u} \X (1..msgTypeCounts[u])) \cup (IF u = t THEN {tally} ELSE {})
  <2> TAKE u \in MsgTypes
  <2>1. CASE u = t
    BY <1>2, <2>1
  <2>2. CASE u # t
    BY <1>1, <2>2
  <2>3. QED
    BY <2>1, <2>2
<1>4. Tallies' = Tallies \cup {tally}
  BY <1>3 DEF Tallies
<1>5. tally \notin Tallies
  BY <1>1 DEF Tallies
<1>6. QED
  BY <1>4, <1>5, FS_AddElement

(* Classifying a number keeps its counters in their types.                 *)
LEMMA ClassifyTypes ==
  ASSUME TypeOK, MarkInv, LossInv, NEW n \in SequenceNumbers, Classify(n)
  PROVE  /\ {lastSequenceNumber, messagesLost}' \subseteq SequenceNumbers
         /\ {gapEvents, duplicates, backwardsJumps}' \subseteq Nat
         /\ raising' \subseteq SequenceNumbers
         /\ MarkInv'
         /\ LossInv'
<1> USE ParserAssumption DEF TypeOK, SequenceNumbers, MarkInv, LossInv
<1>1. CASE Duplicate(n)
  BY <1>1 DEF Duplicate
<1>2. CASE BackwardsJump(n)
  BY <1>2 DEF BackwardsJump
<1>3. CASE Gap(n)
  <2> DEFINE r == Cardinality(raising)
             lost == messagesLost + (n - lastSequenceNumber - 1)
  <2>1. r \in Nat /\ Cardinality(raising \cup {n}) = r + 1
    BY <1>3, RaisingIsFinite, RaisingGrows DEF Gap
  <2>2. lost = n - (r + 1)
    BY <2>1, <1>3 DEF Gap
  <2>3. lost \in 0..(SeqLimit - 1)
    BY <2>1, <2>2, <1>3 DEF Gap
  <2>4. lost % SeqLimit = lost
    BY <2>3
  <2>5. messagesLost' = lost
    BY <2>4, <1>3 DEF Gap
  <2>6. MarkInv'
    BY <1>3 DEF Gap
  <2>7. LossInv'
    BY <2>1, <2>2, <2>3, <2>5, <1>3 DEF Gap
  <2>8. QED
    BY <2>3, <2>5, <2>6, <2>7, <1>3 DEF Gap
<1>4. CASE InOrder(n)
  <2>1. /\ Cardinality(raising) \in Nat
        /\ Cardinality(raising \cup {n}) = Cardinality(raising) + 1
    BY <1>4, RaisingIsFinite, RaisingGrows DEF InOrder
  <2>2. MarkInv'
    <3>1. /\ lastSequenceNumber \in Nat
          /\ lastSequenceNumber' = lastSequenceNumber + 1
      BY <1>4 DEF InOrder
    <3>2. raising' = raising \cup {lastSequenceNumber + 1}
      BY <1>4 DEF InOrder
    <3>3. QED
      BY <3>1, <3>2
  <2>3. Cardinality(raising') = Cardinality(raising) + 1
    BY <2>1, <1>4 DEF InOrder
  <2>4. LossInv'
    BY <2>1, <2>3, <1>4 DEF InOrder
  <2>5. QED
    BY <2>2, <2>4, <1>4 DEF InOrder
<1>5. QED
  BY <1>1, <1>2, <1>3, <1>4 DEF Classify

(* One of the three counts goes up by one, whichever the branch.           *)
LEMMA ClassifyCounts ==
  ASSUME TypeOK, MarkInv, NEW n \in SequenceNumbers, Classify(n)
  PROVE  Cardinality(raising') + duplicates' + backwardsJumps'
           = Cardinality(raising) + duplicates + backwardsJumps + 1
<1>1. Cardinality(raising) \in Nat /\ {duplicates, backwardsJumps} \subseteq Nat
  BY RaisingIsFinite DEF TypeOK
<1>2. CASE Duplicate(n)
  BY <1>1, <1>2 DEF Duplicate
<1>3. CASE BackwardsJump(n)
  BY <1>1, <1>3 DEF BackwardsJump
<1>4. CASE Gap(n) \/ InOrder(n)
  <2>1. n > lastSequenceNumber
    BY <1>4, ParserAssumption DEF Gap, InOrder, TypeOK, SequenceNumbers
  <2>2. raising' = raising \cup {n} /\ UNCHANGED <<duplicates, backwardsJumps>>
    BY <1>4 DEF Gap, InOrder
  <2>3. Cardinality(raising') = Cardinality(raising) + 1
    BY <2>1, <2>2, RaisingGrows
  <2>4. QED
    BY <1>1, <2>2, <2>3
<1>5. QED
  BY <1>2, <1>3, <1>4 DEF Classify

(* A gap up to n makes n - 1 the end of a run; nothing else makes one.     *)
LEMMA ClassifyRuns ==
  ASSUME TypeOK, MarkInv, GapsAreRuns, NEW n \in SequenceNumbers, Classify(n)
  PROVE  GapsAreRuns'
<1>1. lastSequenceNumber \in Nat /\ gapEvents \in Nat /\ n \in Nat
  BY ParserAssumption DEF TypeOK, SequenceNumbers
<1>2. gapEvents = Cardinality(RunEnds)
  BY DEF GapsAreRuns, RunEnds
<1>3. SUFFICES gapEvents' = Cardinality(RunEnds')
  BY DEF GapsAreRuns, RunEnds
<1>4. CASE Duplicate(n) \/ BackwardsJump(n)
  BY <1>2, <1>4 DEF Duplicate, BackwardsJump, RunEnds, Skipped
<1>5. CASE Gap(n)
  <2>1. /\ n > lastSequenceNumber /\ n # lastSequenceNumber + 1
        /\ lastSequenceNumber' = n /\ raising' = raising \cup {n}
        /\ gapEvents' = gapEvents + 1
    <3>1. lastSequenceNumber + 1 \in 0..SeqLimit
      BY ParserAssumption DEF TypeOK, SequenceNumbers
    <3>2. n = lastSequenceNumber + 1
            => (lastSequenceNumber + 1) % SeqLimit = lastSequenceNumber + 1
      BY <1>1, ParserAssumption DEF SequenceNumbers
    <3>3. QED
      BY <1>1, <1>5, <3>2 DEF Gap
  <2>2. RunEnds' = RunEnds \cup {n - 1}
    BY <1>1, <2>1 DEF MarkInv, RunEnds, Skipped
  <2>3. n - 1 \notin RunEnds
    BY <1>1, <2>1 DEF MarkInv, RunEnds, Skipped
  <2>4. QED
    BY <1>1, <1>2, <2>1, <2>2, <2>3, RunEndsCount, FS_AddElement
<1>6. CASE InOrder(n)
  <2>1. /\ n = lastSequenceNumber + 1
        /\ lastSequenceNumber' = n /\ raising' = raising \cup {n}
        /\ gapEvents' = gapEvents
    BY <1>6 DEF InOrder
  <2>2. RunEnds' = RunEnds
    BY <1>1, <2>1 DEF MarkInv, RunEnds, Skipped
  <2>3. QED
    BY <1>2, <2>1, <2>2
<1>7. QED
  BY <1>4, <1>5, <1>6 DEF Classify

(* Only a backwards jump can make a skipped number a straggler, and it     *)
(* makes one at most.                                                      *)
LEMMA ClassifyStragglers ==
  ASSUME TypeOK, MarkInv, SeenInv, NEW n \in SequenceNumbers, Classify(n),
         seen' = seen \cup {n}
  PROVE  SeenInv'
<1>1. lastSequenceNumber \in Nat /\ backwardsJumps \in Nat /\ n \in Nat
  BY ParserAssumption DEF TypeOK, SequenceNumbers
<1>2. CASE Duplicate(n)
  <2>1. /\ n = lastSequenceNumber
        /\ UNCHANGED <<lastSequenceNumber, raising, backwardsJumps>>
    BY <1>2 DEF Duplicate
  <2>2. Stragglers' = Stragglers
    BY <1>1, <2>1 DEF MarkInv, Stragglers, Skipped
  <2>3. QED
    BY <1>1, <2>1, <2>2 DEF SeenInv
<1>3. CASE BackwardsJump(n)
  <2>1. /\ n < lastSequenceNumber /\ backwardsJumps' = backwardsJumps + 1
        /\ UNCHANGED <<lastSequenceNumber, raising>>
    BY <1>3 DEF BackwardsJump
  <2>2. Stragglers' = Stragglers \/ Stragglers' = Stragglers \cup {n}
    BY <2>1 DEF Stragglers, Skipped
  <2>3. Cardinality(Stragglers') <= Cardinality(Stragglers) + 1
    BY <2>2, StragglersCount, FS_AddElement
  <2>4. Cardinality(Stragglers') \in Nat
    BY <2>2, StragglersCount, FS_AddElement
  <2>5. Cardinality(Stragglers') <= backwardsJumps'
    BY <1>1, <2>1, <2>3, <2>4, StragglersCount DEF SeenInv
  <2>6. QED
    BY <1>1, <2>1, <2>5 DEF SeenInv
<1>4. CASE Gap(n) \/ InOrder(n)
  <2>1. /\ n > lastSequenceNumber /\ lastSequenceNumber' = n
        /\ raising' = raising \cup {n} /\ UNCHANGED backwardsJumps
    BY <1>1, <1>4 DEF Gap, InOrder
  <2>2. Stragglers' = Stragglers
    BY <1>1, <2>1 DEF SeenInv, Stragglers, Skipped
  <2>3. QED
    BY <1>1, <2>1, <2>2 DEF SeenInv
<1>5. QED
  BY <1>2, <1>3, <1>4 DEF Classify

(* Every line keeps the invariant.                                         *)
LEMMA StepHolds == IInv /\ [ParseNext]_vars => IInv'
<1> SUFFICES ASSUME IInv, [ParseNext]_vars PROVE IInv'
  OBVIOUS
<1> USE DEF IInv
<1>1. ASSUME ParseNext, HeaderFails PROVE IInv'
  <2>1. TypeOK' /\ MarkInv' /\ LossInv'
    BY <1>1 DEF ParseNext, HeaderFails, TypeOK, MarkInv, LossInv, metrics
  <2>2. SeenInv' /\ GapsAreRuns'
    BY <1>1 DEF HeaderFails, metrics, SeenInv, Stragglers, GapsAreRuns, Skipped
  <2>3. IsFiniteSet(Tallies)' /\ EveryHeaderIsClassified'
    BY <1>1, RaisingIsFinite
    DEF ParseNext, HeaderFails, metrics, TypeOK, EveryHeaderIsClassified,
        Tallies
  <2>4. QED
    BY <2>1, <2>2, <2>3
<1>2. ASSUME ParseNext, NEW t \in MsgTypes, NEW n \in SequenceNumbers,
             RecordSequence(t, n), UNCHANGED headerFailures,
             \/ UNCHANGED emitted
             \/ /\ t \in Implemented
                /\ emitted' = [emitted EXCEPT ![t] = @ + 1]
      PROVE  IInv'
  <2>1. Classify(n) /\ seen' = seen \cup {n}
    BY <1>2 DEF RecordSequence
  <2>2. msgTypeCounts' \in [MsgTypes -> Nat] /\ seen' \subseteq SequenceNumbers
    BY <1>2 DEF RecordSequence, TypeOK
  <2>3. lines' = lines + 1 /\ headerFailures' = headerFailures
    BY <1>2 DEF ParseNext
  <2>4. {lines, headerFailures, duplicates, backwardsJumps} \subseteq Nat
    BY DEF TypeOK
  <2>5. emitted' \in [MsgTypes -> Nat]
    BY <1>2 DEF TypeOK
  <2>6. TypeOK' /\ MarkInv' /\ LossInv'
    BY <2>1, <2>2, <2>3, <2>4, <2>5, ClassifyTypes DEF TypeOK
  <2>7. SeenInv' /\ GapsAreRuns'
    BY <2>1, ClassifyStragglers, ClassifyRuns
  <2>8. EveryHeaderIsClassified'
    <3>1. Cardinality(raising') + duplicates' + backwardsJumps'
            = Cardinality(raising) + duplicates + backwardsJumps + 1
      BY <2>1, ClassifyCounts
    <3>2. Cardinality(raising) \in Nat
      BY RaisingIsFinite
    <3>3. /\ IsFiniteSet(Tallies')
          /\ Cardinality(Tallies') = Cardinality(Tallies) + 1
      BY <1>2, TallyAdded DEF RecordSequence
    <3>4. \A u \in MsgTypes :
            /\ emitted'[u] <= msgTypeCounts'[u]
            /\ u \notin Implemented => emitted'[u] = 0
      <4> TAKE u \in MsgTypes
      <4>1. /\ emitted[u] <= msgTypeCounts[u]
            /\ u \notin Implemented => emitted[u] = 0
        BY DEF EveryHeaderIsClassified
      <4>2. msgTypeCounts' = [msgTypeCounts EXCEPT ![t] = @ + 1]
        BY <1>2 DEF RecordSequence
      <4>3. {emitted, msgTypeCounts} \subseteq [MsgTypes -> Nat]
        BY DEF TypeOK
      <4>4. QED
        BY <1>2, <4>1, <4>2, <4>3
    <3>5. QED
      BY <2>3, <2>4, <3>1, <3>2, <3>3, <3>4 DEF EveryHeaderIsClassified
  <2>9. IsFiniteSet(Tallies)'
    BY <1>2, TallyAdded DEF RecordSequence
  <2>10. QED
    BY <2>6, <2>7, <2>8, <2>9
<1>3. ASSUME ParseNext, NEW t \in MsgTypes, NEW n \in SequenceNumbers,
             UnknownMsgType(t, n) \/ BodyFails(t, n) \/ Emit(t, n)
      PROVE  IInv'
  <2>1. \/ UNCHANGED emitted
        \/ t \in Implemented /\ emitted' = [emitted EXCEPT ![t] = @ + 1]
    BY <1>3 DEF UnknownMsgType, BodyFails, Emit
  <2>2. RecordSequence(t, n) /\ UNCHANGED headerFailures
    BY <1>3 DEF UnknownMsgType, BodyFails, Emit
  <2>3. QED
    BY <1>2, <1>3, <2>1, <2>2
<1>4. CASE UNCHANGED vars
  BY <1>4 DEF vars, metrics, TypeOK, MarkInv, LossInv, SeenInv, Stragglers,
              GapsAreRuns, EveryHeaderIsClassified, Tallies, Skipped
<1>5. QED
  BY <1>1, <1>3, <1>4 DEF ParseNext

(* The invariant holds in every reachable state.                           *)
THEOREM InvariantHolds == Spec => []IInv
<1>1. QED
  BY InitHolds, StepHolds, PTL DEF Spec

(* Every counter stays in its type, the losses below the largest number.   *)
THEOREM TypesHold == Spec => []TypeOK
<1>1. IInv => TypeOK
  BY DEF IInv
<1>2. QED
  BY InvariantHolds, <1>1, PTL

(* "Messages lost" is the number of sequence numbers the mark skipped, and *)
(* its accumulation never overflows.                                       *)
THEOREM LossesAreSkippedNumbers == Spec => []LostAreSkipped
<1>1. IInv => LostAreSkipped
  BY SkippedCount, RaisingIsFinite, ParserAssumption
  DEF IInv, LossInv, LostAreSkipped, TypeOK, SequenceNumbers
<1>2. QED
  BY InvariantHolds, <1>1, PTL

(* Every line with a readable header is counted once in msgTypeCounts, at  *)
(* its type, and classified exactly once; no more messages of a type are   *)
(* pushed than lines of it counted.                                        *)
THEOREM HeadersAreClassified == Spec => []EveryHeaderIsClassified
<1>1. IInv => EveryHeaderIsClassified
  BY DEF IInv
<1>2. QED
  BY InvariantHolds, <1>1, PTL

(* A gap event is one unbroken run of skipped numbers.                     *)
THEOREM GapEventsAreRuns == Spec => []GapsAreRuns
<1>1. IInv => GapsAreRuns
  BY DEF IInv
<1>2. QED
  BY InvariantHolds, <1>1, PTL

(* What is missing from the source lies between the losses less the        *)
(* backwards jumps and the losses.                                         *)
THEOREM MissingIsBracketed == Spec => []LossesBracketTheMissing
<1>1. ASSUME IInv PROVE LossesBracketTheMissing
  <2> DEFINE missing == (1..lastSequenceNumber) \ seen
  <2> USE <1>1 DEF IInv
  <2>1. missing \cup Stragglers = Skipped /\ missing \cap Stragglers = {}
    BY DEF Stragglers, Skipped, SeenInv
  <2>2. IsFiniteSet(missing)
    BY <2>1, SkippedCount, FS_Subset
  <2>3. Cardinality(missing) \in Nat
    BY <2>2, FS_CardinalityType
  <2>4. Cardinality(Skipped)
          = Cardinality(missing) + Cardinality(Stragglers) - Cardinality({})
    BY <2>1, <2>2, StragglersCount, FS_Union
  <2>5. Cardinality({}) = 0
    BY FS_EmptySet
  <2>6. messagesLost = Cardinality(Skipped)
    BY SkippedCount, RaisingIsFinite, ParserAssumption
    DEF LossInv, TypeOK, SequenceNumbers
  <2>7. backwardsJumps \in Nat /\ Cardinality(Stragglers) <= backwardsJumps
    BY DEF TypeOK, SeenInv
  <2>8. QED
    BY <2>3, <2>4, <2>5, <2>6, <2>7, StragglersCount
    DEF LossesBracketTheMissing
<1>2. QED
  BY InvariantHolds, <1>1, PTL

=============================================================================
