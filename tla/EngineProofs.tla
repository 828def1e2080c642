---------------------------- MODULE EngineProofs ----------------------------
(***************************************************************************)
(* Theorems about Engine, for a source of any length.                      *)
(***************************************************************************)
EXTENDS Engine, FiniteSetTheorems, SequenceTheorems, TLAPS

(* The types, before it is known that no counter passes MaxLines.          *)
OwnTypes ==
  /\ lines \in Sources
  /\ linesRead \in 0..Len(lines)
  /\ unreadable \in BOOLEAN
  /\ mainPc \in MainPcs
  /\ ingestPc \in {"unstarted", "open", "loop", "parse", "success",
                   "total", "close", "ended"}
  /\ egressPc \in {"unstarted", "wait", "callback", "count", "ended"}
  /\ ingestStop \in BOOLEAN
  /\ success \in Nat
  /\ total \in Nat
  /\ egressCount \in Nat
  /\ delivered \in Seq(1..MaxLines)

Types == Q!TypeOK /\ OwnTypes

(* How far the constructor and Ingest have got.                            *)
StartInv ==
  /\ mainPc \in {"constructing", "spawnIngest", "unwind", "unwindReap"} =>
       ingestPc = "unstarted"
  /\ mainPc \in {"constructing", "spawnIngest"} =>
       ~closed /\ stopped = {} /\ egressPc # "ended"
  /\ mainPc = "constructing" => egressPc = "unstarted"
  /\ mainPc \notin {"constructing", "gone"} => egressPc # "unstarted"
  /\ egressPc = "unstarted" => ingestPc = "unstarted"
  /\ ingestPc = "unstarted" => Returned("ingest")
  /\ ingestPc \in {"unstarted", "open"} => linesRead = 0
  /\ ingestPc = "parse" => linesRead > 0
  /\ ingestPc \in {"close", "ended"} /\ ~ingestStop /\ ~unreadable =>
       linesRead = Len(lines)

(* Who has ended when Join gets to its end.                                *)
JoinInv ==
  /\ mainPc \in {"joinClose", "joinEgress", "joined"} => IngestEnded
  /\ mainPc = "joined" => egressPc = "ended"

(* Ingest is stopped by the destructor and by nobody else, and before that *)
(* nothing tells Egress to leave while Ingest may have something to push.  *)
StopInv ==
  /\ ingestStop => mainPc \in {"destroyClose", "stopEgress", "reapIngest",
                               "reapEgress", "gone"}
  /\ mainPc \in {"destroyClose", "stopEgress", "reapIngest", "reapEgress"} =>
       ingestStop
  /\ ~ingestStop /\ (closed \/ stopped # {}) =>
       ingestPc \in {"unstarted", "ended"}

(* What an Egress thread that has left may still miss.                     *)
StrandInv ==
  egressPc = "ended" =>
    IF ingestStop
      THEN Len(queue) + (IF ingestPc = "parse" THEN 1 ELSE 0) <= 1
      ELSE queue = <<>> /\ ingestPc \in {"unstarted", "ended"}

(* Who has ended when the members are destroyed.                           *)
ReapInv ==
  /\ mainPc \in {"reapEgress", "gone"} =>
       ingestPc \in {"unstarted", "ended"} /\ Returned("ingest")
  /\ mainPc = "gone" =>
       egressPc \in {"unstarted", "ended"} /\ Returned("main")

ControlInv == StartInv /\ JoinInv /\ StopInv /\ StrandInv /\ ReapInv

(* The messages on their way, and the counters.                            *)
TransferInv ==
  /\ NothingLostOrReordered
  /\ egressPc = "callback" => popped # <<>>

CountInv ==
  /\ success + (IF ingestPc = "success" THEN 1 ELSE 0) = Len(pushed)
  /\ Cardinality(Decodable(Parsed)) = Len(pushed)
  /\ total + (IF ingestPc \in {"parse", "success", "total"} THEN 1 ELSE 0)
       = linesRead
  /\ egressCount + (IF egressPc = "count" THEN 1 ELSE 0) = Len(delivered)

IInv == Types /\ ControlInv /\ TransferInv /\ CountInv

-----------------------------------------------------------------------------
(* The initial states satisfy the types and the control invariant.         *)
LEMMA InitHolds == Init => Types /\ ControlInv
<1> SUFFICES ASSUME Init PROVE Types /\ ControlInv
  OBVIOUS
<1>1. <<>> \in Seq(1..MaxLines)
  OBVIOUS
<1>2. Q!TypeOK
  BY <1>1 DEF Init, Q!Init, Q!TypeOK, Q!Signals
<1>3. Len(lines) \in Nat
  BY DEF Init, Sources
<1>4. OwnTypes
  <2>1. linesRead \in 0..Len(lines)
    BY <1>3 DEF Init
  <2>2. lines \in Sources /\ delivered \in Seq(1..MaxLines)
    BY <1>1 DEF Init
  <2>3. QED
    BY <2>1, <2>2 DEF Init, OwnTypes, MainPcs
<1>5. ControlInv
  BY DEF Init, Q!Init, ControlInv, StartInv, JoinInv, StopInv, StrandInv,
         ReapInv, Returned
<1>6. QED
  BY <1>2, <1>4, <1>5 DEF Types

(* Moving the head of a sequence to the end of another.                    *)
LEMMA TakeTypes ==
  ASSUME NEW S, NEW p \in Seq(S), NEW q \in Seq(S), q # <<>>
  PROVE  Tail(q) \in Seq(S) /\ Append(p, Head(q)) \in Seq(S)
OBVIOUS

(* The last element of a sequence is one of its elements.                  *)
LEMMA LastIsElement ==
  ASSUME NEW S, NEW s \in Seq(S), s # <<>>
  PROVE  s[Len(s)] \in S
OBVIOUS

(* One element more.                                                       *)
LEMMA AppendLength ==
  ASSUME NEW S, NEW s \in Seq(S), NEW x
  PROVE  Len(Append(s, x)) = Len(s) + 1
OBVIOUS

(* A source is a sequence of at most MaxLines lines.                       *)
LEMMA SourceLength ==
  ASSUME lines \in Sources
  PROVE  Len(lines) \in 0..MaxLines
BY MaxLinesAssumption DEF Sources

(* Every step keeps the types: what is pushed is the number of a line.     *)
LEMMA QueueTypesStep ==
  Types /\ StartInv /\ [Next]_vars => Q!TypeOK'
<1> SUFFICES ASSUME Types, StartInv, [Next]_vars PROVE Q!TypeOK'
  OBVIOUS
<1> USE DEF Q!TypeOK, Q!Signals, queueVars
<1>0. Q!TypeOK
  BY DEF Types
<1>1. CASE UNCHANGED queueVars
  BY <1>0, <1>1
<1>2. CASE UnwindStopEgress \/ StopEgress
  BY <1>0, <1>2 DEF UnwindStopEgress, StopEgress, Q!RequestStop
<1>3. CASE JoinClose \/ DestroyClose \/ OpenFails \/ IngestClose
  BY <1>0, <1>3 DEF JoinClose, DestroyClose, OpenFails, IngestClose, Q!Close
<1>4. CASE ParseAndEmit
  <2>1. Len(lines) \in 0..MaxLines /\ MaxLines \in Nat
    BY SourceLength, MaxLinesAssumption DEF Types, OwnTypes
  <2>2. linesRead \in 1..MaxLines
    BY <1>4, <2>1 DEF ParseAndEmit, IngestAt, StartInv, Types, OwnTypes
  <2>3. QED
    BY <1>0, <1>4, <2>2 DEF ParseAndEmit, Q!Push
<1>5. CASE TakeMessage
  <2>1. Tail(queue) \in Seq(1..MaxLines)
        /\ Append(popped, Head(queue)) \in Seq(1..MaxLines)
    BY <1>0, <1>5, TakeTypes DEF TakeMessage, Q!Take
  <2>2. QED
    BY <1>0, <1>5, <2>1 DEF TakeMessage, Q!Take
<1>6. CASE LeaveEgress
  BY <1>0, <1>6 DEF LeaveEgress, Q!ReturnNull
<1>7. CASE Block \/ WakeSpuriously
  BY <1>0, <1>7 DEF Block, WakeSpuriously, Q!Sleep, Q!WakeSpuriously
<1>8. CASE Notify("main") \/ Notify("ingest")
  BY <1>0, <1>8 DEF Notify, Q!NotifyOne, Q!NotifyAll
<1>9. QED
  BY <1>1, <1>2, <1>3, <1>4, <1>5, <1>6, <1>7, <1>8
  DEF Next, Rest, vars, Construct, Reject, SpawnEgress, SpawnIngest,
      SpawnIngestFails, CallJoin, CallDestructor, MainInCall,
      UnwindReapEgress, JoinIngest, JoinEgress, StopIngest, ReapIngest,
      ReapEgress, IngestStep, OpenSource, ReadLine, LeaveLoop, ParseFails,
      RecordSuccess, RecordTotal, EgressStep, Callback, CountDelivery

(* Every step keeps the types of what is not in the queue.                 *)
LEMMA OwnTypesStep ==
  Types /\ TransferInv /\ [Next]_vars => OwnTypes'
<1> SUFFICES ASSUME Types, TransferInv, [Next]_vars PROVE OwnTypes'
  OBVIOUS
<1>0. OwnTypes /\ Len(lines) \in Nat
  BY SourceLength, MaxLinesAssumption DEF Types, OwnTypes
<1> USE DEF OwnTypes, sourceVars, counters, MainAt, IngestAt, EgressAt
<1>1. CASE Construct
  BY <1>0, <1>1
  DEF Construct, Reject, SpawnEgress, SpawnIngest, SpawnIngestFails, MainPcs
<1>2. CASE CallJoin \/ CallDestructor
  BY <1>0, <1>2 DEF CallJoin, CallDestructor, MainPcs
<1>3. CASE MainInCall
  BY <1>0, <1>3
  DEF MainInCall, UnwindStopEgress, UnwindReapEgress, JoinIngest, JoinClose,
      JoinEgress, StopIngest, DestroyClose, StopEgress, ReapIngest,
      ReapEgress, MainPcs
<1>4. CASE IngestStep
  <2>1. CASE ReadLine
    <3>1. linesRead' \in 0..Len(lines)
      BY <1>0, <2>1 DEF ReadLine
    <3>2. QED
      BY <1>0, <2>1, <3>1 DEF ReadLine
  <2>2. CASE OpenSource \/ OpenFails \/ LeaveLoop \/ ParseAndEmit
             \/ ParseFails \/ IngestClose
    BY <1>0, <2>2 DEF OpenSource, OpenFails, LeaveLoop, ParseAndEmit,
                      ParseFails, IngestClose
  <2>3. CASE RecordSuccess \/ RecordTotal
    BY <1>0, <2>3 DEF RecordSuccess, RecordTotal
  <2>4. QED
    BY <1>4, <2>1, <2>2, <2>3 DEF IngestStep
<1>5. CASE TakeMessage \/ LeaveEgress \/ CountDelivery
  BY <1>0, <1>5 DEF TakeMessage, LeaveEgress, CountDelivery
<1>6. CASE Callback
  <2>1. popped \in Seq(1..MaxLines) /\ popped # <<>>
    BY <1>6 DEF Types, Q!TypeOK, Callback, TransferInv
  <2>2. popped[Len(popped)] \in 1..MaxLines
    BY <2>1, LastIsElement
  <2>3. delivered' \in Seq(1..MaxLines)
    BY <1>0, <1>6, <2>2, AppendProperties DEF Callback
  <2>4. QED
    BY <1>0, <1>6, <2>3 DEF Callback
<1>7. CASE Block \/ WakeSpuriously \/ Notify("main") \/ Notify("ingest")
  BY <1>0, <1>7 DEF Block, WakeSpuriously, Notify
<1>8. CASE UNCHANGED vars
  BY <1>0, <1>8 DEF vars
<1>9. QED
  BY <1>1, <1>2, <1>3, <1>4, <1>5, <1>6, <1>7, <1>8 DEF Next, Rest, EgressStep

-----------------------------------------------------------------------------
(* Every step keeps the threads in step.                                   *)
LEMMA ControlStep == Types /\ ControlInv /\ [Next]_vars => ControlInv'
<1> SUFFICES ASSUME Types, ControlInv, [Next]_vars PROVE ControlInv'
  OBVIOUS
<1>0. /\ Len(lines) \in Nat /\ linesRead \in Nat /\ linesRead <= Len(lines)
      /\ Len(queue) \in Nat /\ (queue = <<>> => Len(queue) = 0)
      /\ signal \in [{"main", "ingest"} -> Q!Signals]
  BY SourceLength, MaxLinesAssumption DEF Types, OwnTypes, Q!TypeOK
<1> USE DEF ControlInv, StartInv, JoinInv, StopInv, StrandInv, ReapInv,
            Returned, IngestEnded, MainAt, IngestAt, EgressAt, sourceVars,
            queueVars, counters
<1>1. CASE Construct
  BY <1>0, <1>1
  DEF Construct, Reject, SpawnEgress, SpawnIngest, SpawnIngestFails
<1>2. CASE CallJoin \/ CallDestructor
  BY <1>0, <1>2 DEF CallJoin, CallDestructor
<1>3. CASE MainInCall
  <2>1. CASE UnwindStopEgress \/ StopEgress
    BY <1>0, <2>1 DEF UnwindStopEgress, StopEgress, Q!RequestStop
  <2>2. CASE JoinClose \/ DestroyClose
    BY <1>0, <2>2 DEF JoinClose, DestroyClose, Q!Close
  <2>3. CASE UnwindReapEgress \/ JoinIngest \/ JoinEgress \/ StopIngest
             \/ ReapIngest \/ ReapEgress
    BY <1>0, <2>3 DEF UnwindReapEgress, JoinIngest, JoinEgress, StopIngest,
                ReapIngest, ReapEgress
  <2>4. QED
    BY <1>3, <2>1, <2>2, <2>3 DEF MainInCall
<1>4. CASE IngestStep
  <2>1. CASE OpenSource \/ ReadLine \/ LeaveLoop
    BY <1>0, <2>1 DEF OpenSource, ReadLine, LeaveLoop
  <2>2. CASE OpenFails \/ IngestClose
    BY <1>0, <2>2 DEF OpenFails, IngestClose, Q!Close
  <2>3. CASE ParseAndEmit
    <3>1. Len(queue') = Len(queue) + 1
      BY <2>3, AppendLength DEF ParseAndEmit, Q!Push, Types, Q!TypeOK
    <3>2. QED
      BY <1>0, <2>3, <3>1 DEF ParseAndEmit, Q!Push
  <2>4. CASE ParseFails \/ RecordSuccess \/ RecordTotal
    BY <1>0, <2>4 DEF ParseFails, RecordSuccess, RecordTotal
  <2>5. QED
    BY <1>4, <2>1, <2>2, <2>3, <2>4 DEF IngestStep
<1>5. CASE EgressStep
  BY <1>0, <1>5
  DEF EgressStep, TakeMessage, LeaveEgress, Callback, CountDelivery,
      Q!Take, Q!ReturnNull
<1>6. CASE Block \/ WakeSpuriously
  BY <1>0, <1>6 DEF Block, WakeSpuriously, Q!Sleep, Q!WakeSpuriously
<1>7. CASE Notify("main") \/ Notify("ingest")
  BY <1>0, <1>7 DEF Notify, Q!NotifyOne, Q!NotifyAll
<1>8. CASE UNCHANGED vars
  BY <1>8 DEF vars
<1>9. QED
  BY <1>1, <1>2, <1>3, <1>4, <1>5, <1>6, <1>7, <1>8 DEF Next, Rest

-----------------------------------------------------------------------------
(* The last element of a sequence, taken off and put on again.             *)
LEMMA FrontOfAppend ==
  ASSUME NEW S, NEW s \in Seq(S), NEW x \in S
  PROVE  SubSeq(Append(s, x), 1, Len(Append(s, x)) - 1) = s
BY SMTT(30)

(* A sequence is its front with its last element at the end.               *)
LEMMA AppendToFront ==
  ASSUME NEW S, NEW s \in Seq(S), s # <<>>
  PROVE  Append(SubSeq(s, 1, Len(s) - 1), s[Len(s)]) = s
BY SMTT(30)

(* A message at the end of two sequences, and one moved between them.      *)
LEMMA ConcatAppend ==
  ASSUME NEW S, NEW p \in Seq(S), NEW q \in Seq(S), NEW x \in S
  PROVE  p \o Append(q, x) = Append(p \o q, x)
OBVIOUS

(* The head of the second sequence moved to the end of the first.          *)
LEMMA ConcatHeadTail ==
  ASSUME NEW S, NEW p \in Seq(S), NEW q \in Seq(S), q # <<>>
  PROVE  p \o q = Append(p, Head(q)) \o Tail(q)
OBVIOUS

(* A number larger than those of an increasing sequence goes at its end.   *)
LEMMA IncreasingAppend ==
  ASSUME NEW S \in SUBSET Nat, NEW s \in Seq(S), NEW x \in Nat,
         Increasing(s), \A y \in Elements(s) : y < x
  PROVE  /\ Increasing(Append(s, x))
         /\ Elements(Append(s, x)) = Elements(s) \cup {x}
<1>1. /\ Len(Append(s, x)) = Len(s) + 1 /\ Len(s) \in Nat
      /\ \A i \in 1..Len(s) : Append(s, x)[i] = s[i]
      /\ Append(s, x)[Len(s) + 1] = x
  OBVIOUS
<1>2. ASSUME NEW i \in 1..Len(s)
      PROVE  s[i] \in Nat /\ s[i] < x
  <2>1. s[i] \in S
    BY <1>1
  <2>2. s[i] \in Elements(s)
    BY DEF Elements
  <2>3. QED
    BY <2>1, <2>2
<1>3. Increasing(Append(s, x))
  BY <1>1, <1>2 DEF Increasing
<1>4. Elements(Append(s, x)) = Elements(s) \cup {x}
  BY <1>1 DEF Elements
<1>5. QED
  BY <1>3, <1>4

(* The decodable lines, one line further.                                  *)
LEMMA DecodableNext ==
  ASSUME NEW n \in Nat
  PROVE  Decodable(n + 1) =
           IF lines[n + 1] = "none" THEN Decodable(n) \cup {n + 1}
                                    ELSE Decodable(n)
<1>1. 1..(n + 1) = 1..n \cup {n + 1}
  OBVIOUS
<1>2. QED
  BY <1>1 DEF Decodable

(* There are finitely many decodable lines, the next one not among them.   *)
LEMMA DecodableIsFinite ==
  ASSUME NEW n \in Nat
  PROVE  /\ IsFiniteSet(Decodable(n))
         /\ Cardinality(Decodable(n)) \in 0..n
         /\ n + 1 \notin Decodable(n)
         /\ Cardinality(Decodable(n) \cup {n + 1})
              = Cardinality(Decodable(n)) + 1
<1>1. IsFiniteSet(1..n) /\ Cardinality(1..n) = n
  BY FS_Interval
<1>2. IsFiniteSet(Decodable(n)) /\ Cardinality(Decodable(n)) <= n
  BY <1>1, FS_Subset DEF Decodable
<1>3. Cardinality(Decodable(n)) \in Nat
  BY <1>2, FS_CardinalityType
<1>4. n + 1 \notin Decodable(n)
  BY DEF Decodable
<1>5. QED
  BY <1>2, <1>3, <1>4, FS_AddElement

-----------------------------------------------------------------------------
(* What a step leaves alone that moves no message and ends no line.        *)
Quiet ==
  /\ UNCHANGED <<queue, pushed, popped, delivered, lines>>
  /\ Parsed' = Parsed
  /\ egressPc' = "callback" <=> egressPc = "callback"

(* Four actions move a message or end a line; all the others are quiet.    *)
LEMMA QuietSteps ==
  ASSUME Types, StartInv, [Next]_vars
  PROVE  Quiet \/ ParseAndEmit \/ ParseFails \/ TakeMessage \/ Callback
<1>0. linesRead \in Nat
  BY SourceLength, MaxLinesAssumption DEF Types, OwnTypes
<1> USE DEF Quiet, Parsed, MainAt, IngestAt, EgressAt, sourceVars, queueVars,
            counters
<1>1. SpawnEgress \/ SpawnIngest => Quiet
  BY DEF SpawnEgress, SpawnIngest, StartInv
<1>2. Reject \/ SpawnIngestFails \/ CallJoin \/ CallDestructor => Quiet
  BY DEF Reject, SpawnIngestFails, CallJoin, CallDestructor
<1>3. MainInCall => Quiet
  BY DEF MainInCall, UnwindStopEgress, UnwindReapEgress, JoinIngest,
         JoinClose, JoinEgress, StopIngest, DestroyClose, StopEgress,
         ReapIngest, ReapEgress, Q!RequestStop, Q!Close
<1>4. ReadLine => Quiet
  BY <1>0 DEF ReadLine
<1>5. OpenSource \/ OpenFails \/ LeaveLoop \/ RecordSuccess \/ RecordTotal
        \/ IngestClose => Quiet
  BY DEF OpenSource, OpenFails, LeaveLoop, RecordSuccess, RecordTotal,
         IngestClose, Q!Close
<1>6. LeaveEgress \/ CountDelivery \/ Block \/ WakeSpuriously => Quiet
  BY DEF LeaveEgress, CountDelivery, Block, WakeSpuriously, Q!ReturnNull,
         Q!Sleep, Q!WakeSpuriously
<1>7. Notify("main") \/ Notify("ingest") => Quiet
  BY DEF Notify, Q!NotifyOne, Q!NotifyAll
<1>8. UNCHANGED vars => Quiet
  BY DEF vars
<1>9. QED
  BY <1>1, <1>2, <1>3, <1>4, <1>5, <1>6, <1>7, <1>8
  DEF Next, Rest, Construct, IngestStep, EgressStep

(* Every step keeps the messages on their way.                             *)
LEMMA TransferStep ==
  Types /\ StartInv /\ TransferInv /\ [Next]_vars => TransferInv'
<1> SUFFICES ASSUME Types, StartInv, TransferInv, [Next]_vars
             PROVE  TransferInv'
  OBVIOUS
<1>0. /\ pushed \in Seq(1..MaxLines) /\ popped \in Seq(1..MaxLines)
      /\ queue \in Seq(1..MaxLines) /\ delivered \in Seq(1..MaxLines)
      /\ linesRead \in 0..MaxLines /\ MaxLines \in Nat
      /\ 1..MaxLines \in SUBSET Nat
  BY SourceLength, MaxLinesAssumption DEF Types, OwnTypes, Q!TypeOK
<1>t. /\ Increasing(pushed)
      /\ Elements(pushed) = Decodable(Parsed)
      /\ pushed = popped \o queue
      /\ delivered = IF egressPc = "callback"
                       THEN SubSeq(popped, 1, Len(popped) - 1) ELSE popped
      /\ egressPc = "callback" => popped # <<>>
  BY DEF TransferInv, NothingLostOrReordered
<1>s. SUFFICES
      /\ Increasing(pushed')
      /\ Elements(pushed)' = Decodable(Parsed)'
      /\ pushed' = popped' \o queue'
      /\ delivered' = IF egressPc' = "callback"
                        THEN SubSeq(popped', 1, Len(popped') - 1) ELSE popped'
      /\ egressPc' = "callback" => popped' # <<>>
  BY DEF TransferInv, NothingLostOrReordered, Increasing
<1>1. CASE Quiet
  BY <1>1, <1>t DEF Quiet, Decodable, Elements
<1>2. CASE ParseAndEmit
  <2>1. /\ lines' = lines /\ linesRead' = linesRead
        /\ pushed' = Append(pushed, linesRead)
        /\ queue' = Append(queue, linesRead)
        /\ UNCHANGED <<popped, delivered, egressPc>>
        /\ Parsed = linesRead - 1 /\ Parsed' = linesRead
        /\ linesRead \in 1..MaxLines /\ lines[linesRead] = "none"
    BY <1>0, <1>2 DEF ParseAndEmit, IngestAt, Q!Push, Parsed, sourceVars,
                      StartInv
  <2>0. linesRead - 1 \in Nat /\ (linesRead - 1) + 1 = linesRead
    BY <2>1
  <2>2. Decodable(linesRead) = Decodable(linesRead - 1) \cup {linesRead}
    BY <2>0, <2>1, DecodableNext
  <2>3. \A y \in Elements(pushed) : y < linesRead
    BY <1>0, <1>t, <2>1 DEF Decodable
  <2>4. /\ Increasing(pushed')
        /\ Elements(pushed') = Elements(pushed) \cup {linesRead}
    BY <1>0, <1>t, <2>1, <2>3, IncreasingAppend
  <2>5. pushed' = popped \o queue'
    <3>1. popped \o Append(queue, linesRead) = Append(popped \o queue, linesRead)
      <4>1. /\ popped \in Seq(1..MaxLines) /\ queue \in Seq(1..MaxLines)
            /\ linesRead \in 1..MaxLines
        BY <1>0, <2>1
      <4>2. QED
        BY <4>1, ConcatAppend
    <3>2. QED
      BY <3>1, <1>t, <2>1
  <2>6. Decodable(Parsed)' = Decodable(linesRead)
    BY <2>1 DEF Decodable
  <2>7. QED
    BY <1>t, <2>1, <2>2, <2>4, <2>5, <2>6 DEF Elements
<1>3. CASE ParseFails
  <2>1. /\ lines' = lines
        /\ UNCHANGED <<pushed, queue, popped, delivered, egressPc>>
        /\ Parsed = linesRead - 1 /\ Parsed' = linesRead
        /\ linesRead \in 1..MaxLines /\ lines[linesRead] # "none"
    BY <1>0, <1>3 DEF ParseFails, IngestAt, Parsed, sourceVars, queueVars,
                      StartInv
  <2>0. linesRead - 1 \in Nat /\ (linesRead - 1) + 1 = linesRead
    BY <2>1
  <2>2. Decodable(linesRead) = Decodable(linesRead - 1)
    BY <2>0, <2>1, DecodableNext
  <2>3. Decodable(Parsed)' = Decodable(linesRead)
    BY <2>1 DEF Decodable
  <2>4. QED
    BY <1>t, <2>1, <2>2, <2>3 DEF Elements
<1>4. CASE TakeMessage
  <2>1. /\ queue # <<>> /\ queue' = Tail(queue)
        /\ popped' = Append(popped, Head(queue))
        /\ egressPc = "wait" /\ egressPc' = "callback"
        /\ UNCHANGED <<pushed, delivered, lines, linesRead, ingestPc>>
    BY <1>4 DEF TakeMessage, EgressAt, Q!Take, sourceVars
  <2>2. pushed' = popped' \o queue'
    BY <1>0, <1>t, <2>1, ConcatHeadTail
  <2>3. Head(queue) \in 1..MaxLines
    BY <1>0, <2>1, HeadTailProperties
  <2>4. SubSeq(popped', 1, Len(popped') - 1) = popped
    BY <1>0, <2>1, <2>3, FrontOfAppend
  <2>5. popped' # <<>>
    <3>1. Len(popped') = Len(popped) + 1 /\ Len(popped) \in Nat
      BY <1>0, <2>1, AppendLength, LenProperties
    <3>2. QED
      BY <3>1
  <2>6. Elements(pushed)' = Decodable(Parsed)'
    BY <1>t, <2>1 DEF Elements, Decodable, Parsed
  <2>7. QED
    BY <1>t, <2>1, <2>2, <2>4, <2>5, <2>6
<1>5. CASE Callback
  <2>1. /\ egressPc = "callback" /\ egressPc' = "count"
        /\ delivered' = Append(delivered, popped[Len(popped)])
        /\ UNCHANGED <<queue, pushed, popped, lines, linesRead, ingestPc>>
    BY <1>5 DEF Callback, EgressAt, sourceVars, queueVars
  <2>2. delivered' = popped
    BY <1>0, <1>t, <2>1, AppendToFront
  <2>3. QED
    BY <1>t, <2>1, <2>2 DEF Elements, Decodable, Parsed
<1>6. QED
  BY <1>1, <1>2, <1>3, <1>4, <1>5, QuietSteps

-----------------------------------------------------------------------------
(* The counters follow the program counters.                               *)
LEMMA CountStep ==
  Types /\ StartInv /\ TransferInv /\ CountInv /\ [Next]_vars => CountInv'
<1> SUFFICES ASSUME Types, StartInv, TransferInv, CountInv, [Next]_vars
             PROVE  CountInv'
  OBVIOUS
<1>0. /\ success \in Nat /\ total \in Nat /\ egressCount \in Nat
      /\ linesRead \in Nat /\ linesRead \in 0..MaxLines /\ MaxLines \in Nat
      /\ pushed \in Seq(1..MaxLines) /\ delivered \in Seq(1..MaxLines)
      /\ popped \in Seq(1..MaxLines)
      /\ Len(pushed) \in Nat /\ Len(delivered) \in Nat
  BY SourceLength, MaxLinesAssumption DEF Types, OwnTypes, Q!TypeOK
<1>1. Cardinality(Decodable(Parsed))' = Len(pushed)'
  <2>1. CASE Quiet \/ TakeMessage \/ Callback
    <3>1. /\ lines' = lines /\ Parsed' = Parsed /\ pushed' = pushed
      BY <2>1 DEF Quiet, TakeMessage, Callback, EgressAt, Q!Take, sourceVars,
                  queueVars, Parsed
    <3>2. QED
      BY <3>1 DEF CountInv, Decodable
  <2>2. CASE ParseAndEmit
    <3>1. /\ lines' = lines /\ pushed' = Append(pushed, linesRead)
          /\ Parsed = linesRead - 1 /\ Parsed' = linesRead
          /\ linesRead \in 1..MaxLines /\ lines[linesRead] = "none"
      BY <1>0, <2>2 DEF ParseAndEmit, IngestAt, Q!Push, Parsed, sourceVars,
                        StartInv
    <3>2. linesRead - 1 \in Nat /\ (linesRead - 1) + 1 = linesRead
      BY <3>1
    <3>3. Decodable(linesRead) = Decodable(linesRead - 1) \cup {linesRead}
      BY <3>1, <3>2, DecodableNext
    <3>4. Cardinality(Decodable(linesRead - 1) \cup {linesRead})
            = Cardinality(Decodable(linesRead - 1)) + 1
      BY <3>2, DecodableIsFinite
    <3>5. Decodable(Parsed)' = Decodable(linesRead)
      BY <3>1 DEF Decodable
    <3>6. Len(pushed') = Len(pushed) + 1
      BY <1>0, <3>1, AppendLength
    <3>7. QED
      BY <3>1, <3>3, <3>4, <3>5, <3>6 DEF CountInv
  <2>3. CASE ParseFails
    <3>1. /\ lines' = lines /\ pushed' = pushed
          /\ Parsed = linesRead - 1 /\ Parsed' = linesRead
          /\ linesRead \in 1..MaxLines /\ lines[linesRead] # "none"
      BY <1>0, <2>3 DEF ParseFails, IngestAt, Parsed, sourceVars, queueVars,
                        StartInv
    <3>2. linesRead - 1 \in Nat /\ (linesRead - 1) + 1 = linesRead
      BY <3>1
    <3>3. Decodable(linesRead) = Decodable(linesRead - 1)
      BY <3>1, <3>2, DecodableNext
    <3>4. Decodable(Parsed)' = Decodable(linesRead)
      BY <3>1 DEF Decodable
    <3>5. QED
      BY <3>1, <3>3, <3>4 DEF CountInv
  <2>4. QED
    BY <2>1, <2>2, <2>3, QuietSteps
<1>2. /\ success' + (IF ingestPc' = "success" THEN 1 ELSE 0) = Len(pushed')
      /\ total' + (IF ingestPc' \in {"parse", "success", "total"}
                     THEN 1 ELSE 0) = linesRead'
      /\ egressCount' + (IF egressPc' = "count" THEN 1 ELSE 0)
           = Len(delivered')
  <2> USE DEF CountInv, MainAt, IngestAt, EgressAt, sourceVars, queueVars,
              counters
  <2>1. CASE SpawnEgress \/ SpawnIngest
    BY <1>0, <2>1 DEF SpawnEgress, SpawnIngest, StartInv
  <2>2. CASE Reject \/ SpawnIngestFails \/ CallJoin \/ CallDestructor
    BY <1>0, <2>2 DEF Reject, SpawnIngestFails, CallJoin, CallDestructor
  <2>3. CASE MainInCall
    <3>1. UNCHANGED <<success, total, egressCount, pushed, delivered,
                      linesRead, ingestPc, egressPc>>
      BY <2>3
      DEF MainInCall, UnwindStopEgress, UnwindReapEgress, JoinIngest,
          JoinClose, JoinEgress, StopIngest, DestroyClose, StopEgress,
          ReapIngest, ReapEgress, Q!RequestStop, Q!Close
    <3>2. QED
      BY <3>1
  <2>4. CASE OpenSource \/ OpenFails \/ ReadLine \/ LeaveLoop \/ ParseFails
             \/ IngestClose
    <3>1. UNCHANGED <<success, total, egressCount, pushed, delivered,
                      egressPc>>
      BY <2>4
      DEF OpenSource, OpenFails, ReadLine, LeaveLoop, ParseFails,
          IngestClose, Q!Close
    <3>2. CASE ReadLine
      BY <1>0, <3>1, <3>2 DEF ReadLine
    <3>3. CASE OpenSource \/ OpenFails \/ LeaveLoop \/ ParseFails
               \/ IngestClose
      BY <1>0, <3>1, <3>3
      DEF OpenSource, OpenFails, LeaveLoop, ParseFails, IngestClose
    <3>4. QED
      BY <2>4, <3>2, <3>3
  <2>5. CASE ParseAndEmit
    <3>1. pushed' = Append(pushed, linesRead)
      BY <2>5 DEF ParseAndEmit, Q!Push
    <3>2. Len(pushed') = Len(pushed) + 1
      BY <1>0, <3>1, AppendLength
    <3>3. QED
      BY <1>0, <2>5, <3>2 DEF ParseAndEmit
  <2>6. CASE RecordSuccess \/ RecordTotal
    <3>1. UNCHANGED <<egressCount, pushed, delivered, linesRead, egressPc>>
      BY <2>6 DEF RecordSuccess, RecordTotal
    <3>2. CASE RecordSuccess
      BY <1>0, <3>1, <3>2 DEF RecordSuccess
    <3>3. CASE RecordTotal
      BY <1>0, <3>1, <3>3 DEF RecordTotal
    <3>4. QED
      BY <2>6, <3>2, <3>3
  <2>7. CASE TakeMessage \/ LeaveEgress \/ CountDelivery
    <3>1. UNCHANGED <<success, total, pushed, delivered, linesRead, ingestPc>>
      BY <2>7
      DEF TakeMessage, LeaveEgress, CountDelivery, Q!Take, Q!ReturnNull
    <3>2. CASE TakeMessage \/ LeaveEgress
      BY <1>0, <3>1, <3>2 DEF TakeMessage, LeaveEgress
    <3>3. CASE CountDelivery
      BY <1>0, <3>1, <3>3 DEF CountDelivery
    <3>4. QED
      BY <2>7, <3>2, <3>3
  <2>8. CASE Callback
    <3>1. Len(delivered') = Len(delivered) + 1
      BY <1>0, <2>8, AppendLength DEF Callback
    <3>2. QED
      BY <1>0, <2>8, <3>1 DEF Callback
  <2>9. CASE Block \/ WakeSpuriously \/ Notify("main") \/ Notify("ingest")
    BY <1>0, <2>9
    DEF Block, WakeSpuriously, Notify, Q!Sleep, Q!WakeSpuriously,
        Q!NotifyOne, Q!NotifyAll
  <2>10. CASE UNCHANGED vars
    BY <1>0, <2>10 DEF vars
  <2>11. QED
    BY <2>1, <2>2, <2>3, <2>4, <2>5, <2>6, <2>7, <2>8, <2>9, <2>10
    DEF Next, Rest, Construct, IngestStep, EgressStep
<1>3. QED
  BY <1>1, <1>2 DEF CountInv

-----------------------------------------------------------------------------
(* Initially nothing is on its way and nothing is counted.                 *)
LEMMA InitTransfers == Init => TransferInv /\ CountInv
<1> SUFFICES ASSUME Init PROVE TransferInv /\ CountInv
  OBVIOUS
<1>1. /\ pushed = <<>> /\ popped = <<>> /\ queue = <<>> /\ delivered = <<>>
      /\ linesRead = 0 /\ success = 0 /\ total = 0 /\ egressCount = 0
      /\ ingestPc = "unstarted" /\ egressPc = "unstarted"
  BY DEF Init, Q!Init
<1>2. Decodable(Parsed) = {}
  BY <1>1 DEF Decodable, Parsed
<1>3. TransferInv
  BY <1>1, <1>2 DEF TransferInv, NothingLostOrReordered, Increasing, Elements
<1>4. Cardinality(Decodable(Parsed)) = 0
  BY <1>2, FS_EmptySet
<1>5. CountInv
  BY <1>1, <1>4 DEF CountInv
<1>6. QED
  BY <1>3, <1>5

(* The inductive invariant holds in every reachable state.                 *)
THEOREM InvariantHolds == Spec => []IInv
<1>1. Init => IInv
  BY InitHolds, InitTransfers DEF IInv
<1>2. IInv /\ [Next]_vars => IInv'
  <2> SUFFICES ASSUME IInv, [Next]_vars PROVE IInv'
    OBVIOUS
  <2>1. Types /\ ControlInv /\ TransferInv /\ CountInv /\ StartInv
    BY DEF IInv, ControlInv
  <2>2. Types'
    BY <2>1, QueueTypesStep, OwnTypesStep DEF Types
  <2>3. QED
    BY <2>1, <2>2, ControlStep, TransferStep, CountStep DEF IInv
<1>3. QED
  BY <1>1, <1>2, PTL DEF Spec

(* How the lengths compare: nothing is delivered before it is taken, or    *)
(* taken before it is pushed, and no line pushes two messages.             *)
LEMMA LengthsCompare ==
  ASSUME IInv
  PROVE  /\ Len(delivered) \in Nat /\ Len(pushed) \in Nat
         /\ Len(delivered) <= Len(pushed)
         /\ Len(pushed) <= linesRead
         /\ linesRead <= MaxLines
<1>1. /\ pushed \in Seq(1..MaxLines) /\ popped \in Seq(1..MaxLines)
      /\ queue \in Seq(1..MaxLines) /\ delivered \in Seq(1..MaxLines)
      /\ linesRead \in 0..MaxLines /\ MaxLines \in Nat
  BY SourceLength, MaxLinesAssumption
  DEF IInv, Types, OwnTypes, Q!TypeOK
<1>2. Parsed \in Nat /\ Parsed <= linesRead
  BY <1>1 DEF Parsed, IInv, ControlInv, StartInv
<1>3. Len(pushed) <= linesRead
  <2>1. Cardinality(Decodable(Parsed)) \in 0..Parsed
    BY <1>2, DecodableIsFinite
  <2>2. Cardinality(Decodable(Parsed)) = Len(pushed)
    BY DEF IInv, CountInv
  <2>3. QED
    BY <1>1, <1>2, <2>1, <2>2
<1>4. Len(popped) <= Len(pushed)
  <2>1. pushed = popped \o queue
    BY DEF IInv, TransferInv, NothingLostOrReordered
  <2>2. Len(popped \o queue) = Len(popped) + Len(queue)
        /\ Len(queue) \in Nat /\ Len(popped) \in Nat
    BY <1>1, ConcatProperties, LenProperties
  <2>3. QED
    BY <2>1, <2>2
<1>5. Len(delivered) <= Len(popped)
  <2>1. CASE egressPc = "callback"
    <3>1. popped # <<>> /\ delivered = SubSeq(popped, 1, Len(popped) - 1)
      BY <2>1 DEF IInv, TransferInv, NothingLostOrReordered
    <3>2. Append(delivered, popped[Len(popped)]) = popped
      BY <1>1, <3>1, AppendToFront
    <3>3. Len(popped) = Len(delivered) + 1
      BY <1>1, <3>2, AppendLength
    <3>4. QED
      BY <1>1, <3>3, LenProperties
  <2>2. CASE egressPc # "callback"
    BY <1>1, <2>2, LenProperties DEF IInv, TransferInv, NothingLostOrReordered
  <2>3. QED
    BY <2>1, <2>2
<1>6. QED
  BY <1>1, <1>3, <1>4, <1>5, LenProperties

-----------------------------------------------------------------------------
(* The types, for a source of any length: no counter ever runs past the    *)
(* number of lines.                                                        *)
THEOREM TypesHold == Spec => []TypeOK
<1>1. IInv => TypeOK
  <2> SUFFICES ASSUME IInv PROVE TypeOK
    OBVIOUS
  <2>1. Types
    BY DEF IInv
  <2>2. success \in 0..MaxLines
    BY <2>1, LengthsCompare, MaxLinesAssumption
    DEF IInv, CountInv, Types, OwnTypes
  <2>3. total \in 0..MaxLines
    <3>1. total <= linesRead
      BY <2>1, LengthsCompare DEF IInv, CountInv, Types, OwnTypes
    <3>2. linesRead \in Nat /\ total \in Nat
      BY <2>1, SourceLength DEF Types, OwnTypes
    <3>3. QED
      BY <3>1, <3>2, LengthsCompare, MaxLinesAssumption
  <2>4. egressCount \in 0..MaxLines
    BY <2>1, LengthsCompare, MaxLinesAssumption
    DEF IInv, CountInv, Types, OwnTypes
  <2>5. QED
    BY <2>1, <2>2, <2>3, <2>4 DEF TypeOK, Types, OwnTypes
<1>2. QED
  BY <1>1, InvariantHolds, PTL

(* Between ParseNext and the callback no message is lost, repeated,        *)
(* reordered or made up, however many lines the source has and wherever    *)
(* the three threads are.                                                  *)
THEOREM TransferIsFaithful == Spec => []NothingLostOrReordered
<1>1. IInv => NothingLostOrReordered
  BY DEF IInv, TransferInv
<1>2. QED
  BY <1>1, InvariantHolds, PTL

(* The counters, read at any instant, are behind what they count by the    *)
(* one event whose thread has not bumped them yet.                         *)
THEOREM CountersAreExact == Spec => []CountersAccountForEveryLine
<1>1. IInv => CountersAccountForEveryLine
  <2> SUFFICES ASSUME IInv PROVE CountersAccountForEveryLine
    OBVIOUS
  <2>1. success \in Nat /\ egressCount \in Nat
    BY DEF IInv, Types, OwnTypes
  <2>2. egressCount <= success + 1
    BY <2>1, LengthsCompare DEF IInv, CountInv
  <2>3. QED
    BY <2>2 DEF CountersAccountForEveryLine, IInv, CountInv
<1>2. QED
  BY <1>1, InvariantHolds, PTL

(* Join returns with both threads ended, the queue empty, every line       *)
(* counted and every decodable one delivered.                              *)
THEOREM JoinDrains == Spec => []JoinMeansDrained
<1>1. IInv => JoinMeansDrained
  <2> SUFFICES ASSUME IInv, mainPc = "joined"
               PROVE  /\ ingestPc = "ended" /\ egressPc = "ended"
                      /\ queue = <<>>
                      /\ ~unreadable =>
                           /\ total = Len(lines)
                           /\ Elements(delivered) = Decodable(Len(lines))
                           /\ egressCount = success
                           /\ success = Cardinality(Decodable(Len(lines)))
    BY DEF JoinMeansDrained
  <2>1. /\ success \in Nat /\ total \in Nat /\ egressCount \in Nat
        /\ pushed \in Seq(1..MaxLines) /\ popped \in Seq(1..MaxLines)
    BY DEF IInv, Types, OwnTypes, Q!TypeOK
  <2>2. /\ ingestPc = "ended" /\ egressPc = "ended" /\ ~ingestStop
    BY DEF IInv, ControlInv, JoinInv, StopInv, IngestEnded
  <2>3. queue = <<>>
    BY <2>2 DEF IInv, ControlInv, StrandInv
  <2>4. delivered = pushed
    <3>1. popped \o <<>> = popped
      BY <2>1, ConcatEmptySeq
    <3>2. QED
      BY <2>2, <2>3, <3>1 DEF IInv, TransferInv, NothingLostOrReordered
  <2>5. ASSUME ~unreadable PROVE Parsed = Len(lines) /\ linesRead = Len(lines)
    BY <2>2, <2>5 DEF IInv, ControlInv, StartInv, Parsed
  <2>6. /\ success = Len(pushed) /\ total = linesRead
        /\ egressCount = Len(delivered)
    BY <2>1, <2>2 DEF IInv, CountInv
  <2>7. ASSUME ~unreadable
        PROVE  Elements(delivered) = Decodable(Len(lines))
    BY <2>4, <2>5, <2>7 DEF IInv, TransferInv, NothingLostOrReordered
  <2>8. ASSUME ~unreadable
        PROVE  success = Cardinality(Decodable(Len(lines)))
    BY <2>5, <2>6, <2>8 DEF IInv, CountInv
  <2>9. QED
    BY <2>2, <2>3, <2>4, <2>5, <2>6, <2>7, <2>8
<1>2. QED
  BY <1>1, InvariantHolds, PTL

(* However many messages are on their way when the engine is destroyed, at *)
(* most one is left in the queue.                                          *)
THEOREM AtMostOneIsStranded == Spec => []DestructionStrandsAtMostOne
<1>1. IInv => DestructionStrandsAtMostOne
  <2> SUFFICES ASSUME IInv, mainPc = "gone" PROVE Len(queue) <= 1
    BY DEF DestructionStrandsAtMostOne
  <2>1. Len(queue) \in Nat /\ (queue = <<>> => Len(queue) = 0)
    BY DEF IInv, Types, Q!TypeOK
  <2>2. CASE egressPc = "ended"
    BY <2>1, <2>2 DEF IInv, ControlInv, StrandInv, ReapInv
  <2>3. CASE egressPc = "unstarted"
    <3>1. linesRead = 0
      BY <2>3 DEF IInv, ControlInv, StartInv
    <3>2. Len(pushed) = 0
      BY <3>1, LengthsCompare
    <3>3. Len(pushed) = Len(popped) + Len(queue) /\ Len(popped) \in Nat
      BY ConcatProperties, LenProperties
      DEF IInv, TransferInv, NothingLostOrReordered, Types, Q!TypeOK
    <3>4. QED
      BY <2>1, <3>2, <3>3
  <2>4. QED
    BY <2>2, <2>3 DEF IInv, ControlInv, ReapInv
<1>2. QED
  BY <1>1, InvariantHolds, PTL

(* Nothing runs in a destroyed engine.                                     *)
THEOREM TheGoneEngineIsEmpty == Spec => []NobodyLeftInside
<1>1. IInv => NobodyLeftInside
  BY DEF IInv, ControlInv, ReapInv, StartInv, NobodyLeftInside
<1>2. QED
  BY <1>1, InvariantHolds, PTL

-----------------------------------------------------------------------------
(* The engine is a Replay: the decodable lines as a sequence.              *)

(* A set of natural numbers has a least element.                           *)
LEMMA LeastElement ==
  ASSUME NEW T \in SUBSET Nat, T # {}
  PROVE  \E x \in T : \A y \in T : x <= y
<1>1. PICK x \in T : \A y \in T : <<y, x>> \notin OpToRel(<, Nat)
  BY WFMin, NatLessThanWellFounded, Zenon
<1>2. \A y \in T : ~(y < x)
  BY <1>1 DEF OpToRel
<1>3. QED
  BY <1>2

(* s lists the decodable ones of the first n lines.                        *)
Lists(s, n) ==
  /\ s \in Seq(1..MaxLines) /\ Len(s) <= n
  /\ Increasing(s) /\ Elements(s) = Decodable(n)

(* Such a list for one line more.                                          *)
LEMMA ListNext ==
  ASSUME lines \in Sources, NEW n \in Nat, n + 1 <= Len(lines),
         NEW s, Lists(s, n)
  PROVE  \E t : Lists(t, n + 1)
<1>0. n + 1 \in 1..MaxLines
  BY SourceLength, MaxLinesAssumption
<1>1. CASE lines[n + 1] = "none"
  <2>1. Decodable(n + 1) = Decodable(n) \cup {n + 1}
    BY <1>1, DecodableNext
  <2>2. \A y \in Elements(s) : y < n + 1
    BY DEF Lists, Decodable
  <2>3. /\ Increasing(Append(s, n + 1))
        /\ Elements(Append(s, n + 1)) = Elements(s) \cup {n + 1}
    <3>1. /\ s \in Seq(1..MaxLines) /\ Increasing(s)
          /\ 1..MaxLines \in SUBSET Nat /\ n + 1 \in Nat
      BY DEF Lists
    <3>2. QED
      BY <2>2, <3>1, IncreasingAppend
  <2>4. /\ Append(s, n + 1) \in Seq(1..MaxLines)
        /\ Len(Append(s, n + 1)) = Len(s) + 1 /\ Len(s) \in Nat
    BY <1>0 DEF Lists
  <2>5. Lists(Append(s, n + 1), n + 1)
    <3>1. Len(Append(s, n + 1)) <= n + 1
      BY <2>4 DEF Lists
    <3>2. Elements(s) = Decodable(n)
      BY DEF Lists
    <3>3. QED
      BY <2>1, <2>3, <2>4, <3>1, <3>2, Zenon DEF Lists
  <2>6. QED
    BY <2>5
<1>2. CASE lines[n + 1] # "none"
  <2>1. Decodable(n + 1) = Decodable(n)
    BY <1>2, DecodableNext
  <2>2. Len(s) \in Nat
    BY DEF Lists
  <2>3. Lists(s, n + 1)
    BY <2>1, <2>2 DEF Lists
  <2>4. QED
    BY <2>3
<1>3. QED
  BY <1>1, <1>2

(* The decodable lines of a source can be listed.                          *)
LEMMA ListExists ==
  ASSUME lines \in Sources
  PROVE  \E s : Lists(s, Len(lines))
<1> DEFINE T == {n \in Nat : n <= Len(lines) /\ ~ \E s : Lists(s, n)}
<1>1. Len(lines) \in Nat
  BY SourceLength, MaxLinesAssumption
<1>2. Lists(<<>>, 0)
  <2>1. <<>> \in Seq(1..MaxLines) /\ Len(<<>>) = 0
    OBVIOUS
  <2>2. Increasing(<<>>) /\ Elements(<<>>) = Decodable(0)
    BY DEF Increasing, Elements, Decodable
  <2>3. QED
    BY <2>1, <2>2 DEF Lists
<1>3. ASSUME T # {} PROVE FALSE
  <2>1. PICK n \in T : \A m \in T : n <= m
    BY <1>3, LeastElement
  <2>2. n \in Nat /\ n <= Len(lines) /\ ~ \E s : Lists(s, n)
    BY <2>1
  <2>3. n # 0
    BY <1>2, <2>2
  <2>4. n - 1 \in Nat /\ (n - 1) + 1 = n /\ n - 1 <= Len(lines)
        /\ ~(n <= n - 1)
    BY <1>1, <2>2, <2>3
  <2>5. n - 1 \notin T
    BY <2>1, <2>4
  <2>6. \E s : Lists(s, n - 1)
    BY <2>4, <2>5
  <2>7. QED
    BY <2>2, <2>4, <2>6, ListNext
<1>4. Len(lines) \notin T
  BY <1>3
<1>5. QED
  BY <1>1, <1>4

(* So the feed of an engine that can read its source is this list.         *)
LEMMA DecodableLinesAreListed ==
  ASSUME lines \in Sources
  PROVE  /\ DecodableLines \in MessageSeqs
         /\ DecodableLines \in Seq(1..MaxLines)
         /\ Increasing(DecodableLines)
         /\ Elements(DecodableLines) = Decodable(Len(lines))
<1>1. PICK s : Lists(s, Len(lines))
  BY ListExists
<1>2. s \in MessageSeqs
  <2>1. Len(lines) \in 0..MaxLines /\ MaxLines \in Nat
    BY SourceLength, MaxLinesAssumption
  <2>2. /\ s \in Seq(1..MaxLines) /\ Len(s) \in Nat /\ Len(s) <= Len(lines)
        /\ s \in [1..Len(s) -> 1..MaxLines]
    BY <1>1, LenProperties DEF Lists
  <2>3. Len(s) \in 0..MaxLines
    BY <2>1, <2>2
  <2>4. QED
    BY <2>2, <2>3 DEF MessageSeqs
<1>3. /\ DecodableLines \in MessageSeqs
      /\ Increasing(DecodableLines)
      /\ Elements(DecodableLines) = Decodable(Len(lines))
  BY <1>1, <1>2 DEF DecodableLines, Lists
<1>4. MessageSeqs \subseteq Seq(1..MaxLines)
  BY MaxLinesAssumption DEF MessageSeqs
<1>5. QED
  BY <1>3, <1>4

(* Of two increasing sequences, one with the first elements of the other   *)
(* is a prefix of it.                                                      *)
LEMMA IncreasingPrefix ==
  ASSUME NEW S \in SUBSET Nat, NEW s \in Seq(S), NEW t \in Seq(S),
         Increasing(s), Increasing(t),
         Elements(s) \subseteq Elements(t),
         \A x \in Elements(s), y \in Elements(t) :
           y < x => y \in Elements(s)
  PROVE  /\ Len(s) <= Len(t)
         /\ \A i \in 1..Len(s) : s[i] = t[i]
<1> DEFINE T == {i \in 1..Len(s) : ~(i <= Len(t) /\ s[i] = t[i])}
<1>1. /\ Len(s) \in Nat /\ Len(t) \in Nat
      /\ \A i \in 1..Len(s) : s[i] \in Nat /\ s[i] \in Elements(s)
      /\ \A i \in 1..Len(t) : t[i] \in Nat /\ t[i] \in Elements(t)
  <2>1. ASSUME NEW q \in Seq(S)
        PROVE  /\ Len(q) \in Nat
               /\ \A i \in 1..Len(q) : q[i] \in Nat /\ q[i] \in Elements(q)
    <3>1. Len(q) \in Nat /\ \A i \in 1..Len(q) : q[i] \in Nat
      <4>1. Len(q) \in Nat
        BY LenProperties
      <4>2. \A i \in 1..Len(q) : q[i] \in S
        BY ElementOfSeq
      <4>3. QED
        BY <4>1, <4>2
    <3>2. \A i \in 1..Len(q) : q[i] \in Elements(q)
      BY DEF Elements
    <3>3. QED
      BY <3>1, <3>2
  <2>2. QED
    BY <2>1
<1>2. ASSUME T # {} PROVE FALSE
  <2>1. T \in SUBSET Nat
    BY <1>1
  <2>2. PICK i \in T : \A j \in T : i <= j
    BY <1>2, <2>1, LeastElement
  <2>3. i \in 1..Len(s) /\ ~(i <= Len(t) /\ s[i] = t[i])
    BY <2>2
  <2>4. ASSUME NEW j \in 1..Len(s), j < i
        PROVE  j \in 1..Len(t) /\ s[j] = t[j]
    <3>1. j \notin T
      BY <2>2, <2>3, <2>4, <1>1
    <3>2. QED
      BY <1>1, <3>1
  <2>5. PICK k \in 1..Len(t) : s[i] = t[k]
    BY <1>1, <2>3 DEF Elements
  <2>6. k > i
    <3>1. ASSUME k < i PROVE FALSE
      <4>1. k \in 1..Len(s) /\ s[k] = t[k]
        BY <1>1, <2>3, <2>4, <3>1
      <4>2. s[k] < s[i]
        BY <2>3, <3>1, <4>1 DEF Increasing
      <4>3. QED
        BY <1>1, <2>3, <2>5, <4>1, <4>2
    <3>2. k # i
      BY <1>1, <2>3, <2>5
    <3>3. QED
      BY <1>1, <2>3, <3>1, <3>2
  <2>7. i \in 1..Len(t) /\ t[i] < s[i]
    <3>1. i \in 1..Len(t)
      BY <1>1, <2>3, <2>6
    <3>2. QED
      BY <2>5, <2>6, <3>1 DEF Increasing
  <2>8. PICK m \in 1..Len(s) : t[i] = s[m]
    <3>1. t[i] \in Elements(s)
      BY <1>1, <2>3, <2>7
    <3>2. QED
      BY <3>1 DEF Elements
  <2>9. m < i
    <3>1. ASSUME i < m PROVE FALSE
      <4>1. s[i] < s[m]
        BY <2>3, <3>1 DEF Increasing
      <4>2. QED
        BY <1>1, <2>3, <2>7, <2>8, <4>1
    <3>2. m # i
      BY <1>1, <2>3, <2>7, <2>8
    <3>3. QED
      BY <1>1, <2>3, <3>1, <3>2
  <2>10. m \in 1..Len(t) /\ s[m] = t[m]
    BY <2>4, <2>9
  <2>11. t[m] < t[i]
    BY <2>7, <2>9, <2>10 DEF Increasing
  <2>12. QED
    BY <1>1, <2>7, <2>8, <2>10, <2>11
<1>3. \A i \in 1..Len(s) : i <= Len(t) /\ s[i] = t[i]
  BY <1>2
<1>4. Len(s) <= Len(t)
  <2>1. CASE Len(s) = 0
    BY <1>1, <2>1
  <2>2. CASE Len(s) # 0
    BY <1>1, <1>3, <2>2
  <2>3. QED
    BY <2>1, <2>2
<1>5. QED
  BY <1>3, <1>4

-----------------------------------------------------------------------------
(* The engine is a Replay: its steps.                                      *)

(* An engine that cannot read its source has read nothing.                 *)
UnreadInv == unreadable => linesRead = 0 /\ ingestPc = "ended"

(* Every step keeps that.                                                  *)
LEMMA UnreadStep ==
  IInv /\ UnreadInv /\ [Next]_vars => UnreadInv'
<1> SUFFICES ASSUME IInv, UnreadInv, [Next]_vars PROVE UnreadInv'
  OBVIOUS
<1>0. ingestPc \in {"unstarted", "open"} => linesRead = 0
  BY DEF IInv, ControlInv, StartInv
<1>1. CASE OpenFails
  BY <1>0, <1>1 DEF OpenFails, IngestAt, UnreadInv
<1>2. CASE OpenSource \/ ReadLine \/ LeaveLoop \/ ParseAndEmit \/ ParseFails
           \/ RecordSuccess \/ RecordTotal \/ IngestClose
  <2>1. unreadable' = unreadable /\ ingestPc # "ended"
    BY <1>2 DEF OpenSource, ReadLine, LeaveLoop, ParseAndEmit, ParseFails,
                RecordSuccess, RecordTotal, IngestClose, IngestAt, sourceVars
  <2>2. QED
    BY <2>1 DEF UnreadInv
<1>3. CASE SpawnIngest
  <2>1. unreadable' = unreadable /\ ingestPc = "unstarted"
    BY <1>3 DEF SpawnIngest, sourceVars, IInv, ControlInv, StartInv
  <2>2. QED
    BY <2>1 DEF UnreadInv
<1>4. ASSUME UNCHANGED <<sourceVars, ingestPc>> PROVE UnreadInv'
  BY <1>4 DEF UnreadInv, sourceVars
<1>5. QED
  BY <1>1, <1>2, <1>3, <1>4
  DEF Next, Rest, vars, Construct, Reject, SpawnEgress, SpawnIngestFails,
      CallJoin, CallDestructor, MainInCall, UnwindStopEgress,
      UnwindReapEgress, JoinIngest, JoinClose, JoinEgress, StopIngest,
      DestroyClose, StopEgress, ReapIngest, ReapEgress, MainAt, IngestStep,
      EgressStep, TakeMessage, LeaveEgress, Callback, CountDelivery,
      EgressAt, Block, WakeSpuriously, Notify

(* What has been pushed is the beginning of the feed.                      *)
LEMMA PushedBeginsFeed ==
  ASSUME IInv, ~unreadable
  PROVE  /\ pushed \in Seq(1..MaxLines)
         /\ ReplayFeed \in Seq(1..MaxLines)
         /\ Len(pushed) <= Len(ReplayFeed)
         /\ \A i \in 1..Len(pushed) : pushed[i] = ReplayFeed[i]
         /\ Parsed = Len(lines) => pushed = ReplayFeed
<1> DEFINE feed == DecodableLines
<1>1. /\ lines \in Sources /\ Len(lines) \in Nat
      /\ linesRead \in Nat /\ linesRead <= Len(lines)
      /\ pushed \in Seq(1..MaxLines)
      /\ Increasing(pushed) /\ Elements(pushed) = Decodable(Parsed)
  BY SourceLength, MaxLinesAssumption
  DEF IInv, Types, OwnTypes, Q!TypeOK, TransferInv, NothingLostOrReordered
<1>2. /\ feed \in Seq(1..MaxLines)
      /\ Increasing(feed) /\ Elements(feed) = Decodable(Len(lines))
  BY <1>1, DecodableLinesAreListed
<1>3. Parsed \in Nat /\ Parsed <= Len(lines)
  BY <1>1 DEF Parsed, IInv, ControlInv, StartInv
<1>4. /\ Decodable(Parsed) \subseteq Decodable(Len(lines))
      /\ \A x \in Decodable(Parsed), y \in Decodable(Len(lines)) :
           y < x => y \in Decodable(Parsed)
  BY <1>1, <1>3 DEF Decodable
<1>5. 1..MaxLines \in SUBSET Nat
  OBVIOUS
<1>6. ReplayFeed = feed
  BY DEF ReplayFeed
<1> HIDE DEF feed
<1>7. /\ Len(pushed) <= Len(feed)
      /\ \A i \in 1..Len(pushed) : pushed[i] = feed[i]
  <2>1. /\ Elements(pushed) \subseteq Elements(feed)
        /\ \A x \in Elements(pushed), y \in Elements(feed) :
             y < x => y \in Elements(pushed)
    BY <1>1, <1>2, <1>4
  <2>2. QED
    BY <1>1, <1>2, <1>5, <2>1, IncreasingPrefix
<1>8. ASSUME Parsed = Len(lines) PROVE pushed = feed
  <2>1. /\ Elements(feed) \subseteq Elements(pushed)
        /\ \A x \in Elements(feed), y \in Elements(pushed) :
             y < x => y \in Elements(feed)
    BY <1>1, <1>2, <1>8
  <2>2. Len(feed) <= Len(pushed)
    BY <1>1, <1>2, <1>5, <2>1, IncreasingPrefix
  <2>3. Len(feed) = Len(pushed)
    BY <1>1, <1>2, <1>7, <2>2, LenProperties
  <2>4. QED
    BY <1>1, <1>2, <1>7, <2>3, SeqEqual
<1>9. QED
  BY <1>1, <1>2, <1>6, <1>7, <1>8

(* The callback is handed the next message of the feed.                    *)
LEMMA CallbackDelivers ==
  ASSUME IInv, UnreadInv, Callback
  PROVE  Replay!Deliver
<1>1. /\ egressPc = "callback"
      /\ delivered' = Append(delivered, popped[Len(popped)])
      /\ UNCHANGED <<lines, unreadable, mainPc>>
  BY DEF Callback, EgressAt, sourceVars
<1>2. mainPc \notin {"joined", "gone"}
  BY <1>1 DEF IInv, ControlInv, JoinInv, ReapInv
<1>3. /\ pushed \in Seq(1..MaxLines) /\ popped \in Seq(1..MaxLines)
      /\ queue \in Seq(1..MaxLines) /\ pushed = popped \o queue
      /\ popped # <<>> /\ delivered = SubSeq(popped, 1, Len(popped) - 1)
  BY <1>1 DEF IInv, Types, Q!TypeOK, TransferInv, NothingLostOrReordered
<1>4. /\ Len(popped) \in Nat \ {0} /\ Len(pushed) \in Nat
      /\ Len(popped) <= Len(pushed)
      /\ pushed[Len(popped)] = popped[Len(popped)]
  <2>1. Len(popped) \in Nat \ {0} /\ Len(queue) \in Nat
    BY <1>3, EmptySeq, LenProperties
  <2>2. /\ Len(pushed) = Len(popped) + Len(queue)
        /\ pushed[Len(popped)] = popped[Len(popped)]
    BY <1>3, <2>1, ConcatProperties
  <2>3. QED
    BY <2>1, <2>2
<1>5. Len(delivered) + 1 = Len(popped) /\ Len(delivered) \in Nat
  <2>1. Append(delivered, popped[Len(popped)]) = popped
    BY <1>3, AppendToFront
  <2>2. delivered \in Seq(1..MaxLines)
    BY DEF IInv, Types, OwnTypes
  <2>3. QED
    BY <2>1, <2>2, AppendLength, LenProperties
<1>6. ~unreadable
  <2>1. ASSUME unreadable PROVE FALSE
    <3>1. linesRead = 0
      BY <2>1 DEF UnreadInv
    <3>2. Len(pushed) <= 0
      BY <3>1, LengthsCompare
    <3>3. QED
      BY <1>4, <3>2
  <2>2. QED
    BY <2>1
<1>7. /\ Len(delivered) < Len(ReplayFeed)
      /\ popped[Len(popped)] = ReplayFeed[Len(delivered) + 1]
  <2>1. /\ Len(ReplayFeed) \in Nat /\ Len(pushed) <= Len(ReplayFeed)
        /\ \A i \in 1..Len(pushed) : pushed[i] = ReplayFeed[i]
    BY <1>6, PushedBeginsFeed, LenProperties
  <2>2. Len(popped) \in 1..Len(pushed)
    BY <1>4
  <2>3. QED
    BY <1>4, <1>5, <2>1, <2>2
<1>8. ReplayFeed' = ReplayFeed
  BY <1>1 DEF ReplayFeed, DecodableLines, Decodable
<1>9. ReplayPhase = "open" /\ ReplayPhase' = "open"
  BY <1>1, <1>2 DEF ReplayPhase
<1>10. QED
  BY <1>1, <1>7, <1>8, <1>9 DEF Replay!Deliver

(* Join returns when everything has been delivered.                        *)
LEMMA JoinHasDelivered ==
  ASSUME IInv, UnreadInv, mainPc = "joinEgress", egressPc = "ended"
  PROVE  delivered = ReplayFeed
<1>1. ingestPc = "ended" /\ ~ingestStop
  BY DEF IInv, ControlInv, JoinInv, StopInv, IngestEnded
<1>2. delivered = pushed
  <2>1. queue = <<>> /\ popped \in Seq(1..MaxLines)
    BY <1>1 DEF IInv, ControlInv, StrandInv, Types, Q!TypeOK
  <2>2. popped \o <<>> = popped
    BY <2>1, ConcatEmptySeq
  <2>3. QED
    BY <2>1, <2>2 DEF IInv, TransferInv, NothingLostOrReordered
<1>3. CASE unreadable
  <2>1. Len(pushed) <= 0 /\ Len(pushed) \in Nat
    <3>1. linesRead = 0
      BY <1>3 DEF UnreadInv
    <3>2. QED
      BY <3>1, LengthsCompare
  <2>2. pushed = <<>>
    BY <2>1, EmptySeq DEF IInv, Types, Q!TypeOK
  <2>3. QED
    BY <1>2, <1>3, <2>2 DEF ReplayFeed
<1>4. CASE ~unreadable
  <2>1. Parsed = Len(lines)
    BY <1>1, <1>4 DEF IInv, ControlInv, StartInv, Parsed
  <2>2. QED
    BY <1>2, <1>4, <2>1, PushedBeginsFeed
<1>5. QED
  BY <1>3, <1>4

(* Every step of the engine is one of a Replay, or changes nothing there.  *)
LEMMA ReplayStep ==
  IInv /\ UnreadInv /\ [Next]_vars => [Replay!Next]_(Replay!vars)
<1> SUFFICES ASSUME IInv, UnreadInv, [Next]_vars
             PROVE  [Replay!Next]_(Replay!vars)
  OBVIOUS
<1> DEFINE same == UNCHANGED <<lines, unreadable, delivered>>
<1>1. ASSUME same PROVE ReplayFeed' = ReplayFeed /\ delivered' = delivered
  BY <1>1 DEF ReplayFeed, DecodableLines, Decodable
<1>2. ASSUME same, ReplayPhase' = ReplayPhase
      PROVE  UNCHANGED Replay!vars
  BY <1>1, <1>2 DEF Replay!vars
<1>3. CASE Callback
  BY <1>3, CallbackDelivers DEF Replay!Next
<1>4. CASE OpenFails
  <2>1. /\ ingestPc = "open" /\ linesRead = 0
        /\ unreadable' = TRUE /\ delivered' = delivered /\ mainPc' = mainPc
    BY <1>4 DEF OpenFails, IngestAt, IInv, ControlInv, StartInv
  <2>2. mainPc \notin {"joined", "gone"}
    BY <2>1 DEF IInv, ControlInv, JoinInv, ReapInv, IngestEnded
  <2>3. delivered = <<>>
    <3>1. Len(delivered) <= 0 /\ Len(delivered) \in Nat
      BY <2>1, LengthsCompare
    <3>2. QED
      BY <3>1, EmptySeq DEF IInv, Types, OwnTypes
  <2>4. ReplayFeed' = <<>> /\ ReplayPhase = "open" /\ ReplayPhase' = "open"
    BY <2>1, <2>2 DEF ReplayFeed, ReplayPhase
  <2>5. Replay!SourceUnreadable
    BY <2>1, <2>3, <2>4 DEF Replay!SourceUnreadable
  <2>6. QED
    BY <2>5 DEF Replay!Next
<1>5. CASE JoinEgress
  <2>1. /\ mainPc = "joinEgress" /\ mainPc' = "joined" /\ egressPc = "ended"
        /\ same
    BY <1>5 DEF JoinEgress, MainAt, sourceVars
  <2>2. delivered = ReplayFeed
    BY <2>1, JoinHasDelivered
  <2>3. ReplayPhase = "open" /\ ReplayPhase' = "joined"
    BY <2>1 DEF ReplayPhase
  <2>4. QED
    BY <1>1, <2>1, <2>2, <2>3 DEF Replay!Next, Replay!JoinReturns
<1>6. CASE CallJoin \/ CallDestructor
  <2>1. /\ mainPc \in {"running", "joined"}
        /\ mainPc' \in {"joinIngest", "stopIngest"}
        /\ same
    BY <1>6 DEF CallJoin, CallDestructor, MainAt, sourceVars
  <2>2. CASE mainPc = "running"
    <3>1. ReplayPhase' = ReplayPhase
      BY <2>1, <2>2 DEF ReplayPhase
    <3>2. QED
      BY <1>2, <2>1, <3>1
  <2>3. CASE mainPc = "joined"
    <3>1. ReplayPhase = "joined" /\ ReplayPhase' = "open"
      BY <2>1, <2>3 DEF ReplayPhase
    <3>2. QED
      BY <1>1, <2>1, <3>1 DEF Replay!Next, Replay!CallAgain
  <2>4. QED
    BY <2>1, <2>2, <2>3
<1>7. CASE Reject \/ UnwindReapEgress \/ ReapEgress
  <2>1. /\ mainPc \in {"constructing", "unwindReap", "reapEgress"}
        /\ mainPc' = "gone" /\ same
    BY <1>7 DEF Reject, UnwindReapEgress, ReapEgress, MainAt, sourceVars
  <2>2. ReplayPhase = "open" /\ ReplayPhase' = "gone"
    BY <2>1 DEF ReplayPhase
  <2>3. QED
    BY <1>1, <2>1, <2>2 DEF Replay!Next, Replay!Destroyed
<1>8. CASE SpawnEgress \/ SpawnIngest \/ SpawnIngestFails
           \/ UnwindStopEgress \/ JoinIngest \/ JoinClose \/ StopIngest
           \/ DestroyClose \/ StopEgress \/ ReapIngest
  <2>1. /\ same /\ mainPc \notin {"joined", "gone"}
        /\ mainPc' \notin {"joined", "gone"}
    BY <1>8
    DEF SpawnEgress, SpawnIngest, SpawnIngestFails, UnwindStopEgress,
        JoinIngest, JoinClose, StopIngest, DestroyClose, StopEgress,
        ReapIngest, MainAt, sourceVars
  <2>2. ReplayPhase' = ReplayPhase
    BY <2>1 DEF ReplayPhase
  <2>3. QED
    BY <1>2, <2>1, <2>2
<1>9. ASSUME same, mainPc' = mainPc PROVE [Replay!Next]_(Replay!vars)
  <2>1. ReplayPhase' = ReplayPhase
    BY <1>9 DEF ReplayPhase
  <2>2. QED
    BY <1>2, <1>9, <2>1
<1>10. CASE OpenSource \/ ReadLine \/ LeaveLoop \/ ParseAndEmit \/ ParseFails
            \/ RecordSuccess \/ RecordTotal \/ IngestClose
  <2>1. same /\ mainPc' = mainPc
    BY <1>10
    DEF OpenSource, ReadLine, LeaveLoop, ParseAndEmit, ParseFails,
        RecordSuccess, RecordTotal, IngestClose, IngestAt, sourceVars
  <2>2. QED
    BY <1>9, <2>1
<1>11. CASE TakeMessage \/ LeaveEgress \/ CountDelivery \/ Block
            \/ WakeSpuriously \/ Notify("main") \/ Notify("ingest")
            \/ UNCHANGED vars
  <2>1. same /\ mainPc' = mainPc
    BY <1>11
    DEF TakeMessage, LeaveEgress, CountDelivery, Block, WakeSpuriously,
        Notify, EgressAt, sourceVars, vars
  <2>2. QED
    BY <1>9, <2>1
<1>12. QED
  BY <1>3, <1>4, <1>5, <1>6, <1>7, <1>8, <1>10, <1>11
  DEF Next, Rest, Construct, MainInCall, IngestStep, EgressStep

(* The engine implements the replay, fairness aside: whatever its three    *)
(* threads do, the callback is handed the decodable messages of the        *)
(* source, each once and in order, Join returns only after the last, and   *)
(* nothing is handed over afterwards.                                      *)
THEOREM ReplayImplemented == Spec => Replay!SafeSpec
<1>1. Init => UnreadInv /\ Replay!Init
  <2> SUFFICES ASSUME Init PROVE UnreadInv /\ Replay!Init
    OBVIOUS
  <2>1. ~unreadable /\ lines \in Sources /\ delivered = <<>>
        /\ mainPc = "constructing"
    BY DEF Init
  <2>2. ReplayFeed \in MessageSeqs
    BY <2>1, DecodableLinesAreListed DEF ReplayFeed
  <2>3. ReplayPhase = "open"
    BY <2>1 DEF ReplayPhase
  <2>4. QED
    BY <2>1, <2>2, <2>3 DEF Replay!Init, UnreadInv
<1>2. QED
  BY <1>1, InvariantHolds, UnreadStep, ReplayStep, PTL
  DEF Spec, Replay!SafeSpec

=============================================================================
