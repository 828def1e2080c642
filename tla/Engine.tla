------------------------------- MODULE Engine -------------------------------
(***************************************************************************)
(* mde::Engine (src/engine.cpp): the owner thread ("main"), the Ingest     *)
(* thread that turns the lines of a source into messages, and the Egress   *)
(* thread that hands the messages to the user's callback, around one       *)
(* MessageQueue.  The queue's own steps are those of MessageQueue.tla,     *)
(* with main and Ingest as its threads and Egress as its one consumer.     *)
(*                                                                         *)
(* A message is named by the number of the line it was decoded from.  What *)
(* ParseNext makes of each line is chosen in the initial state.            *)
(***************************************************************************)
EXTENDS Naturals, Sequences, FiniteSets

CONSTANT MaxLines            (* bound on the number of lines of the source *)

ASSUME MaxLinesAssumption == MaxLines \in Nat

VARIABLES
  \* the MessageQueue and its history
  queue, closed, stopped, asleep, signal, exited, pushed, popped,
  \* the source
  lines,        (* lines[k] is what ParseNext returns for line k           *)
  linesRead,    (* how many lines the ingest loop has fetched              *)
  unreadable,   (* the file could not be opened                            *)
  \* the threads
  mainPc, ingestPc, egressPc,
  ingestStop,   (* the stop token of the Ingest thread is signalled        *)
  \* the counters, and what the callback was handed
  success, total, egressCount, delivered

Q == INSTANCE MessageQueue WITH
       Threads <- {"main", "ingest"}, Consumers <- {"egress"},
       Messages <- 1..MaxLines, MaxPushes <- MaxLines

queueVars == <<queue, closed, stopped, asleep, signal, exited, pushed, popped>>
sourceVars == <<lines, linesRead, unreadable>>
counters == <<success, total, egressCount>>
vars == <<queueVars, sourceVars, mainPc, ingestPc, egressPc, ingestStop,
          counters, delivered>>

ParseErrors == {"none", "unknown_msg_type", "message_decode",
                "unknown"}
Sources == UNION {[1..n -> ParseErrors] : n \in 0..MaxLines}

MainPcs == {"constructing", "spawnIngest", "running",
            "joinIngest", "joinClose", "joinEgress", "joined",
            "stopIngest", "destroyClose", "stopEgress", "reapIngest",
            "reapEgress", "unwind", "unwindReap", "gone"}

TypeOK ==
  /\ Q!TypeOK
  /\ lines \in Sources
  /\ linesRead \in 0..Len(lines)
  /\ unreadable \in BOOLEAN
  /\ mainPc \in MainPcs
  /\ ingestPc \in {"unstarted", "open", "loop", "parse", "success",
                   "total", "close", "ended"}
  /\ egressPc \in {"unstarted", "wait", "callback", "count", "ended"}
  /\ ingestStop \in BOOLEAN
  /\ success \in 0..MaxLines
  /\ total \in 0..MaxLines
  /\ egressCount \in 0..MaxLines
  /\ delivered \in Seq(1..MaxLines)

Init ==
  /\ Q!Init
  /\ lines \in Sources
  /\ linesRead = 0
  /\ unreadable = FALSE
  /\ mainPc = "constructing"
  /\ ingestPc = "unstarted"
  /\ egressPc = "unstarted"
  /\ ingestStop = FALSE
  /\ success = 0 /\ total = 0 /\ egressCount = 0
  /\ delivered = <<>>

(* A thread that has released the mutex still owes its notification: the   *)
(* call of Push, Close or request_stop it is in has not returned.          *)
Returned(t) == signal[t] = "none"

(* Thread t's next step: leave program counter from, guarded as above.     *)
MainAt(from, to) ==
  /\ mainPc = from
  /\ Returned("main")
  /\ mainPc' = to
  /\ UNCHANGED <<sourceVars, ingestPc, egressPc, counters, delivered>>

IngestAt(from, to) ==
  /\ ingestPc = from
  /\ Returned("ingest")
  /\ ingestPc' = to
  /\ UNCHANGED <<mainPc, egressPc, ingestStop, egressCount, delivered>>

EgressAt(from, to) ==
  /\ egressPc = from
  /\ egressPc' = to
  /\ UNCHANGED <<sourceVars, mainPc, ingestPc, ingestStop, success, total>>

IngestEnded == ingestPc = "ended" /\ Returned("ingest")

-----------------------------------------------------------------------------
(* The constructors.  Egress is started before Ingest.                     *)

(* The type of the data or the path is refused, or there is no processor,  *)
(* or no Egress thread can be had: the constructor throws.                 *)
Reject ==
  /\ MainAt("constructing", "gone")
  /\ UNCHANGED <<queueVars, ingestStop>>

SpawnEgress ==
  /\ mainPc = "constructing"
  /\ mainPc' = "spawnIngest"
  /\ egressPc' = "wait"
  /\ UNCHANGED <<queueVars, sourceVars, ingestPc, ingestStop, counters,
                 delivered>>

SpawnIngest ==
  /\ mainPc = "spawnIngest"
  /\ mainPc' = "running"
  /\ ingestPc' = "open"
  /\ UNCHANGED <<queueVars, sourceVars, egressPc, ingestStop, counters,
                 delivered>>

(* No Ingest thread can be had: the jthread member of Egress is destroyed  *)
(* while the exception leaves the constructor.  ~Engine does not run, so   *)
(* the queue is not closed: only the stop token ends the Egress thread.    *)
SpawnIngestFails ==
  /\ MainAt("spawnIngest", "unwind")
  /\ UNCHANGED <<queueVars, ingestStop>>

(* Mutant: the thread is joined without being told to stop.                *)
UnwindWithoutStop ==
  /\ MainAt("unwind", "unwindReap")
  /\ UNCHANGED <<queueVars, ingestStop>>

UnwindStopEgress ==
  /\ MainAt("unwind", "unwindReap")
  /\ Q!RequestStop("main", "egress")
  /\ UNCHANGED ingestStop

UnwindReapEgress ==
  /\ MainAt("unwindReap", "gone")
  /\ egressPc = "ended"
  /\ UNCHANGED <<queueVars, ingestStop>>

-----------------------------------------------------------------------------
(* Join                                                                    *)

CallJoin ==
  /\ mainPc \in {"running", "joined"}
  /\ MainAt(mainPc, "joinIngest")
  /\ UNCHANGED <<queueVars, ingestStop>>

(* Mutant: the queue is closed without waiting for Ingest.                 *)
JoinWithoutIngest ==
  /\ MainAt("joinIngest", "joinClose")
  /\ UNCHANGED <<queueVars, ingestStop>>

JoinIngest ==
  /\ MainAt("joinIngest", "joinClose")
  /\ IngestEnded
  /\ UNCHANGED <<queueVars, ingestStop>>

JoinClose ==
  /\ MainAt("joinClose", "joinEgress")
  /\ Q!Close("main")
  /\ UNCHANGED ingestStop

(* Mutant: Join returns without waiting for Egress.                        *)
JoinNobody ==
  /\ MainAt("joinEgress", "joined")
  /\ UNCHANGED <<queueVars, ingestStop>>

JoinEgress ==
  /\ MainAt("joinEgress", "joined")
  /\ egressPc = "ended"
  /\ UNCHANGED <<queueVars, ingestStop>>

-----------------------------------------------------------------------------
(* ~Engine, then the jthread members: _ingestThread is declared last and   *)
(* is joined first.                                                        *)

CallDestructor ==
  /\ mainPc \in {"running", "joined"}
  /\ MainAt(mainPc, "stopIngest")
  /\ UNCHANGED <<queueVars, ingestStop>>

(* Mutant: ~Engine forgets to stop Ingest before it closes the queue.      *)
DestroyWithoutStop ==
  /\ MainAt("stopIngest", "destroyClose")
  /\ UNCHANGED <<queueVars, ingestStop>>

StopIngest ==
  /\ MainAt("stopIngest", "destroyClose")
  /\ ingestStop' = TRUE
  /\ UNCHANGED queueVars

DestroyClose ==
  /\ MainAt("destroyClose", "stopEgress")
  /\ Q!Close("main")
  /\ UNCHANGED ingestStop

StopEgress ==
  /\ MainAt("stopEgress", "reapIngest")
  /\ Q!RequestStop("main", "egress")
  /\ UNCHANGED ingestStop

(* Mutant: the Ingest thread is detached.                                  *)
ReapNobody ==
  /\ MainAt("reapIngest", "reapEgress")
  /\ UNCHANGED <<queueVars, ingestStop>>

ReapIngest ==
  /\ MainAt("reapIngest", "reapEgress")
  /\ IngestEnded
  /\ UNCHANGED <<queueVars, ingestStop>>

ReapEgress ==
  /\ MainAt("reapEgress", "gone")
  /\ egressPc = "ended"
  /\ UNCHANGED <<queueVars, ingestStop>>

-----------------------------------------------------------------------------
(* IngestLoopFromFile and IngestLoopFromVector.  The latter never fails to *)
(* open its source.                                                        *)

OpenSource ==
  /\ IngestAt("open", "loop")
  /\ UNCHANGED <<queueVars, sourceVars, success, total>>

(* The file has gone since the constructor saw it, or cannot be read: the  *)
(* queue is closed and the thread ends.                                    *)
OpenFails ==
  /\ IngestAt("open", "ended")
  /\ unreadable' = TRUE
  /\ Q!Close("ingest")
  /\ UNCHANGED <<lines, linesRead, success, total>>

ReadLine ==
  /\ IngestAt("loop", "parse")
  /\ ~ingestStop
  /\ linesRead < Len(lines)
  /\ linesRead' = linesRead + 1
  /\ UNCHANGED <<queueVars, lines, unreadable, success, total>>

LeaveLoop ==
  /\ IngestAt("loop", "close")
  /\ ingestStop \/ linesRead = Len(lines)
  /\ UNCHANGED <<queueVars, sourceVars, success, total>>

(* ParseNext decodes the line, and Emit pushes the message.                *)
ParseAndEmit ==
  /\ IngestAt("parse", "success")
  /\ lines[linesRead] = "none"
  /\ Q!Push("ingest", linesRead)
  /\ UNCHANGED <<sourceVars, success, total>>

(* Mutant: a line that fails to decode is given to Egress all the same.    *)
EmitGarbage ==
  /\ IngestAt("parse", "total")
  /\ lines[linesRead] # "none"
  /\ Q!Push("ingest", linesRead)
  /\ UNCHANGED <<sourceVars, success, total>>

ParseFails ==
  /\ IngestAt("parse", "total")
  /\ lines[linesRead] # "none"
  /\ UNCHANGED <<queueVars, sourceVars, success, total>>

(* RecordParseResult: two atomic counters, bumped one after the other.     *)
RecordSuccess ==
  /\ IngestAt("success", "total")
  /\ success' = success + 1
  /\ UNCHANGED <<queueVars, sourceVars, total>>

(* Mutant: every line read is counted as a success.                        *)
RecordTotalAsSuccess ==
  /\ IngestAt("total", "loop")
  /\ total' = total + 1
  /\ success' = total + 1
  /\ UNCHANGED <<queueVars, sourceVars>>

RecordTotal ==
  /\ IngestAt("total", "loop")
  /\ total' = total + 1
  /\ UNCHANGED <<queueVars, sourceVars, success>>

(* Mutant: Ingest leaves the queue open.                                   *)
EndWithoutClose ==
  /\ IngestAt("close", "ended")
  /\ UNCHANGED <<queueVars, sourceVars, success, total>>

IngestClose ==
  /\ IngestAt("close", "ended")
  /\ Q!Close("ingest")
  /\ UNCHANGED <<sourceVars, success, total>>

-----------------------------------------------------------------------------
(* EgressLoop                                                              *)

TakeMessage ==
  /\ EgressAt("wait", "callback")
  /\ Q!Take("egress")
  /\ UNCHANGED <<egressCount, delivered>>

Block ==
  /\ EgressAt("wait", "wait")
  /\ Q!Sleep("egress")
  /\ UNCHANGED <<egressCount, delivered>>

LeaveEgress ==
  /\ EgressAt("wait", "ended")
  /\ Q!ReturnNull("egress")
  /\ UNCHANGED <<egressCount, delivered>>

Callback ==
  /\ EgressAt("callback", "count")
  /\ delivered' = Append(delivered, popped[Len(popped)])
  /\ UNCHANGED <<queueVars, egressCount>>

(* Mutant: a delivery is counted before and after the callback.            *)
CountTwice ==
  /\ EgressAt("count", "wait")
  /\ egressCount' = egressCount + 2
  /\ UNCHANGED <<queueVars, delivered>>

CountDelivery ==
  /\ EgressAt("count", "wait")
  /\ egressCount' = egressCount + 1
  /\ UNCHANGED <<queueVars, delivered>>

-----------------------------------------------------------------------------
(* The notifications still owed, and spurious wakeups.                     *)
Notify(t) ==
  /\ Q!NotifyOne(t) \/ Q!NotifyAll(t)
  /\ UNCHANGED <<sourceVars, mainPc, ingestPc, egressPc, ingestStop,
                 counters, delivered>>

WakeSpuriously ==
  /\ Q!WakeSpuriously("egress")
  /\ UNCHANGED <<sourceVars, mainPc, ingestPc, egressPc, ingestStop,
                 counters, delivered>>

Construct == Reject \/ SpawnEgress \/ SpawnIngest \/ SpawnIngestFails

(* Main is inside a member function, or leaving the constructor.           *)
MainInCall ==
  \/ UnwindStopEgress \/ UnwindReapEgress
  \/ JoinIngest \/ JoinClose \/ JoinEgress
  \/ StopIngest \/ DestroyClose \/ StopEgress \/ ReapIngest \/ ReapEgress

IngestStep ==
  \/ OpenSource \/ OpenFails \/ ReadLine \/ LeaveLoop
  \/ ParseAndEmit \/ ParseFails \/ RecordSuccess \/ RecordTotal
  \/ IngestClose

(* What Egress does when it is neither blocked nor about to block.         *)
EgressStep == TakeMessage \/ LeaveEgress \/ Callback \/ CountDelivery

(* The engine is gone: nothing is left to happen.                          *)
Rest == mainPc = "gone" /\ UNCHANGED vars

Next ==
  \/ Construct \/ CallJoin \/ CallDestructor \/ MainInCall
  \/ IngestStep
  \/ EgressStep \/ Block \/ WakeSpuriously
  \/ Notify("main") \/ Notify("ingest")
  \/ Rest

(* A call in progress and both loops go on as long as they can; the user   *)
(* need not call Join nor ever destroy the engine.                         *)
Fairness ==
  /\ WF_vars(MainInCall) /\ WF_vars(Construct)
  /\ WF_vars(IngestStep)
  /\ WF_vars(EgressStep)
  /\ WF_vars(Notify("main")) /\ WF_vars(Notify("ingest"))

Spec == Init /\ [][Next]_vars

FairSpec == Spec /\ Fairness

-----------------------------------------------------------------------------
Decodable(n) == {k \in 1..n : lines[k] = "none"}

(* The lines whose message, if any, has been pushed.                       *)
Parsed == IF ingestPc = "parse" THEN linesRead - 1 ELSE linesRead

Increasing(s) == \A i, j \in 1..Len(s) : i < j => s[i] < s[j]
Elements(s) == {s[i] : i \in 1..Len(s)}

(* Between ParseNext and the callback no message is lost, repeated,        *)
(* reordered or made up: the pushed ones are those of the decodable lines, *)
(* in the order of the lines, the queue holds the ones Egress has not      *)
(* taken, and the callback has had every taken one except for the one in   *)
(* Egress's hands.                                                         *)
NothingLostOrReordered ==
  /\ Increasing(pushed)
  /\ Elements(pushed) = Decodable(Parsed)
  /\ pushed = popped \o queue
  /\ delivered = IF egressPc = "callback"
                   THEN SubSeq(popped, 1, Len(popped) - 1) ELSE popped

(* The three counters, read at any instant by GetSuccess, GetTotal and     *)
(* GetEgressCount, account for every line: each is behind what it counts   *)
(* by exactly the event whose thread has not bumped it yet.                *)
CountersAccountForEveryLine ==
  /\ success + (IF ingestPc = "success" THEN 1 ELSE 0)
       = Cardinality(Decodable(Parsed))
  /\ total + (IF ingestPc \in {"parse", "success", "total"} THEN 1 ELSE 0)
       = linesRead
  /\ egressCount + (IF egressPc = "count" THEN 1 ELSE 0) = Len(delivered)
  /\ egressCount <= success + 1

(* "Blocks until the Ingest thread has consumed all input and the Egress   *)
(* thread has drained the queue behind it": once Join has returned both    *)
(* have ended, so that nobody updates the parser's metrics while they are  *)
(* read, every line is counted and every decodable one was handed to the   *)
(* callback.                                                               *)
JoinMeansDrained ==
  mainPc = "joined" =>
    /\ ingestPc = "ended" /\ egressPc = "ended"
    /\ queue = <<>>
    /\ ~unreadable =>
         /\ total = Len(lines)
         /\ Elements(delivered) = Decodable(Len(lines))
         /\ egressCount = success
         /\ success = Cardinality(Decodable(Len(lines)))

(* An engine destroyed while it runs leaves at most one message in the     *)
(* queue, the one Ingest was decoding when the queue was closed behind its *)
(* back: ~Engine stops Ingest before it closes the queue.                  *)
DestructionStrandsAtMostOne == mainPc = "gone" => Len(queue) <= 1

(* Nothing runs in a destroyed engine: no thread is left inside a loop, in *)
(* the callback, or between an unlock and its notification on the          *)
(* condition variable that dies with the engine.                           *)
NobodyLeftInside ==
  mainPc = "gone" =>
    /\ ingestPc \in {"unstarted", "ended"}
    /\ egressPc \in {"unstarted", "ended"}
    /\ \A t \in {"main", "ingest"} : Returned(t)

(* A call of Join, the destructor and the unwinding of a constructor that  *)
(* failed half-way all come to an end, whatever the threads were doing     *)
(* when the call was made.                                                 *)
CallsReturn ==
  /\ mainPc = "joinIngest" ~> mainPc = "joined"
  /\ mainPc = "stopIngest" ~> mainPc = "gone"
  /\ mainPc = "unwind" ~> mainPc = "gone"

(* Egress winds down by itself behind an Ingest thread that has ended, be  *)
(* it at the end of the source, stopped, or unable to open its file: the   *)
(* queue it leaves is closed.                                              *)
EgressWindsDown == ingestPc = "ended" ~> egressPc = "ended"

(* What the engine is to its user: the messages of the source, handed over *)
(* once each and in order, all of them before Join returns and none after  *)
(* the destructor has, and every one of them in the end unless the engine  *)
(* is destroyed first.                                                     *)
MessageSeqs == UNION {[1..n -> 1..MaxLines] : n \in 0..MaxLines}

DecodableLines ==
  CHOOSE s \in MessageSeqs :
    Increasing(s) /\ Elements(s) = Decodable(Len(lines))

ReplayFeed == IF unreadable THEN <<>> ELSE DecodableLines
ReplayPhase == IF mainPc \in {"joined", "gone"} THEN mainPc ELSE "open"

Replay == INSTANCE Replay WITH
            Feeds <- MessageSeqs, feed <- ReplayFeed, phase <- ReplayPhase

ImplementsReplay == Replay!Spec

(* What the comment of Close says: a closed queue has finished accepting   *)
(* messages.                                                               *)
ClosedQueueAcceptsNothing == [][closed => pushed' = pushed]_vars

=============================================================================
