---------------------------- MODULE MessageQueue ----------------------------
(***************************************************************************)
(* mde::MessageQueue (include/queue.hpp): the hand-off queue between the   *)
(* Ingest and the Egress thread, built from a mutex, a                     *)
(* condition_variable_any and the consumers' stop tokens.                  *)
(*                                                                         *)
(* Grain of atomicity.  Everything done under _mutex is one step.  The     *)
(* notify that Push and Close issue after they have released the mutex,    *)
(* and the notify_all that request_stop issues through the stop callback   *)
(* registered by _cv.wait, are steps of their own: between the update and  *)
(* its notification every other thread may run.                            *)
(*                                                                         *)
(* A consumer is in the loop `while (auto m = q.WaitPop(token))`, so it is *)
(* asleep inside _cv.wait, about to test the predicate, or gone.           *)
(***************************************************************************)
EXTENDS Naturals, Sequences

CONSTANTS
  Threads,      (* the threads that call Push, Close or request_stop       *)
  Consumers,    (* the threads that call WaitPop                           *)
  Messages,     (* what may be pushed                                      *)
  MaxPushes     (* bound on the number of pushes, for model checking       *)

ASSUME BoundAssumption == MaxPushes \in Nat

VARIABLES
  queue,        (* _queue                                                  *)
  closed,       (* _closed                                                 *)
  stopped,      (* the consumers whose stop token is signalled             *)
  asleep,       (* the consumers blocked inside _cv.wait                   *)
  signal,       (* the notification each thread still has to issue         *)
  exited,       (* the consumers whose WaitPop has returned std::nullopt   *)
  pushed,       (* history: every message pushed                           *)
  popped        (* history: every message returned by WaitPop              *)

vars == <<queue, closed, stopped, asleep, signal, exited, pushed, popped>>

Signals == {"none", "one", "all"}

TypeOK ==
  /\ queue \in Seq(Messages)
  /\ closed \in BOOLEAN
  /\ stopped \subseteq Consumers
  /\ asleep \subseteq Consumers
  /\ signal \in [Threads -> Signals]
  /\ exited \subseteq Consumers
  /\ pushed \in Seq(Messages)
  /\ popped \in Seq(Messages)

Init ==
  /\ queue = <<>>
  /\ closed = FALSE
  /\ stopped = {}
  /\ asleep = {}
  /\ signal = [t \in Threads |-> "none"]
  /\ exited = {}
  /\ pushed = <<>>
  /\ popped = <<>>

(* The consumers that will look at the queue again without being woken.    *)
Running == Consumers \ (asleep \cup exited)

-----------------------------------------------------------------------------
(* Push                                                                    *)

(* Mutant: Push forgets its notify_one.                                    *)
PushSilently(t, m) ==
  /\ signal[t] = "none"
  /\ queue' = Append(queue, m)
  /\ pushed' = Append(pushed, m)
  /\ UNCHANGED <<closed, stopped, asleep, signal, exited, popped>>

(* Mutant: the message lands at the front of the queue.                    *)
PushInFront(t, m) ==
  /\ signal[t] = "none"
  /\ queue' = <<m>> \o queue
  /\ pushed' = Append(pushed, m)
  /\ signal' = [signal EXCEPT ![t] = "one"]
  /\ UNCHANGED <<closed, stopped, asleep, exited, popped>>

(* Mutant: what is queued has been moved from already.                     *)
PushMovedFrom(t, m) ==
  /\ signal[t] = "none"
  /\ queue' = Append(queue, "moved-from")
  /\ pushed' = Append(pushed, m)
  /\ signal' = [signal EXCEPT ![t] = "one"]
  /\ UNCHANGED <<closed, stopped, asleep, exited, popped>>

(* The critical section of Push.  _closed is not looked at.                *)
Push(t, m) ==
  /\ signal[t] = "none"
  /\ queue' = Append(queue, m)
  /\ pushed' = Append(pushed, m)
  /\ signal' = [signal EXCEPT ![t] = "one"]
  /\ UNCHANGED <<closed, stopped, asleep, exited, popped>>

(* _cv.notify_one() with the mutex released: it wakes some sleeper, or     *)
(* nobody when there is none.                                              *)
NotifyOne(t) ==
  /\ signal[t] = "one"
  /\ signal' = [signal EXCEPT ![t] = "none"]
  /\ \/ asleep = {} /\ UNCHANGED asleep
     \/ \E c \in asleep : asleep' = asleep \ {c}
  /\ UNCHANGED <<queue, closed, stopped, exited, pushed, popped>>

-----------------------------------------------------------------------------
(* Close and request_stop                                                  *)

(* Mutant: Close wakes one consumer only.                                  *)
CloseForOne(t) ==
  /\ signal[t] = "none"
  /\ closed' = TRUE
  /\ signal' = [signal EXCEPT ![t] = "one"]
  /\ UNCHANGED <<queue, stopped, asleep, exited, pushed, popped>>

Close(t) ==
  /\ signal[t] = "none"
  /\ closed' = TRUE
  /\ signal' = [signal EXCEPT ![t] = "all"]
  /\ UNCHANGED <<queue, stopped, asleep, exited, pushed, popped>>

(* Mutant: the wait is not registered with the stop token.                 *)
RequestStopUnheard(t, c) ==
  /\ signal[t] = "none"
  /\ c \notin stopped
  /\ stopped' = stopped \cup {c}
  /\ UNCHANGED <<queue, closed, asleep, signal, exited, pushed, popped>>

(* jthread::request_stop on consumer c's thread: the stop state is set,    *)
(* then the callback registered by a _cv.wait in progress, if there is     *)
(* one, calls notify_all.  A consumer that is up may be on its way into    *)
(* the wait, with the callback registered, or not.                         *)
RequestStop(t, c) ==
  /\ signal[t] = "none"
  /\ c \notin stopped
  /\ stopped' = stopped \cup {c}
  /\ \/ signal' = [signal EXCEPT ![t] = "all"]
     \/ c \notin asleep /\ UNCHANGED signal
  /\ UNCHANGED <<queue, closed, asleep, exited, pushed, popped>>

NotifyAll(t) ==
  /\ signal[t] = "all"
  /\ signal' = [signal EXCEPT ![t] = "none"]
  /\ asleep' = {}
  /\ UNCHANGED <<queue, closed, stopped, exited, pushed, popped>>

-----------------------------------------------------------------------------
(* WaitPop: the predicate, the stop state and the queue are examined with  *)
(* the mutex held.  The value of _cv.wait is dropped, so that only the     *)
(* emptiness of the queue decides between a message and std::nullopt.      *)

Take(c) ==
  /\ c \in Running
  /\ queue # <<>>
  /\ queue' = Tail(queue)
  /\ popped' = Append(popped, Head(queue))
  /\ UNCHANGED <<closed, stopped, asleep, signal, exited, pushed>>

ReturnNull(c) ==
  /\ c \in Running
  /\ queue = <<>>
  /\ closed \/ c \in stopped
  /\ exited' = exited \cup {c}
  /\ UNCHANGED <<queue, closed, stopped, asleep, signal, pushed, popped>>

(* Mutant: the predicate of the wait is `!_queue.empty()` alone.           *)
SleepThroughClose(c) ==
  /\ c \in Running
  /\ queue = <<>>
  /\ c \notin stopped
  /\ asleep' = asleep \cup {c}
  /\ UNCHANGED <<queue, closed, stopped, signal, exited, pushed, popped>>

Sleep(c) ==
  /\ c \in Running
  /\ queue = <<>>
  /\ ~closed
  /\ c \notin stopped
  /\ asleep' = asleep \cup {c}
  /\ UNCHANGED <<queue, closed, stopped, signal, exited, pushed, popped>>

(* A condition variable may wake a thread nobody notified.                 *)
WakeSpuriously(c) ==
  /\ c \in asleep
  /\ asleep' = asleep \ {c}
  /\ UNCHANGED <<queue, closed, stopped, signal, exited, pushed, popped>>

-----------------------------------------------------------------------------
ThreadStep(t) ==
  \/ \E m \in Messages : Len(pushed) < MaxPushes /\ Push(t, m)
  \/ Close(t)
  \/ \E c \in Consumers : RequestStop(t, c)
  \/ NotifyOne(t)
  \/ NotifyAll(t)

ConsumerStep(c) == Take(c) \/ ReturnNull(c) \/ Sleep(c)

Next ==
  \/ \E t \in Threads : ThreadStep(t)
  \/ \E c \in Consumers : ConsumerStep(c) \/ WakeSpuriously(c)

Spec == Init /\ [][Next]_vars

(* A thread that has updated the queue goes on to its notification, and a  *)
(* consumer that is not blocked keeps calling WaitPop.  Nobody is obliged  *)
(* to push, to close or to stop anything.                                  *)
Fairness ==
  /\ \A t \in Threads : WF_vars(NotifyOne(t) \/ NotifyAll(t))
  /\ \A c \in Consumers : WF_vars(Take(c) \/ ReturnNull(c))

FairSpec == Spec /\ Fairness

-----------------------------------------------------------------------------
(* A thread has updated the queue and not yet issued its notify_all.       *)
WakeAllPending == \E t \in Threads : signal[t] = "all"

WakePending == \E t \in Threads : signal[t] # "none"

(* No consumer sleeps through the end: one that is blocked although the    *)
(* queue is closed, or its own stop token signalled, is about to be woken  *)
(* by a notify_all that some thread still owes (Close, request_stop).      *)
EndIsAnnounced ==
  \A c \in asleep : closed \/ c \in stopped => WakeAllPending

(* No lost wakeup: while a message is queued and a consumer sleeps, either *)
(* a notification is on its way or another consumer is up and will look at *)
(* the queue before it can block.  Push notifies outside the mutex, so     *)
(* this rests on the predicate being re-tested under the mutex.            *)
NoLostWakeup ==
  queue # <<>> /\ asleep # {} => WakePending \/ Running # {}

(* Push and WaitPop implement the hand-off promised by HandoffQueue.       *)
Handoff == INSTANCE HandoffQueue WITH sent <- pushed, received <- popped

ImplementsHandoff == Handoff!Spec

(* Close() lets every consumer drain the queue and leave its loop, and a   *)
(* signalled stop token gets its own consumer out of WaitPop, whether or   *)
(* not the queue was ever closed.                                          *)
EveryLoopEnds ==
  \A c \in Consumers : closed \/ c \in stopped ~> c \in exited

(* A queued message is always taken in the end, unless every consumer has  *)
(* left.                                                                   *)
QueueDrains == queue # <<>> ~> queue = <<>> \/ exited = Consumers

(* What the comment of WaitPop says of a signalled token: std::nullopt is  *)
(* returned.  Once every consumer is stopped no message is handed out.     *)
StopEndsDelivery == [][stopped = Consumers => popped' = popped]_vars

=============================================================================
