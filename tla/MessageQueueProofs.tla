------------------------- MODULE MessageQueueProofs -------------------------
(***************************************************************************)
(* Theorems about MessageQueue, for any number of threads, consumers and   *)
(* messages.                                                               *)
(***************************************************************************)
EXTENDS MessageQueue, TLAPS

(* A consumer that has left the loop is not asleep.                        *)
GoneIsAwake == asleep \cap exited = {}

(* The inductive invariant: the three named parts of the runs, and what    *)
(* makes them inductive.                                                   *)
IInv == TypeOK /\ GoneIsAwake /\ EndIsAnnounced /\ NoLostWakeup

(* The initial state has no message and no sleeper.                        *)
LEMMA InitHolds == Init => IInv
<1> SUFFICES ASSUME Init PROVE IInv
  OBVIOUS
<1>1. TypeOK
  <2>1. <<>> \in Seq(Messages)
    OBVIOUS
  <2>2. QED
    BY <2>1 DEF Init, TypeOK, Signals
<1>2. GoneIsAwake /\ EndIsAnnounced /\ NoLostWakeup
  BY DEF Init, GoneIsAwake, EndIsAnnounced, NoLostWakeup
<1>3. QED
  BY <1>1, <1>2 DEF IInv

(* Every step keeps the types.                                             *)
LEMMA TypeStep == TypeOK /\ [Next]_vars => TypeOK'
<1> SUFFICES ASSUME TypeOK, [Next]_vars PROVE TypeOK'
  OBVIOUS
<1> USE DEF TypeOK, Signals
<1>1. ASSUME NEW t \in Threads, NEW m \in Messages, Push(t, m)
      PROVE  TypeOK'
  BY <1>1 DEF Push
<1>2. ASSUME NEW t \in Threads, Close(t) PROVE TypeOK'
  BY <1>2 DEF Close
<1>3. ASSUME NEW t \in Threads, NEW c \in Consumers, RequestStop(t, c)
      PROVE  TypeOK'
  BY <1>3 DEF RequestStop
<1>4. ASSUME NEW t \in Threads, NotifyOne(t) PROVE TypeOK'
  BY <1>4 DEF NotifyOne
<1>5. ASSUME NEW t \in Threads, NotifyAll(t) PROVE TypeOK'
  BY <1>5 DEF NotifyAll
<1>6. ASSUME NEW c \in Consumers, Take(c) PROVE TypeOK'
  BY <1>6 DEF Take
<1>7. ASSUME NEW c \in Consumers, ReturnNull(c) PROVE TypeOK'
  BY <1>7 DEF ReturnNull
<1>8. ASSUME NEW c \in Consumers, Sleep(c) PROVE TypeOK'
  BY <1>8 DEF Sleep
<1>9. ASSUME NEW c \in Consumers, WakeSpuriously(c) PROVE TypeOK'
  BY <1>9 DEF WakeSpuriously
<1>10. CASE UNCHANGED vars
  BY <1>10 DEF vars
<1>11. QED
  BY <1>1, <1>2, <1>3, <1>4, <1>5, <1>6, <1>7, <1>8, <1>9, <1>10
  DEF Next, ThreadStep, ConsumerStep

(* Every step keeps the wakeups accounted for: whoever makes a sleeper's   *)
(* condition true owes a notification, and whoever discharges one leaves   *)
(* a consumer awake or nothing to be awake for.                            *)
LEMMA WakeupStep ==
  IInv /\ [Next]_vars => (GoneIsAwake /\ EndIsAnnounced /\ NoLostWakeup)'
<1> SUFFICES ASSUME IInv, [Next]_vars
             PROVE  (GoneIsAwake /\ EndIsAnnounced /\ NoLostWakeup)'
  OBVIOUS
<1> USE DEF IInv, TypeOK, Signals, GoneIsAwake, EndIsAnnounced, NoLostWakeup,
            WakeAllPending, WakePending, Running
<1>1. ASSUME NEW t \in Threads, NEW m \in Messages, Push(t, m)
      PROVE  (GoneIsAwake /\ EndIsAnnounced /\ NoLostWakeup)'
  BY <1>1 DEF Push
<1>2. ASSUME NEW t \in Threads, Close(t)
      PROVE  (GoneIsAwake /\ EndIsAnnounced /\ NoLostWakeup)'
  BY <1>2 DEF Close
<1>3. ASSUME NEW t \in Threads, NEW c \in Consumers, RequestStop(t, c)
      PROVE  (GoneIsAwake /\ EndIsAnnounced /\ NoLostWakeup)'
  BY <1>3 DEF RequestStop
<1>4. ASSUME NEW t \in Threads, NotifyOne(t)
      PROVE  (GoneIsAwake /\ EndIsAnnounced /\ NoLostWakeup)'
  BY <1>4 DEF NotifyOne
<1>5. ASSUME NEW t \in Threads, NotifyAll(t)
      PROVE  (GoneIsAwake /\ EndIsAnnounced /\ NoLostWakeup)'
  BY <1>5 DEF NotifyAll
<1>6. ASSUME NEW c \in Consumers, Take(c)
      PROVE  (GoneIsAwake /\ EndIsAnnounced /\ NoLostWakeup)'
  BY <1>6 DEF Take
<1>7. ASSUME NEW c \in Consumers, ReturnNull(c)
      PROVE  (GoneIsAwake /\ EndIsAnnounced /\ NoLostWakeup)'
  BY <1>7 DEF ReturnNull
<1>8. ASSUME NEW c \in Consumers, Sleep(c)
      PROVE  (GoneIsAwake /\ EndIsAnnounced /\ NoLostWakeup)'
  BY <1>8 DEF Sleep
<1>9. ASSUME NEW c \in Consumers, WakeSpuriously(c)
      PROVE  (GoneIsAwake /\ EndIsAnnounced /\ NoLostWakeup)'
  BY <1>9 DEF WakeSpuriously
<1>10. CASE UNCHANGED vars
  BY <1>10 DEF vars
<1>11. QED
  BY <1>1, <1>2, <1>3, <1>4, <1>5, <1>6, <1>7, <1>8, <1>9, <1>10
  DEF Next, ThreadStep, ConsumerStep

(* The invariant holds in every reachable state.                           *)
THEOREM InvariantHolds == Spec => []IInv
<1>1. IInv /\ [Next]_vars => IInv'
  BY TypeStep, WakeupStep DEF IInv
<1>2. QED
  BY InitHolds, <1>1, PTL DEF Spec

(* Every variable of the queue stays in its type.                          *)
THEOREM TypesHold == Spec => []TypeOK
<1>1. IInv => TypeOK
  BY DEF IInv
<1>2. QED
  BY InvariantHolds, <1>1, PTL

(* No consumer sleeps through a Close or a request_stop.                   *)
THEOREM EndsAreAnnounced == Spec => []EndIsAnnounced
<1>1. IInv => EndIsAnnounced
  BY DEF IInv
<1>2. QED
  BY InvariantHolds, <1>1, PTL

(* No wakeup is lost although Push notifies outside the mutex.             *)
THEOREM NoWakeupIsLost == Spec => []NoLostWakeup
<1>1. IInv => NoLostWakeup
  BY DEF IInv
<1>2. QED
  BY InvariantHolds, <1>1, PTL

-----------------------------------------------------------------------------
(* The hand-off.                                                           *)

(* What was pushed is what was popped, followed by what is queued.         *)
HandoffInv == pushed = popped \o queue

(* Pushing at the end of the second of two sequences.                      *)
LEMMA ConcatAppend ==
  ASSUME NEW S, NEW p \in Seq(S), NEW q \in Seq(S), NEW m \in S
  PROVE  p \o Append(q, m) = Append(p \o q, m)
OBVIOUS

(* Moving the head of the second of two sequences to the first.            *)
LEMMA ConcatHeadTail ==
  ASSUME NEW S, NEW p \in Seq(S), NEW q \in Seq(S), q # <<>>
  PROVE  p \o q = Append(p, Head(q)) \o Tail(q)
OBVIOUS

(* The head of the second of two sequences, seen from the first.           *)
LEMMA ConcatNext ==
  ASSUME NEW S, NEW p \in Seq(S), NEW q \in Seq(S), q # <<>>
  PROVE  /\ Len(p) < Len(p \o q)
         /\ (p \o q)[Len(p) + 1] = Head(q)
OBVIOUS

(* A push keeps the hand-off and is a Send; a pop keeps it and is a        *)
(* Receive; every other step leaves both histories alone.                  *)
LEMMA HandoffStep ==
  TypeOK /\ HandoffInv /\ [Next]_vars
    => HandoffInv' /\ [Handoff!Next]_Handoff!vars
<1> SUFFICES ASSUME TypeOK, HandoffInv, [Next]_vars
             PROVE  HandoffInv' /\ [Handoff!Next]_Handoff!vars
  OBVIOUS
<1> USE DEF TypeOK, HandoffInv
<1>1. ASSUME NEW t \in Threads, NEW m \in Messages, Push(t, m)
      PROVE  HandoffInv' /\ [Handoff!Next]_Handoff!vars
  <2>1. Handoff!Send(m)
    BY <1>1 DEF Push, Handoff!Send
  <2>2. popped \o Append(queue, m) = Append(popped \o queue, m)
    BY ConcatAppend
  <2>3. HandoffInv'
    BY <1>1, <2>2 DEF Push
  <2>4. QED
    BY <2>1, <2>3 DEF Handoff!Next
<1>2. ASSUME NEW c \in Consumers, Take(c)
      PROVE  HandoffInv' /\ [Handoff!Next]_Handoff!vars
  <2>1. Handoff!Receive
    BY <1>2, ConcatNext DEF Take, Handoff!Receive
  <2>2. HandoffInv'
    BY <1>2, ConcatHeadTail DEF Take
  <2>3. QED
    BY <2>1, <2>2 DEF Handoff!Next
<1>3. ASSUME UNCHANGED <<queue, pushed, popped>>
      PROVE  HandoffInv' /\ [Handoff!Next]_Handoff!vars
  BY <1>3 DEF Handoff!vars
<1>4. QED
  BY <1>1, <1>2, <1>3
  DEF Next, ThreadStep, ConsumerStep, vars, Close, RequestStop, NotifyOne,
      NotifyAll, ReturnNull, Sleep, WakeSpuriously

(* The queue implements the hand-off: whatever the threads do, what the    *)
(* consumers have received is, in order and without gap or repetition, a   *)
(* prefix of what was sent.                                                *)
THEOREM HandoffImplemented == Spec => ImplementsHandoff
<1>1. Init => HandoffInv /\ Handoff!Init
  <2>1. <<>> = <<>> \o <<>>
    OBVIOUS
  <2>2. QED
    BY <2>1 DEF Init, HandoffInv, Handoff!Init
<1>2. QED
  BY <1>1, TypesHold, HandoffStep, PTL DEF Spec, ImplementsHandoff, Handoff!Spec

=============================================================================
