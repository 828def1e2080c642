---------------------------- MODULE HandoffQueue ----------------------------
(***************************************************************************)
(* What mde::MessageQueue promises its two ends, with no thread, lock or   *)
(* condition variable in sight: what the consumers have received is, in    *)
(* order and without a gap or a repetition, a prefix of what the producers *)
(* have sent.  MessageQueue.tla is shown to implement this module.         *)
(***************************************************************************)
EXTENDS Naturals, Sequences

CONSTANT Messages      (* what a producer may send                         *)

VARIABLES
  sent,                (* every message accepted so far, in order          *)
  received             (* every message handed to a consumer, in order     *)

vars == <<sent, received>>

Init ==
  /\ sent = <<>>
  /\ received = <<>>

Send(m) ==
  /\ sent' = Append(sent, m)
  /\ UNCHANGED received

Receive ==
  /\ Len(received) < Len(sent)
  /\ received' = Append(received, sent[Len(received) + 1])
  /\ UNCHANGED sent

Next == Receive \/ \E m \in Messages : Send(m)

Spec == Init /\ [][Next]_vars

=============================================================================
