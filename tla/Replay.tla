------------------------------- MODULE Replay -------------------------------
(***************************************************************************)
(* What mde::Engine promises its user: the callback is handed the          *)
(* decodable messages of the source, each once and in the source's order;  *)
(* a Join that has returned means that all of them were handed over; and   *)
(* nothing is handed over once the engine is gone.  No thread, queue, lock *)
(* or line is visible here.  Engine.tla is shown to implement this module. *)
(***************************************************************************)
EXTENDS Naturals, Sequences

CONSTANT Feeds         (* the message sequences a source may hold          *)

VARIABLES
  feed,                (* the messages of the source                       *)
  delivered,           (* what the callback has been handed                *)
  phase                (* "open", "joined" (Join has returned) or "gone"   *)

vars == <<feed, delivered, phase>>

Init ==
  /\ feed \in Feeds
  /\ delivered = <<>>
  /\ phase = "open"

Deliver ==
  /\ phase = "open"
  /\ Len(delivered) < Len(feed)
  /\ delivered' = Append(delivered, feed[Len(delivered) + 1])
  /\ UNCHANGED <<feed, phase>>

(* The source turns out to be unreadable; an engine reports that in its    *)
(* log only and behaves as if the source were empty.                       *)
SourceUnreadable ==
  /\ phase = "open"
  /\ delivered = <<>>
  /\ feed' = <<>>
  /\ UNCHANGED <<delivered, phase>>

JoinReturns ==
  /\ phase = "open"
  /\ delivered = feed
  /\ phase' = "joined"
  /\ UNCHANGED <<feed, delivered>>

(* The owner of a joined engine calls it again.                            *)
CallAgain ==
  /\ phase = "joined"
  /\ phase' = "open"
  /\ UNCHANGED <<feed, delivered>>

(* Destroying an engine that was not joined abandons what is left.         *)
Destroyed ==
  /\ phase # "gone"
  /\ phase' = "gone"
  /\ UNCHANGED <<feed, delivered>>

Next == Deliver \/ SourceUnreadable \/ JoinReturns \/ CallAgain
          \/ Destroyed

SafeSpec == Init /\ [][Next]_vars

Spec == SafeSpec /\ WF_vars(Deliver)

=============================================================================
