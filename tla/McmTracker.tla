----------------------------- MODULE McmTracker -----------------------------
(* McmTracker: an MPE Configuration Message that announces another number  *)
(* of member channels than the one before it reconfigures its zone, and a  *)
(* route with panic silences what sounds. A message is RPN 6 and its data  *)
(* entry together.                                                         *)
EXTENDS Integers

CONSTANTS
  PanicRoute,       \* route.panic
  Announced         \* the member counts a controller may announce

ASSUME TrackerAssumption == PanicRoute \in BOOLEAN /\ Announced \subseteq 0..15

NotAnnounced == -1

Reconfigures(announced, members) == announced # NotAnnounced /\ members # announced

ResetsZone(announced, members) == PanicRoute /\ Reconfigures(announced, members)

Announcement(channel, members) == [kind |-> "config", channel |-> channel, value |-> members]
=============================================================================
