---------------------------- MODULE NoteMessages ----------------------------
(* The messages the note transforms tell apart, and what a transform sends *)
(* on for one of them: note-offs for a set of keys, then at most one more  *)
(* message. A key is a note on a channel. Velocities, timestamps and the   *)
(* messages every transform passes through unchanged are left out.         *)
EXTENDS Integers

CONSTANTS
  Channels,     \* MIDI channels, 1..16 in the program
  Notes         \* note numbers, 0..127 in the program

ASSUME NoteAssumption == Channels \subseteq Int /\ Notes \subseteq Int

Keys == Channels \X Notes
ChannelOf(k) == k[1]
NoteOf(k) == k[2]

NoteOn(k)  == [kind |-> "on", key |-> k]
NoteOff(k) == [kind |-> "off", key |-> k]

\* The pedal controllers: 64 is sustain and 66 is sostenuto; values from 64
\* up are "down".
Pedals == {64, 66}
PedalMove(controller, channel, down) ==
  [kind |-> "pedal", controller |-> controller, channel |-> channel, down |-> down]

\* What a transform leaves behind and sends on.
Result(state, offs, rest) == [state |-> state, offs |-> offs, rest |-> rest]

\* The keys that sound once it has arrived where the keys in heard sounded:
\* the note-offs first, then the note-on if there is one.
Heard(heard, r) == (heard \ r.offs) \union {k \in Keys : r.rest = <<NoteOn(k)>>}
=============================================================================
