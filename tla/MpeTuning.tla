----------------------------- MODULE MpeTuning -----------------------------
(* Parameters that a controller and RouteMIDI select and set on a synth;  *)
(* mpe::declareSensitivity (mpesens), which tells the synth the bend range *)
(* of a zone's notes; mpe::rescaleBend (mpebend), which makes bends of one *)
(* range, a number of semitones, fit another. The two controllers that     *)
(* select a parameter are one message, and so are the bytes of its data.   *)
EXTENDS MpeZone, Sequences, SequencesExt

NoParameter == "none"           \* the null that closes a parameter
BendRange == "bend range"       \* RPN 0
ZoneSize == "zone size"         \* RPN 6, the MPE Configuration Message
Tuning == "tuning"              \* stands for all others

SelectOn(c, p) == [kind |-> "select", channel |-> c, parameter |-> p]
DataOn(c, v) == [kind |-> "data", channel |-> c, value |-> v]

FreshDeclarer == [declared |-> FALSE, selected |-> [c \in ZoneChannels |-> NoParameter]]

IsMcm(sd, m) == m.kind = "data" /\ sd.selected[m.channel] = ZoneSize

\* appendMemberSensitivity: the parameter stays selected.
MemberSensitivity(semitones) ==
  [i \in 1..2 * Members |-> LET c == MemberChannel((i - 1) \div 2)
                            IN IF i % 2 = 1 THEN SelectOn(c, BendRange) ELSE DataOn(c, semitones)]

Declared(sd, msgs) == [declarer |-> sd, msgs |-> msgs]

\* Mutant: the range is declared once and for all.
DeclareSensitivityOnce(sd, semitones, m) ==
  IF m.kind = "on" /\ ~sd.declared
  THEN Declared([sd EXCEPT !.declared = TRUE], Append(MemberSensitivity(semitones), m))
  ELSE Declared(sd, <<m>>)

\* Behind every configuration, which has the synth forget the range, and ahead
\* of the first note.
DeclareSensitivity(sd, semitones, m) ==
  CASE m.kind = "select" -> Declared([sd EXCEPT !.selected[m.channel] = m.parameter], <<m>>)
    [] IsMcm(sd, m)      -> Declared([sd EXCEPT !.declared = TRUE], <<m>> \o MemberSensitivity(semitones))
    [] m.kind = "on" /\ ~sd.declared
                         -> Declared([sd EXCEPT !.declared = TRUE], Append(MemberSensitivity(semitones), m))
    [] OTHER             -> Declared(sd, <<m>>)

\* Only the bends of notes.
RescaleBend(from, to, m) ==
  IF m.kind # "bend" \/ m.channel \notin MemberChannels \/ to <= 0 THEN m
  ELSE [m EXCEPT !.value = ClampedBend(RoundedRatio(@ * from, to))]
=============================================================================
