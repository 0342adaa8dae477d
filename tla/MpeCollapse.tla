---------------------------- MODULE MpeCollapse ----------------------------
(* mpe::collapse (mpemono): folds a zone onto one ordinary channel. Every  *)
(* note keeps its pressure as polyphonic aftertouch; bend, timbre and      *)
(* controllers are those of the newest note, combined with the zone's. A   *)
(* bend is an offset from the centre. The trigger counter is kept as the   *)
(* order it gives, one controller stands for all others, and a parameter   *)
(* and its data entry are one message, whose selects are left out.         *)
EXTENDS MpeZone, Sequences, SequencesExt

NoKey == -1
NotSent == -1

DefaultSense == [manager |-> 2, member |-> 48]

FreshCollapser ==
  [held        |-> <<>>,        \* the channels that hold a note, the newest last
   channelNote |-> [c \in MemberChannels |-> NoKey],
   outSense    |-> 0,
   lastBend    |-> 0,
   lastCC74    |-> 0,
   channelCC   |-> [c \in MemberChannels |-> NotSent],
   targetCC    |-> NotSent]

\* ExpressionState: what was received last, which no reset forgets.
FreshExpression ==
  [bend     |-> [c \in ZoneChannels |-> 0],
   pressure |-> [c \in ZoneChannels |-> 0],
   cc74     |-> [c \in ZoneChannels |-> 0],
   sense    |-> DefaultSense]

Folded(col, expr, msgs) == [collapser |-> col, expr |-> expr, msgs |-> msgs]

ActiveChannel(col) == IF col.held = <<>> THEN NoChannel ELSE Last(col.held)

CombinedSensitivity(expr) == Clamp(1, 96, expr.sense.manager + expr.sense.member)

\* The sum of both bends in semitones, expressed at the combined range.
CombinedBend(expr, c) ==
  ClampedBend(RoundedRatio(expr.sense.manager * expr.bend[ManagerChannel] + expr.sense.member * expr.bend[c],
                           CombinedSensitivity(expr)))

MaxOfBoth(values, c) ==
  IF values[ManagerChannel] > values[c] THEN values[ManagerChannel] ELSE values[c]

\* emitBend: nothing when the target was sent this value last, else the
\* combined range first when the target was not told it.
DeclaresSense(col, expr) == CombinedSensitivity(expr) # col.outSense
BendDue(col, expr, c) == c # NoChannel /\ CombinedBend(expr, c) # col.lastBend

ToTarget(k, v) == [kind |-> k, value |-> v]

EmitBend(col, expr, c) ==
  IF ~BendDue(col, expr, c) THEN <<>>
  ELSE (IF DeclaresSense(col, expr) THEN <<ToTarget("sense", CombinedSensitivity(expr))>> ELSE <<>>)
         \o <<ToTarget("bend", CombinedBend(expr, c))>>

BendTold(col, expr, c) ==
  IF BendDue(col, expr, c)
  THEN [col EXCEPT !.lastBend = CombinedBend(expr, c), !.outSense = CombinedSensitivity(expr)] ELSE col

\* emitCC74.
TimbreDue(col, expr, c) == c # NoChannel /\ MaxOfBoth(expr.cc74, c) # col.lastCC74

EmitTimbre(col, expr, c) ==
  IF TimbreDue(col, expr, c) THEN <<ToTarget("cc74", MaxOfBoth(expr.cc74, c))>> ELSE <<>>

TimbreTold(col, expr, c) ==
  IF TimbreDue(col, expr, c) THEN [col EXCEPT !.lastCC74 = MaxOfBoth(expr.cc74, c)] ELSE col

\* emitPressure: always sent, on the note.
EmitPressure(col, expr, c) ==
  IF col.channelNote[c] = NoKey THEN <<>>
  ELSE <<[kind |-> "aftertouch", note |-> col.channelNote[c], value |-> MaxOfBoth(expr.pressure, c)]>>

\* reassertCCs.
ControllerDue(col, c) == c # NoChannel /\ col.channelCC[c] # NotSent /\ col.channelCC[c] # col.targetCC

EmitController(col, c) ==
  IF ControllerDue(col, c) THEN <<ToTarget("controller", col.channelCC[c])>> ELSE <<>>

ControllerTold(col, c) == IF ControllerDue(col, c) THEN [col EXCEPT !.targetCC = col.channelCC[c]] ELSE col

\* The note's combined expression goes ahead of it; a pressure of zero does
\* not. Controllers the channel had before the note are forgotten.
CollapseNoteOn(col, expr, c, n) ==
  LET owned  == [col EXCEPT !.held = Append(Remove(@, c), c), !.channelNote[c] = n, !.channelCC[c] = NotSent]
      before == EmitBend(owned, expr, c) \o EmitTimbre(owned, expr, c)
                  \o (IF MaxOfBoth(expr.pressure, c) > 0 THEN EmitPressure(owned, expr, c) ELSE <<>>)
  IN Folded(TimbreTold(BendTold(owned, expr, c), expr, c), expr,
            Append(before, [kind |-> "on", note |-> n]))

\* Mutant: bend and timbre are handed over, the other controllers are not.
CollapseNoteOffPartly(col, expr, c, n) ==
  LET released == [col EXCEPT !.held = Remove(@, c), !.channelNote[c] = NoKey]
      heir     == ActiveChannel(released)
  IN Folded(TimbreTold(BendTold(released, expr, heir), expr, heir), expr,
            <<[kind |-> "off", note |-> n]>> \o EmitBend(released, expr, heir) \o EmitTimbre(released, expr, heir))

\* After the note-off, what is channel-wide goes to the newest note left.
CollapseNoteOff(col, expr, c, n) ==
  LET released == [col EXCEPT !.held = Remove(@, c), !.channelNote[c] = NoKey]
      heir     == ActiveChannel(released)
  IN Folded(ControllerTold(TimbreTold(BendTold(released, expr, heir), expr, heir), heir), expr,
            <<[kind |-> "off", note |-> n]>> \o EmitBend(released, expr, heir)
              \o EmitTimbre(released, expr, heir) \o EmitController(released, heir))

\* The zone's bend and timbre concern the newest note, a member's only when
\* its own note is the newest.
Concerned(col, c) ==
  IF c = ManagerChannel \/ c = ActiveChannel(col) THEN ActiveChannel(col) ELSE NoChannel

CollapseBend(col, expr, c, v) ==
  LET heard == [expr EXCEPT !.bend[c] = v]
      a     == Concerned(col, c)
  IN Folded(BendTold(col, heard, a), heard, EmitBend(col, heard, a))

CollapseTimbre(col, expr, c, v) ==
  LET heard == [expr EXCEPT !.cc74[c] = v]
      a     == Concerned(col, c)
  IN Folded(TimbreTold(col, heard, a), heard, EmitTimbre(col, heard, a))

\* The zone's pressure concerns every note that is held.
CollapsePressure(col, expr, c, v) ==
  LET heard == [expr EXCEPT !.pressure[c] = v]
  IN Folded(col, heard,
            IF c = ManagerChannel
            THEN FoldLeft(LAMBDA msgs, h : msgs \o EmitPressure(col, heard, h), <<>>, SetToSortSeq(ToSet(col.held), <))
            ELSE EmitPressure(col, heard, c))

\* Any other controller: the zone's passes, a note's is remembered.
CollapseController(col, expr, c, v) ==
  IF c = ManagerChannel THEN Folded(col, expr, <<ToTarget("controller", v)>>)
  ELSE LET cached == [col EXCEPT !.channelCC[c] = v]
           a      == IF c = ActiveChannel(col) THEN c ELSE NoChannel
       IN Folded(ControllerTold(cached, a), expr, EmitController(cached, a))

\* RPN 0 and its data entry, which stay behind; on a member channel they set
\* the range of every member.
CollapseSensitivity(col, expr, c, semitones) ==
  Folded(col, IF c = ManagerChannel THEN [expr EXCEPT !.sense.manager = semitones]
              ELSE [expr EXCEPT !.sense.member = semitones], <<>>)

\* An MPE Configuration Message restores the ranges, and passes.
CollapseConfig(col, expr, members) ==
  Folded(col, [expr EXCEPT !.sense = DefaultSense], <<ToTarget("config", members)>>)

\* What is not of the zone passes untouched, as does a note on the manager.
Collapse(col, expr, m) ==
  CASE m.channel \notin ZoneChannels
         \/ (m.channel = ManagerChannel /\ m.kind \in {"on", "off"}) -> Folded(col, expr, <<m>>)
    [] m.channel \in MemberChannels /\ m.kind = "on"  -> CollapseNoteOn(col, expr, m.channel, m.note)
    [] m.channel \in MemberChannels /\ m.kind = "off" -> CollapseNoteOff(col, expr, m.channel, m.note)
    [] m.channel \in ZoneChannels /\ m.kind = "bend"       -> CollapseBend(col, expr, m.channel, m.value)
    [] m.channel \in ZoneChannels /\ m.kind = "cc74"       -> CollapseTimbre(col, expr, m.channel, m.value)
    [] m.channel \in ZoneChannels /\ m.kind = "pressure"   -> CollapsePressure(col, expr, m.channel, m.value)
    [] m.channel \in ZoneChannels /\ m.kind = "controller" -> CollapseController(col, expr, m.channel, m.value)
    [] m.channel \in ZoneChannels /\ m.kind = "sense"      -> CollapseSensitivity(col, expr, m.channel, m.value)
    [] m.channel = ManagerChannel /\ m.kind = "config"     -> CollapseConfig(col, expr, m.value)
=============================================================================
