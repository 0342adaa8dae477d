----------------------------- MODULE PortStage -----------------------------
(* One port of an mpesplit: the bend range that split() declares to it and *)
(* the parameters that the zone and the port's own channel select and set  *)
(* on it, while fingers take the port from each other. MpeSplit has the    *)
(* allocation of many ports and the other expression.                      *)
EXTENDS MpeCollapse, MpeTuning

CONSTANTS
  PortRanges,       \* the bend ranges the controller may declare
  ZoneBends,        \* the bends of the zone
  NoteBends,        \* the bends of a note
  PortFingers       \* the members that are played

ASSUME PortAssumption ==
  /\ PortFingers \subseteq MemberChannels
  /\ PortRanges \subseteq 0..96
  /\ ZoneBends \subseteq -8192..8191 /\ NoteBends \subseteq -8192..8191

VARIABLES
  port,             \* the Splitter's record of the port and of the manager's selection
  heldRanges,       \* its ExpressionState, the bends and their ranges
  portSynth,        \* the synth on the port
  bent,             \* the controller's bend on each channel
  playedRanges,     \* the ranges it declared, or the default ones
  unheard,          \* whether a range changed since the synth was sent a bend
  setting           \* what the controller set of another parameter

portVars == <<port, heldRanges, portSynth, bent, playedRanges, unheard, setting>>

FreshPort == [owner |-> NoChannel, note |-> NoKey, outSense |-> 0, lastBend |-> 0,
              selected |-> NoParameter, selectionSent |-> FALSE]

Ported(p, r, msgs) == [port |-> p, ranges |-> r, msgs |-> msgs]
Chosen(p) == [kind |-> "select", parameter |-> p]
Set(v) == [kind |-> "data", value |-> v]

\* appendPitchBendSensitivity, which closes the parameter behind it.
PortDeclares(p, r) ==
  IF CombinedSensitivity(r) = p.outSense THEN <<>>
  ELSE <<Chosen(BendRange), Set(CombinedSensitivity(r)), Chosen(NoParameter)>>

\* emitPortBend.
PortBendDue(p, r) == p.owner # NoChannel /\ CombinedBend(r, p.owner) # p.lastBend

PortBend(p, r) ==
  IF ~PortBendDue(p, r) THEN <<>>
  ELSE PortDeclares(p, r) \o <<[kind |-> "bend", value |-> CombinedBend(r, p.owner)]>>

PortBent(p, r) ==
  IF PortBendDue(p, r)
  THEN [p EXCEPT !.lastBend = CombinedBend(r, p.owner), !.outSense = CombinedSensitivity(r)] ELSE p

\* A channel that has not the port takes it from the one that has.
PortNoteOn(p, r, c) ==
  LET stolen  == IF p.owner \notin {NoChannel, c} THEN <<[kind |-> "off", note |-> p.note]>> ELSE <<>>
      claimed == [p EXCEPT !.owner = c, !.note = c]
  IN Ported(PortBent(claimed, r), r, stolen \o PortBend(claimed, r) \o <<[kind |-> "on", note |-> c]>>)

PortNoteOff(p, r, c) ==
  IF p.owner # c THEN Ported(p, r, <<>>)
  ELSE Ported([p EXCEPT !.owner = NoChannel, !.note = NoKey], r, <<[kind |-> "off", note |-> c]>>)

PortExpression(p, r, c, v) ==
  LET heard == [r EXCEPT !.bend[c] = v]
  IN IF c \in {ManagerChannel, p.owner} THEN Ported(PortBent(p, heard), heard, PortBend(p, heard))
     ELSE Ported(p, heard, <<>>)

\* ExpressionState::update: RPN 0 of a member counts for all, and a
\* configuration restores the default ranges.
RangesAfter(r, c, p, v) ==
  CASE p = ZoneSize  -> [r EXCEPT !.sense = DefaultSense]
    [] p = BendRange /\ c = ManagerChannel -> [r EXCEPT !.sense.manager = v]
    [] p = BendRange -> [r EXCEPT !.sense.member = v]
    [] OTHER         -> r

\* Mutant: the zone's selection is sent with its first data only.
PortSelectOnce(p, r, c, param) ==
  IF c = ManagerChannel THEN Ported([p EXCEPT !.selected = param], r, <<>>)
  ELSE Ported(p, r, IF c = p.owner THEN <<Chosen(param)>> ELSE <<>>)

\* The zone's selections are held back until data shows that they concern the
\* synths; a member's pass to its port at once, and the data of RPN 0 does not.
PortSelect(p, r, c, param) ==
  IF c = ManagerChannel THEN Ported([p EXCEPT !.selected = param, !.selectionSent = FALSE], r, <<>>)
  ELSE Ported(p, r, IF c = p.owner THEN <<Chosen(param)>> ELSE <<>>)

PortData(p, r, c, param, v) ==
  LET after == RangesAfter(r, c, param, v) IN
  CASE param = BendRange \/ (c = ManagerChannel /\ param = ZoneSize) -> Ported(p, after, <<>>)
    [] c = ManagerChannel -> Ported([p EXCEPT !.selectionSent = TRUE], after,
                                    (IF p.selectionSent THEN <<>> ELSE <<Chosen(p.selected)>>) \o <<Set(v)>>)
    [] OTHER -> Ported(p, after, IF c = p.owner THEN <<Set(v)>> ELSE <<>>)

\* A synth bends by two semitones until it is told otherwise.
PortHears(s, m) ==
  CASE m.kind = "on"     -> [s EXCEPT !.notes = @ \union {m.note}]
    [] m.kind = "off"    -> [s EXCEPT !.notes = @ \ {m.note}]
    [] m.kind = "bend"   -> [s EXCEPT !.bend = m.value]
    [] m.kind = "select" -> [s EXCEPT !.selected = m.parameter]
    [] m.kind = "data" /\ s.selected = BendRange -> [s EXCEPT !.sense = m.value]
    [] m.kind = "data" /\ s.selected = Tuning    -> [s EXCEPT !.tuning = m.value]
    [] OTHER             -> s

PortSends(done) ==
  /\ port' = done.port /\ heldRanges' = done.ranges
  /\ portSynth' = FoldLeft(PortHears, portSynth, done.msgs)
  /\ unheard' = (unheard /\ \A i \in DOMAIN done.msgs : done.msgs[i].kind # "bend")

PortPress(c) ==
  /\ c \notin portSynth.notes
  /\ PortSends(PortNoteOn(port, heldRanges, c))
  /\ UNCHANGED <<bent, playedRanges, setting>>

PortLift(c) ==
  /\ PortSends(PortNoteOff(port, heldRanges, c))
  /\ UNCHANGED <<bent, playedRanges, setting>>

PortTurn(c, v) ==
  /\ bent[c] # v
  /\ bent' = [bent EXCEPT ![c] = v]
  /\ PortSends(PortExpression(port, heldRanges, c, v))
  /\ UNCHANGED <<playedRanges, setting>>

\* The controller selects a parameter and sends it data, once or more.
PortPlays(c, p, vs) ==
  LET chosen == PortSelect(port, heldRanges, c, p)
      done   == FoldLeft(LAMBDA d, v : LET next == PortData(d.port, d.ranges, c, p, v)
                                       IN [next EXCEPT !.msgs = d.msgs \o @], chosen, vs)
  IN /\ port' = done.port /\ heldRanges' = done.ranges
     /\ portSynth' = FoldLeft(PortHears, portSynth, done.msgs)
     /\ playedRanges' = RangesAfter([sense |-> playedRanges], c, p, Last(vs)).sense
     /\ unheard' = (unheard \/ playedRanges' # playedRanges)
     /\ setting' = IF p = Tuning /\ c \in {ManagerChannel} \union portSynth.notes THEN Last(vs) ELSE setting
     /\ UNCHANGED bent

PortInit ==
  /\ port = FreshPort
  /\ heldRanges = [bend |-> [c \in ZoneChannels |-> 0], sense |-> DefaultSense]
  /\ portSynth = [notes |-> {}, bend |-> 0, sense |-> 2, selected |-> NoParameter, tuning |-> 0]
  /\ bent = [c \in ZoneChannels |-> 0]
  /\ playedRanges = DefaultSense
  /\ unheard = FALSE
  /\ setting = 0

PortNext ==
  \/ \E c \in PortFingers : PortPress(c) \/ PortLift(c)
  \/ \E v \in ZoneBends : PortTurn(ManagerChannel, v)
  \/ \E c \in PortFingers, v \in NoteBends : PortTurn(c, v)
  \/ \E c \in PortFingers \union {ManagerChannel} :
       \/ \E v \in PortRanges : PortPlays(c, BendRange, <<v>>)
       \/ \E vs \in {<<1, 2>>, <<2, 1>>} : PortPlays(c, Tuning, vs)
  \/ PortPlays(ManagerChannel, ZoneSize, <<Members>>)
-----------------------------------------------------------------------------
\* README.md:605: on each port "the Manager (zone-wide) and that note's Member
\* (per-note) expression are combined", with the bend "summed in semitones (with
\* an RPN 0 declaring the combined range on the port)", while "other RPNs still
\* pass through". The pitch of a sounding note is the played one to the rounding
\* of one bend value, from the first bend after a change of the ranges on, and
\* data of another parameter sets that one and no range.
PortIsHeard ==
  /\ portSynth.tuning = setting
  /\ \A c \in portSynth.notes : ~unheard =>
       LET excess == portSynth.sense * portSynth.bend
                       - (playedRanges.manager * bent[ManagerChannel] + playedRanges.member * bent[c])
       IN 2 * excess \in -portSynth.sense..portSynth.sense
=============================================================================
