--------------------------- MODULE CollapseStage ---------------------------
(* An mpemono between an MPE controller, which gives every finger a channel *)
(* and a key of its own, and an ordinary synth that keeps what it was told. *)
(* One kind of expression is played per behaviour; the kinds do not meet in *)
(* the code, except that bends depend on the ranges.                        *)
EXTENDS MpeCollapse, McmTracker

CONSTANTS
  ManagerDials,     \* the values of the zone's expression
  MemberDials,      \* the values of a note's expression
  MemberRanges      \* the bend ranges a controller may declare

ASSUME CollapseStageAssumption ==
  /\ ManagerDials \subseteq Nat /\ MemberDials \subseteq Nat
  /\ MemberRanges \subseteq 0..96

CollapseKinds == {"bend", "cc74", "pressure", "controller"}

VARIABLES
  collapser,        \* the Collapser of the input
  expression,       \* its ExpressionState
  collapseMcm,      \* the McmTracker's last announced member count
  collapseKind,     \* the expression that is played
  collapseDials,    \* what the player sent last on each channel
  ranges,           \* the bend ranges the player declared, or the default ones
  collapseSynth,    \* the synth on the target channel
  stale             \* what the synth may have otherwise than the collapser believes

collapseVars == <<collapser, expression, collapseMcm, collapseKind, collapseDials, ranges,
                  collapseSynth, stale>>

\* A synth bends by two semitones until it is told otherwise.
SilentSynth ==
  [notes |-> <<>>, bend |-> 0, sense |-> 2, cc74 |-> 0, controller |-> NotSent,
   aftertouch |-> [c \in MemberChannels |-> 0]]

\* An aftertouch ahead of a note applies to it, one is forgotten with it.
SynthHears(s, m) ==
  CASE m.kind = "on"         -> [s EXCEPT !.notes = Append(Remove(@, m.note), m.note)]
    [] m.kind = "off"        -> [s EXCEPT !.notes = Remove(@, m.note), !.aftertouch[m.note] = 0]
    [] m.kind = "aftertouch" -> [s EXCEPT !.aftertouch[m.note] = m.value]
    [] m.kind = "config"     -> s
    [] OTHER                 -> [s EXCEPT ![m.kind] = m.value]

Silenced(s) == [s EXCEPT !.notes = <<>>, !.aftertouch = [c \in MemberChannels |-> 0]]

\* Reset All Controllers centres the bend; sound controllers such as CC 74
\* and the declared range stay.
ControllersReset(s) == [Silenced(s) EXCEPT !.bend = 0]

\* A bend goes with the range it is meant at, the zone's own controllers go past
\* what the collapser keeps of the notes' ones.
StillStale(unsure, m, kinds) ==
  (unsure \ (kinds \union IF "bend" \in kinds THEN {"range"} ELSE {}))
    \union IF m.kind = "controller" /\ m.channel = ManagerChannel THEN {"controller"} ELSE {}

CollapseSends(col, synth, unsure, m) ==
  \E folded \in {Collapse(col, expression, m)} :
     /\ collapser' = folded.collapser
     /\ expression' = folded.expr
     /\ collapseSynth' = FoldLeft(SynthHears, synth, folded.msgs)
     /\ stale' = StillStale(unsure, m, {folded.msgs[i].kind : i \in DOMAIN folded.msgs})

\* A finger's other controllers belong to its note.
ForNextNote(c) ==
  IF collapseKind = "controller" THEN [collapseDials EXCEPT ![c] = NotSent] ELSE collapseDials

CollapsePress(c) ==
  /\ c \notin ToSet(collapseSynth.notes)
  /\ collapseDials' = ForNextNote(c)
  /\ CollapseSends(collapser, collapseSynth, stale, On(c, c))
  /\ UNCHANGED <<collapseMcm, collapseKind, ranges>>

\* Also of a key whose note a panic or a new configuration has ended.
CollapseLift(c) ==
  /\ CollapseSends(collapser, collapseSynth, stale, Off(c, c))
  /\ UNCHANGED <<collapseMcm, collapseKind, collapseDials, ranges>>

CollapseTurn(c, v) ==
  /\ collapseDials[c] # v
  /\ collapseDials' = [collapseDials EXCEPT ![c] = v]
  /\ CollapseSends(collapser, collapseSynth, stale, Expression(collapseKind, c, v))
  /\ UNCHANGED <<collapseMcm, collapseKind, ranges>>

\* A range is told with the next bend that is sent, and what a sounding note was
\* bent by before its range changed is not redone.
UnsureOfRange == stale \union {"range"} \union IF collapseSynth.notes = <<>> THEN {} ELSE {"bend"}

DeclareRange(c, semitones) ==
  /\ collapseKind = "bend"
  /\ ranges' = [ranges EXCEPT !.member = semitones]
  /\ CollapseSends(collapser, collapseSynth, UnsureOfRange, Expression("sense", c, semitones))
  /\ UNCHANGED <<collapseMcm, collapseKind, collapseDials>>

\* sendPanic ends the notes and leaves the synth's expression, while the
\* collapser takes the bend to be centred and the timbre to be zero.
CollapsePanic ==
  /\ collapser' = FreshCollapser
  /\ collapseSynth' = Silenced(collapseSynth)
  /\ stale' = {"bend", "cc74"}
  /\ UNCHANGED <<expression, collapseMcm, collapseKind, collapseDials, ranges>>

\* sendZoneReset, then the announcement, which restores the default ranges.
CollapseAnnounce(members) ==
  LET message == Announcement(ManagerChannel, members) IN
  /\ collapseMcm' = members
  /\ ranges' = DefaultSense
  /\ IF ResetsZone(collapseMcm, members)
     THEN CollapseSends(FreshCollapser, ControllersReset(collapseSynth), {"cc74"}, message)
     ELSE CollapseSends(collapser, collapseSynth, UnsureOfRange, message)
  /\ UNCHANGED <<collapseKind, collapseDials>>

CollapseInit ==
  /\ collapser = FreshCollapser /\ expression = FreshExpression
  /\ collapseMcm = NotAnnounced
  /\ collapseKind \in CollapseKinds
  /\ collapseDials = [c \in ZoneChannels |-> IF collapseKind = "controller" THEN NotSent ELSE 0]
  /\ ranges = DefaultSense
  /\ collapseSynth = SilentSynth
  /\ stale = {}

CollapseNext ==
  \/ \E c \in MemberChannels : CollapsePress(c) \/ CollapseLift(c)
  \/ \E c \in MemberChannels, v \in MemberDials : CollapseTurn(c, v)
  \/ \E v \in ManagerDials : CollapseTurn(ManagerChannel, v)
  \/ \E c \in MemberChannels, semitones \in MemberRanges : DeclareRange(c, semitones)
  \/ CollapsePanic
  \/ \E members \in Announced : CollapseAnnounce(members)
-----------------------------------------------------------------------------
Newest == Last(collapseSynth.notes)
Reliable(k) == collapseKind = k /\ k \notin stale /\ collapseSynth.notes # <<>>
Hardest(c) == Max({collapseDials[ManagerChannel], collapseDials[c]})

\* README.md:588: pitch bend is "summed in semitones", the result "expressed
\* at the combined range", and "only the most recently triggered (and still
\* held) note's bend is applied, falling back to the previous held note on
\* release". The pitch of the synth, its own range times its bend, is the
\* played one up to the rounding of one bend value. There is one exception, which
\* is left as it is: when the ranges have changed since the last bend was sent and
\* the bend at the new range is the same value, neither is sent (Mpe.cpp:531), and
\* the synth applies that value at the range it knows.
NewestNoteInTune ==
  Reliable("bend") =>
    LET pitch == ranges.manager * collapseDials[ManagerChannel] + ranges.member * collapseDials[Newest]
        InTuneAt(range) == 2 * (range * collapseSynth.bend - pitch) \in -range..range
    IN InTuneAt(collapseSynth.sense) \/ ("range" \in stale /\ InTuneAt(ranges.manager + ranges.member))

\* README.md:589: timbre "combined with the maximum", "also last-note-wins".
NewestNoteHasItsTimbre == Reliable("cc74") => collapseSynth.cc74 = Hardest(Newest)

\* A controller that a note was given since it started is what the synth has
\* while the note is the newest, also after newer notes had theirs. The zone's own
\* comes between: it is not remembered, so the synth has it until a note's is sent,
\* which one that equals the last sent is not (Mpe.cpp:563, 655).
NewestNoteHasItsController ==
  (collapseKind = "controller" /\ collapseSynth.notes # <<>> /\ collapseDials[Newest] # NotSent) =>
    collapseSynth.controller = collapseDials[IF "controller" \in stale THEN ManagerChannel ELSE Newest]

\* README.md:587: channel pressure is combined with the maximum and carried
\* "as polyphonic aftertouch, so each note keeps its own pressure".
EachNoteHasItsPressure ==
  collapseKind = "pressure" =>
    \A i \in DOMAIN collapseSynth.notes :
      collapseSynth.aftertouch[collapseSynth.notes[i]] = Hardest(collapseSynth.notes[i])

\* The synth plays the expression of the zone, whichever of it is played: that of
\* the newest note, and each note's own pressure.
ZoneIsHeard ==
  /\ NewestNoteInTune /\ NewestNoteHasItsTimbre
  /\ NewestNoteHasItsController /\ EachNoteHasItsPressure
=============================================================================
