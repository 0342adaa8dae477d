----------------------------- MODULE PedalStage -----------------------------
(* One pedal transform between any stream of notes and pedal moves, strays *)
(* and doubled note-ons included, and an instrument that knows no pedals.  *)
EXTENDS Sustain

CONSTANT Sostenuto
ASSUME SostenutoAssumption == Sostenuto \in BOOLEAN

VARIABLES
  pedalState,        \* the SustainState of the input
  pedalHeard         \* the keys that sound on the instrument

pedalVars == <<pedalState, pedalHeard>>

PedalProcess(m) ==
  LET r == SustainProcess(Sostenuto, pedalState, m) IN
  /\ pedalState' = r.state
  /\ pedalHeard' = Heard(pedalHeard, r)

Moves == {PedalMove(p, c, d) : p \in Pedals, c \in Channels, d \in BOOLEAN}

PedalNote == \E k \in Keys : PedalProcess(NoteOn(k)) \/ PedalProcess(NoteOff(k))
PedalEdge == \E m \in Moves : PedalProcess(m)

PedalPanic == pedalState' = SustainClear /\ pedalHeard' = {}

PedalInit == pedalState = SustainClear /\ pedalHeard = {}
PedalNext == PedalNote \/ PedalEdge \/ PedalPanic
PedalSpec == PedalInit /\ [][PedalNext]_pedalVars
-----------------------------------------------------------------------------
PedalTypeOK == pedalState \in SustainState /\ pedalHeard \subseteq Keys

\* Every key that is down sounds; a note that sounds has its key down or is
\* remembered as sustained, and never both; only a pressed pedal sustains and
\* only what it is eligible for. This is what lets the rising pedal end
\* exactly the notes nobody holds any more.
PedalKnowsWhatSounds ==
  /\ pedalState.keyDown \subseteq pedalHeard
  /\ pedalHeard \subseteq pedalState.keyDown \union pedalState.sustained
  /\ pedalState.keyDown \intersect pedalState.sustained = {}
  /\ \A k \in pedalState.sustained : ChannelOf(k) \in pedalState.pedal /\ k \in pedalState.eligible

\* The transform and an instrument without a pedal do what an instrument with
\* a pedal does (README.md:473: "apply a pedal to the note stream itself").
Synth == INSTANCE PedalSynth WITH
  down <- pedalState.keyDown, foot <- pedalState.pedal, caught <- pedalState.eligible, ringing <- pedalHeard

ImplementsPedal == Synth!SynthSpec
=============================================================================
