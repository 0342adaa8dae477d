---------------------------- MODULE PressureStage ----------------------------
(* convert pp cp without a note, between the keys of one channel and an     *)
(* instrument that has one pressure: the collapse of the converter stage.   *)
EXTENDS Conversion

CONSTANT Pressures      \* the pressures a key may be held with

ASSUME PressureAssumption == Pressures \subseteq 0..127 /\ PressedNotes \subseteq 0..127

VARIABLES
  fingers,      \* the pressure on each key since it was struck, or -1
  collapse,     \* the input's conversion::State
  channelPressure,  \* what the instrument was last told
  unspoken      \* a panic came and the instrument was told nothing since

pressureVars == <<fingers, collapse, channelPressure, unspoken>>

CollapseRule == <<[op |-> "convert", src |-> "pp", srcNum |-> AnyNote, dst |-> "cp", dstNum |-> 0, amount |-> 0]>>

\* The keys' message passes through the stage; the last pressure counts.
Finger(kind, n, v) ==
  \E result \in {ProcessMessage(CollapseRule, collapse, [kind |-> kind, number |-> n, value |-> v])} :
  \E told \in {{i \in DOMAIN result.out : result.out[i].kind = "cp"}} :
     /\ collapse' = result.state
     /\ channelPressure' = IF told = {} THEN channelPressure ELSE result.out[Max(told)].value
     /\ unspoken' = (unspoken /\ told = {})

Strike(n) ==
  /\ fingers[n] < 0
  /\ fingers' = [fingers EXCEPT ![n] = 0]
  /\ Finger("on", n, 64)

Lean(n, v) ==
  /\ fingers[n] >= 0
  /\ fingers' = [fingers EXCEPT ![n] = v]
  /\ Finger("pp", n, v)

Lift(n) ==
  /\ fingers[n] >= 0
  /\ fingers' = [fingers EXCEPT ![n] = -1]
  /\ Finger("off", n, 0)

\* sendPanic says nothing about pressure; the input was lost and its keys with it.
PressurePanic ==
  /\ fingers' = [n \in PressedNotes |-> -1]
  /\ collapse' = [collapse EXCEPT !.pressure = FreshConverter.pressure, !.lastMax = -1]
  /\ unspoken' = TRUE
  /\ UNCHANGED channelPressure

PressureInit ==
  /\ fingers = [n \in PressedNotes |-> -1]
  /\ collapse = FreshConverter
  /\ channelPressure = 0
  /\ unspoken = FALSE

PressureNext ==
  \/ \E n \in PressedNotes : Strike(n) \/ Lift(n) \/ \E v \in Pressures : Lean(n, v)
  \/ PressurePanic

PressureSpec == PressureInit /\ [][PressureNext]_pressureVars
-----------------------------------------------------------------------------
\* README.md:507: "the destination follows the hardest-pressed key, and drops
\* back when it is released". A panic drops what the stage remembers but says
\* nothing of pressure, and neither does a key that is struck after it, so
\* this holds only from the first word to the instrument on.
FollowsHardestOnceTold == unspoken \/ channelPressure = MaxPressure(fingers)
=============================================================================
