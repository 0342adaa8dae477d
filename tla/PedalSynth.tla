----------------------------- MODULE PedalSynth -----------------------------
(* An instrument that obeys its own sustain or sostenuto pedal: what the   *)
(* route with a pedal transform and an instrument without one promise      *)
(* together.                                                               *)
EXTENDS NoteMessages

CONSTANT Sostenuto

VARIABLES
  down,         \* the keys that are down
  foot,         \* the channels whose pedal is down
  caught,       \* the keys those pedals hold
  ringing       \* the notes that sound

synthVars == <<down, foot, caught, ringing>>

On(S, c) == {k \in S : ChannelOf(k) = c}

Strike(k) ==
  /\ down' = down \union {k}
  /\ ringing' = ringing \union {k}
  /\ UNCHANGED <<foot, caught>>

\* A released note rings on if the pedal is down and caught it.
LiftKey(k) ==
  /\ down' = down \ {k}
  /\ ringing' = IF ChannelOf(k) \in foot /\ k \in caught THEN ringing ELSE ringing \ {k}
  /\ UNCHANGED <<foot, caught>>

\* Sustain catches whatever is played, sostenuto what is down now.
PressPedal(c) ==
  /\ c \notin foot
  /\ foot' = foot \union {c}
  /\ caught' = (caught \ On(Keys, c)) \union On(IF Sostenuto THEN down ELSE Keys, c)
  /\ UNCHANGED <<down, ringing>>

\* Of the notes on the channel only those whose keys are down ring on.
LiftPedal(c) ==
  /\ c \in foot
  /\ foot' = foot \ {c}
  /\ caught' = caught \ On(Keys, c)
  /\ ringing' = ringing \ On(Keys \ down, c)
  /\ UNCHANGED down

SilenceAll == down' = {} /\ foot' = {} /\ caught' = {} /\ ringing' = {}

SynthInit == down = {} /\ foot = {} /\ caught = {} /\ ringing = {}

SynthNext ==
  \/ \E k \in Keys : Strike(k) \/ LiftKey(k)
  \/ \E c \in Channels : PressPedal(c) \/ LiftPedal(c)
  \/ SilenceAll

SynthSpec == SynthInit /\ [][SynthNext]_synthVars
=============================================================================
