------------------------------- MODULE Sustain -------------------------------
(* SustainState: the sustain or sostenuto pedal applied to the notes       *)
(* themselves. pedal, keyDown, eligible and sustained are the arrays of    *)
(* the same names, as the sets of channels and keys that are true in them. *)
EXTENDS NoteMessages

SustainState ==
  [pedal: SUBSET Channels, keyDown: SUBSET Keys,
   eligible: SUBSET Keys, sustained: SUBSET Keys]

SustainClear == [pedal |-> {}, keyDown |-> {}, eligible |-> {}, sustained |-> {}]

OnChannel(S, c) == {k \in S : ChannelOf(k) = c}

\* Mutant: sostenuto applies to every note as well.
PedalDownOnAll(sostenuto, s, c) ==
  Result([s EXCEPT !.pedal = @ \union {c}, !.eligible = @ \union OnChannel(Keys, c)], {}, <<>>)

\* Sustain applies to every note, sostenuto to the keys that are down now.
PedalDown(sostenuto, s, c) ==
  Result([pedal     |-> s.pedal \union {c},
          keyDown   |-> s.keyDown,
          eligible  |-> (s.eligible \ OnChannel(s.eligible, c)) \union
                        OnChannel(IF sostenuto THEN s.keyDown ELSE Keys, c),
          sustained |-> s.sustained],
         {}, <<>>)

\* releaseSustained: the note-offs that were held back are sent.
PedalUp(s, c) ==
  Result([pedal     |-> s.pedal \ {c},
          keyDown   |-> s.keyDown,
          eligible  |-> s.eligible \ OnChannel(s.eligible, c),
          sustained |-> s.sustained \ OnChannel(s.sustained, c)],
         OnChannel(s.sustained, c), <<>>)

\* Mutant: the held-back note is forgotten but not ended first.
SustainNoteOnUnended(s, k) ==
  Result([s EXCEPT !.keyDown = @ \union {k}, !.sustained = @ \ {k}], {}, <<NoteOn(k)>>)

\* Mutant: the key is retriggered and still remembered as sustained.
SustainNoteOnKept(s, k) ==
  Result([s EXCEPT !.keyDown = @ \union {k}], s.sustained \intersect {k}, <<NoteOn(k)>>)

\* A key that still sounds although it was released is retriggered.
SustainNoteOn(s, k) ==
  Result([pedal |-> s.pedal, keyDown |-> s.keyDown \union {k},
          eligible |-> s.eligible, sustained |-> s.sustained \ {k}],
         s.sustained \intersect {k}, <<NoteOn(k)>>)

SustainNoteOff(s, k) ==
  IF ChannelOf(k) \in s.pedal /\ k \in s.eligible
  THEN Result([pedal |-> s.pedal, keyDown |-> s.keyDown \ {k},
               eligible |-> s.eligible, sustained |-> s.sustained \union {k}], {}, <<>>)
  ELSE Result([s EXCEPT !.keyDown = @ \ {k}], {k}, <<>>)

\* Only an edge of the pedal does anything; the pedal itself is consumed.
SustainPedal(sostenuto, s, m) ==
  IF m.down /\ m.channel \notin s.pedal THEN PedalDown(sostenuto, s, m.channel)
  ELSE IF ~m.down /\ m.channel \in s.pedal THEN PedalUp(s, m.channel)
  ELSE Result(s, {}, <<>>)

SustainProcess(sostenuto, s, m) ==
  CASE m.kind = "on"  -> SustainNoteOn(s, m.key)
    [] m.kind = "off" -> SustainNoteOff(s, m.key)
    [] m.kind = "pedal" ->
         IF m.controller = (IF sostenuto THEN 66 ELSE 64)
         THEN SustainPedal(sostenuto, s, m)
         ELSE Result(s, {}, <<m>>)
=============================================================================
