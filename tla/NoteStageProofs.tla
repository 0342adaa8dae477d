--------------------------- MODULE NoteStageProofs ---------------------------
(* Commands that keep track of keys, for any channels and notes: a pedal     *)
(* transform in front of an instrument is an instrument with a pedal, for    *)
(* both pedals, mono lets the winner of every channel sound and nothing      *)
(* else, for any priority, and the converter of key to channel pressure      *)
(* sends that of the hardest key.                                            *)
EXTENDS PedalStage, MonoStage, PressureStage, TLAPS

-----------------------------------------------------------------------------
(* Sustain and sostenuto.                                                  *)

\* What a note-on does, field by field.
LEMMA PedalOnStep ==
  ASSUME NEW k \in Keys, PedalProcess(NoteOn(k)), PedalTypeOK
  PROVE  /\ pedalState' = [pedal |-> pedalState.pedal, keyDown |-> pedalState.keyDown \union {k},
                      eligible |-> pedalState.eligible, sustained |-> pedalState.sustained \ {k}]
         /\ pedalHeard' = (pedalHeard \ (pedalState.sustained \intersect {k})) \union {k}
<1>1. SustainProcess(Sostenuto, pedalState, NoteOn(k)) = SustainNoteOn(pedalState, k)
  BY DEF SustainProcess, NoteOn
<1>2. {j \in Keys : <<NoteOn(k)>> = <<NoteOn(j)>>} = {k}
  BY DEF NoteOn
<1> QED BY <1>1, <1>2 DEF PedalProcess, Heard, SustainNoteOn, Result, PedalTypeOK, SustainState

\* What a note-off does: held back, or passed on.
LEMMA PedalOffStep ==
  ASSUME NEW k \in Keys, PedalProcess(NoteOff(k)), PedalTypeOK
  PROVE  /\ pedalState' = [pedal |-> pedalState.pedal, keyDown |-> pedalState.keyDown \ {k},
                      eligible |-> pedalState.eligible,
                      sustained |-> IF ChannelOf(k) \in pedalState.pedal /\ k \in pedalState.eligible
                                    THEN pedalState.sustained \union {k} ELSE pedalState.sustained]
         /\ pedalHeard' = IF ChannelOf(k) \in pedalState.pedal /\ k \in pedalState.eligible
                     THEN pedalHeard ELSE pedalHeard \ {k}
<1>1. SustainProcess(Sostenuto, pedalState, NoteOff(k)) = SustainNoteOff(pedalState, k)
  BY DEF SustainProcess, NoteOff
<1>2. {j \in Keys : <<>> = <<NoteOn(j)>>} = {}
  OBVIOUS
<1>3. CASE ChannelOf(k) \in pedalState.pedal /\ k \in pedalState.eligible
  BY <1>1, <1>2, <1>3 DEF PedalProcess, Heard, SustainNoteOff, Result, PedalTypeOK, SustainState
<1>4. CASE ~(ChannelOf(k) \in pedalState.pedal /\ k \in pedalState.eligible)
  <2>1. SustainNoteOff(pedalState, k) = Result([pedalState EXCEPT !.keyDown = @ \ {k}], {k}, <<>>)
    BY <1>4 DEF SustainNoteOff
  <2>2. [pedalState EXCEPT !.keyDown = @ \ {k}] =
          [pedal |-> pedalState.pedal, keyDown |-> pedalState.keyDown \ {k},
           eligible |-> pedalState.eligible, sustained |-> pedalState.sustained]
    BY DEF PedalTypeOK, SustainState
  <2> DEFINE r == Result([pedalState EXCEPT !.keyDown = @ \ {k}], {k}, <<>>)
  <2>3. pedalState' = r.state /\ pedalHeard' = Heard(pedalHeard, r)
    BY <1>1, <2>1 DEF PedalProcess
  <2>4. pedalHeard' = pedalHeard \ {k}
    BY <2>3, <1>2 DEF Heard, Result, PedalTypeOK
  <2>5. pedalState' = [pedal |-> pedalState.pedal, keyDown |-> pedalState.keyDown \ {k},
                  eligible |-> pedalState.eligible, sustained |-> pedalState.sustained]
    BY <2>3, <2>2 DEF Result
  <2> QED BY <1>4, <2>4, <2>5
<1> QED BY <1>3, <1>4

\* What a pedal move does: its pedal goes down, comes up, or nothing happens.
LEMMA PedalStep ==
  ASSUME NEW p \in Pedals, NEW c \in Channels, NEW d \in BOOLEAN,
         PedalProcess(PedalMove(p, c, d)), PedalTypeOK
  PROVE  \/ /\ c \notin pedalState.pedal
            /\ pedalState' = [pedal |-> pedalState.pedal \union {c}, keyDown |-> pedalState.keyDown,
                         eligible |-> (pedalState.eligible \ OnChannel(pedalState.eligible, c)) \union
                                      OnChannel(IF Sostenuto THEN pedalState.keyDown ELSE Keys, c),
                         sustained |-> pedalState.sustained]
            /\ pedalHeard' = pedalHeard
         \/ /\ c \in pedalState.pedal
            /\ pedalState' = [pedal |-> pedalState.pedal \ {c}, keyDown |-> pedalState.keyDown,
                         eligible |-> pedalState.eligible \ OnChannel(pedalState.eligible, c),
                         sustained |-> pedalState.sustained \ OnChannel(pedalState.sustained, c)]
            /\ pedalHeard' = pedalHeard \ OnChannel(pedalState.sustained, c)
         \/ UNCHANGED pedalVars
<1> DEFINE m == PedalMove(p, c, d)
<1>1. m.kind = "pedal" /\ m.channel = c /\ m.controller = p /\ m.down = d
  BY DEF PedalMove
<1>2. \A j \in Keys : <<m>> # <<NoteOn(j)>>
  BY <1>1 DEF NoteOn
<1>3. \A j \in Keys : <<>> # <<NoteOn(j)>>
  OBVIOUS
<1>4. CASE p # (IF Sostenuto THEN 66 ELSE 64)
  <2>1. SustainProcess(Sostenuto, pedalState, m) = Result(pedalState, {}, <<m>>)
    BY <1>1, <1>4 DEF SustainProcess
  <2> QED BY <2>1, <1>2 DEF PedalProcess, Heard, Result, pedalVars, PedalTypeOK
<1>5. CASE p = (IF Sostenuto THEN 66 ELSE 64)
  <2>1. SustainProcess(Sostenuto, pedalState, m) = SustainPedal(Sostenuto, pedalState, m)
    BY <1>1, <1>5 DEF SustainProcess
  <2>2. CASE d /\ c \notin pedalState.pedal
    <3>1. SustainPedal(Sostenuto, pedalState, m) = PedalDown(Sostenuto, pedalState, c)
      BY <1>1, <2>2 DEF SustainPedal
    <3> QED BY <3>1, <2>1, <2>2, <1>3
            DEF PedalProcess, Heard, PedalDown, Result, PedalTypeOK, SustainState
  <2>3. CASE ~d /\ c \in pedalState.pedal
    <3>1. SustainPedal(Sostenuto, pedalState, m) = PedalUp(pedalState, c)
      BY <1>1, <2>3 DEF SustainPedal
    <3> QED BY <3>1, <2>1, <2>3, <1>3
            DEF PedalProcess, Heard, PedalUp, Result, PedalTypeOK, SustainState
  <2>4. CASE ~(d /\ c \notin pedalState.pedal) /\ ~(~d /\ c \in pedalState.pedal)
    <3>1. SustainPedal(Sostenuto, pedalState, m) = Result(pedalState, {}, <<>>)
      BY <1>1, <2>4 DEF SustainPedal
    <3> QED BY <3>1, <2>1, <1>3 DEF PedalProcess, Heard, Result, pedalVars, PedalTypeOK
  <2> QED BY <2>2, <2>3, <2>4
<1> QED BY <1>4, <1>5

\* Nothing else can happen than the four steps of the lemmas and the panic.
LEMMA Steps ==
  ASSUME PedalNext
  PROVE  \/ \E k \in Keys : PedalProcess(NoteOn(k))
         \/ \E k \in Keys : PedalProcess(NoteOff(k))
         \/ \E p \in Pedals, c \in Channels, d \in BOOLEAN : PedalProcess(PedalMove(p, c, d))
         \/ PedalPanic
BY DEF PedalNext, PedalNote, PedalEdge, Moves

PedalIInv == PedalTypeOK /\ PedalKnowsWhatSounds

\* A key is on one of the channels.
LEMMA PedalChannelsOfKeys == \A k \in Keys : ChannelOf(k) \in Channels
BY DEF Keys, ChannelOf

\* The bookkeeping and what sounds agree after every message, if they did before.
LEMMA PedalInductive == PedalIInv /\ [PedalNext]_pedalVars => PedalIInv'
<1> SUFFICES ASSUME PedalIInv, [PedalNext]_pedalVars PROVE PedalIInv'
  OBVIOUS
<1> USE DEF PedalIInv, PedalTypeOK, PedalKnowsWhatSounds, SustainState, OnChannel
<1>1. ASSUME NEW k \in Keys, PedalProcess(NoteOn(k)) PROVE PedalIInv'
  BY <1>1, PedalOnStep
<1>2. ASSUME NEW k \in Keys, PedalProcess(NoteOff(k)) PROVE PedalIInv'
  BY <1>2, PedalOffStep
<1>3. ASSUME NEW p \in Pedals, NEW c \in Channels, NEW d \in BOOLEAN,
             PedalProcess(PedalMove(p, c, d))
      PROVE  PedalIInv'
  BY <1>3, PedalStep, PedalChannelsOfKeys DEF pedalVars
<1>4. CASE PedalPanic
  BY <1>4 DEF PedalPanic, SustainClear
<1>5. CASE UNCHANGED pedalVars
  BY <1>5 DEF pedalVars
<1> QED BY <1>1, <1>2, <1>3, <1>4, <1>5, Steps

\* The bookkeeping of the pedal and the notes that sound always agree,
\* whatever notes and pedal moves arrive in whatever order.
THEOREM PedalBookkeeping == PedalSpec => [](PedalTypeOK /\ PedalKnowsWhatSounds)
<1>1. PedalInit => PedalIInv
  BY DEF PedalInit, PedalIInv, PedalTypeOK, PedalKnowsWhatSounds, SustainState, SustainClear
<1> QED BY <1>1, PedalInductive, PTL DEF PedalSpec, PedalIInv

\* Every step of the transform is a step of an instrument that obeys the
\* pedal itself, or changes nothing for it.
LEMMA StepRefines == PedalIInv /\ [PedalNext]_pedalVars => [Synth!SynthNext]_(Synth!synthVars)
<1> SUFFICES ASSUME PedalIInv, [PedalNext]_pedalVars PROVE [Synth!SynthNext]_(Synth!synthVars)
  OBVIOUS
<1> USE DEF PedalIInv, PedalTypeOK, PedalKnowsWhatSounds, SustainState
<1>1. ASSUME NEW k \in Keys, PedalProcess(NoteOn(k)) PROVE Synth!Strike(k)
  BY <1>1, PedalOnStep DEF Synth!Strike
<1>2. ASSUME NEW k \in Keys, PedalProcess(NoteOff(k)) PROVE Synth!LiftKey(k)
  BY <1>2, PedalOffStep DEF Synth!LiftKey, Synth!ChannelOf, ChannelOf
<1>3. ASSUME NEW p \in Pedals, NEW c \in Channels, NEW d \in BOOLEAN,
             PedalProcess(PedalMove(p, c, d))
      PROVE  Synth!PressPedal(c) \/ Synth!LiftPedal(c) \/ UNCHANGED Synth!synthVars
  <2> USE DEF Synth!synthVars, Synth!On, Synth!ChannelOf, Synth!Keys, OnChannel, ChannelOf, Keys, pedalVars
  <2>1. CASE UNCHANGED pedalVars
    BY <2>1
  <2>2. CASE c \notin pedalState.pedal /\ ~UNCHANGED pedalVars
    BY <1>3, <2>2, PedalStep DEF Synth!PressPedal
  <2>3. CASE c \in pedalState.pedal /\ ~UNCHANGED pedalVars
    <3>1. pedalHeard \ OnChannel(pedalState.sustained, c) = pedalHeard \ Synth!On(Keys \ pedalState.keyDown, c)
      OBVIOUS
    <3> QED BY <1>3, <2>3, <3>1, PedalStep DEF Synth!LiftPedal
  <2> QED BY <2>1, <2>2, <2>3
<1>4. CASE PedalPanic
  BY <1>4 DEF PedalPanic, SustainClear, Synth!SynthNext, Synth!SilenceAll
<1>5. CASE UNCHANGED pedalVars
  BY <1>5 DEF pedalVars, Synth!synthVars
<1> QED BY <1>1, <1>2, <1>3, <1>4, <1>5, Steps DEF Synth!SynthNext, Synth!Keys, Keys

\* README.md:473: the sustain and sost transforms "apply a pedal to the note
\* stream itself": route and instrument behave as an instrument with a pedal.
THEOREM PedalRefinement == PedalSpec => ImplementsPedal
<1>1. PedalInit => Synth!SynthInit
  BY DEF PedalInit, SustainClear, Synth!SynthInit
<1> QED BY <1>1, StepRefines, PedalBookkeeping, PTL
        DEF PedalSpec, ImplementsPedal, Synth!SynthSpec, PedalIInv

-----------------------------------------------------------------------------
(* Mono.                                                                   *)

MonoTypeOK == monoState \in MonoState /\ monoHeard \subseteq Keys

MonoIInv ==
  /\ MonoTypeOK
  /\ OrderOK
  /\ \A c \in Channels : monoState.sounding[c] = Winner(c)
  /\ OnlyTheWinnerSounds

\* A key is on one of the channels and has a number.
LEMMA MonoChannelsOfKeys == \A k \in Keys : ChannelOf(k) \in Channels /\ NoteOf(k) \in Int
BY NoteAssumption DEF Keys, ChannelOf, NoteOf

\* Two keys of one channel differ in their number.
LEMMA KeysDiffer ==
  ASSUME NEW j \in Keys, NEW k \in Keys, ChannelOf(j) = ChannelOf(k), j # k
  PROVE  NoteOf(j) # NoteOf(k)
BY DEF Keys, ChannelOf, NoteOf

\* The winner is a key held on the channel, or None.
LEMMA WinnerIsHeld ==
  ASSUME NEW held, NEW newer, NEW c
  PROVE  \/ /\ PriorityNote(Priority, held, newer, c) = None
            /\ Winners(Priority, held, newer, c) = {}
         \/ PriorityNote(Priority, held, newer, c) \in Winners(Priority, held, newer, c)
BY DEF PriorityNote

\* Two keys of a channel never both beat each other, so a winner is the only one.
LEMMA OneWinner ==
  ASSUME NEW held \in SUBSET Keys, NEW newer, NEW c \in Channels,
         \A j, k \in Keys : <<j, k>> \in newer => <<k, j>> \notin newer,
         NEW j \in Winners(Priority, held, newer, c),
         NEW k \in Winners(Priority, held, newer, c)
  PROVE  j = k
<1> SUFFICES ASSUME j # k PROVE FALSE
  OBVIOUS
<1>1. /\ j \in Keys /\ k \in Keys /\ ChannelOf(j) = c /\ ChannelOf(k) = c
      /\ Beats(Priority, newer, j, k) /\ Beats(Priority, newer, k, j)
  BY DEF Winners
<1>2. CASE Priority = "low"
  BY <1>1, <1>2, MonoChannelsOfKeys DEF Beats
<1>3. CASE Priority = "high"
  BY <1>1, <1>3, MonoChannelsOfKeys DEF Beats
<1>4. CASE Priority = "last"
  BY <1>1, <1>4 DEF Beats
<1> QED BY <1>2, <1>3, <1>4, PriorityAssumption DEF Priorities

\* Keys of other channels have no part in it.
LEMMA OtherChannels ==
  ASSUME NEW held \in SUBSET Keys, NEW held2 \in SUBSET Keys, NEW newer, NEW newer2,
         NEW c \in Channels, NEW k \in Keys, ChannelOf(k) # c,
         held \ {k} = held2 \ {k},
         \A i, j \in Keys : i # k /\ j # k => (<<i, j>> \in newer <=> <<i, j>> \in newer2)
  PROVE  PriorityNote(Priority, held, newer, c) = PriorityNote(Priority, held2, newer2, c)
<1>1. \A i, j \in Keys : i # k /\ j # k =>
        (Beats(Priority, newer, i, j) <=> Beats(Priority, newer2, i, j))
  BY PriorityAssumption DEF Beats, Priorities
<1>2. \A i \in Keys : ChannelOf(i) = c => i # k
  OBVIOUS
<1>3. Winners(Priority, held, newer, c) = Winners(Priority, held2, newer2, c)
  BY <1>1, <1>2 DEF Winners
<1> QED BY <1>3 DEF PriorityNote

\* A key that is struck and does not win leaves the winner as it was.
LEMMA LoserWaits ==
  ASSUME MonoTypeOK, OrderOK, NEW k \in Keys,
         PriorityNote(Priority, monoState.held \union {k}, Struck(monoState.newer, monoState.held, k),
                      ChannelOf(k)) # k
  PROVE  PriorityNote(Priority, monoState.held \union {k}, Struck(monoState.newer, monoState.held, k),
                      ChannelOf(k)) = Winner(ChannelOf(k))
<1> DEFINE c == ChannelOf(k)
           held == monoState.held
           held2 == held \union {k}
           newer2 == Struck(monoState.newer, held, k)
           W == Winners(Priority, held, monoState.newer, c)
           W2 == Winners(Priority, held2, newer2, c)
<1>1. held \subseteq Keys /\ held2 \subseteq Keys /\ c \in Channels
  BY MonoChannelsOfKeys DEF MonoTypeOK, MonoState
<1>2. CASE Priority = "last"
  <2>1. \A i, j \in Keys : <<i, j>> \in newer2 => <<j, i>> \notin newer2
    BY DEF OrderOK, Struck, Without
  <2>2. k \in W2
    BY <1>2 DEF Winners, Beats, Struck
  <2>3. PriorityNote(Priority, held2, newer2, c) \in W2
    BY <2>2, WinnerIsHeld
  <2> QED BY <1>1, <2>1, <2>2, <2>3, OneWinner
<1>3. CASE Priority \in {"low", "high"}
  <2> DEFINE Below(i, j) == IF Priority = "low" THEN NoteOf(i) < NoteOf(j)
                                                ELSE NoteOf(i) > NoteOf(j)
  <2>1. \A i, j : Beats(Priority, monoState.newer, i, j) <=> Below(i, j)
    BY <1>3 DEF Beats
  <2>2. \A i, j : Beats(Priority, newer2, i, j) <=> Below(i, j)
    BY <1>3 DEF Beats
  <2>3. \A i : i \in W <=> /\ i \in held /\ ChannelOf(i) = c
                           /\ \A j \in held \ {i} : ChannelOf(j) = c => Below(i, j)
    BY <2>1 DEF Winners
  <2>4. \A i : i \in W2 <=> /\ i \in held2 /\ ChannelOf(i) = c
                            /\ \A j \in held2 \ {i} : ChannelOf(j) = c => Below(i, j)
    BY <2>2 DEF Winners
  <2>5. CASE PriorityNote(Priority, held2, newer2, c) \in W2
    <3>1. PriorityNote(Priority, held2, newer2, c) \in W
      BY <2>3, <2>4, <2>5
    <3>2. Winner(c) \in W
      BY <3>1, WinnerIsHeld DEF Winner
    <3> QED BY <1>1, <3>1, <3>2, OneWinner DEF OrderOK
  <2>6. CASE PriorityNote(Priority, held2, newer2, c) = None /\ W2 = {}
    <3>1. ASSUME NEW w \in W PROVE FALSE
      <4>1. w \in Keys /\ ChannelOf(w) = c
        BY <1>1, <2>3, <3>1
      <4>2. CASE w = k
        BY <2>3, <2>4, <2>6, <3>1, <4>2
      <4>3. CASE w # k /\ Below(w, k)
        BY <2>3, <2>4, <2>6, <3>1, <4>3
      <4>4. CASE w # k /\ ~Below(w, k)
        <5>1. Below(k, w)
          BY <4>1, <4>4, KeysDiffer, MonoChannelsOfKeys
        <5>2. \A j \in held2 \ {k} : ChannelOf(j) = c => j = w \/ Below(w, j)
          BY <2>3, <3>1
        <5>3. \A j \in held2 \ {k} : ChannelOf(j) = c => Below(k, j)
          BY <5>1, <5>2, <4>1, <1>1, MonoChannelsOfKeys
        <5> QED BY <5>3, <2>4, <2>6
      <4> QED BY <4>2, <4>3, <4>4
    <3>2. W = {}
      BY <3>1
    <3> QED BY <2>6, <3>2 DEF Winner, PriorityNote
  <2> QED BY <2>5, <2>6, WinnerIsHeld
<1> QED BY <1>2, <1>3, PriorityAssumption DEF Priorities

\* A waiting key that is released leaves the winner as it was.
LEMMA WaiterLeaves ==
  ASSUME MonoTypeOK, OrderOK, NEW k \in monoState.held, Winner(ChannelOf(k)) # k
  PROVE  PriorityNote(Priority, monoState.held \ {k}, Without(monoState.newer, k), ChannelOf(k))
           = Winner(ChannelOf(k))
<1> DEFINE c == ChannelOf(k)
           held == monoState.held
           held2 == held \ {k}
           newer2 == Without(monoState.newer, k)
           Above(i, j) == Beats(Priority, monoState.newer, i, j)
           W == Winners(Priority, held, monoState.newer, c)
           W2 == Winners(Priority, held2, newer2, c)
<1>1. held \subseteq Keys /\ held2 \subseteq Keys /\ c \in Channels
  BY MonoChannelsOfKeys DEF MonoTypeOK, MonoState
<1>2. \A i, j \in held2 : Beats(Priority, newer2, i, j) <=> Above(i, j)
  BY PriorityAssumption DEF Beats, Without, Priorities
<1>3. \A i, j, l \in held : ChannelOf(i) = c /\ ChannelOf(j) = c /\ ChannelOf(l) = c =>
        /\ Above(i, j) /\ Above(j, l) => Above(i, l)
        /\ i # j => Above(i, j) \/ Above(j, i)
  <2>1. \A i, j \in held : i # j /\ ChannelOf(i) = ChannelOf(j) => NoteOf(i) # NoteOf(j)
    BY <1>1, KeysDiffer
  <2>2. \A i \in held : NoteOf(i) \in Int
    BY <1>1, MonoChannelsOfKeys
  <2>3. CASE Priority = "low"
    BY <2>1, <2>2, <2>3 DEF Beats
  <2>4. CASE Priority = "high"
    BY <2>1, <2>2, <2>4 DEF Beats
  <2>5. CASE Priority = "last"
    BY <1>1, <2>5 DEF Beats, OrderOK
  <2> QED BY <2>3, <2>4, <2>5, PriorityAssumption DEF Priorities
<1> HIDE DEF Above
<1>4. \A i : i \in W <=> /\ i \in held /\ ChannelOf(i) = c
                         /\ \A j \in held \ {i} : ChannelOf(j) = c => Above(i, j)
  BY DEF Winners, Above
<1>5. \A i : i \in W2 <=> /\ i \in held2 /\ ChannelOf(i) = c
                          /\ \A j \in held2 \ {i} : ChannelOf(j) = c => Above(i, j)
  BY <1>2 DEF Winners
<1>6. CASE Winner(c) \in W
  <2>1. Winner(c) \in W2
    BY <1>4, <1>5, <1>6
  <2>2. PriorityNote(Priority, held2, newer2, c) \in W2
    BY <2>1, WinnerIsHeld
  <2>3. \A i, j \in Keys : <<i, j>> \in newer2 => <<j, i>> \notin newer2
    BY DEF OrderOK, Without
  <2> QED BY <1>1, <2>1, <2>2, <2>3, OneWinner
<1>7. CASE Winner(c) = None /\ W = {}
  <2>1. ASSUME NEW m \in W2 PROVE FALSE
    <3>1. m \in held /\ m # k /\ ChannelOf(m) = c /\ ChannelOf(k) = c
      BY <1>5, <2>1
    <3>2. CASE Above(m, k)
      <4>1. \A j \in held \ {m} : ChannelOf(j) = c => Above(m, j)
        BY <1>5, <2>1, <3>2
      <4> QED BY <4>1, <1>4, <1>7, <3>1
    <3>3. CASE Above(k, m)
      BY <1>3, <1>4, <1>5, <1>7, <2>1, <3>1, <3>3
    <3> QED BY <3>1, <3>2, <3>3, <1>3
  <2>2. W2 = {}
    BY <2>1
  <2> QED BY <2>2, <1>7 DEF PriorityNote
<1> QED BY <1>6, <1>7, WinnerIsHeld DEF Winner

\* Which pairs the order holds after a note-on and a note-off.
LEMMA PairsOfOrder ==
  ASSUME NEW newer, NEW held, NEW k, NEW i, NEW j
  PROVE  /\ <<i, j>> \in Struck(newer, held, k) <=>
              \/ <<i, j>> \in newer /\ i # k /\ j # k
              \/ i = k /\ j \in held /\ j # k
         /\ <<i, j>> \in Without(newer, k) <=> <<i, j>> \in newer /\ i # k /\ j # k
BY DEF Struck, Without

\* What a note-on does: it takes over or it waits.
LEMMA MonoOnStep ==
  ASSUME MonoTypeOK, NEW k \in Keys, MonoReceives(NoteOn(k))
  PROVE  /\ monoState'.held = monoState.held \union {k}
         /\ monoState'.newer = Struck(monoState.newer, monoState.held, k)
         /\ monoState'.sounding =
              IF PriorityNote(Priority, monoState'.held, monoState'.newer, ChannelOf(k)) = k
              THEN [monoState.sounding EXCEPT ![ChannelOf(k)] = k] ELSE monoState.sounding
         /\ monoHeard' =
              IF PriorityNote(Priority, monoState'.held, monoState'.newer, ChannelOf(k)) = k
              THEN (monoHeard \ ({monoState.sounding[ChannelOf(k)]} \ {None})) \union {k} ELSE monoHeard
         /\ monoState' = [held |-> monoState'.held, newer |-> monoState'.newer, sounding |-> monoState'.sounding]
<1> DEFINE c == ChannelOf(k)
           held2 == monoState.held \union {k}
           newer2 == Struck(monoState.newer, monoState.held, k)
<1>1. MonoProcess(Priority, monoState, NoteOn(k)) = MonoNoteOn(Priority, monoState, k)
  BY DEF MonoProcess, NoteOn
<1>2. {j \in Keys : <<NoteOn(k)>> = <<NoteOn(j)>>} = {k} /\ {j \in Keys : <<>> = <<NoteOn(j)>>} = {}
  BY DEF NoteOn
<1>3. CASE PriorityNote(Priority, held2, newer2, c) = k
  <2>1. MonoNoteOn(Priority, monoState, k) =
          Result([held |-> held2, newer |-> newer2, sounding |-> [monoState.sounding EXCEPT ![c] = k]],
                 {monoState.sounding[c]} \ {None}, <<NoteOn(k)>>)
    BY <1>3 DEF MonoNoteOn
  <2>2. monoHeard' = (monoHeard \ ({monoState.sounding[c]} \ {None})) \union {k}
    BY <1>1, <1>2, <2>1 DEF MonoReceives, Heard, Result
  <2>3. monoState' = [held |-> held2, newer |-> newer2, sounding |-> [monoState.sounding EXCEPT ![c] = k]]
    BY <1>1, <2>1 DEF MonoReceives, Result
  <2> QED BY <1>3, <2>2, <2>3
<1>4. CASE PriorityNote(Priority, held2, newer2, c) # k
  <2>1. MonoNoteOn(Priority, monoState, k) =
          Result([held |-> held2, newer |-> newer2, sounding |-> monoState.sounding], {}, <<>>)
    BY <1>4 DEF MonoNoteOn
  <2>2. monoHeard' = monoHeard
    BY <1>1, <1>2, <2>1 DEF MonoReceives, Heard, Result
  <2>3. monoState' = [held |-> held2, newer |-> newer2, sounding |-> monoState.sounding]
    BY <1>1, <2>1 DEF MonoReceives, Result
  <2> QED BY <1>4, <2>2, <2>3
<1> QED BY <1>3, <1>4

\* What a note-off does: nothing, a waiting key leaves, or the sound passes on.
LEMMA MonoOffStep ==
  ASSUME MonoTypeOK, NEW k \in Keys, MonoReceives(NoteOff(k))
  PROVE  \/ k \notin monoState.held /\ UNCHANGED monoVars
         \/ /\ k \in monoState.held
            /\ monoState'.held = monoState.held \ {k}
            /\ monoState'.newer = Without(monoState.newer, k)
            /\ monoState' = [held |-> monoState'.held, newer |-> monoState'.newer, sounding |-> monoState'.sounding]
            /\ \/ /\ monoState.sounding[ChannelOf(k)] # k
                  /\ monoState'.sounding = monoState.sounding
                  /\ monoHeard' = monoHeard
               \/ /\ monoState.sounding[ChannelOf(k)] = k
                  /\ monoState'.sounding =
                       [monoState.sounding EXCEPT ![ChannelOf(k)] =
                          PriorityNote(Priority, monoState'.held, monoState'.newer, ChannelOf(k))]
                  /\ monoHeard' = (monoHeard \ {k}) \union
                       {j \in Keys : j = PriorityNote(Priority, monoState'.held, monoState'.newer,
                                                      ChannelOf(k))}
<1> DEFINE c == ChannelOf(k)
           held2 == monoState.held \ {k}
           newer2 == Without(monoState.newer, k)
           next == PriorityNote(Priority, held2, newer2, c)
<1>1. MonoProcess(Priority, monoState, NoteOff(k)) = MonoNoteOff(Priority, monoState, k)
  BY DEF MonoProcess, NoteOff
<1>2. {j \in Keys : <<>> = <<NoteOn(j)>>} = {}
  OBVIOUS
<1>3. CASE k \notin monoState.held
  <2>1. MonoNoteOff(Priority, monoState, k) = Result(monoState, {}, <<>>)
    BY <1>3 DEF MonoNoteOff
  <2> QED BY <1>1, <1>2, <1>3, <2>1 DEF MonoReceives, Heard, Result, monoVars
<1>4. CASE k \in monoState.held /\ monoState.sounding[c] # k
  <2>1. MonoNoteOff(Priority, monoState, k) =
          Result([held |-> held2, newer |-> newer2, sounding |-> monoState.sounding], {}, <<>>)
    BY <1>4 DEF MonoNoteOff
  <2>2. monoHeard' = monoHeard
    BY <1>1, <1>2, <2>1 DEF MonoReceives, Heard, Result
  <2>3. monoState' = [held |-> held2, newer |-> newer2, sounding |-> monoState.sounding]
    BY <1>1, <2>1 DEF MonoReceives, Result
  <2> QED BY <1>4, <2>2, <2>3
<1>5. CASE k \in monoState.held /\ monoState.sounding[c] = k
  <2> DEFINE rest == IF next = None THEN <<>> ELSE <<NoteOn(next)>>
  <2>1. MonoNoteOff(Priority, monoState, k) =
          Result([held |-> held2, newer |-> newer2, sounding |-> [monoState.sounding EXCEPT ![c] = next]],
                 {k}, rest)
    BY <1>5 DEF MonoNoteOff
  <2>2. {j \in Keys : rest = <<NoteOn(j)>>} = {j \in Keys : j = next}
    BY PriorityAssumption DEF NoteOn
  <2> HIDE DEF rest
  <2> DEFINE r == MonoNoteOff(Priority, monoState, k)
  <2>5. r.offs = {k} /\ r.rest = rest
    BY <2>1 DEF Result
  <2>6. monoHeard' = Heard(monoHeard, r)
    BY <1>1 DEF MonoReceives
  <2>3. monoHeard' = (monoHeard \ {k}) \union {j \in Keys : j = next}
    BY <2>2, <2>5, <2>6 DEF Heard
  <2>4. monoState' = [held |-> held2, newer |-> newer2,
                  sounding |-> [monoState.sounding EXCEPT ![c] = next]]
    BY <1>1, <2>1 DEF MonoReceives, Result
  <2> QED BY <1>5, <2>3, <2>4
<1> QED BY <1>3, <1>4, <1>5

\* The winner of a channel sounds after a note-on.
LEMMA OnKeeps ==
  ASSUME MonoIInv, NEW k \in Keys, MonoReceives(NoteOn(k))
  PROVE  MonoIInv'
<1> DEFINE c == ChannelOf(k)
<1> USE DEF MonoIInv
<1>0. c \in Channels /\ \A j \in Keys : ChannelOf(j) \in Channels
  BY MonoChannelsOfKeys
<1>a. /\ monoState.held \in SUBSET Keys /\ monoState.newer \in SUBSET (Keys \X Keys)
      /\ monoState.sounding \in [Channels -> Keys \union {None}] /\ monoHeard \subseteq Keys
  BY DEF MonoTypeOK, MonoState
<1>b. /\ monoState'.held = monoState.held \union {k}
      /\ monoState'.newer = Struck(monoState.newer, monoState.held, k)
  BY MonoOnStep
<1>1. MonoTypeOK'
  <2>1. monoState'.held \in SUBSET Keys /\ monoState'.newer \in SUBSET (Keys \X Keys)
    <3>1. Struck(monoState.newer, monoState.held, k) \in SUBSET (Keys \X Keys)
      BY <1>a DEF Struck, Without
    <3> QED BY <1>a, <1>b, <3>1
  <2>2. monoState'.sounding \in [Channels -> Keys \union {None}] /\ monoHeard' \subseteq Keys
    <3>1. CASE PriorityNote(Priority, monoState'.held, monoState'.newer, c) = k
      <4>1. /\ monoState'.sounding = [monoState.sounding EXCEPT ![c] = k]
            /\ monoHeard' = (monoHeard \ ({monoState.sounding[c]} \ {None})) \union {k}
        BY <3>1, MonoOnStep
      <4> QED BY <1>a, <4>1
    <3>2. CASE PriorityNote(Priority, monoState'.held, monoState'.newer, c) # k
      BY <1>a, <3>2, MonoOnStep
    <3> QED BY <3>1, <3>2
  <2>3. monoState' = [held |-> monoState'.held, newer |-> monoState'.newer, sounding |-> monoState'.sounding]
    BY MonoOnStep
  <2> QED BY <2>1, <2>2, <2>3 DEF MonoTypeOK, MonoState
<1>2. OrderOK'
  <2>1. ASSUME NEW i, NEW j
        PROVE  <<i, j>> \in monoState'.newer <=>
                 \/ <<i, j>> \in monoState.newer /\ i # k /\ j # k
                 \/ i = k /\ j \in monoState.held /\ j # k
    BY <1>b, PairsOfOrder
  <2>2. monoState'.newer \subseteq monoState'.held \X monoState'.held
    BY <1>b DEF OrderOK, Struck, Without
  <2>3. \A i, j \in Keys : <<i, j>> \in monoState.newer => i \in monoState.held /\ j \in monoState.held
    BY DEF OrderOK
  <2>4. \A j \in Keys : <<j, j>> \notin monoState'.newer
    BY <2>1 DEF OrderOK
  <2>5. \A i, j \in Keys : <<i, j>> \in monoState'.newer => <<j, i>> \notin monoState'.newer
    BY <2>1 DEF OrderOK
  <2>6. \A i, j, l \in Keys : <<i, j>> \in monoState'.newer /\ <<j, l>> \in monoState'.newer => <<i, l>> \in monoState'.newer
    BY <2>1, <2>3 DEF OrderOK
  <2>7. \A i, j \in monoState'.held : i # j => <<i, j>> \in monoState'.newer \/ <<j, i>> \in monoState'.newer
    BY <2>1, <1>b DEF OrderOK
  <2> QED BY <2>2, <2>4, <2>5, <2>6, <2>7 DEF OrderOK
<1>3. ASSUME NEW d \in Channels, d # c PROVE Winner(d)' = Winner(d)
  <2>1. monoState.held \ {k} = monoState'.held \ {k} /\ monoState'.held \in SUBSET Keys
    BY <1>a, <1>b
  <2>2. \A i, j \in Keys : i # k /\ j # k => (<<i, j>> \in monoState.newer <=> <<i, j>> \in monoState'.newer)
    BY <1>a, <1>b, PairsOfOrder
  <2> QED BY <1>3, <1>a, <2>1, <2>2, OtherChannels DEF Winner
<1>4. Winner(c)' = PriorityNote(Priority, monoState'.held, monoState'.newer, c)
  BY DEF Winner
<1>5. CASE Winner(c)' = k
  <2>1. monoState'.sounding = [monoState.sounding EXCEPT ![c] = k]
        /\ monoHeard' = (monoHeard \ ({monoState.sounding[c]} \ {None})) \union {k}
    BY <1>4, <1>5, MonoOnStep
  <2>2. \A d \in Channels : monoState'.sounding[d] = Winner(d)'
    BY <2>1, <1>3, <1>5, <1>0 DEF MonoTypeOK, MonoState
  <2>3. \A d \in Channels : {j \in monoHeard' : ChannelOf(j) = d} = {Winner(d)'} \ {None}
    BY <2>1, <1>3, <1>5, <1>0, PriorityAssumption DEF OnlyTheWinnerSounds, MonoTypeOK, MonoState
  <2> QED BY <1>1, <1>2, <2>2, <2>3 DEF OnlyTheWinnerSounds
<1>6. CASE Winner(c)' # k
  <2>1. monoState'.sounding = monoState.sounding /\ monoHeard' = monoHeard
    BY <1>4, <1>6, MonoOnStep
  <2>2. Winner(c)' = Winner(c)
    BY <1>4, <1>6, MonoOnStep, LoserWaits
  <2> QED BY <1>1, <1>2, <1>3, <2>1, <2>2 DEF OnlyTheWinnerSounds
<1> QED BY <1>5, <1>6

\* The winner of a channel sounds after a note-off.
LEMMA OffKeeps ==
  ASSUME MonoIInv, NEW k \in Keys, MonoReceives(NoteOff(k)), ~UNCHANGED monoVars
  PROVE  MonoIInv'
<1> DEFINE c == ChannelOf(k)
<1> USE DEF MonoIInv
<1>0. c \in Channels /\ \A j \in Keys : ChannelOf(j) \in Channels
  BY MonoChannelsOfKeys
<1>a. /\ monoState.held \in SUBSET Keys /\ monoState.newer \in SUBSET (Keys \X Keys)
      /\ monoState.sounding \in [Channels -> Keys \union {None}] /\ monoHeard \subseteq Keys
  BY DEF MonoTypeOK, MonoState
<1>b. /\ k \in monoState.held
      /\ monoState'.held = monoState.held \ {k}
      /\ monoState'.newer = Without(monoState.newer, k)
      /\ monoState' = [held |-> monoState'.held, newer |-> monoState'.newer, sounding |-> monoState'.sounding]
  BY MonoOffStep
<1>c. \A i, j : <<i, j>> \in monoState'.newer <=> <<i, j>> \in monoState.newer /\ i # k /\ j # k
  <2>1. \A i, j : <<i, j>> \in Without(monoState.newer, k) <=> <<i, j>> \in monoState.newer /\ i # k /\ j # k
    BY PairsOfOrder
  <2>2. monoState'.newer = Without(monoState.newer, k)
    BY <1>b
  <2> QED BY <2>1, <2>2, Zenon
<1>d. Winner(c)' = PriorityNote(Priority, monoState'.held, monoState'.newer, c)
  BY DEF Winner
<1>e. Winner(c)' \in monoState'.held \union {None}
  BY <1>d, WinnerIsHeld DEF Winners
<1>2. OrderOK'
  <2>1. monoState'.newer \subseteq monoState'.held \X monoState'.held
    BY <1>b DEF OrderOK, Without
  <2>2. \A i, j, l \in Keys : <<i, j>> \in monoState'.newer /\ <<j, l>> \in monoState'.newer => <<i, l>> \in monoState'.newer
    BY <1>c DEF OrderOK
  <2>3. \A i, j \in monoState'.held : i # j => <<i, j>> \in monoState'.newer \/ <<j, i>> \in monoState'.newer
    BY <1>b, <1>c DEF OrderOK
  <2> QED BY <1>c, <2>1, <2>2, <2>3 DEF OrderOK
<1>3. ASSUME NEW d \in Channels, d # c PROVE Winner(d)' = Winner(d)
  <2>1. monoState.held \ {k} = monoState'.held \ {k} /\ monoState'.held \in SUBSET Keys
    BY <1>a, <1>b
  <2> QED BY <1>3, <1>a, <1>c, <2>1, OtherChannels DEF Winner
<1>t. ASSUME monoState'.sounding \in [Channels -> Keys \union {None}], monoHeard' \subseteq Keys
      PROVE  MonoTypeOK'
  <2>1. monoState'.held \in SUBSET Keys /\ monoState'.newer \in SUBSET (Keys \X Keys)
    BY <1>a, <1>b DEF Without
  <2> QED BY <1>b, <1>t, <2>1 DEF MonoTypeOK, MonoState
<1>5. CASE monoState.sounding[c] = k
  <2>1. /\ monoState'.sounding = [monoState.sounding EXCEPT ![c] = Winner(c)']
        /\ monoHeard' = (monoHeard \ {k}) \union {j \in Keys : j = Winner(c)'}
    BY <1>5, <1>b, <1>d, MonoOffStep
  <2>2. \A d \in Channels : monoState'.sounding[d] = Winner(d)'
    BY <2>1, <1>3, <1>0, <1>a
  <2>3. Winner(c)' = None \/ (Winner(c)' \in Keys /\ ChannelOf(Winner(c)') = c)
    BY <1>d, <1>a, <1>b, WinnerIsHeld DEF Winners
  <2>4. \A d \in Channels : {j \in monoHeard' : ChannelOf(j) = d} = {Winner(d)'} \ {None}
    <3>1. ASSUME NEW d \in Channels, d # c
          PROVE  {j \in monoHeard' : ChannelOf(j) = d} = {Winner(d)'} \ {None}
      BY <3>1, <2>1, <2>3, <1>3, PriorityAssumption DEF OnlyTheWinnerSounds
    <3>2. {j \in monoHeard' : ChannelOf(j) = c} = {Winner(c)'} \ {None}
      BY <2>1, <2>3, <1>5, <1>0, PriorityAssumption DEF OnlyTheWinnerSounds
    <3> QED BY <3>1, <3>2
  <2>5. monoState'.sounding \in [Channels -> Keys \union {None}] /\ monoHeard' \subseteq Keys
    BY <2>1, <2>3, <1>a
  <2> QED BY <1>2, <1>t, <2>2, <2>4, <2>5 DEF OnlyTheWinnerSounds
<1>6. CASE monoState.sounding[c] # k
  <2>1. monoState'.sounding = monoState.sounding /\ monoHeard' = monoHeard
    BY <1>6, <1>b, MonoOffStep
  <2>2. Winner(c)' = Winner(c)
    BY <1>0, <1>6, <1>b, <1>d, WaiterLeaves
  <2> QED BY <1>2, <1>3, <1>t, <1>a, <2>1, <2>2 DEF OnlyTheWinnerSounds
<1> QED BY <1>5, <1>6

\* The winner sounds after every message, if it did before.
LEMMA MonoInductive == MonoIInv /\ [MonoNext]_monoVars => MonoIInv'
<1> SUFFICES ASSUME MonoIInv, [MonoNext]_monoVars PROVE MonoIInv'
  OBVIOUS
<1>1. CASE MonoPress
  BY <1>1, OnKeeps DEF MonoPress
<1>2. CASE MonoRelease /\ ~UNCHANGED monoVars
  BY <1>2, OffKeeps DEF MonoRelease
<1>3. CASE MonoPanic
  <2>1. \A c \in Channels : Winner(c)' = None
    BY <1>3 DEF MonoPanic, MonoReset, Winner, PriorityNote, Winners
  <2> QED BY <1>3, <2>1
          DEF MonoPanic, MonoReset, MonoIInv, MonoTypeOK, MonoState, OrderOK, OnlyTheWinnerSounds
<1>4. CASE UNCHANGED monoVars
  BY <1>4 DEF monoVars, MonoIInv, MonoTypeOK, OrderOK, OnlyTheWinnerSounds, Winner
<1> QED BY <1>1, <1>2, <1>3, <1>4 DEF MonoNext

\* README.md:465 for one input: "only one note sounds at a time", and it is the
\* one the priority chooses of the keys that are held, after every message.
THEOREM MonoPlaysTheWinner == MonoSpec => []OnlyTheWinnerSounds
<1>1. MonoInit => MonoIInv
  <2> SUFFICES ASSUME MonoInit PROVE MonoIInv
    OBVIOUS
  <2>1. \A c \in Channels : Winner(c) = None
    BY DEF MonoInit, MonoReset, Winner, PriorityNote, Winners
  <2> QED BY <2>1
          DEF MonoInit, MonoReset, MonoIInv, MonoTypeOK, MonoState, OrderOK, OnlyTheWinnerSounds
<1>2. MonoIInv => OnlyTheWinnerSounds
  BY DEF MonoIInv
<1> QED BY <1>1, <1>2, MonoInductive, PTL DEF MonoSpec

-----------------------------------------------------------------------------
(* The pressure of the hardest key.                                        *)

\* The module has what is needed of numbers.
Numbers == INSTANCE FoldFacts WITH Op <- PressedAfter

\* A sequence of one is flat when its element is.
LEMMA FlatOne == \A s : FlattenSeq(<<s>>) = s
<1> TAKE s
<1> DEFINE f == CHOOSE f : f = [i \in 1..1 |-> IF i = 1 THEN <<s>>[i] ELSE f[i - 1] \o <<s>>[i]]
           g == [i \in 1..1 |-> s]
<1>1. g = [i \in 1..1 |-> IF i = 1 THEN <<s>>[i] ELSE g[i - 1] \o <<s>>[i]]
  OBVIOUS
<1>2. f = [i \in 1..1 |-> IF i = 1 THEN <<s>>[i] ELSE f[i - 1] \o <<s>>[i]]
  <2> HIDE DEF g
  <2> QED BY <1>1
<1>3. f[1] = s
  <2> HIDE DEF f
  <2> QED BY <1>2
<1>4. FlattenSeq(<<s>>) = f[1]
  BY DEF FlattenSeq
<1> QED BY <1>3, <1>4

\* One rule is a rule of its own source and of no other.
LEMMA RulesOfOne ==
  ASSUME NEW r, NEW converting, NEW src, NEW num
  PROVE  RulesOf(<<r>>, converting, src, num) =
           IF (r.op = "convert") = converting /\ r.src = src /\ r.srcNum = num THEN <<r>> ELSE <<>>
<1> DEFINE rs == <<r>>
           Fits(x) == (x.op = "convert") = converting /\ x.src = src /\ x.srcNum = num
           f == CHOOSE f : f = [i \in 0..1 |-> IF i = 0 THEN <<>>
                                               ELSE IF Fits(rs[i]) THEN Append(f[i - 1], rs[i]) ELSE f[i - 1]]
           g == [i \in 0..1 |-> IF i = 0 THEN <<>> ELSE IF Fits(r) THEN <<r>> ELSE <<>>]
<1>1. Len(rs) = 1 /\ rs[1] = r /\ Append(<<>>, r) = <<r>>
  OBVIOUS
<1>2. RulesOf(rs, converting, src, num) = f[1]
  BY <1>1 DEF RulesOf
<1> HIDE DEF rs, Fits
<1>3. g = [i \in 0..1 |-> IF i = 0 THEN <<>>
                          ELSE IF Fits(rs[i]) THEN Append(g[i - 1], rs[i]) ELSE g[i - 1]]
  <2>1. \A i \in 0..1 : i = 0 \/ i = 1
    OBVIOUS
  <2>2. g[0] = <<>> /\ g[1] = IF Fits(r) THEN <<r>> ELSE <<>>
    OBVIOUS
  <2>3. g = [i \in 0..1 |-> g[i]]
    OBVIOUS
  <2> HIDE DEF g
  <2>4. \A i \in 0..1 : g[i] = IF i = 0 THEN <<>>
                               ELSE IF Fits(rs[i]) THEN Append(g[i - 1], rs[i]) ELSE g[i - 1]
    <3>1. Fits(rs[1]) <=> Fits(r)
      BY <1>1
    <3>2. g[1] = IF Fits(rs[1]) THEN Append(g[0], rs[1]) ELSE g[0]
      <4>1. CASE Fits(r)
        BY <1>1, <2>2, <3>1, <4>1
      <4>2. CASE ~Fits(r)
        BY <1>1, <2>2, <3>1, <4>2
      <4> QED BY <4>1, <4>2
    <3>3. 1 - 1 = 0 /\ 1 # 0
      OBVIOUS
    <3> QED BY <2>1, <2>2, <3>2, <3>3
  <2> QED BY <2>3, <2>4
<1>4. f = [i \in 0..1 |-> IF i = 0 THEN <<>>
                          ELSE IF Fits(rs[i]) THEN Append(f[i - 1], rs[i]) ELSE f[i - 1]]
  <2> HIDE DEF g
  <2> QED BY <1>3
<1>5. f[1] = IF Fits(r) THEN <<r>> ELSE <<>>
  <2> HIDE DEF f
  <2>1. f[0] = <<>>
    BY <1>4
  <2>2. f[1] = IF Fits(rs[1]) THEN Append(f[0], rs[1]) ELSE f[0]
    <3> HIDE DEF g
    <3>1. \A i \in 0..1 : f[i] = IF i = 0 THEN <<>>
                                 ELSE IF Fits(rs[i]) THEN Append(f[i - 1], rs[i]) ELSE f[i - 1]
      BY <1>4
    <3>2. 1 \in 0..1 /\ 1 # 0 /\ 1 - 1 = 0
      OBVIOUS
    <3> QED BY <3>1, <3>2
  <2>3. Fits(rs[1]) <=> Fits(r)
    BY <1>1
  <2>4. CASE Fits(r)
    BY <1>1, <2>1, <2>2, <2>3, <2>4
  <2>5. CASE ~Fits(r)
    BY <1>1, <2>1, <2>2, <2>3, <2>5
  <2> QED BY <2>4, <2>5
<1> QED BY <1>2, <1>5 DEF rs, Fits

\* What the rule sends of a pressure.
LEMMA CollapseEmits ==
  /\ ConvertsOf(CollapseRule, "pp", AnyNote) = CollapseRule
  /\ \A n \in PressedNotes : ConvertsOf(CollapseRule, "pp", n) = <<>>
  /\ \A v : EmitAll(CollapseRule, v, 7) = <<[kind |-> "cp", number |-> 0, value |-> v]>>
  /\ \A v : EmitAll(<<>>, v, 7) = <<>>
<1> DEFINE r == [op |-> "convert", src |-> "pp", srcNum |-> AnyNote, dst |-> "cp", dstNum |-> 0, amount |-> 0]
<1>1. CollapseRule = <<r>>
  BY DEF CollapseRule
<1>2. ConvertsOf(<<r>>, "pp", AnyNote) = <<r>>
  BY RulesOfOne DEF ConvertsOf
<1>3. \A n \in PressedNotes : ConvertsOf(<<r>>, "pp", n) = <<>>
  <2> TAKE n \in PressedNotes
  <2>1. AnyNote # n
    BY PressureAssumption DEF AnyNote
  <2> QED BY <2>1, RulesOfOne DEF ConvertsOf
<1>4. ASSUME NEW v PROVE EmitAll(<<r>>, v, 7) = <<[kind |-> "cp", number |-> 0, value |-> v]>>
  <2>1. Emit(r, v, 7) = <<[kind |-> "cp", number |-> 0, value |-> v]>>
    BY DEF Emit, ScaleValue, ValueBits
  <2>2. [i \in DOMAIN <<r>> |-> Emit(<<r>>[i], v, 7)] = <<Emit(r, v, 7)>>
    OBVIOUS
  <2> QED BY <2>1, <2>2, FlatOne DEF EmitAll
<1>5. ASSUME NEW v PROVE EmitAll(<<>>, v, 7) = <<>>
  <2>1. [i \in DOMAIN <<>> |-> Emit(<<>>[i], v, 7)] = <<>>
    OBVIOUS
  <2> QED BY <2>1 DEF EmitAll, FlattenSeq
<1> QED BY <1>1, <1>2, <1>3, <1>4, <1>5

\* What a message of a key does.
LEMMA FingerStep ==
  ASSUME NEW kind \in {"on", "off", "pp"}, NEW n \in PressedNotes, NEW v, Finger(kind, n, v),
         {"pressure", "lastMax"} \subseteq DOMAIN collapse
  PROVE  LET pressed == PressedAfter(collapse.pressure, [kind |-> kind, number |-> n, value |-> v])
             highest == MaxPressure(pressed)
             tells   == kind # "on" /\ highest # collapse.lastMax
         IN /\ {"pressure", "lastMax"} \subseteq DOMAIN collapse' /\ collapse'.pressure = pressed
            /\ collapse'.lastMax = IF tells THEN highest ELSE collapse.lastMax
            /\ channelPressure' = IF tells THEN highest ELSE channelPressure
            /\ unspoken' = (unspoken /\ ~tells)
<1> DEFINE m == [kind |-> kind, number |-> n, value |-> v]
           pressed == PressedAfter(collapse.pressure, m)
           highest == MaxPressure(pressed)
           tells   == kind # "on" /\ highest # collapse.lastMax
           told    == [kind |-> "cp", number |-> 0, value |-> highest]
           first   == IF tells THEN <<told>> ELSE <<>>
           rest    == IF kind = "pp" THEN <<>> ELSE <<m>>
           state   == [collapse EXCEPT !.pressure = pressed, !.lastMax = IF tells THEN highest ELSE @]
           result  == ProcessMessage(CollapseRule, collapse, m)
<1>1. m.kind = kind /\ m.number = n /\ m.value = v
  OBVIOUS
<1>2. result = ConvertPressure(CollapseRule, collapse, m)
  <2>1. CollapseRule # <<>>
    BY DEF CollapseRule
  <2> QED BY <1>1, <2>1, CollapseEmits DEF ProcessMessage, ConvertNonController
<1>3. result = Converted(state, first \o rest)
  BY <1>1, <1>2, CollapseEmits DEF ConvertPressure, Collapsed
<1>4. result.state = state /\ result.out = first \o rest
  BY <1>3 DEF Converted
<1> HIDE DEF result
<1>5. PICK cps : /\ cps = {i \in DOMAIN result.out : result.out[i].kind = "cp"}
                 /\ collapse' = result.state
                 /\ channelPressure' = IF cps = {} THEN channelPressure ELSE result.out[Max(cps)].value
                 /\ unspoken' = (unspoken /\ cps = {})
  BY DEF Finger, result
<1>6. CASE tells
  <2>1. DOMAIN (first \o rest) \subseteq 1..2 /\ 1 \in DOMAIN (first \o rest) /\ (first \o rest)[1] = told
    BY <1>6
  <2>2. 2 \in DOMAIN (first \o rest) => (first \o rest)[2] = m
    BY <1>6
  <2>3. cps = {1}
    <3>1. told.kind = "cp" /\ m.kind # "cp"
      OBVIOUS
    <3> HIDE DEF first, rest, m, told
    <3> QED BY <1>4, <1>5, <2>1, <2>2, <3>1
  <2>4. Max(cps) = 1
    BY <2>3 DEF Max
  <2>5. told.value = highest
    OBVIOUS
  <2>6. channelPressure' = highest /\ unspoken' = FALSE
    <3> HIDE DEF first, rest, m, told, highest
    <3> QED BY <1>4, <1>5, <2>1, <2>3, <2>4, <2>5
  <2>7. unspoken' = (unspoken /\ ~tells)
    BY <1>6, <2>6
  <2> QED BY <1>4, <1>5, <1>6, <2>6, <2>7
<1>7. CASE ~tells
  <2>1. \A i \in DOMAIN (first \o rest) : (first \o rest)[i] = m
    BY <1>7
  <2>2. kind # "cp"
    OBVIOUS
  <2>3. cps = {}
    <3> HIDE DEF first, rest
    <3> QED BY <1>1, <1>4, <1>5, <2>1, <2>2
  <2>4. unspoken' = (unspoken /\ TRUE) /\ channelPressure' = channelPressure
    BY <1>5, <2>3
  <2> QED BY <1>4, <1>5, <1>7, <2>4
<1> QED BY <1>6, <1>7

-----------------------------------------------------------------------------
Fingers == [PressedNotes -> -1..127]

\* The hardest pressure is that of some key, or zero.
LEMMA HardestExists ==
  ASSUME NEW p \in Fingers
  PROVE  /\ MaxPressure(p) \in {0} \union {p[n] : n \in PressedNotes}
         /\ MaxPressure(p) >= 0 /\ \A n \in PressedNotes : p[n] <= MaxPressure(p)
<1> DEFINE S == {0} \union {p[n] : n \in PressedNotes}
           T == {127 - v : v \in S}
<1>1. \A v \in S : v \in -1..127
  BY DEF Fingers
<1>2. T \in SUBSET Nat /\ T # {}
  BY <1>1
<1>3. PICK x \in T : \A y \in T : x <= y
  <2> HIDE DEF T
  <2> QED BY <1>2, Numbers!LeastNumber
<1>4. PICK v \in S : x = 127 - v
  OBVIOUS
<1>5. \A w \in S : 127 - v <= 127 - w
  BY <1>3, <1>4
<1>6. v >= 0 /\ \A n \in PressedNotes : p[n] <= v
  <2>1. \A w \in S : w <= v
    BY <1>1, <1>5
  <2> QED BY <2>1
<1>7. \E w \in S : w >= 0 /\ \A n \in PressedNotes : p[n] <= w
  BY <1>6
<1> HIDE DEF S, T
<1>8. MaxPressure(p) = CHOOSE w \in S : w >= 0 /\ \A n \in PressedNotes : p[n] <= w
  BY DEF MaxPressure, S
<1> QED BY <1>7, <1>8 DEF S

\* A key that is struck changes nothing about it.
LEMMA StrikeIsLight ==
  ASSUME NEW p \in Fingers, NEW n \in PressedNotes, p[n] < 0
  PROVE  MaxPressure([p EXCEPT ![n] = 0]) = MaxPressure(p)
<1> DEFINE q == [p EXCEPT ![n] = 0]
<1>1. p[n] \in Int /\ q \in Fingers
  BY DEF Fingers
<1>2. q[n] = 0 /\ \A k \in PressedNotes : k # n => q[k] = p[k]
  BY DEF Fingers
<1>3. \A k \in PressedNotes : p[k] \in Int /\ q[k] \in Int
  BY <1>1 DEF Fingers
<1>4. /\ MaxPressure(p) \in Int /\ MaxPressure(q) \in Int
  <2> HIDE DEF q
  <2> QED BY <1>1, <1>3, HardestExists
<1>5. MaxPressure(q) <= MaxPressure(p)
  <2> HIDE DEF q
  <2>1. MaxPressure(q) \in {0} \union {q[k] : k \in PressedNotes}
    BY <1>1, HardestExists
  <2>2. MaxPressure(p) >= 0 /\ \A k \in PressedNotes : p[k] <= MaxPressure(p)
    BY <1>1, HardestExists
  <2> QED BY <1>2, <1>3, <1>4, <2>1, <2>2
<1>6. MaxPressure(p) <= MaxPressure(q)
  <2> HIDE DEF q
  <2>1. MaxPressure(p) \in {0} \union {p[k] : k \in PressedNotes}
    BY <1>1, HardestExists
  <2>2. MaxPressure(q) >= 0 /\ \A k \in PressedNotes : q[k] <= MaxPressure(q)
    BY <1>1, HardestExists
  <2> QED BY <1>2, <1>3, <1>4, <2>1, <2>2
<1> QED BY <1>4, <1>5, <1>6

\* The stage knows the keys as they are, and what it told last when it told
\* anything since it was fresh.
PressureInv ==
  /\ fingers \in Fingers
  /\ {"pressure", "lastMax"} \subseteq DOMAIN collapse
  /\ collapse.pressure = fingers
  /\ collapse.lastMax \in {-1, channelPressure}
  /\ FollowsHardestOnceTold

\* A key that moves keeps the invariant, and a key that is struck.
LEMMA FingerKeeps ==
  ASSUME NEW kind \in {"on", "off", "pp"}, NEW n \in PressedNotes, NEW v, Finger(kind, n, v), PressureInv,
         fingers' \in Fingers,
         fingers' = PressedAfter(fingers, [kind |-> kind, number |-> n, value |-> v]),
         kind = "on" => MaxPressure(fingers') = MaxPressure(fingers)
  PROVE  PressureInv'
<1> DEFINE tells == kind # "on" /\ MaxPressure(fingers') # collapse.lastMax
<1>1. /\ {"pressure", "lastMax"} \subseteq DOMAIN collapse' /\ collapse'.pressure = fingers'
      /\ collapse'.lastMax = IF tells THEN MaxPressure(fingers') ELSE collapse.lastMax
      /\ channelPressure' = IF tells THEN MaxPressure(fingers') ELSE channelPressure
      /\ unspoken' = (unspoken /\ ~tells)
  BY FingerStep DEF PressureInv
<1>2. MaxPressure(fingers') >= 0 /\ MaxPressure(fingers') \in Int
  <2>1. \A k \in PressedNotes : fingers'[k] \in Int
    BY DEF Fingers
  <2> QED BY <2>1, HardestExists
<1>3. collapse'.lastMax \in {-1, channelPressure'}
  BY <1>1 DEF PressureInv
<1>4. unspoken' \/ channelPressure' = MaxPressure(fingers')
  <2>1. CASE tells
    BY <1>1, <2>1
  <2>2. CASE kind = "on"
    BY <1>1, <2>2 DEF PressureInv, FollowsHardestOnceTold
  <2>3. CASE kind # "on" /\ MaxPressure(fingers') = collapse.lastMax
    BY <1>1, <1>2, <2>3 DEF PressureInv
  <2> QED BY <2>1, <2>2, <2>3
<1> QED BY <1>1, <1>3, <1>4 DEF PressureInv, FollowsHardestOnceTold

\* README.md:507: the channel pressure that convert pp cp leaves on the instrument
\* is that of the hardest key, from the first word that it says of pressure on, for
\* any keys and pressures, through note-ons, releases and panics.
THEOREM HardestKeyIsHeard == PressureSpec => []FollowsHardestOnceTold
<1>1. PressureInit => PressureInv
  <2> SUFFICES ASSUME PressureInit PROVE PressureInv
    OBVIOUS
  <2>1. fingers \in Fingers /\ fingers = [n \in PressedNotes |-> -1]
    BY DEF PressureInit, Fingers
  <2>2. MaxPressure(fingers) = 0
    BY <2>1, HardestExists
  <2> QED BY <2>1, <2>2 DEF PressureInit, FreshConverter, PressureInv, FollowsHardestOnceTold
<1>2. PressureInv /\ [PressureNext]_pressureVars => PressureInv'
  <2> SUFFICES ASSUME PressureInv, [PressureNext]_pressureVars PROVE PressureInv'
    OBVIOUS
  <2>0. fingers \in Fingers
    BY DEF PressureInv
  <2>1. ASSUME NEW n \in PressedNotes, Strike(n) PROVE PressureInv'
    <3>1. fingers' = [fingers EXCEPT ![n] = 0] /\ fingers[n] < 0 /\ Finger("on", n, 64)
      BY <2>1 DEF Strike
    <3>2. fingers' \in Fingers
      BY <2>0, <3>1 DEF Fingers
    <3>3. fingers' = PressedAfter(fingers, [kind |-> "on", number |-> n, value |-> 64])
      BY <2>0, <3>1 DEF PressedAfter, Fingers
    <3> QED BY <2>0, <3>1, <3>2, <3>3, StrikeIsLight, FingerKeeps
  <2>2. ASSUME NEW n \in PressedNotes, NEW v \in Pressures, Lean(n, v) PROVE PressureInv'
    <3>1. fingers' = [fingers EXCEPT ![n] = v] /\ Finger("pp", n, v)
      BY <2>2 DEF Lean
    <3>2. fingers' \in Fingers
      BY <2>0, <3>1, PressureAssumption DEF Fingers
    <3>3. fingers' = PressedAfter(fingers, [kind |-> "pp", number |-> n, value |-> v])
      BY <3>1 DEF PressedAfter
    <3> QED BY <3>1, <3>2, <3>3, FingerKeeps
  <2>3. ASSUME NEW n \in PressedNotes, Lift(n) PROVE PressureInv'
    <3>1. fingers' = [fingers EXCEPT ![n] = -1] /\ Finger("off", n, 0)
      BY <2>3 DEF Lift
    <3>2. fingers' \in Fingers
      BY <2>0, <3>1 DEF Fingers
    <3>3. fingers' = PressedAfter(fingers, [kind |-> "off", number |-> n, value |-> 0])
      BY <3>1 DEF PressedAfter
    <3> QED BY <3>1, <3>2, <3>3, FingerKeeps
  <2>4. CASE PressurePanic
    BY <2>4 DEF PressurePanic, PressureInv, Fingers, FreshConverter, FollowsHardestOnceTold
  <2>5. CASE UNCHANGED pressureVars
    BY <2>5 DEF pressureVars, PressureInv, FollowsHardestOnceTold
  <2> QED BY <2>1, <2>2, <2>3, <2>4, <2>5 DEF PressureNext
<1>3. PressureInv => FollowsHardestOnceTold
  BY DEF PressureInv
<1> QED BY <1>1, <1>2, <1>3, PTL DEF PressureSpec
=============================================================================
