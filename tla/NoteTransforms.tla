--------------------------- MODULE NoteTransforms ---------------------------
(* One route: keyboards with pedals play through the route's transforms    *)
(* into one instrument, while an MCP client edits the transforms, inputs   *)
(* vanish and the panic safety net fires. Every action runs under the      *)
(* callback lock, so it is atomic; RouteEngine models the lock itself. The *)
(* state of the transforms belongs to the input and is shared by all       *)
(* transforms of one kind, as in RouteInput.                               *)
EXTENDS Sustain, Mono, Sequences, FiniteSets, SequencesExt

CONSTANTS
  Inputs,       \* the inputs merged into the route
  Chains,       \* the transforms the route may start with
  Edits,        \* the edits the client makes, of {"add", "replace", "remove"}
  Commands,     \* the transforms those edits bring in
  MaxChain,     \* bound on the number of transforms
  Interval,     \* what chord stacks on a note and transp moves it by
  Remapped      \* the note that notemap moves, and where to

VARIABLES
  chain,        \* route.transforms
  inputs,       \* what each input remembers for its transforms
  keys,         \* the keys that are physically down, per input
  feet,         \* the pedals that are physically down, per input
  heard,        \* the keys that sound on the instrument
  restruck,     \* the keys the last message struck while they sounded
  unsettled     \* the edits since the last panic

vars == <<chain, inputs, keys, feet, heard, restruck, unsettled>>

Latches == {"hold", "toggle"}
PedalCommands == {"sustain", "sost"}
Plain == {"chord", "transp", "notemap"}     \* those that remember nothing
AllCommands == Latches \union Priorities \union PedalCommands \union Plain

ASSUME StageAssumption ==
  /\ Chains \subseteq Seq(AllCommands) /\ Commands \subseteq AllCommands
  /\ Edits \subseteq {"add", "replace", "remove"}
  /\ MaxChain \in Nat /\ Interval \in Int /\ Remapped \in Notes \X Notes

-----------------------------------------------------------------------------
(* LatchState: notes that keep sounding after their key is released.       *)

LatchClear == [latched |-> {}, held |-> {}, heldCount |-> 0]

\* Mutant: every press replaces the chord.
HoldNoteOnAlone(s, k) ==
  Result([latched |-> {k}, held |-> s.held \union {k}, heldCount |-> 1],
         s.latched \ {k}, <<NoteOn(k)>>)

\* Hold mode: the first key of a new gesture replaces the held chord.
HoldNoteOn(s, k) ==
  LET old == IF s.heldCount = 0 THEN s.latched ELSE {} IN
  Result([latched   |-> (s.latched \ old) \union {k},
          held      |-> s.held \union {k},
          heldCount |-> IF k \in s.held THEN s.heldCount ELSE s.heldCount + 1],
         old, <<NoteOn(k)>>)

\* Toggle mode: every press of a key flips its note.
ToggleNoteOn(s, k) ==
  IF k \in s.latched
  THEN Result([s EXCEPT !.latched = @ \ {k}], {k}, <<>>)
  ELSE Result([s EXCEPT !.latched = @ \union {k}], {}, <<NoteOn(k)>>)

\* Note-offs are swallowed in both modes.
LatchNoteOff(hold, s, k) ==
  IF hold /\ k \in s.held
  THEN Result([s EXCEPT !.held = @ \ {k}, !.heldCount = @ - 1], {}, <<>>)
  ELSE Result(s, {}, <<>>)

LatchProcess(hold, s, m) ==
  CASE m.kind = "on"  -> IF hold THEN HoldNoteOn(s, m.key) ELSE ToggleNoteOn(s, m.key)
    [] m.kind = "off" -> LatchNoteOff(hold, s, m.key)
    [] OTHER          -> Result(s, {}, <<m>>)

-----------------------------------------------------------------------------
Clear == [latch |-> LatchClear, mono |-> MonoReset,
          sustain |-> SustainClear, sost |-> SustainClear]

-----------------------------------------------------------------------------
(* applyTransforms: every message one transform sends on passes through    *)
(* the next.                                                               *)

\* TRANSPOSE; a note outside of the range is dropped.
Above(k) == {<<ChannelOf(k), NoteOf(k) + Interval>>} \intersect Keys

\* NOTE_MAP
Mapped(k) == <<ChannelOf(k), IF NoteOf(k) = Remapped[1] THEN Remapped[2] ELSE NoteOf(k)>>

\* The notes that a key plays, the key's own first.
Notated(cmd, k) ==
  CASE cmd = "chord"   -> <<k>> \o SetToSeq(Above(k))
    [] cmd = "transp"  -> SetToSeq(Above(k))
    [] cmd = "notemap" -> <<Mapped(k)>>

\* note-on and note-off alike.
Renote(cmd, s, m) ==
  [state |-> s,
   msgs  |-> IF m.kind \notin {"on", "off"} THEN <<m>>
             ELSE [i \in DOMAIN Notated(cmd, m.key) |-> [m EXCEPT !.key = Notated(cmd, @)[i]]]]

\* releaseLatched and releaseSustained go by channel, then by note.
InOrder(S) ==
  SetToSortSeq(S, LAMBDA j, k : \/ ChannelOf(j) < ChannelOf(k)
                                \/ ChannelOf(j) = ChannelOf(k) /\ NoteOf(j) < NoteOf(k))

Sent(offs, rest) == LET offSeq == InOrder(offs) IN [i \in DOMAIN offSeq |-> NoteOff(offSeq[i])] \o rest

With(s, part, r) == [state |-> [s EXCEPT ![part] = r.state], msgs |-> Sent(r.offs, r.rest)]

Transform(cmd, s, m) ==
  CASE cmd \in Plain       -> Renote(cmd, s, m)
    [] cmd \in Latches     -> With(s, "latch", LatchProcess(cmd = "hold", s.latch, m))
    [] cmd \in Priorities  -> With(s, "mono", MonoProcess(cmd, s.mono, m))
    [] cmd = "sustain"     -> With(s, "sustain", SustainProcess(FALSE, s.sustain, m))
    [] cmd = "sost"        -> With(s, "sost", SustainProcess(TRUE, s.sost, m))

TransformAll(cmd, s, msgs) ==
  FoldLeft(LAMBDA done, m : LET r == Transform(cmd, done.state, m)
                            IN [state |-> r.state, msgs |-> done.msgs \o r.msgs],
           [state |-> s, msgs |-> <<>>], msgs)

ApplyTransforms(s, m) ==
  FoldLeft(LAMBDA done, cmd : TransformAll(cmd, done.state, done.msgs),
           [state |-> s, msgs |-> <<m>>], chain)

\* The instrument obeys the notes and not the pedals. A note struck while it
\* sounds is remembered until the note ends.
Play(sound, m) ==
  CASE m.kind = "on"  -> [heard |-> sound.heard \union {m.key},
                          restruck |-> sound.restruck \union (sound.heard \intersect {m.key})]
    [] m.kind = "off" -> [heard |-> sound.heard \ {m.key}, restruck |-> sound.restruck \ {m.key}]
    [] OTHER          -> sound
-----------------------------------------------------------------------------
(* Actions                                                                 *)

Receive(i, m) ==
  \E through \in {ApplyTransforms(inputs[i], m)} :
    /\ inputs' = [inputs EXCEPT ![i] = through.state]
    /\ \E sound \in {FoldLeft(Play, [heard |-> heard, restruck |-> {}], through.msgs)} :
         heard' = sound.heard /\ restruck' = sound.restruck
    /\ UNCHANGED <<chain, unsettled>>

Press(i, k) ==
  /\ k \notin keys[i]
  /\ keys' = [keys EXCEPT ![i] = @ \union {k}]
  /\ Receive(i, NoteOn(k))
  /\ UNCHANGED feet

Release(i, k) ==
  /\ k \in keys[i]
  /\ keys' = [keys EXCEPT ![i] = @ \ {k}]
  /\ Receive(i, NoteOff(k))
  /\ UNCHANGED feet

StepOn(i, p, c) ==
  /\ <<p, c>> \notin feet[i]
  /\ feet' = [feet EXCEPT ![i] = @ \union {<<p, c>>}]
  /\ Receive(i, PedalMove(p, c, TRUE))
  /\ UNCHANGED keys

StepOff(i, p, c) ==
  /\ <<p, c>> \in feet[i]
  /\ feet' = [feet EXCEPT ![i] = @ \ {<<p, c>>}]
  /\ Receive(i, PedalMove(p, c, FALSE))
  /\ UNCHANGED keys

\* Mutant: the instrument is silenced and the inputs keep what they tracked.
SilencedOutput ==
  /\ heard' = {}
  /\ restruck' = {}
  /\ unsettled' = {}
  /\ UNCHANGED <<chain, inputs>>

\* sendPanic: all notes off, and every input forgets what it tracked.
Silenced ==
  /\ inputs' = [i \in Inputs |-> Clear]
  /\ heard' = {}
  /\ restruck' = {}
  /\ unsettled' = {}
  /\ UNCHANGED chain

Panic ==
  /\ heard # {} \/ unsettled # {}
  /\ Silenced
  /\ UNCHANGED <<keys, feet>>

\* An input of a panic route disconnects; its player lets go meanwhile.
Disconnect(i) ==
  /\ keys[i] # {} \/ feet[i] # {}
  /\ keys' = [keys EXCEPT ![i] = {}]
  /\ feet' = [feet EXCEPT ![i] = {}]
  /\ Silenced

\* cleanupAfterCommandChange
Cleanup(s, cmd) ==
  CASE cmd \in Latches    -> [s EXCEPT !.latch = LatchClear]
    [] cmd \in Priorities -> [s EXCEPT !.mono = MonoReset]
    [] cmd = "sustain"    -> [s EXCEPT !.sustain = SustainClear]
    [] cmd = "sost"       -> [s EXCEPT !.sost = SustainClear]
    [] cmd \in Plain      -> s

Edited(edit) ==
  /\ edit \in Edits
  /\ unsettled' = unsettled \union {edit}
  /\ restruck' = {}
  /\ UNCHANGED <<keys, feet, heard>>

AddCommand(cmd) ==
  /\ Len(chain) < MaxChain
  /\ chain' = Append(chain, cmd)
  /\ Edited("add")
  /\ UNCHANGED inputs

ReplaceCommand(n, cmd) ==
  /\ chain' = [chain EXCEPT ![n] = cmd]
  /\ inputs' = [i \in Inputs |-> Cleanup(Cleanup(inputs[i], chain[n]), cmd)]
  /\ Edited("replace")

RemoveCommand(n) ==
  /\ chain' = RemoveAt(chain, n)
  /\ inputs' = [i \in Inputs |-> Cleanup(inputs[i], chain[n])]
  /\ Edited("remove")

Init ==
  /\ chain \in Chains
  /\ inputs = [i \in Inputs |-> Clear]
  /\ keys = [i \in Inputs |-> {}]
  /\ feet = [i \in Inputs |-> {}]
  /\ heard = {}
  /\ restruck = {}
  /\ unsettled = {}

Next ==
  \/ \E i \in Inputs, k \in Keys : Press(i, k) \/ Release(i, k)
  \/ \E i \in Inputs, p \in Pedals, c \in Channels : StepOn(i, p, c) \/ StepOff(i, p, c)
  \/ Panic
  \/ \E i \in Inputs : Disconnect(i)
  \/ \E cmd \in Commands : AddCommand(cmd)
  \/ \E n \in DOMAIN chain : RemoveCommand(n)
  \/ \E n \in DOMAIN chain, cmd \in Commands : ReplaceCommand(n, cmd)

Spec == Init /\ [][Next]_vars
-----------------------------------------------------------------------------
(* Properties                                                              *)

\* The panic that edits call for has been sent, and no two transforms of the
\* route share the state of their kind.
Kinds == {Latches, Priorities, {"sustain"}, {"sost"}}
Unshared == \A K \in Kinds : Cardinality({n \in DOMAIN chain : chain[n] \in K}) <= 1
Settled == unsettled = {} /\ Unshared

\* What a transform lets sound, from what it remembers.
Keeps(s, cmd) ==
  CASE cmd \in Latches    -> s.latch.latched
    [] cmd \in Priorities -> {s.mono.sounding[c] : c \in Channels} \ {None}
    [] cmd = "sustain"    -> s.sustain.keyDown \union s.sustain.sustained
    [] cmd = "sost"       -> s.sost.keyDown \union s.sost.sustained

Keepers == {n \in DOMAIN chain : chain[n] \notin Plain}
LastKeeper == CHOOSE n \in Keepers : \A j \in Keepers : j <= n

Stacked(S, n) ==
  FoldLeft(LAMBDA T, cmd : IF cmd \in Plain THEN UNION {Range(Notated(cmd, k)) : k \in T} ELSE T,
           S, SubSeq(chain, n, Len(chain)))

Kept(i) ==
  IF Keepers = {} THEN Stacked(keys[i], 1)
  ELSE Stacked(Keeps(inputs[i], chain[LastKeeper]), LastKeeper)

\* Every note that sounds is still known to the last transform that keeps
\* notes, of some input, or is held down if there is none: something will
\* release it. This is what all the tracking of latch, mono and the pedals is
\* for, through any chain, two merged keyboards, panics and, once the panic
\* that AI.md asks for has been sent, edits.
NothingHangs == Settled => heard \subseteq UNION {Kept(i) : i \in Inputs}

\* With every key and every pedal up a route without latch is silent: no
\* order of keys, pedals, priorities, panics and lost inputs leaves a note.
HandsOffSilence ==
  (/\ Settled
   /\ \A i \in Inputs : keys[i] = {} /\ feet[i] = {}
   /\ \A n \in DOMAIN chain : chain[n] \notin Latches) => heard = {}

\* Mono at the end of a route keeps a channel at a number of notes.
AtMostNotes(number) ==
  (Settled /\ Keepers # {} /\ LastKeeper = Len(chain) /\ chain[LastKeeper] \in Priorities) =>
    \A c \in Channels : Cardinality(OnChannel(heard, c)) <= number

\* No note of a settled route is struck again while it sounds. (latch in
\* hold mode strikes sounding notes, and with chord and notemap two keys may
\* play one note.)
NoRestrike ==
  (Settled /\ \A n \in DOMAIN chain : chain[n] \notin {"hold", "chord", "notemap"}) => restruck = {}

\* latch hold lets go of the chord only when the first key of a new gesture
\* is pressed, all keys it saw pressed having been released.
HeldUntilNewGesture ==
  [][(chain = <<"hold">> /\ chain' = chain /\ Settled /\ ~(heard \subseteq heard') /\ heard' # {}) =>
       \A i \in Inputs : inputs[i].latch.held = {} \/ inputs'[i] = inputs[i]]_vars
=============================================================================
