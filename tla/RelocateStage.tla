--------------------------- MODULE RelocateStage ---------------------------
(* A relocation between an MPE controller, which gives every finger a      *)
(* channel and a key of its own, and an instrument. One kind of expression *)
(* is played per behaviour; the kinds do not meet in the code.             *)
EXTENDS MpeRelocate, McmTracker

CONSTANT MovedDials    \* the values of a member channel's expression

ASSUME RelocateStageAssumption == MovedDials \subseteq Nat

VARIABLES
  relocator,        \* the Relocator of the input
  relocateMcm,      \* the McmTracker's last announced member count
  relocateKind,     \* the expression that is played
  relocateDials,    \* what each channel sent since its last release
  relocateSynth,    \* the instrument's channels: their notes, the newest last, and expression
  bentBehind        \* the instrument's channels that a panic left bent

relocateVars == <<relocator, relocateMcm, relocateKind, relocateDials, relocateSynth, bentBehind>>

SilentZone == [d \in Dst!MemberChannels |-> [notes |-> <<>>, expr |-> 0]]

ZoneHears(synth, m) ==
  IF m.channel \notin Dst!MemberChannels THEN synth
  ELSE [synth EXCEPT ![m.channel] =
          CASE m.kind = "on"  -> [@ EXCEPT !.notes = Append(Remove(@, m.note), m.note)]
            [] m.kind = "off" -> [@ EXCEPT !.notes = Remove(@, m.note)]
            [] OTHER          -> [@ EXCEPT !.expr = m.value]]

RelocateSends(r, synth, bent, m) ==
  \E moved \in {Relocate(r, m)} :
     /\ relocator' = moved.relocator
     /\ relocateSynth' = FoldLeft(ZoneHears, synth, moved.msgs)
     /\ bentBehind' = bent \ {moved.msgs[i].channel : i \in {j \in DOMAIN moved.msgs : moved.msgs[j].kind = "bend"}}

RelocatePress(c) ==
  /\ \A d \in Dst!MemberChannels : c \notin ToSet(relocateSynth[d].notes)
  /\ RelocateSends(relocator, relocateSynth, bentBehind, On(c, c))
  /\ UNCHANGED <<relocateMcm, relocateKind, relocateDials>>

\* Also of a key whose note a panic or a new configuration has ended.
RelocateLift(c) ==
  /\ relocateDials' = [relocateDials EXCEPT ![c] = Unset]
  /\ RelocateSends(relocator, relocateSynth, bentBehind, Off(c, c))
  /\ UNCHANGED <<relocateMcm, relocateKind>>

\* Also ahead of a note, which is where a note's first bend is sent.
RelocateTurn(c, v) ==
  /\ relocateDials[c] # v
  /\ relocateDials' = [relocateDials EXCEPT ![c] = v]
  /\ RelocateSends(relocator, relocateSynth, bentBehind, Expression(relocateKind, c, v))
  /\ UNCHANGED <<relocateMcm, relocateKind>>

\* sendPanic ends the notes and leaves the instrument's expression.
RelocatePanic ==
  /\ relocator' = FreshRelocator
  /\ relocateDials' = [c \in MemberChannels |-> Unset]
  /\ relocateSynth' = [d \in Dst!MemberChannels |-> [relocateSynth[d] EXCEPT !.notes = <<>>]]
  /\ bentBehind' = {d \in Dst!MemberChannels : relocateKind = "bend" /\ relocateSynth[d].expr # 0}
  /\ UNCHANGED <<relocateMcm, relocateKind>>

\* sendZoneReset ends the notes and resets the controllers, before the
\* announcement itself moves on.
RelocateAnnounce(members) ==
  LET message == Announcement(ManagerChannel, members) IN
  /\ relocateMcm' = members
  /\ IF ResetsZone(relocateMcm, members)
     THEN /\ RelocateSends(FreshRelocator, SilentZone, {}, message)
          /\ relocateDials' = [c \in MemberChannels |-> Unset]
     ELSE /\ RelocateSends(relocator, relocateSynth, bentBehind, message)
          /\ UNCHANGED relocateDials
  /\ UNCHANGED <<relocateKind>>

RelocateInit ==
  /\ relocator = FreshRelocator
  /\ relocateMcm = NotAnnounced
  /\ relocateKind \in PerNoteKinds
  /\ relocateDials = [c \in MemberChannels |-> Unset]
  /\ relocateSynth = SilentZone
  /\ bentBehind = {}

RelocateNext ==
  \/ \E c \in MemberChannels : RelocatePress(c) \/ RelocateLift(c)
  \/ \E c \in MemberChannels, v \in MovedDials : RelocateTurn(c, v)
  \/ RelocatePanic
  \/ \E members \in Announced : RelocateAnnounce(members)
-----------------------------------------------------------------------------
\* README.md:573: notes that share a destination channel follow "a
\* last-note-wins rule (only the most recently triggered note's expression is
\* kept, falling back to the remaining note when it is released)". What the
\* newest sounding note has set is what its channel has, also what was set
\* ahead of the note or while a newer note hid it. A channel that a panic
\* left bent is excepted until it is sent a bend. What the relocator takes to be
\* held is what sounds, in order, through panics and reconfigurations.
NewestNoteShapesItsChannel ==
  \A d \in Dst!MemberChannels :
    LET notes == relocateSynth[d].notes IN
    /\ SelectSeq(relocator.held, LAMBDA c : Landing(c) = d) = notes
    /\ (notes # <<>> /\ relocateDials[Last(notes)] # Unset /\ d \notin bentBehind) =>
         relocateSynth[d].expr = relocateDials[Last(notes)]
=============================================================================
