---------------------------- MODULE MpeRelocate ----------------------------
(* mpe::relocate (mpe): moves a zone onto another one. When the other zone *)
(* has fewer member channels, several source channels fold onto one and    *)
(* the newest note decides what that channel's expression is. The trigger  *)
(* counter is kept as the order it gives.                                  *)
EXTENDS MpeZone, Sequences, SequencesExt

CONSTANTS
  DstLower,     \* the side of the destination zone
  DstMembers    \* its member channels

ASSUME RelocateAssumption == DstLower \in BOOLEAN /\ DstMembers \in 1..15

Dst == INSTANCE MpeZone WITH Lower <- DstLower, Members <- DstMembers

\* What is channel-wide, in the order it is re-asserted in. One controller
\* stands for all of them.
PerNote == <<"bend", "pressure", "controller">>
PerNoteKinds == {PerNote[i] : i \in DOMAIN PerNote}

Unset == -1

FreshRelocator ==
  [held   |-> <<>>,     \* the active source channels, the newest note last
   source |-> [k \in PerNoteKinds |-> [c \in MemberChannels |-> Unset]],
   dest   |-> [k \in PerNoteKinds |-> [d \in Dst!MemberChannels |-> IF k = "bend" THEN 0 ELSE Unset]]]

Moved(r, msgs) == [relocator |-> r, msgs |-> msgs]

MemberIndex(c) == IF Lower THEN c - 2 ELSE 15 - c
Landing(c) == Dst!MemberChannel(MemberIndex(c) % DstMembers)

\* activeForBucket: whose note is the newest on a destination channel.
Owner(r, d) ==
  LET folded == SelectSeq(r.held, LAMBDA c : Landing(c) = d)
  IN IF folded = <<>> THEN NoChannel ELSE Last(folded)

\* Mutant: only what differs from the channel's rest position is re-asserted.
DueAwayFromRest(r, c, k) == c # NoChannel /\ r.source[k][c] > 0

\* reassert: what a note holds and its destination was not sent last.
DueAgain(r, c, k) ==
  c # NoChannel /\ r.source[k][c] # Unset /\ r.source[k][c] # r.dest[k][Landing(c)]

Reassertion(r, c) ==
  LET due == SelectSeq(PerNote, LAMBDA k : DueAgain(r, c, k))
  IN [i \in DOMAIN due |-> Expression(due[i], Landing(c), r.source[due[i]][c])]

Reasserted(r, c) ==
  [r EXCEPT !.dest = [k \in PerNoteKinds |-> [d \in Dst!MemberChannels |->
     IF DueAgain(r, c, k) /\ d = Landing(c) THEN r.source[k][c] ELSE r.dest[k][d]]]]

RelocateNoteOn(r, c, n) ==
  LET owned == [r EXCEPT !.held = Append(Remove(@, c), c)]
  IN Moved(Reasserted(owned, c), Append(Reassertion(owned, c), On(Landing(c), n)))

\* The destination goes to the newest note left; what the channel had set is
\* forgotten, what arrives next belongs to its next note.
RelocateNoteOff(r, c, n) ==
  LET released == [r EXCEPT !.held = Remove(@, c)]
      heir     == Owner(released, Landing(c))
      handed   == Reasserted(released, heir)
  IN Moved([handed EXCEPT !.source = [k \in PerNoteKinds |-> [@[k] EXCEPT ![c] = Unset]]],
           <<Off(Landing(c), n)>> \o Reassertion(released, heir))

\* Remembered for its note, and sent on unless another note owns the channel.
RelocateExpression(r, k, c, v) ==
  LET cached == [r EXCEPT !.source[k][c] = v]
      d      == Landing(c)
  IN IF Owner(r, d) \in {NoChannel, c}
     THEN Moved([cached EXCEPT !.dest[k][d] = v], <<Expression(k, d, v)>>)
     ELSE Moved(cached, <<>>)

\* The manager's messages move across; a configuration announces the members
\* of the destination.
RelocateManager(r, m) ==
  Moved(r, <<IF m.kind = "config" THEN [m EXCEPT !.channel = Dst!ManagerChannel, !.value = DstMembers]
             ELSE [m EXCEPT !.channel = Dst!ManagerChannel]>>)

Relocate(r, m) ==
  CASE m.channel = ManagerChannel                            -> RelocateManager(r, m)
    [] m.channel \notin ZoneChannels                         -> Moved(r, <<m>>)
    [] m.channel \in MemberChannels /\ m.kind = "on"         -> RelocateNoteOn(r, m.channel, m.note)
    [] m.channel \in MemberChannels /\ m.kind = "off"        -> RelocateNoteOff(r, m.channel, m.note)
    [] m.channel \in MemberChannels /\ m.kind \in PerNoteKinds ->
         RelocateExpression(r, m.kind, m.channel, m.value)
    [] OTHER                                                 -> Moved(r, <<[m EXCEPT !.channel = Landing(m.channel)]>>)
=============================================================================
