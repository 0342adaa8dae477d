-------------------------- MODULE MCNoteTransforms --------------------------
(* Small instances of NoteTransforms: the chains of transforms to play.    *)
EXTENDS NoteTransforms

One == {1}
Two == {1, 2}
TwoNotes == 60..61
OneNote == <<60, 61>>       \* notemap 60 61

\* Two keyboards play through one or two transforms, in either order; the
\* empty chain is the one that a client edits under one keyboard.
StartChains == {<<>>, <<"hold">>, <<"toggle">>, <<"last">>, <<"sustain">>, <<"sost">>,
                <<"chord">>, <<"chord", "low">>, <<"hold", "last">>, <<"last", "hold">>,
                <<"transp", "last">>, <<"notemap", "last">>, <<"notemap", "sustain">>, <<"sustain", "notemap">>}

VARIABLE players    \* the keyboards that are played

RehearsalInit ==
  /\ Init
  /\ players = IF chain = <<>> THEN One ELSE Two

Rehearsal ==
  /\ Next
  /\ UNCHANGED players
  /\ players = Two => unsettled' = {}
  /\ \A i \in Inputs \ players : UNCHANGED <<keys[i], feet[i]>>

RehearsalSpec == RehearsalInit /\ [][Rehearsal]_<<vars, players>>
-----------------------------------------------------------------------------
\* Mono at the end of a route lets each keyboard sound one note per channel.
OneNotePerKeyboard == AtMostNotes(Cardinality(players))

\* Alone, a pedal or mono at the end of the route ends a sounding note before
\* it strikes it again, so that the instrument never stacks two voices that
\* one note-off ends.
CleanRestrike == players = One => NoRestrike
=============================================================================
