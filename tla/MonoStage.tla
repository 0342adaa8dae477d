----------------------------- MODULE MonoStage -----------------------------
(* One mono transform between any stream of notes, strays and doubled      *)
(* note-ons included, and an instrument.                                   *)
EXTENDS Mono

CONSTANT Priority
ASSUME PriorityAssumption == Priority \in Priorities /\ None \notin Keys

VARIABLES
  monoState,        \* the MonoState of the input
  monoHeard         \* the keys that sound on the instrument

monoVars == <<monoState, monoHeard>>

MonoReceives(m) ==
  LET r == MonoProcess(Priority, monoState, m) IN
  /\ monoState' = r.state
  /\ monoHeard' = Heard(monoHeard, r)

MonoPress == \E k \in Keys : MonoReceives(NoteOn(k))
MonoRelease == \E k \in Keys : MonoReceives(NoteOff(k))
MonoPanic == monoState' = MonoReset /\ monoHeard' = {}

MonoInit == monoState = MonoReset /\ monoHeard = {}
MonoNext == MonoPress \/ MonoRelease \/ MonoPanic
MonoSpec == MonoInit /\ [][MonoNext]_monoVars
-----------------------------------------------------------------------------
\* The order of the held keys is strict, transitive and total.
OrderOK ==
  /\ \A k \in Keys : <<k, k>> \notin monoState.newer
  /\ \A j, k \in Keys : <<j, k>> \in monoState.newer => <<k, j>> \notin monoState.newer
  /\ \A i, j, k \in Keys : <<i, j>> \in monoState.newer /\ <<j, k>> \in monoState.newer => <<i, k>> \in monoState.newer
  /\ monoState.newer \subseteq monoState.held \X monoState.held
  /\ \A j, k \in monoState.held : j # k => <<j, k>> \in monoState.newer \/ <<k, j>> \in monoState.newer

Winner(c) == PriorityNote(Priority, monoState.held, monoState.newer, c)

\* On every channel exactly the held key that wins the priority sounds, and
\* nothing when no key is held: taking over, waiting, falling back and
\* striking a held key again all keep to it.
OnlyTheWinnerSounds ==
  \A c \in Channels : {k \in monoHeard : ChannelOf(k) = c} = {Winner(c)} \ {None}
=============================================================================
