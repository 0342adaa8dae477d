-------------------------------- MODULE Mono --------------------------------
(* MonoState: of the keys held on a channel only the one that wins the     *)
(* priority sounds. The counter that numbers the note-ons is kept as the   *)
(* order it gives: newer holds <<k, j>> when k was struck after j.         *)
EXTENDS NoteMessages

CONSTANT None       \* "-1": no note

Priorities == {"last", "low", "high"}

MonoState ==
  [held: SUBSET Keys, newer: SUBSET (Keys \X Keys),
   sounding: [Channels -> Keys \union {None}]]

MonoReset == [held |-> {}, newer |-> {}, sounding |-> [c \in Channels |-> None]]

Beats(priority, newer, k, j) ==
  CASE priority = "low"  -> NoteOf(k) < NoteOf(j)
    [] priority = "high" -> NoteOf(k) > NoteOf(j)
    [] priority = "last" -> <<k, j>> \in newer

Winners(priority, held, newer, c) ==
  {k \in held : /\ ChannelOf(k) = c
                /\ \A j \in held \ {k} : ChannelOf(j) = c => Beats(priority, newer, k, j)}

PriorityNote(priority, held, newer, c) ==
  IF Winners(priority, held, newer, c) = {} THEN None
  ELSE CHOOSE k \in Winners(priority, held, newer, c) : TRUE

Without(newer, k) == {p \in newer : p[1] # k /\ p[2] # k}

Struck(newer, held, k) == Without(newer, k) \union ({k} \X (held \ {k}))

\* Mutant: the note that loses is not stopped.
MonoNoteOnStacks(priority, s, k) ==
  LET held  == s.held \union {k}
      newer == Struck(s.newer, s.held, k)
  IN IF PriorityNote(priority, held, newer, ChannelOf(k)) = k
     THEN Result([held |-> held, newer |-> newer,
                  sounding |-> [s.sounding EXCEPT ![ChannelOf(k)] = k]], {}, <<NoteOn(k)>>)
     ELSE Result([s EXCEPT !.held = held, !.newer = newer], {}, <<>>)

MonoNoteOn(priority, s, k) ==
  LET c     == ChannelOf(k)
      held  == s.held \union {k}
      newer == Struck(s.newer, s.held, k)
  IN IF PriorityNote(priority, held, newer, c) = k
     THEN Result([held |-> held, newer |-> newer, sounding |-> [s.sounding EXCEPT ![c] = k]],
                 {s.sounding[c]} \ {None}, <<NoteOn(k)>>)
     ELSE Result([held |-> held, newer |-> newer, sounding |-> s.sounding], {}, <<>>)

\* Releasing the sounding note falls back to the next held one. The note-off
\* of a key that is not held, or that was only waiting, goes no further.
MonoNoteOff(priority, s, k) ==
  LET c     == ChannelOf(k)
      held  == s.held \ {k}
      newer == Without(s.newer, k)
      next  == PriorityNote(priority, held, newer, c)
  IN IF k \notin s.held THEN Result(s, {}, <<>>)
     ELSE IF s.sounding[c] # k THEN Result([held |-> held, newer |-> newer, sounding |-> s.sounding], {}, <<>>)
     ELSE Result([held |-> held, newer |-> newer, sounding |-> [s.sounding EXCEPT ![c] = next]],
                 {k}, IF next = None THEN <<>> ELSE <<NoteOn(next)>>)

MonoProcess(priority, s, m) ==
  CASE m.kind = "on"  -> MonoNoteOn(priority, s, m.key)
    [] m.kind = "off" -> MonoNoteOff(priority, s, m.key)
    [] OTHER          -> Result(s, {}, <<m>>)
=============================================================================
