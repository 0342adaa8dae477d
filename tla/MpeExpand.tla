----------------------------- MODULE MpeExpand -----------------------------
(* mpe::expand (mpexp): the notes of one channel are spread over the       *)
(* member channels of a zone. The operators give the state left behind and *)
(* the messages sent on for one message of the source channel.             *)
EXTENDS MpeZone, Sequences, FiniteSets

CONSTANT
  ZoneNotes     \* note numbers, 0..127 in the program

ASSUME ExpandAssumption == IsFiniteSet(ZoneNotes)

-----------------------------------------------------------------------------
(* ChannelBucket: the member channels in a doubly linked ring, the         *)
(* released ones from top to bottomReleased and the taken ones after them. *)
(* ChannelPool says what this pointer work is meant to achieve.            *)

EmptyBucket ==
  [top |-> NoChannel, bottomReleased |-> NoChannel,
   previous |-> [c \in MemberChannels |-> NoChannel],
   next     |-> [c \in MemberChannels |-> NoChannel],
   taken    |-> [c \in MemberChannels |-> 0]]

\* Links c between two neighbours of the ring, in the order of the assignments.
Link(b, lower, c, upper) ==
  [b EXCEPT !.previous = [[@ EXCEPT ![c] = lower] EXCEPT ![upper] = c],
            !.next     = [[@ EXCEPT ![lower] = c] EXCEPT ![c] = upper]]

Extract(b, c) ==
  IF b.next[c] = NoChannel THEN b
  ELSE [b EXCEPT !.next     = [[@ EXCEPT ![b.previous[c]] = b.next[c]] EXCEPT ![c] = NoChannel],
                 !.previous = [[@ EXCEPT ![b.next[c]] = b.previous[c]] EXCEPT ![c] = NoChannel]]

\* Moves c to where the ring begins and ends.
Extremize(b, c) ==
  LET last   == b.previous[b.top]
      bottom == IF last = c THEN b.previous[c] ELSE last
      top    == IF b.top = c THEN b.next[c] ELSE b.top
  IN Link(Extract(b, c), bottom, c, top)

BucketAdd(b, c) ==
  IF b.next[c] # NoChannel THEN b
  ELSE IF b.top = NoChannel
  THEN [Link(b, c, c, c) EXCEPT !.top = c, !.bottomReleased = c]
  ELSE [Link(b, b.bottomReleased, c, b.next[b.bottomReleased]) EXCEPT !.bottomReleased = c]

FilledBucket ==
  LET fill[i \in 0..Members] == IF i = 0 THEN EmptyBucket ELSE BucketAdd(fill[i - 1], MemberChannel(i - 1))
  IN fill[Members]

\* The channel that is handed out is the top one.
BucketTake(b) ==
  [b EXCEPT !.top = b.next[b.top],
            !.taken[b.top] = @ + 1,
            !.bottomReleased = IF @ = b.top THEN NoChannel ELSE @]

StillTaken(b, c) == [Extremize(b, c) EXCEPT !.top = Extremize(b, c).next[c]]

\* Mutant: the released channel goes back to the top and is reused at once.
ReleasedOnTop(b, c) == [Extremize(b, c) EXCEPT !.top = c,
                          !.bottomReleased = IF @ = NoChannel THEN c ELSE @]

Released(b, c) ==
  IF b.bottomReleased = NoChannel
  THEN [Extremize(b, c) EXCEPT !.top = c, !.bottomReleased = c]
  ELSE IF b.next[b.bottomReleased] # c
  THEN [Link(Extract(b, c), b.bottomReleased, c, b.next[b.bottomReleased]) EXCEPT !.bottomReleased = c]
  ELSE [b EXCEPT !.bottomReleased = c]

BucketRelease(b, c) ==
  LET counted == [b EXCEPT !.taken[c] = @ - 1]
  IN IF b.top = NoChannel \/ b.next[c] = NoChannel THEN b
     ELSE IF counted.taken[c] > 0 THEN StillTaken(counted, c)
     ELSE Released(counted, c)

\* The ring from the top on, and how far its released section reaches.
Ring(b) ==
  LET walk[i \in 1..Members] == IF i = 1 THEN b.top ELSE b.next[walk[i - 1]]
  IN [i \in 1..Members |-> walk[i]]

ReleasedCount(b) ==
  IF b.bottomReleased = NoChannel THEN 0 ELSE CHOOSE i \in 1..Members : Ring(b)[i] = b.bottomReleased

-----------------------------------------------------------------------------
(* Allocator and mpe::expand.                                              *)

FreshAllocator ==
  [configSent |-> FALSE, bucketFilled |-> FALSE, bucket |-> EmptyBucket,
   noteChannel |-> [n \in ZoneNotes |-> NoChannel]]

Expanded(alloc, msgs) == [alloc |-> alloc, msgs |-> msgs]

Zero(c) == Expression("pressure", c, 0)

\* Mutant: the channel of the released note stays taken.
ExpandNoteOffKeepsChannel(a, n) ==
  LET c == a.noteChannel[n] IN
  IF c = NoChannel THEN Expanded(a, <<>>)
  ELSE Expanded([a EXCEPT !.noteChannel[n] = NoChannel], <<Zero(c), Off(c, n)>>)

ExpandNoteOff(a, n) ==
  LET c == a.noteChannel[n] IN
  IF c = NoChannel THEN Expanded(a, <<>>)
  ELSE Expanded([configSent |-> a.configSent, bucketFilled |-> a.bucketFilled,
                 bucket |-> BucketRelease(a.bucket, c),
                 noteChannel |-> [a.noteChannel EXCEPT ![n] = NoChannel]], <<Zero(c), Off(c, n)>>)

\* Mutant: a note that is struck again is not ended first.
ExpandNoteOnUnended(a, n) ==
  LET filled == IF a.bucketFilled THEN a.bucket ELSE FilledBucket
      freed  == IF a.noteChannel[n] = NoChannel THEN filled ELSE BucketRelease(filled, a.noteChannel[n])
  IN Expanded([configSent |-> TRUE, bucketFilled |-> TRUE, bucket |-> BucketTake(freed),
               noteChannel |-> [a.noteChannel EXCEPT ![n] = freed.top]],
              <<Zero(freed.top), On(freed.top, n)>>)

\* A note that is still held is released first; the zone is announced before
\* the first note.
ExpandNoteOn(a, n) ==
  LET held   == a.noteChannel[n]
      filled == IF a.bucketFilled THEN a.bucket ELSE FilledBucket
      freed  == IF held = NoChannel THEN filled ELSE BucketRelease(filled, held)
      chosen == freed.top
  IN Expanded([configSent |-> TRUE, bucketFilled |-> TRUE, bucket |-> BucketTake(freed),
               noteChannel |-> [a.noteChannel EXCEPT ![n] = chosen]],
              (IF a.configSent THEN <<>> ELSE <<Config>>)
                \o (IF held = NoChannel THEN <<>> ELSE <<Off(held, n)>>)
                \o <<Zero(chosen), On(chosen, n)>>)

\* Pressure on a key becomes pressure on the channel of its note.
ExpandAftertouch(a, n, v) ==
  LET c == a.noteChannel[n]
  IN Expanded(a, <<Expression("pressure", IF c = NoChannel THEN ManagerChannel ELSE c, v)>>)

Expand(a, m) ==
  CASE m.kind = "on"         -> ExpandNoteOn(a, m.note)
    [] m.kind = "off"        -> ExpandNoteOff(a, m.note)
    [] m.kind = "aftertouch" -> ExpandAftertouch(a, m.note, m.value)
    [] OTHER                 -> Expanded(a, <<[m EXCEPT !.channel = ManagerChannel]>>)
=============================================================================
