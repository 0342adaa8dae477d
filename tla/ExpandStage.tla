---------------------------- MODULE ExpandStage ----------------------------
(* One mpexp between any stream of notes on its source channel, strays and *)
(* doubled note-ons included, and an MPE instrument. More keys may be held *)
(* than the zone has channels.                                             *)
EXTENDS MpeExpand

VARIABLES
  expander,         \* the Allocator of the input
  zoneHeard         \* the notes that sound, each on its channel

expandVars == <<expander, zoneHeard>>

Ends(msgs)   == {<<m.channel, m.note>> : m \in {x \in {msgs[i] : i \in DOMAIN msgs} : x.kind = "off"}}
Starts(msgs) == {<<m.channel, m.note>> : m \in {x \in {msgs[i] : i \in DOMAIN msgs} : x.kind = "on"}}

ExpandReceives(e) ==
  /\ expander' = e.alloc
  /\ zoneHeard' = (zoneHeard \ Ends(e.msgs)) \union Starts(e.msgs)

ExpandPress == \E n \in ZoneNotes : ExpandReceives(ExpandNoteOn(expander, n))
ExpandLift  == \E n \in ZoneNotes : ExpandReceives(ExpandNoteOff(expander, n))
ExpandPanic == expander' = FreshAllocator /\ zoneHeard' = {}

ExpandInit == expander = FreshAllocator /\ zoneHeard = {}
ExpandNext == ExpandPress \/ ExpandLift \/ ExpandPanic
ExpandSpec == ExpandInit /\ [][ExpandNext]_expandVars
-----------------------------------------------------------------------------
\* Exactly the tracked notes sound, each on the channel its note-off will be
\* sent to, so none is stolen, none is doubled and none is left behind,
\* however many keys share a channel; and the bucket counts a channel as taken
\* once for every note on it, so that it is free exactly when no note is left.
NotesKeepTheirChannel ==
  /\ zoneHeard = {<<expander.noteChannel[n], n>> : n \in {k \in ZoneNotes : expander.noteChannel[k] # NoChannel}}
  /\ \A c \in MemberChannels : expander.bucket.taken[c] = Cardinality({n \in ZoneNotes : expander.noteChannel[n] = c})

\* The linked ring behaves as the two queues of ChannelPool: a channel is
\* shared only when none is free, and reused as late as possible
\* (ChannelBucket.h: "so that channels are reused as late as possible").
Bucket == IF expander.bucketFilled THEN expander.bucket ELSE FilledBucket

Pool == INSTANCE ChannelPool WITH
  released <- SubSeq(Ring(Bucket), 1, ReleasedCount(Bucket)),
  taken    <- SubSeq(Ring(Bucket), ReleasedCount(Bucket) + 1, Members),
  uses     <- Bucket.taken

ImplementsPool == Pool!PoolSpec
=============================================================================
