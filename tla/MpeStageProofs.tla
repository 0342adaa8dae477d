---------------------------- MODULE MpeStageProofs ----------------------------
(***************************************************************************)
(* Proofs that mpexp keeps every note on its channel and that the bucket   *)
(* counts the notes of every channel, that the bucket is the pool of two   *)
(* queues it is meant to be, that a synth behind mpesens knows the range   *)
(* that was declared, and that no synth behind mpesplit sounds a note      *)
(* whose key is up, loses one before its turn or plays one with another    *)
(* expression than its own, for any zone and any finite set of notes.      *)
(*                                                                         *)
(* What has to be shown of the pointer work for the first is that no       *)
(* operation leaves a channel out of the ring (Linked): a release of a     *)
(* channel that is not linked would return at once, without counting.      *)
(* Extract does unlink a channel, and Link mends it in the same call.      *)
(* Filling the bucket is a loop: Loop instantiates FoldFacts with its step.*)
(*                                                                         *)
(* The second claims of the bucket that it spells a row of the channels:   *)
(* the pointers go round the row, the first r channels have no notes, the  *)
(* others have, and bottomReleased is the r-th. Whatever an operation does *)
(* to the pointers moves one channel to another place of the row           *)
(* (MovedTo), and the queues of the pool are the two ends of it.           *)
(*                                                                         *)
(* The third goes through the declaration message by message (Hearing), and *)
(* needs that the declarer and the synth agree on what every channel has   *)
(* selected.                                                               *)
(*                                                                         *)
(* The last goes through a route: every port sounds at most the note the   *)
(* splitter has for it, and that note was assigned to the port's channel   *)
(* (Voiced). A channel has one note at a time, which with mpexp in front   *)
(* follows from the second: fewer keys than channels leave a channel free, *)
(* and the one that is handed out is free if any is (ChannelIsLeft).       *)
(* Which voice is robbed depends on the order of age alone (Aged), and the *)
(* expression of a voice on what its synth was told (Faithful).            *)
(***************************************************************************)
EXTENDS ExpandStage, SensStage, MpeVoices, FiniteSetTheorems, SequenceTheorems, SequencesExt, TLAPS

\* Member channels are numbers of their own, none of them "none".
LEMMA ChannelFacts ==
  /\ Members \in Nat /\ Members >= 1
  /\ NoChannel \notin MemberChannels
  /\ \A i \in 0..Members - 1 : MemberChannel(i) \in MemberChannels
  /\ \A i, j \in 0..Members - 1 : MemberChannel(i) = MemberChannel(j) => i = j
  /\ \A c \in MemberChannels : \E i \in 0..Members - 1 : c = MemberChannel(i)
BY ZoneAssumption DEF MemberChannels, MemberChannel, NoChannel

-----------------------------------------------------------------------------
(* The ring of the bucket.                                                 *)

OrNone == MemberChannels \union {NoChannel}

\* A bucket in which some channels may not be linked,
Loose ==
  [top : OrNone, bottomReleased : OrNone, previous : [MemberChannels -> OrNone],
   next : [MemberChannels -> OrNone], taken : [MemberChannels -> Int]]

\* and one in which all of them are.
Linked ==
  [top : MemberChannels, bottomReleased : OrNone, previous : [MemberChannels -> MemberChannels],
   next : [MemberChannels -> MemberChannels], taken : [MemberChannels -> Int]]

\* The rest of a bucket stays.
SameButLinks(r, b) == r.top = b.top /\ r.bottomReleased = b.bottomReleased /\ r.taken = b.taken

\* Linking and extracting, seen from every channel.
Joined(r, b, l, c, u) ==
  /\ \A d \in MemberChannels : r.next[d] = IF d = c THEN u ELSE IF d = l THEN c ELSE b.next[d]
  /\ \A d \in MemberChannels : r.previous[d] = IF d = u THEN c ELSE IF d = c THEN l ELSE b.previous[d]

\* Linking changes these pointers and nothing else.
LEMMA LinkStep ==
  ASSUME NEW b \in Loose, NEW l \in MemberChannels, NEW c \in MemberChannels, NEW u \in MemberChannels,
         NEW r, r = Link(b, l, c, u)
  PROVE  r \in Loose /\ SameButLinks(r, b) /\ Joined(r, b, l, c, u)
<1>1. r.next = [[b.next EXCEPT ![l] = c] EXCEPT ![c] = u]
  BY DEF Link, Loose
<1>2. r.previous = [[b.previous EXCEPT ![c] = l] EXCEPT ![u] = c]
  BY DEF Link, Loose
<1>3. r \in Loose /\ r.top = b.top /\ r.bottomReleased = b.bottomReleased /\ r.taken = b.taken
  BY DEF Link, Loose, OrNone
<1>4. b.next \in [MemberChannels -> OrNone] /\ b.previous \in [MemberChannels -> OrNone]
  BY DEF Loose
<1>5. \A d \in MemberChannels : r.next[d] = IF d = c THEN u ELSE IF d = l THEN c ELSE b.next[d]
  BY <1>1, <1>4
<1>6. \A d \in MemberChannels : r.previous[d] = IF d = u THEN c ELSE IF d = c THEN l ELSE b.previous[d]
  BY <1>2, <1>4
<1> QED BY <1>3, <1>5, <1>6 DEF SameButLinks, Joined

\* Taking a channel out leaves only itself unlinked.
LEMMA ExtractStep ==
  ASSUME NEW b \in Linked, NEW c \in MemberChannels, NEW r, r = Extract(b, c)
  PROVE  /\ r \in Loose /\ SameButLinks(r, b)
         /\ \A d \in MemberChannels \ {c} : r.next[d] \in MemberChannels /\ r.previous[d] \in MemberChannels
<1> DEFINE p == b.previous[c]
           n == b.next[c]
<1>1. /\ n \in MemberChannels /\ p \in MemberChannels /\ n # NoChannel
      /\ b.next \in [MemberChannels -> MemberChannels] /\ b.previous \in [MemberChannels -> MemberChannels]
  BY ChannelFacts DEF Linked
<1>2. r = [b EXCEPT !.next     = [[@ EXCEPT ![p] = n] EXCEPT ![c] = NoChannel],
                    !.previous = [[@ EXCEPT ![n] = p] EXCEPT ![c] = NoChannel]]
  BY <1>1 DEF Extract
<1> HIDE DEF p, n
<1>3. /\ r.next = [[b.next EXCEPT ![p] = n] EXCEPT ![c] = NoChannel]
      /\ r.previous = [[b.previous EXCEPT ![n] = p] EXCEPT ![c] = NoChannel]
  BY <1>2 DEF Linked
<1>4. r \in Loose /\ r.top = b.top /\ r.bottomReleased = b.bottomReleased /\ r.taken = b.taken
  <2>1. r.top = b.top /\ r.bottomReleased = b.bottomReleased /\ r.taken = b.taken
    BY <1>2 DEF Linked
  <2>2. /\ [[b.next EXCEPT ![p] = n] EXCEPT ![c] = NoChannel] \in [MemberChannels -> OrNone]
        /\ [[b.previous EXCEPT ![n] = p] EXCEPT ![c] = NoChannel] \in [MemberChannels -> OrNone]
    BY <1>1 DEF OrNone
  <2>3. /\ b.top \in OrNone /\ b.bottomReleased \in OrNone /\ b.taken \in [MemberChannels -> Int]
    BY DEF Linked, OrNone
  <2>4. r = [top |-> b.top, bottomReleased |-> b.bottomReleased,
             previous |-> [[b.previous EXCEPT ![n] = p] EXCEPT ![c] = NoChannel],
             next |-> [[b.next EXCEPT ![p] = n] EXCEPT ![c] = NoChannel], taken |-> b.taken]
    BY <1>2 DEF Linked
  <2> QED BY <2>1, <2>2, <2>3, <2>4 DEF Loose
<1>5. \A d \in MemberChannels \ {c} : r.next[d] \in MemberChannels
  BY <1>1, <1>3
<1>6. \A d \in MemberChannels \ {c} : r.previous[d] \in MemberChannels
  BY <1>1, <1>3
<1> QED BY <1>4, <1>5, <1>6 DEF SameButLinks

\* A channel that was taken out and is put between two others is linked again,
\* and so are all.
LEMMA RelinkStep ==
  ASSUME NEW b \in Linked, NEW l \in MemberChannels, NEW c \in MemberChannels, NEW u \in MemberChannels,
         NEW r, r = Link(Extract(b, c), l, c, u)
  PROVE  r \in Linked /\ SameButLinks(r, b)
<1> PICK e : e = Extract(b, c)
  OBVIOUS
<1>1. /\ e \in Loose /\ SameButLinks(e, b)
      /\ \A d \in MemberChannels \ {c} : e.next[d] \in MemberChannels /\ e.previous[d] \in MemberChannels
  BY ExtractStep
<1>2. r \in Loose /\ SameButLinks(r, e) /\ Joined(r, e, l, c, u)
  BY <1>1, LinkStep
<1>3. b.top \in MemberChannels
  BY DEF Linked
<1>4. \A d \in MemberChannels : r.next[d] \in MemberChannels /\ r.previous[d] \in MemberChannels
  BY <1>1, <1>2 DEF Joined
<1>5. r.next \in [MemberChannels -> MemberChannels] /\ r.previous \in [MemberChannels -> MemberChannels]
  BY <1>2, <1>4 DEF Loose
<1>6. r \in Linked
  BY <1>1, <1>2, <1>3, <1>5 DEF Loose, Linked, SameButLinks
<1> QED BY <1>1, <1>2, <1>6 DEF SameButLinks

\* Taking a channel keeps all of them linked and counts one more.
LEMMA TakeStep ==
  ASSUME NEW b \in Linked
  PROVE  /\ b.top \in MemberChannels /\ BucketTake(b) \in Linked
         /\ BucketTake(b).taken = [b.taken EXCEPT ![b.top] = @ + 1]
<1>1. b.top \in MemberChannels /\ b.next[b.top] \in MemberChannels /\ b.bottomReleased \in OrNone
  BY DEF Linked
<1>2. BucketTake(b).taken = [b.taken EXCEPT ![b.top] = @ + 1]
  BY DEF BucketTake, Linked
<1>3. b.taken \in [MemberChannels -> Int] /\ [b.taken EXCEPT ![b.top] = @ + 1] \in [MemberChannels -> Int]
  BY <1>1 DEF Linked
<1>4. BucketTake(b) \in Linked
  BY <1>1, <1>3 DEF BucketTake, Linked, OrNone
<1> QED BY <1>1, <1>2, <1>4

\* Giving one back, in all the ways there are to link it again.
LEMMA ReleaseStep ==
  ASSUME NEW b \in Linked, NEW c \in MemberChannels
  PROVE  /\ BucketRelease(b, c) \in Linked
         /\ BucketRelease(b, c).taken = [b.taken EXCEPT ![c] = @ - 1]
<1> DEFINE counted == [b EXCEPT !.taken[c] = @ - 1]
<1>1. counted \in Linked /\ counted.taken = [b.taken EXCEPT ![c] = @ - 1] /\ b.top # NoChannel /\ b.next[c] # NoChannel
  BY ChannelFacts DEF Linked
<1>2. BucketRelease(b, c) = IF counted.taken[c] > 0 THEN StillTaken(counted, c) ELSE Released(counted, c)
  BY <1>1 DEF BucketRelease
<1> HIDE DEF counted
<1>3. Extremize(counted, c) \in Linked /\ Extremize(counted, c).taken = counted.taken
  <2>1. /\ counted.top \in MemberChannels /\ counted.previous[counted.top] \in MemberChannels
        /\ counted.previous[c] \in MemberChannels /\ counted.next[c] \in MemberChannels
    BY <1>1 DEF Linked
  <2>2. PICK l \in MemberChannels, u \in MemberChannels : Extremize(counted, c) = Link(Extract(counted, c), l, c, u)
    <3>1. (IF counted.previous[counted.top] = c THEN counted.previous[c] ELSE counted.previous[counted.top]) \in MemberChannels
      BY <2>1
    <3>2. (IF counted.top = c THEN counted.next[c] ELSE counted.top) \in MemberChannels
      BY <2>1
    <3> QED BY <3>1, <3>2 DEF Extremize
  <2>3. counted \in Linked
    BY <1>1
  <2>4. Extremize(counted, c) \in Linked /\ SameButLinks(Extremize(counted, c), counted)
    BY <2>2, <2>3, RelinkStep
  <2> QED BY <2>4 DEF SameButLinks
<1>4. StillTaken(counted, c) \in Linked /\ StillTaken(counted, c).taken = counted.taken
  <2> DEFINE e == Extremize(counted, c)
  <2>1. e.next[c] \in MemberChannels
    BY <1>3 DEF Linked
  <2>2. StillTaken(counted, c) = [e EXCEPT !.top = e.next[c]]
    BY DEF StillTaken
  <2> HIDE DEF e
  <2>3. e \in Linked /\ e.taken = counted.taken
    BY <1>3 DEF e
  <2> QED BY <2>1, <2>2, <2>3 DEF Linked
<1>5. Released(counted, c) \in Linked /\ Released(counted, c).taken = counted.taken
  <2>1. CASE counted.bottomReleased = NoChannel
    <3> DEFINE e == Extremize(counted, c)
    <3>1. Released(counted, c) = [e EXCEPT !.top = c, !.bottomReleased = c]
      BY <2>1 DEF Released
    <3>2. e \in Linked /\ e.taken = counted.taken
      BY <1>3
    <3> HIDE DEF e
    <3> QED BY <3>1, <3>2 DEF Linked, OrNone
  <2>2. CASE counted.bottomReleased # NoChannel /\ counted.next[counted.bottomReleased] # c
    <3> DEFINE l == counted.bottomReleased
               e == Link(Extract(counted, c), l, c, counted.next[l])
    <3>1. l \in MemberChannels /\ counted.next[l] \in MemberChannels
      BY <1>1, <2>2 DEF Linked, OrNone
    <3>2. e \in Linked /\ e.taken = counted.taken
      <4>1. counted \in Linked
        BY <1>1
      <4>2. e \in Linked /\ SameButLinks(e, counted)
        BY <3>1, <4>1, RelinkStep
      <4> HIDE DEF e
      <4> QED BY <4>2 DEF SameButLinks
    <3>3. Released(counted, c) = [e EXCEPT !.bottomReleased = c]
      BY <2>2 DEF Released
    <3> HIDE DEF e
    <3> QED BY <3>2, <3>3 DEF Linked, OrNone
  <2>3. CASE counted.bottomReleased # NoChannel /\ counted.next[counted.bottomReleased] = c
    <3>1. Released(counted, c) = [counted EXCEPT !.bottomReleased = c]
      BY <2>3 DEF Released
    <3> QED BY <1>1, <3>1 DEF Linked, OrNone
  <2> QED BY <2>1, <2>2, <2>3
<1> QED BY <1>1, <1>2, <1>4, <1>5

-----------------------------------------------------------------------------
(* Filling the bucket, the one loop.                                       *)

\* The loop of FilledBucket is one over the member channels in their order.
Loop == INSTANCE FoldFacts WITH Op <- BucketAdd

InOrder == [i \in 1..Members |-> MemberChannel(i - 1)]

\* A bucket after the first i channels have been added.
Filling(b, i) ==
  /\ b \in Loose /\ b.taken = [c \in MemberChannels |-> 0]
  /\ \A j \in 0..Members - 1 :
       IF j < i THEN b.next[MemberChannel(j)] \in MemberChannels /\ b.previous[MemberChannel(j)] \in MemberChannels
       ELSE b.next[MemberChannel(j)] = NoChannel
  /\ i = 0 => b.top = NoChannel
  /\ i > 0 => /\ b.top \in MemberChannels /\ b.bottomReleased \in MemberChannels
              /\ b.next[b.bottomReleased] \in MemberChannels

\* Before the loop no channel is linked.
LEMMA EmptyIsFilling == Filling(EmptyBucket, 0)
<1>1. /\ EmptyBucket.top = NoChannel /\ EmptyBucket.taken = [c \in MemberChannels |-> 0]
      /\ \A c \in MemberChannels : EmptyBucket.next[c] = NoChannel
  BY DEF EmptyBucket
<1>2. EmptyBucket \in Loose
  BY DEF EmptyBucket, Loose, OrNone
<1>3. \A j \in 0..Members - 1 : ~(j < 0) /\ EmptyBucket.next[MemberChannel(j)] = NoChannel
  BY <1>1, ChannelFacts
<1> QED BY <1>1, <1>2, <1>3 DEF Filling

\* Adding the next channel, as the first or behind the last one.
LEMMA AddStep ==
  ASSUME NEW i \in 0..Members - 1, NEW b, Filling(b, i)
  PROVE  Filling(BucketAdd(b, MemberChannel(i)), i + 1)
<1> PICK c \in MemberChannels : c = MemberChannel(i)
  BY ChannelFacts
<1>1. b \in Loose /\ b.taken = [d \in MemberChannels |-> 0] /\ b.next[c] = NoChannel
  BY DEF Filling
<1>2. \A j \in 0..Members - 1 : j < i + 1 => j < i \/ MemberChannel(j) = c
  OBVIOUS
<1>3. \A j \in 0..Members - 1 : ~(j < i + 1) => ~(j < i) /\ MemberChannel(j) # c
  BY ChannelFacts
<1>4. i + 1 # 0 /\ i + 1 > 0
  OBVIOUS
<1>5. ASSUME NEW l \in MemberChannels, NEW u \in MemberChannels, NEW r, r = Link(b, l, c, u),
             l = c \/ b.next[l] \in MemberChannels,
             NEW t \in MemberChannels, NEW s, s = [r EXCEPT !.top = t, !.bottomReleased = c]
      PROVE  Filling(s, i + 1)
  <2>1. r \in Loose /\ SameButLinks(r, b) /\ Joined(r, b, l, c, u)
    BY <1>1, <1>5, LinkStep
  <2>2. s.next = r.next /\ s.previous = r.previous /\ s.top = t /\ s.bottomReleased = c
        /\ s.taken = [d \in MemberChannels |-> 0]
    BY <1>1, <1>5, <2>1 DEF Loose, SameButLinks
  <2>3. s \in Loose
    BY <1>5, <2>1 DEF Loose, OrNone
  <2>4. \A d \in MemberChannels : /\ s.next[d] = IF d = c THEN u ELSE IF d = l THEN c ELSE b.next[d]
                                  /\ s.previous[d] = IF d = u THEN c ELSE IF d = c THEN l ELSE b.previous[d]
    BY <2>1, <2>2 DEF Joined
  <2>5. s.next[c] \in MemberChannels
    BY <2>4
  <2>6. ASSUME NEW j \in 0..Members - 1, j < i + 1
        PROVE  s.next[MemberChannel(j)] \in MemberChannels /\ s.previous[MemberChannel(j)] \in MemberChannels
    <3> PICK d \in MemberChannels : d = MemberChannel(j)
      BY ChannelFacts
    <3>1. d = c \/ (b.next[d] \in MemberChannels /\ b.previous[d] \in MemberChannels)
      BY <1>2, <2>6 DEF Filling
    <3> QED BY <2>4, <3>1
  <2>7. ASSUME NEW j \in 0..Members - 1, ~(j < i + 1)
        PROVE  s.next[MemberChannel(j)] = NoChannel
    <3> PICK d \in MemberChannels : d = MemberChannel(j)
      BY ChannelFacts
    <3>1. d # c /\ b.next[d] = NoChannel
      BY <1>3, <2>7 DEF Filling
    <3>2. d # l
      BY <1>5, <3>1, ChannelFacts
    <3> QED BY <2>4, <3>1, <3>2
  <2> QED BY <1>4, <2>2, <2>3, <2>5, <2>6, <2>7 DEF Filling
<1>6. CASE i = 0
  <2> DEFINE r == Link(b, c, c, c)
  <2>1. BucketAdd(b, c) = [r EXCEPT !.top = c, !.bottomReleased = c]
    BY <1>1, <1>6 DEF BucketAdd, Filling
  <2> HIDE DEF r
  <2>2. r = Link(b, c, c, c)
    BY DEF r
  <2>3. Filling([r EXCEPT !.top = c, !.bottomReleased = c], i + 1)
    BY <1>5, <2>2
  <2> QED BY <2>1, <2>3
<1>7. CASE i > 0
  <2> DEFINE l == b.bottomReleased
             u == b.next[b.bottomReleased]
             r == Link(b, l, c, u)
  <2>1. b.top \in MemberChannels /\ l \in MemberChannels /\ u \in MemberChannels
    BY <1>7 DEF Filling
  <2>2. b.top # NoChannel
    BY <2>1, ChannelFacts
  <2>3. BucketAdd(b, c) = [r EXCEPT !.bottomReleased = c]
    BY <1>1, <2>2 DEF BucketAdd
  <2>4. r \in Loose /\ SameButLinks(r, b)
    BY <1>1, <2>1, LinkStep
  <2> HIDE DEF r
  <2>5. [r EXCEPT !.bottomReleased = c] = [r EXCEPT !.top = b.top, !.bottomReleased = c]
    BY <2>4 DEF Loose, SameButLinks
  <2>6. r = Link(b, l, c, u) /\ b.next[l] \in MemberChannels
    BY <2>1 DEF r
  <2>7. Filling([r EXCEPT !.top = b.top, !.bottomReleased = c], i + 1)
    BY <1>5, <2>1, <2>6
  <2> QED BY <2>3, <2>5, <2>7
<1> QED BY <1>6, <1>7

\* The channels that were added are linked in the order in which they were.
InARow(b, i) ==
  /\ b.top = MemberChannel(0) /\ b.bottomReleased = MemberChannel(i - 1)
  /\ \A j \in 0..i - 1 : /\ b.next[MemberChannel(j)] = MemberChannel(IF j = i - 1 THEN 0 ELSE j + 1)
                        /\ b.previous[MemberChannel(j)] = MemberChannel(IF j = 0 THEN i - 1 ELSE j - 1)

\* A channel that is added stands last in the row.
LEMMA AddInARow ==
  ASSUME NEW i \in 0..Members - 1, NEW b, Filling(b, i), i > 0 => InARow(b, i)
  PROVE  InARow(BucketAdd(b, MemberChannel(i)), i + 1)
<1> PICK c \in MemberChannels : c = MemberChannel(i)
  BY ChannelFacts
<1>1. b \in Loose /\ b.next[c] = NoChannel
  BY DEF Filling
<1>2. CASE i = 0
  <2> PICK r : r = Link(b, c, c, c)
    OBVIOUS
  <2>1. BucketAdd(b, c) = [r EXCEPT !.top = c, !.bottomReleased = c]
    BY <1>1, <1>2 DEF BucketAdd, Filling
  <2>2. r \in Loose /\ r.next[c] = c /\ r.previous[c] = c
    BY <1>1, LinkStep DEF Joined
  <2> PICK z : z = BucketAdd(b, c)
    OBVIOUS
  <2>3. z.top = c /\ z.bottomReleased = c /\ z.next[c] = c /\ z.previous[c] = c
    BY <2>1, <2>2 DEF Loose
  <2>4. \A j \in 0..(i + 1) - 1 : j = 0
    BY <1>2
  <2> QED BY <1>2, <2>3, <2>4 DEF InARow
<1>3. CASE i > 0
  <2> PICK l \in MemberChannels, u \in MemberChannels : l = MemberChannel(i - 1) /\ u = MemberChannel(0)
    <3>1. i - 1 \in 0..Members - 1 /\ 0 \in 0..Members - 1
      BY <1>3, ChannelFacts
    <3> QED BY <3>1, ChannelFacts
  <2>1. b.top = u /\ b.bottomReleased = l /\ b.next[l] = u /\ b.top # NoChannel
    <3>1. i - 1 \in 0..i - 1
      BY <1>3
    <3> QED BY <1>3, <3>1, ChannelFacts DEF InARow
  <2> PICK r : r = Link(b, l, c, u)
    OBVIOUS
  <2>2. BucketAdd(b, c) = [r EXCEPT !.bottomReleased = c]
    BY <1>1, <2>1 DEF BucketAdd
  <2>3. r \in Loose /\ SameButLinks(r, b) /\ Joined(r, b, l, c, u)
    BY <1>1, LinkStep
  <2> PICK z : z = BucketAdd(b, c)
    OBVIOUS
  <2>4. z.top = u /\ z.bottomReleased = c /\ z.next = r.next /\ z.previous = r.previous
    BY <2>1, <2>2, <2>3 DEF Loose, SameButLinks
  <2>5. ASSUME NEW j \in 0..i
        PROVE  /\ z.next[MemberChannel(j)] = MemberChannel(IF j = i THEN 0 ELSE j + 1)
               /\ z.previous[MemberChannel(j)] = MemberChannel(IF j = 0 THEN i ELSE j - 1)
    <3> PICK d \in MemberChannels : d = MemberChannel(j)
      BY ChannelFacts
    <3>1. (d = c <=> j = i) /\ (d = l <=> j = i - 1) /\ (d = u <=> j = 0)
      <4>1. j \in 0..Members - 1 /\ i - 1 \in 0..Members - 1 /\ 0 \in 0..Members - 1
        BY <1>3, ChannelFacts
      <4> QED BY <4>1, ChannelFacts
    <3>2. /\ z.next[d] = IF d = c THEN u ELSE IF d = l THEN c ELSE b.next[d]
          /\ z.previous[d] = IF d = u THEN c ELSE IF d = c THEN l ELSE b.previous[d]
      BY <2>3, <2>4 DEF Joined
    <3>3. j # i => /\ b.next[d] = MemberChannel(IF j = i - 1 THEN 0 ELSE j + 1)
                   /\ b.previous[d] = MemberChannel(IF j = 0 THEN i - 1 ELSE j - 1)
      <4>1. j # i => j \in 0..i - 1
        OBVIOUS
      <4> QED BY <1>3, <4>1 DEF InARow
    <3>4. z.next[d] = MemberChannel(IF j = i THEN 0 ELSE j + 1)
      <4>1. CASE j = i
        BY <3>1, <3>2, <4>1
      <4>2. CASE j = i - 1
        BY <1>3, <3>1, <3>2, <4>2
      <4>3. CASE j # i /\ j # i - 1
        BY <3>1, <3>2, <3>3, <4>3
      <4> QED BY <4>1, <4>2, <4>3
    <3>5. z.previous[d] = MemberChannel(IF j = 0 THEN i ELSE j - 1)
      <4>1. CASE j = i
        BY <1>3, <3>1, <3>2, <4>1
      <4>2. CASE j = 0
        BY <3>1, <3>2, <4>2
      <4>3. CASE j # i /\ j # 0
        BY <3>1, <3>2, <3>3, <4>3
      <4> QED BY <4>1, <4>2, <4>3
    <3> QED BY <3>4, <3>5
  <2>6. (i + 1) - 1 = i
    OBVIOUS
  <2> QED BY <2>4, <2>5, <2>6 DEF InARow
<1> QED BY <1>2, <1>3

\* So the whole bucket is, when it is filled.
LEMMA FilledIsInARow == Filling(FilledBucket, Members) /\ InARow(FilledBucket, Members)
<1>1. Members \in Nat /\ Members >= 1 /\ \A i \in 1..Members : InOrder[i] = MemberChannel(i - 1)
  BY ChannelFacts DEF InOrder
<1>2. PICK f : Loop!IsRun(f, Members, EmptyBucket, InOrder) /\ FilledBucket = f[Members]
  <2> DEFINE f == CHOOSE f : f = [i \in 0..Members |-> IF i = 0 THEN EmptyBucket
                                                     ELSE BucketAdd(f[i - 1], MemberChannel(i - 1))]
  <2>1. FilledBucket = f[Members]
    BY DEF FilledBucket
  <2>2. \A g : g = [i \in 0..Members |-> IF i = 0 THEN EmptyBucket ELSE BucketAdd(g[i - 1], MemberChannel(i - 1))]
                <=> Loop!IsRun(g, Members, EmptyBucket, InOrder)
    <3> TAKE g
    <3>1. \A i \in 0..Members : i # 0 => InOrder[i] = MemberChannel(i - 1)
      BY <1>1
    <3>2. [i \in 0..Members |-> IF i = 0 THEN EmptyBucket ELSE BucketAdd(g[i - 1], MemberChannel(i - 1))]
          = [i \in 0..Members |-> IF i = 0 THEN EmptyBucket ELSE BucketAdd(g[i - 1], InOrder[i])]
      BY <3>1
    <3> QED BY <3>2 DEF Loop!IsRun
  <2>3. \E g : Loop!IsRun(g, Members, EmptyBucket, InOrder)
    BY <1>1, Loop!RunExists
  <2>4. f = [i \in 0..Members |-> IF i = 0 THEN EmptyBucket ELSE BucketAdd(f[i - 1], MemberChannel(i - 1))]
    BY <2>2, <2>3
  <2>5. Loop!IsRun(f, Members, EmptyBucket, InOrder)
    BY <2>2, <2>4
  <2> QED BY <2>1, <2>5
<1>3. f[0] = EmptyBucket /\ \A i \in 1..Members : f[i] = BucketAdd(f[i - 1], MemberChannel(i - 1))
  <2>1. f[0] = EmptyBucket /\ \A i \in 1..Members : f[i] = BucketAdd(f[i - 1], InOrder[i])
    BY <1>1, <1>2, Loop!RunStep
  <2> QED BY <1>1, <2>1
<1> DEFINE A == {i \in 0..Members : Filling(f[i], i) /\ (i > 0 => InARow(f[i], i))}
<1>4. 0 \in A
  BY <1>1, <1>3, EmptyIsFilling
<1>5. ASSUME NEW i \in 1..Members, i - 1 \in A
      PROVE  i \in A
  <2>1. i - 1 \in 0..Members - 1 /\ (i - 1) + 1 = i /\ f[i] = BucketAdd(f[i - 1], MemberChannel(i - 1))
    BY <1>1, <1>3
  <2>2. Filling(f[i - 1], i - 1) /\ (i - 1 > 0 => InARow(f[i - 1], i - 1))
    BY <1>5
  <2>3. Filling(BucketAdd(f[i - 1], MemberChannel(i - 1)), (i - 1) + 1)
    BY <2>1, <2>2, AddStep
  <2>4. InARow(BucketAdd(f[i - 1], MemberChannel(i - 1)), (i - 1) + 1)
    BY <2>1, <2>2, AddInARow
  <2> QED BY <2>1, <2>3, <2>4
<1>6. \A i \in 0..Members : i \in A
  <2> HIDE DEF A
  <2> QED BY <1>1, <1>4, <1>5, Loop!UpTo
<1>7. Members \in 0..Members /\ Members > 0
  BY <1>1
<1> QED BY <1>2, <1>6, <1>7

\* Filled, the bucket is a ring of all channels with none taken.
LEMMA FilledIsLinked == FilledBucket \in Linked /\ FilledBucket.taken = [c \in MemberChannels |-> 0]
<1>3. Members \in Nat /\ Members >= 1
  BY ChannelFacts
<1> PICK b : b = FilledBucket
  OBVIOUS
<1>5. Filling(b, Members)
  BY FilledIsInARow
<1>6. \A c \in MemberChannels : b.next[c] \in MemberChannels /\ b.previous[c] \in MemberChannels
  <2> TAKE c \in MemberChannels
  <2> PICK j \in 0..Members - 1 : c = MemberChannel(j)
    BY ChannelFacts
  <2>1. j < Members
    BY <1>3
  <2> QED BY <1>5, <2>1 DEF Filling
<1>7. b.top \in MemberChannels /\ b \in Loose /\ b.taken = [c \in MemberChannels |-> 0]
  BY <1>3, <1>5 DEF Filling
<1>8. b.next \in [MemberChannels -> MemberChannels] /\ b.previous \in [MemberChannels -> MemberChannels]
  BY <1>6, <1>7 DEF Loose
<1> QED BY <1>7, <1>8 DEF Loose, Linked

-----------------------------------------------------------------------------
(* The notes and their channels.                                           *)

Users(f, c) == {n \in ZoneNotes : f[n] = c}
SoundsOf(f) == {<<f[n], n>> : n \in {k \in ZoneNotes : f[k] # NoChannel}}

\* The bucket counts one more for each note on a channel.
Counted(taken, f) == \A c \in MemberChannels : taken[c] = Cardinality(Users(f, c))

\* A note that ends leaves its channel: one less is counted there.
LEMMA LeaveChannel ==
  ASSUME NEW f \in [ZoneNotes -> OrNone], NEW n \in ZoneNotes, NEW c \in MemberChannels, f[n] = c,
         NEW g, g = [f EXCEPT ![n] = NoChannel], NEW taken \in [MemberChannels -> Int], Counted(taken, f)
  PROVE  /\ g \in [ZoneNotes -> OrNone] /\ g[n] = NoChannel
         /\ Counted([taken EXCEPT ![c] = @ - 1], g)
         /\ SoundsOf(g) = SoundsOf(f) \ {<<c, n>>}
<1>1. g \in [ZoneNotes -> OrNone] /\ g[n] = NoChannel /\ \A k \in ZoneNotes \ {n} : g[k] = f[k]
  BY DEF OrNone
<1>2. c # NoChannel
  BY ChannelFacts
<1>3. ASSUME NEW d \in MemberChannels
      PROVE  [taken EXCEPT ![c] = @ - 1][d] = Cardinality(Users(g, d))
  <2>1. IsFiniteSet(Users(f, d)) /\ taken[d] = Cardinality(Users(f, d))
    <3>1. Users(f, d) \subseteq ZoneNotes
      BY DEF Users
    <3> QED BY <3>1, FS_Subset, ExpandAssumption DEF Counted
  <2>2. CASE d = c
    <3>1. Users(g, d) = Users(f, d) \ {n} /\ n \in Users(f, d)
      BY <1>1, <1>2, <2>2 DEF Users
    <3>2. Cardinality(Users(g, d)) = Cardinality(Users(f, d)) - 1
      BY <2>1, <3>1, FS_RemoveElement
    <3> QED BY <2>1, <2>2, <3>2
  <2>3. CASE d # c
    <3>1. d # NoChannel
      BY ChannelFacts
    <3>2. Users(g, d) = Users(f, d)
      BY <1>1, <2>3, <3>1 DEF Users
    <3> QED BY <2>1, <2>3, <3>2
  <2> QED BY <2>2, <2>3
<1>4. SoundsOf(g) = SoundsOf(f) \ {<<c, n>>}
  BY <1>1, <1>2 DEF SoundsOf
<1> QED BY <1>1, <1>3, <1>4 DEF Counted

\* A note that starts joins one.
LEMMA JoinChannel ==
  ASSUME NEW f \in [ZoneNotes -> OrNone], NEW n \in ZoneNotes, NEW c \in MemberChannels, f[n] = NoChannel,
         NEW g, g = [f EXCEPT ![n] = c], NEW taken \in [MemberChannels -> Int], Counted(taken, f)
  PROVE  /\ g \in [ZoneNotes -> OrNone]
         /\ Counted([taken EXCEPT ![c] = @ + 1], g)
         /\ SoundsOf(g) = SoundsOf(f) \union {<<c, n>>}
<1>1. g \in [ZoneNotes -> OrNone] /\ g[n] = c /\ \A k \in ZoneNotes \ {n} : g[k] = f[k]
  BY DEF OrNone
<1>2. c # NoChannel
  BY ChannelFacts
<1>3. ASSUME NEW d \in MemberChannels
      PROVE  [taken EXCEPT ![c] = @ + 1][d] = Cardinality(Users(g, d))
  <2>1. IsFiniteSet(Users(f, d)) /\ taken[d] = Cardinality(Users(f, d))
    <3>1. Users(f, d) \subseteq ZoneNotes
      BY DEF Users
    <3> QED BY <3>1, FS_Subset, ExpandAssumption DEF Counted
  <2>2. CASE d = c
    <3>1. Users(g, d) = Users(f, d) \union {n} /\ n \notin Users(f, d)
      BY <1>1, <1>2, <2>2 DEF Users
    <3>2. Cardinality(Users(g, d)) = Cardinality(Users(f, d)) + 1
      BY <2>1, <3>1, FS_AddElement
    <3> QED BY <2>1, <2>2, <3>2
  <2>3. CASE d # c
    <3>1. d # NoChannel
      BY ChannelFacts
    <3>2. Users(g, d) = Users(f, d)
      BY <1>1, <2>3, <3>1 DEF Users
    <3> QED BY <2>1, <2>3, <3>2
  <2> QED BY <2>2, <2>3
<1>4. SoundsOf(g) = SoundsOf(f) \union {<<c, n>>}
  BY <1>1, <1>2 DEF SoundsOf
<1> QED BY <1>1, <1>3, <1>4 DEF Counted

\* What is sent ends and starts what its parts do.
LEMMA ConcatSounds ==
  ASSUME NEW M, NEW s \in Seq(M), NEW t \in Seq(M)
  PROVE  Ends(s \o t) = Ends(s) \union Ends(t) /\ Starts(s \o t) = Starts(s) \union Starts(t)
<1>1. \A i \in DOMAIN (s \o t) : \/ (i \in DOMAIN s /\ (s \o t)[i] = s[i])
                                \/ (i - Len(s) \in DOMAIN t /\ (s \o t)[i] = t[i - Len(s)])
  OBVIOUS
<1>2. \A i \in DOMAIN s : i \in DOMAIN (s \o t) /\ (s \o t)[i] = s[i]
  OBVIOUS
<1>3. \A i \in DOMAIN t : i + Len(s) \in DOMAIN (s \o t) /\ (s \o t)[i + Len(s)] = t[i]
  OBVIOUS
<1>4. {(s \o t)[i] : i \in DOMAIN (s \o t)} = {s[i] : i \in DOMAIN s} \union {t[i] : i \in DOMAIN t}
  <2> PICK u : u = s \o t
    OBVIOUS
  <2> DEFINE S == {s[j] : j \in DOMAIN s}
             T == {t[j] : j \in DOMAIN t}
             U == {u[j] : j \in DOMAIN u}
  <2>1. \A i \in DOMAIN u : u[i] \in {s[j] : j \in DOMAIN s} \union {t[j] : j \in DOMAIN t}
    BY <1>1
  <2>2. \A i \in DOMAIN s : s[i] \in {u[j] : j \in DOMAIN u}
    BY <1>2
  <2>3. \A i \in DOMAIN t : t[i] \in {u[j] : j \in DOMAIN u}
    BY <1>3
  <2>4. U \subseteq S \union T
    BY <2>1
  <2>5. S \subseteq U
    BY <2>2
  <2>6. T \subseteq U
    BY <2>3
  <2>7. U = S \union T
    <3> HIDE DEF S, T, U
    <3> QED BY <2>4, <2>5, <2>6
  <2> QED BY <2>7
<1> QED BY <1>4 DEF Ends, Starts

\* The messages of mpexp, one by one.
LEMMA OneMessage ==
  ASSUME NEW c, NEW n
  PROVE  /\ Ends(<<>>) = {} /\ Starts(<<>>) = {}
         /\ Ends(<<Config>>) = {} /\ Starts(<<Config>>) = {}
         /\ Ends(<<Off(c, n)>>) = {<<c, n>>} /\ Starts(<<Off(c, n)>>) = {}
         /\ Ends(<<Zero(c), Off(c, n)>>) = {<<c, n>>} /\ Starts(<<Zero(c), Off(c, n)>>) = {}
         /\ Ends(<<Zero(c), On(c, n)>>) = {} /\ Starts(<<Zero(c), On(c, n)>>) = {<<c, n>>}
<1>1. /\ Config.kind = "config" /\ Zero(c).kind = "pressure"
      /\ Off(c, n).kind = "off" /\ Off(c, n).channel = c /\ Off(c, n).note = n
      /\ On(c, n).kind = "on" /\ On(c, n).channel = c /\ On(c, n).note = n
  BY DEF Config, Zero, Expression, Off, On
<1>2. ASSUME NEW m
      PROVE  {<<m>>[i] : i \in DOMAIN <<m>>} = {m}
  OBVIOUS
<1>3. ASSUME NEW l, NEW m
      PROVE  {<<l, m>>[i] : i \in DOMAIN <<l, m>>} = {l, m}
  <2>1. DOMAIN <<l, m>> = {1, 2} /\ <<l, m>>[1] = l /\ <<l, m>>[2] = m
    OBVIOUS
  <2> QED BY <2>1
<1>4. Ends(<<>>) = {} /\ Starts(<<>>) = {}
  BY DEF Ends, Starts
<1>5. Ends(<<Config>>) = {} /\ Starts(<<Config>>) = {}
  BY <1>1, <1>2 DEF Ends, Starts
<1>6. Ends(<<Off(c, n)>>) = {<<c, n>>} /\ Starts(<<Off(c, n)>>) = {}
  BY <1>1, <1>2 DEF Ends, Starts
<1>7. Ends(<<Zero(c), Off(c, n)>>) = {<<c, n>>} /\ Starts(<<Zero(c), Off(c, n)>>) = {}
  BY <1>1, <1>3 DEF Ends, Starts
<1>8. Ends(<<Zero(c), On(c, n)>>) = {} /\ Starts(<<Zero(c), On(c, n)>>) = {<<c, n>>}
  BY <1>1, <1>3 DEF Ends, Starts
<1> QED BY <1>4, <1>5, <1>6, <1>7, <1>8

-----------------------------------------------------------------------------
(* The invariant.                                                          *)

\* An allocator and what sounds. Once a note was played the ring is whole;
\* before, no note has a channel.
Keeps(a, heard) ==
  /\ a \in [configSent : BOOLEAN, bucketFilled : BOOLEAN, bucket : Loose, noteChannel : [ZoneNotes -> OrNone]]
  /\ IF a.bucketFilled THEN a.bucket \in Linked
     ELSE a.bucket.taken = [c \in MemberChannels |-> 0] /\ a.noteChannel = [n \in ZoneNotes |-> NoChannel]
  /\ heard = SoundsOf(a.noteChannel)
  /\ Counted(a.bucket.taken, a.noteChannel)

ExpandInv == Keeps(expander, zoneHeard)

\* The same of what a message leaves behind.
KeepsOn(e, heard) == Keeps(e.alloc, (heard \ Ends(e.msgs)) \union Starts(e.msgs))

LEMMA ReceiveStep ==
  ASSUME NEW a, NEW heard, NEW msgs, NEW e, e = Expanded(a, msgs), Keeps(a, (heard \ Ends(msgs)) \union Starts(msgs))
  PROVE  KeepsOn(e, heard)
BY DEF Expanded, KeepsOn

\* Linked is the stronger of the two.
LEMMA LinkedIsLoose == Linked \subseteq Loose
<1> SUFFICES ASSUME NEW b \in Linked PROVE b \in Loose
  OBVIOUS
<1> QED BY DEF Linked, Loose, OrNone

\* A fresh allocator knows no note.
LEMMA FreshIsSilent == Keeps(FreshAllocator, {})
<1>1. EmptyBucket \in Loose /\ EmptyBucket.taken = [c \in MemberChannels |-> 0]
  BY EmptyIsFilling DEF Filling
<1>2. [n \in ZoneNotes |-> NoChannel] \in [ZoneNotes -> OrNone]
  BY DEF OrNone
<1>3. \A c \in MemberChannels : Cardinality(Users([n \in ZoneNotes |-> NoChannel], c)) = 0
  <2> TAKE c \in MemberChannels
  <2>1. Users([n \in ZoneNotes |-> NoChannel], c) = {}
    BY ChannelFacts DEF Users
  <2> QED BY <2>1, FS_EmptySet
<1>4. SoundsOf([n \in ZoneNotes |-> NoChannel]) = {}
  BY DEF SoundsOf
<1>5. Counted(EmptyBucket.taken, [n \in ZoneNotes |-> NoChannel])
  BY <1>1, <1>3 DEF Counted
<1> QED BY <1>1, <1>2, <1>4, <1>5 DEF Keeps, FreshAllocator

\* A note-off: a note without a channel changes nothing.
LEMMA LiftKeeps ==
  ASSUME NEW a, NEW heard, Keeps(a, heard), NEW n \in ZoneNotes, NEW e, e = ExpandNoteOff(a, n)
  PROVE  KeepsOn(e, heard)
<1>1. /\ a \in [configSent : BOOLEAN, bucketFilled : BOOLEAN, bucket : Loose, noteChannel : [ZoneNotes -> OrNone]]
      /\ heard = SoundsOf(a.noteChannel) /\ Counted(a.bucket.taken, a.noteChannel)
  BY DEF Keeps
<1> PICK c \in OrNone : c = a.noteChannel[n]
  BY <1>1
<1>2. CASE c = NoChannel
  <2>1. e = Expanded(a, <<>>)
    BY <1>2 DEF ExpandNoteOff
  <2>2. (heard \ Ends(<<>>)) \union Starts(<<>>) = heard
    <3>1. Ends(<<>>) = {} /\ Starts(<<>>) = {}
      BY OneMessage
    <3> QED BY <3>1
  <2> QED BY <2>1, <2>2, ReceiveStep
<1>3. CASE c \in MemberChannels
  <2> DEFINE g == [a.noteChannel EXCEPT ![n] = NoChannel]
             r == BucketRelease(a.bucket, c)
  <2>1. c # NoChannel
    BY <1>3, ChannelFacts
  <2>2. a.bucketFilled /\ a.bucket \in Linked
    BY <1>1, <2>1 DEF Keeps
  <2>3. r \in Linked /\ r.taken = [a.bucket.taken EXCEPT ![c] = @ - 1]
    BY <1>3, <2>2, ReleaseStep
  <2>4. a.noteChannel \in [ZoneNotes -> OrNone] /\ a.bucket.taken \in [MemberChannels -> Int]
    BY <1>1, <2>2 DEF Linked
  <2>5. /\ g \in [ZoneNotes -> OrNone] /\ Counted([a.bucket.taken EXCEPT ![c] = @ - 1], g)
        /\ SoundsOf(g) = SoundsOf(a.noteChannel) \ {<<c, n>>}
    BY <1>1, <1>3, <2>4, LeaveChannel
  <2> DEFINE z == [configSent |-> a.configSent, bucketFilled |-> a.bucketFilled, bucket |-> r, noteChannel |-> g]
  <2>6. e = Expanded(z, <<Zero(c), Off(c, n)>>)
    BY <2>1 DEF ExpandNoteOff
  <2>7. (heard \ Ends(<<Zero(c), Off(c, n)>>)) \union Starts(<<Zero(c), Off(c, n)>>) = heard \ {<<c, n>>}
    <3>1. Ends(<<Zero(c), Off(c, n)>>) = {<<c, n>>} /\ Starts(<<Zero(c), Off(c, n)>>) = {}
      BY OneMessage
    <3> QED BY <3>1
  <2> HIDE DEF g, r
  <2>8. r \in Loose
    BY <2>3, LinkedIsLoose
  <2>9. /\ z \in [configSent : BOOLEAN, bucketFilled : BOOLEAN, bucket : Loose, noteChannel : [ZoneNotes -> OrNone]]
        /\ z.bucketFilled /\ z.bucket = r /\ z.noteChannel = g
    BY <1>1, <2>2, <2>5, <2>8
  <2>10. z.bucket.taken = [a.bucket.taken EXCEPT ![c] = @ - 1]
    BY <2>3, <2>9
  <2> HIDE DEF z
  <2>11. Keeps(z, heard \ {<<c, n>>})
    BY <1>1, <2>3, <2>5, <2>9, <2>10 DEF Keeps
  <2> QED BY <2>6, <2>7, <2>11, ReceiveStep
<1> QED BY <1>2, <1>3 DEF OrNone

\* The end of a note-on: a free note takes the channel on top.
LEMMA TakeKeeps ==
  ASSUME NEW b \in Linked, NEW f \in [ZoneNotes -> OrNone], NEW n \in ZoneNotes, f[n] = NoChannel, Counted(b.taken, f),
         NEW g, g = [f EXCEPT ![n] = b.top],
         NEW a, a = [configSent |-> TRUE, bucketFilled |-> TRUE, bucket |-> BucketTake(b), noteChannel |-> g]
  PROVE  Keeps(a, SoundsOf(f) \union {<<b.top, n>>})
<1>1. b.top \in MemberChannels /\ BucketTake(b) \in Linked /\ BucketTake(b).taken = [b.taken EXCEPT ![b.top] = @ + 1]
  BY TakeStep
<1>2. /\ g \in [ZoneNotes -> OrNone] /\ Counted([b.taken EXCEPT ![b.top] = @ + 1], g)
      /\ SoundsOf(g) = SoundsOf(f) \union {<<b.top, n>>}
  <2> PICK c \in MemberChannels, t \in [MemberChannels -> Int] : c = b.top /\ t = b.taken
    BY <1>1 DEF Linked
  <2>1. g = [f EXCEPT ![n] = c] /\ Counted(t, f)
    OBVIOUS
  <2>2. /\ g \in [ZoneNotes -> OrNone] /\ Counted([t EXCEPT ![c] = @ + 1], g)
        /\ SoundsOf(g) = SoundsOf(f) \union {<<c, n>>}
    BY <2>1, JoinChannel
  <2> QED BY <2>2
<1>3. BucketTake(b) \in Loose
  BY <1>1, LinkedIsLoose
<1>4. /\ a \in [configSent : BOOLEAN, bucketFilled : BOOLEAN, bucket : Loose, noteChannel : [ZoneNotes -> OrNone]]
      /\ a.bucketFilled /\ a.bucket = BucketTake(b) /\ a.noteChannel = g
  BY <1>2, <1>3
<1>5. a.bucket.taken = [b.taken EXCEPT ![b.top] = @ + 1]
  BY <1>1, <1>4
<1> QED BY <1>1, <1>2, <1>4, <1>5 DEF Keeps

\* A note-on, which first ends the note when it is held.
LEMMA PressKeeps ==
  ASSUME NEW a, NEW heard, Keeps(a, heard), NEW n \in ZoneNotes, NEW e, e = ExpandNoteOn(a, n)
  PROVE  KeepsOn(e, heard)
<1>1. /\ a \in [configSent : BOOLEAN, bucketFilled : BOOLEAN, bucket : Loose, noteChannel : [ZoneNotes -> OrNone]]
      /\ heard = SoundsOf(a.noteChannel) /\ Counted(a.bucket.taken, a.noteChannel)
      /\ IF a.bucketFilled THEN a.bucket \in Linked ELSE a.bucket.taken = [c \in MemberChannels |-> 0]
  BY DEF Keeps
<1> PICK held \in OrNone : held = a.noteChannel[n]
  BY <1>1
<1> PICK filled : filled = IF a.bucketFilled THEN a.bucket ELSE FilledBucket
  OBVIOUS
<1>2. filled \in Linked /\ Counted(filled.taken, a.noteChannel) /\ filled.taken \in [MemberChannels -> Int]
  <2>1. filled \in Linked /\ filled.taken = a.bucket.taken
    BY <1>1, FilledIsLinked
  <2> QED BY <1>1, <2>1 DEF Linked
<1> PICK f : f = [a.noteChannel EXCEPT ![n] = NoChannel]
  OBVIOUS
<1> PICK b : b = IF held = NoChannel THEN filled ELSE BucketRelease(filled, held)
  OBVIOUS
<1>3. /\ b \in Linked /\ f \in [ZoneNotes -> OrNone] /\ f[n] = NoChannel /\ Counted(b.taken, f)
      /\ SoundsOf(f) = IF held = NoChannel THEN heard ELSE heard \ {<<held, n>>}
  <2>1. a.noteChannel \in [ZoneNotes -> OrNone]
    BY <1>1
  <2>2. CASE held = NoChannel
    <3>1. f = a.noteChannel /\ b = filled
      BY <2>1, <2>2
    <3> QED BY <1>1, <1>2, <2>1, <2>2, <3>1
  <2>3. CASE held \in MemberChannels
    <3>1. held # NoChannel
      BY <2>3, ChannelFacts
    <3>2. b = BucketRelease(filled, held)
      BY <3>1
    <3>3. b \in Linked /\ b.taken = [filled.taken EXCEPT ![held] = @ - 1]
      BY <1>2, <2>3, <3>2, ReleaseStep
    <3>4. /\ f \in [ZoneNotes -> OrNone] /\ f[n] = NoChannel /\ Counted([filled.taken EXCEPT ![held] = @ - 1], f)
          /\ SoundsOf(f) = SoundsOf(a.noteChannel) \ {<<held, n>>}
      BY <1>2, <2>1, <2>3, LeaveChannel
    <3> QED BY <1>1, <3>1, <3>3, <3>4
  <2> QED BY <2>2, <2>3 DEF OrNone
<1> PICK g : g = [f EXCEPT ![n] = b.top]
  OBVIOUS
<1>4. g = [a.noteChannel EXCEPT ![n] = b.top]
  BY <1>1
<1>5. PICK configs : configs = IF a.configSent THEN <<>> ELSE <<Config>>
  OBVIOUS
<1>6. PICK ended : ended = IF held = NoChannel THEN <<>> ELSE <<Off(held, n)>>
  OBVIOUS
<1>7. PICK started : started = <<Zero(b.top), On(b.top, n)>>
  OBVIOUS
<1>8. e =
        Expanded([configSent |-> TRUE, bucketFilled |-> TRUE, bucket |-> BucketTake(b), noteChannel |-> g],
                 configs \o ended \o started)
  BY <1>4, <1>5, <1>6, <1>7 DEF ExpandNoteOn
<1>9. /\ Ends(configs \o ended \o started) = IF held = NoChannel THEN {} ELSE {<<held, n>>}
      /\ Starts(configs \o ended \o started) = {<<b.top, n>>}
  <2> DEFINE M == {Config, Off(held, n), Zero(b.top), On(b.top, n)}
  <2>1. configs \in Seq(M) /\ ended \in Seq(M) /\ started \in Seq(M)
    BY <1>5, <1>6, <1>7
  <2> HIDE DEF M
  <2>2. configs \o ended \in Seq(M)
    BY <2>1
  <2>3. ASSUME NEW s \in Seq(M), NEW t \in Seq(M)
        PROVE  Ends(s \o t) = Ends(s) \union Ends(t) /\ Starts(s \o t) = Starts(s) \union Starts(t)
    BY ConcatSounds
  <2> PICK both : both = configs \o ended
    OBVIOUS
  <2>4. /\ Ends(both) = Ends(configs) \union Ends(ended) /\ Starts(both) = Starts(configs) \union Starts(ended)
        /\ Ends(both \o started) = Ends(both) \union Ends(started)
        /\ Starts(both \o started) = Starts(both) \union Starts(started)
    <3>1. both \in Seq(M)
      BY <2>2
    <3>2. Ends(configs \o ended) = Ends(configs) \union Ends(ended) /\ Starts(configs \o ended) = Starts(configs) \union Starts(ended)
      BY <2>1, <2>3
    <3>3. /\ Ends(both \o started) = Ends(both) \union Ends(started)
          /\ Starts(both \o started) = Starts(both) \union Starts(started)
      BY <2>1, <2>3, <3>1
    <3> QED BY <3>2, <3>3
  <2>5. Ends(configs) = {} /\ Starts(configs) = {}
    BY <1>5, OneMessage
  <2>6. Ends(ended) = (IF held = NoChannel THEN {} ELSE {<<held, n>>}) /\ Starts(ended) = {}
    BY <1>6, OneMessage
  <2>7. Ends(started) = {} /\ Starts(started) = {<<b.top, n>>}
    BY <1>7, OneMessage
  <2>8. Ends(both \o started) = Ends(ended) /\ Starts(both \o started) = Starts(started)
    BY <2>4, <2>5, <2>6, <2>7
  <2> QED BY <2>6, <2>7, <2>8
<1> PICK z : z = [configSent |-> TRUE, bucketFilled |-> TRUE, bucket |-> BucketTake(b), noteChannel |-> g]
  OBVIOUS
<1> PICK msgs : msgs = configs \o ended \o started
  OBVIOUS
<1>10. e = Expanded(z, msgs)
  BY <1>8
<1>11. (heard \ Ends(msgs)) \union Starts(msgs) = SoundsOf(f) \union {<<b.top, n>>}
  <2>1. CASE held = NoChannel
    BY <1>3, <1>9, <2>1
  <2>2. CASE held # NoChannel
    BY <1>3, <1>9, <2>2
  <2> QED BY <2>1, <2>2
<1>12. Keeps(z, SoundsOf(f) \union {<<b.top, n>>})
  BY <1>3, TakeKeeps
<1>13. Keeps(z, (heard \ Ends(msgs)) \union Starts(msgs))
  BY <1>11, <1>12
<1> QED BY <1>10, <1>13, ReceiveStep

\* mpexp keeps every note on the channel it was given, for any zone and any
\* number of keys, and counts exactly the notes that share a channel.
THEOREM ChannelsAreKept == ExpandSpec => []NotesKeepTheirChannel
<1>1. ExpandInit => ExpandInv
  <2> SUFFICES ASSUME ExpandInit PROVE ExpandInv
    OBVIOUS
  <2> QED BY FreshIsSilent DEF ExpandInit, ExpandInv
<1>2. ExpandInv /\ [ExpandNext]_expandVars => ExpandInv'
  <2> SUFFICES ASSUME ExpandInv, [ExpandNext]_expandVars PROVE ExpandInv'
    OBVIOUS
  <2>1. CASE ExpandPress
    BY <2>1, PressKeeps DEF ExpandPress, ExpandReceives, ExpandInv, KeepsOn
  <2>2. CASE ExpandLift
    BY <2>2, LiftKeeps DEF ExpandLift, ExpandReceives, ExpandInv, KeepsOn
  <2>3. CASE ExpandPanic
    BY <2>3, FreshIsSilent DEF ExpandPanic, ExpandInv
  <2>4. CASE UNCHANGED expandVars
    BY <2>4 DEF expandVars, ExpandInv
  <2> QED BY <2>1, <2>2, <2>3, <2>4 DEF ExpandNext
<1>3. ExpandInv => NotesKeepTheirChannel
  BY DEF ExpandInv, Keeps, NotesKeepTheirChannel, SoundsOf, Counted, Users
<1> QED BY <1>1, <1>2, <1>3, PTL DEF ExpandSpec

-----------------------------------------------------------------------------
(* The order of the ring. The channels stand in a row of places from 1, at *)
(* the top, to Members, behind which the ring closes.                      *)

Places == 1..Members
After(i)  == IF i = Members THEN 1 ELSE i + 1
Before(i) == IF i = 1 THEN Members ELSE i - 1

\* A row has every channel at one place.
Rows == {q \in [Places -> MemberChannels] :
           /\ \A i, j \in Places : q[i] = q[j] => i = j
           /\ \A c \in MemberChannels : \E i \in Places : q[i] = c}

\* The place in a row from which each place is filled when the channel at k
\* moves to j.
From(k, j, i) ==
  IF i = j THEN k ELSE IF k <= i /\ i < j THEN i + 1 ELSE IF j < i /\ i <= k THEN i - 1 ELSE i

MovedTo(q, k, j) == [i \in Places |-> q[From(k, j, i)]]

\* The links go round in the order of the row.
Round(q, next, previous) ==
  \A i \in Places : next[q[i]] = q[After(i)] /\ previous[q[i]] = q[Before(i)]

\* Places stay places.
LEMMA PlaceFacts ==
  /\ \A i \in Places : After(i) \in Places /\ Before(i) \in Places /\ Before(After(i)) = i /\ After(Before(i)) = i
  /\ 1 \in Places /\ Members \in Places
  /\ \A k, j, i \in Places : From(k, j, i) \in Places
BY ChannelFacts DEF Places, After, Before, From

\* Places are filled from different places,
LEMMA FromIsOneToOne ==
  ASSUME NEW k \in Places, NEW j \in Places
  PROVE  /\ \A i, h \in Places : From(k, j, i) = From(k, j, h) => i = h
         /\ \A m \in Places : \E i \in Places : From(k, j, i) = m
<1>1. \A i, h \in Places : From(k, j, i) = From(k, j, h) => i = h
  BY ChannelFacts DEF Places, From
<1>2. \A m \in Places : From(k, j, From(j, k, m)) = m /\ From(j, k, m) \in Places
  BY ChannelFacts DEF Places, From
<1> QED BY <1>1, <1>2

\* and what stands side by side goes on to do so, but for where the channel
\* leaves and where it arrives.
LEMMA FromNeighbours ==
  ASSUME NEW k \in Places, NEW j \in Places, NEW i \in Places, i # j
  PROVE  /\ From(k, j, i) # k
         /\ After(i) # j =>
              From(k, j, After(i)) = IF From(k, j, i) = Before(k) THEN After(k) ELSE After(From(k, j, i))
         /\ Before(i) # j =>
              From(k, j, Before(i)) = IF From(k, j, i) = After(k) THEN Before(k) ELSE Before(From(k, j, i))
BY ChannelFacts DEF Places, From, After, Before

\* A row stays one when a channel moves.
LEMMA MovedIsRow ==
  ASSUME NEW q \in Rows, NEW k \in Places, NEW j \in Places
  PROVE  MovedTo(q, k, j) \in Rows
<1> DEFINE s == MovedTo(q, k, j)
<1>1. \A i \in Places : s[i] = q[From(k, j, i)] /\ From(k, j, i) \in Places
  BY PlaceFacts DEF MovedTo
<1>2. s \in [Places -> MemberChannels]
  BY PlaceFacts DEF MovedTo, Rows
<1> HIDE DEF s
<1>3. \A i, h \in Places : s[i] = s[h] => i = h
  <2> TAKE i \in Places, h \in Places
  <2>1. s[i] = s[h] => From(k, j, i) = From(k, j, h)
    BY <1>1 DEF Rows
  <2> QED BY <2>1, FromIsOneToOne
<1>4. \A c \in MemberChannels : \E i \in Places : s[i] = c
  <2> TAKE c \in MemberChannels
  <2>1. PICK m \in Places : q[m] = c
    BY DEF Rows
  <2>2. PICK i \in Places : From(k, j, i) = m
    BY FromIsOneToOne
  <2> QED BY <1>1, <2>1, <2>2
<1>5. s \in Rows
  BY <1>2, <1>3, <1>4 DEF Rows
<1> QED BY <1>5 DEF s

\* Unlinking a channel and linking it between what stands around its new place
\* gives the links of the new row.
LEMMA RelinkRound ==
  ASSUME NEW q \in Rows, NEW k \in Places, NEW j \in Places, NEW s, s = MovedTo(q, k, j),
         NEW next, NEW previous, Round(q, next, previous),
         NEW next2, NEW previous2, NEW c, c = q[k],
         \A d \in MemberChannels :
           next2[d] = IF d = c THEN s[After(j)] ELSE IF d = s[Before(j)] THEN c
                      ELSE IF d = previous[c] THEN next[c] ELSE next[d],
         \A d \in MemberChannels :
           previous2[d] = IF d = s[After(j)] THEN c ELSE IF d = c THEN s[Before(j)]
                          ELSE IF d = next[c] THEN previous[c] ELSE previous[d]
  PROVE  Round(s, next2, previous2)
<1>1. s \in Rows
  BY MovedIsRow
<1>2. \A i \in Places : /\ s[i] = q[From(k, j, i)] /\ From(k, j, i) \in Places
                       /\ q[i] \in MemberChannels /\ s[i] \in MemberChannels
  BY <1>1, PlaceFacts DEF MovedTo, Rows
<1>3. s[j] = c /\ From(k, j, j) = k
  BY <1>2 DEF From
<1>4. \A i, h \in Places : (q[i] = q[h] <=> i = h) /\ (s[i] = s[h] <=> i = h)
  BY <1>1 DEF Rows
<1>5. next[c] = q[After(k)] /\ previous[c] = q[Before(k)] /\ After(k) \in Places /\ Before(k) \in Places
      /\ After(j) \in Places /\ Before(j) \in Places
  BY PlaceFacts DEF Round
<1> SUFFICES ASSUME NEW i \in Places
             PROVE  next2[s[i]] = s[After(i)] /\ previous2[s[i]] = s[Before(i)]
  BY DEF Round
<1>6. After(i) \in Places /\ Before(i) \in Places /\ Before(After(i)) = i /\ After(Before(i)) = i
  BY PlaceFacts
<1>7. next2[s[i]] = s[After(i)]
  <2>1. CASE i = j
    BY <1>2, <1>3, <2>1
  <2>2. CASE i # j /\ After(i) = j
    <3>1. i = Before(j) /\ s[i] # c
      BY <1>3, <1>4, <1>6, <2>2
    <3> QED BY <1>2, <1>3, <2>2, <3>1
  <2>3. CASE i # j /\ After(i) # j
    <3>1. i # Before(j)
      BY <2>3, PlaceFacts
    <3>2. s[i] # c /\ s[i] # s[Before(j)]
      BY <1>3, <1>4, <1>5, <2>3, <3>1
    <3>3. s[After(i)] = q[IF From(k, j, i) = Before(k) THEN After(k) ELSE After(From(k, j, i))]
      BY <1>2, <1>6, <2>3, FromNeighbours
    <3>4. s[i] = previous[c] <=> From(k, j, i) = Before(k)
      BY <1>2, <1>4, <1>5
    <3>5. next[s[i]] = q[After(From(k, j, i))]
      BY <1>2 DEF Round
    <3> QED BY <1>2, <1>5, <3>2, <3>3, <3>4, <3>5
  <2> QED BY <2>1, <2>2, <2>3
<1>8. previous2[s[i]] = s[Before(i)]
  <2>1. CASE Before(i) = j
    <3>1. i = After(j)
      BY <1>6, <2>1
    <3> QED BY <1>2, <1>3, <2>1, <3>1
  <2>2. CASE i = j /\ Before(i) # j
    <3>1. i # After(j)
      BY <2>2, PlaceFacts
    <3>2. s[i] # s[After(j)]
      BY <1>4, <1>5, <3>1
    <3> QED BY <1>2, <1>3, <2>2, <3>2
  <2>3. CASE i # j /\ Before(i) # j
    <3>1. i # After(j)
      BY <2>3, PlaceFacts
    <3>2. s[i] # c /\ s[i] # s[After(j)]
      BY <1>3, <1>4, <1>5, <2>3, <3>1
    <3>3. s[Before(i)] = q[IF From(k, j, i) = After(k) THEN Before(k) ELSE Before(From(k, j, i))]
      BY <1>2, <1>6, <2>3, FromNeighbours
    <3>4. s[i] = next[c] <=> From(k, j, i) = After(k)
      BY <1>2, <1>4, <1>5
    <3>5. previous[s[i]] = q[Before(From(k, j, i))]
      BY <1>2 DEF Round
    <3> QED BY <1>2, <1>5, <3>2, <3>3, <3>4, <3>5
  <2> QED BY <2>1, <2>2, <2>3
<1> QED BY <1>7, <1>8

\* The pointers after a channel c was unlinked and linked between l and u.
Relinked(r, b, l, c, u) ==
  /\ \A d \in MemberChannels :
       r.next[d] = IF d = c THEN u ELSE IF d = l THEN c ELSE IF d = b.previous[c] THEN b.next[c] ELSE b.next[d]
  /\ \A d \in MemberChannels :
       r.previous[d] = IF d = u THEN c ELSE IF d = c THEN l ELSE IF d = b.next[c] THEN b.previous[c] ELSE b.previous[d]

\* What it makes of every pointer to extract a channel and link it elsewhere.
LEMMA RelinkPointers ==
  ASSUME NEW b \in Linked, NEW l \in MemberChannels, NEW c \in MemberChannels, NEW u \in MemberChannels,
         NEW r, r = Link(Extract(b, c), l, c, u)
  PROVE  r \in Linked /\ SameButLinks(r, b) /\ Relinked(r, b, l, c, u)
<1> PICK e : e = Extract(b, c)
  OBVIOUS
<1>1. e \in Loose
  BY ExtractStep
<1>2. Joined(r, e, l, c, u)
  BY <1>1, LinkStep
<1> PICK p \in MemberChannels, n \in MemberChannels : p = b.previous[c] /\ n = b.next[c]
  BY DEF Linked
<1>3. /\ e.next = [[b.next EXCEPT ![p] = n] EXCEPT ![c] = NoChannel]
      /\ e.previous = [[b.previous EXCEPT ![n] = p] EXCEPT ![c] = NoChannel]
  <2>1. b.next[c] # NoChannel
    BY ChannelFacts
  <2>2. e = [b EXCEPT !.next     = [[@ EXCEPT ![p] = n] EXCEPT ![c] = NoChannel],
                      !.previous = [[@ EXCEPT ![n] = p] EXCEPT ![c] = NoChannel]]
    BY <2>1 DEF Extract
  <2> QED BY <2>2 DEF Linked
<1>4. b.next \in [MemberChannels -> MemberChannels] /\ b.previous \in [MemberChannels -> MemberChannels]
  BY DEF Linked
<1>5. \A d \in MemberChannels : e.next[d] = IF d = c THEN NoChannel ELSE IF d = p THEN n ELSE b.next[d]
  BY <1>3, <1>4
<1>6. \A d \in MemberChannels : e.previous[d] = IF d = c THEN NoChannel ELSE IF d = n THEN p ELSE b.previous[d]
  BY <1>3, <1>4
<1>7. Relinked(r, b, l, c, u)
  BY <1>2, <1>5, <1>6 DEF Joined, Relinked
<1> QED BY <1>7, RelinkStep

-----------------------------------------------------------------------------
(* The bucket and the row it stands for: r channels are released, in front *)
(* of those that are taken.                                                *)

Spells(b, q, r) ==
  /\ b \in Linked /\ q \in Rows /\ r \in 0..Members
  /\ Round(q, b.next, b.previous)
  /\ b.top = q[1]
  /\ b.bottomReleased = IF r = 0 THEN NoChannel ELSE q[r]
  /\ \A i \in Places : IF i > r THEN b.taken[q[i]] > 0 ELSE b.taken[q[i]] = 0

\* Taking a channel moves the top one behind all others.
LEMMA TakeSpells ==
  ASSUME NEW b, NEW q, NEW r, Spells(b, q, r)
  PROVE  /\ Spells(BucketTake(b), MovedTo(q, 1, Members), IF r = 0 THEN 0 ELSE r - 1)
         /\ b.top = q[1] /\ BucketTake(b).taken = [b.taken EXCEPT ![q[1]] = @ + 1]
<1> DEFINE s == MovedTo(q, 1, Members)
           t == IF r = 0 THEN 0 ELSE r - 1
<1>0. 1 \in Places /\ Members \in Places /\ Members \in Nat \ {0} /\ \A i \in Places : After(i) \in Places /\ Before(i) \in Places
  BY PlaceFacts, ChannelFacts
<1>1. /\ b \in Linked /\ q \in Rows /\ r \in 0..Members /\ b.top = q[1]
      /\ \A i \in Places : b.next[q[i]] = q[After(i)] /\ b.previous[q[i]] = q[Before(i)]
      /\ b.bottomReleased = IF r = 0 THEN NoChannel ELSE q[r]
      /\ \A i \in Places : IF i > r THEN b.taken[q[i]] > 0 ELSE b.taken[q[i]] = 0
  BY DEF Spells, Round
<1>2. BucketTake(b) \in Linked /\ BucketTake(b).taken = [b.taken EXCEPT ![b.top] = @ + 1]
  BY <1>1, TakeStep
<1>3. /\ BucketTake(b).next = b.next /\ BucketTake(b).previous = b.previous
      /\ BucketTake(b).top = q[After(1)]
      /\ BucketTake(b).bottomReleased = IF b.bottomReleased = q[1] THEN NoChannel ELSE b.bottomReleased
  BY <1>0, <1>1 DEF BucketTake, Linked
<1>4. s \in Rows /\ \A i \in Places : s[i] = q[After(i)]
  <2>1. \A i \in Places : From(1, Members, i) = After(i)
    BY ChannelFacts DEF From, After, Places
  <2> QED BY <1>0, <1>1, <2>1, MovedIsRow DEF MovedTo
<1> HIDE DEF s
<1>5. \A i, h \in Places : (q[i] = q[h] <=> i = h) /\ q[i] \in MemberChannels
  BY <1>1 DEF Rows
<1>6. Round(s, b.next, b.previous)
  <2>1. \A i \in Places : After(Before(i)) = i /\ Before(After(i)) = i
    BY PlaceFacts
  <2>2. ASSUME NEW i \in Places
        PROVE  b.next[s[i]] = s[After(i)] /\ b.previous[s[i]] = s[Before(i)]
    <3> PICK j \in Places, h \in Places : j = After(i) /\ h = Before(i) /\ Before(j) = i /\ After(h) = i
      BY <1>0, <2>1
    <3>1. s[i] = q[j] /\ s[j] = q[After(j)] /\ s[h] = q[i]
      BY <1>4
    <3>2. b.next[q[j]] = q[After(j)] /\ b.previous[q[j]] = q[Before(j)]
      BY <1>1
    <3> QED BY <3>1, <3>2
  <2> QED BY <2>2 DEF Round
<1>7. t \in 0..Members /\ BucketTake(b).bottomReleased = IF t = 0 THEN NoChannel ELSE s[t]
  <2>1. CASE r = 0
    BY <1>0, <1>1, <1>3, <2>1
  <2>2. CASE r = 1
    BY <1>0, <1>1, <1>3, <2>2
  <2>3. CASE r > 1
    <3>1. r \in Places /\ r # 1 /\ t \in Places /\ After(t) = r /\ t # 0
      BY <1>0, <1>1, <2>3 DEF Places, After
    <3> QED BY <1>0, <1>1, <1>3, <1>4, <1>5, <2>3, <3>1
  <2> QED BY <1>1, <2>1, <2>2, <2>3
<1>8. \A i \in Places : IF i > t THEN BucketTake(b).taken[s[i]] > 0 ELSE BucketTake(b).taken[s[i]] = 0
  <2> TAKE i \in Places
  <2> PICK f \in [MemberChannels -> Int] : f = b.taken
    BY <1>1 DEF Linked
  <2>1. \A d \in MemberChannels : BucketTake(b).taken[d] = IF d = q[1] THEN f[d] + 1 ELSE f[d]
    BY <1>1, <1>2
  <2>2. s[i] = q[1] <=> i = Members
    BY <1>0, <1>4, <1>5 DEF After, Places
  <2>3. i > t <=> (i = Members \/ After(i) > r)
    BY <1>0, <1>1 DEF After, Places
  <2>4. f[q[1]] >= 0 /\ f[q[1]] \in Int
    BY <1>0, <1>1, <1>5
  <2>5. CASE i = Members
    BY <1>0, <1>4, <1>5, <2>1, <2>2, <2>3, <2>4, <2>5
  <2>6. CASE i # Members
    <3>1. After(i) \in Places /\ s[i] = q[After(i)] /\ s[i] \in MemberChannels /\ (i > t <=> After(i) > r)
      BY <1>0, <1>4, <1>5, <2>3, <2>6
    <3>2. BucketTake(b).taken[s[i]] = f[q[After(i)]]
      BY <2>1, <2>2, <2>6, <3>1
    <3>3. IF After(i) > r THEN f[q[After(i)]] > 0 ELSE f[q[After(i)]] = 0
      BY <1>1, <3>1
    <3> QED BY <3>1, <3>2, <3>3
  <2> QED BY <2>5, <2>6
<1>9. Spells(BucketTake(b), s, t)
  BY <1>0, <1>2, <1>3, <1>4, <1>6, <1>7, <1>8 DEF Spells
<1> QED BY <1>1, <1>2, <1>9 DEF s

\* A bucket whose links go round a row, wherever its released channels end.
Ringed(b, q) == b \in Linked /\ q \in Rows /\ Round(q, b.next, b.previous) /\ b.top = q[1]

\* Unlinking and linking, in the order of the row.
LEMMA RelinkRinged ==
  ASSUME NEW b, NEW q, Ringed(b, q), NEW k \in Places, NEW j \in Places, NEW s, s = MovedTo(q, k, j),
         NEW r, r = Link(Extract(b, q[k]), s[Before(j)], q[k], s[After(j)])
  PROVE  r \in Linked /\ SameButLinks(r, b) /\ Round(s, r.next, r.previous)
<1> PICK c \in MemberChannels, l \in MemberChannels, u \in MemberChannels :
      c = q[k] /\ l = s[Before(j)] /\ u = s[After(j)]
  <2>1. s \in Rows
    BY MovedIsRow DEF Ringed
  <2>2. Before(j) \in Places /\ After(j) \in Places
    BY PlaceFacts
  <2> QED BY <2>1, <2>2 DEF Rows, Ringed
<1>1. b \in Linked /\ q \in Rows /\ Round(q, b.next, b.previous)
  BY DEF Ringed
<1>2. r \in Linked /\ SameButLinks(r, b) /\ Relinked(r, b, l, c, u)
  BY <1>1, RelinkPointers
<1>3. Round(s, r.next, r.previous)
  BY <1>1, <1>2, RelinkRound DEF Relinked
<1> QED BY <1>2, <1>3

\* Extremize moves a channel to where the row begins and ends.
LEMMA ExtremizeRinged ==
  ASSUME NEW b, NEW q, Ringed(b, q), NEW k \in Places, NEW j \in {1, Members}, NEW s, s = MovedTo(q, k, j)
  PROVE  /\ Extremize(b, q[k]) \in Linked /\ SameButLinks(Extremize(b, q[k]), b)
         /\ Round(s, Extremize(b, q[k]).next, Extremize(b, q[k]).previous)
<1> PICK c : c = q[k]
  OBVIOUS
<1>1. j \in Places /\ 1 \in Places /\ Members \in Places /\ Before(1) = Members /\ After(Members) = 1
  BY PlaceFacts DEF Before, After
<1>2. /\ b.top = q[1] /\ b.previous[b.top] = q[Members] /\ b.previous[c] = q[Before(k)] /\ b.next[c] = q[After(k)]
      /\ q[1] = c <=> k = 1
      /\ q[Members] = c <=> k = Members
  BY <1>1 DEF Ringed, Round, Rows
<1>3. \A i \in Places : s[i] = q[From(k, j, i)]
  BY DEF MovedTo
<1>4. (IF b.previous[b.top] = c THEN b.previous[c] ELSE b.previous[b.top]) = s[Before(j)]
  <2>1. From(k, j, Before(j)) = IF k = Members THEN Before(k) ELSE Members
    BY <1>1, ChannelFacts DEF From, Before, Places
  <2>2. Before(j) \in Places
    BY <1>1, PlaceFacts
  <2> QED BY <1>2, <1>3, <2>1, <2>2
<1>5. (IF b.top = c THEN b.next[c] ELSE b.top) = s[After(j)]
  <2>1. From(k, j, After(j)) = IF k = 1 THEN After(k) ELSE 1
    BY <1>1, ChannelFacts DEF From, After, Places
  <2>2. After(j) \in Places
    BY <1>1, PlaceFacts
  <2> QED BY <1>2, <1>3, <2>1, <2>2
<1>6. Extremize(b, c) = Link(Extract(b, c), s[Before(j)], c, s[After(j)])
  BY <1>4, <1>5 DEF Extremize
<1> QED BY <1>1, <1>6, RelinkRinged

\* Giving a channel back: behind all others when notes are left on it, else
\* behind the released ones.
LEMMA ReleaseSpells ==
  ASSUME NEW b, NEW q, NEW r, Spells(b, q, r), NEW k \in Places, k > r
  PROVE  /\ b.taken[q[k]] > 0
         /\ BucketRelease(b, q[k]).taken = [b.taken EXCEPT ![q[k]] = @ - 1]
         /\ IF b.taken[q[k]] > 1 THEN Spells(BucketRelease(b, q[k]), MovedTo(q, k, Members), r)
            ELSE Spells(BucketRelease(b, q[k]), MovedTo(q, k, r + 1), r + 1)
<1> PICK c \in MemberChannels : c = q[k]
  BY DEF Spells, Rows
<1> DEFINE counted == [b EXCEPT !.taken[c] = @ - 1]
<1>1. /\ counted \in Linked /\ counted.taken = [b.taken EXCEPT ![c] = @ - 1]
      /\ counted.next = b.next /\ counted.previous = b.previous
      /\ counted.top = b.top /\ counted.bottomReleased = b.bottomReleased
      /\ b.top # NoChannel /\ b.next[c] # NoChannel
  BY ChannelFacts DEF Spells, Linked
<1>2. BucketRelease(b, c) = IF counted.taken[c] > 0 THEN StillTaken(counted, c) ELSE Released(counted, c)
  BY <1>1 DEF BucketRelease
<1> PICK d : d = counted
  OBVIOUS
<1> HIDE DEF counted
<1>3. BucketRelease(b, c) \in Linked /\ BucketRelease(b, c).taken = [b.taken EXCEPT ![c] = @ - 1]
  BY ReleaseStep DEF Spells
<1>4. Ringed(d, q) /\ d \in Linked
  BY <1>1 DEF Ringed, Spells
<1>5. /\ q \in Rows /\ r \in 0..Members /\ Members \in Nat \ {0} /\ k \in 1..Members
      /\ 1 \in Places /\ Members \in Places /\ r + 1 \in Places
  BY ChannelFacts DEF Spells, Places
<1>6. \A i, h \in Places : (q[i] = q[h] <=> i = h) /\ q[i] \in MemberChannels
  BY <1>5 DEF Rows
<1> PICK f \in [MemberChannels -> Int] : f = b.taken
  BY DEF Spells, Linked
<1>7. \A i \in Places : IF i > r THEN f[q[i]] > 0 ELSE f[q[i]] = 0
  BY DEF Spells
<1>8. f[c] > 0 /\ f[c] \in Int /\ d.taken[c] = f[c] - 1
  BY <1>1, <1>7
<1> PICK g : g = [f EXCEPT ![c] = @ - 1]
  OBVIOUS
<1>9. ASSUME NEW j \in Places, NEW t \in 0..Members,
             \/ f[c] > 1 /\ j = Members /\ t = r
             \/ f[c] = 1 /\ j = r + 1 /\ t = r + 1
      PROVE  \A i \in Places : IF i > t THEN g[MovedTo(q, k, j)[i]] > 0 ELSE g[MovedTo(q, k, j)[i]] = 0
  <2> PICK s : s = MovedTo(q, k, j)
    OBVIOUS
  <2> SUFFICES ASSUME NEW i \in Places PROVE IF i > t THEN g[s[i]] > 0 ELSE g[s[i]] = 0
    OBVIOUS
  <2> PICK m \in Places : m = From(k, j, i)
    BY PlaceFacts
  <2>1. s[i] = q[m] /\ (q[m] = c <=> m = k) /\ q[m] \in MemberChannels
    BY <1>6, <1>9 DEF MovedTo
  <2>2. g[s[i]] = IF m = k THEN f[c] - 1 ELSE f[q[m]]
    BY <1>9, <2>1
  <2>3. m = k <=> i = j
    BY DEF From, Places
  <2>4. m # k => (i > t <=> m > r)
    BY <1>5, <1>9 DEF From, Places
  <2>5. IF m > r THEN f[q[m]] > 0 ELSE f[q[m]] = 0
    BY <1>7
  <2>6. CASE m = k
    <3>1. IF f[c] > 1 THEN i > t ELSE ~(i > t)
      BY <1>5, <1>9, <2>3, <2>6 DEF Places
    <3> QED BY <1>8, <1>9, <2>2, <2>6, <3>1
  <2>7. CASE m # k
    BY <2>2, <2>4, <2>5, <2>7
  <2> QED BY <2>6, <2>7
<1>10. CASE f[c] > 1
  <2> PICK s : s = MovedTo(q, k, Members)
    OBVIOUS
  <2> PICK e : e = Extremize(d, c)
    OBVIOUS
  <2>1. e \in Linked /\ SameButLinks(e, d) /\ Round(s, e.next, e.previous) /\ s \in Rows
    BY <1>4, <1>5, ExtremizeRinged, MovedIsRow
  <2>2. BucketRelease(b, c) = [e EXCEPT !.top = e.next[c]]
    BY <1>2, <1>8, <1>10 DEF StillTaken
  <2>3. s[Members] = c /\ After(Members) = 1
    BY <1>5 DEF MovedTo, From, After
  <2>4. e.next[c] = s[1]
    BY <1>5, <2>1, <2>3 DEF Round
  <2> PICK z : z = BucketRelease(b, c)
    OBVIOUS
  <2>5. z.next = e.next /\ z.previous = e.previous /\ z.top = s[1] /\ z.bottomReleased = b.bottomReleased
    BY <1>1, <2>1, <2>2, <2>4 DEF Linked, SameButLinks
  <2>6. r = 0 \/ (r \in Places /\ s[r] = q[r])
    BY <1>5 DEF MovedTo, From, Places
  <2>7. z.bottomReleased = IF r = 0 THEN NoChannel ELSE s[r]
    BY <2>5, <2>6 DEF Spells
  <2>8. z.taken = [f EXCEPT ![c] = @ - 1] /\ z \in Linked
    BY <1>3
  <2>9. \A i \in Places : IF i > r THEN z.taken[s[i]] > 0 ELSE z.taken[s[i]] = 0
    <3>1. z.taken = g /\ Members \in Places /\ r \in 0..Members
      BY <1>5, <2>8
    <3> QED BY <1>9, <1>10, <3>1
  <2>10. Spells(z, s, r)
    BY <1>5, <2>1, <2>5, <2>7, <2>8, <2>9 DEF Spells
  <2> QED BY <1>3, <1>8, <1>10, <2>10
<1>11. CASE f[c] = 1
  <2> PICK j \in Places : j = r + 1
    BY <1>5
  <2> PICK s : s = MovedTo(q, k, j)
    OBVIOUS
  <2> PICK z : z = BucketRelease(b, c)
    OBVIOUS
  <2>1. z = Released(d, c)
    BY <1>2, <1>8, <1>11
  <2>2. s \in Rows /\ s[j] = c
    BY <1>5, MovedIsRow DEF MovedTo, From
  <2>3. z.taken = [f EXCEPT ![c] = @ - 1] /\ z \in Linked
    BY <1>3
  <2>4. Round(s, z.next, z.previous) /\ z.top = s[1] /\ z.bottomReleased = c
    <3>1. CASE r = 0
      <4> PICK e : e = Extremize(d, c)
        OBVIOUS
      <4>1. e \in Linked /\ Round(s, e.next, e.previous)
        BY <1>4, <1>5, <3>1, ExtremizeRinged
      <4>2. z = [e EXCEPT !.top = c, !.bottomReleased = c]
        BY <1>1, <2>1, <3>1 DEF Released, Spells
      <4>3. z.next = e.next /\ z.previous = e.previous /\ z.top = c /\ z.bottomReleased = c
        BY <4>1, <4>2 DEF Linked
      <4> QED BY <2>2, <3>1, <4>1, <4>3
    <3>2. CASE r > 0 /\ k > r + 1
      <4>1. /\ r \in Places /\ j \in Places /\ Before(j) = r /\ After(r) = j /\ After(j) \in Places
            /\ From(k, j, r) = r /\ From(k, j, After(j)) = j /\ From(k, j, 1) = 1 /\ k # j
        BY <1>5, <3>2 DEF Places, Before, After, From
      <4>2. d.bottomReleased = q[r] /\ q[r] # NoChannel
        BY <1>1, <1>6, <3>2, <4>1, ChannelFacts DEF Spells
      <4>3. d.next[q[r]] = q[j] /\ q[j] # c
        BY <1>4, <1>6, <4>1 DEF Ringed, Round
      <4>4. s[Before(j)] = q[r] /\ s[After(j)] = q[j] /\ s[1] = q[1]
        BY <1>5, <4>1 DEF MovedTo
      <4> PICK e : e = Link(Extract(d, c), q[r], c, q[j])
        OBVIOUS
      <4>5. e \in Linked /\ SameButLinks(e, d) /\ Round(s, e.next, e.previous)
        BY <1>4, <4>4, RelinkRinged
      <4>6. z = [e EXCEPT !.bottomReleased = c]
        BY <2>1, <4>2, <4>3 DEF Released
      <4>7. z.next = e.next /\ z.previous = e.previous /\ z.top = d.top /\ z.bottomReleased = c
        BY <4>5, <4>6 DEF Linked, SameButLinks
      <4> QED BY <1>4, <4>4, <4>5, <4>7 DEF Ringed
    <3>3. CASE r > 0 /\ k = r + 1
      <4>1. r \in Places /\ After(r) = k /\ \A i \in Places : From(k, j, i) = i
        BY <1>5, <3>3 DEF Places, After, From
      <4>2. d.bottomReleased = q[r] /\ q[r] # NoChannel
        BY <1>1, <1>6, <3>3, <4>1, ChannelFacts DEF Spells
      <4>3. d.next[q[r]] = c
        BY <1>4, <4>1 DEF Ringed, Round
      <4>4. z = [d EXCEPT !.bottomReleased = c]
        BY <2>1, <4>2, <4>3 DEF Released
      <4>5. s = q
        BY <1>5, <4>1 DEF MovedTo, Rows
      <4>6. z.next = d.next /\ z.previous = d.previous /\ z.top = d.top /\ z.bottomReleased = c
        BY <1>4, <4>4 DEF Linked
      <4> QED BY <1>4, <4>5, <4>6 DEF Ringed
    <3> QED BY <1>5, <3>1, <3>2, <3>3
  <2>5. \A i \in Places : IF i > j THEN z.taken[s[i]] > 0 ELSE z.taken[s[i]] = 0
    <3>1. z.taken = g /\ j \in 0..Members
      BY <2>3, ChannelFacts DEF Places
    <3> QED BY <1>9, <1>11, <3>1
  <2>6. Spells(z, s, j)
    BY <1>5, <2>2, <2>3, <2>4, <2>5 DEF Spells, Places
  <2> QED BY <1>3, <1>8, <1>11, <2>6
<1> QED BY <1>8, <1>10, <1>11

-----------------------------------------------------------------------------
(* The filled bucket, and a bucket that spells a row, seen by the pool.    *)

FirstRow == [i \in Places |-> MemberChannel(i - 1)]

\* The filled bucket spells the member channels in their order, all released.
LEMMA FilledSpells == Spells(FilledBucket, FirstRow, Members)
<1> PICK b : b = FilledBucket
  OBVIOUS
<1>1. b \in Linked /\ b.taken = [c \in MemberChannels |-> 0] /\ InARow(b, Members)
  BY FilledIsLinked, FilledIsInARow
<1>2. Members \in Nat \ {0} /\ \A i \in Places : i - 1 \in 0..Members - 1 /\ FirstRow[i] = MemberChannel(i - 1)
  BY ChannelFacts DEF Places, FirstRow
<1>3. FirstRow \in Rows
  <2>1. FirstRow \in [Places -> MemberChannels]
    BY <1>2, ChannelFacts DEF FirstRow
  <2>2. \A i, j \in Places : FirstRow[i] = FirstRow[j] => i = j
    <3> TAKE i \in Places, j \in Places
    <3>1. MemberChannel(i - 1) = MemberChannel(j - 1) => i - 1 = j - 1
      BY <1>2, ChannelFacts
    <3> QED BY <1>2, <3>1 DEF Places
  <2>3. \A c \in MemberChannels : \E i \in Places : FirstRow[i] = c
    <3> TAKE c \in MemberChannels
    <3> PICK i \in 0..Members - 1 : c = MemberChannel(i)
      BY ChannelFacts
    <3>1. i + 1 \in Places /\ (i + 1) - 1 = i
      BY <1>2 DEF Places
    <3> QED BY <1>2, <3>1
  <2> QED BY <2>1, <2>2, <2>3 DEF Rows
<1>4. Round(FirstRow, b.next, b.previous)
  <2> SUFFICES ASSUME NEW i \in Places
               PROVE  b.next[FirstRow[i]] = FirstRow[After(i)] /\ b.previous[FirstRow[i]] = FirstRow[Before(i)]
    BY DEF Round
  <2> PICK j \in 0..Members - 1 : j = i - 1
    BY <1>2
  <2>1. /\ b.next[MemberChannel(j)] = MemberChannel(IF j = Members - 1 THEN 0 ELSE j + 1)
        /\ b.previous[MemberChannel(j)] = MemberChannel(IF j = 0 THEN Members - 1 ELSE j - 1)
    BY <1>1 DEF InARow
  <2>2. After(i) - 1 = (IF j = Members - 1 THEN 0 ELSE j + 1) /\ Before(i) - 1 = (IF j = 0 THEN Members - 1 ELSE j - 1)
    BY <1>2 DEF After, Before, Places
  <2>3. After(i) \in Places /\ Before(i) \in Places
    BY PlaceFacts
  <2> QED BY <1>2, <2>1, <2>2, <2>3
<1>5. 1 \in Places /\ Members \in Places /\ FirstRow[1] = MemberChannel(0) /\ FirstRow[Members] = MemberChannel(Members - 1)
  BY <1>2 DEF Places
<1>6. b.top = FirstRow[1] /\ b.bottomReleased = FirstRow[Members] /\ Members # 0 /\ Members \in 0..Members
  BY <1>1, <1>2, <1>5 DEF InARow
<1>7. \A i \in Places : ~(i > Members) /\ b.taken[FirstRow[i]] = 0
  BY <1>1, <1>2, <1>3 DEF Rows, Places
<1> QED BY <1>1, <1>3, <1>4, <1>6, <1>7 DEF Spells

\* Walking the ring reads the row.
LEMMA RingIsRow ==
  ASSUME NEW b, NEW q, NEW r, Spells(b, q, r)
  PROVE  Ring(b) = q /\ ReleasedCount(b) = r
<1>1. /\ b \in Linked /\ q \in Rows /\ r \in 0..Members /\ b.top = q[1]
      /\ \A i \in Places : b.next[q[i]] = q[After(i)]
      /\ b.bottomReleased = IF r = 0 THEN NoChannel ELSE q[r]
  BY DEF Spells, Round
<1>2. Members \in Nat \ {0} /\ Places = 1..Members
  BY ChannelFacts DEF Places
<1>3. q = [i \in 1..Members |-> q[i]]
  BY <1>1, <1>2 DEF Rows
<1>4. \A i \in 1..Members : q[i] = IF i = 1 THEN b.top ELSE b.next[q[i - 1]]
  <2> TAKE i \in 1..Members
  <2>1. i # 1 => i - 1 \in Places /\ After(i - 1) = i
    BY <1>2 DEF After
  <2> QED BY <1>1, <2>1
<1>5. q = [i \in 1..Members |-> IF i = 1 THEN b.top ELSE b.next[q[i - 1]]]
  BY <1>3, <1>4
<1> DEFINE walk == CHOOSE walk : walk = [i \in 1..Members |-> IF i = 1 THEN b.top ELSE b.next[walk[i - 1]]]
<1>6. walk = [i \in 1..Members |-> IF i = 1 THEN b.top ELSE b.next[walk[i - 1]]]
  BY <1>5
<1>7. Ring(b) = [i \in 1..Members |-> walk[i]]
  BY DEF Ring
<1> HIDE DEF walk
<1>8. \A i \in 1..Members : walk[i] = IF i = 1 THEN b.top ELSE b.next[walk[i - 1]]
  BY <1>6
<1>9. \A i \in 0..Members : i # 0 => walk[i] = q[i]
  <2> DEFINE A == {i \in 0..Members : i # 0 => walk[i] = q[i]}
  <2>1. 0 \in A
    BY <1>2
  <2>2. ASSUME NEW i \in 1..Members, i - 1 \in A
        PROVE  i \in A
    <3>1. CASE i = 1
      BY <1>1, <1>8, <3>1
    <3>2. CASE i # 1
      <4>1. i - 1 # 0 /\ walk[i - 1] = q[i - 1]
        BY <2>2, <3>2
      <4> QED BY <1>4, <1>8, <3>2, <4>1
    <3> QED BY <3>1, <3>2
  <2> HIDE DEF A
  <2>3. \A i \in 0..Members : i \in A
    BY <1>2, <2>1, <2>2, Loop!UpTo
  <2> QED BY <2>3 DEF A
<1>10. Ring(b) = q
  <2>1. \A i \in 1..Members : walk[i] = q[i]
    BY <1>9
  <2> QED BY <1>3, <1>7, <2>1
<1>11. ReleasedCount(b) = r
  <2>1. CASE r = 0
    BY <1>1, <2>1 DEF ReleasedCount
  <2>2. CASE r # 0
    <3>1. r \in 1..Members /\ b.bottomReleased = q[r] /\ q[r] # NoChannel
      BY <1>1, <1>2, <2>2, ChannelFacts DEF Rows
    <3>2. \A i \in 1..Members : q[i] = q[r] <=> i = r
      BY <1>1, <1>2, <3>1 DEF Rows
    <3>3. ReleasedCount(b) = CHOOSE i \in 1..Members : q[i] = q[r]
      BY <1>10, <3>1 DEF ReleasedCount
    <3> QED BY <3>1, <3>2, <3>3
  <2> QED BY <2>1, <2>2
<1> QED BY <1>10, <1>11

\* Sequences seen as functions.
LEMMA SequenceFacts ==
  ASSUME NEW S, NEW s \in Seq(S), NEW e \in S
  PROVE  /\ s = [i \in 1..Len(s) |-> s[i]]
         /\ Append(s, e) = [i \in 1..Len(s) + 1 |-> IF i = Len(s) + 1 THEN e ELSE s[i]]
         /\ s # <<>> => Tail(s) = [i \in 1..Len(s) - 1 |-> s[i + 1]]
<1>1. \A t \in Seq(S) : t = [i \in 1..Len(t) |-> t[i]]
  <2> TAKE t \in Seq(S)
  <2>1. t \in [1..Len(t) -> S]
    BY LenProperties
  <2> QED BY <2>1
<1>2. Append(s, e) = [i \in 1..Len(s) + 1 |-> IF i = Len(s) + 1 THEN e ELSE s[i]]
  <2> PICK t : t = Append(s, e)
    OBVIOUS
  <2>1. /\ t \in Seq(S) /\ Len(t) = Len(s) + 1
        /\ \A i \in 1..Len(s) + 1 : t[i] = IF i = Len(s) + 1 THEN e ELSE s[i]
    BY AppendProperties
  <2>2. t = [i \in 1..Len(t) |-> t[i]]
    BY <1>1, <2>1
  <2> QED BY <2>1, <2>2
<1>3. ASSUME s # <<>>
      PROVE  Tail(s) = [i \in 1..Len(s) - 1 |-> s[i + 1]]
  <2> PICK t : t = Tail(s)
    OBVIOUS
  <2>1. t \in Seq(S) /\ Len(t) = Len(s) - 1 /\ \A i \in 1..Len(t) : t[i] = s[i + 1]
    BY <1>3, HeadTailProperties
  <2>2. t = [i \in 1..Len(t) |-> t[i]]
    BY <1>1, <2>1
  <2> QED BY <2>1, <2>2
<1> QED BY <1>1, <1>2, <1>3

\* A sequence without one of its elements.
LEMMA CutOut ==
  ASSUME NEW S, NEW s \in Seq(S), NEW k \in 1..Len(s)
  PROVE  /\ RemoveAt(s, k) \in Seq(S) /\ Len(RemoveAt(s, k)) = Len(s) - 1
         /\ \A i \in 1..Len(s) - 1 : RemoveAt(s, k)[i] = IF i < k THEN s[i] ELSE s[i + 1]
<1>1. Len(s) \in Nat
  OBVIOUS
<1>2. PICK n \in Nat : n = Len(s)
  BY <1>1
<1>3. PICK l : l = SubSeq(s, 1, k - 1)
  OBVIOUS
<1>4. PICK h : h = SubSeq(s, k + 1, n)
  OBVIOUS
<1>5. l \in Seq(S) /\ Len(l) = k - 1 /\ \A i \in 1..k - 1 : l[i] = s[i]
  BY <1>2, <1>3
<1>6. h \in Seq(S) /\ Len(h) = n - k /\ \A i \in 1..n - k : h[i] = s[k + i]
  BY <1>2, <1>4
<1>7. PICK t : t = l \o h
  OBVIOUS
<1>8. /\ t \in Seq(S) /\ Len(t) = Len(l) + Len(h)
      /\ \A i \in 1..Len(l) + Len(h) : t[i] = IF i <= Len(l) THEN l[i] ELSE h[i - Len(l)]
  <2>1. l \in Seq(S) /\ h \in Seq(S)
    BY <1>5, <1>6
  <2> QED BY <1>7, <2>1, ConcatProperties
<1>9. Len(l) + Len(h) = n - 1 /\ k \in 1..n
  BY <1>2, <1>5, <1>6
<1>10. \A i \in 1..n - 1 : t[i] = IF i < k THEN s[i] ELSE s[i + 1]
  <2> TAKE i \in 1..n - 1
  <2>1. CASE i < k
    <3>1. i \in 1..k - 1 /\ i <= k - 1
      BY <1>9, <2>1
    <3> QED BY <1>5, <1>8, <1>9, <2>1, <3>1
  <2>2. CASE ~(i < k)
    <3>1. i - (k - 1) \in 1..n - k /\ k + (i - (k - 1)) = i + 1 /\ ~(i <= k - 1)
      BY <1>9, <2>2
    <3>2. t[i] = h[i - (k - 1)]
      BY <1>5, <1>8, <1>9, <3>1
    <3> QED BY <1>6, <2>2, <3>1, <3>2
  <2> QED BY <2>1, <2>2
<1>11. RemoveAt(s, k) = t
  BY <1>2, <1>3, <1>4, <1>7 DEF RemoveAt
<1> QED BY <1>2, <1>8, <1>9, <1>10, <1>11

\* A channel is removed from a queue in which it stands once.
LEMMA RemovedFromQueue ==
  ASSUME NEW s \in Seq(MemberChannels), NEW k \in 1..Len(s),
         \A i \in 1..Len(s) : s[i] = s[k] => i = k
  PROVE  RemoveFirst(s, s[k]) = RemoveAt(s, k)
<1>1. {i \in 1..Len(s) : s[i] = s[k]} = {k}
  OBVIOUS
<1>2. Min({k}) = k
  BY DEF Min
<1> QED BY <1>1, <1>2 DEF RemoveFirst, SelectInSeq

Free(q, r) == [i \in 1..r |-> q[i]]
Busy(q, r) == [i \in 1..Members - r |-> q[r + i]]

\* What the pool sees of the bucket.
LEMMA PoolOfRow ==
  ASSUME NEW b, NEW q, NEW r, Spells(b, q, r)
  PROVE  /\ SubSeq(Ring(b), 1, ReleasedCount(b)) = Free(q, r)
         /\ SubSeq(Ring(b), ReleasedCount(b) + 1, Members) = Busy(q, r)
<1>1. Ring(b) = q /\ ReleasedCount(b) = r
  BY RingIsRow
<1>2. q \in [1..Members -> MemberChannels] /\ r \in 0..Members /\ Members \in Nat
  BY ChannelFacts DEF Spells, Rows, Places
<1>3. SubSeq(q, 1, r) = [i \in 1..r |-> q[i]]
  BY <1>2
<1>4. SubSeq(q, r + 1, Members) = [i \in 1..Members - r |-> q[r + i]]
  BY <1>2
<1> QED BY <1>1, <1>3, <1>4 DEF Free, Busy

\* Both are queues in which every channel stands once.
LEMMA QueueFacts ==
  ASSUME NEW q \in Rows, NEW r \in 0..Members
  PROVE  /\ Free(q, r) \in Seq(MemberChannels) /\ Len(Free(q, r)) = r
         /\ \A i \in 1..r : Free(q, r)[i] = q[i]
         /\ Busy(q, r) \in Seq(MemberChannels) /\ Len(Busy(q, r)) = Members - r
         /\ \A i \in 1..Members - r : Busy(q, r)[i] = q[r + i] /\ r + i \in Places
         /\ \A i, j \in 1..Members - r : Busy(q, r)[i] = Busy(q, r)[j] => i = j
<1>1. Members \in Nat /\ Places = 1..Members /\ r \in Nat /\ Members - r \in Nat
  BY ChannelFacts DEF Places
<1>2. \A i \in 1..r : i \in Places /\ q[i] \in MemberChannels
  BY <1>1 DEF Rows
<1>3. \A i \in 1..Members - r : r + i \in Places /\ q[r + i] \in MemberChannels
  BY <1>1 DEF Rows
<1>4. Free(q, r) \in Seq(MemberChannels) /\ Len(Free(q, r)) = r /\ \A i \in 1..r : Free(q, r)[i] = q[i]
  BY <1>1, <1>2 DEF Free
<1>5. /\ Busy(q, r) \in Seq(MemberChannels) /\ Len(Busy(q, r)) = Members - r
      /\ \A i \in 1..Members - r : Busy(q, r)[i] = q[r + i]
  BY <1>1, <1>3 DEF Busy
<1>6. \A i, j \in 1..Members - r : Busy(q, r)[i] = Busy(q, r)[j] => i = j
  <2> SUFFICES ASSUME NEW i \in 1..Members - r, NEW j \in 1..Members - r, Busy(q, r)[i] = Busy(q, r)[j]
               PROVE  i = j
    OBVIOUS
  <2>1. r + i = r + j
    BY <1>3, <1>5 DEF Rows
  <2> QED BY <1>1, <2>1
<1> QED BY <1>3, <1>4, <1>5, <1>6

\* The queue of the busy channels without one of them.
LEMMA BusyWithout ==
  ASSUME NEW q \in Rows, NEW r \in 0..Members, NEW k \in Places, k > r
  PROVE  /\ RemoveFirst(Busy(q, r), q[k]) = [i \in 1..Members - r - 1 |-> IF i < k - r THEN q[r + i] ELSE q[r + i + 1]]
         /\ RemoveFirst(Busy(q, r), q[k]) \in Seq(MemberChannels) /\ Len(RemoveFirst(Busy(q, r), q[k])) = Members - r - 1
<1>1. Members \in Nat /\ Places = 1..Members /\ r \in Nat /\ Members - r \in Nat /\ k - r \in 1..Members - r /\ r + (k - r) = k
  BY ChannelFacts DEF Places
<1> PICK s : s = Busy(q, r)
  OBVIOUS
<1>2. /\ s \in Seq(MemberChannels) /\ Len(s) = Members - r /\ \A i, j \in 1..Len(s) : s[i] = s[j] => i = j
      /\ \A i \in 1..Members - r : s[i] = q[r + i] /\ r + i \in Places
  BY QueueFacts
<1>3. RemoveFirst(s, q[k]) = [i \in 1..Len(s) - 1 |-> IF i < k - r THEN s[i] ELSE s[i + 1]]
  <2>1. s[k - r] = q[k] /\ k - r \in 1..Len(s)
    BY <1>1, <1>2
  <2>2. PICK m \in 1..Len(s) : m = k - r
    BY <2>1
  <2>3. \A i \in 1..Len(s) : s[i] = s[m] => i = m
    BY <1>2
  <2>4. RemoveFirst(s, s[m]) = RemoveAt(s, m)
    BY <1>2, <2>3, RemovedFromQueue
  <2>5. PICK w : w = RemoveAt(s, m)
    OBVIOUS
  <2>6. w \in Seq(MemberChannels) /\ Len(w) = Len(s) - 1 /\ \A i \in 1..Len(s) - 1 : w[i] = IF i < m THEN s[i] ELSE s[i + 1]
    <3>1. s \in Seq(MemberChannels)
      BY <1>2
    <3> QED BY <2>5, <3>1, CutOut
  <2>7. w \in [1..Len(w) -> MemberChannels]
    BY <2>6, LenProperties
  <2>8. w = [i \in 1..Len(s) - 1 |-> IF i < m THEN s[i] ELSE s[i + 1]]
    BY <2>6, <2>7
  <2> QED BY <2>1, <2>2, <2>4, <2>5, <2>8
<1>4. \A i \in 1..Members - r - 1 : /\ s[i] = q[r + i] /\ s[i + 1] = q[r + i + 1]
                                  /\ q[r + i] \in MemberChannels /\ q[r + i + 1] \in MemberChannels
  <2> TAKE i \in 1..Members - r - 1
  <2>1. i \in 1..Members - r /\ i + 1 \in 1..Members - r /\ r + (i + 1) = r + i + 1
    BY <1>1
  <2>2. s[i] = q[r + i] /\ s[i + 1] = q[r + (i + 1)] /\ r + i \in Places /\ r + (i + 1) \in Places
    BY <1>2, <2>1
  <2> QED BY <2>1, <2>2 DEF Rows
<1>5. RemoveFirst(s, q[k]) = [i \in 1..Members - r - 1 |-> IF i < k - r THEN q[r + i] ELSE q[r + i + 1]]
  BY <1>2, <1>3, <1>4
<1>6. Members - r - 1 \in Nat
  BY <1>1
<1>7. \A i \in 1..Members - r - 1 : (IF i < k - r THEN q[r + i] ELSE q[r + i + 1]) \in MemberChannels
  BY <1>4
<1>8. RemoveFirst(s, q[k]) \in Seq(MemberChannels) /\ Len(RemoveFirst(s, q[k])) = Members - r - 1
  BY <1>5, <1>6, <1>7
<1> QED BY <1>5, <1>8

\* The channel that is handed out is the next one of the pool.
LEMMA TakeIsAcquire ==
  ASSUME NEW q \in Rows, NEW r \in 0..Members
  PROVE  /\ q[1] = IF Free(q, r) # <<>> THEN Head(Free(q, r)) ELSE Head(Busy(q, r))
         /\ Free(MovedTo(q, 1, Members), IF r = 0 THEN 0 ELSE r - 1) =
              IF Free(q, r) # <<>> THEN Tail(Free(q, r)) ELSE Free(q, r)
         /\ Busy(MovedTo(q, 1, Members), IF r = 0 THEN 0 ELSE r - 1) = Append(RemoveFirst(Busy(q, r), q[1]), q[1])
<1>0. PICK s, t : s = MovedTo(q, 1, Members) /\ t = IF r = 0 THEN 0 ELSE r - 1
  OBVIOUS
<1>1. Members \in Nat \ {0} /\ Places = 1..Members /\ r \in Nat /\ 1 \in Places /\ q[1] \in MemberChannels
  BY ChannelFacts DEF Places, Rows
<1>2. \A i \in Places : s[i] = IF i = Members THEN q[1] ELSE q[i + 1]
  BY <1>0, <1>1 DEF MovedTo, From
<1>3. /\ Free(q, r) \in Seq(MemberChannels) /\ Len(Free(q, r)) = r /\ \A i \in 1..r : Free(q, r)[i] = q[i]
      /\ Busy(q, r) \in Seq(MemberChannels) /\ Len(Busy(q, r)) = Members - r
      /\ \A i \in 1..Members - r : Busy(q, r)[i] = q[r + i]
      /\ \A i, j \in 1..Members - r : Busy(q, r)[i] = Busy(q, r)[j] => i = j
  BY QueueFacts
<1>4. Free(q, r) # <<>> <=> r # 0
  BY <1>1, <1>3
<1>5. CASE r = 0
  <2>1. q[1] = Head(Busy(q, r)) /\ 1 > r
    BY <1>1, <1>3, <1>5
  <2>2. Free(s, t) = Free(q, r)
    BY <1>0, <1>5 DEF Free
  <2> PICK w : w = RemoveFirst(Busy(q, r), q[1])
    OBVIOUS
  <2>3. w = [i \in 1..Members - 1 |-> q[i + 1]] /\ w \in Seq(MemberChannels) /\ Len(w) = Members - 1
    <3>1. /\ w = [i \in 1..Members - 0 - 1 |-> IF i < 1 - 0 THEN q[0 + i] ELSE q[0 + i + 1]]
          /\ w \in Seq(MemberChannels) /\ Len(w) = Members - 0 - 1
      BY <1>1, <1>5, <2>1, BusyWithout
    <3>2. Members - 0 - 1 = Members - 1 /\ \A i \in 1..Members - 1 : ~(i < 1 - 0) /\ 0 + i + 1 = i + 1
      BY <1>1
    <3> QED BY <3>1, <3>2
  <2>4. Busy(s, t) = [i \in 1..Members |-> IF i = Members THEN q[1] ELSE q[i + 1]]
    BY <1>0, <1>1, <1>2, <1>5 DEF Busy
  <2>5. Append(w, q[1]) = [i \in 1..Members |-> IF i = Members THEN q[1] ELSE q[i + 1]]
    BY <1>1, <2>3
  <2> QED BY <1>0, <1>4, <1>5, <2>1, <2>2, <2>4, <2>5
<1>6. CASE r # 0
  <2>1. q[1] = Head(Free(q, r))
    BY <1>1, <1>3, <1>6
  <2>2. Free(s, t) = Tail(Free(q, r))
    <3>1. Tail(Free(q, r)) = [i \in 1..r - 1 |-> Free(q, r)[i + 1]]
      BY <1>1, <1>3, <1>4, <1>6, SequenceFacts
    <3>3. \A i \in 1..r - 1 : Free(q, r)[i + 1] = q[i + 1]
      BY <1>1, <1>3
    <3>2. \A i \in 1..r - 1 : s[i] = q[i + 1]
      BY <1>1, <1>2
    <3> QED BY <1>0, <1>6, <3>1, <3>2, <3>3 DEF Free
  <2>3. RemoveFirst(Busy(q, r), q[1]) = Busy(q, r)
    <3>1. \A i \in 1..Members - r : r + i \in Places /\ r + i # 1 /\ Busy(q, r)[i] = q[r + i]
      BY <1>1, <1>3, <1>6
    <3>2. \A i \in 1..Members - r : Busy(q, r)[i] # q[1]
      BY <1>1, <3>1 DEF Rows
    <3> QED BY <1>3, <3>2 DEF RemoveFirst
  <2>4. Append(Busy(q, r), q[1]) = [i \in 1..Members - r + 1 |-> IF i = Members - r + 1 THEN q[1] ELSE q[r + i]]
    <3>1. Append(Busy(q, r), q[1]) = [i \in 1..Members - r + 1 |-> IF i = Members - r + 1 THEN q[1] ELSE Busy(q, r)[i]]
      BY <1>1, <1>3, SequenceFacts
    <3>2. \A i \in 1..Members - r + 1 : i # Members - r + 1 => Busy(q, r)[i] = q[r + i]
      BY <1>1, <1>3
    <3> QED BY <3>1, <3>2
  <2>5. \A i \in 1..Members - r + 1 : s[(r - 1) + i] = IF i = Members - r + 1 THEN q[1] ELSE q[r + i]
    <3> TAKE i \in 1..Members - r + 1
    <3>1. /\ (r - 1) + i \in Places /\ ((r - 1) + i = Members <=> i = Members - r + 1)
          /\ ((r - 1) + i) + 1 = r + i
      BY <1>1, <1>6
    <3> QED BY <1>2, <3>1
  <2>6. Busy(s, t) = [i \in 1..Members - r + 1 |-> s[(r - 1) + i]]
    BY <1>0, <1>1, <1>6 DEF Busy
  <2> QED BY <1>0, <1>4, <1>6, <2>1, <2>2, <2>3, <2>4, <2>5, <2>6
<1> QED BY <1>0, <1>4, <1>5, <1>6

\* A channel that is given back, with notes left on it and without.
LEMMA ReleaseIsGiveBack ==
  ASSUME NEW q \in Rows, NEW r \in 0..Members, NEW k \in Places, k > r
  PROVE  /\ Free(MovedTo(q, k, Members), r) = Free(q, r)
         /\ Busy(MovedTo(q, k, Members), r) = Append(RemoveFirst(Busy(q, r), q[k]), q[k])
         /\ Free(MovedTo(q, k, r + 1), r + 1) = Append(Free(q, r), q[k])
         /\ Busy(MovedTo(q, k, r + 1), r + 1) = RemoveFirst(Busy(q, r), q[k])
<1>1. /\ Members \in Nat \ {0} /\ Places = 1..Members /\ r \in Nat /\ k \in 1..Members /\ q[k] \in MemberChannels
      /\ Members \in Places /\ r + 1 \in Places
  BY ChannelFacts DEF Places, Rows
<1> PICK w : w = RemoveFirst(Busy(q, r), q[k])
  OBVIOUS
<1>2. /\ w = [i \in 1..Members - r - 1 |-> IF i < k - r THEN q[r + i] ELSE q[r + i + 1]]
      /\ w \in Seq(MemberChannels) /\ Len(w) = Members - r - 1
  BY BusyWithout
<1>3. Free(q, r) \in Seq(MemberChannels) /\ Len(Free(q, r)) = r /\ \A i \in 1..r : Free(q, r)[i] = q[i]
  BY QueueFacts
<1> PICK s, t : s = MovedTo(q, k, Members) /\ t = MovedTo(q, k, r + 1)
  OBVIOUS
<1>4. \A i \in 1..Members : s[i] = IF i = Members THEN q[k] ELSE IF i < k THEN q[i] ELSE q[i + 1]
  BY <1>1 DEF MovedTo, From
<1>5. \A i \in 1..Members : t[i] = IF i = r + 1 THEN q[k] ELSE IF i <= r \/ i > k THEN q[i] ELSE q[i - 1]
  BY <1>1 DEF MovedTo, From
<1>6. Free(s, r) = Free(q, r)
  <2>1. \A i \in 1..r : s[i] = q[i]
    BY <1>1, <1>4
  <2> QED BY <2>1 DEF Free
<1>7. Busy(s, r) = Append(w, q[k])
  <2>1. Append(w, q[k]) = [i \in 1..Members - r |-> IF i = Members - r THEN q[k] ELSE w[i]]
    BY <1>1, <1>2
  <2>2. \A i \in 1..Members - r : s[r + i] = IF i = Members - r THEN q[k] ELSE w[i]
    BY <1>1, <1>2, <1>4
  <2> QED BY <2>1, <2>2 DEF Busy
<1>8. Free(t, r + 1) = Append(Free(q, r), q[k])
  <2>1. Append(Free(q, r), q[k]) = [i \in 1..r + 1 |-> IF i = r + 1 THEN q[k] ELSE q[i]]
    BY <1>1, <1>3
  <2>2. \A i \in 1..r + 1 : t[i] = IF i = r + 1 THEN q[k] ELSE q[i]
    BY <1>1, <1>5
  <2> QED BY <2>1, <2>2 DEF Free
<1>9. Busy(t, r + 1) = w
  <2>1. \A i \in 1..Members - r - 1 : t[(r + 1) + i] = IF i < k - r THEN q[r + i] ELSE q[r + i + 1]
    <3> TAKE i \in 1..Members - r - 1
    <3>1. /\ (r + 1) + i \in 1..Members /\ (r + 1) + i # r + 1 /\ ~((r + 1) + i <= r)
          /\ (r + 1) + i > k <=> ~(i < k - r)
          /\ ((r + 1) + i) - 1 = r + i /\ (r + 1) + i = r + i + 1
      BY <1>1
    <3> QED BY <1>5, <3>1
  <2>2. Members - (r + 1) = Members - r - 1
    BY <1>1
  <2> QED BY <1>2, <2>1, <2>2 DEF Busy
<1> QED BY <1>6, <1>7, <1>8, <1>9

\* What the pool's operations need of the bucket's invariant.
PoolInv == ExpandInv /\ \E q, r : Spells(Bucket, q, r)

\* A note's channel is a busy one.
LEMMA HeldIsBusy ==
  ASSUME NEW a, NEW heard, Keeps(a, heard), NEW n \in ZoneNotes, NEW c \in MemberChannels, a.noteChannel[n] = c
  PROVE  a.bucketFilled /\ a.bucket.taken[c] > 0
<1>1. a.bucketFilled
  BY ChannelFacts DEF Keeps
<1>2. n \in Users(a.noteChannel, c) /\ Users(a.noteChannel, c) \subseteq ZoneNotes
  BY DEF Users
<1>3. IsFiniteSet(Users(a.noteChannel, c))
  BY <1>2, FS_Subset, ExpandAssumption
<1>4. Cardinality(Users(a.noteChannel, c)) \in Nat /\ Cardinality(Users(a.noteChannel, c)) # 0
  BY <1>2, <1>3, FS_CardinalityType, FS_EmptySet
<1>5. a.bucket.taken[c] = Cardinality(Users(a.noteChannel, c))
  BY DEF Keeps, Counted
<1> QED BY <1>1, <1>4, <1>5

\* What the pool sees of the bucket now and in the next state.
LEMMA PoolNow ==
  ASSUME NEW q, NEW r, Spells(Bucket, q, r)
  PROVE  /\ SubSeq(Ring(Bucket), 1, ReleasedCount(Bucket)) = Free(q, r)
         /\ SubSeq(Ring(Bucket), ReleasedCount(Bucket) + 1, Members) = Busy(q, r)
BY PoolOfRow

\* The queues of the pool after a step, of the row the bucket then spells.
LEMMA PoolThen ==
  ASSUME NEW q, NEW r, Spells(Bucket', q, r)
  PROVE  /\ SubSeq(Ring(Bucket), 1, ReleasedCount(Bucket))' = Free(q, r)
         /\ SubSeq(Ring(Bucket), ReleasedCount(Bucket) + 1, Members)' = Busy(q, r)
<1>1. /\ SubSeq(Ring(Bucket'), 1, ReleasedCount(Bucket')) = Free(q, r)
      /\ SubSeq(Ring(Bucket'), ReleasedCount(Bucket') + 1, Members) = Busy(q, r)
  BY PoolOfRow
<1> QED BY <1>1

\* Before the first note and after a panic all channels are free, in order.
LEMMA AllFree ==
  /\ Free(FirstRow, Members) = [i \in 1..Members |-> MemberChannel(i - 1)]
  /\ Busy(FirstRow, Members) = <<>>
<1>1. Members \in Nat /\ 1..Members - Members = {}
  BY ChannelFacts
<1>2. \A i \in 1..Members : FirstRow[i] = MemberChannel(i - 1)
  BY DEF FirstRow, Places
<1>3. Busy(FirstRow, Members) = <<>>
  BY <1>1 DEF Busy
<1> QED BY <1>2, <1>3 DEF Free

\* The operators of the pool's own copies of the modules it extends.
LEMMA PoolOperators ==
  /\ \A s, e : Pool!RemoveFirst(s, e) = RemoveFirst(s, e)
  /\ \A i : Pool!MemberChannel(i) = MemberChannel(i)
  /\ Pool!MemberChannels = MemberChannels
<1>1. ASSUME NEW s, NEW e
      PROVE  Pool!RemoveFirst(s, e) = RemoveFirst(s, e)
  <2>1. \A S : Pool!Min(S) = Min(S)
    BY DEF Pool!Min, Min
  <2>2. Pool!SelectInSeq(s, LAMBDA v : v = e) = SelectInSeq(s, LAMBDA v : v = e)
    BY <2>1 DEF Pool!SelectInSeq, SelectInSeq
  <2>3. \A k : Pool!RemoveAt(s, k) = RemoveAt(s, k)
    BY DEF Pool!RemoveAt, RemoveAt
  <2> QED BY <2>2, <2>3 DEF Pool!RemoveFirst, RemoveFirst
<1>2. \A i : Pool!MemberChannel(i) = MemberChannel(i)
  BY DEF Pool!MemberChannel, MemberChannel
<1>3. Pool!MemberChannels = MemberChannels
  BY <1>2 DEF Pool!MemberChannels, MemberChannels
<1> QED BY <1>1, <1>2, <1>3

\* A bucket that is filled again is a pool in which all channels are free.
LEMMA FilledIsRefilled ==
  ASSUME Bucket' = FilledBucket
  PROVE  Pool!Refill /\ Spells(Bucket', FirstRow, Members)
<1>1. Spells(Bucket', FirstRow, Members) /\ Bucket.taken' = [c \in MemberChannels |-> 0]
  BY FilledSpells, FilledIsLinked
<1>2. /\ SubSeq(Ring(Bucket), 1, ReleasedCount(Bucket))' = [i \in 1..Members |-> MemberChannel(i - 1)]
      /\ SubSeq(Ring(Bucket), ReleasedCount(Bucket) + 1, Members)' = <<>>
  BY <1>1, PoolThen, AllFree
<1> QED BY <1>1, <1>2, PoolOperators DEF Pool!Refill

\* A channel is taken: the queues before and after.
Taking(c, free, busy, uses, free2, busy2, uses2) ==
  /\ uses2 = [uses EXCEPT ![c] = @ + 1]
  /\ c = IF free # <<>> THEN Head(free) ELSE Head(busy)
  /\ free2 = IF free # <<>> THEN Tail(free) ELSE free
  /\ busy2 = Append(RemoveFirst(busy, c), c)

\* A channel is given back.
Giving(c, free, busy, uses, free2, busy2, uses2) ==
  /\ uses[c] > 0
  /\ uses2 = [uses EXCEPT ![c] = @ - 1]
  /\ free2 = IF uses[c] > 1 THEN free ELSE Append(free, c)
  /\ busy2 = IF uses[c] > 1 THEN Append(RemoveFirst(busy, c), c) ELSE RemoveFirst(busy, c)

\* The bucket does both as the pool does.
LEMMA TakeOfRow ==
  ASSUME NEW b, NEW q, NEW r, Spells(b, q, r)
  PROVE  \E s, t : /\ Spells(BucketTake(b), s, t)
                   /\ Taking(b.top, Free(q, r), Busy(q, r), b.taken, Free(s, t), Busy(s, t), BucketTake(b).taken)
<1> DEFINE s == MovedTo(q, 1, Members)
           t == IF r = 0 THEN 0 ELSE r - 1
<1>3. /\ Spells(BucketTake(b), s, t) /\ b.top = q[1]
      /\ BucketTake(b).taken = [b.taken EXCEPT ![q[1]] = @ + 1]
  BY TakeSpells
<1>4. q \in Rows /\ r \in 0..Members
  BY DEF Spells
<1>5. /\ q[1] = IF Free(q, r) # <<>> THEN Head(Free(q, r)) ELSE Head(Busy(q, r))
      /\ Free(s, t) = IF Free(q, r) # <<>> THEN Tail(Free(q, r)) ELSE Free(q, r)
      /\ Busy(s, t) = Append(RemoveFirst(Busy(q, r), q[1]), q[1])
  BY <1>4, TakeIsAcquire
<1> HIDE DEF s, t
<1> QED BY <1>3, <1>5 DEF Taking

\* A release of a bucket gives the channel back to the pool, or counts it down.
LEMMA ReleaseOfRow ==
  ASSUME NEW b, NEW q, NEW r, Spells(b, q, r), NEW c \in MemberChannels, b.taken[c] > 0
  PROVE  \E s, t : /\ Spells(BucketRelease(b, c), s, t)
                   /\ Giving(c, Free(q, r), Busy(q, r), b.taken, Free(s, t), Busy(s, t), BucketRelease(b, c).taken)
<1>1. /\ q \in Rows /\ r \in 0..Members
      /\ \A i \in Places : IF i > r THEN b.taken[q[i]] > 0 ELSE b.taken[q[i]] = 0
  BY DEF Spells
<1>2. PICK k \in Places : q[k] = c
  BY <1>1 DEF Rows
<1>3. k > r
  BY <1>1, <1>2
<1>4. PICK s, t : s = (IF b.taken[c] > 1 THEN MovedTo(q, k, Members) ELSE MovedTo(q, k, r + 1))
                  /\ t = (IF b.taken[c] > 1 THEN r ELSE r + 1)
  OBVIOUS
<1>5. BucketRelease(b, c).taken = [b.taken EXCEPT ![c] = @ - 1] /\ Spells(BucketRelease(b, c), s, t)
  BY <1>2, <1>3, <1>4, ReleaseSpells
<1>6. /\ Free(s, t) = IF b.taken[c] > 1 THEN Free(q, r) ELSE Append(Free(q, r), c)
      /\ Busy(s, t) = IF b.taken[c] > 1 THEN Append(RemoveFirst(Busy(q, r), c), c) ELSE RemoveFirst(Busy(q, r), c)
  BY <1>1, <1>2, <1>3, <1>4, ReleaseIsGiveBack
<1> QED BY <1>5, <1>6 DEF Giving

\* So the steps of the model are steps of the pool: a new note takes a channel,
LEMMA TakeStepsPool ==
  ASSUME NEW q, NEW r, Spells(Bucket, q, r), NEW b, b = BucketTake(Bucket), Bucket' = b
  PROVE  /\ \E c \in MemberChannels : Pool!Acquire(c)
         /\ \E s, t : Spells(Bucket', s, t)
<1>1. PICK s, t : Spells(b, s, t) /\ Taking(Bucket.top, Free(q, r), Busy(q, r), Bucket.taken, Free(s, t), Busy(s, t), b.taken)
  BY TakeOfRow
<1>2. Bucket.top \in MemberChannels
  BY DEF Spells, Linked
<1>3. /\ SubSeq(Ring(Bucket), 1, ReleasedCount(Bucket)) = Free(q, r)
      /\ SubSeq(Ring(Bucket), ReleasedCount(Bucket) + 1, Members) = Busy(q, r)
  BY PoolNow
<1>4. /\ SubSeq(Ring(Bucket), 1, ReleasedCount(Bucket))' = Free(s, t)
      /\ SubSeq(Ring(Bucket), ReleasedCount(Bucket) + 1, Members)' = Busy(s, t)
      /\ Bucket.taken' = b.taken
  BY <1>1, PoolThen
<1>5. Pool!Acquire(Bucket.top)
  BY <1>1, <1>3, <1>4, PoolOperators DEF Taking, Pool!Acquire, Pool!NextChannel
<1> QED BY <1>1, <1>2, <1>5

\* a note that ends gives its channel back,
LEMMA ReleaseStepsPool ==
  ASSUME NEW q, NEW r, Spells(Bucket, q, r), NEW c \in MemberChannels, Bucket.taken[c] > 0,
         NEW b, b = BucketRelease(Bucket, c), Bucket' = b
  PROVE  Pool!GiveBack(c) /\ \E s, t : Spells(Bucket', s, t)
<1>1. PICK s, t : Spells(b, s, t) /\ Giving(c, Free(q, r), Busy(q, r), Bucket.taken, Free(s, t), Busy(s, t), b.taken)
  BY ReleaseOfRow
<1>2. /\ SubSeq(Ring(Bucket), 1, ReleasedCount(Bucket)) = Free(q, r)
      /\ SubSeq(Ring(Bucket), ReleasedCount(Bucket) + 1, Members) = Busy(q, r)
  BY PoolNow
<1>3. /\ SubSeq(Ring(Bucket), 1, ReleasedCount(Bucket))' = Free(s, t)
      /\ SubSeq(Ring(Bucket), ReleasedCount(Bucket) + 1, Members)' = Busy(s, t)
      /\ Bucket.taken' = b.taken
  BY <1>1, PoolThen
<1>4. Pool!GiveBack(c)
  BY <1>1, <1>2, <1>3, PoolOperators DEF Giving, Pool!GiveBack
<1> QED BY <1>1, <1>4

\* and one that is struck again does the one after the other.
LEMMA RenewStepsPool ==
  ASSUME NEW q, NEW r, Spells(Bucket, q, r), NEW c \in MemberChannels, Bucket.taken[c] > 0,
         NEW b, b = BucketTake(BucketRelease(Bucket, c)), Bucket' = b
  PROVE  Pool!Renew(c) /\ \E s, t : Spells(Bucket', s, t)
<1>1. PICK m : m = BucketRelease(Bucket, c)
  OBVIOUS
<1>2. PICK p, k : Spells(m, p, k) /\ Giving(c, Free(q, r), Busy(q, r), Bucket.taken, Free(p, k), Busy(p, k), m.taken)
  BY <1>1, ReleaseOfRow
<1>3. PICK s, t : Spells(b, s, t) /\ Taking(m.top, Free(p, k), Busy(p, k), m.taken, Free(s, t), Busy(s, t), b.taken)
  BY <1>1, <1>2, TakeOfRow
<1>4. /\ SubSeq(Ring(Bucket), 1, ReleasedCount(Bucket)) = Free(q, r)
      /\ SubSeq(Ring(Bucket), ReleasedCount(Bucket) + 1, Members) = Busy(q, r)
  BY PoolNow
<1>5. /\ SubSeq(Ring(Bucket), 1, ReleasedCount(Bucket))' = Free(s, t)
      /\ SubSeq(Ring(Bucket), ReleasedCount(Bucket) + 1, Members)' = Busy(s, t)
      /\ Bucket.taken' = b.taken
  BY <1>3, PoolThen
<1>6. Pool!Renew(c)
  <2> DEFINE free == IF Bucket.taken[c] > 1 THEN SubSeq(Ring(Bucket), 1, ReleasedCount(Bucket))
                     ELSE Append(SubSeq(Ring(Bucket), 1, ReleasedCount(Bucket)), c)
             busy == IF Bucket.taken[c] > 1
                     THEN Append(Pool!RemoveFirst(SubSeq(Ring(Bucket), ReleasedCount(Bucket) + 1, Members), c), c)
                     ELSE Pool!RemoveFirst(SubSeq(Ring(Bucket), ReleasedCount(Bucket) + 1, Members), c)
             got  == IF free # <<>> THEN Head(free) ELSE Head(busy)
  <2>1. free = Free(p, k)
    BY <1>2, <1>4 DEF Giving
  <2>2. busy = Busy(p, k)
    BY <1>2, <1>4, PoolOperators DEF Giving
  <2>3. got = m.top
    <3> HIDE DEF free, busy
    <3> QED BY <1>3, <2>1, <2>2 DEF Taking
  <2> HIDE DEF free, busy, got
  <2>4. /\ SubSeq(Ring(Bucket), 1, ReleasedCount(Bucket))' = IF free # <<>> THEN Tail(free) ELSE free
        /\ SubSeq(Ring(Bucket), ReleasedCount(Bucket) + 1, Members)' = Append(Pool!RemoveFirst(busy, got), got)
    BY <1>3, <1>5, <2>1, <2>2, <2>3, PoolOperators DEF Taking
  <2>5. Bucket.taken' = [[Bucket.taken EXCEPT ![c] = @ - 1] EXCEPT ![got] = @ + 1]
    BY <1>2, <1>3, <1>5, <2>3 DEF Taking, Giving
  <2> QED BY <2>4, <2>5 DEF Pool!Renew, free, busy, got
<1> QED BY <1>3, <1>6

\* Every step of mpexp is one of the pool, or none.
LEMMA PoolStep ==
  ASSUME PoolInv, [ExpandNext]_expandVars
  PROVE  PoolInv' /\ [Pool!PoolNext]_(Pool!poolVars)
<1>1. PICK q, r : Spells(Bucket, q, r)
  BY DEF PoolInv
<1>2. /\ ExpandInv
      /\ expander.noteChannel \in [ZoneNotes -> OrNone]
  BY DEF PoolInv, ExpandInv, Keeps
<1>3. ASSUME UNCHANGED Bucket
      PROVE  UNCHANGED Pool!poolVars /\ \E s, t : Spells(Bucket', s, t)
  BY <1>1, <1>3 DEF Pool!poolVars
<1>4. ASSUME NEW n \in ZoneNotes, ExpandReceives(ExpandNoteOn(expander, n))
      PROVE  Pool!PoolNext /\ \E s, t : Spells(Bucket', s, t)
  <2>1. PICK c \in OrNone : c = expander.noteChannel[n]
    BY <1>2
  <2>2. PICK b : b = BucketTake(IF c = NoChannel THEN Bucket ELSE BucketRelease(Bucket, c))
    OBVIOUS
  <2>3. Bucket' = b
    <3>1. expander' = ExpandNoteOn(expander, n).alloc
      BY <1>4 DEF ExpandReceives
    <3>2. ExpandNoteOn(expander, n).alloc.bucketFilled = TRUE /\ ExpandNoteOn(expander, n).alloc.bucket = b
      BY <2>1, <2>2 DEF ExpandNoteOn, Expanded, Bucket
    <3> QED BY <3>1, <3>2 DEF Bucket
  <2>4. CASE c = NoChannel
    <3>1. b = BucketTake(Bucket)
      BY <2>2, <2>4
    <3> QED BY <1>1, <2>3, <3>1, TakeStepsPool, PoolOperators DEF Pool!PoolNext
  <2>5. CASE c \in MemberChannels
    <3>1. b = BucketTake(BucketRelease(Bucket, c))
      BY <2>2, <2>5, ChannelFacts
    <3>2. Bucket.taken[c] > 0
      BY <1>2, <2>1, <2>5, HeldIsBusy DEF ExpandInv, Bucket
    <3> QED BY <1>1, <2>3, <2>5, <3>1, <3>2, RenewStepsPool, PoolOperators DEF Pool!PoolNext
  <2> QED BY <2>4, <2>5 DEF OrNone
<1>5. ASSUME NEW n \in ZoneNotes, ExpandReceives(ExpandNoteOff(expander, n))
      PROVE  (Pool!PoolNext \/ UNCHANGED Pool!poolVars) /\ \E s, t : Spells(Bucket', s, t)
  <2>1. PICK c \in OrNone : c = expander.noteChannel[n]
    BY <1>2
  <2>2. expander' = ExpandNoteOff(expander, n).alloc
    BY <1>5 DEF ExpandReceives
  <2>3. CASE c = NoChannel
    <3>1. expander' = expander
      BY <2>1, <2>2, <2>3 DEF ExpandNoteOff, Expanded
    <3> QED BY <1>3, <3>1 DEF Bucket
  <2>4. CASE c \in MemberChannels
    <3>1. expander.bucketFilled /\ Bucket = expander.bucket /\ Bucket.taken[c] > 0
      BY <1>2, <2>1, <2>4, HeldIsBusy DEF ExpandInv, Bucket
    <3>2. PICK b : b = BucketRelease(Bucket, c)
      OBVIOUS
    <3>3. Bucket' = b
      <4>1. ExpandNoteOff(expander, n).alloc.bucketFilled = expander.bucketFilled /\ ExpandNoteOff(expander, n).alloc.bucket = b
        BY <2>1, <2>4, <3>1, <3>2, ChannelFacts DEF ExpandNoteOff, Expanded
      <4> QED BY <2>2, <3>1, <4>1 DEF Bucket
    <3> QED BY <1>1, <2>4, <3>1, <3>2, <3>3, ReleaseStepsPool, PoolOperators DEF Pool!PoolNext
  <2> QED BY <2>3, <2>4 DEF OrNone
<1>6. ASSUME ExpandPanic
      PROVE  Pool!PoolNext /\ \E s, t : Spells(Bucket', s, t)
  <2>1. Bucket' = FilledBucket
    BY <1>6 DEF ExpandPanic, Bucket, FreshAllocator
  <2> QED BY <2>1, FilledIsRefilled DEF Pool!PoolNext
<1>7. CASE ExpandPress
  <2>1. PICK n \in ZoneNotes : ExpandReceives(ExpandNoteOn(expander, n))
    BY <1>7 DEF ExpandPress
  <2>2. ExpandInv'
    BY <1>2, <2>1, PressKeeps DEF ExpandReceives, ExpandInv, KeepsOn
  <2> QED BY <1>4, <2>1, <2>2 DEF PoolInv
<1>8. CASE ExpandLift
  <2>1. PICK n \in ZoneNotes : ExpandReceives(ExpandNoteOff(expander, n))
    BY <1>8 DEF ExpandLift
  <2>2. ExpandInv'
    BY <1>2, <2>1, LiftKeeps DEF ExpandReceives, ExpandInv, KeepsOn
  <2> QED BY <1>5, <2>1, <2>2 DEF PoolInv
<1>9. CASE ExpandPanic
  <2>1. ExpandInv'
    BY <1>9, FreshIsSilent DEF ExpandPanic, ExpandInv
  <2> QED BY <1>6, <1>9, <2>1 DEF PoolInv
<1>10. CASE UNCHANGED expandVars
  <2>1. ExpandInv' /\ UNCHANGED Bucket
    BY <1>2, <1>10 DEF expandVars, ExpandInv, Bucket
  <2> QED BY <1>3, <2>1 DEF PoolInv
<1> QED BY <1>7, <1>8, <1>9, <1>10 DEF ExpandNext

\* The linked ring is the two queues it is meant to be, for every zone and any
\* number of keys: a channel is shared only when none is free, and of the free
\* ones the one released longest ago is reused first.
THEOREM BucketIsTwoQueues == ExpandSpec => ImplementsPool
<1>1. ExpandInit => PoolInv /\ Pool!PoolInit
  <2> SUFFICES ASSUME ExpandInit PROVE PoolInv /\ Pool!PoolInit
    OBVIOUS
  <2>1. ExpandInv
    BY FreshIsSilent DEF ExpandInit, ExpandInv
  <2>2. Bucket = FilledBucket
    BY DEF ExpandInit, Bucket, FreshAllocator
  <2>3. Spells(Bucket, FirstRow, Members) /\ Bucket.taken = [c \in MemberChannels |-> 0]
    BY <2>2, FilledSpells, FilledIsLinked
  <2>4. /\ SubSeq(Ring(Bucket), 1, ReleasedCount(Bucket)) = [i \in 1..Members |-> MemberChannel(i - 1)]
        /\ SubSeq(Ring(Bucket), ReleasedCount(Bucket) + 1, Members) = <<>>
    BY <2>3, PoolNow, AllFree
  <2>5. Pool!PoolInit
    BY <2>3, <2>4, PoolOperators DEF Pool!PoolInit
  <2> QED BY <2>1, <2>3, <2>5 DEF PoolInv
<1>2. PoolInv /\ [ExpandNext]_expandVars => PoolInv' /\ [Pool!PoolNext]_(Pool!poolVars)
  BY PoolStep
<1> QED BY <1>1, <1>2, PTL DEF ExpandSpec, ImplementsPool, Pool!PoolSpec

-----------------------------------------------------------------------------
(* The range that mpesens declares.                                        *)

\* What a synth makes of messages.
Hearing == INSTANCE FoldFacts WITH Op <- SensHears

Parameters == {NoParameter, BendRange, ZoneSize, Tuning}
SelectedType == [ZoneChannels -> Parameters]
Synths == [selected : SelectedType, range : Int, tuning : [ZoneChannels -> Int]]

\* Members are numbered from their first, and the manager is none of them.
LEMMA ZoneFacts ==
  /\ Members \in Nat
  /\ ManagerChannel \in ZoneChannels /\ ManagerChannel \notin MemberChannels
  /\ MemberChannels \subseteq ZoneChannels
  /\ \A i \in 0..Members - 1 : MemberChannel(i) \in MemberChannels
  /\ \A i, j \in 0..Members - 1 : MemberChannel(i) = MemberChannel(j) => i = j
  /\ \A c \in MemberChannels : \E i \in 0..Members - 1 : c = MemberChannel(i)
BY ZoneAssumption DEF MemberChannels, MemberChannel, ManagerChannel, ZoneChannels

\* The first members, those that have been told.
Told(k) == {MemberChannel(j) : j \in 0..k - 1}

\* A synth that is told the range, and only that.
Retuned(t, s, v) ==
  /\ t \in Synths /\ t.range = v /\ t.tuning = s.tuning
  /\ \A c \in ZoneChannels : t.selected[c] = IF c \in MemberChannels THEN BendRange ELSE s.selected[c]

\* Telling one member its range.
LEMMA TellOne ==
  ASSUME NEW s \in Synths, NEW c \in MemberChannels, NEW v \in Int
  PROVE  SensHears(SensHears(s, SelectOn(c, BendRange)), DataOn(c, v)) =
           [selected |-> [s.selected EXCEPT ![c] = BendRange], range |-> v, tuning |-> s.tuning]
<1>1. c \in ZoneChannels /\ c # ManagerChannel
  BY ZoneFacts
<1>2. SensHears(s, SelectOn(c, BendRange)) =
        [selected |-> [s.selected EXCEPT ![c] = BendRange], range |-> s.range, tuning |-> s.tuning]
  BY DEF SensHears, SelectOn, Synths
<1>3. BendRange # ZoneSize /\ BendRange # Tuning
  BY DEF BendRange, ZoneSize, Tuning
<1>4. [s.selected EXCEPT ![c] = BendRange][c] = BendRange
  BY <1>1 DEF Synths, SelectedType
<1> DEFINE t == [selected |-> [s.selected EXCEPT ![c] = BendRange], range |-> s.range, tuning |-> s.tuning]
<1>5. SensHears(t, DataOn(c, v)) = [t EXCEPT !.range = v]
  <2>1. t.selected[c] = BendRange
    BY <1>4
  <2>2. DataOn(c, v).kind = "data" /\ DataOn(c, v).channel = c /\ DataOn(c, v).value = v
    BY DEF DataOn
  <2> HIDE DEF t
  <2> QED BY <1>1, <1>3, <2>1, <2>2 DEF SensHears
<1> QED BY <1>2, <1>5

\* A declaration in the middle of other messages sets the range and nothing
\* else, and leaves its parameter selected on the members.
LEMMA DeclarationIsHeard ==
  ASSUME NEW v \in Int, NEW n \in Nat, NEW o \in Nat, o + 2 * Members <= n,
         NEW s, NEW base, NEW r, Hearing!IsRun(r, n, base, s), r[o] \in Synths,
         \A i \in 1..2 * Members : s[o + i] = MemberSensitivity(v)[i]
  PROVE  Retuned(r[o + 2 * Members], r[o], v)
<1> DEFINE Heeds(k) == /\ r[o + 2 * k] \in Synths
                       /\ k > 0 => r[o + 2 * k].range = v
                       /\ r[o + 2 * k].tuning = r[o].tuning
                       /\ \A c \in ZoneChannels :
                            r[o + 2 * k].selected[c] = IF c \in Told(k) THEN BendRange ELSE r[o].selected[c]
           A == {k \in 0..Members : Heeds(k)}
<1>0. Members \in Nat
  BY ZoneFacts
<1>1. 0 \in A
  <2>1. Told(0) = {}
    BY DEF Told
  <2>2. o + 2 * 0 = o
    OBVIOUS
  <2> QED BY <1>0, <2>1, <2>2
<1>2. ASSUME NEW k \in 1..Members, k - 1 \in A PROVE k \in A
  <2> DEFINE c == MemberChannel(k - 1)
             at == o + 2 * (k - 1)
  <2>1. /\ at \in Nat /\ at + 1 \in 1..n /\ at + 2 \in 1..n /\ at + 2 = o + 2 * k
        /\ (at + 1) - 1 = at /\ (at + 2) - 1 = at + 1
    BY <1>0
  <2>2. c \in MemberChannels /\ c \in ZoneChannels
    BY ZoneFacts
  <2>3. s[at + 1] = SelectOn(c, BendRange) /\ s[at + 2] = DataOn(c, v)
    <3>1. /\ 2 * k - 1 \in 1..2 * Members /\ at + 1 = o + (2 * k - 1) /\ (2 * k - 1) % 2 = 1
          /\ ((2 * k - 1) - 1) \div 2 = k - 1
      BY <1>0
    <3>2. 2 * k \in 1..2 * Members /\ at + 2 = o + 2 * k /\ (2 * k) % 2 # 1 /\ (2 * k - 1) \div 2 = k - 1
      BY <1>0
    <3>3. s[at + 1] = MemberSensitivity(v)[2 * k - 1] /\ s[at + 2] = MemberSensitivity(v)[2 * k]
      BY <3>1, <3>2
    <3> QED BY <3>1, <3>2, <3>3 DEF MemberSensitivity
  <2>4. r[at + 1] = SensHears(r[at], s[at + 1]) /\ r[at + 2] = SensHears(r[at + 1], s[at + 2])
    BY <2>1, Hearing!RunStep
  <2>5. Heeds(k - 1)
    BY <1>2
  <2>6. r[at] \in Synths
    BY <2>5
  <2>7. r[o + 2 * k] = [selected |-> [r[at].selected EXCEPT ![c] = BendRange], range |-> v, tuning |-> r[at].tuning]
    <3> HIDE DEF c, at
    <3>1. r[at + 2] = SensHears(SensHears(r[at], SelectOn(c, BendRange)), DataOn(c, v))
      BY <2>3, <2>4
    <3>2. SensHears(SensHears(r[at], SelectOn(c, BendRange)), DataOn(c, v)) =
            [selected |-> [r[at].selected EXCEPT ![c] = BendRange], range |-> v, tuning |-> r[at].tuning]
      BY <2>2, <2>6, TellOne
    <3>3. o + 2 * k = at + 2
      BY <2>1
    <3> QED BY <3>1, <3>2, <3>3, Zenon
  <2>8. Told(k) = Told(k - 1) \union {c}
    <3>1. \A j : j \in 0..k - 1 <=> j \in 0..(k - 1) - 1 \/ j = k - 1
      BY <1>0
    <3> QED BY <3>1 DEF Told
  <2>9. \A d \in ZoneChannels : r[o + 2 * k].selected[d] = IF d \in Told(k) THEN BendRange ELSE r[o].selected[d]
    <3> HIDE DEF c
    <3>1. \A d \in ZoneChannels : r[o + 2 * k].selected[d] = IF d = c THEN BendRange ELSE r[at].selected[d]
      BY <2>2, <2>6, <2>7 DEF Synths, SelectedType
    <3> QED BY <2>5, <2>8, <3>1
  <2>10. r[o + 2 * k] \in Synths
    <3> HIDE DEF c, at
    <3>1. [r[at].selected EXCEPT ![c] = BendRange] \in SelectedType
      <4>1. r[at].selected \in [ZoneChannels -> Parameters]
        BY <2>6 DEF Synths, SelectedType
      <4>2. BendRange \in Parameters
        BY DEF Parameters
      <4> QED BY <2>2, <4>1, <4>2 DEF SelectedType
    <3>2. r[at].tuning \in [ZoneChannels -> Int]
      BY <2>6 DEF Synths
    <3> QED BY <2>7, <3>1, <3>2 DEF Synths
  <2>11. r[o + 2 * k].range = v /\ r[o + 2 * k].tuning = r[o].tuning
    BY <2>5, <2>7
  <2> QED BY <1>0, <2>9, <2>10, <2>11
<1>3. Members \in A
  <2>1. \A k \in 1..Members : k - 1 \in A => k \in A
    BY <1>2
  <2>2. \A k \in 0..Members : k \in A
    <3> HIDE DEF A
    <3> QED BY <1>0, <1>1, <2>1, Hearing!UpTo
  <2> QED BY <1>0, <2>2
<1>4. Told(Members) = MemberChannels
  BY DEF Told, MemberChannels
<1>5. Members > 0
  BY ZoneAssumption
<1> QED BY <1>3, <1>4, <1>5 DEF Retuned

\* What a synth makes of messages is what a loop over them leaves.
LEMMA FoldOfHearing ==
  \A base, s : FoldLeft(SensHears, base, s) = Hearing!Folded(base, s)
BY DEF FoldLeft, MapThenFoldSet, Hearing!Folded, Hearing!IsFold, Hearing!Top, Max

\* The declaration is two messages for every member.
LEMMA DeclarationIsSequence ==
  ASSUME NEW v
  PROVE  DOMAIN MemberSensitivity(v) = 1..2 * Members /\ Len(MemberSensitivity(v)) = 2 * Members
<1>1. DOMAIN MemberSensitivity(v) = 1..2 * Members
  BY DEF MemberSensitivity
<1>2. 2 * Members \in Nat
  BY ZoneFacts
<1>3. \E n \in Nat : DOMAIN MemberSensitivity(v) = 1..n
  BY <1>1, <1>2
<1> QED BY <1>1, <1>2, <1>3

\* The synth hears one message,
LEMMA HearsOne ==
  ASSUME NEW base, NEW m
  PROVE  FoldLeft(SensHears, base, <<m>>) = SensHears(base, m)
<1>1. PICK r : Hearing!IsRun(r, 1, base, <<m>>) /\ Hearing!Folded(base, <<m>>) = r[1]
  BY Hearing!FoldIsRun
<1>2. r[0] = base /\ r[1] = SensHears(r[1 - 1], <<m>>[1])
  BY <1>1, Hearing!RunStep
<1>3. 1 - 1 = 0 /\ <<m>>[1] = m
  OBVIOUS
<1> QED BY <1>1, <1>2, <1>3, FoldOfHearing

\* a message and the declaration behind it,
LEMMA HearsBefore ==
  ASSUME NEW base, NEW m, NEW v \in Int, SensHears(base, m) \in Synths
  PROVE  Retuned(FoldLeft(SensHears, base, <<m>> \o MemberSensitivity(v)), SensHears(base, m), v)
<1> DEFINE s == <<m>> \o MemberSensitivity(v)
           n == 1 + 2 * Members
<1>1. n \in Nat /\ 1 + 2 * Members <= n /\ 1 \in 1..n /\ 1 - 1 = 0
  BY ZoneFacts
<1>2. DOMAIN s = 1..n /\ s[1] = m /\ \A i \in 1..2 * Members : s[1 + i] = MemberSensitivity(v)[i]
  <2>1. Len(<<m>>) = 1 /\ <<m>>[1] = m
    OBVIOUS
  <2>2. s = [i \in 1..n |-> IF i <= 1 THEN <<m>>[i] ELSE MemberSensitivity(v)[i - 1]]
    BY <2>1, DeclarationIsSequence
  <2>3. \A i \in 1..2 * Members : 1 + i \in 1..n /\ ~(1 + i <= 1) /\ (1 + i) - 1 = i
    BY ZoneFacts
  <2> HIDE DEF s
  <2> QED BY <1>1, <2>1, <2>2, <2>3
<1> HIDE DEF s, n
<1>3. PICK r : Hearing!IsRun(r, n, base, s) /\ Hearing!Folded(base, s) = r[n]
  BY <1>1, <1>2, Hearing!FoldIsRun
<1>4. r[0] = base /\ r[1] = SensHears(r[1 - 1], s[1])
  BY <1>1, <1>3, Hearing!RunStep
<1>5. r[1] = SensHears(base, m)
  BY <1>1, <1>2, <1>4
<1>6. Retuned(r[1 + 2 * Members], r[1], v)
  <2>1. r[1] \in Synths /\ 1 \in Nat
    BY <1>5
  <2> QED BY <1>1, <1>2, <1>3, <2>1, DeclarationIsHeard
<1> QED BY <1>3, <1>5, <1>6, FoldOfHearing DEF n, s

\* and the declaration and a message behind that.
LEMMA HearsAfter ==
  ASSUME NEW base \in Synths, NEW m, NEW v \in Int
  PROVE  \E t : /\ Retuned(t, base, v)
                /\ FoldLeft(SensHears, base, Append(MemberSensitivity(v), m)) = SensHears(t, m)
<1> DEFINE s == Append(MemberSensitivity(v), m)
           n == 1 + 2 * Members
<1>1. /\ n \in Nat /\ 0 + 2 * Members <= n /\ 0 + 2 * Members = 2 * Members
      /\ n - 1 = 2 * Members /\ 0 \in Nat /\ n \in 1..n
  BY ZoneFacts
<1>2. DOMAIN s = 1..n /\ s[n] = m /\ \A i \in 1..2 * Members : s[0 + i] = MemberSensitivity(v)[i]
  <2>1. s = [i \in 1..n |-> IF i = n THEN m ELSE MemberSensitivity(v)[i]]
    <3> DEFINE S == {MemberSensitivity(v)[i] : i \in 1..2 * Members} \union {m}
    <3>1. MemberSensitivity(v) \in [1..2 * Members -> S] /\ 2 * Members \in Nat
      <4>1. MemberSensitivity(v) = [i \in 1..2 * Members |-> MemberSensitivity(v)[i]]
        BY DEF MemberSensitivity
      <4> QED BY <4>1, ZoneFacts
    <3>2. MemberSensitivity(v) \in Seq(S) /\ m \in S
      BY <3>1
    <3> HIDE DEF S
    <3>3. /\ s \in Seq(S) /\ Len(s) = 2 * Members + 1 /\ s[2 * Members + 1] = m
          /\ \A i \in 1..2 * Members : s[i] = MemberSensitivity(v)[i]
      BY <3>2, DeclarationIsSequence, AppendProperties
    <3>4. s = [i \in 1..n |-> s[i]]
      <4> HIDE DEF s
      <4> QED BY <3>1, <3>3
    <3>5. \A i \in 1..n : i = n \/ i \in 1..2 * Members
      BY <3>1
    <3> HIDE DEF s
    <3>6. \A i \in 1..n : s[i] = IF i = n THEN m ELSE MemberSensitivity(v)[i]
      BY <3>1, <3>3, <3>5
    <3> QED BY <3>4, <3>6
  <2>2. \A i \in 1..2 * Members : i \in 1..n /\ 0 + i = i /\ i # n
    BY ZoneFacts
  <2> HIDE DEF s
  <2> QED BY <1>1, <2>1, <2>2
<1> HIDE DEF s, n
<1>3. PICK r : Hearing!IsRun(r, n, base, s) /\ Hearing!Folded(base, s) = r[n]
  BY <1>1, <1>2, Hearing!FoldIsRun
<1>4. r[0] = base /\ r[n] = SensHears(r[n - 1], s[n])
  BY <1>1, <1>3, Hearing!RunStep
<1>5. Retuned(r[0 + 2 * Members], r[0], v)
  BY <1>1, <1>2, <1>3, <1>4, DeclarationIsHeard
<1> QED BY <1>1, <1>2, <1>3, <1>4, <1>5, FoldOfHearing DEF s

-----------------------------------------------------------------------------
(* The invariant: the synth has selected what the controller selected      *)
(* last, unless a declaration came since, and the tracker of configuration *)
(* messages sees the zone's size wherever the controller sends it.         *)

SensInv ==
  /\ semitones \in SensRanges
  /\ sensSynth \in Synths
  /\ declarer \in [declared : BOOLEAN, selected : SelectedType]
  /\ sensPlayer \in [selected : SelectedType, configuring : {"no", "half", "edited"}]
  /\ tuned \in [ZoneChannels -> Int]
  /\ declarer.declared <=> rangeOwner # "nobody's"
  /\ sensPlayer.configuring # "no" => sensSynth.selected[ManagerChannel] = ZoneSize
  /\ sensPlayer.configuring = "half" => declarer.selected[ManagerChannel] = ZoneSize
  /\ sensPlayer.configuring = "edited" =>
       declarer.selected[ManagerChannel] # ZoneSize /\ rangeOwner = "nobody's"
  /\ \A c \in MemberChannels : declarer.selected[c] # ZoneSize
  /\ \A c \in MemberChannels : sensSynth.selected[c] # ZoneSize
  /\ \A c \in MemberChannels : c \notin overtaken => sensSynth.selected[c] = sensPlayer.selected[c]
  /\ DeclaredRangeHolds

\* The parameters are different ones.
LEMMA ParametersDiffer ==
  /\ BendRange # ZoneSize /\ Tuning # ZoneSize /\ NoParameter # ZoneSize /\ BendRange # Tuning
BY DEF NoParameter, BendRange, ZoneSize, Tuning

\* What the synth hears is what the mpesens sends.
LEMMA SendsThose ==
  ASSUME NEW m, NEW d, NEW msgs, SensSends(m), DeclareSensitivity(declarer, semitones, m) = Declared(d, msgs)
  PROVE  declarer' = d /\ sensSynth' = FoldLeft(SensHears, sensSynth, msgs)
<1>1. Declared(d, msgs).declarer = d /\ Declared(d, msgs).msgs = msgs
  BY DEF Declared
<1>2. PICK told : /\ told = Declared(d, msgs) /\ declarer' = told.declarer
                  /\ sensSynth' = FoldLeft(SensHears, sensSynth, told.msgs)
  BY Zenon DEF SensSends
<1> QED BY <1>1, <1>2, Zenon

\* The declaration behind a configuration, and ahead of a note.
LEMMA Declares ==
  ASSUME NEW m, m.kind # "select"
  PROVE  /\ IsMcm(declarer, m) =>
              DeclareSensitivity(declarer, semitones, m) =
                Declared([declarer EXCEPT !.declared = TRUE], <<m>> \o MemberSensitivity(semitones))
         /\ ~IsMcm(declarer, m) /\ m.kind = "on" /\ ~declarer.declared =>
              DeclareSensitivity(declarer, semitones, m) =
                Declared([declarer EXCEPT !.declared = TRUE], Append(MemberSensitivity(semitones), m))
<1> DEFINE both == Declared([declarer EXCEPT !.declared = TRUE], <<m>> \o MemberSensitivity(semitones))
           early == Declared([declarer EXCEPT !.declared = TRUE], Append(MemberSensitivity(semitones), m))
           other == Declared(declarer, <<m>>)
           first == Declared([declarer EXCEPT !.selected[m.channel] = m.parameter], <<m>>)
<1>1. DeclareSensitivity(declarer, semitones, m) =
        CASE m.kind = "select" -> first [] IsMcm(declarer, m) -> both
          [] m.kind = "on" /\ ~declarer.declared -> early [] OTHER -> other
  BY DEF DeclareSensitivity
<1>2. ~(IsMcm(declarer, m) /\ m.kind = "on")
  BY DEF IsMcm
<1> HIDE DEF both, early, other, first
<1> QED BY <1>1, <1>2 DEF both, early

\* What an mpesens sends on of a message it only looks at.
LEMMA PassesOn ==
  ASSUME NEW m, SensSends(m), m.kind \in {"select", "data", "on"},
         ~IsMcm(declarer, m), m.kind = "on" => declarer.declared
  PROVE  /\ sensSynth' = SensHears(sensSynth, m)
         /\ declarer' = IF m.kind = "select" THEN [declarer EXCEPT !.selected[m.channel] = m.parameter]
                        ELSE declarer
<1>1. DeclareSensitivity(declarer, semitones, m) =
        Declared(IF m.kind = "select" THEN [declarer EXCEPT !.selected[m.channel] = m.parameter] ELSE declarer, <<m>>)
  <2>1. CASE m.kind = "select"
    BY <2>1 DEF DeclareSensitivity
  <2>2. CASE m.kind # "select"
    BY <2>2 DEF DeclareSensitivity
  <2> QED BY <2>1, <2>2
<1> QED BY <1>1, HearsOne, SendsThose

\* A player that selects a parameter, on a member or on the manager,
LEMMA SelectKeeps ==
  ASSUME NEW c \in SetChannels \union {ManagerChannel}, NEW p \in {NoParameter, BendRange, ZoneSize, Tuning},
         SensSelect(c, p), SensInv
  PROVE  SensInv'
<1>1. c \in ZoneChannels /\ (c = ManagerChannel <=> c \notin MemberChannels) /\ p \in Parameters
  BY SensAssumption, ZoneFacts DEF Parameters
<1>2. /\ p = ZoneSize <=> c = ManagerChannel
      /\ sensPlayer' = [selected |-> [sensPlayer.selected EXCEPT ![c] = p],
                        configuring |-> IF p = ZoneSize THEN "half" ELSE "no"]
      /\ overtaken' = overtaken \ {c}
      /\ semitones' = semitones /\ tuned' = tuned /\ rangeOwner' = rangeOwner
      /\ SensSends(SelectOn(c, p))
  BY DEF SensSelect
<1>3. /\ sensSynth' = SensHears(sensSynth, SelectOn(c, p))
      /\ declarer' = [declarer EXCEPT !.selected[c] = p]
  BY <1>2, PassesOn DEF SelectOn, IsMcm
<1>4. sensSynth' = [sensSynth EXCEPT !.selected[c] = p]
  BY <1>3 DEF SensHears, SelectOn
<1>5. /\ sensSynth' \in Synths /\ sensSynth'.range = sensSynth.range /\ sensSynth'.tuning = sensSynth.tuning
      /\ sensSynth'.selected = [sensSynth.selected EXCEPT ![c] = p]
  BY <1>1, <1>4 DEF SensInv, Synths, SelectedType
<1>6. /\ declarer' \in [declared : BOOLEAN, selected : SelectedType] /\ declarer'.declared = declarer.declared
      /\ declarer'.selected = [declarer.selected EXCEPT ![c] = p]
  BY <1>1, <1>3 DEF SensInv, SelectedType
<1>7. sensPlayer' \in [selected : SelectedType, configuring : {"no", "half", "edited"}]
  BY <1>1, <1>2 DEF SensInv, SelectedType
<1>8. /\ \A d \in ZoneChannels : sensSynth'.selected[d] = IF d = c THEN p ELSE sensSynth.selected[d]
      /\ \A d \in ZoneChannels : declarer'.selected[d] = IF d = c THEN p ELSE declarer.selected[d]
      /\ \A d \in ZoneChannels : sensPlayer'.selected[d] = IF d = c THEN p ELSE sensPlayer.selected[d]
  BY <1>1, <1>2, <1>5, <1>6 DEF SensInv, Synths, SelectedType
<1>9. \A d \in MemberChannels : d \in ZoneChannels
  BY ZoneFacts
<1> QED BY <1>1, <1>2, <1>5, <1>6, <1>7, <1>8, <1>9, ZoneFacts DEF SensInv, DeclaredRangeHolds

\* sets what it selected,
LEMMA SetKeeps ==
  ASSUME NEW c \in SetChannels, NEW v \in SensRanges, SensSet(c, v), SensInv
  PROVE  SensInv'
<1>1. c \in ZoneChannels /\ c \in MemberChannels /\ c # ManagerChannel /\ v \in Int /\ v >= 0
  BY SensAssumption, ZoneFacts
<1> DEFINE tunes == sensPlayer.selected[c] = Tuning /\ c \notin overtaken
<1>2. /\ IF tunes THEN tuned' = [tuned EXCEPT ![c] = v] /\ rangeOwner' = rangeOwner
         ELSE rangeOwner' = PlayersRange /\ tuned' = [tuned EXCEPT ![c] = Unsure]
      /\ SensSends(DataOn(c, v))
      /\ semitones' = semitones /\ sensPlayer' = sensPlayer /\ overtaken' = overtaken
  BY DEF SensSet
<1>3. declarer' = declarer /\ sensSynth' = SensHears(sensSynth, DataOn(c, v))
  <2>1. ~IsMcm(declarer, DataOn(c, v))
    BY <1>1 DEF IsMcm, DataOn, SensInv
  <2> QED BY <1>2, <2>1, PassesOn DEF DataOn
<1>4. sensSynth.selected[c] # ZoneSize
  BY <1>1 DEF SensInv
<1>5. /\ sensSynth' \in Synths /\ sensSynth'.selected = sensSynth.selected
      /\ \A d \in ZoneChannels : d # c => sensSynth'.tuning[d] = sensSynth.tuning[d]
      /\ sensSynth.selected[c] = Tuning => sensSynth'.range = sensSynth.range /\ sensSynth'.tuning[c] = v
  <2>0. sensSynth \in Synths
    BY DEF SensInv
  <2>1. CASE sensSynth.selected[c] = Tuning
    <3>1. sensSynth' = [sensSynth EXCEPT !.tuning[c] = v]
      BY <1>3, <1>4, <2>1, ParametersDiffer DEF SensHears, DataOn
    <3>2. sensSynth.tuning \in [ZoneChannels -> Int]
      BY <2>0 DEF Synths
    <3>3. sensSynth' = [selected |-> sensSynth.selected, range |-> sensSynth.range,
                        tuning |-> [sensSynth.tuning EXCEPT ![c] = v]]
      BY <2>0, <3>1 DEF Synths
    <3>4. [sensSynth.tuning EXCEPT ![c] = v] \in [ZoneChannels -> Int]
      BY <1>1, <3>2
    <3> QED BY <1>1, <2>0, <3>2, <3>3, <3>4 DEF Synths
  <2>2. CASE sensSynth.selected[c] # Tuning /\ sensSynth.selected[c] = BendRange
    <3>1. sensSynth' = [sensSynth EXCEPT !.range = v]
      BY <1>1, <1>3, <1>4, <2>2, ParametersDiffer DEF SensHears, DataOn
    <3> QED BY <1>1, <2>0, <2>2, <3>1 DEF Synths
  <2>3. CASE sensSynth.selected[c] # Tuning /\ sensSynth.selected[c] # BendRange
    <3>1. sensSynth' = sensSynth
      BY <1>3, <1>4, <2>3 DEF SensHears, DataOn
    <3> QED BY <2>0, <2>3, <3>1
  <2> QED BY <2>1, <2>2, <2>3
<1>6. /\ tuned' \in [ZoneChannels -> Int]
      /\ \A d \in ZoneChannels : tuned'[d] = IF d # c THEN tuned[d] ELSE IF tunes THEN v ELSE Unsure
  BY <1>1, <1>2 DEF SensInv, Unsure
<1>7. rangeOwner' = "nobody's" <=> rangeOwner = "nobody's"
  BY <1>2 DEF PlayersRange
<1>8. DeclaredRangeHolds'
  <2>1. CASE tunes
    <3>1. sensSynth.selected[c] = Tuning
      BY <1>1, <2>1 DEF SensInv
    <3> QED BY <1>2, <1>5, <1>6, <2>1, <3>1 DEF DeclaredRangeHolds, SensInv
  <2>2. CASE ~tunes
    <3>1. rangeOwner' # "declared"
      BY <1>2, <2>2 DEF PlayersRange
    <3> QED BY <1>5, <1>6, <2>2, <3>1 DEF DeclaredRangeHolds, SensInv
  <2> QED BY <2>1, <2>2
<1> HIDE DEF tunes
<1> QED BY <1>2, <1>3, <1>5, <1>6, <1>7, <1>8 DEF SensInv

\* finishes to configure the zone,
LEMMA ConfigureKeeps ==
  ASSUME SensConfigure, SensInv
  PROVE  SensInv'
<1> DEFINE m == DataOn(ManagerChannel, Members)
<1>1. /\ sensPlayer.configuring # "no"
      /\ sensPlayer' = [sensPlayer EXCEPT !.configuring = "no"]
      /\ overtaken' = overtaken \union MemberChannels
      /\ rangeOwner' = IF sensPlayer.configuring = "half" THEN "declared" ELSE "nobody's"
      /\ SensSends(m)
      /\ semitones' = semitones /\ tuned' = tuned
  BY DEF SensConfigure
<1>2. /\ sensPlayer' \in [selected : SelectedType, configuring : {"no", "half", "edited"}]
      /\ sensPlayer'.configuring = "no"
  BY <1>1 DEF SensInv
<1>3. sensSynth \in Synths /\ sensSynth.selected[ManagerChannel] = ZoneSize
  BY <1>1 DEF SensInv
<1>4. SensHears(sensSynth, m) = [sensSynth EXCEPT !.range = DefaultRange]
  <2>1. m.kind = "data" /\ m.channel = ManagerChannel
    BY DEF DataOn
  <2> HIDE DEF m
  <2> QED BY <1>3, <2>1, ParametersDiffer DEF SensHears
<1>5. /\ SensHears(sensSynth, m) \in Synths /\ SensHears(sensSynth, m).tuning = sensSynth.tuning
      /\ SensHears(sensSynth, m).selected = sensSynth.selected
  BY <1>3, <1>4 DEF Synths, DefaultRange
<1>6. CASE sensPlayer.configuring = "half"
  <2>1. IsMcm(declarer, m)
    BY <1>6 DEF IsMcm, DataOn, SensInv
  <2>2. /\ sensSynth' = FoldLeft(SensHears, sensSynth, <<m>> \o MemberSensitivity(semitones))
        /\ declarer' = [declarer EXCEPT !.declared = TRUE]
    <3>1. m.kind # "select"
      BY DEF DataOn
    <3> HIDE DEF m
    <3> QED BY <1>1, <2>1, <3>1, Declares, SendsThose
  <2>3. semitones \in Int
    BY SensAssumption DEF SensInv
  <2>4. Retuned(sensSynth', SensHears(sensSynth, m), semitones)
    <3> HIDE DEF m
    <3> QED BY <1>5, <2>2, <2>3, HearsBefore
  <2>5. /\ declarer' \in [declared : BOOLEAN, selected : SelectedType] /\ declarer'.declared
        /\ declarer'.selected = declarer.selected
    BY <2>2 DEF SensInv
  <2> HIDE DEF m
  <2> QED BY <1>1, <1>2, <1>5, <1>6, <2>4, <2>5, ZoneFacts, ParametersDiffer DEF SensInv, Retuned, DeclaredRangeHolds
<1>7. CASE sensPlayer.configuring # "half"
  <2>1. sensPlayer.configuring = "edited"
    BY <1>1, <1>7 DEF SensInv
  <2>2. ~IsMcm(declarer, m)
    BY <2>1 DEF IsMcm, DataOn, SensInv
  <2>3. declarer' = declarer /\ sensSynth' = SensHears(sensSynth, m)
    BY <1>1, <2>2, PassesOn DEF DataOn
  <2>4. rangeOwner' = "nobody's" /\ rangeOwner = "nobody's"
    BY <1>1, <2>1 DEF SensInv
  <2> HIDE DEF m
  <2> QED BY <1>1, <1>2, <1>5, <2>3, <2>4, ZoneFacts DEF SensInv, DeclaredRangeHolds
<1> QED BY <1>6, <1>7

\* plays a note, in front of which the range may be declared,
LEMMA NoteKeeps ==
  ASSUME NEW c \in SetChannels, SensPress(c), SensInv
  PROVE  SensInv'
<1> DEFINE m == On(c, c)
<1>1. /\ sensPlayer.configuring = "no"
      /\ IF rangeOwner = "nobody's"
         THEN rangeOwner' = "declared" /\ overtaken' = overtaken \union MemberChannels
         ELSE rangeOwner' = rangeOwner /\ overtaken' = overtaken
      /\ SensSends(m)
      /\ semitones' = semitones /\ sensPlayer' = sensPlayer /\ tuned' = tuned
  BY DEF SensPress
<1>2. \A s : SensHears(s, m) = s
  BY DEF SensHears, On
<1>3. m.kind = "on" /\ ~IsMcm(declarer, m)
  BY DEF On, IsMcm
<1>4. CASE rangeOwner = "nobody's"
  <2>1. ~declarer.declared
    BY <1>4 DEF SensInv
  <2>2. /\ sensSynth' = FoldLeft(SensHears, sensSynth, Append(MemberSensitivity(semitones), m))
        /\ declarer' = [declarer EXCEPT !.declared = TRUE]
    <3> HIDE DEF m
    <3> QED BY <1>1, <1>3, <2>1, Declares, SendsThose
  <2>3. semitones \in Int /\ sensSynth \in Synths
    BY SensAssumption DEF SensInv
  <2>4. Retuned(sensSynth', sensSynth, semitones)
    <3> HIDE DEF m
    <3> QED BY <1>2, <2>2, <2>3, HearsAfter
  <2>5. /\ declarer' \in [declared : BOOLEAN, selected : SelectedType] /\ declarer'.declared
        /\ declarer'.selected = declarer.selected
    BY <2>2 DEF SensInv
  <2> HIDE DEF m
  <2> QED BY <1>1, <1>4, <2>3, <2>4, <2>5, ZoneFacts, ParametersDiffer DEF SensInv, Retuned, DeclaredRangeHolds
<1>5. CASE rangeOwner # "nobody's"
  <2>1. declarer.declared
    BY <1>5 DEF SensInv
  <2>2. declarer' = declarer /\ sensSynth' = SensHears(sensSynth, m)
    BY <1>1, <1>3, <2>1, PassesOn
  <2> HIDE DEF m
  <2> QED BY <1>1, <1>2, <1>5, <2>2 DEF SensInv, DeclaredRangeHolds
<1> QED BY <1>4, <1>5

\* or edits the route, keeps what the synth and the declarer know of each other.
LEMMA EditKeeps ==
  ASSUME NEW s \in SensRanges, SensEdit(s), SensInv
  PROVE  SensInv'
<1>1. /\ semitones' = s /\ declarer' = FreshDeclarer /\ rangeOwner' = "nobody's"
      /\ sensPlayer' = [sensPlayer EXCEPT !.configuring = IF @ = "half" THEN "edited" ELSE @]
      /\ sensSynth' = sensSynth /\ tuned' = tuned /\ overtaken' = overtaken
  BY DEF SensEdit
<1>2. /\ declarer' \in [declared : BOOLEAN, selected : SelectedType] /\ ~declarer'.declared
      /\ \A c \in ZoneChannels : declarer'.selected[c] # ZoneSize
  BY <1>1, ParametersDiffer DEF FreshDeclarer, SelectedType, Parameters
<1>3. /\ sensPlayer' \in [selected : SelectedType, configuring : {"no", "half", "edited"}]
      /\ sensPlayer'.configuring # "half" /\ (sensPlayer'.configuring # "no" => sensPlayer.configuring # "no")
      /\ sensPlayer'.selected = sensPlayer.selected
  BY <1>1 DEF SensInv
<1> QED BY <1>1, <1>2, <1>3, ZoneFacts DEF SensInv, DeclaredRangeHolds

\* README.md:624: from the first note after an edit on, the synth has the range that
\* mpesens declared, unless the controller set one of its own since, and what it
\* has of other parameters is what the controller set, for any zone and any ranges.
THEOREM DeclaredRangeIsKept == SensSpec => []DeclaredRangeHolds
<1>1. SensInit => SensInv
  <2> SUFFICES ASSUME SensInit PROVE SensInv
    OBVIOUS
  <2>1. [c \in ZoneChannels |-> NoParameter] \in SelectedType
    BY DEF SelectedType, Parameters
  <2>2. sensSynth \in Synths /\ sensSynth.tuning = tuned /\ tuned \in [ZoneChannels -> Int]
    BY <2>1 DEF SensInit, Synths, DefaultRange
  <2>3. /\ \A c \in ZoneChannels : sensSynth.selected[c] = NoParameter /\ sensPlayer.selected[c] = NoParameter
        /\ \A c \in ZoneChannels : declarer.selected[c] = NoParameter
        /\ declarer \in [declared : BOOLEAN, selected : SelectedType] /\ ~declarer.declared
    BY <2>1 DEF SensInit, FreshDeclarer
  <2>4. /\ sensPlayer \in [selected : SelectedType, configuring : {"no", "half", "edited"}]
        /\ sensPlayer.configuring = "no"
    BY <2>1 DEF SensInit
  <2> QED BY <2>2, <2>3, <2>4, ParametersDiffer, ZoneFacts DEF SensInit, SensInv, DeclaredRangeHolds
<1>2. SensInv /\ [SensNext]_sensVars => SensInv'
  <2> SUFFICES ASSUME SensInv, [SensNext]_sensVars PROVE SensInv'
    OBVIOUS
  <2>1. CASE UNCHANGED sensVars
    BY <2>1 DEF sensVars, SensInv, DeclaredRangeHolds
  <2> QED BY <2>1, SelectKeeps, ConfigureKeeps, SetKeeps, NoteKeeps, EditKeeps DEF SensNext
<1>3. SensInv => DeclaredRangeHolds
  BY DEF SensInv
<1> QED BY <1>1, <1>2, <1>3, PTL DEF SensSpec

-----------------------------------------------------------------------------
(* What is heard of a splitter's messages.                                 *)

\* A synth plays its messages one by one, and so does the rack.
Playing == INSTANCE FoldFacts WITH Op <- Play
Routing == INSTANCE FoldFacts WITH Op <- Played

LEMMA FoldsOfVoices ==
  /\ \A y, s : FoldLeft(Play, y, s) = Playing!Folded(y, s)
  /\ \A rack, s : FoldLeft(Played, rack, s) = Routing!Folded(rack, s)
<1>1. \A y, s : FoldLeft(Play, y, s) = Playing!Folded(y, s)
  BY DEF FoldLeft, MapThenFoldSet, Playing!Folded, Playing!IsFold, Playing!Top, Max
<1>2. \A rack, s : FoldLeft(Played, rack, s) = Routing!Folded(rack, s)
  BY DEF FoldLeft, MapThenFoldSet, Routing!Folded, Routing!IsFold, Routing!Top, Max
<1> QED BY <1>1, <1>2

\* A synth plays three parts one after the other.
LEMMA PlayedInThree ==
  ASSUME NEW M, NEW r \in Seq(M), NEW s \in Seq(M), NEW t \in Seq(M), NEW y
  PROVE  Playing!Folded(y, r \o s \o t) = Playing!Folded(Playing!Folded(Playing!Folded(y, r), s), t)
<1>1. r \o s \in Seq(M)
  OBVIOUS
<1>2. Playing!Folded(y, r \o s) = Playing!Folded(Playing!Folded(y, r), s)
  BY Playing!FoldConcat
<1>3. ASSUME NEW l \in Seq(M) PROVE Playing!Folded(y, l \o t) = Playing!Folded(Playing!Folded(y, l), t)
  BY Playing!FoldConcat
<1>4. Playing!Folded(y, r \o s \o t) = Playing!Folded(Playing!Folded(y, r \o s), t)
  BY <1>1, <1>3, Zenon
<1> QED BY <1>2, <1>4

\* A message that neither starts nor ends a note.
Quiet(m) == m.kind # "on" /\ m.kind # "off"

AllQuiet(msgs) == \E M : msgs \in Seq(M) /\ \A m \in M : Quiet(m)

\* No message is quiet, and one alone is when it is.
LEMMA QuietSequences ==
  /\ AllQuiet(<<>>)
  /\ \A m : Quiet(m) => AllQuiet(<<m>>)
  /\ \A s, t : AllQuiet(s) /\ AllQuiet(t) => AllQuiet(s \o t)
<1>1. AllQuiet(<<>>)
  <2> PICK M : M = {}
    OBVIOUS
  <2>1. <<>> \in Seq(M) /\ \A m \in M : Quiet(m)
    OBVIOUS
  <2> QED BY <2>1, Zenon DEF AllQuiet
<1>2. ASSUME NEW m, Quiet(m) PROVE AllQuiet(<<m>>)
  <2> PICK M : M = {m}
    OBVIOUS
  <2>1. <<m>> \in Seq(M) /\ \A x \in M : Quiet(x)
    BY <1>2
  <2> QED BY <2>1, Zenon DEF AllQuiet
<1>3. ASSUME NEW s, NEW t, AllQuiet(s), AllQuiet(t) PROVE AllQuiet(s \o t)
  <2>1. PICK M : s \in Seq(M) /\ \A m \in M : Quiet(m)
    BY <1>3 DEF AllQuiet
  <2>2. PICK N : t \in Seq(N) /\ \A m \in N : Quiet(m)
    BY <1>3 DEF AllQuiet
  <2> PICK U : U = M \union N
    OBVIOUS
  <2>3. M \subseteq U /\ N \subseteq U /\ \A m \in U : Quiet(m)
    BY <2>1, <2>2
  <2>4. s \in Seq(U) /\ t \in Seq(U)
    BY <2>1, <2>2, <2>3
  <2>5. s \o t \in Seq(U)
    BY <2>4
  <2> QED BY <2>3, <2>5, Zenon DEF AllQuiet
<1> QED BY <1>1, <1>2, <1>3

\* Such messages leave the notes alone.
LEMMA QuietIsSilent ==
  ASSUME NEW y, "notes" \in DOMAIN y, NEW msgs, AllQuiet(msgs)
  PROVE  "notes" \in DOMAIN Playing!Folded(y, msgs) /\ Playing!Folded(y, msgs).notes = y.notes
<1> PICK M : msgs \in Seq(M) /\ \A m \in M : Quiet(m)
  BY DEF AllQuiet
<1>1. PICK n \in Nat : DOMAIN msgs = 1..n /\ \A i \in 1..n : msgs[i] \in M
  OBVIOUS
<1>2. PICK r : Playing!IsRun(r, n, y, msgs) /\ Playing!Folded(y, msgs) = r[n]
  BY <1>1, Playing!FoldIsRun
<1>3. r[0] = y /\ \A i \in 1..n : r[i] = Play(r[i - 1], msgs[i])
  BY <1>2, Playing!RunStep
<1> DEFINE A == {i \in 0..n : "notes" \in DOMAIN r[i] /\ r[i].notes = y.notes}
<1>4. 0 \in A
  BY <1>3
<1>5. \A i \in 1..n : i - 1 \in A => i \in A
  <2> SUFFICES ASSUME NEW i \in 1..n, i - 1 \in A PROVE i \in A
    OBVIOUS
  <2>1. Quiet(msgs[i]) /\ r[i] = Play(r[i - 1], msgs[i]) /\ i \in 0..n
    BY <1>1, <1>3
  <2>2. r[i] = [r[i - 1] EXCEPT !.expr[msgs[i].kind] = msgs[i].value]
    BY <2>1 DEF Quiet, Play
  <2>3. "notes" \in DOMAIN r[i - 1] /\ r[i - 1].notes = y.notes
    OBVIOUS
  <2> QED BY <2>1, <2>2, <2>3
<1>6. n \in A
  <2>1. n \in 0..n
    OBVIOUS
  <2> HIDE DEF A
  <2> QED BY <1>4, <1>5, <2>1, Playing!UpTo
<1> QED BY <1>2, <1>6

\* The one message that starts a note, or ends it.
Struck(n)   == <<[kind |-> "on", note |-> n]>>
Silenced(n) == <<[kind |-> "off", note |-> n]>>

\* Those notes sound on a synth.
HasNotes(y, notes) == "notes" \in DOMAIN y /\ y.notes = notes

\* A port's synth that is sent a note, behind the end of another and what is quiet.
LEMMA VoiceStarts ==
  ASSUME NEW y, "notes" \in DOMAIN y, NEW before, AllQuiet(before), NEW n, NEW k,
         NEW ended, ended = <<>> \/ ended = Silenced(k)
  PROVE  HasNotes(Playing!Folded(y, ended \o before \o Struck(n)), (y.notes \ (IF ended = <<>> THEN {} ELSE {k})) \union {n})
<1> PICK M : before \in Seq(M) /\ \A m \in M : Quiet(m)
  BY DEF AllQuiet
<1> PICK on : on = [kind |-> "on", note |-> n]
  OBVIOUS
<1> PICK off : off = [kind |-> "off", note |-> k]
  OBVIOUS
<1>0. Struck(n) = <<on>> /\ Silenced(k) = <<off>>
  BY DEF Struck, Silenced
<1> PICK last : last = <<on>>
  OBVIOUS
<1> DEFINE All == M \union {on, off}
<1>1. M \subseteq All /\ on \in All /\ off \in All
  OBVIOUS
<1> HIDE DEF All
<1>2. ended \in Seq(All) /\ before \in Seq(All) /\ last \in Seq(All)
  <2>1. ended = <<>> \/ ended = <<off>>
    BY <1>0
  <2>2. <<>> \in Seq(All) /\ <<off>> \in Seq(All) /\ <<on>> \in Seq(All)
    BY <1>1
  <2>3. before \in Seq(All)
    BY <1>1
  <2> QED BY <2>1, <2>2, <2>3
<1> PICK u : u = Playing!Folded(y, ended)
  OBVIOUS
<1> PICK v : v = Playing!Folded(u, before)
  OBVIOUS
<1>4. Playing!Folded(y, ended \o before \o <<on>>) = Play(v, on)
  <2>1. ASSUME NEW r \in Seq(All), NEW s \in Seq(All), NEW t \in Seq(All)
        PROVE  Playing!Folded(y, r \o s \o t) = Playing!Folded(Playing!Folded(Playing!Folded(y, r), s), t)
    BY PlayedInThree
  <2>2. Playing!Folded(y, ended \o before \o last) = Playing!Folded(v, last)
    BY <1>2, <2>1, Zenon
  <2>3. Playing!Folded(v, last) = Play(v, on)
    BY Playing!FoldOfOne
  <2> QED BY <2>2, <2>3
<1>5. "notes" \in DOMAIN u /\ u.notes = y.notes \ (IF ended = <<>> THEN {} ELSE {k})
  <2>1. CASE ended = <<>>
    BY <2>1, Playing!FoldOfNone
  <2>2. CASE ended = <<off>>
    <3>1. ended # <<>> /\ u = Play(y, off)
      BY <2>2, Playing!FoldOfOne
    <3>2. Play(y, off) = [y EXCEPT !.notes = @ \ {k}]
      BY DEF Play
    <3> QED BY <3>1, <3>2
  <2> QED BY <1>0, <2>1, <2>2
<1>6. "notes" \in DOMAIN v /\ v.notes = u.notes
  BY <1>5, QuietIsSilent
<1>7. Play(v, on) = [v EXCEPT !.notes = @ \union {n}]
  BY DEF Play
<1>8. Playing!Folded(y, ended \o before \o Struck(n)) = Play(v, on)
  BY <1>0, <1>4
<1>9. HasNotes(Play(v, on), (y.notes \ (IF ended = <<>> THEN {} ELSE {k})) \union {n})
  BY <1>5, <1>6, <1>7 DEF HasNotes
<1> QED BY <1>8, <1>9

-----------------------------------------------------------------------------
(* The splitter's tables.                                                  *)

\* Ports and channels that have each other, and the order of age.
Tables ==
  {s \in [channelPort : [MemberChannels -> PortIds \union {NoPort}], portChannel : [PortIds -> OrNone],
          portNote : [PortIds -> ZoneNotes \union {NoNote}], byAge : Seq(PortIds) \ {<<>>}, roundRobin : Nat] :
     \A c \in MemberChannels, p \in PortIds : s.channelPort[c] = p <=> s.portChannel[p] = c}

TableOf(s) ==
  [channelPort |-> s.channelPort, portChannel |-> s.portChannel, portNote |-> s.portNote,
   byAge |-> s.byAge, roundRobin |-> s.roundRobin]

SplitterOK(s) ==
  /\ DOMAIN s = {"channelPort", "portChannel", "portNote", "byAge", "roundRobin", "last", "expr"}
  /\ TableOf(s) \in Tables

\* Ports are numbers, and none of them is the one that stands for none.
LEMMA PortFacts ==
  /\ Ports \in Nat \ {0} /\ PortIds \subseteq Nat /\ NoPort \notin PortIds /\ 0 \in PortIds
  /\ \A p \in PortIds : (p + 1) % Ports \in Nat
BY SplitAssumption DEF PortIds, NoPort

\* A splitter's tables, field by field.
LEMMA SplitterFields ==
  ASSUME NEW s
  PROVE  SplitterOK(s) <=>
           /\ DOMAIN s = {"channelPort", "portChannel", "portNote", "byAge", "roundRobin", "last", "expr"}
           /\ s.channelPort \in [MemberChannels -> PortIds \union {NoPort}]
           /\ s.portChannel \in [PortIds -> OrNone]
           /\ s.portNote \in [PortIds -> ZoneNotes \union {NoNote}]
           /\ s.byAge \in Seq(PortIds) \ {<<>>}
           /\ s.roundRobin \in Nat
           /\ \A c \in MemberChannels, p \in PortIds : s.channelPort[c] = p <=> s.portChannel[p] = c
BY DEF SplitterOK, TableOf, Tables

\* A port that is free is found from wherever the search starts.
LEMMA FreePortIsFree ==
  ASSUME NEW s, SplitterOK(s), ~Full(s)
  PROVE  FreePort(s) \in PortIds /\ s.portChannel[FreePort(s)] = NoChannel
<1> DEFINE T == {(p - s.roundRobin) % Ports : p \in {q \in PortIds : s.portChannel[q] = NoChannel}}
<1>1. s.roundRobin \in Nat
  BY SplitterFields
<1>2. \A p \in PortIds : (p - s.roundRobin) % Ports \in Nat
  BY <1>1, PortFacts
<1>3. T \in SUBSET Nat /\ T # {}
  BY <1>2 DEF Full
<1>4. PICK x \in T : \A y \in T : x <= y
  <2> HIDE DEF T
  <2> QED BY <1>3, Playing!LeastNumber
<1>5. \E p \in PortIds : s.portChannel[p] = NoChannel /\ \A q \in PortIds : s.portChannel[q] = NoChannel =>
        (p - s.roundRobin) % Ports <= (q - s.roundRobin) % Ports
  BY <1>4
<1> QED BY <1>5 DEF FreePort

\* Moving the youngest port behind the others leaves a row of ports.
LEMMA AgedPorts ==
  ASSUME NEW row \in Seq(PortIds), NEW p \in PortIds
  PROVE  Append(RemoveFirst(row, p), p) \in Seq(PortIds) \ {<<>>}
<1>1. RemoveFirst(row, p) \in Seq(PortIds)
  <2>1. CASE ~\E i \in 1..Len(row) : row[i] = p
    BY <2>1 DEF RemoveFirst
  <2>2. CASE \E i \in 1..Len(row) : row[i] = p
    <3> DEFINE k == SelectInSeq(row, LAMBDA v : v = p)
    <3>1. RemoveFirst(row, p) = RemoveAt(row, k)
      BY <2>2 DEF RemoveFirst
    <3>2. k \in 1..Len(row)
      <4> DEFINE I == {i \in 1..Len(row) : row[i] = p}
      <4>1. k = Min(I)
        BY <2>2 DEF SelectInSeq
      <4>2. I \in SUBSET Nat /\ I # {}
        BY <2>2
      <4> HIDE DEF I
      <4>3. \E x \in I : \A y \in I : x <= y
        BY <4>2, Playing!LeastNumber
      <4>4. Min(I) \in I
        BY <4>3 DEF Min
      <4> QED BY <4>1, <4>4 DEF I
    <3> HIDE DEF k
    <3>3. RemoveAt(row, k) \in Seq(PortIds)
      BY <3>2 DEF RemoveAt
    <3> QED BY <3>1, <3>3
  <2> QED BY <2>1, <2>2
<1> QED BY <1>1

\* What a channel's port was sent to make room for it.
LEMMA ClaimStep ==
  ASSUME NEW s, SplitterOK(s), NEW c \in MemberChannels, NEW t, t = Claim(s, c)
  PROVE  /\ SplitterOK(t) /\ t.portNote = s.portNote /\ t.byAge = s.byAge
         /\ \E p \in PortIds :
              /\ p = t.channelPort[c]
              /\ \A q \in PortIds : q # p => t.portChannel[q] = s.portChannel[q]
              /\ s.portChannel[p] \in {c, NoChannel} \/ (Full(s) /\ p = OldestPort(s))
              /\ \/ s.portChannel[p] \in {c, NoChannel} /\ Stolen(s, c) = <<>>
                 \/ s.portNote[p] = NoNote /\ Stolen(s, c) = <<>>
                 \/ Stolen(s, c) = <<[kind |-> "off", note |-> s.portNote[p]]>>
<1>1. /\ DOMAIN s = {"channelPort", "portChannel", "portNote", "byAge", "roundRobin", "last", "expr"}
      /\ s.channelPort \in [MemberChannels -> PortIds \union {NoPort}]
      /\ s.portChannel \in [PortIds -> OrNone]
      /\ s.portNote \in [PortIds -> ZoneNotes \union {NoNote}]
      /\ s.byAge \in Seq(PortIds) \ {<<>>}
      /\ s.roundRobin \in Nat
      /\ \A d \in MemberChannels, p \in PortIds : s.channelPort[d] = p <=> s.portChannel[p] = d
  BY SplitterFields
<1>2. NoPort \notin PortIds /\ NoChannel \notin MemberChannels /\ c \in OrNone
  BY PortFacts, ChannelFacts DEF OrNone
<1>3. CASE s.channelPort[c] # NoPort
  <2>1. t = s /\ Stolen(s, c) = <<>>
    BY <1>3 DEF Claim, Stolen
  <2>2. s.channelPort[c] \in PortIds /\ s.portChannel[s.channelPort[c]] = c
    BY <1>1, <1>3
  <2> QED BY <2>1, <2>2
<1>4. CASE s.channelPort[c] = NoPort /\ ~Full(s)
  <2> PICK p : p = FreePort(s)
    OBVIOUS
  <2>1. p \in PortIds /\ s.portChannel[p] = NoChannel
    BY <1>4, FreePortIsFree
  <2>2. t = [s EXCEPT !.channelPort[c] = p, !.portChannel[p] = c, !.roundRobin = (p + 1) % Ports]
    BY <1>4 DEF Claim
  <2>3. Stolen(s, c) = <<>>
    BY <1>4 DEF Stolen
  <2>4. /\ DOMAIN t = DOMAIN s /\ t.portNote = s.portNote /\ t.byAge = s.byAge /\ t.roundRobin = (p + 1) % Ports
        /\ t.channelPort = [s.channelPort EXCEPT ![c] = p]
        /\ t.portChannel = [s.portChannel EXCEPT ![p] = c]
    BY <1>1, <2>2
  <2>5. t.channelPort[c] = p /\ t.roundRobin \in Nat
    BY <1>1, <2>1, <2>4, PortFacts
  <2>6. \A d \in MemberChannels, q \in PortIds : t.channelPort[d] = q <=> t.portChannel[q] = d
    BY <1>1, <1>2, <1>4, <2>1, <2>4
  <2>7. t.channelPort \in [MemberChannels -> PortIds \union {NoPort}] /\ t.portChannel \in [PortIds -> OrNone]
    BY <1>1, <1>2, <2>1, <2>4
  <2>8. SplitterOK(t)
    BY <1>1, <2>4, <2>5, <2>6, <2>7, SplitterFields
  <2> QED BY <1>1, <2>1, <2>3, <2>4, <2>5, <2>8
<1>5. CASE s.channelPort[c] = NoPort /\ Full(s)
  <2> PICK p : p = OldestPort(s)
    OBVIOUS
  <2>1. p \in PortIds /\ s.portChannel[p] \in MemberChannels
    BY <1>1, <1>5 DEF OldestPort, Full, OrNone
  <2>2. t = [s EXCEPT !.channelPort = [[@ EXCEPT ![s.portChannel[p]] = NoPort] EXCEPT ![c] = p], !.portChannel[p] = c]
    BY <1>5 DEF Claim
  <2>3. Stolen(s, c) = IF s.portNote[p] = NoNote THEN <<>> ELSE <<[kind |-> "off", note |-> s.portNote[p]]>>
    BY <1>5 DEF Stolen
  <2>4. /\ DOMAIN t = DOMAIN s /\ t.portNote = s.portNote /\ t.byAge = s.byAge /\ t.roundRobin = s.roundRobin
        /\ t.channelPort = [[s.channelPort EXCEPT ![s.portChannel[p]] = NoPort] EXCEPT ![c] = p]
        /\ t.portChannel = [s.portChannel EXCEPT ![p] = c]
    BY <1>1, <2>2
  <2>5. t.channelPort[c] = p
    BY <1>1, <2>4
  <2>6. \A d \in MemberChannels, q \in PortIds : t.channelPort[d] = q <=> t.portChannel[q] = d
    BY <1>1, <1>2, <1>5, <2>1, <2>4
  <2>7. t.channelPort \in [MemberChannels -> PortIds \union {NoPort}] /\ t.portChannel \in [PortIds -> OrNone]
    BY <1>1, <1>2, <2>1, <2>4
  <2>8. SplitterOK(t)
    BY <1>1, <2>4, <2>6, <2>7, SplitterFields
  <2> QED BY <1>1, <1>5, <2>1, <2>3, <2>4, <2>5, <2>8
<1> QED BY <1>3, <1>4, <1>5

-----------------------------------------------------------------------------
(* What sounds on the ports.                                               *)

\* Notes on member channels, one to a channel, none on two.
Assignments ==
  {A \in SUBSET (MemberChannels \X ZoneNotes) : \A j, k \in A : j[1] = k[1] \/ j[2] = k[2] => j = k}

\* Every note that sounds has its channel, and the splitter knows on which port.
Voiced(s, ys, A) ==
  \A p \in PortIds :
    /\ "notes" \in DOMAIN ys[p]
    /\ \A n \in ys[p].notes : s.portNote[p] = n /\ <<s.portChannel[p], n>> \in A

RackOK(rack, A) ==
  SplitterOK(rack.splitter) /\ Voiced(rack.splitter, rack.synths, A) /\ A \in Assignments

\* What a step does to the ports: nothing,
SameVoices(rack, next) ==
  /\ next.splitter.byAge = rack.splitter.byAge
  /\ \A p \in PortIds : /\ next.splitter.portChannel[p] = rack.splitter.portChannel[p]
                        /\ next.synths[p].notes = rack.synths[p].notes

\* or a note starts on one that was silent or had the oldest of all voices,
MovesBack(row, p, new) == new = Append(RemoveFirst(row, p), p)

VoiceStarted(rack, next, p, n) ==
  /\ MovesBack(rack.splitter.byAge, p, next.splitter.byAge)
  /\ next.synths[p].notes = {n}
  /\ \A q \in PortIds : q # p => /\ next.splitter.portChannel[q] = rack.splitter.portChannel[q]
                                 /\ next.synths[q].notes = rack.synths[q].notes
  /\ rack.synths[p].notes # {} => Full(rack.splitter) /\ p = OldestPort(rack.splitter)

\* or all are silent,
Hushed(rack, next) ==
  next.splitter.byAge = rack.splitter.byAge /\ \A p \in PortIds : next.synths[p].notes = {}

\* or one is silent and free, that had nothing but the note.
VoiceEnded(rack, next, n) ==
  /\ next.splitter.byAge = rack.splitter.byAge
  /\ \A p \in PortIds :
       \/ /\ next.splitter.portChannel[p] = rack.splitter.portChannel[p]
          /\ next.synths[p].notes = rack.synths[p].notes
       \/ /\ next.splitter.portChannel[p] = NoChannel
          /\ next.synths[p].notes = {} /\ rack.synths[p].notes \subseteq {n}

\* What the ports were told last is kept apart from the tables.
LEMMA UpdatedTables ==
  ASSUME NEW s, NEW ds, NEW ps, SplitterOK(s)
  PROVE  SplitterOK(Updated(s, ds, ps)) /\ TableOf(Updated(s, ds, ps)) = TableOf(s)
<1>1. DOMAIN Updated(s, ds, ps) = DOMAIN s /\ TableOf(Updated(s, ds, ps)) = TableOf(s)
  BY DEF SplitterOK, Updated, TableOf
<1> QED BY <1>1 DEF SplitterOK

\* What a message of expression does to the tables and sends.
LEMMA QuietSplit ==
  ASSUME NEW s, SplitterOK(s), NEW m, Quiet(m), NEW r, r = SplitMessage(s, m)
  PROVE  /\ SplitterOK(r.splitter) /\ TableOf(r.splitter) = TableOf(s)
         /\ \A p \in PortIds : AllQuiet(r.sent[p])
<1>1. CASE r = Split(s, Nothing)
  <2>1. r.splitter = s /\ \A p \in PortIds : r.sent[p] = <<>>
    BY <1>1 DEF Split, Nothing
  <2> QED BY <2>1, QuietSequences
<1>2. CASE m.kind \in Dimensions /\ r = SplitExpression(s, m.kind, m.channel, m.value)
  <2> PICK d \in {"bend", "cc74", "pressure"} : d = m.kind
    BY <1>2, SplitAssumption
  <2> PICK cached : cached = [s EXCEPT !.expr[d][m.channel] = m.value]
    OBVIOUS
  <2> PICK ps : ps = IF m.channel = ManagerChannel THEN PortIds ELSE {s.channelPort[m.channel]} \ {NoPort}
    OBVIOUS
  <2>1. SplitterOK(cached) /\ TableOf(cached) = TableOf(s)
    <3>1. DOMAIN cached = DOMAIN s /\ TableOf(cached) = TableOf(s)
      BY DEF SplitterOK, TableOf
    <3> QED BY <3>1 DEF SplitterOK
  <2>2. /\ r.splitter = Updated(cached, {d}, ps)
        /\ r.sent = [p \in PortIds |-> IF p \in ps THEN Update(cached, d, p) ELSE <<>>]
    BY <1>2 DEF SplitExpression, Split
  <2>3. \A p \in PortIds : AllQuiet(r.sent[p])
    <3> TAKE p \in PortIds
    <3> PICK x : x = [kind |-> d, value |-> Combined(cached, d, p)]
      OBVIOUS
    <3>1. Quiet(x) /\ (r.sent[p] = <<>> \/ r.sent[p] = <<x>>)
      BY <2>2 DEF Update, Quiet
    <3> QED BY <3>1, QuietSequences
  <2>6. SplitterOK(Updated(cached, {d}, ps)) /\ TableOf(Updated(cached, {d}, ps)) = TableOf(s)
    BY <2>1, UpdatedTables
  <2> QED BY <2>2, <2>3, <2>6
<1> QED BY <1>1, <1>2 DEF SplitMessage, Quiet

\* A message that neither starts nor ends a note leaves all of that as it is.
LEMMA QuietKeeps ==
  ASSUME NEW rack, NEW A, RackOK(rack, A), NEW m, Quiet(m)
  PROVE  RackOK(Played(rack, m), A) /\ SameVoices(rack, Played(rack, m))
<1> DEFINE r == SplitMessage(rack.splitter, m)
           ys == [p \in PortIds |-> FoldLeft(Play, rack.synths[p], r.sent[p])]
<1>1. Played(rack, m).splitter = r.splitter /\ Played(rack, m).synths = ys
  BY DEF Played, Rack
<1>2. /\ SplitterOK(r.splitter) /\ TableOf(r.splitter) = TableOf(rack.splitter)
      /\ \A p \in PortIds : AllQuiet(r.sent[p])
  BY QuietSplit DEF RackOK
<1> HIDE DEF r
<1>5. \A p \in PortIds : "notes" \in DOMAIN ys[p] /\ ys[p].notes = rack.synths[p].notes
  BY <1>2, QuietIsSilent, FoldsOfVoices DEF RackOK, Voiced
<1> HIDE DEF ys
<1>6. /\ r.splitter.portNote = rack.splitter.portNote /\ r.splitter.portChannel = rack.splitter.portChannel
      /\ r.splitter.byAge = rack.splitter.byAge
  BY <1>2 DEF TableOf
<1>7. Voiced(r.splitter, ys, A)
  BY <1>5, <1>6 DEF RackOK, Voiced
<1>8. SameVoices(rack, Played(rack, m))
  BY <1>1, <1>5, <1>6 DEF SameVoices
<1> QED BY <1>1, <1>2, <1>7, <1>8 DEF RackOK

\* A note-on, on a channel without a note: its port sounds it and nothing else,
\* also when the port was another channel's.
LEMMA OnKeeps ==
  ASSUME NEW rack, NEW A, RackOK(rack, A), NEW c \in MemberChannels, NEW n \in ZoneNotes,
         \A k \in A : k[1] # c /\ k[2] # n
  PROVE  /\ RackOK(Played(rack, On(c, n)), A \union {<<c, n>>})
         /\ \E p \in PortIds : VoiceStarted(rack, Played(rack, On(c, n)), p, n)
<1> PICK s : s = rack.splitter
  OBVIOUS
<1> PICK t : t = Claim(s, c)
  OBVIOUS
<1>1. /\ SplitterOK(s) /\ Voiced(s, rack.synths, A) /\ A \in Assignments
      /\ SplitterOK(t) /\ t.portNote = s.portNote /\ t.byAge = s.byAge
  BY ClaimStep DEF RackOK
<1>2. PICK p \in PortIds :
        /\ p = t.channelPort[c]
        /\ \A q \in PortIds : q # p => t.portChannel[q] = s.portChannel[q]
        /\ s.portChannel[p] \in {c, NoChannel} \/ (Full(s) /\ p = OldestPort(s))
        /\ \/ s.portChannel[p] \in {c, NoChannel} /\ Stolen(s, c) = <<>>
           \/ s.portNote[p] = NoNote /\ Stolen(s, c) = <<>>
           \/ Stolen(s, c) = <<[kind |-> "off", note |-> s.portNote[p]]>>
  BY <1>1, ClaimStep
<1> PICK voiced : voiced = [t EXCEPT !.portNote[p] = n, !.byAge = Append(RemoveFirst(@, p), p)]
  OBVIOUS
<1> DEFINE before == Beforehand(voiced, "bend", p) \o Beforehand(voiced, "cc74", p) \o Beforehand(voiced, "pressure", p)
<1>3. SplitNoteOn(s, c, n) = Split(Updated(voiced, Dimensions, {p}), ToPort(p, Stolen(s, c) \o before \o <<[kind |-> "on", note |-> n]>>))
  BY <1>2 DEF SplitNoteOn
<1>4. /\ SplitterOK(voiced) /\ voiced.portNote = [s.portNote EXCEPT ![p] = n] /\ voiced.portChannel = t.portChannel
      /\ voiced.byAge = Append(RemoveFirst(s.byAge, p), p)
  <2>1. /\ DOMAIN voiced = DOMAIN t /\ voiced.portNote = [s.portNote EXCEPT ![p] = n]
        /\ voiced.portChannel = t.portChannel /\ voiced.channelPort = t.channelPort /\ voiced.roundRobin = t.roundRobin
        /\ voiced.byAge = Append(RemoveFirst(t.byAge, p), p)
    BY <1>1 DEF SplitterOK
  <2>2. voiced.byAge \in Seq(PortIds) \ {<<>>}
    BY <1>1, <2>1, SplitterFields, AgedPorts
  <2>3. voiced.portNote \in [PortIds -> ZoneNotes \union {NoNote}]
    BY <1>1, <2>1, SplitterFields
  <2>4. /\ DOMAIN t = {"channelPort", "portChannel", "portNote", "byAge", "roundRobin", "last", "expr"}
        /\ t.channelPort \in [MemberChannels -> PortIds \union {NoPort}]
        /\ t.portChannel \in [PortIds -> OrNone] /\ t.roundRobin \in Nat
        /\ \A d \in MemberChannels, q \in PortIds : t.channelPort[d] = q <=> t.portChannel[q] = d
    BY <1>1, SplitterFields
  <2>5. SplitterOK(voiced)
    <3>1. \A d \in MemberChannels, q \in PortIds : voiced.channelPort[d] = q <=> voiced.portChannel[q] = d
      BY <2>1, <2>4
    <3>2. /\ DOMAIN voiced = {"channelPort", "portChannel", "portNote", "byAge", "roundRobin", "last", "expr"}
          /\ voiced.channelPort \in [MemberChannels -> PortIds \union {NoPort}]
          /\ voiced.portChannel \in [PortIds -> OrNone] /\ voiced.roundRobin \in Nat
      BY <2>1, <2>4
    <3> QED BY <2>2, <2>3, <3>1, <3>2, SplitterFields
  <2> QED BY <1>1, <2>1, <2>5
<1>5. AllQuiet(before)
  <2>1. \A d \in {"bend", "cc74", "pressure"} : AllQuiet(Beforehand(voiced, d, p))
    <3> TAKE d \in {"bend", "cc74", "pressure"}
    <3> PICK x : x = [kind |-> d, value |-> Combined(voiced, d, p)]
      OBVIOUS
    <3>1. Quiet(x) /\ (Beforehand(voiced, d, p) = <<>> \/ Beforehand(voiced, d, p) = <<x>>)
      BY DEF Update, Beforehand, Quiet
    <3> QED BY <3>1, QuietSequences
  <2>2. \A e, f, g : AllQuiet(e) /\ AllQuiet(f) /\ AllQuiet(g) => AllQuiet(e \o f \o g)
    BY QuietSequences
  <2> QED BY <2>1, <2>2
<1> PICK z : z = Updated(voiced, Dimensions, {p})
  OBVIOUS
<1>6. /\ SplitterOK(z) /\ z.portNote = [s.portNote EXCEPT ![p] = n] /\ z.portChannel = t.portChannel
      /\ z.byAge = Append(RemoveFirst(s.byAge, p), p)
  <2>1. SplitterOK(z) /\ TableOf(z) = TableOf(voiced)
    BY <1>4, UpdatedTables
  <2>2. z.portNote = voiced.portNote /\ z.portChannel = voiced.portChannel /\ z.byAge = voiced.byAge
    BY <2>1 DEF TableOf
  <2> QED BY <1>4, <2>1, <2>2
<1> DEFINE ys == Played(rack, On(c, n)).synths
<1> DEFINE sent == Stolen(s, c) \o before \o Struck(n)
<1>7. SplitMessage(s, On(c, n)) = Split(z, ToPort(p, sent))
  <2>1. On(c, n).kind = "on" /\ On(c, n).channel = c /\ On(c, n).note = n
    BY DEF On
  <2>2. SplitMessage(s, On(c, n)) = SplitNoteOn(s, c, n)
    BY <2>1, SplitAssumption DEF SplitMessage
  <2> QED BY <1>3, <2>2 DEF Struck
<1> HIDE DEF sent, before
<1>8. /\ Played(rack, On(c, n)).splitter = z
      /\ \A q \in PortIds : ys[q] = FoldLeft(Play, rack.synths[q], ToPort(p, sent)[q])
  <2>1. Split(z, ToPort(p, sent)).splitter = z /\ Split(z, ToPort(p, sent)).sent = ToPort(p, sent)
    BY DEF Split
  <2> QED BY <1>7, <2>1 DEF Played, Rack
<1> HIDE DEF ys
<1>9. \A q \in PortIds : q # p => ys[q] = rack.synths[q]
  <2> SUFFICES ASSUME NEW q \in PortIds, q # p PROVE ys[q] = rack.synths[q]
    OBVIOUS
  <2>1. ys[q] = FoldLeft(Play, rack.synths[q], <<>>)
    BY <1>8 DEF ToPort
  <2> QED BY <2>1, FoldsOfVoices, Playing!FoldOfNone
<1>10. ys[p] = FoldLeft(Play, rack.synths[p], sent)
  BY <1>8 DEF ToPort
<1>11. "notes" \in DOMAIN ys[p] /\ ys[p].notes = {n}
  <2> PICK y : y = rack.synths[p]
    OBVIOUS
  <2> PICK k : k = s.portNote[p]
    OBVIOUS
  <2>1. "notes" \in DOMAIN y /\ \A j \in y.notes : k = j /\ <<s.portChannel[p], j>> \in A
    BY <1>1 DEF Voiced
  <2>2. Stolen(s, c) = <<>> \/ Stolen(s, c) = Silenced(k)
    BY <1>2 DEF Silenced
  <2>3. "notes" \in DOMAIN ys[p] /\ ys[p].notes = (y.notes \ (IF Stolen(s, c) = <<>> THEN {} ELSE {k})) \union {n}
    <3>1. ys[p] = Playing!Folded(y, Stolen(s, c) \o before \o Struck(n))
      BY <1>10, FoldsOfVoices DEF sent
    <3>2. "notes" \in DOMAIN y
      BY <2>1
    <3>3. HasNotes(Playing!Folded(y, Stolen(s, c) \o before \o Struck(n)),
                   (y.notes \ (IF Stolen(s, c) = <<>> THEN {} ELSE {k})) \union {n})
      BY <1>5, <2>2, <3>2, VoiceStarts, Zenon
    <3> QED BY <3>1, <3>3 DEF HasNotes
  <2>4. y.notes \ (IF Stolen(s, c) = <<>> THEN {} ELSE {k}) = {}
    <3>1. \A j \in y.notes : s.portChannel[p] \in MemberChannels /\ s.portChannel[p] # c /\ j # NoNote
      <4> TAKE j \in y.notes
      <4> PICK a \in A : a = <<s.portChannel[p], j>>
        BY <2>1
      <4>1. a[1] = s.portChannel[p] /\ a[2] = j /\ a[1] # c /\ a \in MemberChannels \X ZoneNotes
        BY <1>1 DEF Assignments
      <4> QED BY <4>1, VoicesAssumption
    <3>2. CASE Stolen(s, c) = <<>>
      <4> SUFFICES ASSUME NEW j \in y.notes PROVE FALSE
        BY <3>2
      <4>1. s.portChannel[p] \notin {c, NoChannel} /\ s.portNote[p] # NoNote
        BY <2>1, <3>1, ChannelFacts
      <4>2. Stolen(s, c) # <<[kind |-> "off", note |-> s.portNote[p]]>>
        BY <3>2
      <4> QED BY <1>2, <4>1, <4>2
    <3>3. CASE Stolen(s, c) # <<>>
      BY <2>1, <3>3
    <3> QED BY <3>2, <3>3
  <2> QED BY <2>3, <2>4
<1>12. t.portChannel[p] = c
  <2>1. \A d \in MemberChannels, q \in PortIds : t.channelPort[d] = q <=> t.portChannel[q] = d
    BY <1>1, SplitterFields
  <2> QED BY <1>2, <2>1
<1>13. Voiced(z, ys, A \union {<<c, n>>})
  <2> SUFFICES ASSUME NEW q \in PortIds
               PROVE  /\ "notes" \in DOMAIN ys[q]
                      /\ \A k \in ys[q].notes : z.portNote[q] = k /\ <<z.portChannel[q], k>> \in A \union {<<c, n>>}
    BY DEF Voiced
  <2>1. CASE q = p
    <3>1. z.portNote[p] = n /\ z.portChannel[p] = c
      BY <1>1, <1>6, <1>12, SplitterFields
    <3> QED BY <1>11, <2>1, <3>1
  <2>2. CASE q # p
    <3>1. ys[q] = rack.synths[q] /\ z.portChannel[q] = s.portChannel[q]
      <4>1. t.portChannel[q] = s.portChannel[q]
        BY <1>2, <2>2
      <4> QED BY <1>6, <1>9, <2>2, <4>1
    <3>2. z.portNote[q] = s.portNote[q]
      <4>1. DOMAIN s.portNote = PortIds
        BY <1>1, SplitterFields
      <4> QED BY <1>6, <2>2, <4>1
    <3> QED BY <1>1, <3>1, <3>2 DEF Voiced
  <2> QED BY <2>1, <2>2
<1>14. A \union {<<c, n>>} \in Assignments
  <2> PICK a : a = <<c, n>>
    OBVIOUS
  <2>1. a \in MemberChannels \X ZoneNotes /\ a[1] = c /\ a[2] = n
    OBVIOUS
  <2>2. A \union {a} \in SUBSET (MemberChannels \X ZoneNotes)
    BY <1>1, <2>1 DEF Assignments
  <2>3. \A j, k \in A \union {a} : j[1] = k[1] \/ j[2] = k[2] => j = k
    BY <1>1, <2>1 DEF Assignments
  <2> QED BY <2>2, <2>3 DEF Assignments
<1>15. rack.synths[p].notes # {} => Full(s) /\ p = OldestPort(s)
  <2> SUFFICES ASSUME NEW j \in rack.synths[p].notes PROVE s.portChannel[p] \notin {c, NoChannel}
    BY <1>2
  <2> PICK a \in A : a = <<s.portChannel[p], j>>
    BY <1>1 DEF Voiced
  <2>1. a[1] = s.portChannel[p] /\ a[1] # c /\ a \in MemberChannels \X ZoneNotes
    BY <1>1 DEF Assignments
  <2> QED BY <2>1, ChannelFacts
<1> PICK next : next = Played(rack, On(c, n))
  OBVIOUS
<1>16. next.splitter = z /\ next.synths = ys
  BY <1>8 DEF ys
<1>17. VoiceStarted(rack, next, p, n)
  <2>1. /\ MovesBack(rack.splitter.byAge, p, next.splitter.byAge)
        /\ next.synths[p].notes = {n}
    BY <1>6, <1>11, <1>16 DEF MovesBack
  <2>2. \A q \in PortIds : q # p => /\ next.splitter.portChannel[q] = rack.splitter.portChannel[q]
                                   /\ next.synths[q].notes = rack.synths[q].notes
    <3> SUFFICES ASSUME NEW q \in PortIds, q # p
                 PROVE  /\ next.splitter.portChannel[q] = rack.splitter.portChannel[q]
                        /\ next.synths[q].notes = rack.synths[q].notes
      OBVIOUS
    <3>1. t.portChannel[q] = s.portChannel[q]
      BY <1>2
    <3>2. ys[q] = rack.synths[q]
      BY <1>9
    <3>3. next.splitter.portChannel = t.portChannel /\ next.synths[q] = ys[q]
      BY <1>6, <1>16
    <3> QED BY <3>1, <3>2, <3>3
  <2> QED BY <1>15, <2>1, <2>2 DEF VoiceStarted
<1>18. RackOK(next, A \union {<<c, n>>})
  BY <1>6, <1>13, <1>14, <1>16 DEF RackOK
<1> QED BY <1>17, <1>18

\* Assignments without one of them.
LEMMA FewerAssignments ==
  ASSUME NEW A \in Assignments, NEW k
  PROVE  A \ {k} \in Assignments
BY DEF Assignments

\* A note-off: the note's port is silent.
LEMMA OffKeeps ==
  ASSUME NEW rack, NEW A, RackOK(rack, A), NEW c, NEW n, <<c, n>> \in A
  PROVE  /\ RackOK(Played(rack, Off(c, n)), A \ {<<c, n>>})
         /\ VoiceEnded(rack, Played(rack, Off(c, n)), n)
<1> PICK s : s = rack.splitter
  OBVIOUS
<1> PICK a : a = <<c, n>>
  OBVIOUS
<1>1. SplitterOK(s) /\ Voiced(s, rack.synths, A) /\ A \in Assignments /\ a \in A
  BY DEF RackOK
<1>2. c \in MemberChannels /\ a[1] = c /\ a[2] = n
  BY <1>1 DEF Assignments
<1>3. /\ DOMAIN s = {"channelPort", "portChannel", "portNote", "byAge", "roundRobin", "last", "expr"}
      /\ s.channelPort \in [MemberChannels -> PortIds \union {NoPort}]
      /\ s.portChannel \in [PortIds -> OrNone]
      /\ s.portNote \in [PortIds -> ZoneNotes \union {NoNote}]
      /\ s.byAge \in Seq(PortIds) \ {<<>>}
      /\ s.roundRobin \in Nat
      /\ \A d \in MemberChannels, q \in PortIds : s.channelPort[d] = q <=> s.portChannel[q] = d
  BY <1>1, SplitterFields
<1>4. SplitMessage(s, Off(c, n)) = SplitNoteOff(s, c, n)
  <2>1. Off(c, n).kind = "off" /\ Off(c, n).channel = c /\ Off(c, n).note = n
    BY DEF Off
  <2> QED BY <2>1, SplitAssumption DEF SplitMessage
<1> PICK r : r = SplitNoteOff(s, c, n)
  OBVIOUS
<1> DEFINE ys == Played(rack, Off(c, n)).synths
<1>5. /\ Played(rack, Off(c, n)).splitter = r.splitter
      /\ \A q \in PortIds : ys[q] = Playing!Folded(rack.synths[q], r.sent[q])
  <2>1. \A q \in PortIds : ys[q] = FoldLeft(Play, rack.synths[q], r.sent[q])
    BY <1>4 DEF Played, Rack
  <2> HIDE DEF ys
  <2> QED BY <1>4, <2>1, FoldsOfVoices DEF Played, Rack
<1> HIDE DEF ys
\* A note that sounds elsewhere is another one.
<1>6. ASSUME NEW q \in PortIds, s.portChannel[q] # c, NEW k \in rack.synths[q].notes
      PROVE  k # n /\ s.portNote[q] = k /\ <<s.portChannel[q], k>> \in A \ {a}
  <2> PICK b \in A : b = <<s.portChannel[q], k>> /\ s.portNote[q] = k
    BY <1>1 DEF Voiced
  <2>1. b[1] = s.portChannel[q] /\ b[2] = k
    OBVIOUS
  <2>2. b # a
    BY <1>2, <1>6, <2>1
  <2>3. k # n
    BY <1>1, <1>2, <2>1, <2>2 DEF Assignments
  <2> QED BY <2>2, <2>3
<1>7. CASE s.channelPort[c] = NoPort
  <2>1. r.splitter = s /\ \A q \in PortIds : r.sent[q] = <<>>
    BY <1>7 DEF SplitNoteOff, Split, Nothing
  <2>2. \A q \in PortIds : ys[q] = rack.synths[q]
    BY <1>5, <2>1, Playing!FoldOfNone
  <2>3. \A q \in PortIds : s.portChannel[q] # c
    BY <1>2, <1>3, <1>7, PortFacts
  <2>4. Voiced(s, ys, A \ {a})
    BY <1>1, <1>6, <2>2, <2>3 DEF Voiced
  <2>5. VoiceEnded(rack, Played(rack, Off(c, n)), n)
    BY <1>5, <2>1, <2>2 DEF VoiceEnded, ys
  <2> QED BY <1>1, <1>5, <2>1, <2>4, <2>5, FewerAssignments DEF RackOK, ys
<1>8. CASE s.channelPort[c] # NoPort
  <2> PICK p \in PortIds : p = s.channelPort[c]
    BY <1>2, <1>3, <1>8
  <2> PICK t : t = [s EXCEPT !.portNote[p] = NoNote, !.portChannel[p] = NoChannel, !.channelPort[c] = NoPort]
    OBVIOUS
  <2>1. r.splitter = t /\ r.sent = ToPort(p, Silenced(n))
    BY <1>8 DEF SplitNoteOff, Split, Silenced
  <2>2. s.portChannel[p] = c /\ \A q \in PortIds : q # p => s.portChannel[q] # c
    BY <1>2, <1>3
  <2>3. /\ DOMAIN t = DOMAIN s /\ t.byAge = s.byAge /\ t.roundRobin = s.roundRobin
        /\ t.portNote = [s.portNote EXCEPT ![p] = NoNote]
        /\ t.portChannel = [s.portChannel EXCEPT ![p] = NoChannel]
        /\ t.channelPort = [s.channelPort EXCEPT ![c] = NoPort]
    BY <1>3
  <2>4. SplitterOK(t)
    <3>1. \A d \in MemberChannels, q \in PortIds : t.channelPort[d] = q <=> t.portChannel[q] = d
      <4> TAKE d \in MemberChannels, q \in PortIds
      <4>1. /\ t.channelPort[d] = IF d = c THEN NoPort ELSE s.channelPort[d]
            /\ t.portChannel[q] = IF q = p THEN NoChannel ELSE s.portChannel[q]
        BY <1>2, <1>3, <2>3
      <4>2. NoPort \notin PortIds /\ NoChannel \notin MemberChannels
        BY PortFacts, ChannelFacts
      <4>3. s.channelPort[d] = q <=> s.portChannel[q] = d
        BY <1>3
      <4> QED BY <2>2, <4>1, <4>2, <4>3
    <3>2. /\ t.channelPort \in [MemberChannels -> PortIds \union {NoPort}] /\ t.portChannel \in [PortIds -> OrNone]
          /\ t.portNote \in [PortIds -> ZoneNotes \union {NoNote}]
      BY <1>3, <2>3 DEF OrNone
    <3> QED BY <1>3, <2>3, <3>1, <3>2, SplitterFields
  <2>5. \A q \in PortIds : q # p => ys[q] = rack.synths[q]
    BY <1>5, <2>1, Playing!FoldOfNone DEF ToPort
  <2>6. HasNotes(ys[p], {})
    <3> PICK y : y = rack.synths[p]
      OBVIOUS
    <3> PICK off : off = [kind |-> "off", note |-> n]
      OBVIOUS
    <3>1. ys[p] = Play(y, off)
      BY <1>5, <2>1, Playing!FoldOfOne DEF ToPort, Silenced
    <3>2. Play(y, off) = [y EXCEPT !.notes = @ \ {n}]
      BY DEF Play
    <3>3. "notes" \in DOMAIN y /\ \A k \in y.notes : <<c, k>> \in A
      BY <1>1, <2>2 DEF Voiced
    <3>4. y.notes \subseteq {n}
      <4> SUFFICES ASSUME NEW k \in y.notes PROVE k = n
        OBVIOUS
      <4> PICK b \in A : b = <<c, k>>
        BY <3>3
      <4>1. b[1] = c /\ b[2] = k
        OBVIOUS
      <4> QED BY <1>1, <1>2, <4>1 DEF Assignments
    <3>5. "notes" \in DOMAIN Play(y, off) /\ Play(y, off).notes = {}
      BY <3>2, <3>3, <3>4
    <3> QED BY <3>1, <3>5 DEF HasNotes
  <2>7. Voiced(t, ys, A \ {a})
    <3> SUFFICES ASSUME NEW q \in PortIds
                 PROVE  /\ "notes" \in DOMAIN ys[q]
                        /\ \A k \in ys[q].notes : t.portNote[q] = k /\ <<t.portChannel[q], k>> \in A \ {a}
      BY DEF Voiced
    <3>1. CASE q = p
      BY <2>6, <3>1 DEF HasNotes
    <3>2. CASE q # p
      <4>1. t.portNote[q] = s.portNote[q] /\ t.portChannel[q] = s.portChannel[q]
        BY <1>3, <2>3, <3>2
      <4>2. "notes" \in DOMAIN rack.synths[q]
        BY <1>1 DEF Voiced
      <4> QED BY <1>6, <2>2, <2>5, <3>2, <4>1, <4>2
    <3> QED BY <3>1, <3>2
  <2>8. rack.synths[p].notes \subseteq {n}
    <3> SUFFICES ASSUME NEW k \in rack.synths[p].notes PROVE k = n
      OBVIOUS
    <3> PICK b \in A : b = <<c, k>>
      BY <1>1, <2>2 DEF Voiced
    <3>1. b[1] = c /\ b[2] = k
      OBVIOUS
    <3> QED BY <1>1, <1>2, <3>1 DEF Assignments
  <2>9. VoiceEnded(rack, Played(rack, Off(c, n)), n)
    <3> PICK next : next = Played(rack, Off(c, n))
      OBVIOUS
    <3>1. next.splitter = t /\ next.synths = ys
      BY <1>5, <2>1 DEF ys
    <3>2. t.byAge = s.byAge /\ t.portChannel[p] = NoChannel /\ \A q \in PortIds : q # p => t.portChannel[q] = s.portChannel[q]
      BY <1>3, <2>3
    <3>3. ys[p].notes = {} /\ \A q \in PortIds : q # p => ys[q] = rack.synths[q]
      BY <2>5, <2>6 DEF HasNotes
    <3> QED BY <2>8, <3>1, <3>2, <3>3 DEF VoiceEnded
  <2> QED BY <1>1, <1>5, <2>1, <2>4, <2>7, <2>9, FewerAssignments DEF RackOK, ys
<1> QED BY <1>7, <1>8

-----------------------------------------------------------------------------
(* mpexp under a player who holds fewer keys than the zone has channels.   *)

Filled(a) == IF a.bucketFilled THEN a.bucket ELSE FilledBucket

Ready(a) ==
  /\ Keeps(a, SoundsOf(a.noteChannel)) /\ SoundsOf(a.noteChannel) \in Assignments
  /\ \E q, r : Spells(Filled(a), q, r)

LEMMA FreshIsReady == Ready(FreshAllocator) /\ SoundsOf(FreshAllocator.noteChannel) = {}
<1>1. SoundsOf(FreshAllocator.noteChannel) = {} /\ ~FreshAllocator.bucketFilled
  BY DEF SoundsOf, FreshAllocator
<1>2. {} \in Assignments
  BY DEF Assignments
<1>3. Filled(FreshAllocator) = FilledBucket
  BY <1>1 DEF Filled
<1> QED BY <1>1, <1>2, <1>3, FreshIsSilent, FilledSpells DEF Ready

\* The keys that have notes are among those that are held.
Covers(K, f) == \A n \in ZoneNotes : f[n] # NoChannel => <<SourceChannel, n>> \in K

\* A channel is left for the next key, and it is the one on top.
LEMMA ChannelIsLeft ==
  ASSUME NEW b, NEW q, NEW r, Spells(b, q, r), NEW f \in [ZoneNotes -> OrNone], Counted(b.taken, f),
         NEW K, IsFiniteSet(K), Cardinality(K) < Members, Covers(K, f)
  PROVE  b.top \in MemberChannels /\ Users(f, b.top) = {}
<1>1. /\ q \in Rows /\ r \in 0..Members /\ b.top = q[1]
      /\ \A i \in Places : IF i > r THEN b.taken[q[i]] > 0 ELSE b.taken[q[i]] = 0
  BY DEF Spells
<1>2. Members \in Nat \ {0} /\ 1 \in Places /\ \A i \in Places : q[i] \in MemberChannels
  BY <1>1, ChannelFacts, PlaceFacts DEF Rows
<1>3. \A i \in Places : IsFiniteSet(Users(f, q[i])) /\ b.taken[q[i]] = Cardinality(Users(f, q[i]))
  <2> TAKE i \in Places
  <2>1. Users(f, q[i]) \subseteq ZoneNotes
    BY DEF Users
  <2> QED BY <1>2, <2>1, FS_Subset, ExpandAssumption DEF Counted
<1>4. r # 0
  <2> SUFFICES ASSUME r = 0 PROVE FALSE
    OBVIOUS
  <2>1. \A i \in Places : Users(f, q[i]) # {}
    <3> TAKE i \in Places
    <3>1. Cardinality(Users(f, q[i])) > 0
      BY <1>1, <1>2, <1>3 DEF Places
    <3>2. Cardinality({}) = 0
      BY FS_EmptySet
    <3> QED BY <3>1, <3>2
  <2> DEFINE note == [i \in Places |-> CHOOSE n \in ZoneNotes : f[n] = q[i]]
             key == [i \in Places |-> <<SourceChannel, note[i]>>]
  <2>2. \A i \in Places : note[i] \in ZoneNotes /\ f[note[i]] = q[i]
    BY <2>1 DEF Users
  <2> HIDE DEF note
  <2>3. key \in [Places -> K]
    <3> SUFFICES ASSUME NEW i \in Places PROVE key[i] \in K
      OBVIOUS
    <3>1. note[i] \in ZoneNotes /\ f[note[i]] # NoChannel
      BY <1>2, <2>2, ChannelFacts
    <3> QED BY <3>1 DEF Covers
  <2>4. IsFiniteSet(Places) /\ Cardinality(Places) = Members
    <3>1. 1 \in Int /\ Members \in Int /\ ~(1 > Members) /\ Members - 1 + 1 = Members
      BY <1>2
    <3> QED BY <3>1, FS_Interval DEF Places
  <2> HIDE DEF key
  <2>5. PICK i, j \in Places : i # j /\ key[i] = key[j]
    BY <2>3, <2>4, FS_PigeonHole
  <2>6. note[i] = note[j]
    BY <2>5 DEF key
  <2>7. q[i] = q[j]
    BY <2>2, <2>6
  <2> QED BY <1>1, <2>5, <2>7 DEF Rows
<1>5. b.taken[q[1]] = 0
  BY <1>1, <1>2, <1>4
<1>6. Users(f, q[1]) = {}
  BY <1>2, <1>3, <1>5, FS_EmptySet
<1> QED BY <1>1, <1>2, <1>6

\* What stays true of the allocator with a note-off,
Ended(a, e, c, n) ==
  /\ e.msgs = <<Zero(c), Off(c, n)>> /\ <<c, n>> \in SoundsOf(a.noteChannel)
  /\ SoundsOf(e.alloc.noteChannel) = SoundsOf(a.noteChannel) \ {<<c, n>>}

LEMMA ReadyLift ==
  ASSUME NEW a, Ready(a), NEW n \in ZoneNotes, NEW e, e = ExpandNoteOff(a, n)
  PROVE  /\ Ready(e.alloc) /\ e.alloc.noteChannel = [a.noteChannel EXCEPT ![n] = NoChannel]
         /\ \/ e.msgs = <<>> /\ SoundsOf(e.alloc.noteChannel) = SoundsOf(a.noteChannel)
            \/ \E c \in MemberChannels : Ended(a, e, c, n)
<1> DEFINE heard == SoundsOf(a.noteChannel)
<1>1. Keeps(a, heard) /\ heard \in Assignments /\ a.noteChannel \in [ZoneNotes -> OrNone]
  BY DEF Ready, Keeps
<1>2. PICK q, r : Spells(Filled(a), q, r)
  BY DEF Ready
<1>3. Keeps(e.alloc, (heard \ Ends(e.msgs)) \union Starts(e.msgs))
  BY <1>1, LiftKeeps DEF KeepsOn
<1> PICK c \in OrNone : c = a.noteChannel[n]
  BY <1>1
<1>4. CASE c = NoChannel
  <2>1. e.alloc = a /\ e.msgs = <<>>
    BY <1>4 DEF ExpandNoteOff, Expanded
  <2>2. a.noteChannel = [a.noteChannel EXCEPT ![n] = NoChannel]
    BY <1>1, <1>4
  <2> QED BY <2>1, <2>2
<1>5. CASE c \in MemberChannels
  <2>1. c # NoChannel
    BY <1>5, ChannelFacts
  <2> DEFINE z == [configSent |-> a.configSent, bucketFilled |-> a.bucketFilled, bucket |-> BucketRelease(a.bucket, c),
                   noteChannel |-> [a.noteChannel EXCEPT ![n] = NoChannel]]
  <2>2. e.alloc = z /\ e.msgs = <<Zero(c), Off(c, n)>>
    BY <2>1 DEF ExpandNoteOff, Expanded
  <2>3. /\ z.bucketFilled = a.bucketFilled /\ z.bucket = BucketRelease(a.bucket, c)
        /\ z.noteChannel = [a.noteChannel EXCEPT ![n] = NoChannel]
    OBVIOUS
  <2> HIDE DEF z
  <2>4. a.bucketFilled /\ a.bucket.taken[c] > 0
    BY <1>1, <1>5, HeldIsBusy
  <2>5. Spells(a.bucket, q, r)
    BY <1>2, <2>4 DEF Filled
  <2>6. PICK k \in Places : q[k] = c /\ k > r
    <3>1. PICK k \in Places : q[k] = c
      BY <1>5, <2>5 DEF Spells, Rows
    <3>2. k > r \/ a.bucket.taken[q[k]] = 0
      BY <2>5 DEF Spells
    <3> QED BY <2>4, <3>1, <3>2
  <2>7. \E s, t : Spells(Filled(z), s, t)
    <3>1. \E s, t : Spells(BucketRelease(a.bucket, c), s, t)
      <4>1. IF a.bucket.taken[q[k]] > 1 THEN Spells(BucketRelease(a.bucket, q[k]), MovedTo(q, k, Members), r)
            ELSE Spells(BucketRelease(a.bucket, q[k]), MovedTo(q, k, r + 1), r + 1)
        BY <2>5, <2>6, ReleaseSpells
      <4>2. \E s, t : Spells(BucketRelease(a.bucket, q[k]), s, t)
        BY <4>1, Zenon
      <4> QED BY <2>6, <4>2
    <3> QED BY <2>3, <2>4, <3>1 DEF Filled
  <2>8. (heard \ Ends(e.msgs)) \union Starts(e.msgs) = heard \ {<<c, n>>}
    <3>1. Ends(<<Zero(c), Off(c, n)>>) = {<<c, n>>} /\ Starts(<<Zero(c), Off(c, n)>>) = {}
      BY OneMessage
    <3>2. Ends(e.msgs) = Ends(<<Zero(c), Off(c, n)>>) /\ Starts(e.msgs) = Starts(<<Zero(c), Off(c, n)>>)
      BY <2>2, Zenon
    <3> QED BY <3>1, <3>2
  <2>9. SoundsOf(z.noteChannel) = heard \ {<<c, n>>} /\ Keeps(z, SoundsOf(z.noteChannel))
    BY <1>3, <2>2, <2>8 DEF Keeps
  <2>10. <<c, n>> \in heard
    BY <2>1 DEF SoundsOf
  <2>11. SoundsOf(z.noteChannel) \in Assignments
    BY <1>1, <2>9, FewerAssignments
  <2> QED BY <1>5, <2>2, <2>3, <2>7, <2>9, <2>10, <2>11 DEF Ready, Ended
<1> QED BY <1>4, <1>5 DEF OrNone

\* Two parts, one behind the other.
LEMMA ConcatFacts ==
  \A S : \A s, t \in Seq(S) :
    /\ Len(s \o t) = Len(s) + Len(t)
    /\ \A i \in 1..(Len(s) + Len(t)) : (s \o t)[i] = IF i <= Len(s) THEN s[i] ELSE t[i - Len(s)]
OBVIOUS

\* A message in front of two makes three.
LEMMA OneAndTwo ==
  ASSUME NEW S, NEW s \in Seq(S), NEW t \in Seq(S), NEW v \in Seq(S), Len(s) = 1, Len(t) = 2, Len(v) = 3,
         s[1] = v[1], t[1] = v[2], t[2] = v[3]
  PROVE  s \o t = v
<1>1. s \o t \in Seq(S)
  OBVIOUS
<1>2. Len(s \o t) = 3 /\ (s \o t)[1] = v[1] /\ (s \o t)[2] = v[2] /\ (s \o t)[3] = v[3]
  <2>1. Len(s \o t) = Len(s) + Len(t)
    BY ConcatFacts
  <2>2. \A i \in 1..(Len(s) + Len(t)) : (s \o t)[i] = IF i <= Len(s) THEN s[i] ELSE t[i - Len(s)]
    BY ConcatFacts
  <2>3. 1 \in 1..(Len(s) + Len(t)) /\ 2 \in 1..(Len(s) + Len(t)) /\ 3 \in 1..(Len(s) + Len(t))
    OBVIOUS
  <2>4. 1 <= Len(s) /\ ~(2 <= Len(s)) /\ ~(3 <= Len(s)) /\ 2 - Len(s) = 1 /\ 3 - Len(s) = 2
    OBVIOUS
  <2> QED BY <2>1, <2>2, <2>3, <2>4
<1>3. ASSUME NEW u \in Seq(S), Len(u) = 3, u[1] = v[1], u[2] = v[2], u[3] = v[3] PROVE u = v
  <2>1. u = [i \in 1..3 |-> u[i]] /\ v = [i \in 1..3 |-> v[i]]
    BY <1>3
  <2>2. \A i \in 1..3 : u[i] = v[i]
    BY <1>3
  <2> QED BY <2>1, <2>2
<1> QED BY <1>1, <1>2, <1>3, Zenon

\* and with the note-on of a key that was up: the note gets a channel of its own.
Started(a, e, c, n) ==
  /\ e.alloc.noteChannel = [a.noteChannel EXCEPT ![n] = c]
  /\ e.msgs = <<Zero(c), On(c, n)>> \/ e.msgs = <<Config, Zero(c), On(c, n)>>
  /\ \A k \in SoundsOf(a.noteChannel) : k[1] # c /\ k[2] # n
  /\ SoundsOf(e.alloc.noteChannel) = SoundsOf(a.noteChannel) \union {<<c, n>>}

LEMMA ReadyPress ==
  ASSUME NEW a, Ready(a), NEW n \in ZoneNotes, a.noteChannel[n] = NoChannel, NEW e, e = ExpandNoteOn(a, n),
         NEW K, IsFiniteSet(K), Cardinality(K) < Members, Covers(K, a.noteChannel)
  PROVE  Ready(e.alloc) /\ \E c \in MemberChannels : Started(a, e, c, n)
<1> DEFINE heard == SoundsOf(a.noteChannel)
<1>1. /\ Keeps(a, heard) /\ heard \in Assignments /\ a.noteChannel \in [ZoneNotes -> OrNone]
      /\ Counted(a.bucket.taken, a.noteChannel)
  BY DEF Ready, Keeps
<1> PICK b : b = Filled(a)
  OBVIOUS
<1>2. PICK q, r : Spells(b, q, r)
  BY DEF Ready
<1>3. b.taken = a.bucket.taken
  BY <1>1, FilledIsLinked DEF Filled, Keeps
<1> PICK c : c = b.top
  OBVIOUS
<1>4. c \in MemberChannels /\ Users(a.noteChannel, c) = {}
  <2>1. Counted(b.taken, a.noteChannel)
    BY <1>1, <1>3
  <2> QED BY <1>1, <1>2, <2>1, ChannelIsLeft
<1> DEFINE z == [configSent |-> TRUE, bucketFilled |-> TRUE, bucket |-> BucketTake(b),
                 noteChannel |-> [a.noteChannel EXCEPT ![n] = c]]
<1>5. e.alloc = z /\ e.msgs = (IF a.configSent THEN <<>> ELSE <<Config>>) \o <<>> \o <<Zero(c), On(c, n)>>
  BY DEF ExpandNoteOn, Expanded, Filled
<1>6. z.bucketFilled /\ z.bucket = BucketTake(b) /\ z.noteChannel = [a.noteChannel EXCEPT ![n] = c]
  OBVIOUS
<1> HIDE DEF z
<1>7. e.msgs = <<Zero(c), On(c, n)>> \/ e.msgs = <<Config, Zero(c), On(c, n)>>
  <2> PICK x, y : x = Zero(c) /\ y = On(c, n)
    OBVIOUS
  <2>1. <<>> \o <<>> \o <<x, y>> = <<x, y>>
    OBVIOUS
  <2>2. ASSUME NEW w PROVE <<w>> \o <<>> \o <<x, y>> = <<w, x, y>>
    <3>1. <<w>> \o <<>> = <<w>>
      OBVIOUS
    <3>2. <<w>> \o <<x, y>> = <<w, x, y>>
      <4> PICK s, t, v : s = <<w>> /\ t = <<x, y>> /\ v = <<w, x, y>>
        OBVIOUS
      <4>1. /\ s \in Seq({w, x, y}) /\ t \in Seq({w, x, y}) /\ v \in Seq({w, x, y}) /\ Len(s) = 1 /\ Len(t) = 2 /\ Len(v) = 3
            /\ s[1] = w /\ t[1] = x /\ t[2] = y /\ v[1] = w /\ v[2] = x /\ v[3] = y
        OBVIOUS
      <4> QED BY <4>1, OneAndTwo
    <3> QED BY <3>1, <3>2, Zenon
  <2> QED BY <1>5, <2>1, <2>2
<1>8. \A k \in heard : k[1] # c /\ k[2] # n
  <2> TAKE k \in heard
  <2> PICK m \in ZoneNotes : a.noteChannel[m] # NoChannel /\ k = <<a.noteChannel[m], m>>
    BY DEF SoundsOf
  <2>1. k[1] = a.noteChannel[m] /\ k[2] = m
    OBVIOUS
  <2>2. m \notin Users(a.noteChannel, c)
    BY <1>4
  <2> QED BY <2>1, <2>2 DEF Users
<1>9. SoundsOf(z.noteChannel) = heard \union {<<c, n>>}
  <2>1. c # NoChannel
    BY <1>4, ChannelFacts
  <2> PICK f, g : f = a.noteChannel /\ g = z.noteChannel
    OBVIOUS
  <2>2. f \in [ZoneNotes -> OrNone] /\ f[n] = NoChannel /\ g = [f EXCEPT ![n] = c]
    BY <1>1, <1>6
  <2>3. g[n] = c /\ \A m \in ZoneNotes : m # n => g[m] = f[m]
    BY <2>2
  <2>4. SoundsOf(g) = SoundsOf(f) \union {<<c, n>>}
    BY <2>1, <2>2, <2>3 DEF SoundsOf
  <2> QED BY <2>4
<1>10. SoundsOf(z.noteChannel) \in Assignments
  <2> PICK k : k = <<c, n>>
    OBVIOUS
  <2>1. k \in MemberChannels \X ZoneNotes /\ k[1] = c /\ k[2] = n
    BY <1>4
  <2>2. heard \union {k} \in Assignments
    BY <1>1, <1>8, <2>1 DEF Assignments
  <2> QED BY <1>9, <2>2
<1>11. Keeps(z, SoundsOf(z.noteChannel))
  <2>1. Keeps(e.alloc, (heard \ Ends(e.msgs)) \union Starts(e.msgs))
    BY <1>1, PressKeeps DEF KeepsOn
  <2> QED BY <1>5, <2>1 DEF Keeps
<1>12. \E s, t : Spells(Filled(z), s, t)
  <2>1. \E s, t : Spells(BucketTake(b), s, t)
    BY <1>2, TakeSpells
  <2> QED BY <1>6, <2>1 DEF Filled
<1>13. Ready(e.alloc)
  BY <1>5, <1>10, <1>11, <1>12 DEF Ready
<1> QED BY <1>4, <1>5, <1>6, <1>7, <1>8, <1>9, <1>13 DEF Started

-----------------------------------------------------------------------------
(* The route.                                                              *)

\* A step that changes no voice may go in front.
LEMMA SameThen ==
  ASSUME NEW rack, NEW mid, NEW next, SameVoices(rack, mid)
  PROVE  /\ SameVoices(mid, next) => SameVoices(rack, next)
         /\ \A p \in PortIds : \A n : VoiceStarted(mid, next, p, n) => VoiceStarted(rack, next, p, n)
         /\ \A n : VoiceEnded(mid, next, n) => VoiceEnded(rack, next, n)
<1>1. /\ mid.splitter.byAge = rack.splitter.byAge
      /\ \A p \in PortIds : /\ mid.splitter.portChannel[p] = rack.splitter.portChannel[p]
                            /\ mid.synths[p].notes = rack.synths[p].notes
  BY DEF SameVoices
<1>2. SameVoices(mid, next) => SameVoices(rack, next)
  BY <1>1 DEF SameVoices
<1>3. Full(mid.splitter) <=> Full(rack.splitter)
  BY <1>1 DEF Full
<1>4. OldestPort(mid.splitter) = OldestPort(rack.splitter)
  BY <1>1 DEF OldestPort
<1>5. \A p \in PortIds : \A n : VoiceStarted(mid, next, p, n) => VoiceStarted(rack, next, p, n)
  BY <1>1, <1>3, <1>4 DEF VoiceStarted
<1>6. \A n : VoiceEnded(mid, next, n) => VoiceEnded(rack, next, n)
  BY <1>1 DEF VoiceEnded
<1> QED BY <1>2, <1>5, <1>6

\* or follow.
LEMMA ThenSame ==
  ASSUME NEW rack, NEW mid, NEW next, SameVoices(mid, next)
  PROVE  /\ SameVoices(rack, mid) => SameVoices(rack, next)
         /\ \A p \in PortIds : \A n : VoiceStarted(rack, mid, p, n) => VoiceStarted(rack, next, p, n)
         /\ \A n : VoiceEnded(rack, mid, n) => VoiceEnded(rack, next, n)
<1>1. SameVoices(rack, mid) => SameVoices(rack, next)
  BY DEF SameVoices
<1>2. \A p \in PortIds : \A n : VoiceStarted(rack, mid, p, n) => VoiceStarted(rack, next, p, n)
  BY DEF SameVoices, VoiceStarted
<1>3. \A n : VoiceEnded(rack, mid, n) => VoiceEnded(rack, next, n)
  BY DEF SameVoices, VoiceEnded
<1> QED BY <1>1, <1>2, <1>3

\* What a note-on and a note-off of mpexp do to the rack.
LEMMA RoutedOn ==
  ASSUME NEW rack, NEW A, RackOK(rack, A), NEW c \in MemberChannels, NEW n \in ZoneNotes,
         \A k \in A : k[1] # c /\ k[2] # n,
         NEW msgs, msgs = <<Zero(c), On(c, n)>> \/ msgs = <<Config, Zero(c), On(c, n)>>
  PROVE  /\ RackOK(FoldLeft(Played, rack, msgs), A \union {<<c, n>>})
         /\ \E p \in PortIds : VoiceStarted(rack, FoldLeft(Played, rack, msgs), p, n)
<1>1. Quiet(Config) /\ Quiet(Zero(c))
  BY DEF Quiet, Config, Zero, Expression
<1> PICK mid, late : mid = Played(rack, Zero(c)) /\ late = Played(Played(rack, Config), Zero(c))
  OBVIOUS
<1>2. RackOK(mid, A) /\ RackOK(late, A) /\ SameVoices(rack, mid) /\ SameVoices(rack, late)
  <2>1. RackOK(mid, A) /\ SameVoices(rack, mid)
    BY <1>1, QuietKeeps
  <2>2. RackOK(Played(rack, Config), A) /\ SameVoices(rack, Played(rack, Config))
    BY <1>1, QuietKeeps
  <2>3. RackOK(late, A) /\ SameVoices(Played(rack, Config), late)
    BY <1>1, <2>2, QuietKeeps
  <2>4. SameVoices(rack, late)
    BY <2>2, <2>3, SameThen
  <2> QED BY <2>1, <2>3, <2>4
<1>3. /\ RackOK(Played(mid, On(c, n)), A \union {<<c, n>>}) /\ RackOK(Played(late, On(c, n)), A \union {<<c, n>>})
      /\ \E p \in PortIds : VoiceStarted(mid, Played(mid, On(c, n)), p, n)
      /\ \E p \in PortIds : VoiceStarted(late, Played(late, On(c, n)), p, n)
  BY <1>2, OnKeeps
<1>4. /\ \E p \in PortIds : VoiceStarted(rack, Played(mid, On(c, n)), p, n)
      /\ \E p \in PortIds : VoiceStarted(rack, Played(late, On(c, n)), p, n)
  BY <1>2, <1>3, SameThen
<1>5. /\ Routing!Folded(rack, <<Zero(c), On(c, n)>>) = Played(mid, On(c, n))
      /\ Routing!Folded(rack, <<Config, Zero(c), On(c, n)>>) = Played(late, On(c, n))
  BY Routing!FoldOfTwo, Routing!FoldOfThree
<1>6. FoldLeft(Played, rack, msgs) = Played(mid, On(c, n)) \/ FoldLeft(Played, rack, msgs) = Played(late, On(c, n))
  BY <1>5, FoldsOfVoices, Zenon
<1> QED BY <1>3, <1>4, <1>6, Zenon

LEMMA RoutedOff ==
  ASSUME NEW rack, NEW A, RackOK(rack, A), NEW c, NEW n, <<c, n>> \in A
  PROVE  /\ RackOK(FoldLeft(Played, rack, <<Zero(c), Off(c, n)>>), A \ {<<c, n>>})
         /\ VoiceEnded(rack, FoldLeft(Played, rack, <<Zero(c), Off(c, n)>>), n)
<1>1. Quiet(Zero(c))
  BY DEF Quiet, Zero, Expression
<1> PICK mid : mid = Played(rack, Zero(c))
  OBVIOUS
<1>2. RackOK(mid, A) /\ SameVoices(rack, mid)
  BY <1>1, QuietKeeps
<1>3. RackOK(Played(mid, Off(c, n)), A \ {<<c, n>>}) /\ VoiceEnded(mid, Played(mid, Off(c, n)), n)
  BY <1>2, OffKeeps
<1>4. VoiceEnded(rack, Played(mid, Off(c, n)), n)
  BY <1>2, <1>3, SameThen
<1>5. Routing!Folded(rack, <<Zero(c), Off(c, n)>>) = Played(mid, Off(c, n))
  BY Routing!FoldOfTwo
<1> QED BY <1>3, <1>4, <1>5, FoldsOfVoices, Zenon

\* A message alone, or none.
LEMMA RoutedOne ==
  ASSUME NEW rack
  PROVE  FoldLeft(Played, rack, <<>>) = rack /\ \A m : FoldLeft(Played, rack, <<m>>) = Played(rack, m)
BY FoldsOfVoices, Routing!FoldOfNone, Routing!FoldOfOne

\* The notes that the splitter was sent and that were not released: with an mpexp,
\* those that have a channel, else those of the keys.
Assigned == IF expanding THEN SoundsOf(alloc.noteChannel) ELSE Fingers

\* Keys, and that no note is among them twice.
KeysOf(keys)   == {keys[i] : i \in DOMAIN keys}
EachOnce(keys) == \A i, j \in DOMAIN keys : keys[i][2] = keys[j][2] => i = j

\* Every port sounds a note that was assigned to it or is silent, mpexp has a
\* channel left for each further key, and knows of no note without a key.
VoicesInv ==
  /\ expanding \in BOOLEAN /\ dimension \in Dimensions
  /\ fingers \in Seq(KeyChannels \X ZoneNotes)
  /\ EachOnce(fingers)
  /\ expanding => Ready(alloc) /\ Covers(Fingers, alloc.noteChannel)
  /\ SplitterOK(splitter) /\ Voiced(splitter, synths, Assigned) /\ Assigned \in Assignments

\* The rack as it is.
Now == Rack(splitter, synths, behind)

LEMMA RackNow ==
  ASSUME VoicesInv
  PROVE  RackOK(Now, Assigned)
BY DEF VoicesInv, RackOK, Rack, Now

\* The route's part of a step.
LEMMA ProcessStep ==
  ASSUME NEW a, NEW rack, NEW m, Process(a, rack, m),
         NEW through, through = (IF expanding THEN Expand(a, m) ELSE Expanded(a, <<m>>)),
         NEW A, RackOK(FoldLeft(Played, rack, through.msgs), A)
  PROVE  /\ alloc' = through.alloc /\ UNCHANGED <<expanding, dimension>>
         /\ SplitterOK(splitter') /\ Voiced(splitter', synths', A) /\ A \in Assignments
         /\ SameVoices(FoldLeft(Played, rack, through.msgs), Now')
<1> PICK next : next = FoldLeft(Played, rack, through.msgs)
  OBVIOUS
<1>1. /\ alloc' = through.alloc /\ UNCHANGED <<expanding, dimension>>
      /\ splitter' = next.splitter /\ synths' = next.synths
  BY DEF Process
<1>2. SplitterOK(splitter') /\ Voiced(splitter', synths', A) /\ A \in Assignments
  BY <1>1 DEF RackOK
<1>3. SameVoices(next, Now')
  BY <1>1 DEF SameVoices, Now, Rack
<1> QED BY <1>1, <1>2, <1>3

\* One key less.
LEMMA KeyRemoved ==
  ASSUME NEW S, NEW s \in Seq(S), NEW h \in DOMAIN s, EachOnce(s), NEW t, t = RemoveAt(s, h)
  PROVE  t \in Seq(S) /\ EachOnce(t) /\ KeysOf(t) = KeysOf(s) \ {s[h]}
<1>0. \A i, j \in DOMAIN s : s[i][2] = s[j][2] => i = j
  BY DEF EachOnce
<1>1. DOMAIN s = 1..Len(s) /\ Len(s) \in Nat /\ h \in 1..Len(s)
  OBVIOUS
<1>2. t \in Seq(S) /\ Len(t) = Len(s) - 1 /\ \A i \in 1..Len(s) - 1 : t[i] = IF i < h THEN s[i] ELSE s[i + 1]
  BY <1>1, CutOut
<1>3. DOMAIN t = 1..Len(s) - 1
  BY <1>2
<1>4. \A i, j \in DOMAIN t : t[i][2] = t[j][2] => i = j
  <2> TAKE i, j \in DOMAIN t
  <2> DEFINE at(x) == IF x < h THEN x ELSE x + 1
  <2>1. at(i) \in DOMAIN s /\ at(j) \in DOMAIN s /\ (at(i) = at(j) => i = j)
    BY <1>1, <1>3
  <2>2. t[i] = s[at(i)] /\ t[j] = s[at(j)]
    BY <1>2, <1>3
  <2> QED BY <1>0, <2>1, <2>2
<1>5. ASSUME NEW i \in DOMAIN t PROVE t[i] \in {s[x] : x \in DOMAIN s} \ {s[h]}
  <2> DEFINE x == IF i < h THEN i ELSE i + 1
  <2>1. x \in DOMAIN s /\ x # h
    BY <1>1, <1>3
  <2>2. t[i] = s[x]
    BY <1>2, <1>3
  <2> QED BY <1>0, <2>1, <2>2
<1>6. ASSUME NEW x \in DOMAIN s, s[x] # s[h] PROVE s[x] \in {t[i] : i \in DOMAIN t}
  <2>1. x < h \/ x > h
    BY <1>1, <1>6
  <2> DEFINE i == IF x < h THEN x ELSE x - 1
  <2>2. i \in DOMAIN t /\ x = IF i < h THEN i ELSE i + 1
    BY <1>1, <1>3, <2>1
  <2>3. t[i] = s[x]
    BY <1>2, <1>3, <2>2
  <2> QED BY <2>2, <2>3
<1> QED BY <1>2, <1>4, <1>5, <1>6 DEF EachOnce, KeysOf

\* A message that neither starts nor ends a note, on its way through the route.
LEMMA QuietStep ==
  ASSUME NEW a, NEW rack, NEW A, RackOK(rack, A), NEW m, Quiet(m), "kind" \in DOMAIN m, Process(a, rack, m)
  PROVE  /\ alloc' = a /\ UNCHANGED <<expanding, dimension>>
         /\ SplitterOK(splitter') /\ Voiced(splitter', synths', A) /\ A \in Assignments
         /\ SameVoices(rack, Now')
<1> PICK through : through = IF expanding THEN Expand(a, m) ELSE Expanded(a, <<m>>)
  OBVIOUS
<1>1. \E x : Quiet(x) /\ through = Expanded(a, <<x>>)
  <2>1. CASE ~expanding
    BY <2>1
  <2>2. CASE expanding /\ m.kind = "aftertouch"
    <3> PICK x : x = Expression("pressure", IF a.noteChannel[m.note] = NoChannel THEN ManagerChannel
                                            ELSE a.noteChannel[m.note], m.value)
      OBVIOUS
    <3>1. Quiet(x)
      BY DEF Quiet, Expression
    <3>2. through = Expanded(a, <<x>>)
      BY <2>2 DEF Expand, ExpandAftertouch
    <3> QED BY <3>1, <3>2
  <2>3. CASE expanding /\ m.kind # "aftertouch"
    <3> PICK x : x = [m EXCEPT !.channel = ManagerChannel]
      OBVIOUS
    <3>1. Quiet(x)
      BY DEF Quiet
    <3>2. through = Expanded(a, <<x>>)
      BY <2>3 DEF Expand, Quiet
    <3> QED BY <3>1, <3>2
  <2> QED BY <2>1, <2>2, <2>3
<1> PICK x : Quiet(x) /\ through = Expanded(a, <<x>>)
  BY <1>1
<1>2. through.alloc = a /\ through.msgs = <<x>>
  BY DEF Expanded
<1>3. RackOK(FoldLeft(Played, rack, through.msgs), A) /\ SameVoices(rack, FoldLeft(Played, rack, through.msgs))
  <2>1. RackOK(Played(rack, x), A) /\ SameVoices(rack, Played(rack, x))
    BY QuietKeeps
  <2>2. FoldLeft(Played, rack, <<x>>) = Played(rack, x)
    BY RoutedOne
  <2> QED BY <1>2, <2>1, <2>2, Zenon
<1>4. /\ alloc' = through.alloc /\ UNCHANGED <<expanding, dimension>>
      /\ SplitterOK(splitter') /\ Voiced(splitter', synths', A) /\ A \in Assignments
      /\ SameVoices(FoldLeft(Played, rack, through.msgs), Now')
  BY <1>3, ProcessStep
<1> QED BY <1>2, <1>3, <1>4, ThenSame

\* The invariant does not depend on more than this.
LEMMA VoicesKept ==
  ASSUME VoicesInv, UNCHANGED <<expanding, dimension, alloc, fingers>>,
         SplitterOK(splitter'), Voiced(splitter', synths', Assigned), Assigned \in Assignments
  PROVE  VoicesInv'
BY DEF VoicesInv, Assigned, Fingers, KeyChannels

LEMMA ExpressKeeps ==
  ASSUME VoicesInv, NEW c, NEW v, Express(c, v)
  PROVE  VoicesInv' /\ SameVoices(Now, Now') /\ UNCHANGED fingers
<1> PICK m : m = Expression(dimension, IF expanding THEN SourceChannel ELSE c, v)
  OBVIOUS
<1>1. Quiet(m) /\ "kind" \in DOMAIN m
  BY SplitAssumption DEF VoicesInv, Quiet, Expression
<1>2. Process(alloc, Now, m) /\ UNCHANGED fingers
  BY DEF Express, Receive, Now
<1>3. RackOK(Now, Assigned)
  BY RackNow
<1> QED BY <1>1, <1>2, <1>3, QuietStep, VoicesKept

LEMMA PressHarderKeeps ==
  ASSUME VoicesInv, NEW k, NEW v, PressHarder(k, v)
  PROVE  VoicesInv' /\ SameVoices(Now, Now') /\ UNCHANGED fingers
<1> PICK m : m = Aftertouch(k[1], k[2], v)
  OBVIOUS
<1>1. Quiet(m) /\ "kind" \in DOMAIN m
  BY DEF Quiet, Aftertouch
<1>2. Process(alloc, Now, m) /\ UNCHANGED fingers
  BY DEF PressHarder, Receive, Now
<1>3. RackOK(Now, Assigned)
  BY RackNow
<1> QED BY <1>1, <1>2, <1>3, QuietStep, VoicesKept

\* What an mpexp whose allocator starts over, or a controller, has assigned.
LEMMA StartedOver ==
  ASSUME VoicesInv
  PROVE  /\ Ready(FreshAllocator) /\ \A K : Covers(K, FreshAllocator.noteChannel)
         /\ (IF expanding THEN SoundsOf(FreshAllocator.noteChannel) ELSE Fingers) \in Assignments
         /\ {} \in Assignments
<1>1. {} \in Assignments
  BY DEF Assignments
<1>2. \A K : Covers(K, FreshAllocator.noteChannel)
  BY DEF Covers, FreshAllocator
<1> QED BY <1>1, <1>2, FreshIsReady DEF VoicesInv, Assigned

LEMMA SilenceKeeps ==
  ASSUME VoicesInv, Silence, UNCHANGED fingers \/ fingers' = <<>>
  PROVE  VoicesInv' /\ Hushed(Now, Now')
<1>1. /\ alloc' = FreshAllocator /\ UNCHANGED <<expanding, dimension, splitter>>
      /\ synths' = [p \in PortIds |-> [synths[p] EXCEPT !.notes = {}]]
  BY DEF Silence
<1>2. \A p \in PortIds : "notes" \in DOMAIN synths'[p] /\ synths'[p].notes = {}
  BY <1>1 DEF VoicesInv, Voiced
<1>3. Voiced(splitter', synths', Assigned')
  BY <1>2 DEF Voiced
<1>4. fingers' \in Seq((KeyChannels \X ZoneNotes)') /\ EachOnce(fingers)'
  <2> PICK S : S = KeyChannels \X ZoneNotes
    OBVIOUS
  <2>1. (KeyChannels \X ZoneNotes)' = S
    BY <1>1 DEF KeyChannels
  <2>2. fingers' = <<>> => fingers' \in Seq(S) /\ EachOnce(fingers)'
    BY DEF EachOnce
  <2>3. UNCHANGED fingers => fingers' \in Seq(S) /\ EachOnce(fingers)'
    BY DEF VoicesInv, EachOnce
  <2> QED BY <2>1, <2>2, <2>3 DEF VoicesInv
<1>5. Assigned' \in Assignments
  <2>1. CASE expanding
    BY <1>1, <2>1, StartedOver DEF Assigned
  <2>2. CASE ~expanding /\ UNCHANGED fingers
    BY <1>1, <2>2 DEF VoicesInv, Assigned, Fingers
  <2>3. CASE ~expanding /\ fingers' = <<>>
    <3>1. Assigned' = {}
      BY <1>1, <2>3 DEF Assigned, Fingers
    <3> QED BY <3>1, StartedOver
  <2> QED BY <2>1, <2>2, <2>3
<1>6. expanding => Ready(alloc') /\ Covers(Fingers', alloc'.noteChannel)
  BY <1>1, StartedOver
<1>7. Hushed(Now, Now')
  BY <1>1, <1>2 DEF Hushed, Now, Rack
<1> QED BY <1>1, <1>3, <1>4, <1>5, <1>6, <1>7 DEF VoicesInv

LEMMA AnnounceKeeps ==
  ASSUME VoicesInv, NEW members, Announce(members)
  PROVE  /\ VoicesInv' /\ UNCHANGED fingers
         /\ IF ResetsZone(announced, members) THEN Hushed(Now, Now') ELSE SameVoices(Now, Now')
<1> PICK m : m = Announcement(SourceChannel, members)
  OBVIOUS
<1>1. Quiet(m) /\ "kind" \in DOMAIN m
  BY DEF Quiet, Announcement
<1>2. UNCHANGED fingers
  BY DEF Announce
<1>3. CASE ~ResetsZone(announced, members)
  <2>1. Process(alloc, Now, m)
    BY <1>3 DEF Announce, Now
  <2>2. RackOK(Now, Assigned)
    BY RackNow
  <2> QED BY <1>1, <1>2, <1>3, <2>1, <2>2, QuietStep, VoicesKept
<1>4. CASE ResetsZone(announced, members)
  <2> PICK ys : ys = [p \in PortIds |-> ControllersReset(synths[p])]
    OBVIOUS
  <2> PICK A : A = IF expanding THEN SoundsOf(FreshAllocator.noteChannel) ELSE Fingers
    OBVIOUS
  <2> PICK rack : rack = Rack(splitter, ys, Overtaken)
    OBVIOUS
  <2>1. Process(FreshAllocator, rack, m)
    BY <1>4 DEF Announce
  <2>2. rack.splitter = splitter /\ rack.synths = ys
    BY DEF Rack
  <2>3. \A p \in PortIds : "notes" \in DOMAIN ys[p] /\ ys[p].notes = {}
    BY DEF ControllersReset
  <2>4. RackOK(rack, A)
    BY <2>2, <2>3, StartedOver DEF RackOK, Voiced, VoicesInv
  <2>5. /\ alloc' = FreshAllocator /\ UNCHANGED <<expanding, dimension>>
        /\ SplitterOK(splitter') /\ Voiced(splitter', synths', A) /\ A \in Assignments
        /\ SameVoices(rack, Now')
    BY <1>1, <2>1, <2>4, QuietStep
  <2>6. Assigned' = A
    BY <1>2, <2>5 DEF Assigned, Fingers
  <2>7. expanding' => Ready(alloc') /\ Covers(Fingers', alloc'.noteChannel)
    BY <2>5, StartedOver
  <2>8. fingers' \in Seq((KeyChannels \X ZoneNotes)') /\ EachOnce(fingers)'
    BY <1>2, <2>5 DEF VoicesInv, KeyChannels, EachOnce
  <2>9. Hushed(Now, Now')
    <3> PICK next : next = Now'
      OBVIOUS
    <3>1. next.splitter.byAge = splitter.byAge /\ \A p \in PortIds : next.synths[p].notes = {}
      BY <2>2, <2>3, <2>5 DEF SameVoices
    <3>2. Now.splitter = splitter
      BY DEF Now, Rack
    <3> QED BY <3>1, <3>2 DEF Hushed
  <2>10. VoicesInv'
    BY <2>5, <2>6, <2>7, <2>8 DEF VoicesInv
  <2> QED BY <1>2, <1>4, <2>9, <2>10
<1> QED BY <1>3, <1>4

\* What is held and assigned after a step.
LEMMA VoicesNow ==
  ASSUME VoicesInv, NEW keys, keys = fingers', NEW a, a = alloc', UNCHANGED <<expanding, dimension>>,
         keys \in Seq(KeyChannels \X ZoneNotes), EachOnce(keys), NEW K, K = KeysOf(keys),
         expanding => Ready(a) /\ Covers(K, a.noteChannel),
         NEW A, A = (IF expanding THEN SoundsOf(a.noteChannel) ELSE K), A \in Assignments,
         SplitterOK(splitter'), Voiced(splitter', synths', A)
  PROVE  VoicesInv'
<1>1. Fingers' = K
  BY DEF Fingers, KeysOf
<1>2. Assigned' = A
  BY <1>1 DEF Assigned
<1>3. fingers' \in Seq((KeyChannels \X ZoneNotes)')
  BY DEF KeyChannels
<1>4. EachOnce(fingers)'
  BY DEF EachOnce
<1>5. expanding' => Ready(alloc') /\ Covers(Fingers', alloc'.noteChannel)
  BY <1>1
<1>6. Assigned' \in Assignments /\ Voiced(splitter', synths', Assigned')
  BY <1>2
<1>7. expanding' \in BOOLEAN /\ dimension' \in Dimensions
  BY DEF VoicesInv
<1> QED BY <1>3, <1>4, <1>5, <1>6, <1>7 DEF VoicesInv

\* The keys are among finitely many, each a channel and a note.
LEMMA FingersAreKeys ==
  ASSUME VoicesInv
  PROVE  /\ Fingers \subseteq KeyChannels \X ZoneNotes
         /\ expanding => IsFiniteSet(Fingers)
<1>1. Fingers \subseteq KeyChannels \X ZoneNotes
  BY DEF VoicesInv, Fingers
<1>2. ASSUME expanding PROVE IsFiniteSet(Fingers)
  <2>1. KeyChannels = {SourceChannel}
    BY <1>2 DEF KeyChannels
  <2>2. IsFiniteSet({SourceChannel} \X ZoneNotes)
    BY ExpandAssumption, FS_Singleton, FS_Product
  <2> QED BY <1>1, <2>1, <2>2, FS_Subset
<1> QED BY <1>1, <1>2

LEMMA KeysPressed ==
  ASSUME VoicesInv, NEW key \in KeyChannels \X ZoneNotes, \A k \in Fingers : k[2] # key[2],
         NEW keys, keys = Append(fingers, key)
  PROVE  keys \in Seq(KeyChannels \X ZoneNotes) /\ EachOnce(keys) /\ KeysOf(keys) = Fingers \union {key}
<1> PICK S, s : S = KeyChannels \X ZoneNotes /\ s = fingers
  OBVIOUS
<1>1. s \in Seq(S) /\ (\A i, j \in DOMAIN s : s[i][2] = s[j][2] => i = j) /\ \A i \in DOMAIN s : s[i][2] # key[2]
  BY DEF VoicesInv, EachOnce, Fingers
<1>2. keys \in Seq(S) /\ DOMAIN s = 1..Len(s) /\ DOMAIN keys = 1..(Len(s) + 1) /\ Len(s) \in Nat
  BY <1>1
<1>3. keys[Len(s) + 1] = key /\ \A i \in 1..Len(s) : keys[i] = s[i]
  BY <1>1
<1>4. \A i, j \in DOMAIN keys : keys[i][2] = keys[j][2] => i = j
  BY <1>1, <1>2, <1>3
<1>5. {keys[i] : i \in DOMAIN keys} = {s[i] : i \in DOMAIN s} \union {key}
  BY <1>2, <1>3
<1> QED BY <1>2, <1>4, <1>5 DEF EachOnce, KeysOf, Fingers

LEMMA KeysLifted ==
  ASSUME VoicesInv, NEW h \in DOMAIN fingers, NEW keys, keys = RemoveAt(fingers, h)
  PROVE  keys \in Seq(KeyChannels \X ZoneNotes) /\ EachOnce(keys) /\ KeysOf(keys) = Fingers \ {fingers[h]}
<1> PICK S, s : S = KeyChannels \X ZoneNotes /\ s = fingers
  OBVIOUS
<1>1. s \in Seq(S) /\ h \in DOMAIN s /\ EachOnce(s) /\ keys = RemoveAt(s, h) /\ Fingers = KeysOf(s)
  BY DEF VoicesInv, Fingers, KeysOf
<1>2. keys \in Seq(S) /\ EachOnce(keys) /\ KeysOf(keys) = KeysOf(s) \ {s[h]}
  BY <1>1, KeyRemoved
<1> QED BY <1>1, <1>2

LEMMA PressVoices ==
  ASSUME VoicesInv, NEW c \in KeyChannels, NEW n \in ZoneNotes, Press(c, n)
  PROVE  /\ VoicesInv' /\ fingers' = Append(fingers, <<c, n>>) /\ \A k \in Fingers : k[2] # n
         /\ \E p \in PortIds : VoiceStarted(Now, Now', p, n)
<1> PICK key, keys, rack, m : key = <<c, n>> /\ keys = fingers' /\ rack = Now /\ m = On(c, n)
  OBVIOUS
<1>1. Room(c) /\ (\A k \in Fingers : k[2] # n) /\ Process(alloc, rack, m)
  BY DEF Press, Receive, Now
<1> PICK K : K = KeysOf(keys)
  OBVIOUS
<1>2. keys \in Seq(KeyChannels \X ZoneNotes) /\ EachOnce(keys) /\ K = Fingers \union {key}
  <2>1. keys = Append(fingers, key)
    BY DEF Press
  <2>2. key \in KeyChannels \X ZoneNotes /\ key[2] = n
    OBVIOUS
  <2> QED BY <1>1, <2>1, <2>2, KeysPressed
<1>3. RackOK(rack, Assigned)
  BY RackNow
<1>4. ASSUME ~expanding
      PROVE  VoicesInv' /\ \E p \in PortIds : VoiceStarted(rack, Now', p, n)
  <2>1. c \in MemberChannels /\ Assigned = Fingers
    BY <1>4 DEF KeyChannels, Assigned
  <2>2. \A k \in Assigned : k[1] # c /\ k[2] # n
    BY <1>1, <1>4, <2>1 DEF Room
  <2>3. RackOK(Played(rack, m), K) /\ \E p \in PortIds : VoiceStarted(rack, Played(rack, m), p, n)
    BY <1>2, <1>3, <2>1, <2>2, OnKeeps
  <2> PICK through : through = IF expanding THEN Expand(alloc, m) ELSE Expanded(alloc, <<m>>)
    OBVIOUS
  <2> PICK next : next = FoldLeft(Played, rack, through.msgs)
    OBVIOUS
  <2>4. RackOK(next, K) /\ \E p \in PortIds : VoiceStarted(rack, next, p, n)
    <3>1. FoldLeft(Played, rack, <<m>>) = Played(rack, m)
      BY RoutedOne
    <3>2. through.msgs = <<m>>
      BY <1>4 DEF Expanded
    <3> QED BY <2>3, <3>1, <3>2, Zenon
  <2>5. /\ UNCHANGED <<expanding, dimension>> /\ SplitterOK(splitter')
        /\ Voiced(splitter', synths', K) /\ K \in Assignments /\ SameVoices(next, Now')
    BY <1>1, <2>4, ProcessStep
  <2>6. VoicesInv'
    BY <1>2, <1>4, <2>5, VoicesNow
  <2>7. \E p \in PortIds : VoiceStarted(rack, Now', p, n)
    BY <2>4, <2>5, ThenSame
  <2> QED BY <2>6, <2>7
<1>5. ASSUME expanding
      PROVE  VoicesInv' /\ \E p \in PortIds : VoiceStarted(rack, Now', p, n)
  <2> PICK a : a = alloc
    OBVIOUS
  <2>1. c = SourceChannel /\ Assigned = SoundsOf(a.noteChannel) /\ Ready(a) /\ Covers(Fingers, a.noteChannel)
    BY <1>5 DEF KeyChannels, Assigned, VoicesInv
  <2>2. a.noteChannel[n] = NoChannel
    <3>1. <<SourceChannel, n>>[2] = n
      OBVIOUS
    <3> QED BY <1>1, <2>1, <3>1 DEF Covers
  <2>3. IsFiniteSet(Fingers) /\ Cardinality(Fingers) < Members
    BY <1>1, <1>5, FingersAreKeys DEF Room
  <2> PICK through : through = ExpandNoteOn(a, n)
    OBVIOUS
  <2>4. Expand(a, m) = through
    BY DEF Expand, On
  <2>5. Ready(through.alloc) /\ \E d \in MemberChannels : Started(a, through, d, n)
    BY <2>1, <2>2, <2>3, ReadyPress
  <2> PICK d \in MemberChannels : Started(a, through, d, n)
    BY <2>5
  <2> PICK A : A = SoundsOf(through.alloc.noteChannel)
    OBVIOUS
  <2> PICK next : next = FoldLeft(Played, rack, through.msgs)
    OBVIOUS
  <2>6. RackOK(next, A) /\ \E p \in PortIds : VoiceStarted(rack, next, p, n)
    <3>1. \A k \in Assigned : k[1] # d /\ k[2] # n
      BY <2>1 DEF Started
    <3>2. A = Assigned \union {<<d, n>>}
      BY <2>1 DEF Started
    <3>3. through.msgs = <<Zero(d), On(d, n)>> \/ through.msgs = <<Config, Zero(d), On(d, n)>>
      BY DEF Started
    <3>4. /\ RackOK(next, Assigned \union {<<d, n>>})
          /\ \E p \in PortIds : VoiceStarted(rack, next, p, n)
      BY <1>3, <3>1, <3>3, RoutedOn
    <3> QED BY <3>2, <3>4
  <2>7. /\ alloc' = through.alloc /\ UNCHANGED <<expanding, dimension>> /\ SplitterOK(splitter')
        /\ Voiced(splitter', synths', A) /\ A \in Assignments /\ SameVoices(next, Now')
    <3>1. through = IF expanding THEN Expand(a, m) ELSE Expanded(a, <<m>>)
      BY <1>5, <2>4
    <3> QED BY <1>1, <2>6, <3>1, ProcessStep
  <2>8. Covers(K, through.alloc.noteChannel)
    <3> SUFFICES ASSUME NEW k \in ZoneNotes, through.alloc.noteChannel[k] # NoChannel
                 PROVE  <<SourceChannel, k>> \in K
      BY DEF Covers
    <3>1. CASE k = n
      BY <1>2, <2>1, <3>1
    <3>2. CASE k # n
      <4>1. a.noteChannel \in [ZoneNotes -> OrNone] /\ through.alloc.noteChannel = [a.noteChannel EXCEPT ![n] = d]
        BY <2>1 DEF Ready, Keeps, Started
      <4>2. a.noteChannel[k] # NoChannel
        BY <3>2, <4>1
      <4> QED BY <1>2, <2>1, <4>2 DEF Covers
    <3> QED BY <3>1, <3>2
  <2> PICK b : b = through.alloc
    OBVIOUS
  <2>9. b = alloc' /\ Ready(b) /\ Covers(K, b.noteChannel) /\ A = SoundsOf(b.noteChannel)
    BY <2>5, <2>7, <2>8
  <2>10. VoicesInv'
    BY <1>2, <1>5, <2>7, <2>9, VoicesNow
  <2>11. \E p \in PortIds : VoiceStarted(rack, Now', p, n)
    BY <2>6, <2>7, ThenSame
  <2> QED BY <2>10, <2>11
<1>6. VoicesInv' /\ \E p \in PortIds : VoiceStarted(rack, Now', p, n)
  BY <1>4, <1>5 DEF VoicesInv
<1>7. fingers' = Append(fingers, <<c, n>>)
  BY DEF Press
<1> QED BY <1>1, <1>6, <1>7

LEMMA LiftVoices ==
  ASSUME VoicesInv, NEW i \in DOMAIN fingers, Lift(i)
  PROVE  /\ VoicesInv' /\ fingers' = RemoveAt(fingers, i) /\ Fingers' = Fingers \ {fingers[i]}
         /\ SameVoices(Now, Now') \/ VoiceEnded(Now, Now', fingers[i][2])
<1>0. \A r, x : FoldLeft(Played, r, <<x>>) = Played(r, x)
  BY RoutedOne
<1> PICK key, keys, rack : key = fingers[i] /\ keys = fingers' /\ rack = Now
  OBVIOUS
<1> PICK c, n, m : c = key[1] /\ n = key[2] /\ m = Off(c, n)
  OBVIOUS
<1>1. key \in Fingers /\ c \in KeyChannels /\ n \in ZoneNotes /\ key = <<c, n>>
  <2>1. key \in KeyChannels \X ZoneNotes
    BY DEF VoicesInv
  <2> QED BY <2>1 DEF Fingers
<1>2. Process(alloc, rack, m)
  BY DEF Lift, Receive, Now
<1> PICK K : K = KeysOf(keys)
  OBVIOUS
<1>3. keys \in Seq(KeyChannels \X ZoneNotes) /\ EachOnce(keys) /\ K = Fingers \ {key}
  <2>1. keys = RemoveAt(fingers, i)
    BY DEF Lift
  <2> QED BY <2>1, KeysLifted
<1>4. RackOK(rack, Assigned)
  BY RackNow
<1>5. ASSUME ~expanding
      PROVE  VoicesInv' /\ (SameVoices(rack, Now') \/ VoiceEnded(rack, Now', n))
  <2>1. Assigned = Fingers
    BY <1>5 DEF Assigned
  <2>2. RackOK(Played(rack, m), K) /\ VoiceEnded(rack, Played(rack, m), n)
    <3>1. <<c, n>> \in Assigned /\ K = Assigned \ {<<c, n>>}
      BY <1>1, <1>3, <2>1
    <3> QED BY <1>4, <3>1, OffKeeps
  <2> PICK through : through = IF expanding THEN Expand(alloc, m) ELSE Expanded(alloc, <<m>>)
    OBVIOUS
  <2> PICK next : next = FoldLeft(Played, rack, through.msgs)
    OBVIOUS
  <2>3. RackOK(next, K) /\ VoiceEnded(rack, next, n)
    <3>1. FoldLeft(Played, rack, <<m>>) = Played(rack, m)
      BY <1>0, Zenon
    <3>2. through.msgs = <<m>>
      BY <1>5 DEF Expanded
    <3> QED BY <2>2, <3>1, <3>2, Zenon
  <2>4. /\ UNCHANGED <<expanding, dimension>> /\ SplitterOK(splitter')
        /\ Voiced(splitter', synths', K) /\ K \in Assignments /\ SameVoices(next, Now')
    BY <1>2, <2>3, ProcessStep
  <2>5. VoicesInv'
    BY <1>3, <1>5, <2>4, VoicesNow
  <2>6. VoiceEnded(rack, Now', n)
    <3> PICK later : later = Now'
      OBVIOUS
    <3>1. SameVoices(next, later)
      BY <2>4
    <3>2. VoiceEnded(rack, later, n)
      BY <2>3, <3>1, ThenSame
    <3> QED BY <3>2
  <2> QED BY <2>5, <2>6
<1>6. ASSUME expanding
      PROVE  VoicesInv' /\ (SameVoices(rack, Now') \/ VoiceEnded(rack, Now', n))
  <2> PICK a : a = alloc
    OBVIOUS
  <2>1. c = SourceChannel /\ Assigned = SoundsOf(a.noteChannel) /\ Ready(a) /\ Covers(Fingers, a.noteChannel)
    BY <1>1, <1>6 DEF KeyChannels, Assigned, VoicesInv
  <2> PICK through : through = ExpandNoteOff(a, n)
    OBVIOUS
  <2>2. Expand(a, m) = through
    BY DEF Expand, Off
  <2> PICK b : b = through.alloc
    OBVIOUS
  <2>3. /\ Ready(b) /\ b.noteChannel = [a.noteChannel EXCEPT ![n] = NoChannel]
        /\ \/ through.msgs = <<>> /\ SoundsOf(b.noteChannel) = SoundsOf(a.noteChannel)
           \/ \E d \in MemberChannels : Ended(a, through, d, n)
    BY <1>1, <2>1, ReadyLift
  <2> PICK A : A = SoundsOf(b.noteChannel)
    OBVIOUS
  <2> PICK next : next = FoldLeft(Played, rack, through.msgs)
    OBVIOUS
  <2>4. RackOK(next, A) /\ (SameVoices(rack, next) \/ VoiceEnded(rack, next, n))
    <3>1. CASE through.msgs = <<>> /\ A = Assigned
      <4>1. next = rack
        BY <3>1, RoutedOne
      <4>2. SameVoices(rack, rack)
        BY DEF SameVoices
      <4> QED BY <1>4, <3>1, <4>1, <4>2
    <3>2. ASSUME NEW d \in MemberChannels, Ended(a, through, d, n)
          PROVE  RackOK(next, A) /\ VoiceEnded(rack, next, n)
      <4>1. <<d, n>> \in Assigned /\ A = Assigned \ {<<d, n>>} /\ through.msgs = <<Zero(d), Off(d, n)>>
        BY <2>1, <3>2 DEF Ended
      <4>2. /\ RackOK(FoldLeft(Played, rack, <<Zero(d), Off(d, n)>>), Assigned \ {<<d, n>>})
            /\ VoiceEnded(rack, FoldLeft(Played, rack, <<Zero(d), Off(d, n)>>), n)
        BY <1>4, <4>1, RoutedOff
      <4> QED BY <4>1, <4>2
    <3> QED BY <2>1, <2>3, <3>1, <3>2
  <2>5. /\ alloc' = b /\ UNCHANGED <<expanding, dimension>> /\ SplitterOK(splitter')
        /\ Voiced(splitter', synths', A) /\ A \in Assignments /\ SameVoices(next, Now')
    <3>1. through = IF expanding THEN Expand(a, m) ELSE Expanded(a, <<m>>)
      BY <1>6, <2>2
    <3> QED BY <1>2, <2>4, <3>1, ProcessStep
  <2>6. Covers(K, b.noteChannel)
    <3> SUFFICES ASSUME NEW k \in ZoneNotes, b.noteChannel[k] # NoChannel
                 PROVE  <<SourceChannel, k>> \in K
      BY DEF Covers
    <3>1. a.noteChannel \in [ZoneNotes -> OrNone]
      BY <2>1 DEF Ready, Keeps
    <3>2. k # n /\ a.noteChannel[k] # NoChannel
      BY <2>3, <3>1
    <3>3. <<SourceChannel, k>> \in Fingers
      BY <2>1, <3>2 DEF Covers
    <3>4. <<SourceChannel, k>> # key
      BY <1>1, <3>2
    <3> QED BY <1>3, <3>3, <3>4
  <2>7. VoicesInv'
    BY <1>3, <1>6, <2>3, <2>5, <2>6, VoicesNow
  <2>8. SameVoices(rack, Now') \/ VoiceEnded(rack, Now', n)
    BY <2>4, <2>5, ThenSame
  <2> QED BY <2>7, <2>8
<1>7. VoicesInv' /\ (SameVoices(rack, Now') \/ VoiceEnded(rack, Now', n))
  BY <1>5, <1>6 DEF VoicesInv
<1>8. fingers' = RemoveAt(fingers, i) /\ Fingers' = K
  <2>1. Fingers' = KeysOf(keys)
    BY DEF Fingers, KeysOf
  <2> QED BY <2>1 DEF Lift
<1> QED BY <1>3, <1>7, <1>8

-----------------------------------------------------------------------------
(* The age of the voices.                                                  *)

\* p stands before q, in a row that has every port once.
Ahead(row, p, q) == \E i, j \in DOMAIN row : i < j /\ row[i] = p /\ row[j] = q

InRow(row) ==
  /\ row \in Seq(PortIds) \ {<<>>}
  /\ \A p \in PortIds : \E i \in DOMAIN row : row[i] = p
  /\ \A i, j \in DOMAIN row : row[i] = row[j] => i = j

\* The port on top is before the others.
LEMMA HeadFirst ==
  ASSUME NEW row, InRow(row), NEW q \in PortIds, q # Head(row)
  PROVE  Ahead(row, Head(row), q)
<1>1. row \in Seq(PortIds) /\ row # <<>>
  BY DEF InRow
<1>2. Len(row) \in Nat \ {0} /\ DOMAIN row = 1..Len(row) /\ Head(row) = row[1]
  BY <1>1
<1>3. PICK j \in DOMAIN row : row[j] = q
  BY DEF InRow
<1>4. 1 \in DOMAIN row /\ 1 < j
  BY <1>2, <1>3
<1> QED BY <1>2, <1>3, <1>4 DEF Ahead

\* Of a row a port moves to the end, and the others stay in order.
LEMMA MovedBack ==
  ASSUME NEW row, InRow(row), NEW p \in PortIds, NEW new, MovesBack(row, p, new)
  PROVE  /\ InRow(new)
         /\ \A a, b \in PortIds : Ahead(new, a, b) => a # p /\ (b = p \/ Ahead(row, a, b))
<1>1. /\ row \in Seq(PortIds) /\ row # <<>>
      /\ \A i, j \in DOMAIN row : row[i] = row[j] => i = j
  BY DEF InRow
<1> PICK n \in Nat : n = Len(row) /\ DOMAIN row = 1..n
  BY <1>1
<1>2. PICK k \in 1..n : row[k] = p /\ RemoveFirst(row, p) = RemoveAt(row, k)
  <2> DEFINE k == SelectInSeq(row, LAMBDA v : v = p)
             I == {i \in 1..Len(row) : row[i] = p}
  <2>1. \E i \in 1..Len(row) : row[i] = p
    BY DEF InRow
  <2>2. RemoveFirst(row, p) = RemoveAt(row, k)
    BY <2>1 DEF RemoveFirst
  <2>3. k = Min(I)
    BY <2>1 DEF SelectInSeq
  <2>4. I \in SUBSET Nat /\ I # {}
    BY <2>1
  <2> HIDE DEF k, I
  <2>5. \E x \in I : \A y \in I : x <= y
    BY <2>4, Playing!LeastNumber
  <2>6. Min(I) \in I
    BY <2>5 DEF Min
  <2> QED BY <2>2, <2>3, <2>6 DEF I
<1> PICK cut : cut = RemoveAt(row, k)
  OBVIOUS
<1>3. cut \in Seq(PortIds) /\ Len(cut) = n - 1 /\ \A i \in 1..n - 1 : cut[i] = IF i < k THEN row[i] ELSE row[i + 1]
  BY <1>1, CutOut
<1>4. new = Append(cut, p)
  BY <1>2 DEF MovesBack
<1>5. new \in Seq(PortIds) /\ DOMAIN new = 1..n /\ new[n] = p /\ \A i \in 1..n - 1 : new[i] = cut[i]
  <2>1. n # 0
    BY <1>1
  <2> QED BY <1>3, <1>4, <2>1
<1> DEFINE at(x) == IF x = n THEN k ELSE IF x < k THEN x ELSE x + 1
<1>6. \A i \in 1..n : at(i) \in 1..n /\ new[i] = row[at(i)]
  <2> TAKE i \in 1..n
  <2>1. CASE i = n
    BY <1>2, <1>5, <2>1
  <2>2. CASE i # n
    BY <1>3, <1>5, <2>2
  <2> QED BY <2>1, <2>2
<1>7. \A i, j \in 1..n : at(i) = at(j) => i = j
  OBVIOUS
<1>8. \A i, j \in 1..n : i < j => i # n /\ at(i) # k /\ (j = n \/ at(i) < at(j))
  OBVIOUS
<1>9. \A x \in 1..n : \E i \in 1..n : at(i) = x
  <2> TAKE x \in 1..n
  <2> DEFINE i == IF x = k THEN n ELSE IF x < k THEN x ELSE x - 1
  <2>1. i \in 1..n /\ at(i) = x
    OBVIOUS
  <2> QED BY <2>1
<1> HIDE DEF at
<1>10. InRow(new)
  <2>1. \A a \in PortIds : \E i \in DOMAIN new : new[i] = a
    <3> TAKE a \in PortIds
    <3> PICK x \in 1..n : row[x] = a
      BY DEF InRow
    <3> PICK i \in 1..n : at(i) = x
      BY <1>9
    <3>1. i \in DOMAIN new /\ new[i] = a
      BY <1>5, <1>6
    <3> QED BY <3>1
  <2>2. \A i, j \in DOMAIN new : new[i] = new[j] => i = j
    <3> SUFFICES ASSUME NEW i \in 1..n, NEW j \in 1..n, new[i] = new[j] PROVE i = j
      BY <1>5
    <3>1. at(i) \in DOMAIN row /\ at(j) \in DOMAIN row /\ row[at(i)] = row[at(j)]
      BY <1>6
    <3>2. at(i) = at(j)
      BY <1>1, <3>1
    <3> QED BY <1>7, <3>2
  <2>3. new # <<>>
    BY <1>5
  <2> QED BY <1>5, <2>1, <2>2, <2>3 DEF InRow
<1>11. ASSUME NEW a \in PortIds, NEW b \in PortIds, Ahead(new, a, b)
       PROVE  a # p /\ (b = p \/ Ahead(row, a, b))
  <2> PICK i \in 1..n, j \in 1..n : i < j /\ new[i] = a /\ new[j] = b
    BY <1>5, <1>11 DEF Ahead
  <2>1. at(i) \in 1..n /\ at(j) \in 1..n /\ row[at(i)] = a /\ row[at(j)] = b
    BY <1>6
  <2>2. at(i) # k /\ (j = n \/ at(i) < at(j))
    BY <1>8
  <2>3. a # p
    BY <1>1, <1>2, <2>1, <2>2
  <2>4. CASE j = n
    BY <1>5, <2>3, <2>4
  <2>5. CASE at(i) < at(j)
    <3>1. Ahead(row, a, b)
      BY <2>1, <2>5 DEF Ahead
    <3> QED BY <2>3, <3>1
  <2> QED BY <2>2, <2>4, <2>5
<1> QED BY <1>10, <1>11

\* One note's key went down before the other's.
KeyOrder(keys, n, m) == \A x, y \in DOMAIN keys : keys[x][2] = n /\ keys[y][2] = m => x < y

\* A port before another has the older note, and the other is free or sounds as well.
Aged(rack, keys) ==
  /\ InRow(rack.splitter.byAge)
  /\ \A p, q \in PortIds :
       (Ahead(rack.splitter.byAge, p, q) /\ rack.synths[p].notes # {}) =>
         /\ rack.splitter.portChannel[q] # NoChannel => rack.synths[q].notes # {}
         /\ \A n \in rack.synths[p].notes, m \in rack.synths[q].notes : KeyOrder(keys, n, m)

\* The keys that are left keep their order,
LEMMA OrderLifted ==
  ASSUME NEW S, NEW s \in Seq(S), NEW h \in DOMAIN s, NEW t, t = RemoveAt(s, h), NEW n, NEW m, KeyOrder(s, n, m)
  PROVE  KeyOrder(t, n, m)
<1>1. DOMAIN s = 1..Len(s) /\ Len(s) \in Nat /\ h \in 1..Len(s)
  OBVIOUS
<1>2. t \in Seq(S) /\ Len(t) = Len(s) - 1 /\ \A i \in 1..Len(s) - 1 : t[i] = IF i < h THEN s[i] ELSE s[i + 1]
  BY <1>1, CutOut
<1>3. DOMAIN t = 1..Len(s) - 1
  BY <1>2
<1> SUFFICES ASSUME NEW x \in DOMAIN t, NEW y \in DOMAIN t, t[x][2] = n, t[y][2] = m PROVE x < y
  BY DEF KeyOrder
<1> DEFINE at(i) == IF i < h THEN i ELSE i + 1
<1>4. at(x) \in DOMAIN s /\ at(y) \in DOMAIN s /\ (at(x) < at(y) => x < y)
  BY <1>1, <1>3
<1>5. t[x] = s[at(x)] /\ t[y] = s[at(y)]
  BY <1>2, <1>3
<1> HIDE DEF at
<1>6. at(x) < at(y)
  BY <1>4, <1>5 DEF KeyOrder
<1> QED BY <1>4, <1>6

\* and a new key is behind them.
LEMMA OrderPressed ==
  ASSUME NEW S, NEW s \in Seq(S), NEW key \in S, NEW t, t = Append(s, key), NEW n, n # key[2]
  PROVE  /\ \A m : m # key[2] /\ KeyOrder(s, n, m) => KeyOrder(t, n, m)
         /\ (\A i \in DOMAIN s : s[i][2] # key[2]) => KeyOrder(t, n, key[2])
<1>1. t \in Seq(S) /\ DOMAIN s = 1..Len(s) /\ DOMAIN t = 1..(Len(s) + 1) /\ Len(s) \in Nat
  OBVIOUS
<1>2. t[Len(s) + 1] = key /\ \A i \in 1..Len(s) : t[i] = s[i]
  OBVIOUS
<1>3. ASSUME NEW m, m # key[2], KeyOrder(s, n, m) PROVE KeyOrder(t, n, m)
  <2> SUFFICES ASSUME NEW x \in DOMAIN t, NEW y \in DOMAIN t, t[x][2] = n, t[y][2] = m PROVE x < y
    BY DEF KeyOrder
  <2>1. x \in DOMAIN s /\ y \in DOMAIN s /\ t[x] = s[x] /\ t[y] = s[y]
    BY <1>1, <1>2, <1>3
  <2> QED BY <1>3, <2>1 DEF KeyOrder
<1>4. ASSUME \A i \in DOMAIN s : s[i][2] # key[2] PROVE KeyOrder(t, n, key[2])
  <2> SUFFICES ASSUME NEW x \in DOMAIN t, NEW y \in DOMAIN t, t[x][2] = n, t[y][2] = key[2] PROVE x < y
    BY DEF KeyOrder
  <2>1. x \in 1..Len(s)
    BY <1>1, <1>2
  <2>2. y = Len(s) + 1
    <3> SUFFICES ASSUME y # Len(s) + 1 PROVE FALSE
      OBVIOUS
    <3>1. y \in DOMAIN s /\ t[y] = s[y]
      BY <1>1, <1>2
    <3> QED BY <1>4, <3>1
  <2> QED BY <1>1, <2>1, <2>2
<1> QED BY <1>3, <1>4

\* What sounds has its key.
LEMMA VoicesHaveKeys ==
  ASSUME VoicesInv, NEW p \in PortIds, NEW n \in synths[p].notes
  PROVE  \E k \in Fingers : k[2] = n
<1> PICK x : x = splitter.portChannel[p]
  OBVIOUS
<1>1. <<x, n>> \in Assigned
  BY DEF VoicesInv, Voiced
<1>2. CASE ~expanding
  <2>1. <<x, n>> \in Fingers /\ <<x, n>>[2] = n
    BY <1>1, <1>2 DEF Assigned
  <2> QED BY <2>1
<1>3. CASE expanding
  <2>1. <<x, n>> \in SoundsOf(alloc.noteChannel) /\ Covers(Fingers, alloc.noteChannel)
    BY <1>1, <1>3 DEF Assigned, VoicesInv
  <2>2. n \in ZoneNotes /\ alloc.noteChannel[n] # NoChannel
    BY <2>1 DEF SoundsOf
  <2>3. <<SourceChannel, n>> \in Fingers /\ <<SourceChannel, n>>[2] = n
    BY <2>1, <2>2 DEF Covers
  <2> QED BY <2>3
<1> QED BY <1>2, <1>3 DEF VoicesInv

LEMMA AgedSame ==
  ASSUME NEW rack, NEW next, NEW keys, Aged(rack, keys), SameVoices(rack, next)
  PROVE  Aged(next, keys)
BY DEF Aged, SameVoices

LEMMA AgedHushed ==
  ASSUME NEW rack, NEW next, NEW keys, Aged(rack, keys), Hushed(rack, next), NEW later
  PROVE  Aged(next, later)
BY DEF Aged, Hushed

LEMMA AgedEnded ==
  ASSUME NEW rack, NEW next, NEW S, NEW keys \in Seq(S), Aged(rack, keys), NEW n, VoiceEnded(rack, next, n),
         NEW h \in DOMAIN keys, NEW later, later = RemoveAt(keys, h)
  PROVE  Aged(next, later)
<1>1. next.splitter.byAge = rack.splitter.byAge /\ InRow(next.splitter.byAge)
  BY DEF Aged, VoiceEnded
<1> SUFFICES ASSUME NEW p \in PortIds, NEW q \in PortIds, Ahead(rack.splitter.byAge, p, q), next.synths[p].notes # {}
             PROVE  /\ next.splitter.portChannel[q] # NoChannel => next.synths[q].notes # {}
                    /\ \A j \in next.synths[p].notes, m \in next.synths[q].notes : KeyOrder(later, j, m)
  BY <1>1 DEF Aged
<1>2. next.synths[p].notes = rack.synths[p].notes
  BY DEF VoiceEnded
<1>3. /\ rack.splitter.portChannel[q] # NoChannel => rack.synths[q].notes # {}
      /\ \A j \in rack.synths[p].notes, m \in rack.synths[q].notes : KeyOrder(keys, j, m)
  BY <1>2 DEF Aged
<1>4. \/ /\ next.splitter.portChannel[q] = rack.splitter.portChannel[q]
         /\ next.synths[q].notes = rack.synths[q].notes
      \/ next.splitter.portChannel[q] = NoChannel /\ next.synths[q].notes = {}
  BY DEF VoiceEnded
<1>5. \A j, m : KeyOrder(keys, j, m) => KeyOrder(later, j, m)
  BY OrderLifted
<1> QED BY <1>2, <1>3, <1>4, <1>5

LEMMA AgedStarted ==
  ASSUME NEW rack, NEW next, NEW S, NEW keys \in Seq(S), Aged(rack, keys), NEW key \in S,
         \A i \in DOMAIN keys : keys[i][2] # key[2],
         \A p \in PortIds : \A n \in rack.synths[p].notes : n # key[2],
         NEW o \in PortIds, VoiceStarted(rack, next, o, key[2]), NEW later, later = Append(keys, key)
  PROVE  Aged(next, later)
<1> PICK row, new : row = rack.splitter.byAge /\ new = next.splitter.byAge
  OBVIOUS
<1>1. /\ InRow(new)
      /\ \A a, b \in PortIds : Ahead(new, a, b) => a # o /\ (b = o \/ Ahead(row, a, b))
  <2>1. MovesBack(row, o, new) /\ InRow(row)
    BY DEF VoiceStarted, Aged
  <2> QED BY <2>1, MovedBack
<1> SUFFICES ASSUME NEW p \in PortIds, NEW q \in PortIds, Ahead(new, p, q), next.synths[p].notes # {}
             PROVE  /\ next.splitter.portChannel[q] # NoChannel => next.synths[q].notes # {}
                    /\ \A j \in next.synths[p].notes, m \in next.synths[q].notes : KeyOrder(later, j, m)
  BY <1>1 DEF Aged
<1>2. p # o /\ (q = o \/ Ahead(row, p, q))
  BY <1>1
<1>3. next.synths[p].notes = rack.synths[p].notes
  BY <1>2 DEF VoiceStarted
<1>4. CASE q = o
  <2>1. next.synths[q].notes = {key[2]}
    BY <1>4 DEF VoiceStarted
  <2>2. \A j \in rack.synths[p].notes : KeyOrder(later, j, key[2])
    <3> TAKE j \in rack.synths[p].notes
    <3>1. j # key[2]
      OBVIOUS
    <3> QED BY <3>1, OrderPressed
  <2> QED BY <1>3, <2>1, <2>2
<1>5. CASE q # o
  <2>1. /\ next.splitter.portChannel[q] = rack.splitter.portChannel[q]
        /\ next.synths[q].notes = rack.synths[q].notes
    BY <1>5 DEF VoiceStarted
  <2>2. Ahead(row, p, q)
    BY <1>2, <1>5
  <2>3. /\ rack.splitter.portChannel[q] # NoChannel => rack.synths[q].notes # {}
        /\ \A j \in rack.synths[p].notes, m \in rack.synths[q].notes : KeyOrder(keys, j, m)
    BY <1>3, <2>2 DEF Aged
  <2>4. \A j \in rack.synths[p].notes, m \in rack.synths[q].notes : KeyOrder(later, j, m)
    <3> TAKE j \in rack.synths[p].notes, m \in rack.synths[q].notes
    <3>1. j # key[2] /\ m # key[2] /\ KeyOrder(keys, j, m)
      BY <2>3
    <3> QED BY <3>1, OrderPressed
  <2> QED BY <1>3, <2>1, <2>3, <2>4
<1> QED BY <1>4, <1>5

LEMMA FreshVoices == Init => VoicesInv
<1> SUFFICES ASSUME Init PROVE VoicesInv
  OBVIOUS
<1>1. /\ alloc = FreshAllocator /\ splitter = FreshSplitter /\ fingers = <<>>
      /\ expanding \in BOOLEAN /\ dimension \in Dimensions /\ synths = [p \in PortIds |-> SilentSynth]
  BY DEF Init
<1>2. fingers \in Seq(KeyChannels \X ZoneNotes) /\ EachOnce(fingers) /\ Fingers = {}
  BY <1>1 DEF EachOnce, Fingers
<1>3. Ready(alloc) /\ SoundsOf(alloc.noteChannel) = {}
  BY <1>1, FreshIsReady
<1>4. Covers(Fingers, alloc.noteChannel)
  BY <1>1 DEF Covers, FreshAllocator
<1>5. Assigned = {} /\ {} \in Assignments
  BY <1>2, <1>3 DEF Assigned, Assignments
<1>6. Voiced(splitter, synths, Assigned)
  BY <1>1 DEF Voiced, SilentSynth
<1>7. SplitterOK(FreshSplitter)
  <2>1. /\ DOMAIN FreshSplitter = {"channelPort", "portChannel", "portNote", "byAge", "roundRobin", "last", "expr"}
        /\ FreshSplitter.channelPort = [c \in MemberChannels |-> NoPort]
        /\ FreshSplitter.portChannel = [p \in PortIds |-> NoChannel]
        /\ FreshSplitter.portNote = [p \in PortIds |-> NoNote]
        /\ FreshSplitter.roundRobin = 0
        /\ FreshSplitter.byAge = [i \in 1..Ports |-> i - 1]
    BY DEF FreshSplitter
  <2>2. [i \in 1..Ports |-> i - 1] \in Seq(PortIds) \ {<<>>}
    <3>1. Ports \in Nat \ {0} /\ \A i \in 1..Ports : i - 1 \in PortIds
      BY SplitAssumption DEF PortIds
    <3>2. [i \in 1..Ports |-> i - 1] \in Seq(PortIds) /\ Len([i \in 1..Ports |-> i - 1]) = Ports
      BY <3>1
    <3> QED BY <3>1, <3>2
  <2>3. \A c \in MemberChannels, p \in PortIds :
          FreshSplitter.channelPort[c] = p <=> FreshSplitter.portChannel[p] = c
    BY <2>1, PortFacts, ChannelFacts
  <2>4. /\ FreshSplitter.channelPort \in [MemberChannels -> PortIds \union {NoPort}]
        /\ FreshSplitter.portChannel \in [PortIds -> OrNone]
        /\ FreshSplitter.portNote \in [PortIds -> ZoneNotes \union {NoNote}]
        /\ FreshSplitter.roundRobin \in Nat
    BY <2>1 DEF OrNone
  <2> QED BY <2>1, <2>2, <2>3, <2>4, SplitterFields
<1> QED BY <1>1, <1>2, <1>3, <1>4, <1>5, <1>6, <1>7 DEF VoicesInv

LEMMA FreshAged == Init => Aged(Now, fingers)
<1> SUFFICES ASSUME Init PROVE Aged(Now, fingers)
  OBVIOUS
<1>1. \A p \in PortIds : Now.synths[p].notes = {}
  BY DEF Init, Now, Rack, SilentSynth
<1>2. Now.splitter.byAge = [i \in 1..Ports |-> i - 1]
  BY DEF Init, Now, Rack, FreshSplitter
<1>3. InRow([i \in 1..Ports |-> i - 1])
  <2> PICK row : row = [i \in 1..Ports |-> i - 1]
    OBVIOUS
  <2>1. Ports \in Nat \ {0} /\ \A i \in 1..Ports : i - 1 \in PortIds
    BY SplitAssumption DEF PortIds
  <2>2. row \in Seq(PortIds) /\ Len(row) = Ports /\ DOMAIN row = 1..Ports /\ \A i \in 1..Ports : row[i] = i - 1
    BY <2>1
  <2>3. row # <<>>
    BY <2>1, <2>2
  <2>4. \A i, j \in DOMAIN row : row[i] = row[j] => i = j
    BY <2>1, <2>2
  <2>5. \A p \in PortIds : \E i \in DOMAIN row : row[i] = p
    <3> TAKE p \in PortIds
    <3>1. p + 1 \in 1..Ports /\ (p + 1) - 1 = p
      BY <2>1 DEF PortIds
    <3> QED BY <2>2, <3>1
  <2> QED BY <2>2, <2>3, <2>4, <2>5 DEF InRow
<1> QED BY <1>1, <1>2, <1>3 DEF Aged

AgedInv == VoicesInv /\ Aged(Now, fingers)

LEMMA PressAged ==
  ASSUME AgedInv, NEW c \in KeyChannels, NEW n \in ZoneNotes, Press(c, n)
  PROVE  Aged(Now', fingers')
<1> PICK S, key, keys, later, rack, next :
      S = KeyChannels \X ZoneNotes /\ key = <<c, n>> /\ keys = fingers /\ later = fingers' /\ rack = Now /\ next = Now'
  OBVIOUS
<1>1. later = Append(keys, key) /\ (\A k \in Fingers : k[2] # n) /\ \E p \in PortIds : VoiceStarted(rack, next, p, n)
  BY PressVoices DEF AgedInv
<1>2. keys \in Seq(S) /\ key \in S /\ key[2] = n /\ Aged(rack, keys)
  BY DEF AgedInv, VoicesInv
<1>3. \A i \in DOMAIN keys : keys[i][2] # key[2]
  BY <1>1, <1>2 DEF Fingers
<1>4. \A p \in PortIds : \A j \in rack.synths[p].notes : j # key[2]
  <2> TAKE p \in PortIds
  <2>1. rack.synths = synths
    BY DEF Now, Rack
  <2> QED BY <1>1, <1>2, <2>1, VoicesHaveKeys DEF AgedInv
<1> PICK o \in PortIds : VoiceStarted(rack, next, o, key[2])
  BY <1>1, <1>2
<1>5. Aged(next, later)
  BY <1>1, <1>2, <1>3, <1>4, AgedStarted, Zenon
<1> QED BY <1>5

LEMMA LiftAged ==
  ASSUME AgedInv, NEW i \in DOMAIN fingers, Lift(i)
  PROVE  Aged(Now', fingers')
<1> PICK S, keys, later, rack, next :
      S = KeyChannels \X ZoneNotes /\ keys = fingers /\ later = fingers' /\ rack = Now /\ next = Now'
  OBVIOUS
<1> PICK n : n = fingers[i][2]
  OBVIOUS
<1>1. later = RemoveAt(keys, i) /\ (SameVoices(rack, next) \/ VoiceEnded(rack, next, n))
  BY LiftVoices DEF AgedInv
<1>2. keys \in Seq(S) /\ Aged(rack, keys) /\ i \in DOMAIN keys
  BY DEF AgedInv, VoicesInv
<1>3. VoiceEnded(rack, next, n)
  <2>1. SameVoices(rack, next) => VoiceEnded(rack, next, n)
    BY DEF SameVoices, VoiceEnded
  <2> QED BY <1>1, <2>1
<1>4. Aged(next, later)
  BY <1>1, <1>2, <1>3, AgedEnded, Zenon
<1> QED BY <1>4

LEMMA SilenceAged ==
  ASSUME AgedInv, Silence, UNCHANGED fingers \/ fingers' = <<>>
  PROVE  Aged(Now', fingers')
<1>1. Hushed(Now, Now') /\ Aged(Now, fingers)
  BY SilenceKeeps DEF AgedInv
<1> QED BY <1>1, AgedHushed

LEMMA SameAged ==
  ASSUME AgedInv, SameVoices(Now, Now'), UNCHANGED fingers
  PROVE  Aged(Now', fingers')
<1>1. Aged(Now', fingers)
  BY AgedSame DEF AgedInv
<1> QED BY <1>1

LEMMA AnnounceAged ==
  ASSUME AgedInv, NEW members, Announce(members)
  PROVE  Aged(Now', fingers')
<1>1. UNCHANGED fingers /\ IF ResetsZone(announced, members) THEN Hushed(Now, Now') ELSE SameVoices(Now, Now')
  BY AnnounceKeeps DEF AgedInv
<1>2. Hushed(Now, Now') => Aged(Now', fingers')
  BY AgedHushed DEF AgedInv
<1> QED BY <1>1, <1>2, SameAged

LEMMA VoicesStep == VoicesInv /\ [Next]_voicesVars => VoicesInv'
<1> SUFFICES ASSUME VoicesInv, [Next]_voicesVars PROVE VoicesInv'
  OBVIOUS
<1>1. CASE Next
  <2>1. ASSUME NEW c \in KeyChannels, NEW n \in ZoneNotes, Press(c, n) PROVE VoicesInv'
    BY <2>1, PressVoices
  <2>2. ASSUME NEW i \in DOMAIN fingers, Lift(i) PROVE VoicesInv'
    BY <2>2, LiftVoices
  <2>3. ASSUME NEW c, NEW v, Express(c, v) PROVE VoicesInv'
    BY <2>3, ExpressKeeps
  <2>4. ASSUME NEW k, NEW v, PressHarder(k, v) PROVE VoicesInv'
    BY <2>4, PressHarderKeeps
  <2>5. CASE Panic
    BY <2>5, SilenceKeeps DEF Panic
  <2>6. CASE Disconnect
    BY <2>6, SilenceKeeps DEF Disconnect
  <2>7. ASSUME NEW members, Announce(members) PROVE VoicesInv'
    BY <2>7, AnnounceKeeps
  <2> QED BY <1>1, <2>1, <2>2, <2>3, <2>4, <2>5, <2>6, <2>7 DEF Next
<1>2. CASE UNCHANGED voicesVars
  <2>1. UNCHANGED <<expanding, dimension, alloc, fingers, splitter, synths>>
    BY <1>2 DEF voicesVars
  <2>2. SplitterOK(splitter') /\ Voiced(splitter', synths', Assigned) /\ Assigned \in Assignments
    BY <2>1 DEF VoicesInv
  <2> QED BY <2>1, <2>2, VoicesKept
<1> QED BY <1>1, <1>2

\* mpesplit, with mpexp in front of it or an MPE controller: no port of the rack
\* sounds a note whose key is up (README.md: the note's messages follow "it to the
\* same port until it is released"), whatever voices were robbed, and whatever
\* panics, disconnects and zone resets came between.
THEOREM ReleasesAreHeard == Spec => []EveryReleaseIsHeard
<1>1. VoicesInv => EveryReleaseIsHeard
  BY VoicesHaveKeys DEF EveryReleaseIsHeard
<1> QED BY <1>1, FreshVoices, VoicesStep, PTL DEF Spec

LEMMA AgedStep == AgedInv /\ [Next]_voicesVars => AgedInv'
<1> SUFFICES ASSUME AgedInv, [Next]_voicesVars PROVE Aged(Now', fingers')
  BY VoicesStep DEF AgedInv
<1>1. CASE Next
  <2>1. ASSUME NEW c \in KeyChannels, NEW n \in ZoneNotes, Press(c, n) PROVE Aged(Now', fingers')
    BY <2>1, PressAged
  <2>2. ASSUME NEW i \in DOMAIN fingers, Lift(i) PROVE Aged(Now', fingers')
    BY <2>2, LiftAged
  <2>3. ASSUME NEW c, NEW v, Express(c, v) PROVE Aged(Now', fingers')
    BY <2>3, ExpressKeeps, SameAged DEF AgedInv
  <2>4. ASSUME NEW k, NEW v, PressHarder(k, v) PROVE Aged(Now', fingers')
    BY <2>4, PressHarderKeeps, SameAged DEF AgedInv
  <2>5. CASE Panic
    BY <2>5, SilenceAged DEF Panic
  <2>6. CASE Disconnect
    BY <2>6, SilenceAged DEF Disconnect
  <2>7. ASSUME NEW members, Announce(members) PROVE Aged(Now', fingers')
    BY <2>7, AnnounceAged
  <2> QED BY <1>1, <2>1, <2>2, <2>3, <2>4, <2>5, <2>6, <2>7 DEF Next
<1>2. CASE UNCHANGED voicesVars
  <2>1. SameVoices(Now, Now') /\ UNCHANGED fingers
    BY <1>2 DEF voicesVars, SameVoices, Now, Rack
  <2> QED BY <2>1, SameAged
<1> QED BY <1>1, <1>2

\* The note i was cut off, and j sounded before.
Robbed(i, j) ==
  (fingers[i] \in Fingers' /\ fingers[i][2] \in Sounding \ Sounding') =>
    /\ \A p \in PortIds : synths[p].notes # {}
    /\ fingers[j][2] \in Sounding => i <= j

LEMMA NobodyRobbed ==
  ASSUME SameVoices(Now, Now')
  PROVE  \A i, j : Robbed(i, j)
<1>1. \A p \in PortIds : synths'[p].notes = synths[p].notes
  BY DEF SameVoices, Now, Rack
<1>2. Sounding' = Sounding
  BY <1>1 DEF Sounding
<1> QED BY <1>2 DEF Robbed

LEMMA LiftRobs ==
  ASSUME AgedInv, NEW h \in DOMAIN fingers, Lift(h), NEW i \in DOMAIN fingers, NEW j \in DOMAIN fingers
  PROVE  Robbed(i, j)
<1>1. SameVoices(Now, Now') \/ VoiceEnded(Now, Now', fingers[h][2])
  BY LiftVoices DEF AgedInv
<1>2. Fingers' = Fingers \ {fingers[h]}
  BY LiftVoices DEF AgedInv
<1> PICK n : n = fingers[h][2]
  OBVIOUS
<1>3. CASE VoiceEnded(Now, Now', n)
  <2>1. \A p \in PortIds : synths'[p].notes = synths[p].notes \/ synths[p].notes \subseteq {n}
    BY <1>3 DEF VoiceEnded, Now, Rack
  <2>2. \A m \in Sounding : m \in Sounding' \/ m = n
    BY <2>1 DEF Sounding
  <2>3. fingers[i][2] = n => fingers[i] \notin Fingers'
    BY <1>2 DEF AgedInv, VoicesInv, EachOnce
  <2> QED BY <2>2, <2>3 DEF Robbed
<1> QED BY <1>1, <1>3, NobodyRobbed

LEMMA PressRobs ==
  ASSUME AgedInv, NEW c \in KeyChannels, NEW n \in ZoneNotes, Press(c, n),
         NEW i \in DOMAIN fingers, NEW j \in DOMAIN fingers
  PROVE  Robbed(i, j)
<1> SUFFICES ASSUME fingers[i][2] \in Sounding \ Sounding'
             PROVE  /\ \A p \in PortIds : synths[p].notes # {}
                    /\ fingers[j][2] \in Sounding => i <= j
  BY DEF Robbed
<1> PICK rack, next : rack = Now /\ next = Now'
  OBVIOUS
<1>1. /\ rack.splitter = splitter /\ rack.synths = synths /\ next.synths = synths'
      /\ Aged(rack, fingers) /\ VoicesInv
  BY DEF AgedInv, Now, Rack
<1> PICK o \in PortIds : VoiceStarted(rack, next, o, n)
  BY PressVoices DEF AgedInv
<1>2. /\ \A q \in PortIds : q # o => synths'[q].notes = synths[q].notes
      /\ synths[o].notes # {} => Full(splitter) /\ o = OldestPort(splitter)
  BY <1>1 DEF VoiceStarted
<1>3. fingers[i][2] \in synths[o].notes
  <2> PICK r \in PortIds : fingers[i][2] \in synths[r].notes
    BY DEF Sounding
  <2>1. fingers[i][2] \notin synths'[r].notes
    BY DEF Sounding
  <2> QED BY <1>2, <2>1
<1>4. Full(splitter) /\ o = Head(splitter.byAge)
  BY <1>2, <1>3 DEF OldestPort
<1>5. \A q \in PortIds : q # o => Ahead(splitter.byAge, o, q)
  BY <1>1, <1>4, HeadFirst DEF Aged
<1>6. \A q \in PortIds : q # o =>
        synths[q].notes # {} /\ \A m \in synths[q].notes : KeyOrder(fingers, fingers[i][2], m)
  BY <1>1, <1>3, <1>4, <1>5 DEF Aged, Full
<1>7. ASSUME fingers[j][2] \in Sounding PROVE i <= j
  <2>1. i \in Nat /\ j \in Nat
    BY DEF AgedInv, VoicesInv
  <2> PICK q \in PortIds : fingers[j][2] \in synths[q].notes
    BY <1>7 DEF Sounding
  <2>2. CASE q = o
    <3>1. fingers[j][2] = fingers[i][2]
      <4>1. \A m \in synths[o].notes : splitter.portNote[o] = m
        BY <1>1 DEF VoicesInv, Voiced
      <4> QED BY <1>3, <2>2, <4>1
    <3>2. i = j
      BY <1>1, <3>1 DEF VoicesInv, EachOnce
    <3> QED BY <2>1, <3>2
  <2>3. CASE q # o
    <3>1. KeyOrder(fingers, fingers[i][2], fingers[j][2])
      BY <1>6, <2>3
    <3>2. i < j
      BY <3>1 DEF KeyOrder
    <3> QED BY <2>1, <3>2
  <2> QED BY <2>2, <2>3
<1> QED BY <1>3, <1>6, <1>7

\* mpesplit again: it never cuts off a note whose key stays down but to make room
\* for another, when every port sounds, and then it is the oldest (README.md of
\* mpesplit: "the oldest note is released to make room"), also on a route whose
\* splitter a panic or a zone reset has left in the belief that silent ports are
\* busy. By the order in which the splitter keeps its ports: a port that stands
\* before another has the older note, and no silent port that is taken stands
\* behind a sounding one.
THEOREM OldestVoiceIsRobbed == Spec => OldestMakesRoom
<1>1. AgedInv /\ [Next]_voicesVars =>
        [\A i, j \in DOMAIN fingers : ~Silence /\ ~ResetsZone(announced, announced') => Robbed(i, j)]_voicesVars
  <2> SUFFICES ASSUME AgedInv, Next, NEW i \in DOMAIN fingers, NEW j \in DOMAIN fingers,
                      ~Silence, ~ResetsZone(announced, announced')
               PROVE  Robbed(i, j)
    OBVIOUS
  <2>1. ASSUME NEW c \in KeyChannels, NEW n \in ZoneNotes, Press(c, n) PROVE Robbed(i, j)
    BY <2>1, PressRobs
  <2>2. ASSUME NEW h \in DOMAIN fingers, Lift(h) PROVE Robbed(i, j)
    BY <2>2, LiftRobs
  <2>3. ASSUME NEW c, NEW v, Express(c, v) PROVE Robbed(i, j)
    BY <2>3, ExpressKeeps, NobodyRobbed DEF AgedInv
  <2>4. ASSUME NEW k, NEW v, PressHarder(k, v) PROVE Robbed(i, j)
    BY <2>4, PressHarderKeeps, NobodyRobbed DEF AgedInv
  <2>5. ~Panic /\ ~Disconnect
    BY DEF Panic, Disconnect
  <2>6. ASSUME NEW members, Announce(members) PROVE Robbed(i, j)
    <3>1. announced' = members
      BY <2>6 DEF Announce
    <3>2. SameVoices(Now, Now')
      BY <2>6, <3>1, AnnounceKeeps DEF AgedInv
    <3> QED BY <3>2, NobodyRobbed
  <2> QED BY <2>1, <2>2, <2>3, <2>4, <2>5, <2>6 DEF Next
<1>2. Init => AgedInv
  BY FreshVoices, FreshAged DEF AgedInv
<1>3. AgedInv /\ [Next]_voicesVars =>
        [\A i, j \in DOMAIN fingers :
           (~Silence /\ ~ResetsZone(announced, announced') /\ fingers[i] \in Fingers' /\ fingers[i][2] \in Sounding \ Sounding') =>
             /\ \A p \in PortIds : synths[p].notes # {}
             /\ fingers[j][2] \in Sounding => i <= j]_voicesVars
  BY <1>1 DEF Robbed
<1> QED BY <1>2, <1>3, AgedStep, PTL DEF Spec, OldestMakesRoom

-----------------------------------------------------------------------------
(* The expression that synths are sent.                                    *)

\* Messages that say one thing of a dimension, if anything.
Mentions(msgs, d) == \E i \in DOMAIN msgs : msgs[i].kind = d

Says(msgs, d, v) == \E M : msgs \in Seq(M) /\ \A m \in M : m.kind = d => m.value = v

\* A part that says nothing changes nothing, and one message says what it says.
LEMMA SayFacts ==
  ASSUME NEW d, NEW v
  PROVE  /\ \A s, t : Says(s, d, v) /\ Says(t, d, v) => Says(s \o t, d, v) /\ (Mentions(s \o t, d) <=> Mentions(s, d) \/ Mentions(t, d))
         /\ Says(<<>>, d, v) /\ ~Mentions(<<>>, d)
         /\ \A m : (m.kind = d => m.value = v) => Says(<<m>>, d, v) /\ (Mentions(<<m>>, d) <=> m.kind = d)
<1>1. ASSUME NEW s, NEW t, Says(s, d, v), Says(t, d, v)
      PROVE  Says(s \o t, d, v) /\ (Mentions(s \o t, d) <=> Mentions(s, d) \/ Mentions(t, d))
  <2> PICK M : s \in Seq(M) /\ \A m \in M : m.kind = d => m.value = v
    BY <1>1 DEF Says
  <2> PICK N : t \in Seq(N) /\ \A m \in N : m.kind = d => m.value = v
    BY <1>1 DEF Says
  <2> PICK U : U = M \union N
    OBVIOUS
  <2>1. /\ s \in Seq(U) /\ t \in Seq(U)
        /\ \A m \in U : m.kind = d => m.value = v
    OBVIOUS
  <2> PICK u : u = s \o t
    OBVIOUS
  <2>2. u \in Seq(U)
    BY <2>1
  <2>3. /\ Len(u) = Len(s) + Len(t)
        /\ \A i \in 1..(Len(s) + Len(t)) : u[i] = IF i <= Len(s) THEN s[i] ELSE t[i - Len(s)]
    BY <2>1, ConcatFacts
  <2>4. /\ Len(s) \in Nat /\ Len(t) \in Nat
        /\ DOMAIN s = 1..Len(s) /\ DOMAIN t = 1..Len(t) /\ DOMAIN u = 1..Len(u)
    BY <2>1, <2>2
  <2>5. \A i \in DOMAIN u : (i \in DOMAIN s /\ u[i] = s[i]) \/ (i - Len(s) \in DOMAIN t /\ u[i] = t[i - Len(s)])
    BY <2>3, <2>4
  <2>6. \A i \in DOMAIN s : i \in DOMAIN u /\ u[i] = s[i]
    BY <2>3, <2>4
  <2>7. \A i \in DOMAIN t : i + Len(s) \in DOMAIN u /\ u[i + Len(s)] = t[i]
    BY <2>3, <2>4
  <2>8. Mentions(u, d) <=> Mentions(s, d) \/ Mentions(t, d)
    BY <2>5, <2>6, <2>7 DEF Mentions
  <2>9. Says(u, d, v)
    BY <2>1, <2>2 DEF Says
  <2> QED BY <2>8, <2>9
<1>2. Says(<<>>, d, v) /\ ~Mentions(<<>>, d)
  <2> PICK M : M = {}
    OBVIOUS
  <2>1. <<>> \in Seq(M) /\ \A m \in M : m.kind = d => m.value = v
    OBVIOUS
  <2> QED BY <2>1 DEF Says, Mentions
<1>3. ASSUME NEW m, m.kind = d => m.value = v PROVE Says(<<m>>, d, v) /\ (Mentions(<<m>>, d) <=> m.kind = d)
  <2> PICK M : M = {m}
    OBVIOUS
  <2> PICK s : s = <<m>>
    OBVIOUS
  <2>1. s \in Seq(M) /\ \A x \in M : x.kind = d => x.value = v
    BY <1>3
  <2>2. DOMAIN s = {1} /\ s[1] = m
    OBVIOUS
  <2> QED BY <2>1, <2>2 DEF Says, Mentions
<1> QED BY <1>1, <1>2, <1>3

\* A synth has the dimension.
Hears(y, d) == "expr" \in DOMAIN y /\ d \in DOMAIN y.expr

\* What a synth makes of that.
LEMMA WhatIsSaidIsHeard ==
  ASSUME NEW d \in {"bend", "cc74", "pressure"}, NEW y, Hears(y, d), NEW v, NEW msgs, Says(msgs, d, v)
  PROVE  /\ Hears(Playing!Folded(y, msgs), d)
         /\ Playing!Folded(y, msgs).expr[d] = IF Mentions(msgs, d) THEN v ELSE y.expr[d]
<1> PICK M : msgs \in Seq(M) /\ \A m \in M : m.kind = d => m.value = v
  BY DEF Says
<1>1. PICK n \in Nat : DOMAIN msgs = 1..n /\ \A i \in 1..n : msgs[i] \in M
  OBVIOUS
<1>2. PICK r : Playing!IsRun(r, n, y, msgs) /\ Playing!Folded(y, msgs) = r[n]
  BY <1>1, Playing!FoldIsRun
<1>3. r[0] = y /\ \A i \in 1..n : r[i] = Play(r[i - 1], msgs[i])
  BY <1>2, Playing!RunStep
<1> DEFINE A == {i \in 0..n : Hears(r[i], d) /\ r[i].expr[d] = IF \E j \in 1..i : msgs[j].kind = d THEN v ELSE y.expr[d]}
<1>4. 0 \in A
  BY <1>3
<1>5. \A i \in 1..n : i - 1 \in A => i \in A
  <2> SUFFICES ASSUME NEW i \in 1..n, i - 1 \in A PROVE i \in A
    OBVIOUS
  <2> PICK x, z, m : x = r[i - 1] /\ z = r[i] /\ m = msgs[i]
    OBVIOUS
  <2>1. z = Play(x, m) /\ i \in 0..n /\ (m.kind = d => m.value = v)
    BY <1>1, <1>3
  <2>2. Hears(x, d) /\ x.expr[d] = IF \E j \in 1..i - 1 : msgs[j].kind = d THEN v ELSE y.expr[d]
    OBVIOUS
  <2>3. Hears(z, d) /\ z.expr[d] = IF m.kind = d THEN v ELSE x.expr[d]
    <3>1. CASE m.kind = "on"
      <4>1. z = [x EXCEPT !.notes = @ \union {m.note}]
        BY <2>1, <3>1 DEF Play
      <4>2. DOMAIN z = DOMAIN x /\ z.expr = x.expr
        BY <2>2, <4>1 DEF Hears
      <4> QED BY <2>2, <3>1, <4>2 DEF Hears
    <3>2. CASE m.kind = "off"
      <4>1. z = [x EXCEPT !.notes = @ \ {m.note}]
        BY <2>1, <3>2 DEF Play
      <4>2. DOMAIN z = DOMAIN x /\ z.expr = x.expr
        BY <2>2, <4>1 DEF Hears
      <4> QED BY <2>2, <3>2, <4>2 DEF Hears
    <3>3. CASE m.kind # "on" /\ m.kind # "off"
      <4> PICK e : e = m.kind
        OBVIOUS
      <4>1. z = [x EXCEPT !.expr[e] = m.value]
        BY <2>1, <3>3 DEF Play
      <4>2. DOMAIN z = DOMAIN x /\ z.expr = [x.expr EXCEPT ![e] = m.value]
        BY <2>2, <4>1 DEF Hears
      <4>3. DOMAIN z.expr = DOMAIN x.expr /\ z.expr[d] = IF e = d THEN m.value ELSE x.expr[d]
        BY <2>2, <4>2 DEF Hears
      <4> QED BY <2>1, <2>2, <4>2, <4>3 DEF Hears
    <3> QED BY <3>1, <3>2, <3>3
  <2>4. (\E j \in 1..i : msgs[j].kind = d) <=> (m.kind = d \/ \E j \in 1..i - 1 : msgs[j].kind = d)
    <3>1. \A j : j \in 1..i <=> j = i \/ j \in 1..i - 1
      OBVIOUS
    <3> QED BY <3>1
  <2> QED BY <2>1, <2>2, <2>3, <2>4
<1>6. n \in A
  <2>1. n \in 0..n
    OBVIOUS
  <2> HIDE DEF A
  <2> QED BY <1>4, <1>5, <2>1, Playing!UpTo
<1>7. (\E j \in 1..n : msgs[j].kind = d) <=> Mentions(msgs, d)
  BY <1>1 DEF Mentions
<1> QED BY <1>2, <1>6, <1>7

\* The splitter has a value for every channel,
Cached(s) == DOMAIN s.expr = Dimensions /\ \A d \in Dimensions : DOMAIN s.expr[d] = ZoneChannels

\* every voice was told last what it is to have,
UpToDate(s, d) == d # "pressure" => \A p \in PortIds : Sounds(s, p) => s.last[d][p] = Combined(s, d, p)

\* and a message tells it to those that are concerned.
Tells(s, r, d) ==
  /\ Cached(r.splitter) /\ UpToDate(r.splitter, d)
  /\ \A p \in PortIds :
       /\ Says(r.sent[p], d, Combined(r.splitter, d, p))
       /\ d # "pressure" =>
            r.splitter.last[d][p] = IF Mentions(r.sent[p], d) THEN Combined(r.splitter, d, p) ELSE s.last[d][p]
       /\ d = "pressure" =>
            \/ Mentions(r.sent[p], d) \/ ~Sounds(r.splitter, p) \/ Combined(r.splitter, d, p) = 0
            \/ AllQuiet(r.sent[p]) /\ Combined(r.splitter, d, p) = Combined(s, d, p)

LEMMA SameCombined ==
  ASSUME NEW s, NEW t, NEW d, NEW p, s.expr[d] = t.expr[d], s.portChannel[p] = t.portChannel[p]
  PROVE  Combined(s, d, p) = Combined(t, d, p) /\ (Sounds(s, p) <=> Sounds(t, p))
BY DEF Combined, Sounds

\* What an update notes down.
LEMMA UpdatedValues ==
  ASSUME NEW s, SplitterOK(s), NEW ds, NEW ps, NEW z, z = Updated(s, ds, ps)
  PROVE  /\ z.expr = s.expr /\ z.portChannel = s.portChannel
         /\ \A d \in Dimensions, p \in PortIds :
              z.last[d][p] = IF d \in ds \ {"pressure"} /\ p \in ps /\ Sounds(s, p) THEN Combined(s, d, p) ELSE s.last[d][p]
<1>1. {"last", "expr", "portChannel"} \subseteq DOMAIN s
  BY DEF SplitterOK
<1> QED BY <1>1 DEF Updated

LEMMA NothingTells ==
  ASSUME NEW s, Cached(s), NEW d \in Dimensions, UpToDate(s, d), NEW r, r = Split(s, Nothing)
  PROVE  Tells(s, r, d)
<1>1. r.splitter = s /\ \A p \in PortIds : r.sent[p] = <<>>
  BY DEF Split, Nothing
<1>2. \A v : Says(<<>>, d, v) /\ ~Mentions(<<>>, d)
  BY SayFacts
<1> QED BY <1>1, <1>2, QuietSequences DEF Tells

LEMMA ExpressionTells ==
  ASSUME NEW s, SplitterOK(s), Cached(s), NEW d \in Dimensions, UpToDate(s, d),
         NEW e \in Dimensions, NEW c \in ZoneChannels, NEW v, NEW r, r = SplitExpression(s, e, c, v),
         \A p \in PortIds : AllQuiet(r.sent[p])
  PROVE  Tells(s, r, d) /\ r.splitter.expr[d] = IF e = d THEN [s.expr[d] EXCEPT ![c] = v] ELSE s.expr[d]
<1>20. PICK t : t = [s EXCEPT !.expr[e][c] = v]
  OBVIOUS
<1>21. PICK ps : ps = IF c = ManagerChannel THEN PortIds ELSE {s.channelPort[c]} \ {NoPort}
  OBVIOUS
<1>22. PICK ds : ds = {e}
  OBVIOUS
<1>23. PICK z : z = Updated(t, ds, ps)
  OBVIOUS
<1>1. /\ r.splitter = z
      /\ \A p \in PortIds : r.sent[p] = IF p \in ps THEN Update(t, e, p) ELSE <<>>
  BY <1>20, <1>21, <1>22, <1>23 DEF SplitExpression, Split
<1>2. DOMAIN s = {"channelPort", "portChannel", "portNote", "byAge", "roundRobin", "last", "expr"}
  BY DEF SplitterOK
<1>3. /\ DOMAIN t = DOMAIN s /\ TableOf(t) = TableOf(s)
      /\ t.last = s.last /\ t.portChannel = s.portChannel /\ t.expr = [s.expr EXCEPT ![e][c] = v]
  BY <1>2, <1>20 DEF TableOf
<1>4. SplitterOK(t)
  BY <1>3 DEF SplitterOK
<1>5. DOMAIN s.expr = Dimensions /\ \A x \in Dimensions : DOMAIN s.expr[x] = ZoneChannels
  BY DEF Cached
<1>6. \A x \in Dimensions : t.expr[x] = IF x = e THEN [s.expr[x] EXCEPT ![c] = v] ELSE s.expr[x]
  BY <1>3, <1>5
<1>7. /\ z.expr = t.expr /\ z.portChannel = s.portChannel
      /\ \A p \in PortIds :
           z.last[d][p] = IF d \in ds \ {"pressure"} /\ p \in ps /\ Sounds(t, p) THEN Combined(t, d, p) ELSE s.last[d][p]
  <2>1. /\ z.expr = t.expr /\ z.portChannel = t.portChannel
        /\ \A x \in Dimensions, p \in PortIds :
             z.last[x][p] = IF x \in ds \ {"pressure"} /\ p \in ps /\ Sounds(t, p) THEN Combined(t, x, p) ELSE t.last[x][p]
    BY <1>4, <1>23, UpdatedValues
  <2> QED BY <1>3, <2>1
<1>8. Cached(z)
  <2>1. DOMAIN t.expr = Dimensions
    BY <1>3, <1>5
  <2>2. ASSUME NEW x \in Dimensions PROVE DOMAIN t.expr[x] = ZoneChannels
    <3>1. t.expr[x] = [s.expr[x] EXCEPT ![c] = v] \/ t.expr[x] = s.expr[x]
      BY <1>6
    <3> QED BY <1>5, <3>1
  <2> QED BY <1>7, <2>1, <2>2 DEF Cached
<1>9. \A p \in PortIds :
        /\ Combined(z, d, p) = Combined(t, d, p) /\ (Sounds(z, p) <=> Sounds(s, p)) /\ (Sounds(t, p) <=> Sounds(s, p))
        /\ e # d => Combined(t, d, p) = Combined(s, d, p)
  <2> TAKE p \in PortIds
  <2>1. Combined(z, d, p) = Combined(t, d, p) /\ (Sounds(z, p) <=> Sounds(t, p))
    BY <1>3, <1>7, SameCombined
  <2>2. Sounds(t, p) <=> Sounds(s, p)
    BY <1>3 DEF Sounds
  <2>3. e # d => Combined(t, d, p) = Combined(s, d, p)
    <3> SUFFICES ASSUME e # d PROVE Combined(t, d, p) = Combined(s, d, p)
      OBVIOUS
    <3>1. t.expr[d] = s.expr[d]
      BY <1>6
    <3>2. t.portChannel[p] = s.portChannel[p]
      BY <1>3
    <3> QED BY <3>1, <3>2, SameCombined
  <2> QED BY <2>1, <2>2, <2>3
<1>10. ASSUME NEW p \in PortIds, p \notin ps, Sounds(s, p) PROVE Combined(t, d, p) = Combined(s, d, p)
  <2>1. c \in MemberChannels /\ c # ManagerChannel
    BY <1>10, <1>21 DEF ZoneChannels
  <2>2. s.portChannel[p] # c
    BY <1>10, <1>21, <2>1, PortFacts, SplitterFields
  <2>3. t.expr[d][ManagerChannel] = s.expr[d][ManagerChannel] /\ t.expr[d][s.portChannel[p]] = s.expr[d][s.portChannel[p]]
    <3>1. s.portChannel[p] \in MemberChannels
      BY <1>10, SplitterFields DEF Sounds, OrNone
    <3> QED BY <1>5, <1>6, <2>1, <2>2, <3>1 DEF ZoneChannels
  <2> QED BY <1>3, <2>3 DEF Combined
<1>11. \A p \in PortIds : LET x == Combined(z, d, p) IN
        /\ Says(r.sent[p], d, x)
        /\ Mentions(r.sent[p], d) <=> e = d /\ p \in ps /\ Due(t, d, p)
  <2> TAKE p \in PortIds
  <2> PICK x : x = Combined(z, d, p)
    OBVIOUS
  <2>1. Says(<<>>, d, x) /\ ~Mentions(<<>>, d)
    BY SayFacts
  <2>2. CASE p \in ps /\ Due(t, e, p)
    <3>20. PICK m : m = [kind |-> e, value |-> Combined(t, e, p)]
      OBVIOUS
    <3>1. r.sent[p] = <<m>>
      BY <1>1, <2>2, <3>20 DEF Update
    <3>2. m.kind = e /\ (m.kind = d => m.value = x)
      BY <1>9, <3>20
    <3>3. Says(<<m>>, d, x) /\ (Mentions(<<m>>, d) <=> m.kind = d)
      BY <3>2, SayFacts
    <3> QED BY <2>2, <3>1, <3>2, <3>3
  <2>3. CASE ~(p \in ps /\ Due(t, e, p))
    <3>1. r.sent[p] = <<>>
      BY <1>1, <2>3 DEF Update
    <3> QED BY <2>1, <2>3, <3>1
  <2> QED BY <2>2, <2>3
<1>12. ASSUME d # "pressure", NEW p \in PortIds
       PROVE  /\ z.last[d][p] = IF Mentions(r.sent[p], d) THEN Combined(z, d, p) ELSE s.last[d][p]
              /\ Sounds(z, p) => z.last[d][p] = Combined(z, d, p)
  <2>1. Due(t, d, p) <=> Sounds(s, p) /\ Combined(t, d, p) # s.last[d][p]
    BY <1>3, <1>9, <1>12 DEF Due
  <2>2. Sounds(s, p) => s.last[d][p] = Combined(s, d, p)
    BY <1>12 DEF UpToDate
  <2>3. CASE e = d /\ p \in ps
    BY <1>7, <1>9, <1>11, <1>22, <1>12, <2>1, <2>3
  <2>4. CASE e # d
    BY <1>7, <1>9, <1>11, <1>22, <2>2, <2>4
  <2>5. CASE p \notin ps
    BY <1>7, <1>9, <1>10, <1>11, <1>22, <2>2, <2>5
  <2> QED BY <2>3, <2>4, <2>5
<1>13. ASSUME d = "pressure", NEW p \in PortIds
       PROVE  Mentions(r.sent[p], d) \/ ~Sounds(z, p) \/ Combined(z, d, p) = Combined(s, d, p)
  <2>1. Due(t, d, p) <=> Sounds(s, p)
    BY <1>9, <1>13 DEF Due
  <2> QED BY <1>9, <1>10, <1>11, <2>1
<1>14. UpToDate(z, d)
  BY <1>12 DEF UpToDate
<1>15. Tells(s, r, d)
  BY <1>1, <1>8, <1>11, <1>12, <1>13, <1>14 DEF Tells
<1> QED BY <1>1, <1>6, <1>7, <1>15

\* A voice that starts or ends has no expression of its own to send but what is sent
\* beforehand.
LEMMA NoteOffTells ==
  ASSUME NEW s, SplitterOK(s), Cached(s), NEW d \in Dimensions, UpToDate(s, d), NEW c \in MemberChannels, NEW n,
         NEW r, r = SplitNoteOff(s, c, n)
  PROVE  Tells(s, r, d) /\ r.splitter.expr = s.expr
<1>1. CASE s.channelPort[c] = NoPort
  <2>1. r = Split(s, Nothing)
    BY <1>1 DEF SplitNoteOff
  <2>2. Split(s, Nothing).splitter = s
    BY DEF Split
  <2> QED BY <2>1, <2>2, NothingTells
<1>2. CASE s.channelPort[c] # NoPort
  <2>1. PICK p \in PortIds : p = s.channelPort[c]
    BY <1>2, SplitterFields
  <2>2. PICK t : t = [s EXCEPT !.portNote[p] = NoNote, !.portChannel[p] = NoChannel, !.channelPort[c] = NoPort]
    OBVIOUS
  <2>3. r.splitter = t /\ r.sent = ToPort(p, Silenced(n))
    BY <1>2, <2>1, <2>2 DEF SplitNoteOff, Split, Silenced
  <2>4. /\ DOMAIN s = {"channelPort", "portChannel", "portNote", "byAge", "roundRobin", "last", "expr"}
        /\ DOMAIN s.portChannel = PortIds
    BY SplitterFields
  <2>5. /\ t.last = s.last /\ t.expr = s.expr
        /\ t.portChannel[p] = NoChannel /\ \A q \in PortIds : q # p => t.portChannel[q] = s.portChannel[q]
    BY <2>2, <2>4
  <2>6. \A q \in PortIds : q # p => Combined(t, d, q) = Combined(s, d, q) /\ (Sounds(t, q) <=> Sounds(s, q))
    BY <2>5, SameCombined
  <2>7. ~Sounds(t, p)
    BY <2>5 DEF Sounds
  <2>8. \A v : Says(Silenced(n), d, v) /\ ~Mentions(Silenced(n), d)
    <3> TAKE v
    <3>1. PICK m : m = [kind |-> "off", note |-> n]
      OBVIOUS
    <3>2. m.kind # d
      BY <3>1, SplitAssumption
    <3>3. Says(<<m>>, d, v) /\ ~Mentions(<<m>>, d)
      BY <3>2, SayFacts
    <3> QED BY <3>1, <3>3 DEF Silenced
  <2>9. \A v : Says(<<>>, d, v) /\ ~Mentions(<<>>, d) /\ AllQuiet(<<>>)
    BY SayFacts, QuietSequences
  <2>10. \A q \in PortIds : r.sent[q] = IF q = p THEN Silenced(n) ELSE <<>>
    BY <2>3 DEF ToPort
  <2>11. Cached(t) /\ UpToDate(t, d)
    BY <2>5, <2>6, <2>7 DEF Cached, UpToDate
  <2>12. \A q \in PortIds : Says(r.sent[q], d, Combined(t, d, q)) /\ ~Mentions(r.sent[q], d)
    BY <2>8, <2>9, <2>10
  <2> QED BY <2>3, <2>5, <2>6, <2>7, <2>9, <2>10, <2>11, <2>12 DEF Tells
<1> QED BY <1>1, <1>2

\* What is sent beforehand.
LEMMA BeforehandSays ==
  ASSUME NEW s, NEW d \in Dimensions, NEW x \in {"bend", "cc74", "pressure"}, NEW p \in PortIds, Sounds(s, p)
  PROVE  /\ Says(Beforehand(s, x, p), d, Combined(s, d, p))
         /\ Mentions(Beforehand(s, x, p), d) <=>
              x = d /\ IF d = "pressure" THEN Combined(s, d, p) # 0 ELSE Combined(s, d, p) # s.last[d][p]
<1>1. PICK v : v = Combined(s, d, p)
  OBVIOUS
<1>2. Says(<<>>, d, v) /\ ~Mentions(<<>>, d)
  BY SayFacts
<1>3. CASE Beforehand(s, x, p) = <<>>
  <2>1. x = d => IF d = "pressure" THEN Combined(s, d, p) = 0 ELSE Combined(s, d, p) = s.last[d][p]
    <3> SUFFICES ASSUME x = d, d # "pressure" => Combined(s, d, p) # s.last[d][p], d = "pressure" => Combined(s, d, p) # 0
                 PROVE  FALSE
      OBVIOUS
    <3>1. Beforehand(s, x, p) = Update(s, d, p) /\ Due(s, d, p)
      BY DEF Beforehand, Due
    <3>2. Update(s, d, p) # <<>>
      BY <3>1 DEF Update
    <3> QED BY <1>3, <3>1, <3>2
  <2> QED BY <1>1, <1>2, <1>3, <2>1
<1>4. CASE Beforehand(s, x, p) # <<>>
  <2>1. PICK m : m = [kind |-> x, value |-> Combined(s, x, p)]
    OBVIOUS
  <2>2. Beforehand(s, x, p) = <<m>> /\ Due(s, x, p) /\ (x = "pressure" => Combined(s, x, p) # 0)
    BY <1>4, <2>1 DEF Beforehand, Update
  <2>3. m.kind = x /\ (m.kind = d => m.value = v)
    BY <1>1, <2>1
  <2>4. Says(<<m>>, d, v) /\ (Mentions(<<m>>, d) <=> m.kind = d)
    BY <2>3, SayFacts
  <2>5. d # "pressure" /\ x = d => Combined(s, d, p) # s.last[d][p]
    BY <2>2 DEF Due
  <2> QED BY <1>1, <2>2, <2>3, <2>4, <2>5
<1> QED BY <1>3, <1>4

LEMMA NoteOnTells ==
  ASSUME NEW s, SplitterOK(s), Cached(s), NEW d \in Dimensions, UpToDate(s, d), NEW c \in MemberChannels, NEW n \in ZoneNotes,
         NEW r, r = SplitNoteOn(s, c, n)
  PROVE  Tells(s, r, d) /\ r.splitter.expr = s.expr
<1>1. PICK t : t = Claim(s, c)
  OBVIOUS
<1>2. SplitterOK(t)
  BY <1>1, ClaimStep
<1>3. PICK p \in PortIds : p = t.channelPort[c] /\ \A q \in PortIds : q # p => t.portChannel[q] = s.portChannel[q]
  BY <1>1, ClaimStep
<1>4. t.expr = s.expr /\ t.last = s.last
  <2>1. {"expr", "last"} \subseteq DOMAIN s
    BY DEF SplitterOK
  <2> QED BY <1>1, <2>1 DEF Claim
<1>5. PICK voiced : voiced = [t EXCEPT !.portNote[p] = n, !.byAge = Append(RemoveFirst(@, p), p)]
  OBVIOUS
<1>6. PICK e, f, g : /\ e = Beforehand(voiced, "bend", p) /\ f = Beforehand(voiced, "cc74", p)
                     /\ g = Beforehand(voiced, "pressure", p)
  OBVIOUS
<1>7. PICK z : z = Updated(voiced, Dimensions, {p})
  OBVIOUS
<1>8. r = Split(z, ToPort(p, Stolen(s, c) \o (e \o f \o g) \o Struck(n)))
  BY <1>1, <1>3, <1>5, <1>6, <1>7 DEF SplitNoteOn, Struck
<1>9. voiced.expr = s.expr /\ voiced.last = s.last /\ voiced.portChannel = t.portChannel /\ SplitterOK(voiced)
  <2>1. /\ DOMAIN t = {"channelPort", "portChannel", "portNote", "byAge", "roundRobin", "last", "expr"}
        /\ t.byAge \in Seq(PortIds) /\ t.portNote \in [PortIds -> ZoneNotes \union {NoNote}]
    BY <1>2, SplitterFields
  <2>2. /\ DOMAIN voiced = DOMAIN t /\ voiced.portNote = [t.portNote EXCEPT ![p] = n]
        /\ voiced.portChannel = t.portChannel /\ voiced.channelPort = t.channelPort /\ voiced.roundRobin = t.roundRobin
        /\ voiced.expr = t.expr /\ voiced.last = t.last
        /\ voiced.byAge = Append(RemoveFirst(t.byAge, p), p)
    BY <1>5, <2>1
  <2>3. voiced.byAge \in Seq(PortIds) \ {<<>>}
    BY <2>1, <2>2, AgedPorts
  <2>4. voiced.portNote \in [PortIds -> ZoneNotes \union {NoNote}]
    BY <2>1, <2>2
  <2>5. /\ t.channelPort \in [MemberChannels -> PortIds \union {NoPort}]
        /\ t.portChannel \in [PortIds -> OrNone] /\ t.roundRobin \in Nat
        /\ \A x \in MemberChannels, q \in PortIds : t.channelPort[x] = q <=> t.portChannel[q] = x
    BY <1>2, SplitterFields
  <2>6. SplitterOK(voiced)
    <3>1. \A x \in MemberChannels, q \in PortIds : voiced.channelPort[x] = q <=> voiced.portChannel[q] = x
      BY <2>2, <2>5
    <3>2. /\ DOMAIN voiced = {"channelPort", "portChannel", "portNote", "byAge", "roundRobin", "last", "expr"}
          /\ voiced.channelPort \in [MemberChannels -> PortIds \union {NoPort}]
          /\ voiced.portChannel \in [PortIds -> OrNone] /\ voiced.roundRobin \in Nat
      BY <2>1, <2>2, <2>5
    <3> QED BY <2>3, <2>4, <3>1, <3>2, SplitterFields
  <2> QED BY <1>4, <2>2, <2>6
<1>10. PICK ds, ps : ds = Dimensions /\ ps = {p}
  OBVIOUS
<1>11. /\ z.expr = s.expr /\ z.portChannel = t.portChannel
       /\ \A x \in Dimensions, q \in PortIds :
            z.last[x][q] = IF x \in ds \ {"pressure"} /\ q \in ps /\ Sounds(voiced, q) THEN Combined(voiced, x, q)
                           ELSE s.last[x][q]
  <2>1. /\ z.expr = voiced.expr /\ z.portChannel = voiced.portChannel
        /\ \A x \in Dimensions, q \in PortIds :
             z.last[x][q] = IF x \in ds \ {"pressure"} /\ q \in ps /\ Sounds(voiced, q) THEN Combined(voiced, x, q)
                            ELSE voiced.last[x][q]
    <3>1. z = Updated(voiced, ds, ps)
      BY <1>7, <1>10
    <3> QED BY <1>9, <3>1, UpdatedValues
  <2> QED BY <1>9, <2>1
<1>12. Sounds(voiced, p)
  <2>1. t.portChannel[p] = c /\ c # NoChannel
    BY <1>2, <1>3, SplitterFields, ChannelFacts
  <2> QED BY <1>9, <2>1 DEF Sounds
<1>13. Combined(z, d, p) = Combined(voiced, d, p) /\ Sounds(z, p)
  BY <1>9, <1>11, <1>12, SameCombined
<1>14. \A q \in PortIds : q # p => Combined(z, d, q) = Combined(s, d, q) /\ (Sounds(z, q) <=> Sounds(s, q))
  <2> TAKE q \in PortIds
  <2> SUFFICES ASSUME q # p PROVE Combined(z, d, q) = Combined(s, d, q) /\ (Sounds(z, q) <=> Sounds(s, q))
    OBVIOUS
  <2>1. z.expr[d] = s.expr[d] /\ z.portChannel[q] = s.portChannel[q]
    BY <1>3, <1>11
  <2> QED BY <2>1, SameCombined
<1>15. PICK v : v = Combined(voiced, d, p)
  OBVIOUS
<1>16. \A m : m.kind = "on" \/ m.kind = "off" => Says(<<m>>, d, v) /\ ~Mentions(<<m>>, d)
  <2> SUFFICES ASSUME NEW m, m.kind = "on" \/ m.kind = "off" PROVE Says(<<m>>, d, v) /\ ~Mentions(<<m>>, d)
    OBVIOUS
  <2>1. m.kind # d
    BY SplitAssumption
  <2> QED BY <2>1, SayFacts
<1>17. Says(Stolen(s, c), d, v) /\ ~Mentions(Stolen(s, c), d)
  <2>1. PICK m : m = [kind |-> "off", note |-> s.portNote[OldestPort(s)]]
    OBVIOUS
  <2>2. Stolen(s, c) = <<>> \/ Stolen(s, c) = <<m>>
    BY <2>1 DEF Stolen
  <2>3. Says(<<>>, d, v) /\ ~Mentions(<<>>, d)
    BY SayFacts
  <2>4. Says(<<m>>, d, v) /\ ~Mentions(<<m>>, d)
    <3>1. m.kind = "off"
      BY <2>1
    <3> QED BY <1>16, <3>1
  <2> QED BY <2>2, <2>3, <2>4
<1>18. Says(Struck(n), d, v) /\ ~Mentions(Struck(n), d)
  <2>1. PICK m : m = [kind |-> "on", note |-> n]
    OBVIOUS
  <2>2. m.kind = "on" /\ Struck(n) = <<m>>
    BY <2>1 DEF Struck
  <2> QED BY <1>16, <2>2
<1>19. PICK due : due <=> IF d = "pressure" THEN v # 0 ELSE v # s.last[d][p]
  <2>1. \E due : due <=> IF d = "pressure" THEN v # 0 ELSE v # s.last[d][p]
    OBVIOUS
  <2> QED BY <2>1
<1>20. /\ Says(e, d, v) /\ (Mentions(e, d) <=> d = "bend" /\ due)
       /\ Says(f, d, v) /\ (Mentions(f, d) <=> d = "cc74" /\ due)
       /\ Says(g, d, v) /\ (Mentions(g, d) <=> d = "pressure" /\ due)
  BY <1>6, <1>9, <1>12, <1>15, <1>19, BeforehandSays
<1>21. PICK sent : sent = Stolen(s, c) \o (e \o f \o g) \o Struck(n)
  OBVIOUS
<1>22. Says(sent, d, v) /\ (Mentions(sent, d) <=> due)
  <2>1. \A x, y : Says(x, d, v) /\ Says(y, d, v) =>
          Says(x \o y, d, v) /\ (Mentions(x \o y, d) <=> Mentions(x, d) \/ Mentions(y, d))
    BY SayFacts
  <2>2. Says(e \o f \o g, d, v) /\ (Mentions(e \o f \o g, d) <=> due)
    <3>1. Says(e \o f, d, v) /\ (Mentions(e \o f, d) <=> Mentions(e, d) \/ Mentions(f, d))
      BY <1>20, <2>1
    <3>2. Says(e \o f \o g, d, v) /\ (Mentions(e \o f \o g, d) <=> Mentions(e \o f, d) \/ Mentions(g, d))
      BY <1>20, <2>1, <3>1
    <3> QED BY <1>20, <3>1, <3>2, SplitAssumption
  <2>3. PICK h, k : h = e \o f \o g /\ k = Stolen(s, c)
    OBVIOUS
  <2>4. Says(k \o h, d, v) /\ (Mentions(k \o h, d) <=> due)
    BY <1>17, <2>1, <2>2, <2>3
  <2>5. Says((k \o h) \o Struck(n), d, v) /\ (Mentions((k \o h) \o Struck(n), d) <=> due)
    BY <1>18, <2>1, <2>4
  <2> QED BY <1>21, <2>3, <2>5
<1>23. r.splitter = z /\ \A q \in PortIds : r.sent[q] = IF q = p THEN sent ELSE <<>>
  BY <1>8, <1>21 DEF Split, ToPort
<1>24. \A x : Says(<<>>, d, x) /\ ~Mentions(<<>>, d) /\ AllQuiet(<<>>)
  BY SayFacts, QuietSequences
<1>25. d # "pressure" => z.last[d][p] = v /\ \A q \in PortIds : q # p => z.last[d][q] = s.last[d][q]
  BY <1>10, <1>11, <1>12, <1>15
<1>26. Cached(z) /\ UpToDate(z, d)
  <2>1. Cached(z)
    BY <1>11 DEF Cached
  <2> QED BY <1>13, <1>14, <1>15, <1>25, <2>1 DEF UpToDate
<1>27. /\ Says(r.sent[p], d, Combined(z, d, p))
       /\ d # "pressure" => z.last[d][p] = IF Mentions(r.sent[p], d) THEN Combined(z, d, p) ELSE s.last[d][p]
       /\ d = "pressure" => Mentions(r.sent[p], d) \/ Combined(z, d, p) = 0
  BY <1>13, <1>15, <1>19, <1>22, <1>23, <1>25
<1>28. ASSUME NEW q \in PortIds, q # p
       PROVE  /\ Says(r.sent[q], d, Combined(z, d, q)) /\ AllQuiet(r.sent[q]) /\ Combined(z, d, q) = Combined(s, d, q)
              /\ d # "pressure" => z.last[d][q] = IF Mentions(r.sent[q], d) THEN Combined(z, d, q) ELSE s.last[d][q]
  BY <1>14, <1>23, <1>24, <1>25, <1>28
<1> QED BY <1>11, <1>23, <1>26, <1>27, <1>28 DEF Tells

\* Every synth has been sent what the splitter takes it to have, but those a reset
\* has put behind; a note has its pressure, if that is not zero.
Faithful(rack) ==
  /\ Cached(rack.splitter) /\ UpToDate(rack.splitter, dimension)
  /\ dimension # "bend" => rack.behind = {}
  /\ \A p \in PortIds :
       /\ Hears(rack.synths[p], dimension)
       /\ dimension # "pressure" =>
            rack.synths[p].expr[dimension] = IF p \in rack.behind THEN 0 ELSE rack.splitter.last[dimension][p]
       /\ (dimension = "pressure" /\ rack.synths[p].notes # {}) =>
            \/ Combined(rack.splitter, dimension, p) = 0
            \/ rack.synths[p].expr[dimension] = Combined(rack.splitter, dimension, p)

LEMMA PlayedFaithfully ==
  ASSUME dimension \in Dimensions, NEW rack, NEW A, RackOK(rack, A), Faithful(rack),
         NEW m, NEW next, next = Played(rack, m), NEW B, RackOK(next, B),
         NEW r, r = SplitMessage(rack.splitter, m), Tells(rack.splitter, r, dimension)
  PROVE  Faithful(next)
<1>1. PICK d \in {"bend", "cc74", "pressure"} : d = dimension
  BY SplitAssumption
<1>2. PICK s, z : s = rack.splitter /\ z = r.splitter
  OBVIOUS
<1>3. /\ next.splitter = z
      /\ next.behind = {p \in rack.behind : ~Mentions(r.sent[p], d)}
      /\ \A p \in PortIds : next.synths[p] = Playing!Folded(rack.synths[p], r.sent[p])
  <2>1. next = Rack(r.splitter, [p \in PortIds |-> FoldLeft(Play, rack.synths[p], r.sent[p])],
                    {p \in rack.behind : \A i \in DOMAIN r.sent[p] : r.sent[p][i].kind # dimension})
    BY DEF Played
  <2>2. /\ next.splitter = z
        /\ next.behind = {p \in rack.behind : \A i \in DOMAIN r.sent[p] : r.sent[p][i].kind # d}
        /\ next.synths = [p \in PortIds |-> FoldLeft(Play, rack.synths[p], r.sent[p])]
    BY <1>1, <1>2, <2>1 DEF Rack
  <2> QED BY <2>2, FoldsOfVoices DEF Mentions
<1>4. /\ Cached(z) /\ UpToDate(z, d)
      /\ \A p \in PortIds :
           /\ Says(r.sent[p], d, Combined(z, d, p))
           /\ d # "pressure" => z.last[d][p] = IF Mentions(r.sent[p], d) THEN Combined(z, d, p) ELSE s.last[d][p]
           /\ d = "pressure" =>
                \/ Mentions(r.sent[p], d) \/ ~Sounds(z, p) \/ Combined(z, d, p) = 0
                \/ AllQuiet(r.sent[p]) /\ Combined(z, d, p) = Combined(s, d, p)
  BY <1>1, <1>2 DEF Tells
<1>5. /\ d # "bend" => rack.behind = {}
      /\ \A p \in PortIds :
           /\ Hears(rack.synths[p], d)
           /\ d # "pressure" => rack.synths[p].expr[d] = IF p \in rack.behind THEN 0 ELSE s.last[d][p]
           /\ (d = "pressure" /\ rack.synths[p].notes # {}) =>
                Combined(s, d, p) = 0 \/ rack.synths[p].expr[d] = Combined(s, d, p)
  BY <1>1, <1>2 DEF Faithful
<1>6. \A p \in PortIds :
        /\ Hears(next.synths[p], d)
        /\ next.synths[p].expr[d] = IF Mentions(r.sent[p], d) THEN Combined(z, d, p) ELSE rack.synths[p].expr[d]
  BY <1>3, <1>4, <1>5, WhatIsSaidIsHeard
<1>7. ASSUME NEW p \in PortIds, d # "pressure"
      PROVE  next.synths[p].expr[d] = IF p \in next.behind THEN 0 ELSE z.last[d][p]
  <2>1. p \in next.behind <=> p \in rack.behind /\ ~Mentions(r.sent[p], d)
    BY <1>3
  <2> QED BY <1>4, <1>5, <1>6, <1>7, <2>1
<1>8. ASSUME NEW p \in PortIds, d = "pressure", next.synths[p].notes # {}
      PROVE  Combined(z, d, p) = 0 \/ next.synths[p].expr[d] = Combined(z, d, p)
  <2>1. Sounds(z, p)
    <3> PICK n \in next.synths[p].notes : TRUE
      BY <1>8
    <3>1. PICK a : a = <<z.portChannel[p], n>>
      OBVIOUS
    <3>2. a \in MemberChannels \X ZoneNotes /\ a[1] = z.portChannel[p]
      BY <1>3, <3>1 DEF RackOK, Voiced, Assignments
    <3> QED BY <3>2, ChannelFacts DEF Sounds
  <2>2. CASE Mentions(r.sent[p], d)
    BY <1>6, <2>2
  <2>3. CASE ~Mentions(r.sent[p], d) /\ AllQuiet(r.sent[p]) /\ Combined(z, d, p) = Combined(s, d, p)
    <3>1. "notes" \in DOMAIN rack.synths[p]
      BY DEF RackOK, Voiced
    <3>2. next.synths[p].notes = rack.synths[p].notes
      BY <1>3, <2>3, <3>1, QuietIsSilent
    <3> QED BY <1>5, <1>6, <1>8, <2>3, <3>2
  <2> QED BY <1>4, <1>8, <2>1, <2>2, <2>3
<1>9. d # "bend" => next.behind = {}
  BY <1>3, <1>5
<1> QED BY <1>1, <1>3, <1>4, <1>6, <1>7, <1>8, <1>9 DEF Faithful

\* The values of the channels.
Cache(rack) == rack.splitter.expr[dimension]

LEMMA QuietFaithful ==
  ASSUME dimension \in Dimensions, NEW rack, NEW A, RackOK(rack, A), Faithful(rack),
         NEW m, Quiet(m), m.kind \in Dimensions => m.channel \in ZoneChannels
  PROVE  /\ Faithful(Played(rack, m))
         /\ Cache(Played(rack, m)) = IF m.kind = dimension THEN [Cache(rack) EXCEPT ![m.channel] = m.value] ELSE Cache(rack)
<1>1. PICK d, s, r, next : d = dimension /\ s = rack.splitter /\ r = SplitMessage(s, m) /\ next = Played(rack, m)
  OBVIOUS
<1>2. SplitterOK(s) /\ Cached(s) /\ UpToDate(s, d) /\ d \in Dimensions
  BY <1>1 DEF RackOK, Faithful
<1>3. \A p \in PortIds : AllQuiet(r.sent[p])
  BY <1>1, <1>2, QuietSplit
<1>4. Tells(s, r, d) /\ r.splitter.expr[d] = IF m.kind = d THEN [s.expr[d] EXCEPT ![m.channel] = m.value] ELSE s.expr[d]
  <2>1. CASE m.kind \in Dimensions
    <3>1. r = SplitExpression(s, m.kind, m.channel, m.value)
      BY <1>1, <2>1, SplitAssumption DEF SplitMessage, Quiet
    <3> QED BY <1>2, <1>3, <2>1, <3>1, ExpressionTells
  <2>2. CASE m.kind \notin Dimensions
    <3>1. r = Split(s, Nothing)
      BY <1>1, <2>2 DEF SplitMessage, Quiet
    <3>2. Split(s, Nothing).splitter = s
      BY DEF Split
    <3> QED BY <1>2, <2>2, <3>1, <3>2, NothingTells
  <2> QED BY <2>1, <2>2
<1>5. RackOK(next, A)
  BY <1>1, QuietKeeps
<1>6. next.splitter = r.splitter
  BY <1>1 DEF Played, Rack
<1>7. Faithful(next)
  <2>1. Tells(rack.splitter, r, dimension) /\ r = SplitMessage(rack.splitter, m) /\ next = Played(rack, m)
    BY <1>1, <1>4
  <2> QED BY <1>5, <2>1, PlayedFaithfully
<1> QED BY <1>1, <1>4, <1>6, <1>7 DEF Cache

LEMMA OnFaithful ==
  ASSUME dimension \in Dimensions, NEW rack, NEW A, RackOK(rack, A), Faithful(rack),
         NEW c \in MemberChannels, NEW n \in ZoneNotes, \A k \in A : k[1] # c /\ k[2] # n
  PROVE  Faithful(Played(rack, On(c, n))) /\ Cache(Played(rack, On(c, n))) = Cache(rack)
<1>1. PICK m : m = On(c, n)
  OBVIOUS
<1>2. PICK s, r, next : s = rack.splitter /\ r = SplitMessage(s, m) /\ next = Played(rack, m)
  OBVIOUS
<1>3. r = SplitNoteOn(s, c, n)
  BY <1>1, <1>2, SplitAssumption DEF SplitMessage, On
<1>4. SplitterOK(s) /\ Cached(s) /\ UpToDate(s, dimension)
  BY <1>2 DEF RackOK, Faithful
<1>5. Tells(s, r, dimension) /\ r.splitter.expr = s.expr
  BY <1>3, <1>4, NoteOnTells
<1>6. PICK B : RackOK(next, B)
  BY <1>1, <1>2, OnKeeps
<1>7. next.splitter = r.splitter
  BY <1>2 DEF Played, Rack
<1>8. Faithful(next)
  <2>1. Tells(rack.splitter, r, dimension) /\ r = SplitMessage(rack.splitter, m) /\ next = Played(rack, m)
    BY <1>2, <1>5
  <2> QED BY <1>6, <2>1, PlayedFaithfully
<1> QED BY <1>1, <1>2, <1>5, <1>7, <1>8 DEF Cache

LEMMA OffFaithful ==
  ASSUME dimension \in Dimensions, NEW rack, NEW A, RackOK(rack, A), Faithful(rack), NEW c, NEW n, <<c, n>> \in A
  PROVE  Faithful(Played(rack, Off(c, n))) /\ Cache(Played(rack, Off(c, n))) = Cache(rack)
<1>1. PICK m : m = Off(c, n)
  OBVIOUS
<1>2. PICK s, r, next : s = rack.splitter /\ r = SplitMessage(s, m) /\ next = Played(rack, m)
  OBVIOUS
<1>3. r = SplitNoteOff(s, c, n)
  BY <1>1, <1>2, SplitAssumption DEF SplitMessage, Off
<1>4. SplitterOK(s) /\ Cached(s) /\ UpToDate(s, dimension) /\ c \in MemberChannels
  BY <1>2 DEF RackOK, Faithful, Assignments
<1>5. Tells(s, r, dimension) /\ r.splitter.expr = s.expr
  BY <1>3, <1>4, NoteOffTells
<1>6. PICK B : RackOK(next, B)
  BY <1>1, <1>2, OffKeeps
<1>7. next.splitter = r.splitter
  BY <1>2 DEF Played, Rack
<1>8. Faithful(next)
  <2>1. Tells(rack.splitter, r, dimension) /\ r = SplitMessage(rack.splitter, m) /\ next = Played(rack, m)
    BY <1>2, <1>5
  <2> QED BY <1>6, <2>1, PlayedFaithfully
<1> QED BY <1>1, <1>2, <1>5, <1>7, <1>8 DEF Cache

LEMMA RoutedOnFaithful ==
  ASSUME dimension \in Dimensions, NEW rack, NEW A, RackOK(rack, A), Faithful(rack),
         NEW c \in MemberChannels, NEW n \in ZoneNotes, \A k \in A : k[1] # c /\ k[2] # n,
         NEW msgs, msgs = <<On(c, n)>> \/ msgs = <<Zero(c), On(c, n)>> \/ msgs = <<Config, Zero(c), On(c, n)>>
  PROVE  /\ Faithful(FoldLeft(Played, rack, msgs))
         /\ dimension # "pressure" \/ msgs = <<On(c, n)>> => Cache(FoldLeft(Played, rack, msgs)) = Cache(rack)
<1>1. Quiet(Config) /\ Config.kind \notin Dimensions /\ Quiet(Zero(c)) /\ Zero(c).kind = "pressure" /\ Zero(c).channel \in ZoneChannels
  BY SplitAssumption DEF Quiet, Config, Zero, Expression, ZoneChannels
<1>2. PICK told, mid, late : /\ told = Played(rack, Config) /\ mid = Played(rack, Zero(c))
                             /\ late = Played(Played(rack, Config), Zero(c))
  OBVIOUS
<1>3. /\ RackOK(told, A) /\ Faithful(told) /\ Cache(told) = Cache(rack)
      /\ RackOK(mid, A) /\ Faithful(mid) /\ (dimension # "pressure" => Cache(mid) = Cache(rack))
  BY <1>1, <1>2, QuietKeeps, QuietFaithful
<1>4. RackOK(late, A) /\ Faithful(late) /\ (dimension # "pressure" => Cache(late) = Cache(rack))
  <2>1. late = Played(told, Zero(c))
    BY <1>2
  <2> QED BY <1>1, <1>3, <2>1, QuietKeeps, QuietFaithful
<1>5. \A x : RackOK(x, A) /\ Faithful(x) => Faithful(Played(x, On(c, n))) /\ Cache(Played(x, On(c, n))) = Cache(x)
  BY OnFaithful
<1>6. /\ FoldLeft(Played, rack, <<On(c, n)>>) = Played(rack, On(c, n))
      /\ FoldLeft(Played, rack, <<Zero(c), On(c, n)>>) = Played(mid, On(c, n))
      /\ FoldLeft(Played, rack, <<Config, Zero(c), On(c, n)>>) = Played(late, On(c, n))
  <2>1. /\ Routing!Folded(rack, <<On(c, n)>>) = Played(rack, On(c, n))
        /\ Routing!Folded(rack, <<Zero(c), On(c, n)>>) = Played(mid, On(c, n))
        /\ Routing!Folded(rack, <<Config, Zero(c), On(c, n)>>) = Played(late, On(c, n))
    BY <1>2, Routing!FoldOfOne, Routing!FoldOfTwo, Routing!FoldOfThree
  <2> QED BY <2>1, FoldsOfVoices, Zenon
<1>7. CASE msgs = <<On(c, n)>>
  BY <1>5, <1>6, <1>7
<1>8. CASE msgs = <<Zero(c), On(c, n)>>
  <2>1. msgs # <<On(c, n)>>
    BY <1>8
  <2> QED BY <1>3, <1>5, <1>6, <1>8, <2>1
<1>9. CASE msgs = <<Config, Zero(c), On(c, n)>>
  <2>1. msgs # <<On(c, n)>>
    BY <1>9
  <2> QED BY <1>4, <1>5, <1>6, <1>9, <2>1
<1> QED BY <1>7, <1>8, <1>9

LEMMA RoutedOffFaithful ==
  ASSUME dimension \in Dimensions, NEW rack, NEW A, RackOK(rack, A), Faithful(rack), NEW c, NEW n, <<c, n>> \in A,
         NEW msgs, msgs = <<Off(c, n)>> \/ msgs = <<Zero(c), Off(c, n)>>
  PROVE  /\ Faithful(FoldLeft(Played, rack, msgs))
         /\ dimension # "pressure" \/ msgs = <<Off(c, n)>> => Cache(FoldLeft(Played, rack, msgs)) = Cache(rack)
<1>0. c \in MemberChannels
  BY DEF RackOK, Assignments
<1>1. Quiet(Zero(c)) /\ Zero(c).kind = "pressure" /\ Zero(c).channel \in ZoneChannels
  BY <1>0 DEF Quiet, Zero, Expression, ZoneChannels
<1>2. PICK mid : mid = Played(rack, Zero(c))
  OBVIOUS
<1>3. RackOK(mid, A) /\ Faithful(mid) /\ (dimension # "pressure" => Cache(mid) = Cache(rack))
  BY <1>1, <1>2, QuietKeeps, QuietFaithful
<1>4. \A x : RackOK(x, A) /\ Faithful(x) => Faithful(Played(x, Off(c, n))) /\ Cache(Played(x, Off(c, n))) = Cache(x)
  BY OffFaithful
<1>5. /\ FoldLeft(Played, rack, <<Off(c, n)>>) = Played(rack, Off(c, n))
      /\ FoldLeft(Played, rack, <<Zero(c), Off(c, n)>>) = Played(mid, Off(c, n))
  <2>1. /\ Routing!Folded(rack, <<Off(c, n)>>) = Played(rack, Off(c, n))
        /\ Routing!Folded(rack, <<Zero(c), Off(c, n)>>) = Played(mid, Off(c, n))
    BY <1>2, Routing!FoldOfOne, Routing!FoldOfTwo
  <2> QED BY <2>1, FoldsOfVoices, Zenon
<1>6. CASE msgs = <<Off(c, n)>>
  BY <1>4, <1>5, <1>6
<1>7. CASE msgs = <<Zero(c), Off(c, n)>>
  <2>1. msgs # <<Off(c, n)>>
    BY <1>7
  <2> QED BY <1>3, <1>4, <1>5, <1>7, <2>1
<1> QED BY <1>6, <1>7

\* The values of the channels are those that were played. What mpexp makes of a
\* key's pressure is left out.
Known(cache, dialled) ==
  \A c \in ZoneChannels :
    /\ ~expanding => cache[c] = dialled[c]
    /\ (expanding /\ dimension # "pressure") => cache[c] = IF c = ManagerChannel THEN dialled[c] ELSE 0

ExpressionInv ==
  VoicesInv /\ Faithful(Now) /\ Known(Cache(Now), played) /\ DOMAIN played = ZoneChannels

\* The rack after a step.
LEMMA FaithfulNow ==
  ASSUME NEW a, NEW rack, NEW m, Process(a, rack, m),
         NEW through, through = (IF expanding THEN Expand(a, m) ELSE Expanded(a, <<m>>)),
         NEW next, next = FoldLeft(Played, rack, through.msgs), Faithful(next)
  PROVE  Faithful(Now)' /\ Cache(Now)' = Cache(next) /\ UNCHANGED <<expanding, dimension>>
<1>1. /\ UNCHANGED <<expanding, dimension>>
      /\ splitter' = next.splitter /\ synths' = next.synths /\ behind' = next.behind
  BY DEF Process
<1>2. Now'.splitter = next.splitter /\ Now'.synths = next.synths /\ Now'.behind = next.behind
  BY <1>1 DEF Now, Rack
<1>3. Faithful(Now)'
  BY <1>1, <1>2 DEF Faithful
<1>4. Cache(Now)' = Cache(next)
  BY <1>1, <1>2 DEF Cache
<1> QED BY <1>1, <1>3, <1>4

\* Where nothing was played, and the values are the same,
LEMMA KnownSame ==
  ASSUME ExpressionInv, UNCHANGED <<expanding, dimension, played>>,
         (expanding /\ dimension = "pressure") \/ Cache(Now)' = Cache(Now)
  PROVE  Known(Cache(Now), played)' /\ (DOMAIN played = ZoneChannels)'
BY DEF ExpressionInv, Known

\* also on a message that is none of expression.
LEMMA OtherMessage ==
  ASSUME ExpressionInv, NEW a, NEW rack, NEW A, RackOK(rack, A), Faithful(rack), rack.splitter = splitter,
         NEW m, Quiet(m), m.kind \notin Dimensions, m.kind # "aftertouch", "kind" \in DOMAIN m, Process(a, rack, m), UNCHANGED played
  PROVE  Faithful(Now)' /\ Known(Cache(Now), played)' /\ (DOMAIN played = ZoneChannels)'
<1>0. dimension \in Dimensions
  BY DEF ExpressionInv, VoicesInv
<1>1. PICK through : through = IF expanding THEN Expand(a, m) ELSE Expanded(a, <<m>>)
  OBVIOUS
<1>2. PICK x : Quiet(x) /\ x.kind \notin Dimensions /\ through.msgs = <<x>>
  <2>1. CASE ~expanding
    BY <1>1, <2>1 DEF Expanded
  <2>2. CASE expanding
    <3>1. PICK x : x = [m EXCEPT !.channel = ManagerChannel]
      OBVIOUS
    <3>2. Quiet(x) /\ x.kind \notin Dimensions
      BY <3>1 DEF Quiet
    <3>3. through = Expanded(a, <<x>>)
      BY <1>1, <2>2, <3>1 DEF Expand, Quiet
    <3> QED BY <3>2, <3>3 DEF Expanded
  <2> QED BY <2>1, <2>2
<1>3. PICK next : next = FoldLeft(Played, rack, through.msgs)
  OBVIOUS
<1>4. next = Played(rack, x)
  BY <1>2, <1>3, RoutedOne
<1>5. Faithful(next) /\ Cache(next) = Cache(rack)
  BY <1>0, <1>2, <1>4, QuietFaithful
<1>6. Faithful(Now)' /\ Cache(Now)' = Cache(next) /\ UNCHANGED <<expanding, dimension>>
  BY <1>1, <1>3, <1>5, FaithfulNow
<1>7. Cache(rack) = Cache(Now)
  BY DEF Cache, Now, Rack
<1> QED BY <1>5, <1>6, <1>7, KnownSame

LEMMA AnnounceFaithful ==
  ASSUME ExpressionInv, NEW members, Announce(members)
  PROVE  Faithful(Now)' /\ Known(Cache(Now), played)' /\ (DOMAIN played = ZoneChannels)'
<1>1. PICK m : m = Announcement(SourceChannel, members)
  OBVIOUS
<1>2. Quiet(m) /\ "kind" \in DOMAIN m /\ m.kind \notin Dimensions /\ m.kind # "aftertouch"
  BY <1>1, SplitAssumption DEF Quiet, Announcement
<1>3. UNCHANGED played /\ dimension \in Dimensions
  BY DEF Announce, ExpressionInv, VoicesInv
<1>4. CASE ~ResetsZone(announced, members)
  <2>1. Process(alloc, Now, m)
    BY <1>1, <1>4 DEF Announce, Now
  <2>2. RackOK(Now, Assigned) /\ Faithful(Now) /\ Now.splitter = splitter
    BY RackNow DEF ExpressionInv, Now, Rack
  <2> QED BY <1>2, <1>3, <2>1, <2>2, OtherMessage
<1>5. CASE ResetsZone(announced, members)
  <2>1. PICK ys : ys = [p \in PortIds |-> ControllersReset(synths[p])]
    OBVIOUS
  <2>2. PICK rack : rack = Rack(splitter, ys, Overtaken)
    OBVIOUS
  <2>3. Process(FreshAllocator, rack, m)
    BY <1>1, <1>5, <2>1, <2>2 DEF Announce
  <2>4. rack.splitter = splitter /\ rack.synths = ys /\ rack.behind = Overtaken
    BY <2>2 DEF Rack
  <2>5. \A p \in PortIds :
          /\ "notes" \in DOMAIN ys[p] /\ ys[p].notes = {} /\ Hears(ys[p], dimension)
          /\ ys[p].expr[dimension] = IF dimension = "cc74" THEN synths[p].expr[dimension] ELSE 0
    BY <1>3, <2>1 DEF ControllersReset, Hears
  <2>6. RackOK(rack, {})
    BY <2>4, <2>5, StartedOver DEF RackOK, Voiced, ExpressionInv, VoicesInv
  <2>7. Faithful(rack)
    <3>1. /\ Cached(splitter) /\ UpToDate(splitter, dimension)
          /\ dimension # "bend" => behind = {}
          /\ \A p \in PortIds : dimension # "pressure" =>
               synths[p].expr[dimension] = IF p \in behind THEN 0 ELSE splitter.last[dimension][p]
      BY DEF ExpressionInv, Faithful, Now, Rack
    <3>2. dimension # "bend" => Overtaken = {}
      BY DEF Overtaken
    <3>3. dimension = "bend" => \A p \in PortIds : p \in Overtaken <=> splitter.last[dimension][p] # 0
      BY DEF Overtaken
    <3>4. ASSUME NEW p \in PortIds, dimension # "pressure"
          PROVE  ys[p].expr[dimension] = IF p \in Overtaken THEN 0 ELSE splitter.last[dimension][p]
      <4>1. dimension = "bend" \/ dimension = "cc74"
        BY <1>3, <3>4, SplitAssumption
      <4> QED BY <2>5, <3>1, <3>2, <3>3, <4>1
    <3> QED BY <2>4, <2>5, <3>1, <3>2, <3>4 DEF Faithful
  <2> QED BY <1>2, <1>3, <2>3, <2>4, <2>6, <2>7, OtherMessage
<1> QED BY <1>4, <1>5

LEMMA SilenceFaithful ==
  ASSUME ExpressionInv, Silence
  PROVE  Faithful(Now)' /\ Known(Cache(Now), played)' /\ (DOMAIN played = ZoneChannels)'
<1>1. /\ UNCHANGED <<expanding, dimension, splitter, played, behind>>
      /\ synths' = [p \in PortIds |-> [synths[p] EXCEPT !.notes = {}]]
  BY DEF Silence
<1>2. \A p \in PortIds : "notes" \in DOMAIN synths[p] /\ Hears(synths[p], dimension)
  BY DEF ExpressionInv, VoicesInv, Voiced, Faithful, Now, Rack
<1>3. \A p \in PortIds : synths'[p].notes = {} /\ Hears(synths'[p], dimension) /\ synths'[p].expr = synths[p].expr
  BY <1>1, <1>2 DEF Hears
<1>4. /\ Now.splitter = splitter /\ Now.synths = synths /\ Now.behind = behind
      /\ Now'.splitter = splitter /\ Now'.synths = synths' /\ Now'.behind = behind
  BY <1>1 DEF Now, Rack
<1>5. Faithful(Now)'
  BY <1>1, <1>3, <1>4 DEF Faithful, ExpressionInv
<1>6. Cache(Now)' = Cache(Now)
  BY <1>1, <1>4 DEF Cache
<1> QED BY <1>1, <1>5, <1>6, KnownSame

LEMMA ExpressFaithful ==
  ASSUME ExpressionInv, NEW c \in ZoneChannels, NEW v, Express(c, v)
  PROVE  Faithful(Now)' /\ Known(Cache(Now), played)' /\ (DOMAIN played = ZoneChannels)'
<1>1. PICK m : m = Expression(dimension, IF expanding THEN SourceChannel ELSE c, v)
  OBVIOUS
<1>2. PICK x : x = Expression(dimension, c, v)
  OBVIOUS
<1>3. /\ Process(alloc, Now, m) /\ played' = [played EXCEPT ![c] = v]
      /\ expanding => c = ManagerChannel
      /\ dimension \in Dimensions /\ dimension \in {"bend", "cc74", "pressure"}
  BY <1>1, SplitAssumption DEF Express, Receive, Now, ExpressionInv, VoicesInv
<1>4. Quiet(x) /\ x.kind = dimension /\ x.channel = c /\ x.value = v
  BY <1>2, <1>3 DEF Quiet, Expression
<1>5. PICK through : through = IF expanding THEN Expand(alloc, m) ELSE Expanded(alloc, <<m>>)
  OBVIOUS
<1>6. through.msgs = <<x>>
  <2>1. CASE ~expanding
    BY <1>1, <1>2, <1>5, <2>1 DEF Expanded
  <2>2. CASE expanding
    <3>1. m.kind = dimension /\ [m EXCEPT !.channel = ManagerChannel] = x
      BY <1>1, <1>2, <1>3, <2>2 DEF Expression
    <3>2. Expand(alloc, m) = Expanded(alloc, <<x>>)
      BY <1>3, <3>1 DEF Expand
    <3> QED BY <1>5, <2>2, <3>2 DEF Expanded
  <2> QED BY <2>1, <2>2
<1>7. PICK next : next = FoldLeft(Played, Now, through.msgs)
  OBVIOUS
<1>8. next = Played(Now, x)
  BY <1>6, <1>7, RoutedOne
<1>9. RackOK(Now, Assigned) /\ Faithful(Now)
  BY RackNow DEF ExpressionInv
<1>10. Faithful(next) /\ Cache(next) = [Cache(Now) EXCEPT ![c] = v]
  BY <1>3, <1>4, <1>8, <1>9, QuietFaithful
<1>11. Faithful(Now)' /\ Cache(Now)' = Cache(next) /\ UNCHANGED <<expanding, dimension>>
  BY <1>3, <1>5, <1>7, <1>10, FaithfulNow
<1>12. DOMAIN Cache(Now) = ZoneChannels /\ DOMAIN played = ZoneChannels /\ Known(Cache(Now), played)
  BY <1>3 DEF ExpressionInv, Faithful, Cached, Cache
<1>13. \A k \in ZoneChannels : /\ Cache(Now)'[k] = IF k = c THEN v ELSE Cache(Now)[k]
                               /\ played'[k] = IF k = c THEN v ELSE played[k]
  BY <1>3, <1>10, <1>11, <1>12
<1>14. Known(Cache(Now), played)'
  <2> SUFFICES ASSUME NEW k \in ZoneChannels
               PROVE  /\ ~expanding => Cache(Now)'[k] = played'[k]
                      /\ (expanding /\ dimension # "pressure") => Cache(Now)'[k] = IF k = ManagerChannel THEN played'[k] ELSE 0
    BY <1>11 DEF Known
  <2>1. /\ ~expanding => Cache(Now)[k] = played[k]
        /\ (expanding /\ dimension # "pressure") => Cache(Now)[k] = IF k = ManagerChannel THEN played[k] ELSE 0
    BY <1>12 DEF Known
  <2> QED BY <1>3, <1>13, <2>1
<1> QED BY <1>3, <1>11, <1>12, <1>14

LEMMA PressHarderFaithful ==
  ASSUME ExpressionInv, NEW k \in Fingers, NEW v, PressHarder(k, v)
  PROVE  Faithful(Now)' /\ Known(Cache(Now), played)' /\ (DOMAIN played = ZoneChannels)'
<1>1. PICK m : m = Aftertouch(k[1], k[2], v)
  OBVIOUS
<1>2. Process(alloc, Now, m) /\ UNCHANGED played /\ expanding /\ dimension = "pressure" /\ dimension \in Dimensions
  BY <1>1 DEF PressHarder, Receive, Now, ExpressionInv, VoicesInv
<1>3. PICK c : c = IF alloc.noteChannel[k[2]] = NoChannel THEN ManagerChannel ELSE alloc.noteChannel[k[2]]
  OBVIOUS
<1>4. c \in ZoneChannels
  <2>1. k[2] \in ZoneNotes
    BY FingersAreKeys DEF ExpressionInv
  <2>2. alloc.noteChannel \in [ZoneNotes -> OrNone]
    BY <1>2 DEF ExpressionInv, VoicesInv, Ready, Keeps
  <2> QED BY <1>3, <2>1, <2>2 DEF ZoneChannels, OrNone
<1>5. PICK x : x = Expression("pressure", c, v)
  OBVIOUS
<1>6. Quiet(x) /\ x.channel = c
  BY <1>5 DEF Quiet, Expression
<1>7. PICK through : through = IF expanding THEN Expand(alloc, m) ELSE Expanded(alloc, <<m>>)
  OBVIOUS
<1>8. through.msgs = <<x>>
  <2>1. m.kind = "aftertouch" /\ m.note = k[2] /\ m.value = v
    BY <1>1 DEF Aftertouch
  <2>2. through = Expanded(alloc, <<x>>)
    BY <1>2, <1>3, <1>5, <1>7, <2>1 DEF Expand, ExpandAftertouch
  <2> QED BY <2>2 DEF Expanded
<1>9. PICK next : next = FoldLeft(Played, Now, through.msgs)
  OBVIOUS
<1>10. next = Played(Now, x)
  BY <1>8, <1>9, RoutedOne
<1>11. RackOK(Now, Assigned) /\ Faithful(Now)
  BY RackNow DEF ExpressionInv
<1>12. Faithful(next)
  BY <1>2, <1>4, <1>6, <1>10, <1>11, QuietFaithful
<1>13. Faithful(Now)' /\ UNCHANGED <<expanding, dimension>>
  BY <1>2, <1>7, <1>9, <1>12, FaithfulNow
<1> QED BY <1>2, <1>13, KnownSame

\* What a key that goes down and one that goes up are to the splitter.
LEMMA PressedMessages ==
  ASSUME VoicesInv, NEW c \in KeyChannels, NEW n \in ZoneNotes, Press(c, n),
         NEW through, through = (IF expanding THEN Expand(alloc, On(c, n)) ELSE Expanded(alloc, <<On(c, n)>>))
  PROVE  \E d \in MemberChannels :
           /\ \A k \in Assigned : k[1] # d /\ k[2] # n
           /\ \/ ~expanding /\ through.msgs = <<On(d, n)>>
              \/ expanding /\ (through.msgs = <<Zero(d), On(d, n)>> \/ through.msgs = <<Config, Zero(d), On(d, n)>>)
<1>1. Room(c) /\ \A k \in Fingers : k[2] # n
  BY DEF Press
<1>2. CASE ~expanding
  <2>1. c \in MemberChannels /\ Assigned = Fingers /\ \A k \in Fingers : k[1] # c
    BY <1>1, <1>2 DEF KeyChannels, Assigned, Room
  <2>2. through.msgs = <<On(c, n)>>
    BY <1>2 DEF Expanded
  <2> QED BY <1>1, <1>2, <2>1, <2>2
<1>3. CASE expanding
  <2>1. PICK a : a = alloc
    OBVIOUS
  <2>2. c = SourceChannel /\ Assigned = SoundsOf(a.noteChannel) /\ Ready(a) /\ Covers(Fingers, a.noteChannel)
    BY <1>3, <2>1 DEF KeyChannels, Assigned, VoicesInv
  <2>3. a.noteChannel[n] = NoChannel
    <3>1. <<SourceChannel, n>>[2] = n
      OBVIOUS
    <3> QED BY <1>1, <2>2, <3>1 DEF Covers
  <2>4. IsFiniteSet(Fingers) /\ Cardinality(Fingers) < Members
    BY <1>1, <1>3, FingersAreKeys DEF Room
  <2>5. through = ExpandNoteOn(a, n)
    BY <1>3, <2>1 DEF Expand, On
  <2>6. PICK d \in MemberChannels : Started(a, through, d, n)
    BY <2>2, <2>3, <2>4, <2>5, ReadyPress
  <2> QED BY <1>3, <2>2, <2>6 DEF Started
<1> QED BY <1>2, <1>3

LEMMA LiftedMessages ==
  ASSUME VoicesInv, NEW key \in Fingers,
         NEW through, through = (IF expanding THEN Expand(alloc, Off(key[1], key[2]))
                                 ELSE Expanded(alloc, <<Off(key[1], key[2])>>))
  PROVE  \/ through.msgs = <<>>
         \/ \E d : /\ <<d, key[2]>> \in Assigned
                   /\ \/ ~expanding /\ through.msgs = <<Off(d, key[2])>>
                      \/ expanding /\ through.msgs = <<Zero(d), Off(d, key[2])>>
<1>1. PICK c, n : c = key[1] /\ n = key[2]
  OBVIOUS
<1>2. n \in ZoneNotes /\ <<c, n>> = key
  BY <1>1, FingersAreKeys
<1>3. CASE ~expanding
  <2>1. through.msgs = <<Off(c, n)>> /\ <<c, n>> \in Assigned
    BY <1>1, <1>2, <1>3 DEF Expanded, Assigned
  <2> QED BY <1>1, <1>3, <2>1
<1>4. CASE expanding
  <2>1. PICK a : a = alloc
    OBVIOUS
  <2>2. Assigned = SoundsOf(a.noteChannel) /\ Ready(a)
    BY <1>4, <2>1 DEF Assigned, VoicesInv
  <2>3. through = ExpandNoteOff(a, n)
    BY <1>1, <1>4, <2>1 DEF Expand, Off
  <2>4. through.msgs = <<>> \/ \E d \in MemberChannels : Ended(a, through, d, n)
    BY <1>2, <2>2, <2>3, ReadyLift
  <2>5. \A d : Ended(a, through, d, n) => through.msgs = <<Zero(d), Off(d, n)>> /\ <<d, n>> \in Assigned
    BY <2>2 DEF Ended
  <2> QED BY <1>1, <1>4, <2>4, <2>5
<1> QED BY <1>3, <1>4

LEMMA PressFaithful ==
  ASSUME ExpressionInv, NEW c \in KeyChannels, NEW n \in ZoneNotes, Press(c, n)
  PROVE  Faithful(Now)' /\ Known(Cache(Now), played)' /\ (DOMAIN played = ZoneChannels)'
<1>1. PICK m : m = On(c, n)
  OBVIOUS
<1>2. Process(alloc, Now, m) /\ UNCHANGED played /\ dimension \in Dimensions
  BY <1>1 DEF Press, Receive, Now, ExpressionInv, VoicesInv
<1>3. PICK through : through = IF expanding THEN Expand(alloc, m) ELSE Expanded(alloc, <<m>>)
  OBVIOUS
<1>4. PICK d \in MemberChannels :
        /\ \A k \in Assigned : k[1] # d /\ k[2] # n
        /\ \/ ~expanding /\ through.msgs = <<On(d, n)>>
           \/ expanding /\ (through.msgs = <<Zero(d), On(d, n)>> \/ through.msgs = <<Config, Zero(d), On(d, n)>>)
  BY <1>1, <1>3, PressedMessages DEF ExpressionInv
<1>5. PICK msgs : msgs = through.msgs
  OBVIOUS
<1>6. PICK next : next = FoldLeft(Played, Now, msgs)
  OBVIOUS
<1>7. RackOK(Now, Assigned) /\ Faithful(Now)
  BY RackNow DEF ExpressionInv
<1>8. Faithful(next) /\ (dimension # "pressure" \/ ~expanding => Cache(next) = Cache(Now))
  <2>1. msgs = <<On(d, n)>> \/ msgs = <<Zero(d), On(d, n)>> \/ msgs = <<Config, Zero(d), On(d, n)>>
    BY <1>4, <1>5
  <2>2. /\ Faithful(FoldLeft(Played, Now, msgs))
        /\ dimension # "pressure" \/ msgs = <<On(d, n)>> => Cache(FoldLeft(Played, Now, msgs)) = Cache(Now)
    BY <1>2, <1>4, <1>7, <2>1, RoutedOnFaithful
  <2> QED BY <1>4, <1>5, <1>6, <2>2
<1>9. Faithful(Now)' /\ Cache(Now)' = Cache(next) /\ UNCHANGED <<expanding, dimension>>
  <2>1. next = FoldLeft(Played, Now, through.msgs)
    BY <1>5, <1>6
  <2> QED BY <1>2, <1>3, <1>8, <2>1, FaithfulNow
<1> QED BY <1>2, <1>8, <1>9, KnownSame DEF ExpressionInv, VoicesInv

LEMMA LiftFaithful ==
  ASSUME ExpressionInv, NEW i \in DOMAIN fingers, Lift(i)
  PROVE  Faithful(Now)' /\ Known(Cache(Now), played)' /\ (DOMAIN played = ZoneChannels)'
<1>1. PICK key \in Fingers : key = fingers[i]
  BY DEF Fingers
<1>2. PICK n, m : n = key[2] /\ m = Off(key[1], key[2])
  OBVIOUS
<1>3. Process(alloc, Now, m) /\ UNCHANGED played /\ dimension \in Dimensions
  BY <1>1, <1>2 DEF Lift, Receive, Now, ExpressionInv, VoicesInv
<1>4. PICK through : through = IF expanding THEN Expand(alloc, m) ELSE Expanded(alloc, <<m>>)
  OBVIOUS
<1>5. \/ through.msgs = <<>>
      \/ \E d : /\ <<d, n>> \in Assigned
                /\ \/ ~expanding /\ through.msgs = <<Off(d, n)>>
                   \/ expanding /\ through.msgs = <<Zero(d), Off(d, n)>>
  BY <1>2, <1>4, LiftedMessages DEF ExpressionInv
<1>6. PICK msgs : msgs = through.msgs
  OBVIOUS
<1>7. PICK next : next = FoldLeft(Played, Now, msgs)
  OBVIOUS
<1>8. RackOK(Now, Assigned) /\ Faithful(Now)
  BY RackNow DEF ExpressionInv
<1>9. Faithful(next) /\ (dimension # "pressure" \/ ~expanding => Cache(next) = Cache(Now))
  <2>1. CASE msgs = <<>>
    <3>1. next = Now
      BY <1>7, <2>1, RoutedOne
    <3> QED BY <1>8, <3>1
  <2>2. ASSUME NEW d, <<d, n>> \in Assigned, \/ ~expanding /\ msgs = <<Off(d, n)>>
                                             \/ expanding /\ msgs = <<Zero(d), Off(d, n)>>
        PROVE  Faithful(next) /\ (dimension # "pressure" \/ ~expanding => Cache(next) = Cache(Now))
    <3>1. msgs = <<Off(d, n)>> \/ msgs = <<Zero(d), Off(d, n)>>
      BY <2>2
    <3>2. /\ Faithful(FoldLeft(Played, Now, msgs))
          /\ dimension # "pressure" \/ msgs = <<Off(d, n)>> => Cache(FoldLeft(Played, Now, msgs)) = Cache(Now)
      BY <1>3, <1>8, <2>2, <3>1, RoutedOffFaithful
    <3> QED BY <1>7, <2>2, <3>2
  <2> QED BY <1>5, <1>6, <2>1, <2>2
<1>10. Faithful(Now)' /\ Cache(Now)' = Cache(next) /\ UNCHANGED <<expanding, dimension>>
  <2>1. next = FoldLeft(Played, Now, through.msgs)
    BY <1>6, <1>7
  <2> QED BY <1>3, <1>4, <1>9, <2>1, FaithfulNow
<1> QED BY <1>3, <1>9, <1>10, KnownSame DEF ExpressionInv, VoicesInv

LEMMA FreshExpression == Init => ExpressionInv
<1> SUFFICES ASSUME Init PROVE Faithful(Now) /\ Known(Cache(Now), played) /\ DOMAIN played = ZoneChannels
  BY FreshVoices DEF ExpressionInv
<1>1. /\ splitter = FreshSplitter /\ synths = [p \in PortIds |-> SilentSynth] /\ behind = {}
      /\ played = [c \in ZoneChannels |-> 0] /\ dimension \in Dimensions
  BY DEF Init
<1>2. Now.splitter = FreshSplitter /\ Now.synths = synths /\ Now.behind = {}
  BY <1>1 DEF Now, Rack
<1>3. /\ FreshSplitter.portChannel = [p \in PortIds |-> NoChannel]
      /\ FreshSplitter.last = [d \in Dimensions |-> [p \in PortIds |-> 0]]
      /\ FreshSplitter.expr = [d \in Dimensions |-> [c \in ZoneChannels |-> 0]]
  BY DEF FreshSplitter
<1>4. Cached(FreshSplitter)
  BY <1>3 DEF Cached
<1>5. UpToDate(FreshSplitter, dimension)
  BY <1>3 DEF UpToDate, Sounds
<1>6. \A p \in PortIds : Hears(synths[p], dimension) /\ synths[p].expr[dimension] = 0 /\ synths[p].notes = {}
  BY <1>1 DEF SilentSynth, Hears
<1>7. \A p \in PortIds : FreshSplitter.last[dimension][p] = 0
  BY <1>1, <1>3
<1>8. Faithful(Now)
  BY <1>2, <1>4, <1>5, <1>6, <1>7 DEF Faithful
<1>9. \A c \in ZoneChannels : Cache(Now)[c] = 0 /\ played[c] = 0
  BY <1>1, <1>2, <1>3 DEF Cache
<1> QED BY <1>1, <1>8, <1>9 DEF Known

LEMMA ExpressionStep == ExpressionInv /\ [Next]_voicesVars => ExpressionInv'
<1> SUFFICES ASSUME ExpressionInv, [Next]_voicesVars
             PROVE  Faithful(Now)' /\ Known(Cache(Now), played)' /\ (DOMAIN played = ZoneChannels)'
  BY VoicesStep DEF ExpressionInv
<1>1. CASE Next
  <2>1. \A c \in Expressive : c \in ZoneChannels
    BY VoicesAssumption
  <2>2. ASSUME Panic \/ Disconnect PROVE Silence
    BY <2>2 DEF Panic, Disconnect
  <2> QED BY <1>1, <2>1, <2>2, PressFaithful, LiftFaithful, ExpressFaithful, PressHarderFaithful, SilenceFaithful,
             AnnounceFaithful DEF Next
<1>2. CASE UNCHANGED voicesVars
  <2>1. UNCHANGED <<expanding, dimension, played, splitter, synths, behind>>
    BY <1>2 DEF voicesVars
  <2>2. Now' = Now
    BY <2>1 DEF Now, Rack
  <2>3. Faithful(Now)'
    BY <2>1, <2>2 DEF ExpressionInv, Faithful
  <2>4. Cache(Now)' = Cache(Now)
    BY <2>1, <2>2 DEF Cache
  <2> QED BY <2>1, <2>3, <2>4, KnownSame
<1> QED BY <1>1, <1>2

\* A voice has the note of one key, and that key's channel is its own.
LEMMA VoiceOfKey ==
  ASSUME VoicesInv, NEW k \in Fingers, NEW p \in PortIds, k[2] \in synths[p].notes
  PROVE  /\ splitter.portChannel[p] \in MemberChannels
         /\ ~expanding => splitter.portChannel[p] = k[1]
<1>1. PICK n \in synths[p].notes : n = k[2]
  OBVIOUS
<1> PICK x : x = splitter.portChannel[p]
  OBVIOUS
<1>2. <<x, n>> \in Assigned
  BY DEF VoicesInv, Voiced
<1>3. PICK a \in Assigned : a = <<x, n>>
  BY <1>2
<1>4. a[1] = x /\ a[2] = n /\ x \in MemberChannels
  BY <1>3 DEF VoicesInv, Assignments
<1>5. ASSUME ~expanding PROVE x = k[1]
  <2>1. a \in Fingers
    BY <1>5 DEF Assigned
  <2>2. PICK i, j \in DOMAIN fingers : fingers[i] = a /\ fingers[j] = k
    BY <2>1 DEF Fingers
  <2>3. i = j
    BY <1>1, <1>4, <2>2 DEF VoicesInv, EachOnce
  <2> QED BY <1>4, <2>2, <2>3
<1> QED BY <1>1, <1>4, <1>5

\* mpesplit: a note that sounds has the expression of the zone and its own together,
\* also what was played before it started or while its port was someone else's
\* (README.md of mpesplit: the zone's messages and the note's are "combined"). A
\* zone reset puts a synth behind by no more than the value it had, and a pressure
\* of zero is not sent to a note that starts.
THEOREM ExpressionIsHeard == Spec => []ExpressionFollows
<1>1. ExpressionInv => ExpressionFollows
  <2> SUFFICES ASSUME ExpressionInv, NEW k \in Fingers, NEW p \in PortIds, k[2] \in synths[p].notes
               PROVE  LET heard == synths[p].expr[dimension] IN
                      IF dimension = "pressure" THEN (~expanding /\ Target(k) > 0) => heard = Target(k)
                      ELSE IF p \in behind THEN heard = 0 /\ splitter.last[dimension][p] = Target(k)
                      ELSE heard = Target(k)
    BY DEF ExpressionFollows
  <2>1. PICK c : c = splitter.portChannel[p]
    OBVIOUS
  <2>2. c \in MemberChannels /\ (~expanding => c = k[1])
    BY <2>1, VoiceOfKey DEF ExpressionInv
  <2>3. c \in ZoneChannels /\ ManagerChannel \in ZoneChannels /\ c # ManagerChannel /\ Sounds(splitter, p)
    BY <2>1, <2>2, ZoneAssumption, ChannelFacts DEF ZoneChannels, Sounds, MemberChannels, MemberChannel, ManagerChannel
  <2>4. PICK cache : cache = splitter.expr[dimension]
    OBVIOUS
  <2>5. /\ ~expanding => cache[c] = played[c]
        /\ (expanding /\ dimension # "pressure") => cache[c] = 0
        /\ dimension # "pressure" \/ ~expanding => cache[ManagerChannel] = played[ManagerChannel]
    BY <2>3, <2>4 DEF ExpressionInv, VoicesInv, Known, Cache, Now, Rack
  <2>6. dimension # "pressure" \/ ~expanding => Combined(splitter, dimension, p) = Target(k)
    <3>1. Combined(splitter, dimension, p) = Combine(dimension, cache[ManagerChannel], cache[c])
      BY <2>1, <2>4 DEF Combined
    <3> QED BY <2>2, <2>5, <3>1 DEF Target, ExpressionInv, VoicesInv
  <2>7. /\ dimension # "pressure" =>
             /\ splitter.last[dimension][p] = Combined(splitter, dimension, p)
             /\ synths[p].expr[dimension] = IF p \in behind THEN 0 ELSE splitter.last[dimension][p]
        /\ dimension = "pressure" =>
             Combined(splitter, dimension, p) = 0 \/ synths[p].expr[dimension] = Combined(splitter, dimension, p)
    BY <2>3 DEF ExpressionInv, Faithful, UpToDate, Now, Rack
  <2> QED BY <2>6, <2>7
<1> QED BY <1>1, FreshExpression, ExpressionStep, PTL DEF Spec
=============================================================================
