----------------------------- MODULE MpeVoices -----------------------------
(* A route that spreads its notes over a rack of monophonic synths with    *)
(* mpesplit, played by an MPE controller or, through mpexp, by an ordinary *)
(* keyboard, and reconfigured while it sounds. Every action runs under the *)
(* callback lock.                                                          *)
EXTENDS MpeExpand, MpeSplit, McmTracker, TLC

CONSTANTS
  SourceChannel,    \* the channel mpexp expands
  Expressive        \* the zone's channels on which expression is played

ASSUME VoicesAssumption ==
  SourceChannel \in 1..16 /\ Expressive \subseteq ZoneChannels /\ NoNote \notin ZoneNotes

\* Note numbers are only compared with each other, so that TLC may exchange them.
NoteSymmetry == Permutations(ZoneNotes)

VARIABLES
  expanding,        \* whether the route has an mpexp
  dimension,        \* the expression that is played
  alloc,            \* the Allocator of the input
  splitter,         \* route.mpeSplit
  fingers,          \* the keys that are held, <<channel, note>>, longest first
  played,           \* what the player has dialled in last, per channel
  announced,        \* input.mcm, for this zone
  synths,           \* what sounds on each port, and its expression
  behind            \* the ports that lost their expression to a zone reset

voicesVars == <<expanding, dimension, alloc, splitter, fingers, played, announced, synths, behind>>

SilentSynth == [notes |-> {}, expr |-> [d \in Dimensions |-> 0]]

\* A synth on a port.
Play(synth, m) ==
  CASE m.kind = "on"  -> [synth EXCEPT !.notes = @ \union {m.note}]
    [] m.kind = "off" -> [synth EXCEPT !.notes = @ \ {m.note}]
    [] OTHER          -> [synth EXCEPT !.expr[m.kind] = m.value]

\* The splitter, the synths behind it and the ports that missed something.
Rack(s, ss, missed) == [splitter |-> s, synths |-> ss, behind |-> missed]

\* What becomes of them with one message.
Played(rack, m) ==
  LET r == SplitMessage(rack.splitter, m)
  IN Rack(r.splitter,
          [p \in PortIds |-> FoldLeft(Play, rack.synths[p], r.sent[p])],
          {p \in rack.behind : \A i \in DOMAIN r.sent[p] : r.sent[p][i].kind # dimension})

\* processRouteMessage: the MPE operations, then the split.
Process(a, rack, m) ==
  \E through \in {IF expanding THEN Expand(a, m) ELSE Expanded(a, <<m>>)} :
  \E routed \in {FoldLeft(Played, rack, through.msgs)} :
    /\ alloc' = through.alloc
    /\ splitter' = routed.splitter
    /\ synths' = routed.synths
    /\ behind' = routed.behind
    /\ UNCHANGED <<expanding, dimension>>

Receive(m) == Process(alloc, Rack(splitter, synths, behind), m) /\ UNCHANGED announced

Fingers == {fingers[i] : i \in DOMAIN fingers}

KeyChannels == IF expanding THEN {SourceChannel} ELSE MemberChannels

\* An MPE controller gives every finger a channel of its own while it has one.
Room(c) == IF expanding THEN Cardinality(Fingers) < Members ELSE \A k \in Fingers : k[1] # c

Press(c, n) ==
  /\ Room(c)
  /\ \A k \in Fingers : k[2] # n
  /\ fingers' = Append(fingers, <<c, n>>)
  /\ Receive(On(c, n))
  /\ UNCHANGED played

Lift(i) ==
  /\ fingers' = RemoveAt(fingers, i)
  /\ Receive(Off(fingers[i][1], fingers[i][2]))
  /\ UNCHANGED played

\* Expression of the whole zone, or of a member channel of a controller.
Express(c, v) ==
  /\ c = ManagerChannel \/ ~expanding
  /\ v # played[c]
  /\ played' = [played EXCEPT ![c] = v]
  /\ Receive(Expression(dimension, IF expanding THEN SourceChannel ELSE c, v))
  /\ UNCHANGED fingers

PressHarder(k, v) ==
  /\ expanding /\ dimension = "pressure"
  /\ Receive(Aftertouch(k[1], k[2], v))
  /\ UNCHANGED <<fingers, played>>

\* sendPanic: every synth is silenced, the allocator starts over and the
\* splitter is left as it is.
Silence ==
  /\ alloc' = FreshAllocator
  /\ synths' = [p \in PortIds |-> [synths[p] EXCEPT !.notes = {}]]
  /\ UNCHANGED <<expanding, dimension, splitter, played, announced, behind>>

Panic == Silence /\ UNCHANGED fingers

\* The input of a panic route disconnects; what its player held is forgotten.
Disconnect == PanicRoute /\ Silence /\ fingers' = <<>>

\* All-notes-off and reset-all-controllers, which a timbre survives.
ControllersReset(synth) ==
  [notes |-> {}, expr |-> [d \in Dimensions |-> IF d = "cc74" THEN synth.expr[d] ELSE 0]]

\* The ports whose synths have another expression than the splitter takes them to
\* have when their controllers are reset.
Overtaken ==
  IF dimension = "bend" THEN {p \in PortIds : splitter.last["bend"][p] # 0} ELSE {}

\* sendZoneReset, before the announcement itself moves on: like a panic, and the
\* controllers of the synths are reset.
Announce(members) ==
  /\ announced' = members
  /\ LET message == Announcement(SourceChannel, members)
     IN IF ResetsZone(announced, members)
        THEN Process(FreshAllocator, Rack(splitter, [p \in PortIds |-> ControllersReset(synths[p])], Overtaken), message)
        ELSE Process(alloc, Rack(splitter, synths, behind), message)
  /\ UNCHANGED <<fingers, played>>

Init ==
  /\ expanding \in BOOLEAN
  /\ dimension \in Dimensions
  /\ alloc = FreshAllocator
  /\ splitter = FreshSplitter
  /\ fingers = <<>>
  /\ played = [c \in ZoneChannels |-> 0]
  /\ announced = NotAnnounced
  /\ synths = [p \in PortIds |-> SilentSynth]
  /\ behind = {}

Next ==
  \/ \E c \in KeyChannels, n \in ZoneNotes : Press(c, n)
  \/ \E i \in DOMAIN fingers : Lift(i)
  \/ \E c \in Expressive, v \in Values : Express(c, v)
  \/ \E k \in Fingers, v \in Values : PressHarder(k, v)
  \/ Panic
  \/ Disconnect
  \/ \E members \in Announced : Announce(members)

Spec == Init /\ [][Next]_voicesVars
-----------------------------------------------------------------------------
\* A synth never sounds a note whose key is up: README.md of mpesplit, the
\* note's messages follow "it to the same port until it is released".
EveryReleaseIsHeard ==
  \A p \in PortIds : synths[p].notes \subseteq {k[2] : k \in Fingers}

\* A note whose key stays down is cut off only to make room, while every port
\* sounds, and then it is the oldest (README.md of mpesplit: "the oldest note
\* is released to make room"), or by a panic or a zone reset. These leave the
\* splitter believing that silent ports are busy, and still it must not rob a
\* sounding one.
Sounding == UNION {synths[p].notes : p \in PortIds}

OldestMakesRoom ==
  [][\A i, j \in DOMAIN fingers :
       (~Silence /\ ~ResetsZone(announced, announced') /\ fingers[i] \in Fingers' /\ fingers[i][2] \in Sounding \ Sounding') =>
         /\ \A p \in PortIds : synths[p].notes # {}
         /\ fingers[j][2] \in Sounding => i <= j]_voicesVars

\* While a note sounds, the expression its synth was sent is the combination
\* of the zone's and the note's own, also what was played before the note
\* started or while its port was someone else's. A zone reset puts synths behind
\* what the splitter believes they have, and such a synth misses no more than
\* the value it was reset from: whatever else is played, it is sent. A pressure
\* of zero is not sent to a note that starts.
Target(k) == Combine(dimension, played[ManagerChannel], IF expanding THEN 0 ELSE played[k[1]])

ExpressionFollows ==
  \A k \in Fingers, p \in PortIds :
    k[2] \in synths[p].notes =>
      LET heard == synths[p].expr[dimension] IN
      IF dimension = "pressure" THEN (~expanding /\ Target(k) > 0) => heard = Target(k)
      ELSE IF p \in behind THEN heard = 0 /\ splitter.last[dimension][p] = Target(k)
      ELSE heard = Target(k)
=============================================================================
