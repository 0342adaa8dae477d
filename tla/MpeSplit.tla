------------------------------ MODULE MpeSplit ------------------------------
(* mpe::split (mpesplit): every output port is one monophonic voice of an  *)
(* MPE zone. The operators give the splitter left behind and what each     *)
(* port is sent for one message. The bend is counted in semitones and the  *)
(* trigger counter of the ports is kept as the order it gives; bend        *)
(* sensitivities keep their defaults and other controllers are left out.   *)
EXTENDS MpeZone, Sequences, SequencesExt

CONSTANTS
  Ports,        \* the number of outputs of the route
  Dimensions,   \* the expression that is played, of {"bend", "cc74", "pressure"}
  MaxValue      \* bound on the values it takes

ASSUME SplitAssumption ==
  /\ Ports \in Nat \ {0} /\ MaxValue \in Nat
  /\ Dimensions \subseteq {"bend", "cc74", "pressure"}

NoPort == -1
NoNote == -1
PortIds == 0..Ports - 1
Values == 0..MaxValue

FreshSplitter ==
  [channelPort |-> [c \in MemberChannels |-> NoPort],
   portChannel |-> [p \in PortIds |-> NoChannel],
   portNote    |-> [p \in PortIds |-> NoNote],
   byAge       |-> [i \in 1..Ports |-> i - 1],      \* portOrder, the oldest first
   roundRobin  |-> 0,
   last        |-> [d \in Dimensions |-> [p \in PortIds |-> 0]],
   expr        |-> [d \in Dimensions |-> [c \in ZoneChannels |-> 0]]]

\* The first free port at or after the cursor.
FreePort(s) ==
  CHOOSE p \in PortIds :
    /\ s.portChannel[p] = NoChannel
    /\ \A q \in PortIds : s.portChannel[q] = NoChannel =>
         (p - s.roundRobin) % Ports <= (q - s.roundRobin) % Ports

\* Mutant: the voice that started last is robbed.
NewestPort(s) == s.byAge[Ports]

OldestPort(s) == Head(s.byAge)

Full(s) == \A p \in PortIds : s.portChannel[p] # NoChannel

\* Bends add up in semitones, over 2 for the zone and 48 for the note; of the
\* other dimensions the larger value counts.
Combine(d, manager, member) ==
  IF d = "bend" THEN 2 * manager + 48 * member ELSE IF manager > member THEN manager ELSE member

Combined(s, d, p) == Combine(d, s.expr[d][ManagerChannel], s.expr[d][s.portChannel[p]])

Sounds(s, p) == s.portChannel[p] # NoChannel

\* emitPortBend, emitPortPressure and emitPortCC74: a pressure is always
\* sent, the others when they differ from what the port was sent last.
Due(s, d, p) == Sounds(s, p) /\ (d = "pressure" \/ Combined(s, d, p) # s.last[d][p])

Update(s, d, p) == IF Due(s, d, p) THEN <<[kind |-> d, value |-> Combined(s, d, p)]>> ELSE <<>>

Updated(s, ds, ps) ==
  [s EXCEPT !.last = [d \in Dimensions |-> [p \in PortIds |->
     IF d \in ds \ {"pressure"} /\ p \in ps /\ Sounds(s, p) THEN Combined(s, d, p) ELSE s.last[d][p]]]]

Split(s, sent) == [splitter |-> s, sent |-> sent]
ToPort(p, msgs) == [q \in PortIds |-> IF q = p THEN msgs ELSE <<>>]
Nothing == [q \in PortIds |-> <<>>]

\* A pressure of zero is not sent before a note.
Beforehand(s, d, p) ==
  IF d \notin Dimensions \/ (d = "pressure" /\ Combined(s, d, p) = 0) THEN <<>> ELSE Update(s, d, p)

\* The port a channel has, else a free one, else the oldest voice's.
Claim(s, c) ==
  IF s.channelPort[c] # NoPort THEN s
  ELSE IF ~Full(s)
  THEN LET p == FreePort(s)
       IN [s EXCEPT !.channelPort[c] = p, !.portChannel[p] = c, !.roundRobin = (p + 1) % Ports]
  ELSE LET p == OldestPort(s)
       IN [s EXCEPT !.channelPort = [[@ EXCEPT ![s.portChannel[p]] = NoPort] EXCEPT ![c] = p],
                    !.portChannel[p] = c]

Stolen(s, c) ==
  IF s.channelPort[c] = NoPort /\ Full(s) /\ s.portNote[OldestPort(s)] # NoNote
  THEN <<[kind |-> "off", note |-> s.portNote[OldestPort(s)]]>> ELSE <<>>

\* Mutant: the voice starts without the expression of its channel.
SplitNoteOnPlain(s, c, n) ==
  LET claimed == Claim(s, c)
      p       == claimed.channelPort[c]
      voiced  == [claimed EXCEPT !.portNote[p] = n, !.byAge = Append(RemoveFirst(@, p), p)]
  IN Split(voiced, ToPort(p, Stolen(s, c) \o <<[kind |-> "on", note |-> n]>>))

SplitNoteOn(s, c, n) ==
  LET claimed == Claim(s, c)
      p       == claimed.channelPort[c]
      voiced  == [claimed EXCEPT !.portNote[p] = n, !.byAge = Append(RemoveFirst(@, p), p)]
      before  == Beforehand(voiced, "bend", p) \o Beforehand(voiced, "cc74", p)
                   \o Beforehand(voiced, "pressure", p)
  IN Split(Updated(voiced, Dimensions, {p}),
           ToPort(p, Stolen(s, c) \o before \o <<[kind |-> "on", note |-> n]>>))

SplitNoteOff(s, c, n) ==
  LET p == s.channelPort[c] IN
  IF p = NoPort THEN Split(s, Nothing)
  ELSE Split([s EXCEPT !.portNote[p] = NoNote, !.portChannel[p] = NoChannel, !.channelPort[c] = NoPort],
             ToPort(p, <<[kind |-> "off", note |-> n]>>))

\* The zone's expression goes to every voice and a member's to its own.
SplitExpression(s, d, c, v) ==
  LET cached == [s EXCEPT !.expr[d][c] = v]
      ps     == IF c = ManagerChannel THEN PortIds ELSE {s.channelPort[c]} \ {NoPort}
  IN Split(Updated(cached, {d}, ps),
           [p \in PortIds |-> IF p \in ps THEN Update(cached, d, p) ELSE <<>>])

\* The MPE Configuration Message goes no further.
SplitMessage(s, m) ==
  CASE m.kind = "on"     -> SplitNoteOn(s, m.channel, m.note)
    [] m.kind = "off"    -> SplitNoteOff(s, m.channel, m.note)
    [] m.kind = "config" -> Split(s, Nothing)
    [] m.kind \in Dimensions -> SplitExpression(s, m.kind, m.channel, m.value)
    [] OTHER             -> Split(s, Nothing)
=============================================================================
