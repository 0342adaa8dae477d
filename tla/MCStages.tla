------------------------------ MODULE MCStages ------------------------------
(* Parts that work alone, each in a small instance of its own: a pedal     *)
(* transform, a mono transform, an MPE expansion, relocation and collapse, *)
(* a declared bend range and a port of a split zone, the converter stage   *)
(* and its pressure collapse, each between its player and its instrument,  *)
(* a polled capture ring, a client that starts and edits routes, the       *)
(* numbers of the commands, and the scaling of every value. A behaviour    *)
(* exercises one of them. NoteTransforms and MpeVoices have the first      *)
(* three at work together.                                                 *)
EXTENDS PedalStage, MonoStage, ExpandStage, Capture, ConvertStage, PressureStage, ScalingSweep,
  RelocateStage, CollapseStage, SensStage, PortStage, McpRoutes, CommandNumbers

OneChannel == {1}
ThreeNotes == 60..62
FourNotes == 60..63

ConvertRule(src, srcNum, dst, dstNum) ==
  [op |-> "convert", src |-> src, srcNum |-> srcNum, dst |-> dst, dstNum |-> dstNum, amount |-> 0]
InPlaceRule(op, src, srcNum, amount) ==
  [op |-> op, src |-> src, srcNum |-> srcNum, dst |-> src, dstNum |-> srcNum, amount |-> amount]

NrpnA == Source("nrpn", 1)
NrpnB == Source("nrpn", 2)
RpnA == Source("rpn", 1)
DataEntry == Source("cc14", 6)
Fader == Source("cc14", 1)

Filter(kind, number) ==
  [kind |-> kind, numbers |-> [low |-> number, high |-> number], window |-> AnyNumber, negate |-> FALSE]
Not(f) == [f EXCEPT !.negate = TRUE]
RangeFilter(number, low, high) ==
  [Filter("cc14range", number) EXCEPT !.window = [low |-> low, high |-> high]]
FamilyFilter(kind) == [Filter(kind, 0) EXCEPT !.numbers = AnyNumber]

Setup(fs, rs, sources) == [filters |-> fs, rules |-> rs, sources |-> sources]

\* Parameters and data entry that rules take next to others that they leave,
\* of the same kind and of the other, and rules that send parameters anew.
Conversions ==
  {Setup(<<>>, <<ConvertRule("nrpn", 1, "cc14", 1)>>, {NrpnA, NrpnB}),
   Setup(<<>>, <<ConvertRule("nrpn", 1, "rpn", 300), ConvertRule("nrpn", 1, "cp", 0)>>, {NrpnA, RpnA}),
   Setup(<<>>, <<InPlaceRule("invert", "nrpn", 1, 0)>>, {NrpnA, NrpnB, DataEntry}),
   Setup(<<>>, <<ConvertRule("nrpn", 1, "cc", 7), ConvertRule("nrpn", 2, "cc", 70)>>, {NrpnA, NrpnB}),
   Setup(<<>>, <<ConvertRule("cc14", 6, "cc", 70), ConvertRule("rpn", 1, "pb", 0), ConvertRule("cc", 20, "cc", 71)>>,
         {RpnA, DataEntry}),
   Setup(<<>>, <<InPlaceRule("invert", "cc14", 6, 0)>>, {NrpnA, DataEntry}),
   Setup(<<>>, <<InPlaceRule("add", "rpn", 1, 4000), InPlaceRule("set", "cc14", 6, 9000)>>, {RpnA, DataEntry})}

\* Filters that share controllers with what they keep out, filters of other
\* channels, the window of a pair, and filters in front of a rule.
Filterings ==
  {Setup(<<Filter("nrpn", 1), Filter("cc14", 1)>>, <<>>, {NrpnA, RpnA, Fader}),
   Setup(<<Filter("ch", 1), Filter("nrpn", 1), Filter("ch", 2), Filter("nrpn", 2), Filter("cc", 20)>>, <<>>,
         {NrpnA, NrpnB}),
   Setup(<<RangeFilter(1, 400, 511), FamilyFilter("nrpn")>>, <<>>, {NrpnA, Fader}),
   Setup(<<Not(RangeFilter(1, 400, 511)), Not(Filter("cc", 20))>>, <<>>, {NrpnA, Fader}),
   Setup(<<Filter("nrpn", 1)>>, <<ConvertRule("nrpn", 1, "cc", 7)>>, {NrpnA, NrpnB}),
   Setup(<<Filter("ch", 1), Not(Filter("ch", 2))>>, <<>>, {RpnA}),
   Setup(<<Filter("ch", 1), Filter("cc", 20), Filter("ch", 2), Not(Filter("ch", 1))>>, <<>>, {Fader}),
   Setup(<<Not(Filter("ch", 2)), Filter("cc14", 1), Filter("ch", 2), Not(Filter("cc14", 1))>>, <<>>, {NrpnA, Fader}),
   Setup(<<Not(Filter("cc", 20)), Filter("ch", 1), Filter("ch", 2)>>, <<>>, {Fader})}

AllSetups == Conversions \union Filterings
NegatedSetups == {Setup(<<Not(Filter("nrpn", 1))>>, <<>>, {NrpnA, NrpnB})}

\* Commands of every kind, whole and cut short, in front of, between and behind
\* the ports of a route. What follows convert is permitted and whole.
In(name) == <<"in", name>>
Out(name) == <<"out", name>>
Phrases ==
  {<<"cc", "7">>, <<"cc">>, <<"not">>, <<"hex">>, <<"omc", "4">>, <<"transp", "9">>, <<"transp">>, <<"ch", "lower">>,
   <<"mpe", "lower", "upper">>, <<"mpe", "lower", "7">>, <<"convert", "cc", "7">>, <<"mon">>, <<"panic">>, <<"cp">>,
   <<"latch">>, <<"mpesplit", "lower">>, <<"mpesplit">>, <<"sustain">>, In("C"), Out("D"), In("-"), <<"cp", "7">>}
AfterConvert == {<<"convert", "cc", "7", "cp">>, <<"convert", "pp", "cc", "7">>, <<"mpesplit", "lower">>, <<"cp">>}
WholeOpenings ==
  {<<In("A"), p, q, Out("B")>> : p, q \in Phrases} \union {<<In("A"), Out("B"), p, q>> : p, q \in Phrases}
  \union {<<p, In("A"), Out("B")>> : p \in Phrases} \union {<<In("A"), p>> : p \in Phrases}
  \union {<<In("A"), p, q, Out("B")>> : p, q \in AfterConvert}
LaterCalls ==
  {<<In("C"), <<"hex">>, Out("D")>>, <<In("C")>>, <<In("C"), <<"cp">>, Out("D"), In("A"), Out("B")>>,
   <<In("C"), <<"omc", "4">>, Out("D"), In("A"), Out("B"), In("A"), Out("B")>>, << <<"transp">> >>,
   << <<"hex">>, <<"omc", "5">> >>}
SomeEdits ==
  {<< <<"not">>, <<"cc", "7">> >>, << <<"transp", "7">>, <<"mpe", "lower", "7">> >>, << <<"mpesplit", "upper">> >>,
   << <<"hex">> >>, << <<"latch">>, <<"sustain">> >>, << <<"convert", "cc", "7", "cp">>, <<"cp">>, <<"not">>, <<"cc", "9">> >>,
   << <<"convert", "cc", "7", "cp", "9">> >>}

\* A command cut short behind a conversion.
CutShort == {<<In("A"), Out("B"), <<"convert", "cc", "7", "cp">>, <<"transp">> >>}

VARIABLE part       \* the part that this behaviour exercises

allVars == <<part, pedalVars, monoVars, expandVars, captureVars, convertVars, pressureVars, sweepVars,
             relocateVars, collapseVars, sensVars, portVars, mcpVars, numberVars>>

Init ==
  /\ part \in {"pedal", "mono", "expand", "capture", "convert", "pressure", "scaling",
              "relocate", "collapse", "sens", "port", "session", "numbers"}
  /\ PedalInit /\ MonoInit /\ ExpandInit /\ CaptureInit /\ PressureInit /\ SweepInit
  /\ RelocateInit /\ CollapseInit /\ SensInit /\ PortInit /\ McpInit
  /\ NumbersInit
  /\ part # "numbers" => base = CHOOSE b \in Bases : TRUE
  /\ ConvertInit
  /\ part # "relocate" => relocateKind = "bend"
  /\ part # "sens" => semitones = CHOOSE s \in SensRanges : TRUE
  /\ part # "collapse" => collapseKind = "bend"
  /\ part # "convert" => rules = <<ConvertRule("nrpn", 1, "cc14", 1)>>

\* One part takes a step, the variables of the others stay as they are.
Turns(name, step) == part = name /\ step
Idle(names, variables) == part \notin names => UNCHANGED variables

Next ==
  /\ \/ Turns("pedal", PedalNext)     \/ Turns("mono", MonoNext)
     \/ Turns("expand", ExpandNext)   \/ Turns("capture", CaptureNext)
     \/ Turns("convert", ConvertNext) \/ Turns("pressure", PressureNext)
     \/ Turns("scaling", SweepNext)
     \/ Turns("relocate", RelocateNext) \/ Turns("collapse", CollapseNext)
     \/ Turns("sens", SensNext) \/ Turns("port", PortNext)
     \/ Turns("session", McpNext) \/ Turns("numbers", NumbersNext)
  /\ Idle({"pedal"}, pedalVars) /\ Idle({"mono"}, monoVars) /\ Idle({"expand"}, expandVars)
  /\ Idle({"capture"}, captureVars) /\ Idle({"convert"}, convertVars)
  /\ Idle({"pressure"}, pressureVars) /\ Idle({"scaling"}, sweepVars)
  /\ Idle({"relocate"}, relocateVars) /\ Idle({"collapse"}, collapseVars)
  /\ Idle({"sens"}, sensVars) /\ Idle({"port"}, portVars)
  /\ Idle({"session"}, mcpVars) /\ Idle({"numbers"}, numberVars)
  /\ UNCHANGED part

Spec == Init /\ [][Next]_allVars
=============================================================================
