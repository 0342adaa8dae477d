----------------------------- MODULE Conversion -----------------------------
(* The converter stage, conversion::processMessage, for one channel: the   *)
(* operators give the state left behind and the messages sent on for one   *)
(* message. A rule is a convert command or a value transform (op) of a     *)
(* source; scaling and curves by a real factor are left out.               *)
EXTENDS ParamSelection, Sequences, SequencesExt

CONSTANTS
  PairControllers,  \* MSB controllers of 14-bit pairs, 0..31 in the program
  PressedNotes      \* note numbers with poly pressure, 0..127 in the program

ASSUME ConversionAssumption == PairControllers \subseteq 0..31

-----------------------------------------------------------------------------
(* bitscaling: values between resolutions of different widths, by          *)
(* Zero-Extension ("zero") or by Min-Center-Max ("center").                *)

Methods == {"zero", "center"}

\* Mutant: the bits above the centre are not repeated.
ScaleUpShift(v, srcBits, dstBits) == v * 2^(dstBits - srcBits)

\* Above the centre the lower bits of the value are repeated, so that the
\* maximum goes to the maximum. The repeats never overlap, so adding is "or".
ScaleUpMinCenterMax(v, srcBits, dstBits) ==
  LET scaleBits  == dstBits - srcBits
      repeatBits == srcBits - 1
      low        == v % 2^repeatBits
      aligned    == IF scaleBits > repeatBits THEN low * 2^(scaleBits - repeatBits)
                                              ELSE low \div 2^(repeatBits - scaleBits)
      repeated[r \in 0..2^scaleBits - 1] ==
        IF r = 0 THEN 0 ELSE r + repeated[r \div 2^repeatBits]
  IN v * 2^scaleBits + (IF v <= 2^(srcBits - 1) THEN 0 ELSE repeated[aligned])

ScaleDownRounded(v, scaleBits, dstBits) ==
  LET shifted == (v + 2^(scaleBits - 1)) \div 2^scaleBits
  IN IF shifted < 2^dstBits - 1 THEN shifted ELSE 2^dstBits - 1

ScaleValue(v, srcBits, dstBits, method) ==
  IF srcBits = dstBits THEN v
  ELSE IF dstBits > srcBits
  THEN IF method = "zero" THEN v * 2^(dstBits - srcBits) ELSE ScaleUpMinCenterMax(v, srcBits, dstBits)
  ELSE IF method = "zero" THEN ScaleDownRounded(v, srcBits - dstBits, dstBits)
                          ELSE v \div 2^(srcBits - dstBits)

-----------------------------------------------------------------------------
(* The state of the stage, and what rules send.                            *)

AnyNote == -1
CC(number, value) == [kind |-> "cc", number |-> number, value |-> value]

FreshConverter ==
  [selection |-> NoSelection, selBuf |-> <<>>, selIntercepted |-> FALSE, valMsb |-> -1,
   rpn14Param |-> [t \in {"rpn", "nrpn"} |-> NoParam],
   ccMsb |-> [n \in PairControllers |-> -1], cc14LsbSeen |-> [n \in PairControllers |-> FALSE],
   pressure |-> [n \in PressedNotes |-> -1], lastMax |-> -1]

Converted(state, out) == [state |-> state, out |-> out]
ValueBits(t) == IF t \in {"cc14", "rpn", "nrpn", "pb"} THEN 14 ELSE 7

LegacyRpn(t, num) == t = "rpn" /\ num % 128 <= 31
Method(r) == IF LegacyRpn(r.src, r.srcNum) \/ LegacyRpn(r.dst, r.dstNum) THEN "zero" ELSE "center"

\* The parameter is selected, given its value and deselected.
EmitRpn(param, value, nrpn, is14) ==
  LET msb == IF nrpn THEN 99 ELSE 101
      lsb == IF nrpn THEN 98 ELSE 100
  IN <<CC(lsb, param % 128), CC(msb, param \div 128)>>
       \o (IF is14 THEN <<CC(6, value \div 128), CC(38, value % 128)>> ELSE <<CC(6, value)>>)
       \o <<CC(msb, 127), CC(lsb, 127)>>

EmitCc14(n, value, is14) ==
  IF is14 THEN <<CC(n, value \div 128), CC(n + 32, value % 128)>> ELSE <<CC(n, value)>>

Emit(r, value, bits) ==
  LET v == ScaleValue(value, bits, ValueBits(r.dst), Method(r))
  IN CASE r.dst = "cc14"            -> EmitCc14(r.dstNum % 32, v, TRUE)
       [] r.dst \in {"rpn", "nrpn"} -> EmitRpn(r.dstNum, v, r.dst = "nrpn", TRUE)
       [] OTHER                     -> <<[kind |-> r.dst, number |-> r.dstNum, value |-> v]>>

EmitAll(rs, value, bits) == FlattenSeq([i \in DOMAIN rs |-> Emit(rs[i], value, bits)])

\* The rules of a source that convert it, or that transform it, in their order.
RulesOf(rules, converting, src, num) ==
  LET upTo[i \in 0..Len(rules)] ==
        IF i = 0 THEN <<>>
        ELSE IF (rules[i].op = "convert") = converting /\ rules[i].src = src /\ rules[i].srcNum = num
        THEN Append(upTo[i - 1], rules[i])
        ELSE upTo[i - 1]
  IN upTo[Len(rules)]

ConvertsOf(rules, src, num)   == RulesOf(rules, TRUE, src, num)
TransformsOf(rules, src, num) == RulesOf(rules, FALSE, src, num)

HasRpnRule(rules) == \E i \in DOMAIN rules : rules[i].src \in {"rpn", "nrpn"}

Clamped(v, max) == IF v < 0 THEN 0 ELSE IF v > max THEN max ELSE v

\* A fixed value is given in 14 bits.
ApplyValueTransform(r, v, max) ==
  CASE r.op = "add"    -> Clamped(v + r.amount, max)
    [] r.op = "invert" -> max - v
    [] r.op = "set"    -> Clamped(IF max = 127 THEN r.amount \div 128 ELSE r.amount, max)

Transformed(rs, value, bits) ==
  FoldLeft(LAMBDA v, r : ApplyValueTransform(r, v, 2^bits - 1), value, rs)
-----------------------------------------------------------------------------
(* convertRpnSet: the controllers 6, 38 and 96 to 101 of a route with      *)
(* (N)RPN rules.                                                           *)

TypeOf(nrpn) == IF nrpn THEN "nrpn" ELSE "rpn"

ParamIntercepted(rules, param, nrpn) ==
  \E i \in DOMAIN rules : rules[i].src = TypeOf(nrpn) /\ rules[i].srcNum = param

\* Mutant: the closing null does not end the interception.
ConvertSelectSticky(rules, s, m) ==
  LET buffered == Append(s.selBuf, m)
      pair     == FoldLeft(LAMBDA t, x : TrackSelect(t, x.number, x.value), NoSelection, buffered)
      drop     == IF IsNull(pair) THEN s.selIntercepted ELSE ParamIntercepted(rules, Param(pair), pair.nrpn)
  IN IF ~Complete(pair) THEN Converted([s EXCEPT !.selBuf = buffered], <<>>)
     ELSE Converted([s EXCEPT !.selBuf = <<>>, !.selIntercepted = @ \/ drop],
                    IF drop \/ s.selIntercepted THEN <<>> ELSE buffered)

\* Selects are held back until both halves are there, then dropped if a rule
\* wants the parameter; so is the null that closes such a parameter.
ConvertSelect(rules, s, m) ==
  LET full     == Len(s.selBuf) >= 4
      buffered == IF full THEN <<m>> ELSE Append(s.selBuf, m)
      drained  == IF full THEN s.selBuf ELSE <<>>
      pair     == FoldLeft(LAMBDA t, x : TrackSelect(t, x.number, x.value), NoSelection, buffered)
      drop     == IF IsNull(pair) THEN s.selIntercepted ELSE ParamIntercepted(rules, Param(pair), pair.nrpn)
  IN IF ~Complete(pair) THEN Converted([s EXCEPT !.selBuf = buffered], drained)
     ELSE Converted([s EXCEPT !.selBuf = <<>>, !.selIntercepted = ~IsNull(pair) /\ drop],
                    drained \o (IF drop THEN <<>> ELSE buffered))

Forwarded(s, m) == Converted([s EXCEPT !.selBuf = <<>>], Append(s.selBuf, m))

ConvertIncrement(rules, s, m) ==
  IF Param(s.selection) # NoParam /\ ParamIntercepted(rules, Param(s.selection), s.selection.nrpn)
  THEN Converted(s, <<>>)
  ELSE Forwarded(s, m)

\* The value that data entry gives the selected parameter, if it gives one:
\* an LSB needs the MSB of the same selection.
HasValue(s, m) == Param(s.selection) # NoParam /\ (m.number = 6 \/ s.valMsb >= 0)
DataValue(s, m) == IF m.number = 6 THEN m.value ELSE 128 * s.valMsb + m.value

\* Once a pair was seen the next MSB of its parameter waits for its LSB.
\* Convert rules come before transforms, which send the whole (N)RPN anew.
ConvertData(rules, s, m) ==
  LET nrpn    == s.selection.nrpn
      param   == Param(s.selection)
      bits    == IF m.number = 6 THEN 7 ELSE 14
      noted   == IF m.number = 6 /\ param # NoParam THEN [s EXCEPT !.valMsb = m.value] ELSE s
      waits   == bits = 7 /\ s.rpn14Param[TypeOf(nrpn)] = param
      learned == [noted EXCEPT !.rpn14Param[TypeOf(nrpn)] =
                    IF bits = 14 THEN param ELSE IF waits THEN NoParam ELSE @]
      value   == DataValue(s, m)
      takers  == ConvertsOf(rules, TypeOf(nrpn), param)
      changed == Transformed(TransformsOf(rules, TypeOf(nrpn), param), value, bits)
  IN IF ~HasValue(s, m) THEN Forwarded(noted, m)
     ELSE IF ~ParamIntercepted(rules, param, nrpn) THEN Forwarded(learned, m)
     ELSE Converted([learned EXCEPT !.selBuf = <<>>, !.selIntercepted = TRUE],
                    IF waits THEN <<>>
                    ELSE IF takers # <<>> THEN EmitAll(takers, value, bits)
                    ELSE EmitRpn(param, changed, nrpn, bits = 14))

ConvertRpnSet(rules, s, m) ==
  IF m.number \in Selects THEN ConvertSelect(rules, s, m)
  ELSE IF m.number \in {96, 97} THEN ConvertIncrement(rules, s, m)
  ELSE ConvertData(rules, s, m)
-----------------------------------------------------------------------------
(* convertCc: the halves of a 14-bit controller, else a 7-bit controller.  *)

\* The 14-bit controller that a controller is half of.
PairOf(number) == number % 32
IsLsb(number) == number \in 32..63

PairTargeted(rules, number) ==
  number < 64 /\ \E i \in DOMAIN rules : rules[i].src = "cc14" /\ rules[i].srcNum % 32 = PairOf(number)

PairValue(rules, n, value, bits) ==
  LET takers == SelectSeq(rules, LAMBDA r : r.op = "convert" /\ r.src = "cc14" /\ r.srcNum % 32 = n)
      others == SelectSeq(rules, LAMBDA r : r.op # "convert" /\ r.src = "cc14" /\ r.srcNum % 32 = n)
  IN IF takers # <<>> THEN EmitAll(takers, value, bits)
     ELSE EmitCc14(n, Transformed(others, value, bits), bits = 14)

\* Mutant: the pairing that was learned is forgotten at each MSB, too early.
ConvertPairEager(rules, s, m) ==
  LET n   == PairOf(m.number)
      msb == IF s.ccMsb[n] >= 0 THEN s.ccMsb[n] ELSE 0
  IN IF IsLsb(m.number)
     THEN Converted([s EXCEPT !.cc14LsbSeen[n] = TRUE], PairValue(rules, n, 128 * msb + m.value, 14))
     ELSE Converted([s EXCEPT !.ccMsb[n] = m.value, !.cc14LsbSeen[n] = FALSE], PairValue(rules, n, m.value, 7))

\* As with parameters an MSB waits when its controller's last one had an LSB.
ConvertPair(rules, s, m) ==
  LET n   == PairOf(m.number)
      msb == IF s.ccMsb[n] >= 0 THEN s.ccMsb[n] ELSE 0
  IN IF IsLsb(m.number)
     THEN Converted([s EXCEPT !.cc14LsbSeen[n] = TRUE], PairValue(rules, n, 128 * msb + m.value, 14))
     ELSE Converted([s EXCEPT !.ccMsb[n] = m.value, !.cc14LsbSeen[n] = FALSE],
                    IF s.cc14LsbSeen[n] THEN <<>> ELSE PairValue(rules, n, m.value, 7))

ConvertCc(rules, s, m) ==
  IF PairTargeted(rules, m.number) THEN ConvertPair(rules, s, m)
  ELSE LET takers == ConvertsOf(rules, "cc", m.number)
       IN Converted(s, IF takers # <<>> THEN EmitAll(takers, m.value, 7) ELSE <<m>>)

\* Inside a selection 6, 38, 96 and 97 are data for the parameter, outside of
\* one they are controllers. A new select starts a new value.
ConvertController(rules, s, m) ==
  LET tracked == IF m.number \in Selects
                 THEN [s EXCEPT !.selection = TrackSelect(@, m.number, m.value), !.valMsb = -1] ELSE s
      isData  == m.number \in {6, 38, 96, 97} /\ Active(s.selection)
  IN IF HasRpnRule(rules) /\ (isData \/ m.number \in Selects) THEN ConvertRpnSet(rules, tracked, m)
     ELSE IF isData THEN Converted(tracked, <<m>>)
     ELSE ConvertCc(rules, tracked, m)
-----------------------------------------------------------------------------
(* convertNonController: notes, poly pressure and the values of a channel. *)

MaxPressure(pressure) ==
  CHOOSE v \in {0} \union {pressure[n] : n \in PressedNotes} :
    v >= 0 /\ \A n \in PressedNotes : pressure[n] <= v

\* A key that is struck keeps the pressure it may already have.
PressedAfter(pressure, m) ==
  CASE m.kind = "on"  -> [pressure EXCEPT ![m.number] = IF @ < 0 THEN 0 ELSE @]
    [] m.kind = "off" -> [pressure EXCEPT ![m.number] = -1]
    [] m.kind = "pp"  -> [pressure EXCEPT ![m.number] = m.value]

\* Mutant: the pressure of the last key moved is sent, not the highest.
CollapsedLast(s, m) == IF m.kind = "pp" THEN m.value ELSE 0

Collapsed(s, m) == MaxPressure(PressedAfter(s.pressure, m))

\* Any-note rules send the highest pressure when it changed and consume the
\* poly pressure, which the rules for its note see as well.
ConvertPressure(rules, s, m) ==
  LET highest == Collapsed(s, m)
      sends   == m.kind # "on" /\ highest # s.lastMax
      pressed == [s EXCEPT !.pressure = PressedAfter(@, m), !.lastMax = IF sends THEN highest ELSE @]
      any     == IF sends THEN EmitAll(ConvertsOf(rules, "pp", AnyNote), highest, 7) ELSE <<>>
  IN Converted(pressed,
               any \o (IF m.kind = "pp" THEN EmitAll(ConvertsOf(rules, "pp", m.number), m.value, 7) ELSE <<m>>))

ConvertNonController(rules, s, m) ==
  LET takers == ConvertsOf(rules, m.kind, IF m.kind = "pp" THEN m.number ELSE 0)
  IN IF m.kind \in {"on", "off", "pp"} /\ ConvertsOf(rules, "pp", AnyNote) # <<>>
     THEN ConvertPressure(rules, s, m)
     ELSE Converted(s, IF takers # <<>> THEN EmitAll(takers, m.value, ValueBits(m.kind)) ELSE <<m>>)

ProcessMessage(rules, s, m) ==
  IF m.kind = "cc" THEN ConvertController(rules, s, m) ELSE ConvertNonController(rules, s, m)
=============================================================================
