------------------------------ MODULE MpeZone ------------------------------
(* An MPE zone: a manager channel for what concerns the whole zone and a   *)
(* block of member channels for one note each, the messages the MPE        *)
(* operations tell apart, and the arithmetic of pitch bends, which are     *)
(* offsets from the centre.                                                *)
EXTENDS Integers

CONSTANTS
  Lower,        \* the Lower Zone counts up from channel 1, the Upper down from 16
  Members       \* how many member channels the zone has

ASSUME ZoneAssumption == Lower \in BOOLEAN /\ Members \in 1..15

ManagerChannel == IF Lower THEN 1 ELSE 16
MemberChannel(index) == IF Lower THEN 2 + index ELSE 15 - index
MemberChannels == {MemberChannel(i) : i \in 0..Members - 1}
ZoneChannels == {ManagerChannel} \union MemberChannels

NoChannel == 0      \* "-1", "none"

On(c, n)            == [kind |-> "on", channel |-> c, note |-> n]
Off(c, n)           == [kind |-> "off", channel |-> c, note |-> n]
Aftertouch(c, n, v) == [kind |-> "aftertouch", channel |-> c, note |-> n, value |-> v]
Expression(d, c, v) == [kind |-> d, channel |-> c, value |-> v]

\* appendConfigMessage: the five messages of an MPE Configuration Message.
Config == [kind |-> "config", channel |-> ManagerChannel]

Clamp(low, high, v) == IF v < low THEN low ELSE IF v > high THEN high ELSE v

\* roundToInt: to the nearest, and from the middle to the even one.
RoundedRatio(a, b) ==
  LET up == (2 * a + b) \div (2 * b)
  IN IF (2 * a + b) % (2 * b) = 0 /\ up % 2 = 1 THEN up - 1 ELSE up

ClampedBend(v) == Clamp(-8192, 8191, v)
=============================================================================
