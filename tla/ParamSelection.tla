--------------------------- MODULE ParamSelection ---------------------------
(* ParamSelection of one channel: which (N)RPN parameter the select        *)
(* controllers 98 to 101 have selected.                                    *)
EXTENDS Integers

Selects == 98..101
NrpnSelects == {98, 99}
MsbSelects == {99, 101}
NoParam == -1

NoSelection == [msb |-> -1, lsb |-> -1, nrpn |-> FALSE]

TrackSelect(s, cc, value) ==
  [msb  |-> IF cc \in MsbSelects THEN value ELSE s.msb,
   lsb  |-> IF cc \in MsbSelects THEN s.lsb ELSE value,
   nrpn |-> cc \in NrpnSelects]

\* At least one byte of a selection that a null has not closed.
Active(s) == s.msb \in 0..126 \/ s.lsb \in 0..126

Complete(s) == s.msb >= 0 /\ s.lsb >= 0
IsNull(s) == s.msb = 127 /\ s.lsb = 127

Param(s) == IF Complete(s) /\ ~IsNull(s) THEN 128 * s.msb + s.lsb ELSE NoParam
=============================================================================
