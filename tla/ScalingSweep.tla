---------------------------- MODULE ScalingSweep ----------------------------
(* Every 14-bit value, and with it every 7-bit value, through bitscaling,  *)
(* and every bend through mpebend.                                         *)
EXTENDS Conversion, MpeTuning

Narrow == 7
Wide == 14

VARIABLE value

sweepVars == <<value>>

SweepInit == value = 0
SweepNext == value' = (value + 1) % 2^Wide
SweepSpec == SweepInit /\ [][SweepNext]_sweepVars
-----------------------------------------------------------------------------
\* README.md:524: a value "round-trips losslessly: widening a 7-bit value to
\* 14-bit and narrowing it back yields the original", by both methods.
RoundTrips ==
  \A method \in Methods : value < 2^Narrow =>
    ScaleValue(ScaleValue(value, Narrow, Wide, method), Wide, Narrow, method) = value

\* Min-Center-Max is the map through the minima, the centres and the maxima
\* of both widths that is straight in between, to within one step; whatever
\* Zero-Extension narrows is rounded to the nearest value there is.
Near(a, b, tolerance) == a - b < tolerance /\ b - a < tolerance

Straight ==
  LET wide   == ScaleValue(value, Narrow, Wide, "center")
      centre == 2^(Narrow - 1)
      narrow == ScaleValue(value, Wide, Narrow, "zero")
      step   == 2^(Wide - Narrow)
  IN /\ value <= centre => wide = value * step
     /\ value \in centre..2^Narrow - 1 =>
          Near((wide - centre * step) * (centre - 1), (value - centre) * (centre * step - 1), centre - 1)
     /\ Near(value, narrow * step, 1 + step \div 2) \/ narrow = 2^Narrow - 1
     /\ narrow \in 0..2^Narrow - 1

\* The ranges that a controller and a synth may have, wider, narrower and uneven.
RangePairs == {<<48, 12>>, <<12, 48>>, <<48, 7>>, <<2, 3>>}

\* README.md:618: rescaling from one range to another "makes the two play in
\* tune". A bend comes out at the same pitch, to the rounding of one value, or at
\* the end of a range that does not reach so far; the zone's bend is left alone.
InTune ==
  LET bend == value - 2^(Wide - 1)
      Rescaled(pair, c) == RescaleBend(pair[1], pair[2], Expression("bend", c, bend)).value
  IN \A pair \in RangePairs :
       LET out == Rescaled(pair, MemberChannel(0)) IN
       /\ Rescaled(pair, ManagerChannel) = bend
       /\ \/ 2 * (out * pair[2] - bend * pair[1]) \in -pair[2]..pair[2]
          \/ out = 8191 /\ bend * pair[1] > 8191 * pair[2]
          \/ out = -8192 /\ bend * pair[1] < -8192 * pair[2]

\* BitScaling.h: values keep what they are in another width, at the ends, the
\* centre and in between; and bends keep what they are in another range.
ScalingKeepsValues == RoundTrips /\ Straight /\ InTune
=============================================================================
