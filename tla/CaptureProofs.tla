--------------------------- MODULE CaptureProofs ---------------------------
(* Proofs about Capture, for every capacity and any number of messages.    *)
EXTENDS Capture, FiniteSetTheorems, TLAPS

\* What the ring consists of.
RingType == capture \in Seq(Int) /\ captureSeq \in Nat

\* Only a message that passes the route changes the ring; a poll never does.
LEMMA PollsLeaveRing ==
  ASSUME CaptureNext, ~CaptureMessage
  PROVE  capture' = capture /\ captureSeq' = captureSeq
<1>1. PICK max \in 1..Capacity : PollAll(max) \/ PollOn(max) BY DEF CaptureNext
<1>2. CASE PollAll(max) BY <1>2 DEF PollAll, Returned
<1>3. CASE PollOn(max) BY <1>3 DEF PollOn, Returned
<1> QED BY <1>1, <1>2, <1>3

\* A new message at the end, and at the limit one less at the front, keep the
\* ring a gapless run of sequence numbers that ends at the newest.
LEMMA MessageKeepsRing ==
  ASSUME RingType, RingKeepsNewest, CaptureMessage
  PROVE  RingType' /\ RingKeepsNewest'
<1> DEFINE longer == Append(capture, captureSeq)
<1>1. captureSeq' = captureSeq + 1 /\ captureSeq' \in Nat /\ captureSeq \in Nat BY DEF CaptureMessage, RingType
<1>2. capture' = IF Len(longer) > Capacity THEN Tail(longer) ELSE longer BY DEF CaptureMessage
<1>3. /\ longer \in Seq(Int) /\ Len(longer) = Len(capture) + 1 /\ Len(capture) \in Nat
      /\ \A i \in 1..Len(capture) : longer[i] = capture[i]
      /\ longer[Len(capture) + 1] = captureSeq
  BY DEF RingType
<1>4. Len(capture) = Smaller(captureSeq, Capacity) BY DEF RingKeepsNewest
<1>5. Capacity \in Nat \ {0} BY CaptureAssumption
<1>6. \A i \in 1..Len(longer) : longer[i] = captureSeq' - Len(longer) + i - 1
  <2> TAKE i \in 1..Len(longer)
  <2>1. CASE i = Len(capture) + 1 BY <2>1, <1>1, <1>3
  <2>2. CASE i \in 1..Len(capture)
    <3>0. i \in DOMAIN capture BY <2>2 DEF RingType
    <3>1. capture[i] = captureSeq - Len(capture) + i - 1 BY <3>0 DEF RingKeepsNewest
    <3> QED BY <3>1, <2>2, <1>1, <1>3
  <2> QED BY <2>1, <2>2, <1>3
<1>7. CASE Len(longer) > Capacity
  <2>1. capture' = Tail(longer) BY <1>2, <1>7
  <2>2. Tail(longer) \in Seq(Int) /\ Len(Tail(longer)) = Len(longer) - 1
        /\ \A i \in 1..Len(longer) - 1 : Tail(longer)[i] = longer[i + 1]
    BY <1>3, <1>5, <1>7
  <2>3. \A i \in 1..Len(Tail(longer)) : Tail(longer)[i] = captureSeq' - Len(Tail(longer)) + i - 1
    <3> TAKE i \in 1..Len(Tail(longer))
    <3>1. i \in 1..Len(longer) - 1 /\ i + 1 \in 1..Len(longer) BY <1>3, <2>2
    <3>2. Tail(longer)[i] = longer[i + 1] BY <3>1, <2>2
    <3>3. longer[i + 1] = captureSeq' - Len(longer) + (i + 1) - 1 BY <3>1, <1>6
    <3>4. Len(longer) \in Int /\ i \in Int BY <1>3, <3>1
    <3> HIDE DEF longer
    <3> QED BY <1>1, <2>2, <3>2, <3>3, <3>4
  <2>4. Len(Tail(longer)) = Smaller(captureSeq', Capacity)
    BY <1>1, <1>3, <1>4, <1>5, <1>7, <2>2 DEF Smaller
  <2>5. DOMAIN Tail(longer) = 1..Len(Tail(longer)) BY <2>2
  <2> HIDE DEF longer
  <2> QED BY <1>1, <2>1, <2>2, <2>3, <2>4, <2>5 DEF RingType, RingKeepsNewest
<1>8. CASE Len(longer) <= Capacity
  <2>1. capture' = longer BY <1>2, <1>3, <1>5, <1>8
  <2>2. Len(longer) = Smaller(captureSeq', Capacity)
    BY <1>1, <1>3, <1>4, <1>5, <1>8 DEF Smaller
  <2>3. DOMAIN longer = 1..Len(longer) BY <1>3
  <2> HIDE DEF longer
  <2> QED BY <1>1, <1>3, <1>6, <2>1, <2>2, <2>3 DEF RingType, RingKeepsNewest
<1> QED BY <1>3, <1>5, <1>7, <1>8

\* Route::captureMessage keeps exactly the newest messages, without a gap,
\* whatever the client polls.
THEOREM RingIsNewest == CaptureSpec => []RingKeepsNewest
<1> DEFINE IInv == RingType /\ RingKeepsNewest
<1>1. CaptureInit => IInv
  BY CaptureAssumption DEF CaptureInit, RingType, RingKeepsNewest, Smaller
<1>2. IInv /\ [CaptureNext]_captureVars => IInv'
  <2> SUFFICES ASSUME IInv, [CaptureNext]_captureVars PROVE IInv' OBVIOUS
  <2>1. CASE CaptureMessage BY <2>1, MessageKeepsRing
  <2>2. CASE CaptureNext /\ ~CaptureMessage
    BY <2>2, PollsLeaveRing DEF RingType, RingKeepsNewest
  <2>3. CASE UNCHANGED captureVars
    BY <2>3 DEF captureVars, RingType, RingKeepsNewest
  <2> QED BY <2>1, <2>2, <2>3
<1>3. IInv => RingKeepsNewest OBVIOUS
<1> QED BY <1>1, <1>2, <1>3, PTL DEF CaptureSpec

-----------------------------------------------------------------------------
(* The cursor of a client.                                                 *)

\* The ring as numbers: where it begins and where its first later message is.
Oldest == captureSeq - Len(capture)

LEMMA RingAsNumbers ==
  ASSUME RingType, RingKeepsNewest
  PROVE  /\ Len(capture) \in Nat /\ captureSeq \in Nat /\ Oldest \in Nat /\ OldestSeq = Oldest
         /\ Len(capture) = 0 => captureSeq = 0
         /\ \A i \in 1..Len(capture) : capture[i] = Oldest + i - 1
<1>1. Len(capture) \in Nat /\ captureSeq \in Nat /\ Len(capture) <= captureSeq /\ (Len(capture) = 0 => captureSeq = 0)
  BY CaptureAssumption DEF RingType, RingKeepsNewest, Smaller
<1>2. \A i \in 1..Len(capture) : capture[i] = Oldest + i - 1
  <2>1. DOMAIN capture = 1..Len(capture)
    BY DEF RingType
  <2> QED BY <1>1, <2>1 DEF RingKeepsNewest, Oldest
<1>3. OldestSeq = Oldest
  <2>1. CASE capture = <<>>
    BY <1>1, <2>1 DEF OldestSeq, Oldest
  <2>2. CASE capture # <<>>
    <3>1. Head(capture) = capture[1] /\ 1 \in 1..Len(capture)
      BY <1>1, <2>2 DEF RingType
    <3> QED BY <1>1, <1>2, <2>2, <3>1 DEF OldestSeq, Oldest
  <2> QED BY <2>1, <2>2
<1> QED BY <1>1, <1>2, <1>3 DEF Oldest

\* Where a poll begins: behind the cursor, or with the oldest message left.
From(after) == IF Oldest > after + 1 THEN Oldest ELSE after + 1

\* A poll returns a run of messages, from the first one behind the cursor that
\* is left to the one its cursor then points at; or nothing when none is left.
LEMMA PollIsARun ==
  ASSUME RingType, RingKeepsNewest, NEW after \in Int, after >= -1, after < captureSeq, NEW max \in 1..Capacity
  PROVE  LET got == Selected(after, max)
         IN \/ /\ got = <<>> /\ CursorAfter(after, got) = after /\ after = captureSeq - 1
            \/ /\ got # <<>> /\ CursorAfter(after, got) \in From(after)..captureSeq - 1
               /\ Head(got) = From(after)
               /\ {got[i] : i \in DOMAIN got} = From(after)..CursorAfter(after, got)
<1> DEFINE n == Len(capture)
           i0 == From(after) - Oldest + 1
           m == IF max < n - i0 + 1 THEN max ELSE n - i0 + 1
<1>1. /\ n \in Nat /\ captureSeq \in Nat /\ Oldest \in Nat /\ n = captureSeq - Oldest /\ (n = 0 => captureSeq = 0)
      /\ \A i \in 1..n : capture[i] = Oldest + i - 1
  BY RingAsNumbers DEF Oldest
<1>2. max \in Nat /\ max >= 1
  BY CaptureAssumption
<1>3. i0 \in 1..n + 1 /\ From(after) \in Int /\ From(after) = Oldest + i0 - 1
  BY <1>1 DEF From
<1>4. /\ \A j \in 1..i0 - 1 : capture[j] <= after
      /\ \A j \in i0..n : capture[j] > after
  BY <1>1, <1>3 DEF From
<1>5. FirstNewer(after) = i0
  <2>1. ASSUME NEW i \in 1..n + 1,
               \A j \in 1..i - 1 : capture[j] <= after,
               \A j \in i..n : capture[j] > after
        PROVE  i = i0
    <3>1. CASE i < i0
      <4>1. i \in i..n /\ i \in 1..i0 - 1
        BY <1>1, <1>3, <3>1
      <4>2. capture[i] \in Int
        BY <1>1, <4>1
      <4> QED BY <1>4, <2>1, <4>1, <4>2
    <3>2. CASE i > i0
      <4>1. i0 \in i0..n /\ i0 \in 1..i - 1
        BY <1>1, <1>3, <3>2
      <4>2. capture[i0] \in Int
        BY <1>1, <4>1
      <4> QED BY <1>4, <2>1, <4>1, <4>2
    <3> QED BY <1>1, <1>3, <3>1, <3>2
  <2> HIDE DEF i0
  <2> QED BY <1>3, <1>4, <2>1 DEF FirstNewer
<1> HIDE DEF i0
<1>6. capture \in Seq(Int)
  BY DEF RingType
<1>7. /\ Newer(after) \in Seq(Int) /\ Len(Newer(after)) = n - i0 + 1
      /\ \A k \in 1..n - i0 + 1 : Newer(after)[k] = From(after) + k - 1
  <2>1. Newer(after) = SubSeq(capture, i0, n)
    BY <1>5 DEF Newer
  <2>2. /\ SubSeq(capture, i0, n) \in Seq(Int) /\ Len(SubSeq(capture, i0, n)) = n - i0 + 1
        /\ \A k \in 1..n - i0 + 1 : SubSeq(capture, i0, n)[k] = capture[i0 + k - 1]
    BY <1>1, <1>3, <1>6
  <2>3. \A k \in 1..n - i0 + 1 : i0 + k - 1 \in 1..n /\ Oldest + (i0 + k - 1) - 1 = From(after) + k - 1
    BY <1>1, <1>3
  <2> QED BY <1>1, <2>1, <2>2, <2>3
<1> DEFINE got == Selected(after, max)
<1>8. /\ m \in Nat /\ m <= n - i0 + 1 /\ (m = 0 <=> i0 = n + 1)
      /\ got \in Seq(Int) /\ Len(got) = m /\ \A k \in 1..m : got[k] = From(after) + k - 1
  <2>1. m \in Nat /\ m <= n - i0 + 1 /\ (m = 0 <=> i0 = n + 1)
    BY <1>1, <1>2, <1>3
  <2>2. got = SubSeq(Newer(after), 1, m)
    BY <1>7 DEF Selected, Smaller
  <2> HIDE DEF m, got
  <2> QED BY <1>1, <1>3, <1>7, <2>1, <2>2
<1> HIDE DEF m, got
<1>9. CASE m = 0
  <2>1. got = <<>>
    BY <1>8, <1>9
  <2>2. after = captureSeq - 1
    BY <1>1, <1>3, <1>8, <1>9 DEF From
  <2>3. CursorAfter(after, got) = after
    BY <1>1, <2>1, <2>2 DEF CursorAfter, Larger
  <2> QED BY <2>1, <2>2, <2>3 DEF got
<1>10. CASE m > 0
  <2>1. got # <<>> /\ Head(got) = got[1] /\ got[1] = From(after) /\ DOMAIN got = 1..m
    BY <1>3, <1>8, <1>10
  <2>2. CursorAfter(after, got) = From(after) + m - 1
    BY <1>8, <1>10, <2>1 DEF CursorAfter
  <2>3. From(after) + m - 1 \in From(after)..captureSeq - 1
    BY <1>1, <1>3, <1>8, <1>10
  <2>4. {got[i] : i \in DOMAIN got} = From(after)..From(after) + m - 1
    <3>1. ASSUME NEW x \in From(after)..From(after) + m - 1
          PROVE  \E i \in 1..m : got[i] = x
      <4>1. x - From(after) + 1 \in 1..m /\ From(after) + (x - From(after) + 1) - 1 = x
        BY <1>3, <1>8
      <4> QED BY <1>8, <4>1
    <3>2. ASSUME NEW i \in 1..m
          PROVE  got[i] \in From(after)..From(after) + m - 1
      BY <1>3, <1>8
    <3> QED BY <2>1, <3>1, <3>2
  <2> QED BY <2>1, <2>2, <2>3, <2>4 DEF got
<1> QED BY <1>8, <1>9, <1>10

\* What the client was given is all there was since it began to follow, or the
\* ring has left that place behind.
CursorInv ==
  /\ cursor \in Int /\ cursor >= -1 /\ cursor < captureSeq
  /\ first \in Int /\ first >= -1 /\ missed \in Int
  /\ first = -1 => seen = {} /\ cursor = -1 /\ missed = 0
  /\ first # -1 => /\ first <= cursor + 1
                   /\ seen \subseteq first..cursor
                   /\ (seen = first..cursor /\ missed = 0) \/ Oldest > first

CaptureInv == RingType /\ RingKeepsNewest /\ CursorInv

\* The ring's oldest message never comes back.
LEMMA OldestMovesOn ==
  ASSUME RingType, RingKeepsNewest, CaptureMessage
  PROVE  Oldest' >= Oldest
<1> DEFINE longer == Append(capture, captureSeq)
<1>1. capture \in Seq(Int) /\ captureSeq \in Nat /\ captureSeq' = captureSeq + 1
  BY DEF RingType, CaptureMessage
<1>2. Len(longer) = Len(capture) + 1 /\ Len(capture) \in Nat /\ longer \in Seq(Int) /\ longer # <<>>
  BY <1>1
<1>3. capture' = longer \/ capture' = Tail(longer)
  BY DEF CaptureMessage
<1> HIDE DEF longer
<1>4. Len(Tail(longer)) = Len(longer) - 1
  BY <1>2
<1>5. Len(capture') \in Nat /\ Len(capture') <= Len(capture) + 1
  BY <1>2, <1>3, <1>4
<1> QED BY <1>1, <1>2, <1>5 DEF Oldest

LEMMA MessageKeepsCursor ==
  ASSUME CaptureInv, CaptureMessage
  PROVE  CaptureInv'
<1>1. RingType' /\ RingKeepsNewest'
  BY MessageKeepsRing DEF CaptureInv
<1>2. Oldest' >= Oldest /\ Oldest \in Int /\ Oldest' \in Int
  <2>1. Len(capture) \in Nat /\ captureSeq \in Nat
    BY DEF CaptureInv, RingType
  <2>2. Len(capture') \in Nat /\ captureSeq' \in Nat
    BY <1>1 DEF RingType
  <2> QED BY <2>1, <2>2, OldestMovesOn DEF CaptureInv, Oldest
<1>3. UNCHANGED <<cursor, first, seen, missed>> /\ captureSeq' = captureSeq + 1 /\ captureSeq \in Nat
  BY DEF CaptureMessage, CaptureInv, RingType
<1> QED BY <1>1, <1>2, <1>3 DEF CaptureInv, CursorInv

\* What a poll from the beginning does to the client's state.
LEMMA PollAllFacts ==
  ASSUME CaptureInv, NEW max \in 1..Capacity, PollAll(max)
  PROVE  /\ UNCHANGED <<capture, captureSeq>> /\ missed' = 0 /\ cursor' \in Int /\ cursor' >= -1 /\ cursor' < captureSeq
         /\ first' \in Nat /\ seen' = first'..cursor' /\ first' <= cursor' + 1
         /\ cursor' >= 0 => first' = Oldest
<1> DEFINE got == Selected(-1, max)
<1>1. Oldest \in Nat /\ captureSeq \in Nat
  BY RingAsNumbers DEF CaptureInv
<1>2. From(-1) = Oldest
  BY <1>1 DEF From
<1>3. \/ got = <<>> /\ CursorAfter(-1, got) = -1 /\ -1 = captureSeq - 1
      \/ /\ got # <<>> /\ CursorAfter(-1, got) \in Oldest..captureSeq - 1 /\ Head(got) = Oldest
         /\ {got[i] : i \in DOMAIN got} = Oldest..CursorAfter(-1, got)
  BY <1>1, <1>2, PollIsARun DEF CaptureInv
<1>4. /\ UNCHANGED <<capture, captureSeq>> /\ missed' = 0 /\ cursor' = CursorAfter(-1, got)
      /\ first' = IF got = <<>> THEN CursorAfter(-1, got) + 1 ELSE Head(got)
      /\ seen' = {got[i] : i \in DOMAIN got}
  BY DEF PollAll, Returned
<1>5. got = <<>> => {got[i] : i \in DOMAIN got} = {}
  OBVIOUS
<1> HIDE DEF got
<1>6. CASE got = <<>>
  BY <1>1, <1>3, <1>4, <1>5, <1>6
<1>7. CASE got # <<>>
  BY <1>1, <1>3, <1>4, <1>7
<1> QED BY <1>6, <1>7

\* And what one with the cursor of the last poll does.
LEMMA PollOnFacts ==
  ASSUME CaptureInv, NEW max \in 1..Capacity, PollOn(max)
  PROVE  /\ UNCHANGED <<capture, captureSeq, first>> /\ first # -1 /\ cursor' \in Int /\ cursor' >= cursor /\ cursor' < captureSeq
         /\ missed' \in Int
         /\ From(cursor) \in Int /\ From(cursor) >= cursor + 1
         /\ seen' = seen \union (From(cursor)..cursor')
         /\ \/ cursor' >= From(cursor) /\ (cursor >= 0 => missed' - missed = From(cursor) - (cursor + 1))
            \/ cursor' = cursor
         /\ From(cursor) = cursor + 1 => missed' = missed
         /\ From(cursor) # cursor + 1 => Oldest > cursor + 1
<1> DEFINE got == Selected(cursor, max)
<1>1. Oldest \in Nat /\ captureSeq \in Nat /\ OldestSeq = Oldest
  BY RingAsNumbers DEF CaptureInv
<1>2. cursor \in Int /\ cursor >= -1 /\ cursor < captureSeq /\ missed \in Int
  BY DEF CaptureInv, CursorInv
<1>3. \/ got = <<>> /\ CursorAfter(cursor, got) = cursor /\ cursor = captureSeq - 1
      \/ /\ got # <<>> /\ CursorAfter(cursor, got) \in From(cursor)..captureSeq - 1
         /\ {got[i] : i \in DOMAIN got} = From(cursor)..CursorAfter(cursor, got)
  BY <1>2, PollIsARun DEF CaptureInv
<1>4. /\ UNCHANGED <<capture, captureSeq, first>> /\ first # -1 /\ cursor' = CursorAfter(cursor, got)
      /\ seen' = seen \union {got[i] : i \in DOMAIN got}
      /\ missed' = missed + Dropped(cursor)
  BY DEF PollOn, Returned
<1>5. got = <<>> => {got[i] : i \in DOMAIN got} = {}
  OBVIOUS
<1>6. /\ From(cursor) \in Int /\ From(cursor) >= cursor + 1
      /\ From(cursor) # cursor + 1 => Oldest > cursor + 1
      /\ Dropped(cursor) = IF cursor >= 0 THEN From(cursor) - (cursor + 1) ELSE 0
  BY <1>1, <1>2 DEF From, Dropped
<1> HIDE DEF got
<1>7. CASE got = <<>>
  BY <1>1, <1>2, <1>3, <1>4, <1>5, <1>6, <1>7
<1>8. CASE got # <<>>
  BY <1>1, <1>2, <1>3, <1>4, <1>6, <1>8
<1> QED BY <1>7, <1>8

\* Runs of numbers, one behind the other.
LEMMA Runs ==
  ASSUME NEW a \in Int, NEW b \in Int, NEW c \in Int, NEW d \in Int, a <= b + 1, b + 1 <= c, b <= d,
         NEW S, S \subseteq a..b
  PROVE  /\ (S \union (c..d)) \subseteq a..d
         /\ (S \union (c..d)) \ S = c..d
         /\ (a..d) \ (a..b) = b + 1..d
         /\ (c = b + 1 /\ S = a..b) => S \union (c..d) = a..d
<1>1. \A x \in S : x \in Int /\ a <= x /\ x <= b
  OBVIOUS
<1>2. (S \union (c..d)) \subseteq a..d
  BY <1>1
<1>3. (S \union (c..d)) \ S = c..d
  BY <1>1
<1>4. (a..d) \ (a..b) = b + 1..d
  OBVIOUS
<1>5. (c = b + 1 /\ S = a..b) => S \union (c..d) = a..d
  OBVIOUS
<1> QED BY <1>2, <1>3, <1>4, <1>5

LEMMA PollsKeepCursor ==
  ASSUME CaptureInv, NEW max \in 1..Capacity, PollAll(max) \/ PollOn(max)
  PROVE  CaptureInv'
<1>1. Oldest \in Nat
  BY RingAsNumbers DEF CaptureInv
<1>2. CASE PollAll(max)
  <2>1. UNCHANGED <<capture, captureSeq>> /\ Oldest' = Oldest
    BY <1>2, PollAllFacts DEF Oldest
  <2>2. CursorInv'
    BY <1>2, <2>1, PollAllFacts DEF CursorInv
  <2> QED BY <2>1, <2>2 DEF CaptureInv, RingType, RingKeepsNewest
<1>3. CASE PollOn(max)
  <2>1. UNCHANGED <<capture, captureSeq, first>> /\ Oldest' = Oldest
    BY <1>3, PollOnFacts DEF Oldest
  <2>2. CursorInv'
    <3>1. /\ cursor \in Int /\ cursor >= -1 /\ first \in Int /\ first >= -1 /\ first # -1 /\ first <= cursor + 1
          /\ seen \subseteq first..cursor /\ ((seen = first..cursor /\ missed = 0) \/ Oldest > first)
      BY <1>3, PollOnFacts DEF CaptureInv, CursorInv
    <3>2. /\ cursor' \in Int /\ cursor' >= cursor /\ cursor' < captureSeq /\ missed' \in Int
          /\ From(cursor) \in Int /\ From(cursor) >= cursor + 1
          /\ seen' = seen \union (From(cursor)..cursor')
          /\ From(cursor) = cursor + 1 => missed' = missed
          /\ From(cursor) # cursor + 1 => Oldest > cursor + 1
      BY <1>3, PollOnFacts
    <3> PICK to \in Int : to = cursor'
      BY <3>2
    <3> PICK start \in Int : start = From(cursor)
      BY <3>2
    <3>0. to \in Int /\ first <= cursor + 1 /\ cursor + 1 <= start /\ cursor <= to
      BY <3>1, <3>2
    <3>3. seen' \subseteq first..cursor'
      <4>1. (seen \union (start..to)) \subseteq first..to
        <5>1. \A x \in seen : x \in first..cursor
          BY <3>1
        <5>2. \A x \in first..cursor : x \in first..to
          BY <3>0, <3>1
        <5>3. \A x \in start..to : x \in first..to
          BY <3>0, <3>1
        <5> QED BY <5>1, <5>2, <5>3
      <4> QED BY <4>1, <3>2
    <3>4. (seen' = first..cursor' /\ missed' = 0) \/ Oldest > first
      <4>1. CASE From(cursor) # cursor + 1
        BY <1>1, <3>1, <3>2, <4>1
      <4>2. CASE From(cursor) = cursor + 1 /\ seen = first..cursor /\ missed = 0
        <5>1. seen \union (start..to) = first..to
          BY <3>0, <3>1, <4>2, Runs
        <5> QED BY <5>1, <3>2, <4>2
      <4> QED BY <3>1, <4>1, <4>2
    <3>5. cursor' \in Int /\ cursor' >= -1 /\ first <= cursor' + 1 /\ missed' \in Int
      <4>1. cursor \in Int /\ cursor >= -1 /\ first \in Int /\ first <= cursor + 1 /\ cursor <= to /\ to \in Int
        BY <3>0, <3>1
      <4>2. to >= -1
        BY <4>1
      <4>3. first <= to + 1
        <5>1. ASSUME NEW a \in Int, NEW b \in Int, NEW c \in Int, a <= b + 1, b <= c
              PROVE  a <= c + 1
          BY <5>1
        <5> QED BY <4>1, <5>1
      <4> QED BY <4>2, <4>3, <3>2
    <3> QED BY <2>1, <3>1, <3>2, <3>3, <3>4, <3>5 DEF CursorInv
  <2> QED BY <2>1, <2>2 DEF CaptureInv, RingType, RingKeepsNewest
<1> QED BY <1>2, <1>3

LEMMA CaptureInvHolds == CaptureSpec => []CaptureInv
<1>1. CaptureInit => CaptureInv
  BY CaptureAssumption DEF CaptureInit, CaptureInv, CursorInv, RingType, RingKeepsNewest, Smaller
<1>2. CaptureInv /\ UNCHANGED captureVars => CaptureInv'
  BY DEF captureVars, CaptureInv, CursorInv, RingType, RingKeepsNewest, Oldest
<1>3. CaptureInv /\ [CaptureNext]_captureVars => CaptureInv'
  BY <1>2, MessageKeepsCursor, PollsKeepCursor DEF CaptureNext
<1> QED BY <1>1, <1>3, PTL DEF CaptureSpec

\* How many messages a poll brings.
LEMMA PollAccounts ==
  ASSUME CaptureInv, [CaptureNext]_captureVars, cursor >= 0, cursor' > cursor, first' = first
  PROVE  cursor' - cursor = Cardinality(seen' \ seen) + missed' - missed
<1>1. cursor \in Int /\ first \in Int /\ missed \in Int
  BY DEF CaptureInv, CursorInv
<1>2. ~CaptureMessage /\ ~UNCHANGED captureVars
  BY <1>1 DEF CaptureMessage, captureVars
<1>3. PICK max \in 1..Capacity : PollAll(max) \/ PollOn(max)
  BY <1>2 DEF CaptureNext
<1>4. ASSUME NEW a \in Int, NEW b \in Int, a <= b
      PROVE  Cardinality(a..b) = b - a + 1
  BY <1>4, FS_Interval
<1>5. CASE PollAll(max)
  <2>1. /\ cursor' \in Int /\ missed' = 0 /\ seen' = first..cursor' /\ first' = Oldest /\ first \in Nat
    BY <1>1, <1>5, PollAllFacts
  <2>2. seen = first..cursor /\ missed = 0 /\ first <= cursor + 1
    BY <1>1, <2>1 DEF CaptureInv, CursorInv
  <2>3. seen' \ seen = cursor + 1..cursor'
    <3> PICK to \in Int : to = cursor'
      BY <2>1
    <3>1. cursor <= to /\ cursor + 1 <= cursor + 1 /\ cursor + 1 \in Int
      BY <1>1, <2>1
    <3>2. (first..to) \ (first..cursor) = cursor + 1..to
      BY <1>1, <2>2, <3>1, Runs
    <3> QED BY <2>1, <2>2, <3>2
  <2>4. Cardinality(cursor + 1..cursor') = cursor' - (cursor + 1) + 1
    BY <1>1, <1>4, <2>1
  <2>5. Cardinality(seen' \ seen) = cursor' - cursor
    <3>1. Cardinality(seen' \ seen) = Cardinality(cursor + 1..cursor')
      BY <2>3
    <3>2. cursor' - (cursor + 1) + 1 = cursor' - cursor
      BY <1>1, <2>1
    <3> QED BY <2>4, <3>1, <3>2
  <2> QED BY <1>1, <2>1, <2>2, <2>5
<1>6. CASE PollOn(max)
  <2>1. /\ cursor' \in Int /\ cursor' >= From(cursor) /\ missed' \in Int /\ From(cursor) \in Int
        /\ From(cursor) >= cursor + 1 /\ missed' - missed = From(cursor) - (cursor + 1)
        /\ seen' = seen \union (From(cursor)..cursor')
    BY <1>1, <1>6, PollOnFacts
  <2>2. seen \subseteq first..cursor
    BY <1>6, PollOnFacts DEF CaptureInv, CursorInv
  <2>3. seen' \ seen = From(cursor)..cursor'
    <3>1. first <= cursor + 1
      BY <1>6, PollOnFacts DEF CaptureInv, CursorInv
    <3> PICK to \in Int : to = cursor'
      BY <2>1
    <3> PICK start \in Int : start = From(cursor)
      BY <2>1
    <3>2. cursor + 1 <= start /\ cursor <= to
      BY <1>1, <2>1
    <3>3. (seen \union (start..to)) \ seen = start..to
      BY <1>1, <2>2, <3>1, <3>2, Runs
    <3> QED BY <2>1, <3>3
  <2>4. Cardinality(From(cursor)..cursor') = cursor' - From(cursor) + 1
    BY <1>4, <2>1
  <2>5. Cardinality(seen' \ seen) = cursor' - From(cursor) + 1
    BY <2>3, <2>4
  <2> QED BY <1>1, <2>1, <2>5
<1> QED BY <1>3, <1>5, <1>6

\* A client that passes the cursor of its last poll accounts for every message
\* in between, whatever the ring dropped meanwhile: it is given the message or
\* told that one was dropped, and is given none twice.
THEOREM PollsAccount == CaptureSpec => EachPollAccounts
<1>1. CaptureInv /\ [CaptureNext]_captureVars =>
        [(cursor >= 0 /\ cursor' > cursor /\ first' = first) =>
           cursor' - cursor = Cardinality(seen' \ seen) + missed' - missed]_captureVars
  BY PollAccounts
<1> QED BY <1>1, CaptureInvHolds, PTL DEF CaptureSpec, EachPollAccounts
=============================================================================
