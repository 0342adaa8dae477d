------------------------------ MODULE Capture ------------------------------
(* The capture ring of a route and an MCP client that polls it with        *)
(* read_route. Both run under the callback lock, so each step is atomic.   *)
EXTENDS Integers, Sequences, FiniteSets

CONSTANTS
  Capacity,     \* Route::captureCapacity, 1024 in the program
  MaxSeq        \* bound on the messages that pass the route

ASSUME CaptureAssumption == Capacity \in Nat \ {0} /\ MaxSeq \in Nat

VARIABLES
  capture,      \* the sequence numbers in the ring, oldest first
  captureSeq,   \* the next sequence number to hand out
  cursor,       \* the cursor the client got last, -1 before its first poll
  first,        \* where the client began to follow the route, -1 until it has
  seen,         \* the sequence numbers the client was given since then
  missed        \* the sum of the "dropped" it was told since then

captureVars == <<capture, captureSeq, cursor, first, seen, missed>>

\* Mutant: the newest message is dropped when the ring is full.
CaptureMessageFull ==
  /\ captureSeq < MaxSeq
  /\ capture' = IF Len(capture) < Capacity THEN Append(capture, captureSeq) ELSE capture
  /\ captureSeq' = captureSeq + 1
  /\ UNCHANGED <<cursor, first, seen, missed>>

CaptureMessage ==
  /\ captureSeq < MaxSeq
  /\ captureSeq' = captureSeq + 1
  /\ LET longer == Append(capture, captureSeq)
     IN capture' = IF Len(longer) > Capacity THEN Tail(longer) ELSE longer
  /\ UNCHANGED <<cursor, first, seen, missed>>

Larger(a, b) == IF a > b THEN a ELSE b
Smaller(a, b) == IF a < b THEN a ELSE b

OldestSeq == IF capture = <<>> THEN captureSeq ELSE Head(capture)

Dropped(after) == IF after >= 0 /\ OldestSeq > after + 1 THEN OldestSeq - (after + 1) ELSE 0

\* The messages with a later number; the ring is in the order of the numbers.
FirstNewer(after) ==
  CHOOSE i \in 1..Len(capture) + 1 :
    /\ \A j \in 1..i - 1 : capture[j] <= after
    /\ \A j \in i..Len(capture) : capture[j] > after

Newer(after) == SubSeq(capture, FirstNewer(after), Len(capture))

Selected(after, max) == SubSeq(Newer(after), 1, Smaller(max, Len(Newer(after))))

\* Mutant: the cursor jumps to the end although not everything was returned.
CursorAtEnd(after, got) == Larger(after, captureSeq - 1)

CursorAfter(after, got) ==
  IF got = <<>> THEN Larger(after, captureSeq - 1) ELSE got[Len(got)]

Returned(after, got) ==
  /\ cursor' = CursorAfter(after, got)
  /\ UNCHANGED <<capture, captureSeq>>

\* The first poll, or one without "after": everything that is buffered.
PollAll(max) ==
  LET got == Selected(-1, max) IN
  /\ Returned(-1, got)
  /\ first' = IF got = <<>> THEN CursorAfter(-1, got) + 1 ELSE Head(got)
  /\ seen' = {got[i] : i \in DOMAIN got}
  /\ missed' = 0

\* A later poll, with the cursor of the previous result.
PollOn(max) ==
  LET got == Selected(cursor, max) IN
  /\ first # -1
  /\ Returned(cursor, got)
  /\ seen' = seen \union {got[i] : i \in DOMAIN got}
  /\ missed' = missed + Dropped(cursor)
  /\ UNCHANGED first

CaptureInit ==
  /\ capture = <<>> /\ captureSeq = 0
  /\ cursor = -1 /\ first = -1 /\ seen = {} /\ missed = 0

CaptureNext == CaptureMessage \/ \E max \in 1..Capacity : PollAll(max) \/ PollOn(max)

CaptureSpec == CaptureInit /\ [][CaptureNext]_captureVars
-----------------------------------------------------------------------------
\* The ring holds the most recent messages without a gap (McpServer.cpp:442,
\* "keeps the most recent 1024 messages").
RingKeepsNewest ==
  /\ Len(capture) = Smaller(captureSeq, Capacity)
  /\ \A i \in DOMAIN capture : capture[i] = captureSeq - Len(capture) + i - 1

\* A poll with a real cursor accounts for every message between the old and
\* the new one: it returned it or told that it was dropped; nothing twice,
\* nothing skipped silently.
EachPollAccounts ==
  [][(cursor >= 0 /\ cursor' > cursor /\ first' = first) =>
       cursor' - cursor = Cardinality(seen' \ seen) + missed' - missed]_captureVars
=============================================================================
