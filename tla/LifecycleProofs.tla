--------------------------- MODULE LifecycleProofs ---------------------------
(***************************************************************************)
(* Proofs about the life of the process, for any command lines, any number *)
(* of lines on standard input and any interleaving of the two threads, the *)
(* timer, the user and the client:                                         *)
(*                                                                         *)
(*  - the MCP server carries on an orderly dialogue: every step is one of  *)
(*    the Dialogue's or leaves it alone;                                   *)
(*  - an MCP session that is not interrupted joins a finished reader.      *)
(*                                                                         *)
(* For the first, one has to know that a line in the input has a number no *)
(* larger than the count of lines ever written, as has an answer, so that  *)
(* the next line is told apart from all of them; that only a request is    *)
(* ever on its way to be written; and that the message thread leaves       *)
(* standard input alone in an MCP session. For the second, that a quit is  *)
(* on its way only when the reader thread posted its last message.         *)
(***************************************************************************)
EXTENDS Lifecycle, TLAPS

Messages == {"request", "timer", "close", "quit"}
Lines == [kind : Kinds, id : Nat]

\* The type of every variable, as far as the proofs go by it.
LifeType ==
  /\ mode \in {"once", "ports", "commands", "stdin", "mcp"}
  /\ line \in Lines
  /\ input \in Seq(Lines)
  /\ answers \in Seq(Nat)
  /\ written \in Nat
  /\ posted \in Seq(Messages)
  /\ readerPc \in {"none", "reading", "posting", "waiting", "writing", "finished"}

\* Lines were written before they are read, and read before they are answered.
LinesWereWritten ==
  /\ line.id <= written
  /\ \A k \in DOMAIN input : input[k].id <= written
  /\ \A k \in DOMAIN answers : answers[k] <= written

\* Who reads standard input, and what the reader thread may be busy with.
ReadersApart ==
  /\ mode # "mcp" \/ mainPc = "starting" => readerPc = "none"
  /\ mode = "mcp" => mainPc \notin {"testing", "entering", "blocked"}
  /\ readerPc = "writing" => line.kind = "request"

LifeInv == LifeType /\ LinesWereWritten /\ ReadersApart

-----------------------------------------------------------------------------
(* The invariant, through every step.                                      *)

LEMMA LifeInitially == LifeInit => LifeInv
<1>1. NoLine \in Lines /\ NoLine.id = 0
  BY DEF NoLine, Lines, Kinds
<1> QED BY <1>1, LifeAssumption DEF LifeInit, LifeInv, LifeType, LinesWereWritten, ReadersApart

\* What is posted are messages, also behind others or with a quit.
LEMMA PostsAreTyped ==
  ASSUME NEW left \in Seq(Messages)
  PROVE  /\ \A m \in Messages : Append(left, m) \in Seq(Messages)
         /\ Append(left, "request") \in Seq(Messages) /\ Append(left, "timer") \in Seq(Messages)
         /\ Append(left, "close") \in Seq(Messages) /\ Append(left, "quit") \in Seq(Messages)
         /\ left # <<>> => Tail(left) \in Seq(Messages)
<1>1. /\ \A m \in Messages : Append(left, m) \in Seq(Messages)
      /\ left # <<>> => Tail(left) \in Seq(Messages)
  OBVIOUS
<1>2. "request" \in Messages /\ "timer" \in Messages /\ "close" \in Messages /\ "quit" \in Messages
  BY DEF Messages
<1> QED BY <1>1, <1>2

LEMMA LaunchKeeps == LifeInv /\ Start => LifeInv'
<1> SUFFICES ASSUME LifeInv, Start PROVE LifeInv'
  OBVIOUS
<1>1. /\ UNCHANGED <<mode, line, answers, written, input>>
      /\ posted' = posted \/ posted' = Append(posted, "quit")
      /\ \/ readerPc' = readerPc
         \/ mode = "mcp" /\ readerPc' = "reading"
      /\ mainPc' # "starting"
      /\ mode = "mcp" => mainPc' = "looking"
  BY DEF Start, Launch, QuitBehind, outside
<1>2. posted' \in Seq(Messages)
  BY <1>1, PostsAreTyped DEF LifeInv, LifeType
<1> QED BY <1>1, <1>2 DEF LifeInv, LifeType, LinesWereWritten, ReadersApart

LEMMA MainKeeps == LifeInv /\ MainThread => LifeInv'
<1> SUFFICES ASSUME LifeInv, MainThread PROVE LifeInv'
  OBVIOUS
<1>1. CASE Start
  BY <1>1, LaunchKeeps
<1>2. CASE ReadLine
  <2>1. /\ UNCHANGED <<mode, line, answers, written, posted, readerPc>> /\ mainPc = "blocked" /\ mainPc' = "testing"
        /\ input' = input \/ (input # <<>> /\ input' = Tail(input))
    BY <1>2 DEF ReadLine, readerVars, outside
  <2>2. input' \in Seq(Lines) /\ \A k \in DOMAIN input' : \E j \in DOMAIN input : input'[k] = input[j]
    <3>1. CASE input' = input
      BY <3>1 DEF LifeInv, LifeType
    <3>2. CASE input # <<>> /\ input' = Tail(input)
      <4>1. input' \in Seq(Lines) /\ \A k \in DOMAIN input' : k + 1 \in DOMAIN input /\ input'[k] = input[k + 1]
        BY <3>2 DEF LifeInv, LifeType
      <4> QED BY <4>1
    <3> QED BY <2>1, <3>1, <3>2
  <2> QED BY <2>1, <2>2 DEF LifeInv, LifeType, LinesWereWritten, ReadersApart
<1>3. CASE TestInput \/ EnterRead \/ LookForBreak \/ WakeUp \/ HandleRequest \/ ServeTimer \/ HandleClose \/ ReceiveQuit \/ Shutdown \/ JoinReader
  <2>1. /\ UNCHANGED <<mode, line, answers, written, input, readerPc>>
        /\ mainPc' \in {"testing", "entering", "blocked"} => mainPc \in {"testing", "entering", "blocked"}
        /\ mainPc' = "starting" => mainPc = "starting"
    BY <1>3 DEF TestInput, EnterRead, LookForBreak, WakeUp, HandleRequest, ServeTimer, HandleClose, ReceiveQuit,
                Shutdown, JoinReader, readerVars, outside
  <2>2. \E left \in Seq(Messages) : posted' = left \/ posted' = Append(left, "quit")
    <3>1. posted \in Seq(Messages)
      BY DEF LifeInv, LifeType
    <3>2. posted # <<>> => Tail(posted) \in Seq(Messages)
      BY <3>1
    <3>3. \/ posted' = posted \/ posted' = Append(posted, "quit")
          \/ posted # <<>> /\ (posted' = Tail(posted) \/ posted' = Append(Tail(posted), "quit"))
      BY <1>3 DEF TestInput, EnterRead, LookForBreak, WakeUp, HandleRequest, ServeTimer, HandleClose, ReceiveQuit,
                  Shutdown, JoinReader, Dispatching, QuitBehind
    <3> QED BY <3>1, <3>2, <3>3
  <2>3. posted' \in Seq(Messages)
    BY <2>2, PostsAreTyped
  <2> QED BY <2>1, <2>3 DEF LifeInv, LifeType, LinesWereWritten, ReadersApart
<1> QED BY <1>1, <1>2, <1>3 DEF MainThread

LEMMA ReaderKeeps == LifeInv /\ ReaderThread => LifeInv'
<1> SUFFICES ASSUME LifeInv, ReaderThread PROVE LifeInv'
  OBVIOUS
<1>1. CASE ReadMessage
  <2>1. /\ UNCHANGED <<mode, mainPc, answers, posted, written>> /\ readerPc = "reading"
        /\ input # <<>> /\ input' = Tail(input)
        /\ \/ UNCHANGED <<readerPc, line>>
           \/ readerPc' = "posting" /\ line' = Head(input)
    BY <1>1 DEF ReadMessage, mainVars, outside
  <2>2. /\ input' \in Seq(Lines) /\ \A k \in DOMAIN input' : k + 1 \in DOMAIN input /\ input'[k] = input[k + 1]
        /\ 1 \in DOMAIN input /\ Head(input) = input[1] /\ Head(input) \in Lines
    BY <2>1 DEF LifeInv, LifeType
  <2>3. line' \in Lines /\ line'.id <= written
    BY <2>1, <2>2 DEF LifeInv, LifeType, LinesWereWritten
  <2>4. \A k \in DOMAIN input' : input'[k].id <= written
    BY <2>2 DEF LifeInv, LinesWereWritten
  <2> QED BY <2>1, <2>2, <2>3, <2>4 DEF LifeInv, LifeType, LinesWereWritten, ReadersApart
<1>2. CASE PostRequest \/ FinishReading
  <2>1. /\ UNCHANGED <<mode, mainPc, line, answers, written, input>> /\ readerPc \in {"posting", "reading"}
        /\ readerPc' \in {"waiting", "finished"}
        /\ posted' = posted \/ posted' = Append(posted, "request") \/ posted' = Append(posted, "close")
    BY <1>2 DEF PostRequest, FinishReading, EndOfInput, Post, mainVars, outside
  <2>2. posted' \in Seq(Messages)
    BY <2>1, PostsAreTyped DEF LifeInv, LifeType
  <2> QED BY <2>1, <2>2 DEF LifeInv, LifeType, LinesWereWritten, ReadersApart
<1>3. CASE Continue
  BY <1>3 DEF Continue, EventSignalled, mainVars, outside, LifeInv, LifeType, LinesWereWritten, ReadersApart
<1>4. CASE WriteAnswer
  <2>1. /\ UNCHANGED <<mode, mainPc, line, posted, written, input>> /\ readerPc = "writing" /\ readerPc' = "reading"
        /\ answers' = answers \/ answers' = Append(answers, line.id)
    BY <1>4 DEF WriteAnswer, mainVars, outside
  <2>2. line.id \in Nat /\ line.id <= written
    BY DEF LifeInv, LifeType, LinesWereWritten, Lines
  <2>3. answers' \in Seq(Nat) /\ \A k \in DOMAIN answers' : answers'[k] <= written
    <3>1. CASE answers' = Append(answers, line.id)
      <4>1. answers' \in Seq(Nat) /\ \A k \in DOMAIN answers' : (k \in DOMAIN answers /\ answers'[k] = answers[k]) \/ answers'[k] = line.id
        BY <2>2, <3>1 DEF LifeInv, LifeType
      <4> QED BY <2>2, <4>1 DEF LifeInv, LinesWereWritten
    <3> QED BY <2>1, <3>1 DEF LifeInv, LifeType, LinesWereWritten
  <2> QED BY <2>1, <2>3 DEF LifeInv, LifeType, LinesWereWritten, ReadersApart
<1> QED BY <1>1, <1>2, <1>3, <1>4 DEF ReaderThread

LEMMA OthersKeep == LifeInv /\ (TimerDue \/ Environment) => LifeInv'
<1> SUFFICES ASSUME LifeInv, TimerDue \/ Environment PROVE LifeInv'
  OBVIOUS
<1>1. CASE TimerDue
  <2>1. UNCHANGED <<mode, mainPc, readerPc, line, answers, written, input>> /\ posted' = Append(posted, "timer")
    BY <1>1 DEF TimerDue, Post, mainVars, readerVars, outside
  <2>2. posted' \in Seq(Messages)
    BY <2>1, PostsAreTyped DEF LifeInv, LifeType
  <2> QED BY <2>1, <2>2 DEF LifeInv, LifeType, LinesWereWritten, ReadersApart
<1>2. CASE Signal \/ CloseInput \/ HangUp
  <2>1. /\ UNCHANGED <<mode, readerPc, line, answers, written, input, posted>>
        /\ mainPc' \in {"testing", "entering", "blocked"} => mainPc \in {"testing", "entering", "blocked"}
        /\ mainPc' = "starting" => mainPc = "starting"
    BY <1>2 DEF Signal, CloseInput, HangUp, mainVars, readerVars
  <2> QED BY <2>1 DEF LifeInv, LifeType, LinesWereWritten, ReadersApart
<1>3. CASE WriteInput
  <2>1. PICK k \in Kinds : input' = Append(input, [kind |-> k, id |-> written + 1])
    BY <1>3 DEF WriteInput
  <2>2. UNCHANGED <<mode, mainPc, readerPc, line, answers, posted>> /\ written' = written + 1
    BY <1>3 DEF WriteInput, mainVars, readerVars
  <2>3. input \in Seq(Lines) /\ written \in Nat /\ line.id \in Nat
    BY DEF LifeInv, LifeType, Lines
  <2>4. /\ written + 1 \in Nat
        /\ \A n \in Nat : n <= written => n <= written + 1
    BY <2>3
  <2>5. [kind |-> k, id |-> written + 1] \in Lines
    BY <2>4 DEF Lines
  <2>6. /\ input' \in Seq(Lines)
        /\ \A j \in DOMAIN input' : \/ j \in DOMAIN input /\ input'[j] = input[j]
                                    \/ input'[j] = [kind |-> k, id |-> written + 1]
    BY <2>1, <2>3, <2>5
  <2>7. \A j \in DOMAIN input : input[j].id \in Nat
    <3>1. \A j \in DOMAIN input : input[j] \in Lines
      BY <2>3
    <3> QED BY <3>1 DEF Lines
  <2>8. \A j \in DOMAIN input' : input'[j].id <= written + 1
    BY <2>3, <2>4, <2>6, <2>7 DEF LifeInv, LinesWereWritten
  <2>9. \A j \in DOMAIN answers : answers[j] \in Nat
    BY DEF LifeInv, LifeType
  <2> QED BY <2>2, <2>3, <2>4, <2>6, <2>8, <2>9 DEF LifeInv, LifeType, LinesWereWritten, ReadersApart
<1> QED BY <1>1, <1>2, <1>3 DEF Environment

LEMMA LifeInvHolds == LifeSpec => []LifeInv
<1>1. LifeInv /\ UNCHANGED lifeVars => LifeInv'
  BY DEF lifeVars, mainVars, readerVars, outside, LifeInv, LifeType, LinesWereWritten, ReadersApart
<1>2. LifeInv /\ [LifeNext]_lifeVars => LifeInv'
  BY <1>1, MainKeeps, ReaderKeeps, OthersKeep DEF LifeNext
<1> QED BY <1>2, LifeInitially, PTL DEF LifeSpec

-----------------------------------------------------------------------------
(* The dialogue.                                                           *)

\* A line in front of others.
LEMMA LineInFront ==
  ASSUME NEW S, NEW s \in Seq(S), NEW e \in S
  PROVE  /\ <<>> \o s = s
         /\ <<e>> \o s # <<>> /\ Head(<<e>> \o s) = e /\ Tail(<<e>> \o s) = s
         /\ s # <<>> => <<Head(s)>> \o Tail(s) = s
         /\ \A x \in S : <<e>> \o Append(s, x) = Append(<<e>> \o s, x)
OBVIOUS

\* What waits is the line the reader thread is at and then the input.
LEMMA WhatWaits ==
  ASSUME LifeInv, mode = "mcp"
  PROVE  /\ readerPc \in {"posting", "waiting", "writing"} =>
              Unhandled = <<line>> \o input /\ Unhandled # <<>> /\ Head(Unhandled) = line /\ Tail(Unhandled) = input
         /\ readerPc \notin {"posting", "waiting", "writing"} => Unhandled = input
BY LineInFront DEF Unhandled, Held, LifeInv, LifeType

LEMMA WhatWaitsNext ==
  ASSUME LifeInv', mode' = "mcp"
  PROVE  /\ readerPc' \in {"posting", "waiting", "writing"} => Unhandled' = <<line'>> \o input'
         /\ readerPc' \notin {"posting", "waiting", "writing"} => Unhandled' = input'
BY LineInFront DEF Unhandled, Held, LifeInv, LifeType

\* A step that leaves input and reader thread alone is none of the dialogue's.
LEMMA NothingSaid ==
  ASSUME UNCHANGED <<mode, line, input, answers, listening>>,
         \/ readerPc' = readerPc
         \/ {readerPc, readerPc'} \cap {"posting", "waiting", "writing"} = {}
         \/ {readerPc, readerPc'} \subseteq {"posting", "waiting", "writing"}
  PROVE  UNCHANGED Promise!vars
BY DEF Promise!vars, Unhandled, Held

\* Outside of an MCP session there is no dialogue.
LEMMA SilentElsewhere ==
  ASSUME LifeInv, mode # "mcp", LifeNext
  PROVE  UNCHANGED Promise!vars
<1>1. readerPc = "none"
  BY DEF LifeInv, ReadersApart
<1>2. ~ReaderThread /\ ~HangUp
  BY <1>1 DEF ReaderThread, ReadMessage, PostRequest, Continue, EventSignalled, WriteAnswer, FinishReading, EndOfInput, HangUp
<1>3. UNCHANGED <<mode, answers, listening>>
  BY <1>2 DEF LifeNext, MainThread, Environment, Start, Launch, TestInput, EnterRead, ReadLine, LookForBreak, WakeUp,
       HandleRequest, ServeTimer, HandleClose, ReceiveQuit, Shutdown, JoinReader, TimerDue, Signal, WriteInput, CloseInput,
       readerVars, outside
<1> QED BY <1>3 DEF Promise!vars, Unhandled

\* The reader thread takes lines in their order and answers the requests.
LEMMA ReaderSpeaks ==
  ASSUME LifeInv, LifeInv', mode = "mcp", ReaderThread
  PROVE  [Promise!Next]_(Promise!vars)
<1>1. mode' = "mcp" /\ UNCHANGED listening
  BY DEF ReaderThread, ReadMessage, PostRequest, Continue, EventSignalled, WriteAnswer, FinishReading, EndOfInput, outside
<1>2. CASE ReadMessage
  <2>1. /\ readerPc = "reading" /\ input # <<>> /\ input' = Tail(input) /\ UNCHANGED answers
        /\ Unhandled = input /\ input \in Seq(Lines)
    BY <1>2, WhatWaits DEF ReadMessage, LifeInv, LifeType
  <2>2. CASE Head(input).kind = "blank"
    <3>1. Unhandled' = Tail(input)
      BY <1>1, <1>2, <2>1, <2>2, WhatWaitsNext DEF ReadMessage
    <3> QED BY <1>1, <2>1, <2>2, <3>1 DEF Promise!Next, Promise!Obey, Promise!IsNext
  <2>3. CASE Head(input).kind # "blank"
    <3>1. readerPc' = "posting" /\ line' = Head(input)
      BY <1>2, <2>3 DEF ReadMessage
    <3>2. Unhandled' = <<Head(input)>> \o Tail(input)
      BY <1>1, <2>1, <3>1, WhatWaitsNext
    <3>3. Head(input) \in Lines
      BY <2>1
    <3>4. <<Head(input)>> \o Tail(input) = input
      BY <2>1, <3>3, LineInFront
    <3> QED BY <1>1, <2>1, <3>2, <3>4 DEF Promise!vars
  <2> QED BY <2>2, <2>3
<1>3. CASE PostRequest
  BY <1>1, <1>3, NothingSaid DEF PostRequest
<1>4. CASE Continue
  <2>1. /\ readerPc = "waiting" /\ UNCHANGED <<line, input, answers>>
        /\ \/ line.kind = "request" /\ readerPc' = "writing"
           \/ line.kind # "request" /\ readerPc' = "reading"
    BY <1>4 DEF Continue, EventSignalled
  <2>2. CASE readerPc' = "writing"
    BY <1>1, <2>1, <2>2, NothingSaid
  <2>3. CASE line.kind # "request" /\ readerPc' = "reading"
    <3>1. Unhandled # <<>> /\ Head(Unhandled) = line /\ Tail(Unhandled) = input
      BY <2>1, WhatWaits
    <3>2. Unhandled' = input
      BY <1>1, <2>1, <2>3, WhatWaitsNext
    <3> QED BY <1>1, <2>1, <2>3, <3>1, <3>2 DEF Promise!Next, Promise!Obey, Promise!IsNext
  <2> QED BY <2>1, <2>2, <2>3
<1>5. CASE WriteAnswer
  <2>1. /\ readerPc = "writing" /\ readerPc' = "reading" /\ UNCHANGED <<line, input>> /\ line.kind = "request"
        /\ answers' = IF listening THEN Append(answers, line.id) ELSE answers
    BY <1>5 DEF WriteAnswer, LifeInv, ReadersApart
  <2>2. Unhandled # <<>> /\ Head(Unhandled) = line /\ Tail(Unhandled) = input
    BY <2>1, WhatWaits
  <2>3. Unhandled' = input
    BY <1>1, <2>1, WhatWaitsNext
  <2> QED BY <1>1, <2>1, <2>2, <2>3 DEF Promise!Next, Promise!Answer, Promise!IsNext
<1>6. CASE FinishReading
  BY <1>1, <1>6, NothingSaid DEF FinishReading, EndOfInput
<1> QED BY <1>2, <1>3, <1>4, <1>5, <1>6 DEF ReaderThread

\* A line that is written is told apart from every line before it.
LEMMA ClientSpeaks ==
  ASSUME LifeInv, LifeInv', mode = "mcp", WriteInput
  PROVE  Promise!Next
<1>1. PICK kind \in Kinds : input' = Append(input, [kind |-> kind, id |-> written + 1])
  BY DEF WriteInput
<1> DEFINE sent == [kind |-> kind, id |-> written + 1]
<1>2. /\ UNCHANGED <<mode, readerPc, line, answers, listening>> /\ written < MaxLines
      /\ written \in Nat /\ written + 1 \in 1..MaxLines
  BY LifeAssumption DEF WriteInput, mainVars, readerVars, LifeInv, LifeType
<1>3. sent \in Lines /\ line \in Lines /\ input \in Seq(Lines)
  BY <1>2 DEF Lines, LifeInv, LifeType
<1>4. Unhandled' = Append(Unhandled, sent)
  <2> HIDE DEF sent
  <2>1. CASE readerPc \in {"posting", "waiting", "writing"}
    <3>1. Unhandled = <<line>> \o input
      BY <2>1, WhatWaits
    <3>2. Unhandled' = <<line>> \o input'
      BY <1>2, <2>1, WhatWaitsNext
    <3>3. input' = Append(input, sent)
      BY <1>1 DEF sent
    <3>4. <<line>> \o Append(input, sent) = Append(<<line>> \o input, sent)
      BY <1>3, LineInFront
    <3> QED BY <3>1, <3>2, <3>3, <3>4
  <2>2. CASE readerPc \notin {"posting", "waiting", "writing"}
    BY <1>1, <1>2, <2>2, WhatWaits, WhatWaitsNext DEF sent
  <2> QED BY <2>1, <2>2
<1>5. \A k \in DOMAIN Unhandled : Unhandled[k].id # written + 1
  <2>1. \A k \in DOMAIN input : input[k].id \in Nat /\ input[k].id <= written
    <3>1. \A k \in DOMAIN input : input[k] \in Lines
      BY <1>3
    <3> QED BY <3>1 DEF Lines, LifeInv, LinesWereWritten
  <2>2. line.id \in Nat /\ line.id <= written
    BY <1>3 DEF Lines, LifeInv, LinesWereWritten
  <2>3. CASE readerPc \in {"posting", "waiting", "writing"}
    <3>1. Unhandled = <<line>> \o input
      BY <2>3, WhatWaits
    <3>2. \A k \in DOMAIN Unhandled : Unhandled[k] = line \/ \E j \in DOMAIN input : Unhandled[k] = input[j]
      <4>1. \A k \in DOMAIN (<<line>> \o input) :
              \/ (<<line>> \o input)[k] = line
              \/ k - 1 \in DOMAIN input /\ (<<line>> \o input)[k] = input[k - 1]
        BY <1>3
      <4> QED BY <3>1, <4>1
    <3> QED BY <1>2, <2>1, <2>2, <3>2
  <2>4. CASE readerPc \notin {"posting", "waiting", "writing"}
    BY <1>2, <2>1, <2>4, WhatWaits
  <2> QED BY <2>3, <2>4
<1>6. \A k \in DOMAIN answers : answers[k] # written + 1
  <2>1. \A k \in DOMAIN answers : answers[k] \in Nat /\ answers[k] <= written
    BY DEF LifeInv, LifeType, LinesWereWritten
  <2> QED BY <1>2, <2>1
<1>7. Promise!Send(kind, written + 1)
  BY <1>2, <1>4, <1>5, <1>6 DEF Promise!Send
<1> QED BY <1>2, <1>7 DEF Promise!Next

LEMMA DialogueStep ==
  ASSUME LifeInv, LifeInv', [LifeNext]_lifeVars
  PROVE  [Promise!Next]_(Promise!vars)
<1>1. CASE UNCHANGED lifeVars
  BY <1>1, NothingSaid DEF lifeVars, readerVars, outside
<1>2. CASE LifeNext /\ mode # "mcp"
  BY <1>2, SilentElsewhere
<1>3. CASE ReaderThread /\ mode = "mcp"
  BY <1>3, ReaderSpeaks
<1>4. CASE WriteInput /\ mode = "mcp"
  BY <1>4, ClientSpeaks
<1>5. CASE HangUp
  <2>1. UNCHANGED <<mode, line, input, answers, readerPc>> /\ listening' = FALSE
    BY <1>5 DEF HangUp, readerVars
  <2>2. UNCHANGED <<Unhandled, answers>>
    BY <2>1 DEF Unhandled, Held
  <2> QED BY <2>1, <2>2 DEF Promise!Next, Promise!HangUp
<1>6. CASE MainThread /\ mode = "mcp"
  <2>1. UNCHANGED <<mode, line, answers, listening>>
    BY <1>6 DEF MainThread, Start, Launch, TestInput, EnterRead, ReadLine, LookForBreak, WakeUp,
       HandleRequest, ServeTimer, HandleClose, ReceiveQuit, Shutdown, JoinReader, readerVars, outside
  <2>2. UNCHANGED input
    BY <1>6 DEF MainThread, Start, Launch, TestInput, EnterRead, ReadLine, LookForBreak, WakeUp,
       HandleRequest, ServeTimer, HandleClose, ReceiveQuit, Shutdown, JoinReader, LifeInv, ReadersApart
  <2>3. readerPc' = readerPc \/ {readerPc, readerPc'} \subseteq {"none", "reading"}
    <3>1. CASE Start
      BY <1>6, <3>1 DEF Start, Launch, LifeInv, ReadersApart
    <3>2. CASE ~Start
      BY <1>6, <3>2 DEF MainThread, TestInput, EnterRead, ReadLine, LookForBreak, WakeUp,
         HandleRequest, ServeTimer, HandleClose, ReceiveQuit, Shutdown, JoinReader, readerVars
    <3> QED BY <3>1, <3>2
  <2>4. readerPc' = readerPc \/ {readerPc, readerPc'} \cap {"posting", "waiting", "writing"} = {}
    BY <2>3
  <2> QED BY <2>1, <2>2, <2>4, NothingSaid
<1>7. CASE TimerDue \/ Signal \/ CloseInput
  <2>1. UNCHANGED <<mode, line, input, answers, listening, readerPc>>
    BY <1>7 DEF TimerDue, Signal, CloseInput, readerVars, outside
  <2> QED BY <2>1, NothingSaid
<1> QED BY <1>1, <1>2, <1>3, <1>4, <1>5, <1>6, <1>7 DEF LifeNext, Environment

\* Requests are answered in the order in which they were sent, each once and
\* nothing else: every step of the process, with its threads, its timer and its
\* user, is a step of the Dialogue or leaves it as it is. (That every request is
\* handled in the end is liveness, which the run "life" checks.)
THEOREM AnswersInOrder == LifeSpec => Promise!Init /\ [][Promise!Next]_(Promise!vars)
<1>1. LifeInit => Promise!Init
  BY DEF LifeInit, Promise!Init, Unhandled, Held
<1> QED BY <1>1, DialogueStep, LifeInvHolds, PTL DEF LifeSpec

-----------------------------------------------------------------------------
(* The end of an MCP session.                                              *)

Leaving == {"close", "quit"}

\* An MCP session leaves only after its reader thread has.
LeavesAfterReader ==
  mode = "mcp" =>
    /\ ~signalled
    /\ \/ readerPc = "finished"
       \/ /\ ~quitPosted
          /\ mainPc \notin {"shutdown", "joining", "ended"}
          /\ \A k \in DOMAIN posted : posted[k] \notin Leaving

\* What is on its way after a message was taken, or another added.
LEMMA OnItsWay ==
  ASSUME NEW s \in Seq(Messages), \A k \in DOMAIN s : s[k] \notin Leaving
  PROVE  /\ s # <<>> => /\ Head(s) \notin Leaving
                        /\ \A k \in DOMAIN Tail(s) : Tail(s)[k] \notin Leaving
         /\ \A m : m \notin Leaving => \A k \in DOMAIN Append(s, m) : Append(s, m)[k] \notin Leaving
<1>1. ASSUME s # <<>>
      PROVE  Head(s) = s[1] /\ 1 \in DOMAIN s /\ \A k \in DOMAIN Tail(s) : k + 1 \in DOMAIN s /\ Tail(s)[k] = s[k + 1]
  BY <1>1
<1>2. ASSUME NEW m, m \notin Leaving
      PROVE  \A k \in DOMAIN Append(s, m) : Append(s, m)[k] \notin Leaving
  <2>1. \A k \in DOMAIN Append(s, m) : Append(s, m)[k] = m \/ (k \in DOMAIN s /\ Append(s, m)[k] = s[k])
    OBVIOUS
  <2> QED BY <1>2, <2>1
<1> QED BY <1>1, <1>2

LEMMA LeavingStep ==
  ASSUME "mcp" \notin Signalled, LifeInv, LeavesAfterReader, [LifeNext]_lifeVars
  PROVE  LeavesAfterReader'
<1>1. CASE UNCHANGED lifeVars
  BY <1>1 DEF lifeVars, mainVars, readerVars, outside, LeavesAfterReader
<1>2. mode' = mode
  BY DEF LifeNext, MainThread, ReaderThread, Environment, lifeVars, Start, Launch, TestInput, EnterRead, ReadLine,
     LookForBreak, WakeUp, HandleRequest, ServeTimer, HandleClose, ReceiveQuit, Shutdown, JoinReader, TimerDue, Signal,
     WriteInput, CloseInput, HangUp, ReadMessage, PostRequest, Continue, EventSignalled, WriteAnswer, FinishReading, EndOfInput
<1>3. CASE mode # "mcp"
  BY <1>2, <1>3 DEF LeavesAfterReader
<1> SUFFICES ASSUME mode = "mcp", LifeNext PROVE LeavesAfterReader'
  BY <1>1, <1>3
<1>4. ~signalled /\ ~signalled'
  <2>1. ~Signal
    BY DEF Signal
  <2>2. signalled' = signalled
    BY <2>1 DEF LifeNext, MainThread, ReaderThread, Environment, Start, Launch, TestInput, EnterRead, ReadLine,
     LookForBreak, WakeUp, HandleRequest, ServeTimer, HandleClose, ReceiveQuit, Shutdown, JoinReader, TimerDue,
     WriteInput, CloseInput, HangUp, ReadMessage, PostRequest, Continue, EventSignalled, WriteAnswer, FinishReading, EndOfInput, outside
  <2> QED BY <2>2 DEF LeavesAfterReader
<1>5. posted \in Seq(Messages) /\ (mainPc = "starting" => readerPc = "none") /\ mainPc \notin {"testing", "entering", "blocked"}
  BY DEF LifeInv, LifeType, ReadersApart
<1>6. CASE readerPc = "finished"
  <2>1. readerPc' = "finished"
    BY <1>5, <1>6 DEF LifeNext, MainThread, ReaderThread, Environment, Start, Launch, TestInput, EnterRead, ReadLine,
     LookForBreak, WakeUp, HandleRequest, ServeTimer, HandleClose, ReceiveQuit, Shutdown, JoinReader, TimerDue, Signal,
     WriteInput, CloseInput, HangUp, ReadMessage, PostRequest, Continue, EventSignalled, WriteAnswer, FinishReading, EndOfInput, readerVars
  <2> QED BY <1>2, <1>4, <2>1 DEF LeavesAfterReader
<1> SUFFICES ASSUME ~quitPosted, mainPc \notin {"shutdown", "joining", "ended"}, \A k \in DOMAIN posted : posted[k] \notin Leaving
             PROVE  LeavesAfterReader'
  BY <1>6 DEF LeavesAfterReader
<1>7. CASE FinishReading
  BY <1>2, <1>4, <1>7 DEF FinishReading, EndOfInput, LeavesAfterReader
<1>8. CASE ~FinishReading
  <2>1. ~HandleClose /\ ~ReceiveQuit /\ ~Shutdown /\ ~JoinReader
    BY <1>5, OnItsWay DEF HandleClose, ReceiveQuit, Dispatching, Shutdown, JoinReader, Leaving
  <2>2. ~quitPosted'
    BY <1>4, <1>8, <2>1 DEF LifeNext, MainThread, ReaderThread, Environment, Start, Launch, TestInput, EnterRead, ReadLine,
     LookForBreak, WakeUp, HandleRequest, ServeTimer, TimerDue, Signal,
     WriteInput, CloseInput, HangUp, ReadMessage, PostRequest, Continue, EventSignalled, WriteAnswer, mainVars
  <2>3. mainPc' \notin {"shutdown", "joining", "ended"}
    BY <1>4, <1>5, <1>8, <2>1 DEF LifeNext, MainThread, ReaderThread, Environment, Start, Launch, TestInput, EnterRead, ReadLine,
     LookForBreak, WakeUp, HandleRequest, ServeTimer, TimerDue, Signal,
     WriteInput, CloseInput, HangUp, ReadMessage, PostRequest, Continue, EventSignalled, WriteAnswer, mainVars
  <2>4. \/ posted' = posted
        \/ posted # <<>> /\ posted' = Tail(posted)
        \/ posted' = Append(posted, "timer")
        \/ posted' = Append(posted, "request")
    BY <1>4, <1>5, <1>8, <2>1 DEF LifeNext, MainThread, ReaderThread, Environment, Start, Launch, TestInput, EnterRead, ReadLine,
     LookForBreak, WakeUp, HandleRequest, ServeTimer, TimerDue, Signal, Dispatching, Post,
     WriteInput, CloseInput, HangUp, ReadMessage, PostRequest, Continue, EventSignalled, WriteAnswer, mainVars
  <2>5. "timer" \notin Leaving /\ "request" \notin Leaving
    BY DEF Leaving
  <2>6. \A k \in DOMAIN posted' : posted'[k] \notin Leaving
    BY <1>5, <2>4, <2>5, OnItsWay
  <2> QED BY <1>2, <1>4, <2>2, <2>3, <2>6 DEF LeavesAfterReader
<1> QED BY <1>7, <1>8

\* Where no signal interrupts an MCP session, shutdown() joins a reader thread
\* that has finished, as its comment says (ApplicationState.cpp:483): a quit is
\* posted only behind the last message of that thread. The run "life_interrupt"
\* shows that the hypothesis is needed.
THEOREM UninterruptedJoin == ("mcp" \notin Signalled) => (LifeSpec => []JoinsAFinishedReader)
<1> SUFFICES ASSUME "mcp" \notin Signalled PROVE LifeSpec => []JoinsAFinishedReader
  OBVIOUS
<1>1. LifeInit => LeavesAfterReader
  BY DEF LifeInit, LeavesAfterReader
<1>2. LifeInv /\ LeavesAfterReader /\ [LifeNext]_lifeVars => LeavesAfterReader'
  BY LeavingStep
<1>3. LifeInv /\ LeavesAfterReader => JoinsAFinishedReader
  BY DEF LifeInv, ReadersApart, LeavesAfterReader, JoinsAFinishedReader
<1> QED BY <1>1, <1>2, <1>3, LifeInvHolds, PTL DEF LifeSpec
=============================================================================
