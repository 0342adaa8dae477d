------------------------------ MODULE Lifecycle ------------------------------
(***************************************************************************)
(* The life of the process: initialise(), the dispatch loop, shutdown().   *)
(*                                                                         *)
(*  - "once": a listing or the help, printed before the process quits;     *)
(*  - "ports": routes between ports, until a signal ends the process;      *)
(*  - "commands": the same, once standard input has no more commands (--); *)
(*  - "stdin": a route from "in -", read on the message thread;            *)
(*  - "mcp": a reader thread reads standard input and has the message      *)
(*    thread handle each request, the answer goes back from the reader.    *)
(*                                                                         *)
(* The message thread takes turns between requests and the reconnect timer *)
(* through one FIFO of JUCE, which takes nothing once a quit was posted.   *)
(* Signals reach the message thread.  RouteEngine has what the timer, the  *)
(* requests and the rest of shutdown() do.                                 *)
(***************************************************************************)
EXTENDS Naturals, Sequences, SequencesExt

CONSTANTS
  Modes,       \* what the command line may ask for
  Signalled,   \* the modes in which the user interrupts the process, once
  MaxLines     \* bound: lines that come in on standard input

ASSUME LifeAssumption ==
  /\ Modes \subseteq {"once", "ports", "commands", "stdin", "mcp"}
  /\ Signalled \subseteq {"ports", "commands", "stdin", "mcp"}
  /\ MaxLines \in Nat

VARIABLES
  mode,        \* what the command line asked for
  mainPc,      \* where the message thread is
  readerPc,    \* where the reader thread is, "none" before it starts
  line,        \* the line that the reader thread is busy with
  handled,     \* the event that the reader thread waits for
  posted,      \* the FIFO of the message thread
  quitPosted,  \* JUCE's quitMessagePosted
  timerOn,     \* the reconnect timer is started
  signalled,   \* a signal came; the flag its handler raised
  input,       \* lines written to standard input and not read
  written,     \* lines ever written to it
  closed,      \* its writer closed it
  failed,      \* std::cin is no longer good
  answers,     \* the requests whose answers the client got
  listening    \* the client still reads standard output

mainVars == <<mainPc, quitPosted, timerOn>>
readerVars == <<readerPc, line, handled, answers>>
outside == <<signalled, written, closed, listening>>
lifeVars == <<mode, mainVars, readerVars, posted, outside, input, failed>>

\* A request is answered; a notification and a blank line are not.
Kinds == {"request", "notification", "blank"}
NoLine == [kind |-> "blank", id |-> 0]

LifeInit ==
  /\ mode \in Modes
  /\ mainPc = "starting" /\ quitPosted = FALSE /\ timerOn = FALSE
  /\ readerPc = "none" /\ line = NoLine /\ handled = FALSE /\ answers = <<>>
  /\ posted = <<>>
  /\ signalled = FALSE /\ written = 0 /\ closed = FALSE /\ listening = TRUE
  /\ input = <<>> /\ failed = FALSE

-----------------------------------------------------------------------------
(* MessageBase::post and stopDispatchLoop, as RouteMIDI uses them.         *)

Post(m) == posted' = IF quitPosted THEN posted ELSE Append(posted, m)
\* quit() behind messages of which the first is gone already.
QuitBehind(left) ==
  /\ posted' = IF quitPosted THEN left ELSE Append(left, "quit")
  /\ quitPosted' = TRUE

-----------------------------------------------------------------------------
(* initialise().                                                           *)

Launch(reader, main) ==
  /\ mainPc = "starting"
  /\ \/ mode = "once" /\ mainPc' = "shutdown" /\ QuitBehind(posted) /\ UNCHANGED <<timerOn, readerPc>>
     \/ /\ mode = "mcp" /\ mainPc' = main /\ timerOn' = TRUE /\ readerPc' = reader
        /\ UNCHANGED <<posted, quitPosted>>
     \/ /\ mode \in {"stdin", "commands"} /\ mainPc' = "testing" /\ timerOn' = (mode = "stdin")
        /\ UNCHANGED <<posted, quitPosted, readerPc>>
     \/ /\ mode = "ports" /\ mainPc' = "looking" /\ timerOn' = TRUE
        /\ UNCHANGED <<posted, quitPosted, readerPc>>
  /\ UNCHANGED <<mode, line, handled, answers, outside, input, failed>>
\* Mutant: MCP requests are read on the message thread, as "in -" is.
StartReading == Launch("none", "testing")
Start == Launch("reading", "looking")

\* The condition of the loop: "in -" looks for a signal, "--" does not.
TestInput ==
  /\ mainPc = "testing"
  /\ IF ~failed /\ ~(mode = "stdin" /\ signalled)
     THEN mainPc' = "entering" /\ UNCHANGED <<posted, quitPosted, timerOn>>
     ELSE IF mode = "stdin"
          THEN mainPc' = "shutdown" /\ QuitBehind(posted) /\ UNCHANGED timerOn
          ELSE mainPc' = "looking" /\ timerOn' = TRUE /\ UNCHANGED <<posted, quitPosted>>
  /\ UNCHANGED <<mode, readerVars, outside, input, failed>>

\* getline() returns at once, or finds nothing and waits.
EnterRead ==
  /\ mainPc = "entering"
  /\ mainPc' = "blocked"
  /\ UNCHANGED <<mode, quitPosted, timerOn, readerVars, posted, outside, input, failed>>

ReadLine ==
  /\ mainPc = "blocked"
  /\ \/ input # <<>> /\ input' = Tail(input) /\ UNCHANGED failed
     \/ input = <<>> /\ closed /\ failed' = TRUE /\ UNCHANGED input
  /\ mainPc' = "testing"
  /\ UNCHANGED <<mode, quitPosted, timerOn, readerVars, posted, outside>>

-----------------------------------------------------------------------------
(* The dispatch loop.                                                      *)

\* JUCE looks for the SIGINT of its own handler before each message; outside
\* of --mcp RouteMIDI's handler has replaced it.
LookForBreak ==
  /\ mainPc = "looking"
  /\ mainPc' = "dispatching"
  /\ IF mode = "mcp" /\ signalled THEN QuitBehind(posted) ELSE UNCHANGED <<posted, quitPosted>>
  /\ UNCHANGED <<mode, timerOn, readerVars, outside, input, failed>>

\* poll() of the run loop comes back after two seconds or a signal.
WakeUp ==
  /\ mainPc = "dispatching"
  /\ posted = <<>>
  /\ mainPc' = "looking"
  /\ UNCHANGED <<mode, quitPosted, timerOn, readerVars, posted, outside, input, failed>>

Dispatching(m) == mainPc = "dispatching" /\ posted # <<>> /\ Head(posted) = m

HandleRequest ==
  /\ Dispatching("request")
  /\ handled' = TRUE
  /\ posted' = Tail(posted)
  /\ mainPc' = "looking"
  /\ UNCHANGED <<mode, quitPosted, timerOn, readerPc, line, answers, outside, input, failed>>

ServeTimer ==
  /\ Dispatching("timer")
  /\ IF mode # "mcp" /\ signalled
     THEN QuitBehind(Tail(posted))
     ELSE posted' = Tail(posted) /\ UNCHANGED quitPosted
  /\ mainPc' = "looking"
  /\ UNCHANGED <<mode, timerOn, readerVars, outside, input, failed>>

HandleClose ==
  /\ Dispatching("close")
  /\ QuitBehind(Tail(posted))
  /\ mainPc' = "looking"
  /\ UNCHANGED <<mode, timerOn, readerVars, outside, input, failed>>

ReceiveQuit ==
  /\ Dispatching("quit")
  /\ mainPc' = "shutdown"
  /\ posted' = Tail(posted)
  /\ UNCHANGED <<mode, quitPosted, timerOn, readerVars, outside, input, failed>>

-----------------------------------------------------------------------------
(* shutdown(): the timer, inputs, panic and sender, then ~McpServer.       *)

Shutdown ==
  /\ mainPc = "shutdown"
  /\ mainPc' = "joining"
  /\ timerOn' = FALSE
  /\ UNCHANGED <<mode, quitPosted, readerVars, posted, outside, input, failed>>

JoinReader ==
  /\ mainPc = "joining"
  /\ readerPc \in {"none", "finished"}
  /\ mainPc' = "ended"
  /\ UNCHANGED <<mode, quitPosted, timerOn, readerVars, posted, outside, input, failed>>

-----------------------------------------------------------------------------
(* The reader thread of the MCP server.                                    *)

ReadMessage ==
  /\ readerPc = "reading"
  /\ input # <<>>
  /\ input' = Tail(input)
  /\ IF Head(input).kind = "blank"
     THEN UNCHANGED <<readerPc, line>>
     ELSE readerPc' = "posting" /\ line' = Head(input)
  /\ UNCHANGED <<mode, mainVars, handled, answers, posted, outside, failed>>

PostRequest ==
  /\ readerPc = "posting"
  /\ Post("request")
  /\ handled' = FALSE
  /\ readerPc' = "waiting"
  /\ UNCHANGED <<mode, mainVars, line, answers, outside, input, failed>>

EventSignalled(waits) ==
  /\ readerPc = "waiting"
  /\ waits => handled
  /\ readerPc' = IF line.kind = "request" /\ handled THEN "writing" ELSE "reading"
  /\ UNCHANGED <<mode, mainVars, line, handled, answers, posted, outside, input, failed>>
\* Mutant: the reader does not wait for the message thread.
ContinueUnhandled == EventSignalled(FALSE)
Continue == EventSignalled(TRUE)

\* A write that nobody reads fails without a trace.
WriteAnswer ==
  /\ readerPc = "writing"
  /\ answers' = IF listening THEN Append(answers, line.id) ELSE answers
  /\ readerPc' = "reading"
  /\ UNCHANGED <<mode, mainVars, line, handled, posted, outside, input, failed>>

\* The client closed standard input.
EndOfInput ==
  /\ readerPc = "reading"
  /\ input = <<>>
  /\ closed
  /\ readerPc' = "finished"
  /\ UNCHANGED <<mode, mainVars, line, handled, answers, outside, input, failed>>
\* Mutant: the end of the input ends the thread and not the application.
FinishSilently == EndOfInput /\ UNCHANGED posted
FinishReading == EndOfInput /\ Post("close")

-----------------------------------------------------------------------------
(* JUCE's timer thread, the user and the program at the other end.         *)

\* A timer that is due posts a message, if none is on its way.
TimerDue ==
  /\ timerOn
  /\ ~quitPosted
  /\ ~Contains(posted, "timer")
  /\ Post("timer")
  /\ UNCHANGED <<mode, mainVars, readerVars, outside, input, failed>>

\* A signal makes a getline() that waits return with an error, but not one of
\* another thread.
Signal ==
  /\ mode \in Signalled
  /\ ~signalled
  /\ mainPc # "ended"
  /\ signalled' = TRUE
  /\ IF mainPc = "blocked" /\ input = <<>>
     THEN failed' = TRUE /\ mainPc' = "testing"
     ELSE UNCHANGED <<failed, mainPc>>
  /\ UNCHANGED <<mode, quitPosted, timerOn, readerVars, posted, written, closed, listening, input>>

WriteInput ==
  /\ written < MaxLines
  /\ ~closed
  /\ mode # "once" /\ mode # "ports"
  /\ written' = written + 1
  /\ \E k \in Kinds : input' = Append(input, [kind |-> k, id |-> written'])
  /\ UNCHANGED <<mode, mainVars, readerVars, posted, signalled, closed, listening, failed>>

CloseInput ==
  /\ ~closed
  /\ closed' = TRUE
  /\ UNCHANGED <<mode, mainVars, readerVars, posted, signalled, written, listening, input, failed>>

HangUp ==
  /\ listening
  /\ mode = "mcp"
  /\ listening' = FALSE
  /\ UNCHANGED <<mode, mainVars, readerVars, posted, signalled, written, closed, input, failed>>

-----------------------------------------------------------------------------
MainThread ==
  \/ Start \/ TestInput \/ EnterRead \/ ReadLine
  \/ LookForBreak \/ WakeUp \/ HandleRequest \/ ServeTimer \/ HandleClose \/ ReceiveQuit
  \/ Shutdown \/ JoinReader
ReaderThread == ReadMessage \/ PostRequest \/ Continue \/ WriteAnswer \/ FinishReading
Environment == Signal \/ WriteInput \/ CloseInput \/ HangUp

LifeNext == MainThread \/ ReaderThread \/ TimerDue \/ Environment

\* Threads that can run do; nobody has to write, to close or to interrupt.
LifeSpec ==
  /\ LifeInit /\ [][LifeNext]_lifeVars
  /\ WF_lifeVars(MainThread) /\ WF_lifeVars(ReaderThread) /\ WF_lifeVars(TimerDue)

-----------------------------------------------------------------------------
\* The line that the reader thread took and has not done with.
Held == IF readerPc \in {"posting", "waiting", "writing"} THEN <<line>> ELSE <<>>

\* What was sent to the MCP server and waits to be handled.
Unhandled == IF mode = "mcp" THEN Held \o input ELSE <<>>

Promise == INSTANCE Dialogue WITH
  Ids <- 1..MaxLines,
  unhandled <- Unhandled

\* Requests are answered in order, each once, and every one of them in the end,
\* though the reader thread writes what the message thread computed between
\* turns of the timer.
ImplementsDialogue == Promise!Spec

\* The process ends, through shutdown(): when standard input closes, if it was
\* reading it; at a signal, if it routes between ports or is waiting for a line.
EndsWhenAsked ==
  /\ (closed /\ mode \in {"mcp", "stdin"}) ~> (mainPc = "ended")
  /\ (signalled /\ mode = "ports") ~> (mainPc = "ended")
  /\ (signalled /\ mode = "commands" /\ closed) ~> (mainPc = "ended")
  /\ (signalled /\ failed /\ mode = "stdin") ~> (mainPc = "ended")
  /\ (mode = "once") ~> (mainPc = "ended")

\* The reconnect timer is served again and again for as long as it runs, also
\* while the MCP client sends requests; not while "in -" is read.
TimerIsServed ==
  (mode # "stdin") => \/ <>[](~timerOn)
                      \/ []<><<ServeTimer>>_lifeVars

\* "joins the reader thread, which has already finished" (shutdown()).
JoinsAFinishedReader == mainPc = "joining" => readerPc \in {"none", "finished"}

\* "a terminating signal becomes a normal quit [...] and a blocking read of
\* standard input returns instead of restarting" (installTerminationHandlers).
SignalsEnd == signalled ~> (mainPc = "ended")
=============================================================================
