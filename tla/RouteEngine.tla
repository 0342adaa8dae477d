----------------------------- MODULE RouteEngine -----------------------------
(***************************************************************************)
(* The threads of RouteMIDI around one lock and one queue.                 *)
(*                                                                         *)
(*  - a device callback per open MIDI input routes its message to the      *)
(*    outputs of the input's route, holding midiCallbackLock_;             *)
(*  - the sender thread takes everything queued as one batch and sends it; *)
(*  - the message thread runs the reconnect timer, the MCP tools that      *)
(*    start, stop and silence routes and inject messages, and shutdown().  *)
(*                                                                         *)
(* A message is known by its source, an input or the client that injects   *)
(* it, and its number there: odd numbers are note-ons and even numbers the *)
(* matching note-offs of the source's one key.  The processing stages are abstracted to the    *)
(* identity on what a message starts and stops; other modules model them.  *)
(* The 48 messages of sendPanic to one output are one AllNotesOff.         *)
(***************************************************************************)
EXTENDS Naturals, Sequences

CONSTANTS
  Routes,         \* routes that can exist
  Inputs,         \* RouteInputs with a real port, each of one route
  Outputs,        \* OutputDests with a real port, each of one route
  RouteOf,        \* the route of every input and output
  PanicRoutes,    \* the routes with the "panic" flag
  InitialRoutes,  \* the routes of the command line
  MaxMsgs,        \* bound: messages an input device sends
  MaxInjected,    \* bound: messages the MCP client injects
  MaxUnplugs,     \* bound: how often a device vanishes
  MaxPending,     \* bound: panic_route is called while less is pending
  AllNotesOff,    \* sender of the panic messages
  Client,         \* the MCP client, as sender of messages
  MessageThread,  \* the message thread, as holder of the lock
  Nobody          \* a free lock; no current port or route

Ports == Inputs \cup Outputs
Sources == Inputs \cup {Client}

ASSUME EngineAssumption ==
  /\ RouteOf \in [Ports -> Routes]
  /\ Inputs \cap Outputs = {}
  /\ Ports \cap Routes = {}
  /\ PanicRoutes \subseteq Routes
  /\ InitialRoutes \subseteq Routes
  /\ MaxMsgs \in Nat
  /\ MaxInjected \in 0..MaxMsgs
  /\ MaxUnplugs \in Nat
  /\ MaxPending \in Nat
  /\ {AllNotesOff, Client, MessageThread, Nobody} \cap (Ports \cup Routes) = {}
  /\ Client # AllNotesOff /\ MessageThread # Nobody

VARIABLES
  plugged,   \* devices present in the system
  unplugs,   \* how often a device vanished
  live,      \* routes_
  conn,      \* inputs whose midiIn is set
  out,       \* destinations whose out is set
  open,      \* devices that are open, referenced by a field or not
  linked,    \* open devices that did not vanish since they were opened
  played,    \* messages sent by each input device and by the client
  callback,  \* the message each input's callback is busy with, 0 for none
  lock,      \* holder of midiCallbackLock_
  todo,      \* destinations that whoever routes a message has yet to serve
  queue,     \* sendQueue_
  batch,     \* the sender's batch, what is left of it
  sender,    \* the sender thread: running, finished (not joined) or none
  exiting,   \* senderShouldExit_
  sent,      \* the last message of each source handed to each output
  sounding,  \* the sources whose note sounds on each output device
  pc,        \* where the message thread is
  cur,       \* the port or route it works on
  walk,      \* ports the timer has yet to look at
  seen,      \* the devices the timer enumerated
  panicTodo, \* destinations sendPanic has yet to serve
  quit       \* a quit was requested

device == <<plugged, unplugs, linked, played, callback>>
fields == <<live, conn, out, open>>
senderVars == <<batch, sender, exiting, sent, sounding>>
mtVars == <<pc, cur, walk, seen, panicTodo>>
vars == <<device, fields, lock, todo, queue, senderVars, mtVars, quit>>

InputsOf(r)  == {i \in Inputs : RouteOf[i] = r}
OutputsOf(r) == {d \in Outputs : RouteOf[d] = r}

Item == [to : Outputs, from : Sources \cup {AllNotesOff}, n : 0..MaxMsgs]

\* everything handed to enqueueSend and not sent yet, oldest first
Pending == batch \o queue

Init ==
  /\ plugged \in SUBSET Ports
  /\ unplugs = 0
  /\ live = InitialRoutes
  /\ conn = {} /\ out = {} /\ open = {} /\ linked = {}
  /\ played = [i \in Sources |-> 0]
  /\ callback = [i \in Inputs |-> 0]
  /\ lock = Nobody /\ todo = {}
  /\ queue = <<>> /\ batch = <<>>
  /\ sender = "running" /\ exiting = FALSE
  /\ sent = [d \in Outputs |-> [i \in Sources |-> 0]]
  /\ sounding = [d \in Outputs |-> {}]
  /\ pc = "idle" /\ cur = Nobody
  /\ walk = {} /\ seen = {} /\ panicTodo = {}
  /\ quit = FALSE

-----------------------------------------------------------------------------
(* The devices. One that vanishes falls silent, and whoever had it open    *)
(* has lost it even when it comes back.                                    *)

Unplug(p) ==
  /\ p \in plugged
  /\ unplugs < MaxUnplugs
  /\ unplugs' = unplugs + 1
  /\ plugged' = plugged \ {p}
  /\ linked' = linked \ {p}
  /\ sounding' = IF p \in Outputs THEN [sounding EXCEPT ![p] = {}] ELSE sounding
  /\ UNCHANGED <<played, callback, fields, lock, todo, queue,
                 batch, sender, exiting, sent, mtVars, quit>>

Plug(p) ==
  /\ p \in Ports \ plugged
  /\ plugged' = plugged \cup {p}
  /\ UNCHANGED <<unplugs, linked, played, callback, fields, lock, todo, queue,
                 senderVars, mtVars, quit>>

\* the device calls handleIncomingMidiMessage, one call at a time
Play(i) ==
  /\ i \in linked
  /\ callback[i] = 0
  /\ played[i] < MaxMsgs
  /\ played' = [played EXCEPT ![i] = @ + 1]
  /\ callback' = [callback EXCEPT ![i] = played[i] + 1]
  /\ UNCHANGED <<plugged, unplugs, linked, fields, lock, todo, queue,
                 senderVars, mtVars, quit>>

-----------------------------------------------------------------------------
(* handleIncomingMidiMessage, on the device's thread.                      *)

Push(d, from, n) ==
  queue' = IF d \in out THEN Append(queue, [to |-> d, from |-> from, n |-> n])
                        ELSE queue

\* the lock is taken; the message goes to the route that holds the source,
\* or nowhere
CallbackEnter(i) ==
  /\ callback[i] > 0
  /\ lock = Nobody
  /\ IF i \in conn /\ RouteOf[i] \in live
     THEN /\ lock' = i
          /\ todo' = OutputsOf(RouteOf[i])
          /\ UNCHANGED callback
     ELSE /\ callback' = [callback EXCEPT ![i] = 0]
          /\ UNCHANGED <<lock, todo>>
  /\ UNCHANGED <<plugged, unplugs, linked, played, fields, queue, senderVars, mtVars, quit>>

CallbackPush(i) ==
  /\ lock = i
  /\ \E d \in todo : /\ Push(d, i, callback[i])
                     /\ todo' = todo \ {d}
  /\ UNCHANGED <<device, fields, lock, senderVars, mtVars, quit>>

CallbackLeave(i) ==
  /\ lock = i
  /\ todo = {}
  /\ lock' = Nobody
  /\ callback' = [callback EXCEPT ![i] = 0]
  /\ UNCHANGED <<plugged, unplugs, linked, played, fields, todo, queue, senderVars, mtVars, quit>>

-----------------------------------------------------------------------------
(* The sender thread.                                                      *)

\* mutant: the pending messages are copied instead of swapped out
SenderCopy ==
  /\ sender = "running"
  /\ batch = <<>> /\ queue # <<>>
  /\ batch' = queue
  /\ UNCHANGED <<device, fields, lock, todo, queue, sender, exiting, sent, sounding, mtVars, quit>>

SenderTake ==
  /\ sender = "running"
  /\ batch = <<>> /\ queue # <<>>
  /\ batch' = queue
  /\ queue' = <<>>
  /\ UNCHANGED <<device, fields, lock, todo, sender, exiting, sent, sounding, mtVars, quit>>

\* what a note generator connected to the output does with a message
Hear(notes, m) ==
  CASE m.from = AllNotesOff -> {}
    [] m.from # AllNotesOff /\ m.n % 2 = 1 -> notes \cup {m.from}
    [] m.from # AllNotesOff /\ m.n % 2 = 0 -> notes \ {m.from}

SenderSend ==
  /\ sender = "running"
  /\ batch # <<>>
  /\ LET m == Head(batch) IN
       /\ sent' = IF m.from = AllNotesOff THEN sent
                  ELSE [sent EXCEPT ![m.to][m.from] = m.n]
       /\ sounding' = IF m.to \in linked
                      THEN [sounding EXCEPT ![m.to] = Hear(@, m)]
                      ELSE sounding
  /\ batch' = Tail(batch)
  /\ UNCHANGED <<device, fields, lock, todo, queue, sender, exiting, mtVars, quit>>

SenderExit ==
  /\ sender = "running"
  /\ exiting
  /\ batch = <<>> /\ queue = <<>>
  /\ sender' = "finished"
  /\ UNCHANGED <<device, fields, lock, todo, queue, batch, exiting, sent, sounding, mtVars, quit>>

-----------------------------------------------------------------------------
(* The message thread: the reconnect timer.  It looks at every port of     *)
(* every route; any order is allowed here.                                 *)

GoTo(where, what) == pc' = where /\ cur' = what

OpenPorts(P) == open' = open \cup P /\ linked' = linked \cup P

ClosePorts(P) == open' = open \ P /\ linked' = linked \ P

\* mutant: the devices are enumerated once
TimerEnumerateOnce ==
  /\ pc = "idle" /\ ~quit
  /\ GoTo("walk", Nobody)
  /\ seen' = IF seen = {} THEN plugged ELSE seen
  /\ walk' = {p \in Ports : RouteOf[p] \in live}
  /\ UNCHANGED <<device, fields, lock, todo, queue, senderVars, panicTodo, quit>>

\* a quit request is served instead of the timer
TimerBegin ==
  /\ pc = "idle" /\ ~quit
  /\ GoTo("walk", Nobody)
  /\ seen' = plugged
  /\ walk' = {p \in Ports : RouteOf[p] \in live}
  /\ UNCHANGED <<device, fields, lock, todo, queue, senderVars, panicTodo, quit>>

TimerEnd ==
  /\ pc = "walk" /\ walk = {}
  /\ GoTo("idle", Nobody)
  /\ UNCHANGED <<device, fields, lock, todo, queue, senderVars, walk, seen, panicTodo, quit>>

CheckInput(i) ==
  /\ pc = "walk" /\ i \in walk
  /\ lock = Nobody
  /\ walk' = walk \ {i}
  /\ \/ /\ i \in conn \ seen
        /\ conn' = conn \ {i}
        /\ GoTo("inClose", i)
     \/ /\ i \in seen \ conn
        /\ GoTo("inOpen", i)
        /\ UNCHANGED conn
     \/ /\ i \in conn <=> i \in seen
        /\ UNCHANGED <<conn, pc, cur>>
  /\ UNCHANGED <<device, live, out, open, lock, todo, queue, senderVars, seen, panicTodo, quit>>

\* closing a device waits for its callback, which may wait for the lock
CloseInput ==
  /\ pc = "inClose"
  /\ callback[cur] = 0
  /\ ClosePorts({cur})
  /\ IF RouteOf[cur] \in PanicRoutes THEN GoTo("panic", cur) ELSE GoTo("walk", Nobody)
  /\ UNCHANGED <<plugged, unplugs, played, callback, live, conn, out, lock, todo, queue, senderVars, walk, seen, panicTodo, quit>>

\* mutant: openDevice's result is not checked
OpenInputUnchecked ==
  /\ pc = "inOpen"
  /\ OpenPorts({cur}) /\ GoTo("inAdopt", cur)
  /\ UNCHANGED <<plugged, unplugs, played, callback, live, conn, out, lock, todo, queue, senderVars, walk, seen, panicTodo, quit>>

\* the device may have gone since it was enumerated
OpenInput ==
  /\ pc = "inOpen"
  /\ IF cur \in plugged THEN OpenPorts({cur}) /\ GoTo("inAdopt", cur)
                        ELSE UNCHANGED <<open, linked>> /\ GoTo("walk", Nobody)
  /\ UNCHANGED <<plugged, unplugs, played, callback, live, conn, out, lock, todo, queue, senderVars, walk, seen, panicTodo, quit>>

AdoptInput ==
  /\ pc = "inAdopt"
  /\ lock = Nobody
  /\ conn' = conn \cup {cur}
  /\ GoTo("walk", Nobody)
  /\ UNCHANGED <<device, live, out, open, lock, todo, queue, senderVars, walk, seen, panicTodo, quit>>

CheckOutput(d) ==
  /\ pc = "walk" /\ d \in walk
  /\ lock = Nobody
  /\ walk' = walk \ {d}
  /\ \/ /\ d \in out \ seen
        /\ out' = out \ {d}
        /\ GoTo("stop", d)
     \/ /\ d \in seen \ out
        /\ GoTo("outOpen", d)
        /\ UNCHANGED out
     \/ /\ d \in out <=> d \in seen
        /\ UNCHANGED <<out, pc, cur>>
  /\ UNCHANGED <<device, live, conn, open, lock, todo, queue, senderVars, seen, panicTodo, quit>>

OpenOutput ==
  /\ pc = "outOpen"
  /\ IF cur \in plugged THEN OpenPorts({cur}) /\ GoTo("outAdopt", cur)
                        ELSE UNCHANGED <<open, linked>> /\ GoTo("walk", Nobody)
  /\ UNCHANGED <<plugged, unplugs, played, callback, live, conn, out, lock, todo, queue, senderVars, walk, seen, panicTodo, quit>>

AdoptOutput ==
  /\ pc = "outAdopt"
  /\ lock = Nobody
  /\ out' = out \cup {cur}
  /\ GoTo("walk", Nobody)
  /\ UNCHANGED <<device, live, conn, open, lock, todo, queue, senderVars, walk, seen, panicTodo, quit>>

-----------------------------------------------------------------------------
(* sendPanic under the lock: for a lost input (cur is the input), for the  *)
(* panic_route tool (cur is the route) and at exit (cur is Nobody).        *)

PanicOutputs ==
  CASE cur \in Inputs -> OutputsOf(RouteOf[cur])
    [] cur \in Routes -> OutputsOf(cur)
    [] OTHER -> {d \in Outputs : RouteOf[d] \in live \cap PanicRoutes}

PanicBegin ==
  /\ pc = "panic"
  /\ lock = Nobody
  /\ lock' = MessageThread
  /\ panicTodo' = PanicOutputs
  /\ GoTo("panicking", cur)
  /\ UNCHANGED <<device, fields, todo, queue, senderVars, walk, seen, quit>>

PanicPush ==
  /\ pc \in {"panicking", "stopPanic"}
  /\ \E d \in panicTodo : /\ Push(d, AllNotesOff, 0)
                          /\ panicTodo' = panicTodo \ {d}
  /\ UNCHANGED <<device, fields, lock, todo, senderVars, pc, cur, walk, seen, quit>>

PanicEnd ==
  /\ pc = "panicking"
  /\ panicTodo = {}
  /\ lock' = Nobody
  /\ \/ cur \in Inputs /\ GoTo("walk", Nobody)
     \/ cur \in Routes /\ GoTo("idle", Nobody)
     \/ cur = Nobody /\ GoTo("stop", Nobody)
  /\ UNCHANGED <<device, fields, todo, queue, senderVars, walk, seen, panicTodo, quit>>

-----------------------------------------------------------------------------
(* stopOutputSender, the closing it protects, startOutputSender: for a     *)
(* lost output (cur is the output), the stop_route tool (cur is the route) *)
(* and at exit (cur is Nobody).                                            *)

StopSender ==
  /\ pc = "stop"
  /\ exiting' = TRUE
  /\ GoTo("join", cur)
  /\ UNCHANGED <<device, fields, lock, todo, queue, batch, sender, sent, sounding,
                 walk, seen, panicTodo, quit>>

\* mutant: the thread is told to exit and not waited for
DetachSender ==
  /\ pc = "join"
  /\ sender' = "none"
  /\ GoTo("close", cur)
  /\ UNCHANGED <<device, fields, lock, todo, queue, batch, exiting, sent, sounding,
                 walk, seen, panicTodo, quit>>

JoinSender ==
  /\ pc = "join"
  /\ sender = "finished"
  /\ sender' = "none"
  /\ GoTo("close", cur)
  /\ UNCHANGED <<device, fields, lock, todo, queue, batch, exiting, sent, sounding,
                 walk, seen, panicTodo, quit>>

\* the ports that are closed once the sender has drained
ClosingPorts ==
  CASE cur \in Outputs -> {cur}
    [] cur \in Routes  -> InputsOf(cur) \cup OutputsOf(cur)
    [] OTHER -> Ports

\* deleting an input waits for its callback
CloseDrained ==
  /\ pc = "close"
  /\ \A i \in Inputs \cap ClosingPorts : callback[i] = 0
  /\ ClosePorts(ClosingPorts)
  /\ conn' = conn \ ClosingPorts
  /\ out' = out \ ClosingPorts
  /\ IF cur = Nobody THEN GoTo("done", Nobody) ELSE GoTo("restart", cur)
  /\ UNCHANGED <<plugged, unplugs, played, callback, live, lock, todo, queue, senderVars, walk, seen, panicTodo, quit>>

\* mutant: senderShouldExit_ is not cleared
StartSenderExiting ==
  /\ pc = "restart"
  /\ sender' = "running"
  /\ IF cur \in Outputs THEN GoTo("walk", Nobody) ELSE GoTo("idle", Nobody)
  /\ UNCHANGED <<device, fields, lock, todo, queue, batch, exiting, sent, sounding,
                 walk, seen, panicTodo, quit>>

StartSender ==
  /\ pc = "restart"
  /\ exiting' = FALSE
  /\ sender' = "running"
  /\ IF cur \in Outputs THEN GoTo("walk", Nobody) ELSE GoTo("idle", Nobody)
  /\ UNCHANGED <<device, fields, lock, todo, queue, batch, sent, sounding,
                 walk, seen, panicTodo, quit>>

-----------------------------------------------------------------------------
(* The MCP tools, in a session that started without routes. No request      *)
(* arrives once the client closed standard input, which is its quit.       *)

McpSession == InitialRoutes = {}

\* start_route parses into the staging list, where the ports are opened and
\* started while no callback can find the route...
StageRoute(r) ==
  /\ pc = "idle" /\ ~quit
  /\ r \notin live
  /\ LET found == {p \in plugged : RouteOf[p] = r} IN
       /\ OpenPorts(found)
       /\ conn' = conn \cup (found \cap Inputs)
       /\ out' = out \cup (found \cap Outputs)
  /\ GoTo("splice", r)
  /\ UNCHANGED <<plugged, unplugs, played, callback, live, lock, todo, queue, senderVars, walk, seen, panicTodo, quit>>

\* ... and splices it into routes_
SpliceRoute ==
  /\ pc = "splice"
  /\ lock = Nobody
  /\ live' = live \cup {cur}
  /\ GoTo("idle", Nobody)
  /\ UNCHANGED <<device, conn, out, open, lock, todo, queue, senderVars, walk, seen, panicTodo, quit>>

\* ... or rejects the call, and the staged route is deleted
DiscardRoute ==
  /\ pc = "splice"
  /\ \A i \in InputsOf(cur) : callback[i] = 0
  /\ ClosePorts(InputsOf(cur) \cup OutputsOf(cur))
  /\ conn' = conn \ InputsOf(cur)
  /\ out' = out \ OutputsOf(cur)
  /\ GoTo("idle", Nobody)
  /\ UNCHANGED <<plugged, unplugs, played, callback, live, lock, todo, queue, senderVars, walk, seen, panicTodo, quit>>

\* mutant: the route is unlinked without the lock
StopRouteUnlocked(r) ==
  /\ pc = "idle" /\ ~quit
  /\ r \in live
  /\ live' = live \ {r}
  /\ panicTodo' = OutputsOf(r)
  /\ GoTo("stopPanic", r)
  /\ UNCHANGED <<device, conn, out, open, lock, todo, queue, senderVars, walk, seen, quit>>

\* mutant: stop_route silences only routes that asked for panic
StopRouteIfPanic(r) ==
  /\ pc = "idle" /\ ~quit
  /\ r \in live
  /\ lock = Nobody
  /\ live' = live \ {r}
  /\ panicTodo' = IF r \in PanicRoutes THEN OutputsOf(r) ELSE {}
  /\ GoTo("stopPanic", r)
  /\ UNCHANGED <<device, conn, out, open, lock, todo, queue, senderVars, walk, seen, quit>>

\* stop_route unlinks the route under the lock and panics without it
StopRoute(r) ==
  /\ pc = "idle" /\ ~quit
  /\ r \in live
  /\ lock = Nobody
  /\ live' = live \ {r}
  /\ panicTodo' = OutputsOf(r)
  /\ GoTo("stopPanic", r)
  /\ UNCHANGED <<device, conn, out, open, lock, todo, queue, senderVars, walk, seen, quit>>

StopPanicEnd ==
  /\ pc = "stopPanic"
  /\ panicTodo = {}
  /\ GoTo("stop", cur)
  /\ UNCHANGED <<device, fields, lock, todo, queue, senderVars, walk, seen, panicTodo, quit>>

PanicRoute(r) ==
  /\ pc = "idle" /\ ~quit
  /\ Len(Pending) < MaxPending
  /\ r \in live
  /\ GoTo("panic", r)
  /\ UNCHANGED <<device, fields, lock, todo, queue, senderVars, walk, seen, panicTodo, quit>>

\* inject_midi routes messages as if they came in on an input, connected or
\* not...
InjectMidi(i) ==
  /\ pc = "idle" /\ ~quit
  /\ played[Client] < MaxInjected
  /\ RouteOf[i] \in live
  /\ GoTo("inject", i)
  /\ UNCHANGED <<device, fields, lock, todo, queue, senderVars, walk, seen, panicTodo, quit>>

\* ... and takes the lock for each of them anew
InjectEnter ==
  /\ pc = "inject"
  /\ lock = Nobody
  /\ lock' = MessageThread
  /\ todo' = OutputsOf(RouteOf[cur])
  /\ played' = [played EXCEPT ![Client] = @ + 1]
  /\ GoTo("injecting", cur)
  /\ UNCHANGED <<plugged, unplugs, linked, callback, fields, queue, senderVars, walk, seen, panicTodo, quit>>

InjectPush ==
  /\ pc = "injecting"
  /\ \E d \in todo : /\ Push(d, Client, played[Client])
                     /\ todo' = todo \ {d}
  /\ UNCHANGED <<device, fields, lock, senderVars, mtVars, quit>>

InjectLeave ==
  /\ pc = "injecting"
  /\ todo = {}
  /\ lock' = Nobody
  /\ \/ played[Client] < MaxInjected /\ GoTo("inject", cur)
     \/ GoTo("idle", Nobody)
  /\ UNCHANGED <<device, fields, todo, queue, senderVars, walk, seen, panicTodo, quit>>

-----------------------------------------------------------------------------
(* Quitting: a signal (seen by the timer) or the end of the MCP session.   *)

RequestQuit ==
  /\ ~quit
  /\ quit' = TRUE
  /\ UNCHANGED <<device, fields, lock, todo, queue, senderVars, mtVars>>

\* mutant: the exit panic goes out while the inputs still deliver
ShutdownPanicFirst ==
  /\ pc = "idle" /\ quit
  /\ lock = Nobody
  /\ GoTo("panic", Nobody)
  /\ UNCHANGED <<device, fields, lock, todo, queue, senderVars, walk, seen, panicTodo, quit>>

\* every midiIn is moved out of its route under the lock
ShutdownBegin ==
  /\ pc = "idle" /\ quit
  /\ lock = Nobody
  /\ conn' = {}
  /\ GoTo("shutClose", Nobody)
  /\ UNCHANGED <<device, live, out, open, lock, todo, queue, senderVars, walk, seen, panicTodo, quit>>

ShutdownCloseInputs ==
  /\ pc = "shutClose"
  /\ \A i \in Inputs : callback[i] = 0
  /\ ClosePorts(Inputs)
  /\ GoTo("panic", Nobody)
  /\ UNCHANGED <<plugged, unplugs, played, callback, live, conn, out, lock, todo, queue, senderVars, walk, seen, panicTodo, quit>>

Terminated == pc = "done" /\ UNCHANGED vars

-----------------------------------------------------------------------------
Callback(i) == CallbackEnter(i) \/ CallbackPush(i) \/ CallbackLeave(i)

Sender == SenderTake \/ SenderSend \/ SenderExit

Timer ==
  \/ TimerBegin \/ TimerEnd
  \/ \E i \in Inputs : CheckInput(i)
  \/ \E d \in Outputs : CheckOutput(d)
  \/ CloseInput \/ OpenInput \/ AdoptInput
  \/ OpenOutput \/ AdoptOutput

Panic == PanicBegin \/ PanicPush \/ PanicEnd \/ StopPanicEnd

Drain == StopSender \/ JoinSender \/ CloseDrained \/ StartSender

Shutdown == ShutdownBegin \/ ShutdownCloseInputs

Tools ==
  /\ McpSession
  /\ \/ \E r \in Routes : StageRoute(r) \/ StopRoute(r) \/ PanicRoute(r)
     \/ \E i \in Inputs : InjectMidi(i)

Inject == InjectEnter \/ InjectPush \/ InjectLeave

Staged == SpliceRoute \/ DiscardRoute

Environment ==
  \/ \E p \in Ports : Unplug(p) \/ Plug(p)
  \/ \E i \in Inputs : Play(i)

Next ==
  \/ Environment
  \/ \E i \in Inputs : Callback(i)
  \/ Sender
  \/ Timer \/ Panic \/ Drain \/ Shutdown
  \/ Tools \/ Staged \/ Inject
  \/ RequestQuit
  \/ Terminated

\* every thread that can run does; devices, users and clients owe nothing
Fairness ==
  /\ \A i \in Inputs : WF_vars(Callback(i))
  /\ WF_vars(Sender)
  /\ WF_vars(Timer \/ Panic \/ Drain \/ Shutdown \/ Staged \/ Inject)
  /\ SF_vars(TimerBegin)   \* its messages queue up with the tool calls

Spec == Init /\ [][Next]_vars /\ Fairness

-----------------------------------------------------------------------------
\* TypeOK: every variable stays in its range.
TypeOK ==
  /\ plugged \in SUBSET Ports /\ unplugs \in 0..MaxUnplugs
  /\ live \in SUBSET Routes
  /\ conn \in SUBSET Inputs /\ out \in SUBSET Outputs /\ open \in SUBSET Ports
  /\ linked \in SUBSET (open \cap plugged)
  /\ played \in [Sources -> 0..MaxMsgs] /\ callback \in [Inputs -> 0..MaxMsgs]
  /\ lock \in Inputs \cup {MessageThread, Nobody}
  /\ todo \in SUBSET Outputs /\ panicTodo \in SUBSET Outputs
  /\ queue \in Seq(Item) /\ batch \in Seq(Item)
  /\ sender \in {"running", "finished", "none"} /\ exiting \in BOOLEAN
  /\ sent \in [Outputs -> [Sources -> 0..MaxMsgs]]
  /\ sounding \in [Outputs -> SUBSET Sources]
  /\ pc \in {"idle", "walk", "inClose", "inOpen", "inAdopt", "outOpen", "outAdopt",
            "panic", "panicking", "stopPanic", "stop", "join", "close", "restart",
            "splice", "inject", "injecting", "shutClose", "done"}
  /\ cur \in Ports \cup Routes \cup {Nobody}
  /\ walk \in SUBSET Ports /\ seen \in SUBSET Ports
  /\ quit \in BOOLEAN

\* NoSendAfterClose: a message waiting for the sender, which holds the bare
\* pointer OutgoingMidi::out, never waits for a port that was closed.
NoSendAfterClose == \A k \in DOMAIN Pending : Pending[k].to \in open

\* CallbackOnLiveRoute: whoever routes a message under midiCallbackLock_ works
\* on a route that is still in routes_ and an input that is still connected,
\* so no route or input is deleted under a callback.
CallbackOnLiveRoute ==
  lock \in Inputs => /\ lock \in conn /\ lock \in open
                     /\ RouteOf[lock] \in live
                     /\ todo \subseteq OutputsOf(RouteOf[lock])

\* InOrder: each output gets the messages of each source in the order in which
\* the device or the client sent them and none of them twice, across batches, sender restarts
\* and reconnections.
InOrder ==
  \A k \in DOMAIN Pending : Pending[k].from \in Sources =>
    /\ Pending[k].n > sent[Pending[k].to][Pending[k].from]
    /\ Pending[k].n <= played[Pending[k].from]
    /\ \A l \in 1..(k - 1) :
         /\ Pending[l].to = Pending[k].to
         /\ Pending[l].from = Pending[k].from
         => Pending[l].n < Pending[k].n

\* whether source i's note sounds on d once everything pending is sent
WillSound(d, i) ==
  LET matters == {k \in DOMAIN Pending : /\ Pending[k].to = d
                                         /\ Pending[k].from \in {i, AllNotesOff}}
  IN IF matters = {} THEN i \in sounding[d]
     ELSE \E k \in matters : /\ \A l \in matters : l <= k
                             /\ Pending[k].from = i
                             /\ Pending[k].n % 2 = 1

\* the message thread is on its way to the panic that covers input i
PanicDue(i) ==
  \/ cur = i /\ pc \in {"inClose", "panic", "panicking"}
  \/ cur = RouteOf[i] /\ pc = "stopPanic"
  \/ cur = Nobody /\ pc \in {"shutClose", "panic", "panicking"}

\* shutdown() has queued its panic
Exiting == cur = Nobody /\ pc \in {"stop", "join", "close", "done"}

\* LostInputsSilent: no note hangs. Once the panic of a lost input is queued,
\* and after stop_route and at exit as well, nothing is queued behind it that
\* makes the input's note sound again. What the client injects may sound on a
\* lost input, but not behind stop_route or, on a panic route, the exit.
LostInputsSilent ==
  \A i \in Inputs :
    /\ \/ i \notin conn /\ RouteOf[i] \in live \cap PanicRoutes
       \/ RouteOf[i] \notin live
    /\ ~PanicDue(i)
    => \A d \in OutputsOf(RouteOf[i]) :
         /\ ~WillSound(d, i)
         /\ RouteOf[i] \notin live \/ Exiting => ~WillSound(d, Client)

\* QuitCompletes: shutdown never waits for a callback that waits for the lock
\* shutdown holds; a requested quit ends with every port closed.
QuitCompletes == quit ~> (pc = "done" /\ open = {} /\ Pending = <<>>)

\* Reconnects: a device that stays, of a route that stays, is connected in the
\* end, whatever the callbacks, the tools and the sender do meanwhile.
Reconnects ==
  \A p \in Ports :
    <>[](p \in plugged /\ RouteOf[p] \in live /\ ~quit) => <>[](p \in conn \cup out)

\* all the open ports share one FIFO (module OutputPorts): nothing is lost,
\* reordered or sent to a closed port, and everything is sent in the end
Ch == INSTANCE OutputPorts WITH pending <- Pending, open <- open \cap Outputs

\* ImplementsPorts: the queue, the batches and the restarts of the sender
\* implement one FIFO of messages for open output ports.
ImplementsPorts == Ch!Spec

=============================================================================
