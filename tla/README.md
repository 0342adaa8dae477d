# RouteMIDI, verified

TLA+ models of [RouteMIDI](../src/README.md), the TLC runs that check them on
small instances, and TLAPS proofs that hold for every instance. Source lines are
quoted as in `src/Source/`; `PROJECT.json` maps every definition to its lines.

RouteMIDI moves MIDI messages from input ports to output ports. A *route* binds
inputs to outputs. Each message of an input passes the route's filters,
transforms, MPE operations, conversions and the split over its outputs before it
is queued for the thread that sends. An AI client may edit the running routes
through an MCP server on standard input.

## The system

### Threads and what they share

| Actor | Runs | Touches |
| --- | --- | --- |
| a device callback per open input | `handleIncomingMidiMessage` | holds `midiCallbackLock_` for the whole message; `routes_`, the state of its `RouteInput`, `sendQueue_` |
| the sender thread | the loop of `startOutputSender` | swaps `sendQueue_` out under its own lock, sends each message to the bare `MidiOutput*` it carries |
| the message thread | `initialise`, then the 200 ms timer and MCP tool calls, then `shutdown`; `in -` and `--` read standard input on it | opens and closes ports, takes `midiCallbackLock_` to change `routes_` and the port fields, or to route an injected message |
| the MCP reader thread | reads standard input | hands each request to the message thread and waits for the answer |

The two hard rules of the code follow from the bare pointers: a port is closed
only after the sender has drained and was joined, and an input is closed only
when no callback can be inside it and while the lock is *not* held, because
closing waits for the callback and the callback waits for the lock.

### Components

| Component | State | Operations | Correct when | Status |
| --- | --- | --- | --- | --- |
| Route engine (`ApplicationState`, parts of `McpServer`) | `routes_`, `midiIn`, `out`, lock, queue, sender, timer walk | callback, send, reconnect, panic, injection, stop and start of routes, shutdown | no send to a closed port, no callback on a dead route, order kept, no note left by a lost input, shutdown ends | `RouteEngine` |
| Application life (`initialise`, dispatch loop, signals, `shutdown`) | mode, message FIFO, quit flag, timer | start, read, dispatch, quit, join | the process ends when it is asked to, the timer is served | `Lifecycle` |
| MCP transport | reader thread, pending request | read, post, wait, answer | each request is answered once, in order; the threads never wait for each other for good | `Lifecycle`, `Dialogue` |
| Note transforms (`Latch`, `Mono`, `Sustain`, chord) | arrays per input, shared by all transforms of a kind | note-on, note-off, pedal, panic, edits | every note that sounds has something that will end it | `NoteTransforms`, stages |
| `mpexp` and `ChannelBucket` | ring of member channels, channel of each note | note-on, note-off, aftertouch, panic | a note ends where it began; channels are reused as late as possible | `MpeExpand`, `ExpandStage` |
| `mpesplit` | channel ↔ port tables, last values and selection per port, cursor, age | note-on, note-off, expression, parameters, panic, zone reset | every release is heard, the oldest makes room, the right expression at the right bend range | `MpeSplit`, `MpeVoices`, `PortStage` |
| `mpe` relocation (`Relocator`) | note → channel map, expression | as above | notes end where they went, expression re-asserted | `MpeRelocate`, `RelocateStage` |
| `mpemono` (`Collapser`) | notes, expression per channel | as above | last note wins, its expression and pitch follow | `MpeCollapse`, `CollapseStage` (partly) |
| `McmTracker`, zone reset | parameter selection, declared zone | RPN 6, reconfiguration | tracking starts over exactly when notes are silenced | `McmTracker`, in front of all MPE operations |
| `mpesens`, `mpebend` | whether the range was declared | declaration, rescaling of bends | the synth has the range that was declared last | `MpeTuning`, `SensStage`, `ScalingSweep` |
| Conversion of (N)RPN and CC | held-back selections, last MSB and LSB, learned widths | select, data, null, convert | data reaches the parameter it was meant for, one exact value for each that is sent | `Conversion`, stages (partly) |
| Filters | last MSB of 14-bit controllers, (N)RPN selection | match | what a filter keeps out changes nothing, what it lets through arrives | `Filters`, `ConvertStage` (partly) |
| Numbers and lazily compiled commands | number base, compiled options, rules | read, decode, edit | rules in use are the ones that were written | `CommandNumbers` |
| Route construction | `currentCommand_`, `pendingNegate_`, `nextRouteId_`, `parseTarget_` | `parseParameters` | tokens become the routes they say | `RouteParser` (partly) |
| MCP tools | ids, staged route, saved settings | start, edit, stop, panic, inject, read | a call does what it says or nothing, and the next one is read from its start | `McpRoutes`; effects on threads in `RouteEngine`, on held notes in `NoteTransforms`, `read_route` in `Capture` |
| Traffic capture | ring of 1024 messages, sequence number | capture, `read_route` | newest messages, a client can tell what it missed | `Capture` |
| Other transforms | none | arithmetic on one message | – | partly: `transp`, `notemap` in `NoteTransforms`, `mpebend` |
| Text MIDI, help, schema, colours, client configuration | none | parse, print, write a file | – | not modelled: formatting and single-shot I/O |
| Scripting | the user's JavaScript | – | – | not modelled: the behaviour is the user's |

JUCE (`JuceLibraryCode`) is a library; what the code expects of it is part of
the models: one callback at a time per device, closing an input waits for its
callback, a device that was unplugged is dead to whoever had it open.

### How the parts meet

A message takes the lock (`RouteEngine`), is shown to the tracker of zones
(`McmTracker`), goes through the filters and transforms of its input (`Filters`,
`NoteTransforms`), the MPE operations of its input (`MpeExpand`, `MpeRelocate`,
`MpeCollapse`, `MpeTuning`), its converters (`Conversion`) and the splitter of its
*route* (`MpeSplit`), is recorded (`Capture`) and queued (`RouteEngine` again). What belongs to the input is
reset by a panic; what belongs to the route (`route.mpeSplit`) is not, and several
properties below exist because of that difference. As everything between taking and
releasing the lock is invisible to other threads, `RouteEngine` sees a message as its
delivery to each output, and the other modules see each message as one atomic
action. `Lifecycle` has the threads around it: it decides which of them read
standard input and when `RouteEngine`'s timer, tools and shutdown get their turn.

## Modules

**`RouteEngine`** – one action per handler, split where another thread can come
in: taking the lock, each queued message, releasing it; each look of the timer at
a port, each close and open and adoption; `sendPanic` per output; each injected
message, for which `inject_midi` takes the lock anew; stopping, joining, closing and
restarting the sender; staging and splicing a route.
`conn` and `out` are the non-null `midiIn` and `out` fields, `open` the devices
that are open at all, `linked` the open devices that were never unplugged since
(a device that blinks stays open and dead), `pc`/`cur`/`walk`/`seen` are where
the message thread is. Messages are numbers: odd ones are note-ons and even
ones the note-offs of the one key of an input or of the client, which is all that
order, loss and hanging notes need. **`OutputPorts`** is the abstract specification of
queue, batches and sender restarts: the open ports share one FIFO, which holds nothing
for a port that is closed and which is always drained.

**`Lifecycle`** – the process from the command line to its end, by what the command
line asks for (`mode`): a listing, routes between ports, commands on standard input
(`--`), `in -`, `--mcp`. `mainPc` is where the message thread is, `posted` JUCE's FIFO,
which takes nothing behind a quit; `readerPc`, `line` and `handled` are the reader
thread of `McpServer` and its event. A read that finds no line is a step that can be
interrupted (`EnterRead`, then `Signal` or `ReadLine`). **`Dialogue`** is the abstract
specification of the transport: lines that were sent and not handled yet, of which the
oldest is obeyed or, when it is a request, answered once for as long as the client
listens. A line in the pipe and the one that the reader thread holds are such lines
(`Unhandled`).

**`NoteMessages`, `Mono`, `Sustain`** – two transforms as operators from
a state and a message to a state and messages; arrays of booleans are sets and
mono's trigger counter is the order it gives. **`NoteTransforms`** runs whole
chains of them, with latch, between keyboards and an instrument, together with chord,
`transp` and `notemap`, which may put two keys on one note, and with the panic, lost
inputs and the three command edits of the MCP server. As in the code, two transforms of
one kind in a route share one state. **`PedalStage`** and **`MonoStage`** put one
transform alone under any stream of messages, including note-offs that were never
preceded by a note-on. **`PedalSynth`** is the abstract specification of the
first: an instrument that has a pedal.

**`MpeZone`, `MpeExpand`, `ExpandStage`** – the channel ring of `ChannelBucket`
pointer by pointer (`previous`, `next`, `top`, `bottomReleased`, `taken`) and the
allocator over it. **`ChannelPool`** is the abstract specification of the ring:
a queue of free channels and a queue of taken ones.

**`MpeSplit`, `MpeVoices`** – the splitter, and a rack of monophonic synths
played either by an MPE controller or by a keyboard through `mpexp`, with panics and
reconfigurations of the zone. One dimension of expression moves per behaviour. The
bend is counted in semitones at the default sensitivities (2 and 48).
**`PortStage`** has the rest of a port: the bend range that `split` declares to it
and the parameters that pass or are held back, which hang on what the port, the
zone's manager and the note have selected.

**`MpeTuning`, `SensStage`** – `mpesens` (`declareSensitivity`) between a controller
that configures its zone and sets parameters, and a synth, while a client edits the
range; and `mpebend` (`RescaleBend`), which `ScalingSweep` drives through every bend.

**`Capture`** – `Route::captureMessage` and the cursor of `read_route`.

**`MpeRelocate`, `RelocateStage`** – `mpe::relocate` folds a source zone onto a
destination zone that may be smaller: note → channel map, expression per source
member, and what is re-asserted when the owner of a destination channel changes.
**`MpeCollapse`, `CollapseStage`** do the same for `mpemono`, where a whole zone
becomes one channel and the newest note leads. **`McmTracker`** is the tracker
of configuration messages in front of both: a reconfigured zone is silenced and
its tracking starts over. A stage lets one dimension of expression move per behaviour
(`relocateKind`, `collapseKind`), as the dimensions have state of their own.

**`ParamSelection`, `Conversion`** – the converter stage of one
channel, function by function: which parameter is selected, the selects that are
held back until a rule claims or leaves them, the learned pairing of MSB and LSB,
14-bit controllers, fan-out, the transforms in place and the pressure collapse.
**`Filters`** is `passesFilters` with its own selection and its last MSBs: union of
the plain filters, negated ones, the channel filters, `nrpn`/`rpn` with a number and
the window of `cc14range`. **`ConvertStage`** puts both between a device that sends
selects (in either order, with other controllers in between), nulls of both kinds,
data and bare controllers, and a receiver that knows of no rules: each step records
what the receiver changed and to what (`latest`), and properties compare it with what
the device meant. **`PressureStage`** is `convert pp cp` under a hand;
**`ScalingSweep`** goes through every 14-bit value. Of the transforms in place
`scale`, `curve` and `rescale` are left out: their factors are real numbers.

**`RouteParser`** – the three readers of command tokens as folds over the tokens:
`parseParameters`, which builds routes, `validateMcpCommandTokens`, which is to let
nothing through that leaves the parser in the middle of a command, and
`collectProcessingCommands`, for edits. The command table is a table here too, with
one or two commands of every kind that the readers tell apart; names, numbers and
zones are members of small sets. **`McpRoutes`** is a client session over it, on the
table of routes, the settings and the parser. An edit or a stop is one action.
`start_route` takes two: the first refuses the call unparsed or parses it, which takes
ids and changes the settings and, on an error, the return value of the process
(`settings.failed`), and keeps what they were before (`staging`); the second is the
splice or one of the four ways out (`RefuseErrors`, `RefuseNoRoute`, `RefuseNoOutput`,
`RefuseTooMany`), each of which must put the settings back. Calls are written as phrases
(a command with its options), which the tools flatten to tokens; `RoutesAreAsWritten`
says, of routes that were started and of routes that were edited, what the phrases mean
without reading token by token. **`CommandNumbers`** is about time: options are decoded when the first
message reaches their command, converter rules all at once, and both with the number
base that is set by then, while calls change and restore it and edits come and go.

**`MCStages`** runs the thirteen machines that work alone; a variable chooses one per
behaviour, so the state space is their sum and not their product.

## What each run checks

| Run | Instance | Question |
| --- | --- | --- |
| `engine_timer` | one panic route, two inputs, one output, two messages each, one unplug | Types; with callbacks waiting for the lock while their port is lost: order is kept, no note sounds behind the panic or after the exit |
| `engine_tools` | two routes, one message each, one that is injected | While a client starts, rejects and stops routes, injects into them and the session ends: nothing goes to a closed port, no callback works on a dead route, no note is left |
| `engine_session` | one route that is started and stopped, one message, one that is injected, one unplug | `ImplementsPorts`: queue and sender implement one FIFO for all ports; a quit completes; a port that is present is connected in the end |
| `life` | five kinds of command line, three lines, one signal outside of `--mcp` | `ImplementsDialogue`: reader and message thread implement a dialogue; the process ends when it is asked to; the timer is served throughout |
| `notes_chains` | two keyboards, two notes, thirteen chains; and one keyboard under a client that edits chains of up to two of eight transforms at any time | Every sounding note has something that will end it; hands off means silence; hold lets go only for a new gesture; mono stays mono; no note is struck on top of itself; all of it after the panic that the documentation asks for on edits |
| `stages` | thirteen machines, arbitrary streams | Pedal and mono bookkeeping; the ring refines its two queues; capture counts what it drops; a folded zone follows its newest note in every dimension, through panics and reconfigurations; synths know the range that was declared; what a filter keeps out changes nothing; converted data lands where it is meant, once and exactly; pressure follows the hardest key; scaling is straight and loses nothing; a tool call makes of a route what its commands say, or leaves no setting behind whichever way it fails, and leaves the parser idle; rules in use are current |
| `mpe_rack` | three member channels, two ports, three notes | Through panics, lost inputs and zone resets: every release is heard, expression follows its note, only the oldest note makes room |
| `filter_negated` | one negated `nrpn` filter | Expected violation |
| `routes_unchecked` | a command cut short behind a `convert` | Expected violation |
| `numbers_late` | four commands, two number bases | Expected violation |
| `life_interrupt` | an interrupt in `--mcp` | Expected violation |
| `life_signal` | a signal while input is read or ports are served | Expected violation |

Deadlock is checked in every run of an open-ended machine. The three `life` runs
switch it off, because the process they model ends; `RouteEngine` stops only in
`Terminated`, after shutdown.

### Bounds and why they are enough

- `MaxMsgs` 1 or 2: one note-on leaves a note behind, its note-off ends it, and
  order needs two messages from one input. `MaxInjected` 1: an injected message
  differs from a played one in its source and in who holds the lock for it.
  `MaxUnplugs` 1: with `Plug` unbounded, one loss is followed by any number of
  reconnects of that port, and what a port ever went through the timer forgets when
  it is adopted again. `MaxPending` stops a client that calls `panic_route` without
  end; it guards that tool only, and `engine_tools` leaves the tool to `engine_session`
  (0), as what it queues can only silence.
- One or two routes, and one output for most runs: routes share the lock, the
  queue and the sender and nothing else, so two of them suffice for one to be
  torn down while the other queues.
- `Lifecycle`: `MaxLines` 3, as a line may be read, one posted and one waiting in the
  pipe at once. Each line is a request, a notification or blank. One signal: the flag
  does not count.
- Two notes on one channel: the transforms only compare notes, so two tell
  "this one", "another" and, with the chord, "one above" apart, and `notemap` puts
  both on one. Channels are independent arrays (the proofs of the stages hold for any
  number of channels and notes).
- Chains: `notes_chains` starts from thirteen under two keyboards, among them the ones
  in which one transform keeps what another took away, and reaches every chain of up
  to two transforms by edits under one keyboard (`players`; `transp` is not among the
  edits, as it differs from `notemap` only in what it drops). The properties except
  chains with two transforms of a kind (`Unshared`), which share one state.
- Three member channels, two ports, three notes: the least in which a port is
  robbed and, after that, the robbed note's release arrives late. The values of
  expression are 0 and 1 (`MaxValue`): at rest or not. Expression is played on
  the manager and one member (`Expressive`). Notes are interchangeable, so `mpe_rack`
  uses symmetry over them; it checks no liveness. Each finger of the controller has a
  channel of its own, as the MPE specification asks of controllers (with two, see the
  known list below). A player presses a note number once at a time, otherwise any two
  notes would be the same on a synth.
- `PortStage` and `SensStage`: one range besides the defaults for each channel, or two
  for the client to choose from (`PortRanges`, `SensRanges`), one bend off rest, the
  same for the zone and for a note, so that their sum comes to the same value at
  another range (`ZoneBends`, `NoteBends`), two fingers that take one port from each
  other.
- Capacity 3 and seven messages: the ring wraps twice.
- Relocation and collapse: three members onto two or one, a finger with a key of
  its own on each, one dimension at a time with one value off rest (`MovedDials`,
  `ManagerDials`, `MemberDials`; for collapse the zone and the notes move alike, which
  is how a bend comes to be equal at two ranges), one range that a controller may
  declare (`MemberRanges`), and zones of three and five members that may be
  announced (`Announced`).
- Filters: nine lists of filters and sources; they pair what is kept out with
  something that shares its controllers, one has a rule behind the filter, and four have
  channel filters in places where it matters that a negated one has no scope.
  Filtered devices select the MSB of a parameter first, as the LSB of a select is
  filtered by what was selected before it.
- Sessions: three calls and three routes (`MaxCalls`, `MaxRoutes`; 256 in the
  program), so that a call fails at the limit, an id is free after a stop and a
  call follows a rejected one; each of the four ways out is met by a call that has
  changed settings. The first call has any two of 22 phrases in front of
  or behind the output, whole and cut short; what follows a `convert` is whole,
  because otherwise `ParserIsIdle` fails (`routes_unchecked`).
- Numbers: three commands (`MaxCommands`): one to edit, one that replaces it, one of
  another route.
- Converter: seven setups of rules and sources, among them two rules for one
  parameter, a parameter no rule wants next to one of the same and of the other
  kind, and `cc14 6` next to parameters. Two MSBs and one LSB tell a stale half
  from a fresh one. `MsbFirst` says that the device sends the MSB of a value
  before its LSB; without it `DataLandsWhereMeant` fails, as the LSB is forwarded
  (see the known list). No setup has a rule from a controller to an (N)RPN next to a
  parameter that passes through: the null such a rule sends deselects it.

### Fairness

`RouteEngine` and `Lifecycle` have liveness properties. Each thread is weakly fair:
a callback that holds or may take the lock goes on, the sender goes on, the reader
goes on, and the message thread goes on with what it began. That is what the
operating system gives a runnable thread, and JUCE's lock is handed over as long as
holders release it. In `RouteEngine`, `TimerBegin` is strongly fair: the timer's
message enters the same queue as tool calls, so a chatty client delays it but cannot
keep it out. `Lifecycle` has that queue and no such assumption, and its `TimerIsServed`
is the reason why the assumption holds, except with `in -`, which starves the timer.
Its FIFO is fair because a due timer posts its message (`TimerDue`, the timer thread of
JUCE). The environment owes nothing: no device, user or client must ever act. The
staging of a route either splices or is rejected, with no preference.

`Lifecycle` takes it that a signal reaches the message thread; the operating system
may give it to any thread that does not block it, in which case even a waiting read
is not interrupted (see `life_signal`).

## What is proved

The proofs hold for every value of the constants that satisfies the named
assumptions; no instance is fixed. They are in modules of their own:
`RouteEngineProofs` and `DeliveryProofs`, `LifecycleProofs`, `CaptureProofs`,
`NoteStageProofs` (pedal, mono, pressure), `MpeStageProofs` (`mpexp` with its bucket,
`mpesens`, and a route through `mpexp` and `mpesplit`), `CommandProofs` (parser and number settings) and, beneath them, `FoldFacts`:
what the program does element by element, as a run of states with one step between each
two, for one constant operator, `Op`. A module that folds takes an instance of it with
its own step as `Op`, so that no induction theorem with an operator as a parameter is
needed; the induction in it is the argument about the least number for which a claim
fails (`LeastNumber`, from the well-founded order of finite sets).

| Theorem | Says | Assumes |
| --- | --- | --- |
| `TypeCorrect` | every variable of the engine keeps its type | `EngineAssumption` |
| `SendsReachOpenPorts` | no message waits for a port that was closed | `EngineAssumption` |
| `CallbacksFindTheirRoute` | a callback that holds the lock has a live route and an open, connected input | `EngineAssumption` |
| `MessagesStayInOrder` | each output gets what each source plays in its order, no message twice | `EngineAssumption` |
| `NoNoteHangs` | nothing sounds behind the panic of a lost input, behind `stop_route` or at the exit | `EngineAssumption` |
| `EngineIsOneFifo` | every step of the engine is a step of `OutputPorts` or a stutter | `EngineAssumption` |
| `AnswersInOrder` | every step of the process is a step of `Dialogue` or a stutter | `LifeAssumption` |
| `UninterruptedJoin` | `shutdown` joins a reader that has left its loop, unless an MCP session is interrupted | `LifeAssumption` |
| `RulesFollowConverters` | no message converts with rules of other converters than the present ones | `NumbersAssumption` |
| `AcceptedCallsEndIdle` | a tool call that the validator accepts leaves the parser between two commands | `McpAssumption`, and `ReadAlike` of the calls' tokens (see below) |
| `ChannelsAreKept` | `mpexp` ends each note where it began and counts the notes of each channel | `ZoneAssumption`, `ExpandAssumption` |
| `BucketIsTwoQueues` | every step of the channel ring is a step of `ChannelPool` or a stutter | `ZoneAssumption`, `ExpandAssumption` |
| `DeclaredRangeIsKept` | from the first note on, the synth behind `mpesens` has the declared range, and no other parameter changes | `ZoneAssumption`, `SensAssumption` |
| `ReleasesAreHeard` | no synth behind `mpesplit` sounds a note whose key is up, with or without `mpexp` in front | `ZoneAssumption`, `ExpandAssumption`, `SplitAssumption`, `VoicesAssumption` |
| `OldestVoiceIsRobbed` | `mpesplit` robs a voice only while every port sounds, and then the oldest, also after a panic has left silent ports taken | the same four |
| `ExpressionIsHeard` | a voice has the expression of the zone and of its own note together (behind `mpexp`, its bend and CC 74) | the same four |
| `PedalBookkeeping` | the arrays of sustain and sostenuto agree with what sounds | `NoteAssumption`, `SostenutoAssumption` |
| `PedalRefinement` | the transform plus a plain instrument is an instrument with a pedal | the same |
| `MonoPlaysTheWinner` | exactly the held key that the priority chooses sounds | `NoteAssumption`, `PriorityAssumption` |
| `HardestKeyIsHeard` | once `convert pp cp` has told a pressure, it is that of the hardest key held | `PressureAssumption` |
| `RingIsNewest` | the capture ring holds the newest messages without a gap | `CaptureAssumption` |
| `PollsAccount` | between two cursors a client got each message, or was told that it was dropped, and none twice | `CaptureAssumption` |

**Engine.** `NoSendAfterClose` is not inductive: a port is safe to close because
the sender was joined with nothing left for that port, because nothing was queued
for it since, because its field was cleared or its route unlinked *before* the
sender was told to stop. `IInv` is this order: `PhaseOK` says what the current
port or route is in each phase of the message thread, `FieldsOpen` that fields
refer to open ports, `QueuedOK` that a waiting message is for an open port of a
route that is live or still being stopped, and, once the sender is down, only for
a connected one, `CallbackOK` and `InputsGone` that no callback can add to what
was drained, `NothingLeft` that shutdown drains all. An injected message needs no part
of its own: it is pushed by the message thread itself, on a route that only that
thread could remove (`PhaseOK`, `WalkLive`). The proof has a step per action and
separate lemmas for types, control and queue.

**Delivery.** The three theorems of `DeliveryProofs` rest on `IInv` and on an
invariant each.
`InOrder` speaks of what waits and what was sent; a step that queues a message breaks
it unless that message is the newest, so `OrderInv` adds that a callback's message is
newer than all of its source that the outputs still waiting for it have (`Before`,
`CallbackIsNewest`), and the same of an injected one. Taking a batch changes nothing
(`TakeSettles`), so batches and restarts fall out of the proof.
`EngineIsOneFifo` needs `PortsInv`: an open output is a destination, except in the
phases in which the timer or a tool opens or closes it, so that a message is only
accepted for an open port, and a port closes with none of its messages left.
`LostInputsSilent` depends on the last message that matters to a note, which is awkward
to follow through a queue; `Silent` says the same of the sequence, by the messages
behind each note-on, so that appending (`SilentAppend`) and sending (`SilentSend`) are
separate lemmas. `SilenceInv` adds what is silent already while a panic is under way
(`PanicSilences`): the outputs it has passed, as it holds the lock.

**Life.** A line is answered once because lines have numbers: `LifeInv` says that what
is in the pipe, with the reader or among the answers was written before
(`LinesWereWritten`), and which thread reads standard input in which mode
(`ReadersApart`). `LeavesAfterReader`, for the join, says that a quit is posted only
by the reader's last message. It holds as long as nothing else quits an MCP session,
which is the hypothesis of `UninterruptedJoin`; the run `life_interrupt` shows what
happens without it.

**Parser.** Validator and parser are two loops over the same tokens that count options
with different variables. `InStep` relates their states behind each token (`Alike`: both
between commands, or inside the same command with as many options to go, or the
validator, at the end of a call, still waits for options of no command), so that the
parser ends idle because the validator rejects a call that ends inside a command. They differ in two places only, and `ReadAlike` names both: `--`
(`ApplicationState.cpp:817`), which the parser knows and the validator does not, and what
follows a complete `convert` for as long as the validator still waits for options that
no command has (`routes_unchecked`). So the theorem also says that there is no third.

**Numbers.** The code takes rules for current when there are as many of them as
converters. `NumbersInv` claims that of staged routes too, which become live in one
step; each edit of converters clears the rules, and every other edit leaves them.

**mpexp.** The pointer work has to keep every channel in the ring: a release returns at
once when its channel is not linked, and would not count. `Linked` says so, `Loose` is
what is left between `Extract` and `Link`. The loop that fills the bucket is an
induction (`LeastNumber`): first that the loop has a result, then what that is
(`Filling`). The rest is the cardinality of the notes on a channel, one more or one less
at a time (`JoinChannel`, `LeaveChannel`).

**Bucket.** `ImplementsPool` needs the order of the ring. `Spells` reads it from `top` as a
row of distinct channels, the first *r* of them released, with `bottomReleased` at the
*r*-th; next and previous are neighbours in that row, which closes. Each operation
moves one channel to another place in the row and shifts what lies between (`MovedTo`):
a take moves a channel behind all others, a release behind the last released one.
The two queues of `ChannelPool` are the two ends of the row.

**mpesens.** A declared range is a select and its data on every member channel, which
the synth hears one by one; `Hearing` follows it through them and `Retuned` says what it
knows afterwards: the range everywhere, the zone's own parameters as before. `SensInv` adds
to the property that the synth has selected on each channel what the controller selected
last, unless a declaration came since (`overtaken`), and that the tracker of
configuration messages sees the zone's size wherever the controller sends it, so that
what the controller plays in between is understood alike on both sides.

**mpesplit.** A note-off is only worth something if the splitter still has the port of
its channel. `VoicesInv` says that every port sounds at most the note that the splitter
has for it, and that this note was assigned to the port's channel (`Voiced`); the tables
of channels and ports are inverse to each other (`Tables`), also when a voice is robbed.
A panic makes the synths sound less than the tables say, never more. All of it hangs on
one note to a channel at a time (`Assignments`): two would share a port, and the first
release would free it (see the known list). An MPE controller sees to that itself.
With `mpexp` it follows from the order of the ring: as long as there are fewer keys than
channels, one channel has no note, and then the one on `top` has none either
(`ChannelIsLeft`, by counting keys; `Spells`). A message on its way is one to three
messages to the splitter and up to five to a port, and the folds over them are taken
apart by `FoldOfOne`, `FoldOfTwo`, `FoldOfThree` and `FoldConcat`. The same lemmas say
what a step does to the voices: nothing, one starts, one ends, all fall silent
(`SameVoices`, `VoiceStarted`, `VoiceEnded`, `Hushed`). `OldestMakesRoom` needs only
these four and `Aged`: of two ports the one that stands first in `byAge` has the note of
the earlier key, and behind a port that sounds no port is taken and silent. The second
half is what a panic might have broken: it leaves every taken port silent, and the order
of age then has the silent ones in front, where they are robbed first.

`ExpressionFollows` relates what was played to what a synth has, over two caches in
between, and `ExpressionInv` has a part for each of the three gaps. What was played is in
the splitter's cache (`Known`; behind `mpexp` the member channels have none). What the
splitter noted as sent to a port that sounds is the two values combined (`UpToDate`).
What the synth has is what the splitter noted (`Faithful`), but for the ports that a
zone reset put `behind`, and but for a pressure of zero, which a note that starts is not
told. That a port receives several messages for one step does not matter, since all that
mention a dimension say one value of it (`Says`), and the fold of the synth then leaves
that value (`WhatIsSaidIsHeard`).

**Pedal.** The invariant is the property itself, `PedalKnowsWhatSounds`; each
message gets a lemma that says what it does field by field (`OnStep`, `OffStep`,
`PedalStep`), and these serve the invariant and the refinement alike.

**Mono.** `OnlyTheWinnerSounds` needs `OrderOK`: the order in which held keys were
struck is strict, transitive and total on them, which the counter gives the
program for free. With it the winner is unique (`OneWinner`), a loser changes
nothing (`LoserWaits`), and a waiting key may leave unnoticed (`WaiterLeaves`).

**Pressure.** `PressureInv` says that the stage knows the keys as the hand holds them and
that the value it remembers is either none or the one it told last; the collapse then
compares the hardest key with what was heard.

**Capture.** For the ring, types and the property are inductive together. A poll is
then a run of numbers (`PollIsARun`), and `CursorInv` says that what a client was given
lies between where it began and its cursor, all of it unless the ring has left its
beginning behind. That exception is needed for a client that polls from the start
again: when it has not moved, it had missed nothing.

### What is only model-checked

- Liveness (`QuitCompletes`, `Reconnects`, `EndsWhenAsked`, `TimerIsServed`) and the
  fairness in `ImplementsPorts` and `ImplementsDialogue`, which is outside of what TLAPS
  proves. The safety half of both is proved (`EngineIsOneFifo`, `AnswersInOrder`).
- Chains of transforms (`NothingHangs`, `HandsOffSilence`, `OneNotePerKeyboard`,
  `CleanRestrike`, `HeldUntilNewGesture`): each transform may take away or duplicate what
  those behind it hear, and the invariant of a chain would have to say this for every
  pair of kinds. The proofs about folds are there; the pairs are what TLC goes through.
- The converter and its filters (`OnlyTheWantedArrives`, `DataLandsWhereMeant`,
  `OneValuePerPair`): they are claims about particular setups of rules, which are
  constants without structure, and a general claim about rules is false (see the known
  list).
- Relocation, collapse and the ports' parameters (`NewestNoteShapesItsChannel`,
  `ZoneIsHeard`, `PortIsHeard`): what is to be told is spread over several caches for
  each channel and dimension, and the inductive invariants, which relate all of them,
  are not written.
- `RoutesAreAsWritten`: it compares the parser with what phrases mean, phrase by phrase.
- `ScalingKeepsValues`, which TLC checks for every value there is, and
  `RejectedStartsLeaveNoSettings`, where the question is whether each way out restores,
  which no induction makes clearer.

## Where code and documentation differ

Five runs are expected to end in a violation; each states a sentence of the
repository and TLC shows a behaviour of the code that breaks it.

- `filter_negated`: a select MSB matches `nrpn 1` on its own, so `not nrpn 1` also
  drops the select MSB of that parameter's 127 neighbours, whose data then goes to
  another parameter or to none (`FilterTests.cpp:660`).
- `routes_unchecked`: the validator leaves four tokens behind a `convert` unlooked
  at, so a call with a command cut short is accepted and the next call loses its
  first token to it (`McpServer.cpp:860`). Nothing else about the four is looked at
  either: a command that is denied over MCP is accepted among them.
- `numbers_late`: options are decoded at the first message and not where they are
  read, so `hex` and `dec` apply to earlier commands as well, over MCP also those of
  running routes (`README.md:56`).
- `life_interrupt`: on Linux an interrupt quits an MCP session whose reader thread
  still reads, and `shutdown` waits for that thread (`ApplicationState.cpp:483`).
- `life_signal`: a signal between the test of the flag and the read that follows is
  not seen before the next line (`ApplicationState.cpp:300`).

These are known, mostly from reading, and have no run of their own; the models
exclude what leads to them, at the place that is named here.

| What the code does | Where | Excluded by |
| --- | --- | --- |
| An input that was unplugged and is back before the timer's next look was never lost for the program: no panic, and the port stays dead | `README.md:671` | `Reconnects` takes the code's view |
| Two monos of a route share one state, and the second drops every note-off | `README.md:465` | `Unshared` |
| A device that alternates between two 14-bit parameters of a kind has every pair converted twice | `README.md:529` | `OneValuePerPair` speaks of the remembered pairing |
| A data LSB in front of its MSB is forwarded although a rule takes the parameter | `Conversion.cpp:513` | `MsbFirst` |
| Two notes on one member channel of a split zone share a port; the first release frees it and the second is dropped | `README.md:605` | a finger per channel |
| An initial pressure of zero is not sent, so a note starts under the pressure of the voice it replaced | `README.md:614` | `ExpressionFollows` asks for a pressure above zero |
| A zone reset resets the controllers of the ports while the splitter believes what it sent before, so an equal bend is not sent | `ApplicationState.cpp:1591` | `behind` in `MpeVoices` |
| A bend that is equal at another range is not sent, nor is the range declared, so a synth bends by the range it had, where `README.md:588` says that the result is expressed at the combined range | `Mpe.cpp:531` | the exception in `NewestNoteInTune` (`"range"` in `stale`); for a port `unheard` in `PortStage`; the bends that are played reach it |
| The zone's own controllers pass `mpemono` without being remembered, so a note's value that equals the one last sent for a note is not sent again | `Mpe.cpp:604` | nothing: `NewestNoteHasItsController` says that the synth then has the zone's value (`"controller"` in `stale`) |
| The declaration of `mpesens` leaves RPN 0 selected behind the controller's back | `Mpe.cpp:803` | `overtaken` in `SensStage` |
| A range declared on a port ends the selection of another parameter there; data that a note's own channel sends for it is lost | `Mpe.cpp:866` | `PortPlays` selects and sends in one go |
| The cursor of an empty capture is −1, which `read_route` takes for "no cursor" | `McpServer.cpp:442` | `EachPollAccounts` speaks of cursors from 0 on |
| A write that fails does not end the loop of the MCP reader | `McpServer.cpp:1722` | nothing: it is in the model (`listening`) |

## What is not modelled, and the plan

Done: the route engine with its tools, the life of the process and the MCP transport,
the numbers, the end of a tool call, the pedal and mono transforms, the pressure
collapse, `mpexp` with its bucket, the voices of `mpesplit` and their expression,
`mpesens` and the capture ring, all with their proofs; and, checked by TLC, chains of
transforms, the parameters of split ports, relocation, collapse, zone reset, conversion,
filters and what a started route is made of.

Left, in the order in which it is worth doing:

1. More theorems, with the facts about folds that are there: relocation and collapse,
   whose invariants would relate their caches to what was played as that of the splitter
   does, and the note half of chains of transforms.
2. The start-up race: `initialise` parses the command line without the callback lock
   while the inputs it has opened already deliver (`ApplicationState.cpp:390`).
3. The round trip of text MIDI between two processes (`out -` into `in -`): what is
   printed as another message than it was.
4. The rest of the command parser: program files, default ports, scripts.
5. The selects of RPN 0 that `mpemono` passes on, the transforms `scale`, `curve`
   and `rescale` of a rule (their factors are real numbers) and the arithmetic of one
   message in the other transforms.

Left out of every model: timestamps, velocities (except "on" and "off"), logging
and text. Not modelled: text MIDI, scripting, help and schema, terminal
colours, the configuration file of MCP clients.

The repository contains the whole of JUCE (`src/JuceLibraryCode`, with QuickJS, zlib
and the like), many times the size of the program in `src/Source`. It is a library
here, modelled only by what the program expects of it, so the lines that the models
stand for are a small share of all lines and a large one of the program's own.

The hazards that each property answers, and those that no property answers yet,
are in `PROJECT.json` with the source line at which they bite.

## Running it

    tlc -workers 2 -config MCRouteEngine_timer.cfg MCRouteEngine.tla
    tlapm RouteEngineProofs.tla

The largest run, `engine_tools`, has 1.7 million distinct states and takes less than a
minute; `notes_chains`, `stages` and `mpe_rack` take one to two minutes each.
