-------------------------- MODULE RouteEngineProofs --------------------------
(***************************************************************************)
(* What RouteEngine guarantees for any number of routes, ports, messages   *)
(* and unplugged devices: the variables keep their types, the sender never *)
(* holds a message for a port that was closed, and no route or input goes  *)
(* away under a callback that routes a message.                            *)
(*                                                                         *)
(* None of this is inductive.  A port is safe to close because the sender  *)
(* has been joined with nothing left for it, which in turn depends on the  *)
(* port having been taken out of its destination, or its route out of      *)
(* routes_, before the sender was told to stop.  IInv records this order.  *)
(***************************************************************************)
EXTENDS RouteEngine, TLAPS

\* the messages handed to enqueueSend and not sent yet
Queued == {batch[k] : k \in DOMAIN batch} \cup {queue[k] : k \in DOMAIN queue}

\* what the current port or route is in each phase of the message thread
PhaseOK ==
  /\ pc \in {"idle", "walk", "shutClose", "done"} => cur = Nobody
  /\ pc \in {"idle", "inject", "injecting"} \/ cur \in Routes => walk = {}
  /\ pc \in {"inject", "injecting"} => cur \in Inputs
  /\ pc = "inject" => played[Client] < MaxInjected
  /\ pc = "injecting" => lock = MessageThread /\ todo \subseteq OutputsOf(RouteOf[cur])
  /\ pc = "restart" => cur \in Outputs \cup Routes
  /\ pc \in {"inClose", "inOpen", "inAdopt"} => cur \in Inputs
  /\ pc \in {"outOpen", "outAdopt"} => cur \in Outputs
  /\ pc = "inAdopt" \/ pc = "outAdopt" => cur \in open
  /\ pc \in {"splice", "stopPanic"} => cur \in Routes \ live
  /\ pc \in {"panic", "panicking"} => cur \notin Outputs
  /\ pc = "panicking" => lock = MessageThread
  /\ pc \in {"stop", "join", "close"} => cur \notin Inputs /\ cur \notin out /\ cur \notin live
  /\ pc = "inClose" => cur \notin conn
  /\ pc = "panicking" => \A d \in panicTodo : RouteOf[d] \in live
  /\ pc = "stopPanic" => \A d \in panicTodo : RouteOf[d] = cur
  /\ pc \in {"panic", "panicking"} /\ cur \in Routes => cur \in live

\* the ports being looked at belong to routes that stay
WalkLive ==
  /\ \A p \in walk : RouteOf[p] \in live
  /\ cur \in Ports => RouteOf[cur] \in live

\* fields refer to open devices only
FieldsOpen == conn \subseteq open /\ out \subseteq open

\* a callback that holds the lock
CallbackOK ==
  lock \in Inputs => /\ callback[lock] > 0
                     /\ lock \in conn
                     /\ RouteOf[lock] \in live
                     /\ todo \subseteq OutputsOf(RouteOf[lock])

\* the sender is down only while the message thread closes something
SenderOK ==
  /\ sender = "running" \/ pc \in {"join", "close", "restart", "done"}
  /\ pc \in {"close", "done"} => sender # "running"
  /\ exiting => pc \in {"join", "close", "restart", "done"}

\* a message waits for an open port of a route that is in routes_ or is
\* being stopped; once the sender has drained, only for a connected one
QueuedOK ==
  \A m \in Queued :
    /\ m.to \in open
    /\ \/ RouteOf[m.to] \in live
       \/ RouteOf[m.to] = cur /\ pc \in {"stopPanic", "stop", "join"}
    /\ sender # "running" => m.to \in out /\ RouteOf[m.to] \in live

\* at exit no input is left to route anything
InputsGone ==
  cur = Nobody /\ pc \in {"shutClose", "panic", "panicking", "stop", "join", "close", "done"}
    => conn = {}

\* so what the sender leaves behind is nothing
NothingLeft ==
  cur = Nobody /\ pc \in {"join", "close", "done"} /\ sender # "running" => Queued = {}

Control == PhaseOK /\ WalkLive /\ FieldsOpen /\ CallbackOK /\ SenderOK
           /\ InputsGone

IInv == TypeOK /\ Control /\ QueuedOK /\ NothingLeft

-----------------------------------------------------------------------------
\* appending, taking and sending change Queued as expected
LEMMA QueuedPush ==
  ASSUME queue \in Seq(Item), NEW d, NEW from, NEW n, Push(d, from, n), batch' = batch
  PROVE  \A m \in Queued' : m \in Queued \/ (m.to = d /\ d \in out)
  BY DEF Push, Queued

LEMMA QueuedTake ==
  ASSUME SenderTake, queue \in Seq(Item)
  PROVE  Queued' = Queued
  BY DEF SenderTake, Queued

LEMMA QueuedSend ==
  ASSUME SenderSend, batch \in Seq(Item)
  PROVE  Queued' \subseteq Queued
  BY DEF SenderSend, Queued

LEMMA QueuedKept ==
  ASSUME UNCHANGED <<batch, queue>>
  PROVE  Queued' = Queued
  BY DEF Queued

LEMMA QueuedOutputs ==
  ASSUME queue \in Seq(Item), batch \in Seq(Item)
  PROVE  \A m \in Queued : m.to \in Outputs
<1>1. Queued \subseteq Item
  BY DEF Queued
<1> QED
  BY <1>1 DEF Item

LEMMA PendingQueued ==
  ASSUME queue \in Seq(Item), batch \in Seq(Item),
         NEW k \in DOMAIN Pending
  PROVE  Pending[k] \in Queued
  BY DEF Pending, Queued

-----------------------------------------------------------------------------
LEMMA PushTyped ==
  ASSUME queue \in Seq(Item), NEW d \in Outputs,
         NEW from \in Sources \cup {AllNotesOff}, NEW n \in 0..MaxMsgs, Push(d, from, n)
  PROVE  queue' \in Seq(Item)
<1>1. [to |-> d, from |-> from, n |-> n] \in Item
  BY DEF Item
<1> QED
  BY <1>1 DEF Push

\* the steps keep the types, given the phase of the message thread
LEMMA TypeStep ==
  ASSUME TypeOK, PhaseOK, [Next]_vars
  PROVE  TypeOK'
<1> USE EngineAssumption DEF TypeOK, Ports, vars, device, fields, senderVars, mtVars
<1>1. ASSUME NEW p \in Ports, Unplug(p) PROVE TypeOK'
  BY <1>1 DEF Unplug
<1>2. ASSUME NEW p \in Ports, Plug(p) PROVE TypeOK'
  BY <1>2 DEF Plug
<1>3. ASSUME NEW i \in Inputs, Play(i) PROVE TypeOK'
  <2>1. i \in Sources /\ played[i] + 1 \in 0..MaxMsgs
    BY <1>3 DEF Play, Sources
  <2> QED
    BY <1>3, <2>1 DEF Play
<1>4. ASSUME NEW i \in Inputs, CallbackEnter(i) PROVE TypeOK'
  <2>1. lock' \in Inputs \cup {MessageThread, Nobody} /\ todo' \subseteq Outputs
    BY <1>4 DEF CallbackEnter, OutputsOf
  <2>2. callback' = callback \/ callback' = [callback EXCEPT ![i] = 0]
    BY <1>4 DEF CallbackEnter
  <2>3. callback \in [Inputs -> 0..MaxMsgs] /\ 0 \in 0..MaxMsgs
    OBVIOUS
  <2>4. callback' \in [Inputs -> 0..MaxMsgs]
    BY ONLY <2>2, <2>3
  <2> QED
    BY <1>4, <2>1, <2>4 DEF CallbackEnter
<1>5. ASSUME NEW i \in Inputs, CallbackPush(i) PROVE TypeOK'
  <2>1. queue' \in Seq(Item)
    BY <1>5, PushTyped DEF CallbackPush, Sources
  <2> QED
    BY <1>5, <2>1 DEF CallbackPush
<1>6. ASSUME NEW i \in Inputs, CallbackLeave(i) PROVE TypeOK'
  BY <1>6 DEF CallbackLeave
<1>7. CASE SenderTake
  BY <1>7 DEF SenderTake
<1>8. CASE SenderSend
  <2> DEFINE m == Head(batch)
  <2>1. m \in Item /\ batch' \in Seq(Item)
    BY <1>8 DEF SenderSend
  <2>2. m.to \in Outputs /\ m.n \in 0..MaxMsgs
        /\ (m.from # AllNotesOff => m.from \in Sources)
    BY <2>1 DEF Item
  <2>3. sent' \in [Outputs -> [Sources -> 0..MaxMsgs]]
    BY <1>8, <2>2 DEF SenderSend
  <2>4. Hear(sounding[m.to], m) \subseteq Sources
    <3>1. sounding[m.to] \subseteq Sources
      BY <2>2
    <3>2. m.n % 2 = 0 \/ m.n % 2 = 1
      BY <2>2
    <3>3. CASE m.from = AllNotesOff
      BY <3>3 DEF Hear
    <3>4. CASE m.from # AllNotesOff /\ m.n % 2 = 1
      BY <2>2, <3>1, <3>4 DEF Hear
    <3>5. CASE m.from # AllNotesOff /\ m.n % 2 = 0
      BY <2>2, <3>1, <3>5 DEF Hear
    <3> QED
      BY <3>2, <3>3, <3>4, <3>5
  <2>5. sounding' \in [Outputs -> SUBSET Sources]
    BY <1>8, <2>2, <2>4 DEF SenderSend
  <2> QED
    BY <1>8, <2>1, <2>3, <2>5 DEF SenderSend
<1>9. CASE SenderExit
  BY <1>9 DEF SenderExit
<1>10. CASE TimerBegin
  BY <1>10 DEF TimerBegin, GoTo
<1>11. CASE TimerEnd
  BY <1>11 DEF TimerEnd, GoTo
<1>12. ASSUME NEW i \in Inputs, CheckInput(i) PROVE TypeOK'
  BY <1>12 DEF CheckInput, GoTo
<1>13. ASSUME NEW d \in Outputs, CheckOutput(d) PROVE TypeOK'
  BY <1>13 DEF CheckOutput, GoTo
<1>14. CASE CloseInput
  BY <1>14 DEF CloseInput, GoTo, ClosePorts
<1>15. CASE OpenInput
  BY <1>15 DEF OpenInput, PhaseOK, GoTo, OpenPorts
<1>16. CASE AdoptInput
  BY <1>16 DEF AdoptInput, PhaseOK, GoTo
<1>17. CASE OpenOutput
  BY <1>17 DEF OpenOutput, PhaseOK, GoTo, OpenPorts
<1>18. CASE AdoptOutput
  BY <1>18 DEF AdoptOutput, PhaseOK, GoTo
<1>19. CASE PanicBegin
  BY <1>19 DEF PanicBegin, PanicOutputs, OutputsOf, GoTo
<1>20. CASE PanicPush
  <2>1. PICK d \in panicTodo : Push(d, AllNotesOff, 0)
    BY <1>20 DEF PanicPush
  <2>2. 0 \in 0..MaxMsgs
    OBVIOUS
  <2>3. queue' \in Seq(Item)
    BY <2>1, <2>2, PushTyped
  <2> QED
    BY <1>20, <2>3 DEF PanicPush
<1>21. CASE PanicEnd
  BY <1>21 DEF PanicEnd, GoTo
<1>22. CASE StopPanicEnd
  BY <1>22 DEF StopPanicEnd, GoTo
<1>23. CASE StopSender
  BY <1>23 DEF StopSender, GoTo
<1>24. CASE JoinSender
  BY <1>24 DEF JoinSender, GoTo
<1>25. CASE CloseDrained
  BY <1>25 DEF CloseDrained, ClosingPorts, InputsOf, OutputsOf, GoTo, ClosePorts
<1>26. CASE StartSender
  BY <1>26 DEF StartSender, GoTo
<1>27. CASE ShutdownBegin
  BY <1>27 DEF ShutdownBegin, GoTo
<1>28. CASE ShutdownCloseInputs
  BY <1>28 DEF ShutdownCloseInputs, GoTo, ClosePorts
<1>29. ASSUME NEW r \in Routes, StageRoute(r) PROVE TypeOK'
  BY <1>29 DEF StageRoute, GoTo, OpenPorts
<1>30. ASSUME NEW r \in Routes, StopRoute(r) PROVE TypeOK'
  BY <1>30 DEF StopRoute, OutputsOf, GoTo
<1>31. ASSUME NEW r \in Routes, PanicRoute(r) PROVE TypeOK'
  BY <1>31 DEF PanicRoute, GoTo
<1>32. CASE SpliceRoute
  BY <1>32 DEF SpliceRoute, PhaseOK, GoTo
<1>33. CASE DiscardRoute
  BY <1>33 DEF DiscardRoute, InputsOf, OutputsOf, GoTo, ClosePorts
<1>34. CASE RequestQuit
  BY <1>34 DEF RequestQuit
<1>35. CASE Terminated
  BY <1>35 DEF Terminated
<1>36. CASE UNCHANGED vars
  BY <1>36
<1>37. ASSUME NEW i \in Inputs, InjectMidi(i) PROVE TypeOK'
  BY <1>37 DEF InjectMidi, GoTo
<1>38. CASE InjectEnter
  <2>1. Client \in Sources /\ played[Client] + 1 \in 0..MaxMsgs
    BY <1>38 DEF InjectEnter, PhaseOK, Sources
  <2>2. played' \in [Sources -> 0..MaxMsgs]
    BY <1>38, <2>1 DEF InjectEnter
  <2> QED
    BY <1>38, <2>2 DEF InjectEnter, PhaseOK, OutputsOf, GoTo
<1>39. CASE InjectPush
  <2>1. PICK d \in todo : Push(d, Client, played[Client]) /\ todo' = todo \ {d}
    BY <1>39 DEF InjectPush
  <2>2. queue' \in Seq(Item)
    BY <2>1, PushTyped DEF Sources
  <2> QED
    BY <1>39, <2>1, <2>2 DEF InjectPush
<1>40. CASE InjectLeave
  BY <1>40 DEF InjectLeave, GoTo
<1> QED
  BY <1>1, <1>2, <1>3, <1>4, <1>5, <1>6, <1>7, <1>8, <1>9, <1>10, <1>11, <1>12, <1>13, <1>14, <1>15, <1>16, <1>17, <1>18, <1>19, <1>20, <1>21, <1>22, <1>23, <1>24, <1>25, <1>26, <1>27, <1>28, <1>29, <1>30, <1>31, <1>32, <1>33, <1>34, <1>35, <1>36, <1>37, <1>38, <1>39, <1>40
       DEF Next, Environment, Callback, Sender, Timer, Panic, Drain, Shutdown, Tools, Staged, Inject

LEMMA InitIInv == Init => IInv
<1> SUFFICES ASSUME Init PROVE IInv
  OBVIOUS
<1> USE EngineAssumption DEF Init
<1>1. TypeOK
  <2>1. 0 \in 0..MaxMsgs /\ 0 \in 0..MaxUnplugs
    OBVIOUS
  <2>2. queue \in Seq(Item) /\ batch \in Seq(Item)
    OBVIOUS
  <2> QED
    BY <2>1, <2>2 DEF TypeOK, Ports
<1>2. Queued = {}
  BY DEF Queued
<1> QED
  BY <1>1, <1>2 DEF IInv, Control, PhaseOK, WalkLive, FieldsOpen, CallbackOK, SenderOK, QueuedOK, InputsGone, NothingLeft, Ports

LEMMA ControlStep ==
  ASSUME TypeOK, Control, [Next]_vars
  PROVE  Control'
<1> USE EngineAssumption DEF Control, TypeOK, PhaseOK, WalkLive, FieldsOpen, CallbackOK, SenderOK, InputsGone, Ports, vars, device, fields, senderVars, mtVars
<1>1. ASSUME NEW p \in Ports, Unplug(p) PROVE Control'
  BY <1>1 DEF Unplug
<1>2. ASSUME NEW p \in Ports, Plug(p) PROVE Control'
  BY <1>2 DEF Plug
<1>3. ASSUME NEW i \in Inputs, Play(i) PROVE Control'
  BY <1>3 DEF Play
<1>4. ASSUME NEW i \in Inputs, CallbackEnter(i) PROVE Control'
  BY <1>4 DEF CallbackEnter, OutputsOf
<1>5. ASSUME NEW i \in Inputs, CallbackPush(i) PROVE Control'
  BY <1>5 DEF CallbackPush, Push
<1>6. ASSUME NEW i \in Inputs, CallbackLeave(i) PROVE Control'
  BY <1>6 DEF CallbackLeave
<1>7. CASE SenderTake
  BY <1>7 DEF SenderTake
<1>8. CASE SenderSend
  BY <1>8 DEF SenderSend
<1>9. CASE SenderExit
  BY <1>9 DEF SenderExit
<1>10. CASE TimerBegin
  BY <1>10 DEF TimerBegin, GoTo
<1>11. CASE TimerEnd
  BY <1>11 DEF TimerEnd, GoTo
<1>12. ASSUME NEW i \in Inputs, CheckInput(i) PROVE Control'
  BY <1>12 DEF CheckInput, GoTo
<1>13. ASSUME NEW d \in Outputs, CheckOutput(d) PROVE Control'
  BY <1>13 DEF CheckOutput, GoTo
<1>14. CASE CloseInput
  BY <1>14 DEF CloseInput, GoTo, ClosePorts
<1>15. CASE OpenInput
  BY <1>15 DEF OpenInput, GoTo, OpenPorts
<1>16. CASE AdoptInput
  BY <1>16 DEF AdoptInput, GoTo
<1>17. CASE OpenOutput
  BY <1>17 DEF OpenOutput, GoTo, OpenPorts
<1>18. CASE AdoptOutput
  BY <1>18 DEF AdoptOutput, GoTo
<1>19. CASE PanicBegin
  BY <1>19 DEF PanicBegin, GoTo, PanicOutputs, OutputsOf
<1>20. CASE PanicPush
  BY <1>20 DEF PanicPush, Push
<1>21. CASE PanicEnd
  BY <1>21 DEF PanicEnd, GoTo
<1>22. CASE StopPanicEnd
  BY <1>22 DEF StopPanicEnd, GoTo
<1>23. CASE StopSender
  BY <1>23 DEF StopSender, GoTo
<1>24. CASE JoinSender
  BY <1>24 DEF JoinSender, GoTo
<1>25. CASE CloseDrained
  BY <1>25 DEF CloseDrained, GoTo, ClosingPorts, InputsOf, OutputsOf, ClosePorts
<1>26. CASE StartSender
  BY <1>26 DEF StartSender, GoTo
<1>27. CASE ShutdownBegin
  BY <1>27 DEF ShutdownBegin, GoTo
<1>28. CASE ShutdownCloseInputs
  BY <1>28 DEF ShutdownCloseInputs, GoTo, ClosePorts
<1>29. ASSUME NEW r \in Routes, StageRoute(r) PROVE Control'
  BY <1>29 DEF StageRoute, GoTo, OpenPorts
<1>30. ASSUME NEW r \in Routes, StopRoute(r) PROVE Control'
  BY <1>30 DEF StopRoute, GoTo, OutputsOf
<1>31. ASSUME NEW r \in Routes, PanicRoute(r) PROVE Control'
  BY <1>31 DEF PanicRoute, GoTo
<1>32. CASE SpliceRoute
  BY <1>32 DEF SpliceRoute, GoTo
<1>33. CASE DiscardRoute
  BY <1>33 DEF DiscardRoute, GoTo, InputsOf, OutputsOf, ClosePorts
<1>34. CASE RequestQuit
  BY <1>34 DEF RequestQuit
<1>35. CASE Terminated
  BY <1>35 DEF Terminated
<1>36. CASE UNCHANGED vars
  BY <1>36
<1>37. ASSUME NEW i \in Inputs, InjectMidi(i) PROVE Control'
  BY <1>37 DEF InjectMidi, GoTo
<1>38. CASE InjectEnter
  BY <1>38 DEF InjectEnter, GoTo
<1>39. CASE InjectPush
  BY <1>39 DEF InjectPush, Push
<1>40. CASE InjectLeave
  BY <1>40 DEF InjectLeave, GoTo
<1> QED
  BY <1>1, <1>2, <1>3, <1>4, <1>5, <1>6, <1>7, <1>8, <1>9, <1>10, <1>11, <1>12, <1>13, <1>14, <1>15, <1>16, <1>17, <1>18, <1>19, <1>20, <1>21, <1>22, <1>23, <1>24, <1>25, <1>26, <1>27, <1>28, <1>29, <1>30, <1>31, <1>32, <1>33, <1>34, <1>35, <1>36, <1>37, <1>38, <1>39, <1>40
     DEF Next, Environment, Callback, Sender, Timer, Panic, Drain, Shutdown, Tools, Staged, Inject

\* nothing is queued for a port that is closing, and nothing at all at exit
LEMMA QueuedStep ==
  ASSUME IInv, [Next]_vars
  PROVE  (QueuedOK /\ NothingLeft)'
<1> USE EngineAssumption DEF IInv, Control, QueuedOK, NothingLeft, TypeOK, PhaseOK, WalkLive, FieldsOpen, CallbackOK, SenderOK, InputsGone, Ports, vars, device, fields, senderVars, mtVars
<1>1. ASSUME NEW p \in Ports, Unplug(p) PROVE (QueuedOK /\ NothingLeft)'
  BY <1>1, QueuedKept DEF Unplug
<1>2. ASSUME NEW p \in Ports, Plug(p) PROVE (QueuedOK /\ NothingLeft)'
  BY <1>2, QueuedKept DEF Plug
<1>3. ASSUME NEW i \in Inputs, Play(i) PROVE (QueuedOK /\ NothingLeft)'
  BY <1>3, QueuedKept DEF Play
<1>4. ASSUME NEW i \in Inputs, CallbackEnter(i) PROVE (QueuedOK /\ NothingLeft)'
  BY <1>4, QueuedKept DEF CallbackEnter, OutputsOf
<1>5. ASSUME NEW i \in Inputs, CallbackPush(i) PROVE (QueuedOK /\ NothingLeft)'
  <2>1. PICK d \in todo : Push(d, i, callback[i]) /\ todo' = todo \ {d}
    BY <1>5 DEF CallbackPush
  <2>2. \A m \in Queued' : m \in Queued \/ (m.to = d /\ d \in out)
    BY <1>5, <2>1, QueuedPush DEF CallbackPush
  <2> QED
    BY <1>5, <2>1, <2>2 DEF CallbackPush, OutputsOf
<1>6. ASSUME NEW i \in Inputs, CallbackLeave(i) PROVE (QueuedOK /\ NothingLeft)'
  BY <1>6, QueuedKept DEF CallbackLeave
<1>7. CASE SenderTake
  BY <1>7, QueuedTake DEF SenderTake
<1>8. CASE SenderSend
  BY <1>8, QueuedSend DEF SenderSend
<1>9. CASE SenderExit
  BY <1>9 DEF SenderExit, Queued
<1>10. CASE TimerBegin
  BY <1>10, QueuedKept DEF TimerBegin, GoTo
<1>11. CASE TimerEnd
  BY <1>11, QueuedKept DEF TimerEnd, GoTo
<1>12. ASSUME NEW i \in Inputs, CheckInput(i) PROVE (QueuedOK /\ NothingLeft)'
  BY <1>12, QueuedKept DEF CheckInput, GoTo
<1>13. ASSUME NEW d \in Outputs, CheckOutput(d) PROVE (QueuedOK /\ NothingLeft)'
  BY <1>13, QueuedKept DEF CheckOutput, GoTo
<1>14. CASE CloseInput
  BY <1>14, QueuedKept, QueuedOutputs DEF CloseInput, GoTo, ClosePorts
<1>15. CASE OpenInput
  BY <1>15, QueuedKept DEF OpenInput, GoTo, OpenPorts
<1>16. CASE AdoptInput
  BY <1>16, QueuedKept DEF AdoptInput, GoTo
<1>17. CASE OpenOutput
  BY <1>17, QueuedKept DEF OpenOutput, GoTo, OpenPorts
<1>18. CASE AdoptOutput
  BY <1>18, QueuedKept DEF AdoptOutput, GoTo
<1>19. CASE PanicBegin
  BY <1>19, QueuedKept DEF PanicBegin, GoTo, PanicOutputs, OutputsOf
<1>20. CASE PanicPush
  <2>1. PICK d \in panicTodo : Push(d, AllNotesOff, 0) /\ panicTodo' = panicTodo \ {d}
    BY <1>20 DEF PanicPush
  <2>2. \A m \in Queued' : m \in Queued \/ (m.to = d /\ d \in out)
    BY <1>20, <2>1, QueuedPush DEF PanicPush
  <2> QED
    BY <1>20, <2>1, <2>2 DEF PanicPush
<1>21. CASE PanicEnd
  BY <1>21, QueuedKept DEF PanicEnd, GoTo
<1>22. CASE StopPanicEnd
  BY <1>22, QueuedKept DEF StopPanicEnd, GoTo
<1>23. CASE StopSender
  BY <1>23, QueuedKept DEF StopSender, GoTo
<1>24. CASE JoinSender
  BY <1>24, QueuedKept DEF JoinSender, GoTo
<1>25. CASE CloseDrained
  BY <1>25, QueuedKept DEF CloseDrained, GoTo, ClosingPorts, InputsOf, OutputsOf, ClosePorts
<1>26. CASE StartSender
  BY <1>26, QueuedKept DEF StartSender, GoTo
<1>27. CASE ShutdownBegin
  BY <1>27, QueuedKept DEF ShutdownBegin, GoTo
<1>28. CASE ShutdownCloseInputs
  BY <1>28, QueuedKept, QueuedOutputs DEF ShutdownCloseInputs, GoTo, ClosePorts
<1>29. ASSUME NEW r \in Routes, StageRoute(r) PROVE (QueuedOK /\ NothingLeft)'
  BY <1>29, QueuedKept DEF StageRoute, GoTo, OpenPorts
<1>30. ASSUME NEW r \in Routes, StopRoute(r) PROVE (QueuedOK /\ NothingLeft)'
  BY <1>30, QueuedKept DEF StopRoute, GoTo, OutputsOf
<1>31. ASSUME NEW r \in Routes, PanicRoute(r) PROVE (QueuedOK /\ NothingLeft)'
  BY <1>31, QueuedKept DEF PanicRoute, GoTo
<1>32. CASE SpliceRoute
  BY <1>32, QueuedKept DEF SpliceRoute, GoTo
<1>33. CASE DiscardRoute
  BY <1>33, QueuedKept DEF DiscardRoute, GoTo, InputsOf, OutputsOf, ClosePorts
<1>34. CASE RequestQuit
  BY <1>34, QueuedKept DEF RequestQuit
<1>35. CASE Terminated
  BY <1>35, QueuedKept DEF Terminated
<1>36. CASE UNCHANGED vars
  BY <1>36, QueuedKept
<1>37. ASSUME NEW i \in Inputs, InjectMidi(i) PROVE (QueuedOK /\ NothingLeft)'
  BY <1>37, QueuedKept DEF InjectMidi, GoTo
<1>38. CASE InjectEnter
  BY <1>38, QueuedKept DEF InjectEnter, GoTo
<1>39. CASE InjectPush
  <2>1. PICK d \in todo : Push(d, Client, played[Client]) /\ todo' = todo \ {d}
    BY <1>39 DEF InjectPush
  <2>2. \A m \in Queued' : m \in Queued \/ (m.to = d /\ d \in out)
    BY <1>39, <2>1, QueuedPush DEF InjectPush
  <2> QED
    BY <1>39, <2>1, <2>2 DEF InjectPush, OutputsOf
<1>40. CASE InjectLeave
  BY <1>40, QueuedKept DEF InjectLeave, GoTo
<1> QED
  BY <1>1, <1>2, <1>3, <1>4, <1>5, <1>6, <1>7, <1>8, <1>9, <1>10, <1>11, <1>12, <1>13, <1>14, <1>15, <1>16, <1>17, <1>18, <1>19, <1>20, <1>21, <1>22, <1>23, <1>24, <1>25, <1>26, <1>27, <1>28, <1>29, <1>30, <1>31, <1>32, <1>33, <1>34, <1>35, <1>36, <1>37, <1>38, <1>39, <1>40
     DEF Next, Environment, Callback, Sender, Timer, Panic, Drain, Shutdown, Tools, Staged, Inject

-----------------------------------------------------------------------------
LEMMA Invariance == Spec => []IInv
<1>1. Init => IInv
  BY InitIInv
<1>2. IInv /\ [Next]_vars => IInv'
  BY TypeStep, ControlStep, QueuedStep DEF IInv, Control
<1> QED
  BY <1>1, <1>2, PTL DEF Spec

\* TypeCorrect: every variable of the engine keeps its type.
THEOREM TypeCorrect == Spec => []TypeOK
<1>1. IInv => TypeOK
  BY DEF IInv
<1> QED
  BY <1>1, Invariance, PTL

\* SendsReachOpenPorts: whatever the callbacks, the timer, the tools and
\* shutdown() do, no queued message waits for a port that has been closed.
THEOREM SendsReachOpenPorts == Spec => []NoSendAfterClose
<1>1. IInv => NoSendAfterClose
  BY PendingQueued DEF IInv, TypeOK, QueuedOK, NoSendAfterClose
<1> QED
  BY <1>1, Invariance, PTL

\* CallbacksFindTheirRoute: a callback that holds the lock works on a route
\* in routes_ and an input that is connected and open until it lets go.
THEOREM CallbacksFindTheirRoute == Spec => []CallbackOnLiveRoute
<1>1. IInv => CallbackOnLiveRoute
  BY DEF IInv, Control, FieldsOpen, CallbackOK, CallbackOnLiveRoute
<1> QED
  BY <1>1, Invariance, PTL
=============================================================================
