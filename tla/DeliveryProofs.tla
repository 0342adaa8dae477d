---------------------------- MODULE DeliveryProofs ----------------------------
(***************************************************************************)
(* What the messages on their way do, for any number of routes, ports,     *)
(* messages and unplugged devices: they arrive in order, nothing that a    *)
(* panic ended sounds again behind it, and the queue with its sender is    *)
(* the FIFO of module OutputPorts.                                         *)
(*                                                                         *)
(*  - Order.  A message in the queue is older than the one that its source *)
(*    is busy with, of which it may be put in the queue of some outputs    *)
(*    only: Before is about the outputs that still wait for theirs.        *)
(*  - Ports.  An open output is a destination, except while the timer or a *)
(*    tool opens or closes it, and a message waits for a destination.      *)
(*  - Silence.  Silent says of a sequence of messages what WillSound says  *)
(*    of its last one that matters, so that appending and sending can be   *)
(*    told apart.  A step breaks it only by routing (StaysSilent), and who *)
(*    routes holds the lock on a connected input of a live route.          *)
(***************************************************************************)
EXTENDS RouteEngineProofs

-----------------------------------------------------------------------------
\* pushing appends at most one message, taking none, sending removes the oldest
LEMMA PendingTyped ==
  ASSUME TypeOK
  PROVE  /\ Pending \in Seq(Item)
         /\ Len(Pending) \in Nat /\ DOMAIN Pending = 1..Len(Pending)
         /\ \A k \in DOMAIN Pending : /\ Pending[k] \in Item
                                      /\ Pending[k].to \in Outputs
                                      /\ Pending[k].from \in Sources \cup {AllNotesOff}
                                      /\ Pending[k].n \in 0..MaxMsgs
<1>1. batch \in Seq(Item) /\ queue \in Seq(Item)
  BY DEF TypeOK
<1>2. Pending \in Seq(Item)
  BY <1>1 DEF Pending
<1>3. \A k \in DOMAIN Pending : Pending[k] \in Item
  BY <1>2
<1> QED
  BY <1>2, <1>3 DEF Item

LEMMA PushAdds ==
  ASSUME TypeOK, NEW d \in Outputs, NEW from \in Sources \cup {AllNotesOff}, NEW n \in 0..MaxMsgs,
         Push(d, from, n), batch' = batch
  PROVE  IF d \in out THEN Pending' = Append(Pending, [to |-> d, from |-> from, n |-> n])
                      ELSE Pending' = Pending
<1> DEFINE m == [to |-> d, from |-> from, n |-> n]
<1>1. batch \in Seq(Item) /\ queue \in Seq(Item) /\ m \in Item
  BY DEF TypeOK, Item
<1>2. batch \o Append(queue, m) = Append(batch \o queue, m)
  <2> HIDE DEF m
  <2> QED BY <1>1
<1> QED
  BY <1>1, <1>2 DEF Push, Pending

LEMMA TakeSettles ==
  ASSUME TypeOK, SenderTake
  PROVE  Pending' = Pending
<1>1. batch \in Seq(Item) /\ queue \in Seq(Item)
  BY DEF TypeOK
<1>2. queue \o <<>> = queue /\ <<>> \o queue = queue
  BY <1>1
<1> QED
  BY <1>2 DEF SenderTake, Pending

LEMMA SendDrops ==
  ASSUME TypeOK, SenderSend
  PROVE  Pending # <<>> /\ Head(Pending) = Head(batch) /\ Pending' = Tail(Pending)
<1>1. batch \in Seq(Item) /\ queue \in Seq(Item) /\ batch # <<>>
  BY DEF TypeOK, SenderSend
<1>2. Tail(batch) \o queue = Tail(batch \o queue) /\ Head(batch \o queue) = Head(batch) /\ batch \o queue # <<>>
  BY <1>1
<1> QED
  BY <1>2 DEF SenderSend, Pending

LEMMA AfterAppend ==
  ASSUME TypeOK, NEW m \in Item, Pending' = Append(Pending, m)
  PROVE  /\ DOMAIN Pending' = 1..(Len(Pending) + 1)
         /\ \A k \in DOMAIN Pending : Pending'[k] = Pending[k]
         /\ Pending'[Len(Pending) + 1] = m
  BY PendingTyped

LEMMA AfterTail ==
  ASSUME TypeOK, Pending # <<>>, Pending' = Tail(Pending)
  PROVE  /\ Len(Pending) > 0 /\ Head(Pending) = Pending[1]
         /\ DOMAIN Pending' = 1..(Len(Pending) - 1)
         /\ \A k \in 1..(Len(Pending) - 1) : Pending'[k] = Pending[k + 1]
  BY PendingTyped

-----------------------------------------------------------------------------
(* Order.                                                                  *)

\* all that s has on its way to d, or sent there, is older than x
Before(d, s, x) ==
  /\ sent[d][s] < x
  /\ \A k \in DOMAIN Pending : Pending[k].to = d /\ Pending[k].from = s => Pending[k].n < x

\* an output has heard nothing that was not played
SentWasPlayed == \A d \in Outputs, s \in Sources : sent[d][s] <= played[s]

\* the message of a callback is newer, for the outputs that wait for it
CallbackIsNewest ==
  \A i \in Inputs :
    /\ callback[i] \in {0, played[i]}
    /\ callback[i] > 0 => \A d \in Outputs : (lock = i => d \in todo) => Before(d, i, callback[i])

\* so is the one that is injected
InjectedIsNewest == pc = "injecting" => \A d \in todo : Before(d, Client, played[Client])

OrderInv == InOrder /\ SentWasPlayed /\ CallbackIsNewest /\ InjectedIsNewest

\* the steps that leave the messages and whoever routes one alone
Aside ==
  /\ Pending' = Pending /\ sent' = sent
  /\ \A d \in Outputs : sounding'[d] \subseteq sounding[d]
  /\ played' = played /\ callback' = callback /\ todo' = todo
  /\ \A i \in Inputs : lock' = i <=> lock = i
  /\ pc' = "injecting" => pc = "injecting"

\* the steps that do not
Busy ==
  \/ \E i \in Inputs : Play(i) \/ Callback(i)
  \/ SenderSend \/ PanicPush \/ Inject

LEMMA StepKinds ==
  ASSUME TypeOK, PhaseOK, [Next]_vars
  PROVE  Aside \/ Busy
<1> USE DEF Aside, Busy, Ports, vars, device, fields, senderVars, mtVars, GoTo
<1>1. SenderTake => Aside
  BY TakeSettles DEF SenderTake
<1>2. \A p \in Ports : Unplug(p) \/ Plug(p) => Aside
  BY DEF Unplug, Plug, Pending, TypeOK
<1>3. SenderExit \/ RequestQuit \/ Terminated \/ UNCHANGED vars => Aside
  BY DEF SenderExit, RequestQuit, Terminated, Pending
<1>4. Timer => Aside
  BY DEF Timer, TimerBegin, TimerEnd, CheckInput, CheckOutput, CloseInput, OpenInput, AdoptInput,
         OpenOutput, AdoptOutput, Pending
<1>5. PanicBegin \/ PanicEnd \/ StopPanicEnd => Aside
  BY EngineAssumption DEF PanicBegin, PanicEnd, StopPanicEnd, Pending, PhaseOK, Ports
<1>6. Drain \/ Shutdown \/ Staged => Aside
  BY DEF Drain, StopSender, JoinSender, CloseDrained, StartSender, Shutdown, ShutdownBegin,
         ShutdownCloseInputs, Staged, SpliceRoute, DiscardRoute, Pending
<1>7. Tools => Aside
  BY DEF Tools, StageRoute, StopRoute, PanicRoute, InjectMidi, Pending
<1> QED
  BY <1>1, <1>2, <1>3, <1>4, <1>5, <1>6, <1>7 DEF Next, Environment, Sender, Panic

\* a message behind all that its source has on the way to d keeps the order
LEMMA PushOrdered ==
  ASSUME TypeOK, OrderInv,
         NEW d \in Outputs, NEW s \in Sources \cup {AllNotesOff}, NEW n \in 0..MaxMsgs,
         Push(d, s, n), batch' = batch, sent' = sent, played' = played,
         s \in Sources => Before(d, s, n) /\ n <= played[s]
  PROVE  /\ InOrder' /\ SentWasPlayed'
         /\ \A e \in Outputs, t \in Sources, x \in 0..MaxMsgs :
              Before(e, t, x) /\ (e # d \/ t # s) => Before(e, t, x)'
<1>1. CASE d \notin out
  <2>1. Pending' = Pending
    BY <1>1, PushAdds DEF Sources
  <2> QED
    BY <2>1 DEF OrderInv, InOrder, SentWasPlayed, Before
<1>2. CASE d \in out
  <2> DEFINE m == [to |-> d, from |-> s, n |-> n]
             last == Len(Pending) + 1
  <2>1. m \in Item /\ Pending' = Append(Pending, m)
    BY <1>2, PushAdds DEF Item
  <2>2. /\ DOMAIN Pending' = 1..last
        /\ \A k \in DOMAIN Pending : Pending'[k] = Pending[k]
        /\ Pending'[last] = m
    BY <2>1, AfterAppend
  <2>3. m.to = d /\ m.from = s /\ m.n = n
    OBVIOUS
  <2>4. Len(Pending) \in Nat /\ DOMAIN Pending = 1..Len(Pending)
    BY PendingTyped
  <2> HIDE DEF m
  <2>5. InOrder'
    <3> SUFFICES ASSUME NEW k \in DOMAIN Pending', Pending'[k].from \in Sources
                 PROVE  /\ Pending'[k].n > sent[Pending'[k].to][Pending'[k].from]
                        /\ Pending'[k].n <= played[Pending'[k].from]
                        /\ \A l \in 1..(k - 1) :
                             Pending'[l].to = Pending'[k].to /\ Pending'[l].from = Pending'[k].from
                             => Pending'[l].n < Pending'[k].n
      BY DEF InOrder
    <3>1. CASE k = last
      <4>1. \A l \in 1..(k - 1) : l \in DOMAIN Pending /\ Pending'[l] = Pending[l]
        BY <2>2, <2>4, <3>1
      <4> QED
        BY <2>2, <2>3, <3>1, <4>1 DEF Before
    <3>2. CASE k # last
      <4>1. k \in DOMAIN Pending /\ Pending'[k] = Pending[k]
        BY <2>2, <2>4, <3>2
      <4>2. \A l \in 1..(k - 1) : l \in DOMAIN Pending /\ Pending'[l] = Pending[l]
        BY <2>2, <2>4, <4>1
      <4> QED
        BY <4>1, <4>2 DEF OrderInv, InOrder
    <3> QED
      BY <3>1, <3>2
  <2>6. ASSUME NEW e \in Outputs, NEW t \in Sources, NEW x \in 0..MaxMsgs,
               Before(e, t, x), e # d \/ t # s
        PROVE  Before(e, t, x)'
    <3> SUFFICES ASSUME NEW k \in DOMAIN Pending', Pending'[k].to = e, Pending'[k].from = t
                 PROVE  Pending'[k].n < x
      BY <2>6 DEF Before
    <3>1. k # last
      BY <2>2, <2>3, <2>6
    <3> QED
      BY <2>2, <2>4, <2>6, <3>1 DEF Before
  <2> QED
    BY <2>5, <2>6 DEF OrderInv, SentWasPlayed
<1> QED
  BY <1>1, <1>2

\* sending the oldest message leaves the others behind it
LEMMA SendOrdered ==
  ASSUME TypeOK, OrderInv, SenderSend
  PROVE  /\ InOrder' /\ SentWasPlayed'
         /\ \A e \in Outputs, t \in Sources, x \in 0..MaxMsgs :
              Before(e, t, x) => Before(e, t, x)'
<1> DEFINE m == Head(batch)
<1>1. Pending # <<>> /\ Head(Pending) = m /\ Pending' = Tail(Pending)
  BY SendDrops
<1>2. /\ 1 \in DOMAIN Pending /\ Pending[1] = m
      /\ DOMAIN Pending' = 1..(Len(Pending) - 1)
      /\ \A k \in DOMAIN Pending' : k + 1 \in DOMAIN Pending /\ k + 1 > 1 /\ Pending'[k] = Pending[k + 1]
  BY <1>1, AfterTail, PendingTyped
<1>3. /\ m.to \in Outputs /\ m.from \in Sources \cup {AllNotesOff} /\ m.n \in 0..MaxMsgs
  BY <1>2, PendingTyped
<1>4. AllNotesOff \notin Sources
  BY EngineAssumption DEF Sources, Ports
<1>5. /\ sent \in [Outputs -> [Sources -> 0..MaxMsgs]]
      /\ sent' = IF m.from = AllNotesOff THEN sent ELSE [sent EXCEPT ![m.to][m.from] = m.n]
      /\ played' = played
  BY DEF SenderSend, TypeOK, device
<1> HIDE DEF m
<1>6. ASSUME NEW e \in Outputs, NEW t \in Sources
      PROVE  sent'[e][t] = IF m.from = t /\ m.to = e THEN m.n ELSE sent[e][t]
  <2>1. CASE m.from = AllNotesOff
    BY <1>4, <1>5, <2>1
  <2>2. CASE m.from \in Sources
    <3>1. sent' = [sent EXCEPT ![m.to][m.from] = m.n]
      BY <1>4, <1>5, <2>2
    <3> QED
      BY <1>3, <1>5, <2>2, <3>1
  <2> QED
    BY <1>3, <2>1, <2>2
<1>7. m.from \in Sources => m.n <= played[m.from] /\ m.n > sent[m.to][m.from]
  BY <1>2 DEF OrderInv, InOrder
<1>8. InOrder'
  <2> SUFFICES ASSUME NEW k \in DOMAIN Pending', Pending'[k].from \in Sources
               PROVE  /\ Pending'[k].n > sent'[Pending'[k].to][Pending'[k].from]
                      /\ Pending'[k].n <= played[Pending'[k].from]
                      /\ \A l \in 1..(k - 1) :
                           Pending'[l].to = Pending'[k].to /\ Pending'[l].from = Pending'[k].from
                           => Pending'[l].n < Pending'[k].n
    BY <1>5 DEF InOrder
  <2> DEFINE p == Pending'[k]
  <2>1. k + 1 \in DOMAIN Pending /\ p = Pending[k + 1] /\ 1 \in 1..((k + 1) - 1) /\ p.to \in Outputs
    BY <1>2, PendingTyped
  <2>2. /\ p.n > sent[p.to][p.from] /\ p.n <= played[p.from]
        /\ \A l \in 1..((k + 1) - 1) :
             Pending[l].to = p.to /\ Pending[l].from = p.from => Pending[l].n < p.n
    BY <2>1 DEF OrderInv, InOrder
  <2>3. m.to = p.to /\ m.from = p.from => m.n < p.n
    BY <1>2, <2>1, <2>2
  <2>4. p.n > sent'[p.to][p.from]
    BY <1>6, <2>1, <2>2, <2>3
  <2>5. \A l \in 1..(k - 1) : l + 1 \in 1..((k + 1) - 1) /\ l \in DOMAIN Pending'
    BY <1>2, PendingTyped
  <2>6. \A l \in 1..(k - 1) : Pending'[l] = Pending[l + 1]
    BY <1>2, <2>5
  <2> QED
    BY <2>2, <2>4, <2>5, <2>6
<1>9. SentWasPlayed'
  BY <1>5, <1>6, <1>7 DEF OrderInv, SentWasPlayed
<1>10. ASSUME NEW e \in Outputs, NEW t \in Sources, NEW x \in 0..MaxMsgs, Before(e, t, x)
       PROVE  Before(e, t, x)'
  <2>1. sent'[e][t] < x
    BY <1>2, <1>6, <1>10 DEF Before
  <2>2. \A k \in DOMAIN Pending' : Pending'[k].to = e /\ Pending'[k].from = t => Pending'[k].n < x
    BY <1>2, <1>10 DEF Before
  <2> QED
    BY <2>1, <2>2 DEF Before
<1> QED
  BY <1>8, <1>9, <1>10

\* what is before a message stays before it while nobody plays, routes or leaves
LEMMA StillNewest ==
  ASSUME TypeOK, CallbackIsNewest, InjectedIsNewest,
         UNCHANGED <<played, callback, lock, todo, pc>>,
         \A e \in Outputs, t \in Sources, x \in 0..MaxMsgs : Before(e, t, x) => Before(e, t, x)'
  PROVE  CallbackIsNewest' /\ InjectedIsNewest'
<1>0. Client \in Sources /\ Inputs \subseteq Sources
  BY DEF Sources
<1>1. CallbackIsNewest'
  <2> SUFFICES ASSUME NEW j \in Inputs, callback[j] > 0,
                      NEW e \in Outputs, lock = j => e \in todo
               PROVE  Before(e, j, callback[j])'
    BY DEF CallbackIsNewest
  <2>1. PICK x \in 0..MaxMsgs : x = callback[j]
    BY DEF TypeOK
  <2>2. Before(e, j, x)
    BY <2>1 DEF CallbackIsNewest
  <2>3. Before(e, j, x)'
    BY <1>0, <2>2
  <2> QED
    BY <2>1, <2>3 DEF Before
<1>2. InjectedIsNewest'
  <2> SUFFICES ASSUME pc = "injecting", NEW e \in todo PROVE Before(e, Client, played[Client])'
    BY DEF InjectedIsNewest
  <2>1. PICK x \in 0..MaxMsgs : x = played[Client]
    BY <1>0 DEF TypeOK
  <2>2. Before(e, Client, x)
    BY <2>1 DEF InjectedIsNewest
  <2>3. Before(e, Client, x)'
    BY <1>0, <2>2 DEF TypeOK
  <2> QED
    BY <2>1, <2>3 DEF Before
<1> QED
  BY <1>1, <1>2

\* what a source plays next is behind all it played, and disturbs nothing
LEMMA NextIsNewest ==
  ASSUME TypeOK, InOrder, SentWasPlayed, NEW s \in Sources
  PROVE  \A d \in Outputs : Before(d, s, played[s] + 1)
<1> SUFFICES ASSUME NEW d \in Outputs PROVE Before(d, s, played[s] + 1)
  OBVIOUS
<1>1. played[s] \in Nat /\ sent[d][s] \in Nat
  BY DEF TypeOK
<1>2. sent[d][s] < played[s] + 1
  BY <1>1 DEF SentWasPlayed
<1>3. ASSUME NEW k \in DOMAIN Pending, Pending[k].from = s
      PROVE  Pending[k].n < played[s] + 1
  <2>1. Pending[k].n <= played[s] /\ Pending[k].n \in Nat
    BY <1>3, PendingTyped DEF InOrder
  <2> QED
    BY <1>1, <2>1
<1> QED
  BY <1>2, <1>3 DEF Before

LEMMA PlayOrdered ==
  ASSUME TypeOK, TypeOK', InOrder, SentWasPlayed, UNCHANGED <<Pending, sent>>,
         \A s \in Sources : played[s] <= played'[s]
  PROVE  InOrder' /\ SentWasPlayed'
<1>1. \A s \in Sources : played[s] \in Nat /\ played'[s] \in Nat
  BY DEF TypeOK
<1>2. ASSUME NEW k \in DOMAIN Pending, Pending[k].from \in Sources
      PROVE  Pending[k].n <= played'[Pending[k].from]
  <2>1. Pending[k].n \in Nat /\ Pending[k].n <= played[Pending[k].from]
    BY <1>2, PendingTyped DEF InOrder
  <2> QED
    BY <1>1, <1>2, <2>1
<1>3. InOrder'
  BY <1>2 DEF InOrder
<1>4. ASSUME NEW d \in Outputs, NEW s \in Sources PROVE sent[d][s] <= played'[s]
  <2>1. sent[d][s] \in Nat /\ sent[d][s] <= played[s]
    BY DEF TypeOK, SentWasPlayed
  <2> QED
    BY <1>1, <2>1
<1> QED
  BY <1>3, <1>4 DEF SentWasPlayed

\* every step keeps the order: one case per step that is not Aside
LEMMA OrderStep ==
  ASSUME TypeOK, TypeOK', Control, OrderInv, [Next]_vars
  PROVE  OrderInv'
<1> USE DEF OrderInv
<1>0. /\ Client \in Sources /\ Inputs \subseteq Sources /\ Client \notin Inputs
      /\ MessageThread \notin Inputs /\ Nobody \notin Inputs
  BY EngineAssumption DEF Sources, Ports
<1>a. /\ \A i \in Inputs : callback[i] \in 0..MaxMsgs
      /\ \A s \in Sources : played[s] \in 0..MaxMsgs
      /\ MaxMsgs \in Nat
  BY <1>0, EngineAssumption DEF TypeOK
<1>1. CASE Aside
  BY <1>1 DEF Aside, InOrder, SentWasPlayed, CallbackIsNewest, InjectedIsNewest, Before
<1>2. ASSUME NEW i \in Inputs, Play(i) PROVE OrderInv'
  <2>1. /\ played' = [played EXCEPT ![i] = @ + 1]
        /\ callback' = [callback EXCEPT ![i] = played[i] + 1]
        /\ UNCHANGED <<Pending, sent, lock, todo, pc>>
    BY <1>2 DEF Play, fields, senderVars, mtVars, Pending
  <2>2. /\ \A s \in Sources : played'[s] = IF s = i THEN played[i] + 1 ELSE played[s]
        /\ \A j \in Inputs : callback'[j] = IF j = i THEN played[i] + 1 ELSE callback[j]
    BY <1>0, <2>1 DEF TypeOK
  <2>3. \A s \in Sources : played[s] <= played'[s]
    BY <1>a, <2>2
  <2>4. \A d \in Outputs : Before(d, i, played[i] + 1)
    BY <1>0, NextIsNewest
  <2>5. InOrder' /\ SentWasPlayed'
    BY <2>1, <2>3, PlayOrdered
  <2>6. CallbackIsNewest'
    BY <1>0, <2>1, <2>2, <2>4 DEF CallbackIsNewest, Before
  <2>7. InjectedIsNewest'
    BY <1>0, <2>1, <2>2 DEF InjectedIsNewest, Before
  <2> QED
    BY <2>5, <2>6, <2>7
<1>3. ASSUME NEW i \in Inputs, CallbackEnter(i) PROVE OrderInv'
  <2>1. UNCHANGED <<Pending, sent, played, pc>> /\ lock = Nobody /\ pc # "injecting"
    BY <1>3, EngineAssumption DEF CallbackEnter, fields, senderVars, mtVars, Pending, Control,
          PhaseOK
  <2>2. \A j \in Inputs : callback'[j] = callback[j] \/ callback'[j] = 0
    BY <1>3 DEF CallbackEnter, TypeOK
  <2>3. CallbackIsNewest'
    BY <1>0, <2>1, <2>2 DEF CallbackIsNewest, Before
  <2> QED
    BY <2>1, <2>3 DEF InOrder, SentWasPlayed, InjectedIsNewest
<1>4. ASSUME NEW i \in Inputs, CallbackPush(i) PROVE OrderInv'
  <2>1. PICK d \in todo : Push(d, i, callback[i]) /\ todo' = todo \ {d}
    BY <1>4 DEF CallbackPush
  <2>2. /\ UNCHANGED <<batch, sent, played, callback, lock, pc>> /\ lock = i
        /\ pc # "injecting" /\ callback[i] > 0
    BY <1>0, <1>4 DEF CallbackPush, device, fields, senderVars, mtVars, Control, PhaseOK, CallbackOK
  <2>3. d \in Outputs /\ callback[i] <= played[i] /\ Before(d, i, callback[i])
    BY <1>0, <1>a, <2>2 DEF TypeOK, CallbackIsNewest
  <2>4. /\ InOrder' /\ SentWasPlayed'
        /\ \A e \in Outputs, t \in Sources, x \in 0..MaxMsgs :
             Before(e, t, x) /\ (e # d \/ t # i) => Before(e, t, x)'
    BY <1>0, <1>a, <2>1, <2>2, <2>3, PushOrdered
  <2>5. CallbackIsNewest'
    <3> SUFFICES ASSUME NEW j \in Inputs, callback[j] > 0,
                        NEW e \in Outputs, lock = j => e \in todo'
                 PROVE  Before(e, j, callback[j])'
      BY <2>2 DEF CallbackIsNewest
    <3>1. Before(e, j, callback[j]) /\ (e # d \/ j # i)
      BY <2>1, <2>2 DEF CallbackIsNewest
    <3>2. PICK x \in 0..MaxMsgs : x = callback[j]
      BY <1>a
    <3>3. Before(e, j, x)'
      BY <1>0, <2>4, <3>1, <3>2
    <3> QED
      BY <2>2, <3>2, <3>3 DEF Before
  <2> QED
    BY <2>2, <2>4, <2>5 DEF InjectedIsNewest
<1>5. ASSUME NEW i \in Inputs, CallbackLeave(i) PROVE OrderInv'
  <2>1. /\ UNCHANGED <<Pending, sent, played, pc, todo>> /\ lock = i /\ lock' = Nobody
        /\ callback' = [callback EXCEPT ![i] = 0]
    BY <1>5 DEF CallbackLeave, fields, senderVars, mtVars, Pending
  <2>2. \A j \in Inputs : callback'[j] = IF j = i THEN 0 ELSE callback[j]
    BY <2>1 DEF TypeOK
  <2>3. CallbackIsNewest'
    BY <1>0, <2>1, <2>2 DEF CallbackIsNewest, Before
  <2> QED
    BY <2>1, <2>3 DEF InOrder, SentWasPlayed, InjectedIsNewest, Before
<1>6. CASE SenderSend
  <2>1. UNCHANGED <<played, callback, lock, todo, pc>>
    BY <1>6 DEF SenderSend, device, mtVars
  <2>2. /\ InOrder' /\ SentWasPlayed'
        /\ \A e \in Outputs, t \in Sources, x \in 0..MaxMsgs :
             Before(e, t, x) => Before(e, t, x)'
    BY <1>6, SendOrdered
  <2> QED
    BY <2>1, <2>2, StillNewest
<1>7. CASE PanicPush
  <2>1. PICK d \in panicTodo : Push(d, AllNotesOff, 0)
    BY <1>7 DEF PanicPush
  <2>2. UNCHANGED <<batch, sent, played, callback, lock, todo, pc>>
    BY <1>7 DEF PanicPush, device, fields, senderVars
  <2>3. d \in Outputs /\ 0 \in 0..MaxMsgs /\ AllNotesOff \notin Sources
    BY <1>a, EngineAssumption DEF TypeOK, Sources, Ports
  <2>4. /\ InOrder' /\ SentWasPlayed'
        /\ \A e \in Outputs, t \in Sources, x \in 0..MaxMsgs :
             Before(e, t, x) /\ (e # d \/ t # AllNotesOff) => Before(e, t, x)'
    BY <2>1, <2>2, <2>3, PushOrdered
  <2>5. \A e \in Outputs, t \in Sources, x \in 0..MaxMsgs : Before(e, t, x) => Before(e, t, x)'
    BY <2>3, <2>4
  <2> QED
    BY <2>2, <2>4, <2>5, StillNewest
<1>8. CASE InjectEnter
  <2>1. /\ UNCHANGED <<Pending, sent, callback>> /\ lock = Nobody /\ lock' = MessageThread
        /\ played' = [played EXCEPT ![Client] = @ + 1]
        /\ todo' \subseteq Outputs
    BY <1>8 DEF InjectEnter, fields, senderVars, Pending, OutputsOf
  <2>2. \A s \in Sources : played'[s] = IF s = Client THEN played[Client] + 1 ELSE played[s]
    BY <1>0, <2>1 DEF TypeOK
  <2>3. \A s \in Sources : played[s] <= played'[s]
    BY <1>a, <2>2
  <2>4. \A d \in Outputs : Before(d, Client, played[Client] + 1)
    BY <1>0, NextIsNewest
  <2>5. InOrder' /\ SentWasPlayed'
    BY <2>1, <2>3, PlayOrdered
  <2>6. CallbackIsNewest'
    BY <1>0, <2>1, <2>2 DEF CallbackIsNewest, Before
  <2>7. InjectedIsNewest'
    BY <1>0, <2>1, <2>2, <2>4 DEF InjectedIsNewest, Before
  <2> QED
    BY <2>5, <2>6, <2>7
<1>9. CASE InjectPush
  <2>1. PICK d \in todo : Push(d, Client, played[Client]) /\ todo' = todo \ {d}
    BY <1>9 DEF InjectPush
  <2>2. /\ UNCHANGED <<batch, sent, played, callback, lock, pc>> /\ lock = MessageThread
        /\ pc = "injecting"
    BY <1>9 DEF InjectPush, device, fields, senderVars, mtVars, Control, PhaseOK
  <2>3. d \in Outputs /\ played[Client] \in 0..MaxMsgs /\ Before(d, Client, played[Client])
    BY <1>0, <1>a, <2>2 DEF TypeOK, InjectedIsNewest
  <2>4. /\ InOrder' /\ SentWasPlayed'
        /\ \A e \in Outputs, t \in Sources, x \in 0..MaxMsgs :
             Before(e, t, x) /\ (e # d \/ t # Client) => Before(e, t, x)'
    BY <1>0, <1>a, <2>1, <2>2, <2>3, PushOrdered
  <2>5. InjectedIsNewest'
    <3> SUFFICES ASSUME NEW e \in todo' PROVE Before(e, Client, played[Client])'
      BY <2>2 DEF InjectedIsNewest
    <3>1. Before(e, Client, played[Client]) /\ e # d /\ e \in Outputs
      BY <2>1, <2>2 DEF InjectedIsNewest, TypeOK
    <3>2. PICK x \in 0..MaxMsgs : x = played[Client]
      BY <2>3
    <3>3. Before(e, Client, x)'
      BY <1>0, <2>4, <3>1, <3>2
    <3> QED
      BY <2>2, <3>2, <3>3 DEF Before
  <2>6. CallbackIsNewest'
    <3> SUFFICES ASSUME NEW j \in Inputs, callback[j] > 0, NEW e \in Outputs
                 PROVE  Before(e, j, callback[j])'
      BY <1>0, <2>2 DEF CallbackIsNewest
    <3>1. Before(e, j, callback[j]) /\ j # Client
      BY <1>0, <2>2 DEF CallbackIsNewest
    <3>2. PICK x \in 0..MaxMsgs : x = callback[j]
      BY <1>a
    <3>3. Before(e, j, x)'
      BY <1>0, <2>4, <3>1, <3>2
    <3> QED
      BY <2>2, <3>2, <3>3 DEF Before
  <2> QED
    BY <2>4, <2>5, <2>6
<1>10. CASE InjectLeave
  <2>1. UNCHANGED <<Pending, sent, played, callback>> /\ lock' = Nobody /\ lock = MessageThread
        /\ pc' # "injecting"
    BY <1>10 DEF InjectLeave, device, fields, senderVars, Pending, GoTo, Control, PhaseOK
  <2>2. CallbackIsNewest'
    BY <1>0, <2>1 DEF CallbackIsNewest, Before
  <2> QED
    BY <2>1, <2>2 DEF InOrder, SentWasPlayed, InjectedIsNewest
<1> QED
  BY <1>1, <1>2, <1>3, <1>4, <1>5, <1>6, <1>7, <1>8, <1>9, <1>10, StepKinds
     DEF Busy, Callback, Inject, Control

LEMMA OrderInvariance == Spec => []OrderInv
<1>1. Init => OrderInv
  <2> SUFFICES ASSUME Init PROVE OrderInv
    OBVIOUS
  <2>1. Pending = <<>> /\ DOMAIN Pending = {}
    BY DEF Init, Pending
  <2> QED
    BY <2>1 DEF Init, OrderInv, InOrder, SentWasPlayed, CallbackIsNewest, InjectedIsNewest
<1>2. TypeOK /\ TypeOK' /\ Control /\ OrderInv /\ [Next]_vars => OrderInv'
  BY OrderStep
<1>3. IInv => TypeOK /\ Control
  BY DEF IInv
<1> QED
  BY <1>1, <1>2, <1>3, Invariance, PTL DEF Spec

\* MessagesStayInOrder: whatever the batches, the restarts of the sender and
\* the reconnections, each output gets what each source played in the order
\* in which it was played, and no message twice.
THEOREM MessagesStayInOrder == Spec => []InOrder
<1>1. OrderInv => InOrder
  BY DEF OrderInv
<1> QED
  BY <1>1, OrderInvariance, PTL

-----------------------------------------------------------------------------
(* Ports.                                                                  *)

\* what the timer enumerated covers every link while it works
LinkedSeen ==
  \/ pc \in {"walk", "inClose", "inOpen", "inAdopt"}
  \/ pc \in {"panic", "panicking"} /\ cur \in Inputs
  \/ cur \in Outputs
  => linked \subseteq seen

\* the timer opens a device it saw and drops an output it did not see
Timing ==
  /\ pc \in {"inOpen", "outOpen"} => cur \in seen
  /\ pc \in {"outOpen", "outAdopt"} => cur \notin out
  /\ pc \in {"stop", "join", "close"} /\ cur \in Outputs => cur \notin linked

\* an open output and the messages for it belong to a destination, a
\* destination and an input to a route, except while they come or go
PortsOut ==
  /\ \A m \in Queued : m.to \in out \/ (m.to = cur /\ pc \in {"stop", "join"})
  /\ \A d \in Outputs \cap open : d \in out \/ (d = cur /\ pc \in {"outAdopt", "stop", "join", "close"})
  /\ \A p \in conn \cup out :
       \/ RouteOf[p] \in live
       \/ RouteOf[p] = cur /\ pc \in {"splice", "stopPanic", "stop", "join", "close"}

PortsInv == LinkedSeen /\ Timing /\ PortsOut

\* the two of the timer, and then the destinations, are kept by every step
LEMMA LinksStep ==
  ASSUME TypeOK, Control, LinkedSeen, Timing, [Next]_vars
  PROVE  LinkedSeen' /\ Timing'
<1> USE EngineAssumption DEF Control, TypeOK, PhaseOK, LinkedSeen, Timing, Ports, vars, device,
      fields, senderVars, mtVars, GoTo
<1>1. CASE Environment
  BY <1>1 DEF Environment, Plug, Unplug, Play
<1>2. ASSUME NEW i \in Inputs, Callback(i) PROVE LinkedSeen' /\ Timing'
  BY <1>2 DEF Callback, CallbackEnter, CallbackPush, CallbackLeave
<1>3. CASE Sender
  BY <1>3 DEF Sender, SenderTake, SenderSend, SenderExit
<1>4. CASE Timer
  <2>1. CASE TimerBegin \/ TimerEnd
    BY <2>1 DEF TimerBegin, TimerEnd
  <2>2. ASSUME NEW i \in Inputs, CheckInput(i) PROVE LinkedSeen' /\ Timing'
    BY <2>2 DEF CheckInput
  <2>3. ASSUME NEW d \in Outputs, CheckOutput(d) PROVE LinkedSeen' /\ Timing'
    BY <2>3 DEF CheckOutput
  <2>4. CASE CloseInput
    BY <2>4 DEF CloseInput, ClosePorts
  <2>5. CASE OpenInput \/ AdoptInput
    BY <2>5 DEF OpenInput, AdoptInput, OpenPorts
  <2>6. CASE OpenOutput \/ AdoptOutput
    BY <2>6 DEF OpenOutput, AdoptOutput, OpenPorts
  <2> QED
    BY <1>4, <2>1, <2>2, <2>3, <2>4, <2>5, <2>6 DEF Timer
<1>5. CASE Panic
  BY <1>5 DEF Panic, PanicBegin, PanicPush, PanicEnd, StopPanicEnd
<1>6. CASE Drain
  BY <1>6 DEF Drain, StopSender, JoinSender, CloseDrained, StartSender, ClosePorts
<1>7. CASE Shutdown
  BY <1>7 DEF Shutdown, ShutdownBegin, ShutdownCloseInputs
<1>8. CASE Tools
  BY <1>8 DEF Tools, StageRoute, StopRoute, PanicRoute, InjectMidi
<1>9. CASE Staged
  BY <1>9 DEF Staged, SpliceRoute, DiscardRoute
<1>10. CASE Inject
  BY <1>10 DEF Inject, InjectEnter, InjectPush, InjectLeave
<1>11. CASE RequestQuit \/ Terminated \/ UNCHANGED vars
  BY <1>11 DEF RequestQuit, Terminated
<1> QED
  BY <1>1, <1>2, <1>3, <1>4, <1>5, <1>6, <1>7, <1>8, <1>9, <1>10, <1>11 DEF Next

LEMMA PortsOutStep ==
  ASSUME IInv, PortsOut, [Next]_vars
  PROVE  PortsOut'
<1> USE EngineAssumption DEF IInv, Control, TypeOK, PhaseOK, WalkLive, FieldsOpen, CallbackOK,
      SenderOK, PortsOut, Ports, vars, device, fields, senderVars, mtVars, GoTo
<1>1. CASE Environment
  <2>1. Queued' = Queued
    BY <1>1, QueuedKept DEF Environment, Plug, Unplug, Play
  <2> QED
    BY <1>1, <2>1 DEF Environment, Plug, Unplug, Play
<1>2. ASSUME NEW i \in Inputs, CallbackEnter(i) \/ CallbackLeave(i) PROVE PortsOut'
  BY <1>2, QueuedKept DEF CallbackEnter, CallbackLeave
<1>3. ASSUME NEW i \in Inputs, CallbackPush(i) PROVE PortsOut'
  <2>1. PICK d \in todo : Push(d, i, callback[i])
    BY <1>3 DEF CallbackPush
  <2>2. \A m \in Queued' : m \in Queued \/ (m.to = d /\ d \in out)
    BY <1>3, <2>1, QueuedPush DEF CallbackPush
  <2> QED
    BY <1>3, <2>2 DEF CallbackPush
<1>4. CASE Sender
  <2>1. Queued' \subseteq Queued
    BY <1>4, QueuedTake, QueuedSend, QueuedKept DEF Sender, SenderExit
  <2> QED
    BY <1>4, <2>1 DEF Sender, SenderTake, SenderSend, SenderExit
<1>5. CASE Timer
  <2>1. Queued' = Queued
    BY <1>5, QueuedKept DEF Timer, TimerBegin, TimerEnd, CheckInput, CheckOutput, CloseInput,
          OpenInput,
          AdoptInput, OpenOutput, AdoptOutput
  <2>2. CASE TimerBegin \/ TimerEnd
    BY <2>1, <2>2 DEF TimerBegin, TimerEnd
  <2>3. ASSUME NEW i \in Inputs, CheckInput(i) PROVE PortsOut'
    BY <2>1, <2>3 DEF CheckInput
  <2>4. ASSUME NEW d \in Outputs, CheckOutput(d) PROVE PortsOut'
    BY <2>1, <2>4 DEF CheckOutput
  <2>5. CASE CloseInput
    BY <2>1, <2>5 DEF CloseInput, ClosePorts
  <2>6. CASE OpenInput \/ AdoptInput
    BY <2>1, <2>6 DEF OpenInput, AdoptInput, OpenPorts
  <2>7. CASE OpenOutput \/ AdoptOutput
    BY <2>1, <2>7 DEF OpenOutput, AdoptOutput, OpenPorts
  <2> QED
    BY <1>5, <2>2, <2>3, <2>4, <2>5, <2>6, <2>7 DEF Timer
<1>6. CASE PanicPush
  <2>1. PICK d \in panicTodo : Push(d, AllNotesOff, 0)
    BY <1>6 DEF PanicPush
  <2>2. \A m \in Queued' : m \in Queued \/ (m.to = d /\ d \in out)
    BY <1>6, <2>1, QueuedPush DEF PanicPush
  <2> QED
    BY <1>6, <2>2 DEF PanicPush
<1>7. CASE PanicBegin \/ PanicEnd \/ StopPanicEnd
  <2>1. Queued' = Queued
    BY <1>7, QueuedKept DEF PanicBegin, PanicEnd, StopPanicEnd
  <2> QED
    BY <1>7, <2>1 DEF PanicBegin, PanicEnd, StopPanicEnd
<1>8. CASE Drain
  <2>1. Queued' = Queued
    BY <1>8, QueuedKept DEF Drain, StopSender, JoinSender, CloseDrained, StartSender
  <2>2. CASE StopSender \/ StartSender
    BY <2>1, <2>2 DEF StopSender, StartSender
  <2>3. CASE JoinSender
    BY <2>1, <2>3 DEF JoinSender, QueuedOK
  <2>4. CASE CloseDrained
    <3>1. \A m \in Queued : m.to \in out /\ m.to \notin ClosingPorts
      BY <2>4, QueuedOutputs DEF CloseDrained, QueuedOK, NothingLeft, ClosingPorts, InputsOf,
            OutputsOf
    <3>2. \A m \in Queued' : m.to \in out'
      BY <2>1, <2>4, <3>1 DEF CloseDrained
    <3> QED
      BY <2>4, <3>2 DEF CloseDrained, ClosePorts, ClosingPorts, InputsOf, OutputsOf
  <2> QED
    BY <1>8, <2>2, <2>3, <2>4 DEF Drain
<1>9. CASE Shutdown
  BY <1>9, QueuedKept DEF Shutdown, ShutdownBegin, ShutdownCloseInputs, ClosePorts
<1>10. CASE Tools
  BY <1>10, QueuedKept DEF Tools, StageRoute, StopRoute, PanicRoute, InjectMidi, OpenPorts
<1>11. CASE SpliceRoute
  BY <1>11, QueuedKept DEF SpliceRoute
<1>12. CASE DiscardRoute
  <2>1. Queued' = Queued /\ \A m \in Queued : m.to \notin InputsOf(cur) \cup OutputsOf(cur)
    BY <1>12, QueuedKept, QueuedOutputs DEF DiscardRoute, QueuedOK, InputsOf, OutputsOf
  <2> QED
    BY <1>12, <2>1 DEF DiscardRoute, ClosePorts, InputsOf, OutputsOf
<1>13. CASE InjectPush
  <2>1. PICK d \in todo : Push(d, Client, played[Client])
    BY <1>13 DEF InjectPush
  <2>2. \A m \in Queued' : m \in Queued \/ (m.to = d /\ d \in out)
    BY <1>13, <2>1, QueuedPush DEF InjectPush
  <2> QED
    BY <1>13, <2>2 DEF InjectPush
<1>14. CASE InjectEnter \/ InjectLeave
  BY <1>14, QueuedKept DEF InjectEnter, InjectLeave
<1>15. CASE RequestQuit \/ Terminated \/ UNCHANGED vars
  BY <1>15, QueuedKept DEF RequestQuit, Terminated
<1> QED
  BY <1>1, <1>2, <1>3, <1>4, <1>5, <1>6, <1>7, <1>8, <1>9, <1>10, <1>11, <1>12, <1>13, <1>14, <1>15
     DEF Next, Callback, Panic, Staged, Inject

LEMMA PortsInvariance == Spec => []PortsInv
<1>1. Init => PortsInv
  BY DEF Init, PortsInv, LinkedSeen, Timing, PortsOut, Queued
<1>2. IInv /\ PortsInv /\ [Next]_vars => PortsInv'
  BY LinksStep, PortsOutStep DEF IInv, PortsInv
<1> QED
  BY <1>1, <1>2, Invariance, PTL DEF Spec

-----------------------------------------------------------------------------
(* Silence.                                                                *)

\* the k-th message on its way decides whether s sounds on d, and starts it
Matters(k, d, s) == Pending[k].to = d /\ Pending[k].from \in {s, AllNotesOff}
Starts(k, d, s) == Pending[k].to = d /\ Pending[k].from = s /\ Pending[k].n % 2 = 1

\* what sounds or starts on d is ended by something behind it
Silent(d, s) ==
  /\ \A k \in DOMAIN Pending :
       Starts(k, d, s) => \E l \in DOMAIN Pending : l > k /\ Matters(l, d, s)
  /\ s \in sounding[d] => \E k \in DOMAIN Pending : Matters(k, d, s)

\* Silent says what the property means
LEMMA SilentWontSound ==
  ASSUME TypeOK, NEW d \in Outputs, NEW s \in Sources
  PROVE  Silent(d, s) <=> ~WillSound(d, s)
<1> DEFINE M == {k \in DOMAIN Pending : /\ Pending[k].to = d
                                        /\ Pending[k].from \in {s, AllNotesOff}}
<1>1. M \subseteq Nat /\ M \subseteq DOMAIN Pending /\ \A k \in DOMAIN Pending : k \in M <=> Matters(k, d, s)
  BY PendingTyped DEF Matters
<1>2. CASE M = {}
  <2>1. WillSound(d, s) <=> s \in sounding[d]
    BY <1>2 DEF WillSound
  <2>2. \A k \in DOMAIN Pending : ~Starts(k, d, s) /\ ~Matters(k, d, s)
    BY <1>1, <1>2 DEF Starts, Matters
  <2> QED
    BY <2>1, <2>2 DEF Silent
<1>3. CASE M # {}
  <2>1. WillSound(d, s) <=> \E k \in M : (\A l \in M : l <= k) /\ Starts(k, d, s)
    BY <1>3 DEF WillSound, Starts
  <2>2. \E k \in DOMAIN Pending : Matters(k, d, s)
    BY <1>1, <1>3
  <2>3. \A k \in DOMAIN Pending : Starts(k, d, s) => k \in M
    BY DEF Starts
  <2>4. ASSUME NEW k \in M PROVE (\E l \in M : l > k) <=> ~ \A l \in M : l <= k
    BY <1>1
  <2> HIDE DEF M
  <2>5. Silent(d, s) <=> \A k \in DOMAIN Pending : Starts(k, d, s) => \E l \in M : l > k
    BY <1>1, <2>2 DEF Silent
  <2>6. Silent(d, s) <=> \A k \in M : Starts(k, d, s) => ~ \A l \in M : l <= k
    BY <1>1, <2>3, <2>4, <2>5
  <2> QED
    BY <2>1, <2>6
<1> QED
  BY <1>2, <1>3

\* nothing on its way to a port that is quiet
LEMMA SilentPort ==
  ASSUME NEW d \in Outputs, sounding[d] = {}, \A k \in DOMAIN Pending : Pending[k].to # d
  PROVE  \A s \in Sources : Silent(d, s)
  BY DEF Silent, Starts, Matters

\* a message behind the others silences s, or does not start it
LEMMA SilentAppend ==
  ASSUME TypeOK, NEW m \in Item, Pending' = Append(Pending, m), sounding' = sounding,
         NEW d \in Outputs, NEW s \in Sources,
         \/ m.to = d /\ m.from = AllNotesOff
         \/ Silent(d, s) /\ (m.to # d \/ m.from # s)
  PROVE  Silent(d, s)'
<1>0. PICK last \in Nat : last = Len(Pending) + 1
  BY PendingTyped
<1>1. /\ DOMAIN Pending = 1..(last - 1) /\ DOMAIN Pending' = 1..last
      /\ \A k \in DOMAIN Pending : Pending'[k] = Pending[k]
      /\ Pending'[last] = m
  BY <1>0, AfterAppend, PendingTyped
<1>2. AllNotesOff # s
  BY EngineAssumption DEF Sources, Ports
<1>3. /\ \A k \in DOMAIN Pending : Starts(k, d, s)' <=> Starts(k, d, s)
      /\ \A k \in DOMAIN Pending : Matters(k, d, s)' <=> Matters(k, d, s)
  BY <1>1 DEF Starts, Matters
<1>4. ~Starts(last, d, s)'
  BY <1>1, <1>2 DEF Starts
<1>5. \A k \in DOMAIN Pending' : k \in DOMAIN Pending \/ k = last
  BY <1>1
<1>6. last \in DOMAIN Pending' /\ \A k \in DOMAIN Pending : k \in DOMAIN Pending' /\ last > k
  BY <1>1
<1>7. CASE m.to = d /\ m.from = AllNotesOff
  <2>1. Matters(last, d, s)'
    BY <1>1, <1>7 DEF Matters
  <2> QED
    BY <1>4, <1>5, <1>6, <2>1 DEF Silent
<1>8. CASE Silent(d, s)
  BY <1>3, <1>4, <1>5, <1>6, <1>8 DEF Silent
<1> QED
  BY <1>7, <1>8

\* a device that is gone, and a port that nothing refers to, plays nothing
Quiet ==
  pc # "done" => /\ \A d \in Outputs \ linked : sounding[d] = {}
                 /\ \A d \in Outputs \ out : sounding[d] = {}

\* Hear without CASE
LEMMA HearIs ==
  ASSUME NEW notes, NEW m, m.n \in Nat
  PROVE  Hear(notes, m) = IF m.from = AllNotesOff THEN {}
                          ELSE IF m.n % 2 = 1 THEN notes \cup {m.from} ELSE notes \ {m.from}
<1>1. m.n % 2 = 0 \/ m.n % 2 = 1
  OBVIOUS
<1>2. CASE m.from = AllNotesOff
  BY <1>2 DEF Hear
<1>3. CASE m.from # AllNotesOff /\ m.n % 2 = 1
  BY <1>3 DEF Hear
<1>4. CASE m.from # AllNotesOff /\ m.n % 2 = 0
  BY <1>4 DEF Hear
<1> QED
  BY <1>1, <1>2, <1>3, <1>4

\* a message that arrives leaves what follows it
LEMMA SilentSend ==
  ASSUME TypeOK, Quiet, pc # "done", SenderSend,
         NEW d \in Outputs, NEW s \in Sources, Silent(d, s)
  PROVE  Silent(d, s)'
<1> DEFINE m == Head(batch)
<1>1. Pending # <<>> /\ Head(Pending) = m /\ Pending' = Tail(Pending)
  BY SendDrops
<1>2. PICK n \in Nat : DOMAIN Pending = 1..(n + 1) /\ DOMAIN Pending' = 1..n
  <2>1. Len(Pending) > 0 /\ Len(Pending) \in Nat /\ DOMAIN Pending' = 1..(Len(Pending) - 1)
    BY <1>1, AfterTail, PendingTyped
  <2>2. Len(Pending) - 1 \in Nat /\ (Len(Pending) - 1) + 1 = Len(Pending)
    BY <2>1
  <2> QED
    BY <2>1, <2>2, PendingTyped
<1>3. Pending[1] = m /\ \A k \in 1..n : Pending'[k] = Pending[k + 1]
  <2>1. n = Len(Pending) - 1
    BY <1>2, PendingTyped
  <2> QED
    BY <1>1, <2>1, AfterTail
<1>4. m.to \in Outputs /\ m.from \in Sources \cup {AllNotesOff} /\ m.n \in Nat
  BY <1>2, <1>3, PendingTyped
<1>5. AllNotesOff # s
  BY EngineAssumption DEF Sources, Ports
<1>6. /\ sounding \in [Outputs -> SUBSET Sources]
      /\ sounding' = IF m.to \in linked THEN [sounding EXCEPT ![m.to] = Hear(@, m)] ELSE sounding
  BY DEF SenderSend, TypeOK
<1> HIDE DEF m
<1>7. sounding'[d] = IF m.to = d /\ d \in linked THEN Hear(sounding[d], m) ELSE sounding[d]
  BY <1>4, <1>6
<1>8. /\ \A k \in 1..n : Starts(k, d, s)' <=> Starts(k + 1, d, s)
      /\ \A k \in 1..n : Matters(k, d, s)' <=> Matters(k + 1, d, s)
  BY <1>3 DEF Starts, Matters
<1>9. ASSUME NEW k \in 1..(n + 1), k > 1, Matters(k, d, s)
      PROVE  k - 1 \in 1..n /\ Matters(k - 1, d, s)'
  <2>1. k - 1 \in 1..n /\ (k - 1) + 1 = k
    BY <1>9
  <2> QED
    BY <1>8, <1>9, <2>1
<1>10. ASSUME NEW k \in 1..n, Starts(k, d, s)'
       PROVE  \E l \in 1..n : l > k /\ Matters(l, d, s)'
  <2>1. k + 1 \in 1..(n + 1) /\ Starts(k + 1, d, s)
    BY <1>8, <1>10
  <2>2. PICK l \in 1..(n + 1) : l > k + 1 /\ Matters(l, d, s)
    BY <1>2, <2>1 DEF Silent
  <2>3. l > 1 /\ l - 1 > k
    BY <2>2
  <2> QED
    BY <1>9, <2>2, <2>3
<1>11. ASSUME s \in sounding'[d]
       PROVE  \E k \in 1..n : Matters(k, d, s)'
  <2>1. \E k \in 1..(n + 1) : k > 1 /\ Matters(k, d, s)
    <3>1. CASE ~Matters(1, d, s)
      <4>1. m.to # d \/ m.from \notin {s, AllNotesOff}
        BY <1>3, <3>1 DEF Matters
      <4>2. s \in sounding[d]
        BY <1>4, <1>7, <1>11, <4>1, HearIs
      <4>3. PICK k \in 1..(n + 1) : Matters(k, d, s)
        BY <1>2, <4>2 DEF Silent
      <4> QED
        BY <3>1, <4>3
    <3>2. CASE Matters(1, d, s)
      <4>1. m.to = d /\ m.from \in {s, AllNotesOff}
        BY <1>3, <3>2 DEF Matters
      <4>2. d \in linked
        BY <1>7, <1>11 DEF Quiet
      <4>3. s \in Hear(sounding[d], m)
        BY <1>7, <1>11, <4>1, <4>2
      <4>4. m.from = s /\ m.n % 2 = 1
        BY <1>4, <4>1, <4>3, HearIs
      <4>5. Starts(1, d, s)
        BY <1>3, <4>1, <4>4 DEF Starts
      <4> QED
        BY <1>2, <4>5 DEF Silent
    <3> QED
      BY <3>1, <3>2
  <2> QED
    BY <1>9, <2>1
<1> QED
  BY <1>2, <1>10, <1>11 DEF Silent

\* whoever routes a message of s is about to put it on its way to d
Routing(d, s) ==
  d \in todo /\ \/ s \in Inputs /\ lock = s
                \/ s = Client /\ pc = "injecting"

\* only routing ends a silence
LEMMA StaysSilent ==
  ASSUME TypeOK, Control, Quiet, [Next]_vars,
         NEW d \in Outputs, NEW s \in Sources, Silent(d, s), ~Routing(d, s)
  PROVE  Silent(d, s)'
<1>0. /\ Client \in Sources /\ Inputs \subseteq Sources /\ Client \notin Inputs
      /\ Client # AllNotesOff
      /\ \A i \in Inputs : i # AllNotesOff /\ callback[i] \in 0..MaxMsgs
      /\ played[Client] \in 0..MaxMsgs /\ 0 \in 0..MaxMsgs
  BY EngineAssumption DEF Sources, Ports, TypeOK
<1>1. CASE Aside
  BY <1>1 DEF Aside, Silent, Starts, Matters
<1>2. ASSUME NEW e \in Outputs, NEW from \in Sources \cup {AllNotesOff}, NEW n \in 0..MaxMsgs,
             Push(e, from, n), batch' = batch, sounding' = sounding, e # d \/ from # s
      PROVE  Silent(d, s)'
  <2> DEFINE m == [to |-> e, from |-> from, n |-> n]
  <2>1. m \in Item /\ m.to = e /\ m.from = from
    BY DEF Item
  <2>2. Pending' = Pending \/ Pending' = Append(Pending, m)
    BY <1>2, PushAdds
  <2> HIDE DEF m
  <2>3. CASE Pending' = Pending
    BY <1>2, <2>3 DEF Silent, Starts, Matters
  <2>4. CASE Pending' = Append(Pending, m)
    BY <1>2, <2>1, <2>4, SilentAppend
  <2> QED
    BY <2>2, <2>3, <2>4
<1>3. ASSUME NEW i \in Inputs, Play(i) \/ CallbackEnter(i) \/ CallbackLeave(i)
      PROVE  Silent(d, s)'
  <2>1. UNCHANGED <<Pending, sounding>>
    BY <1>3 DEF Play, CallbackEnter, CallbackLeave, senderVars, Pending
  <2> QED
    BY <2>1 DEF Silent, Starts, Matters
<1>4. ASSUME NEW i \in Inputs, CallbackPush(i) PROVE Silent(d, s)'
  <2>1. PICK e \in todo : Push(e, i, callback[i])
    BY <1>4 DEF CallbackPush
  <2>2. /\ UNCHANGED <<batch, sounding>> /\ lock = i /\ e \in Outputs
    BY <1>4 DEF CallbackPush, senderVars, TypeOK
  <2>3. e # d \/ i # s
    BY <2>1, <2>2 DEF Routing
  <2> QED
    BY <1>0, <1>2, <2>1, <2>2, <2>3
<1>5. CASE SenderSend
  <2>1. pc # "done"
    BY <1>5 DEF SenderSend, Control, SenderOK
  <2> QED
    BY <1>5, <2>1, SilentSend
<1>6. CASE PanicPush
  <2>1. PICK e \in panicTodo : Push(e, AllNotesOff, 0)
    BY <1>6 DEF PanicPush
  <2>2. /\ UNCHANGED <<batch, sounding>> /\ e \in Outputs /\ AllNotesOff # s
    BY <1>0, <1>6 DEF PanicPush, senderVars, TypeOK, Sources
  <2> QED
    BY <1>0, <1>2, <2>1, <2>2
<1>7. CASE InjectEnter \/ InjectLeave
  <2>1. UNCHANGED <<Pending, sounding>>
    BY <1>7 DEF InjectEnter, InjectLeave, senderVars, Pending
  <2> QED
    BY <2>1 DEF Silent, Starts, Matters
<1>8. CASE InjectPush
  <2>1. PICK e \in todo : Push(e, Client, played[Client])
    BY <1>8 DEF InjectPush
  <2>2. /\ UNCHANGED <<batch, sounding>> /\ pc = "injecting" /\ e \in Outputs
    BY <1>8 DEF InjectPush, senderVars, TypeOK
  <2>3. e # d \/ Client # s
    BY <2>1, <2>2 DEF Routing
  <2> QED
    BY <1>0, <1>2, <2>1, <2>2, <2>3
<1> QED
  BY <1>1, <1>3, <1>4, <1>5, <1>6, <1>7, <1>8, StepKinds DEF Busy, Callback, Inject, Control

\* no source at all sounds on d
DeadSilent(d) == \A s \in Sources : Silent(d, s)

\* the panic that is under way, or over, leaves nothing behind
PanicSilences ==
  /\ \A i \in Inputs :
       pc = "panicking" /\ cur = i => \A d \in OutputsOf(RouteOf[i]) \ panicTodo : Silent(d, i)
  /\ pc = "panicking" /\ cur = Nobody
       => \A d \in Outputs \ panicTodo : RouteOf[d] \in PanicRoutes => DeadSilent(d)
  /\ Exiting => \A d \in Outputs : RouteOf[d] \in PanicRoutes => DeadSilent(d)

\* nothing sounds on a route that is not, or no longer, in routes_
StoppedSilent ==
  \A d \in Outputs :
    RouteOf[d] \in live \/ (RouteOf[d] = cur /\ pc = "stopPanic" /\ d \in panicTodo) \/ DeadSilent(d)

\* nothing of an input that was lost sounds once its panic is over
LostSilent ==
  \A i \in Inputs :
    i \notin conn /\ RouteOf[i] \in live \cap PanicRoutes /\ ~PanicDue(i)
    => \A d \in OutputsOf(RouteOf[i]) : Silent(d, i)

SilenceInv == Quiet /\ PanicSilences /\ StoppedSilent /\ LostSilent

\* what nobody can route to stays silent
LEMMA WhatStaysSilent ==
  ASSUME TypeOK, Control, Quiet, [Next]_vars, NEW d \in Outputs
  PROVE  /\ \A s \in Sources : pc = "panicking" /\ Silent(d, s) => Silent(d, s)'
         /\ RouteOf[d] \notin live \/ Exiting \/ pc = "panicking" => (DeadSilent(d) => DeadSilent(d)')
         /\ \A i \in Inputs : i \notin conn /\ Silent(d, i) => Silent(d, i)'
<1> USE EngineAssumption DEF Sources, Ports
<1>1. Routing(d, Client) => pc = "injecting" /\ RouteOf[d] \in live
  BY DEF Routing, Control, PhaseOK, WalkLive, OutputsOf
<1>2. \A i \in Inputs : Routing(d, i) => lock = i /\ i \in conn /\ RouteOf[d] \in live
  BY DEF Routing, Control, CallbackOK, OutputsOf
<1>3. \A s \in Sources : Routing(d, s) => RouteOf[d] \in live /\ ~Exiting /\ pc # "panicking"
  BY <1>1, <1>2 DEF Exiting, Control, PhaseOK, InputsGone
<1> QED
  BY <1>2, <1>3, StaysSilent DEF DeadSilent

\* sendPanic ends whatever is on its way to the output it serves
LEMMA PanicPushSilences ==
  ASSUME IInv, PortsOut, Quiet, PanicPush
  PROVE  \E e \in panicTodo : panicTodo' = panicTodo \ {e} /\ DeadSilent(e)'
<1>1. PICK e \in panicTodo : Push(e, AllNotesOff, 0) /\ panicTodo' = panicTodo \ {e}
  BY DEF PanicPush
<1>2. /\ TypeOK /\ e \in Outputs /\ 0 \in 0..MaxMsgs /\ pc \notin {"done", "stop", "join"}
      /\ UNCHANGED <<batch, sounding>>
  BY EngineAssumption DEF PanicPush, IInv, TypeOK, senderVars
<1>3. CASE e \in out
  <2> DEFINE m == [to |-> e, from |-> AllNotesOff, n |-> 0]
  <2>1. m \in Item /\ m.to = e /\ m.from = AllNotesOff
    BY <1>2 DEF Item
  <2>2. Pending' = Append(Pending, m)
    BY <1>1, <1>2, <1>3, PushAdds
  <2> HIDE DEF m
  <2> QED
    BY <1>1, <1>2, <2>1, <2>2, SilentAppend DEF DeadSilent
<1>4. CASE e \notin out
  <2>1. Pending' = Pending
    BY <1>1, <1>2, <1>4, PushAdds
  <2>2. \A k \in DOMAIN Pending : Pending[k].to # e
    BY <1>2, <1>4, PendingQueued DEF PortsOut, TypeOK
  <2>3. sounding[e] = {}
    BY <1>2, <1>4 DEF Quiet
  <2>4. DeadSilent(e)
    BY <1>2, <2>2, <2>3, SilentPort DEF DeadSilent
  <2> QED
    BY <1>1, <1>2, <2>1, <2>4 DEF DeadSilent, Silent, Starts, Matters
<1> QED
  BY <1>3, <1>4

\* once nothing is on its way to a port, silence is now
LEMMA SilentNow ==
  ASSUME TypeOK, NEW d \in Outputs, DeadSilent(d), \A m \in Queued : m.to # d
  PROVE  sounding[d] = {}
<1>1. \A k \in DOMAIN Pending : Pending[k].to # d
  BY PendingQueued DEF TypeOK
<1>2. \A s \in Sources : s \notin sounding[d]
  BY <1>1 DEF DeadSilent, Silent, Matters
<1> QED
  BY <1>2 DEF TypeOK

\* the parts of SilenceInv are kept by every step
LEMMA QuietStep ==
  ASSUME IInv, PortsInv, SilenceInv, [Next]_vars
  PROVE  Quiet'
<1> USE EngineAssumption DEF Quiet, Ports, vars, device, fields, senderVars, mtVars, GoTo
<1>0. TypeOK /\ PhaseOK
  BY DEF IInv, Control
<1>1. CASE Environment
  <2>1. ASSUME NEW p \in Ports, Unplug(p) PROVE Quiet'
    <3>1. /\ linked' = linked \ {p} /\ UNCHANGED <<out, pc>>
          /\ sounding' = IF p \in Outputs THEN [sounding EXCEPT ![p] = {}] ELSE sounding
      BY <2>1 DEF Unplug
    <3>2. \A d \in Outputs : sounding'[d] = IF d = p THEN {} ELSE sounding[d]
      BY <1>0, <3>1 DEF TypeOK
    <3> QED
      BY <3>1, <3>2 DEF SilenceInv
  <2>2. ASSUME NEW p \in Ports, Plug(p) PROVE Quiet'
    BY <2>2 DEF Plug, SilenceInv
  <2>3. ASSUME NEW i \in Inputs, Play(i) PROVE Quiet'
    BY <2>3 DEF Play, SilenceInv
  <2> QED
    BY <1>1, <2>1, <2>2, <2>3 DEF Environment
<1>2. ASSUME NEW i \in Inputs, Callback(i) PROVE Quiet'
  BY <1>2 DEF Callback, CallbackEnter, CallbackPush, CallbackLeave, SilenceInv
<1>3. CASE Sender
  <2>1. CASE SenderTake \/ SenderExit
    BY <2>1 DEF SenderTake, SenderExit, SilenceInv
  <2>2. CASE SenderSend
    <3> DEFINE m == Head(batch)
    <3>1. pc # "done"
      BY <2>2 DEF SenderSend, IInv, Control, SenderOK
    <3>2. m \in Item /\ m \in Queued
      BY <1>0, <2>2 DEF SenderSend, TypeOK, Queued
    <3>3. m.to \in Outputs /\ (m.to \in out \/ m.to \notin linked)
      BY <3>2 DEF Item, PortsInv, PortsOut, Timing
    <3>4. /\ sounding' = IF m.to \in linked THEN [sounding EXCEPT ![m.to] = Hear(@, m)] ELSE sounding
          /\ UNCHANGED <<linked, out, pc>>
      BY <2>2 DEF SenderSend
    <3> HIDE DEF m
    <3>5. \A d \in Outputs : sounding'[d] = sounding[d] \/ (d = m.to /\ d \in linked)
      BY <1>0, <3>3, <3>4 DEF TypeOK
    <3> QED
      BY <3>1, <3>3, <3>4, <3>5 DEF SilenceInv
  <2> QED
    BY <1>3, <2>1, <2>2 DEF Sender
<1>4. CASE Timer
  <2>1. CASE TimerBegin \/ TimerEnd
    BY <2>1 DEF TimerBegin, TimerEnd, SilenceInv, PhaseOK
  <2>2. ASSUME NEW i \in Inputs, CheckInput(i) PROVE Quiet'
    BY <2>2 DEF CheckInput, SilenceInv
  <2>3. ASSUME NEW d \in Outputs, CheckOutput(d) PROVE Quiet'
    BY <2>3 DEF CheckOutput, SilenceInv, PortsInv, LinkedSeen
  <2>4. CASE CloseInput
    BY <1>0, <2>4 DEF CloseInput, ClosePorts, SilenceInv, PhaseOK
  <2>5. CASE OpenInput \/ AdoptInput
    BY <2>5 DEF OpenInput, AdoptInput, OpenPorts, SilenceInv
  <2>6. CASE OpenOutput \/ AdoptOutput
    BY <2>6 DEF OpenOutput, AdoptOutput, OpenPorts, SilenceInv
  <2> QED
    BY <1>4, <2>1, <2>2, <2>3, <2>4, <2>5, <2>6 DEF Timer
<1>5. CASE Panic
  BY <1>5 DEF Panic, PanicBegin, PanicPush, PanicEnd, StopPanicEnd, SilenceInv
<1>6. CASE Drain
  <2>1. CASE StopSender \/ JoinSender \/ StartSender
    BY <2>1 DEF StopSender, JoinSender, StartSender, SilenceInv
  <2>2. CASE CloseDrained
    <3>1. CASE cur = Nobody
      BY <2>2, <3>1 DEF CloseDrained
    <3>2. CASE cur \in Outputs
      BY <2>2, <3>2 DEF CloseDrained, ClosingPorts, ClosePorts, SilenceInv, PortsInv, Timing
    <3>3. CASE cur \in Routes
      <4>1. \A m \in Queued : m.to \notin OutputsOf(cur)
        BY <2>2, <3>3 DEF CloseDrained, IInv, Control, PhaseOK, SenderOK, QueuedOK, OutputsOf
      <4>2. \A d \in OutputsOf(cur) : d \in Outputs /\ DeadSilent(d)
        BY <2>2, <3>3 DEF CloseDrained, IInv, Control, PhaseOK, SilenceInv, StoppedSilent, OutputsOf
      <4>3. \A d \in OutputsOf(cur) : sounding[d] = {}
        BY <1>0, <4>1, <4>2, SilentNow DEF OutputsOf
      <4> QED
        BY <2>2, <3>3, <4>3 DEF CloseDrained, ClosingPorts, ClosePorts, SilenceInv, InputsOf,
              OutputsOf
    <3> QED
      BY <1>0, <2>2, <3>1, <3>2, <3>3 DEF CloseDrained, PhaseOK, TypeOK
  <2> QED
    BY <1>6, <2>1, <2>2 DEF Drain
<1>7. CASE Shutdown
  BY <1>7 DEF Shutdown, ShutdownBegin, ShutdownCloseInputs, ClosePorts, SilenceInv
<1>8. CASE Tools
  BY <1>8 DEF Tools, StageRoute, StopRoute, PanicRoute, InjectMidi, OpenPorts, SilenceInv
<1>9. CASE Staged
  <2>1. CASE SpliceRoute
    BY <2>1 DEF SpliceRoute, SilenceInv
  <2>2. CASE DiscardRoute
    <3>1. \A m \in Queued : m.to \notin OutputsOf(cur)
      BY <1>0, <2>2 DEF DiscardRoute, IInv, PhaseOK, QueuedOK, OutputsOf
    <3>2. \A d \in OutputsOf(cur) : d \in Outputs /\ DeadSilent(d)
      BY <1>0, <2>2 DEF DiscardRoute, PhaseOK, SilenceInv, StoppedSilent, OutputsOf
    <3>3. \A d \in OutputsOf(cur) : sounding[d] = {}
      BY <1>0, <3>1, <3>2, SilentNow DEF OutputsOf
    <3> QED
      BY <2>2, <3>3 DEF DiscardRoute, ClosePorts, SilenceInv, InputsOf, OutputsOf
  <2> QED
    BY <1>9, <2>1, <2>2 DEF Staged
<1>10. CASE Inject
  BY <1>10 DEF Inject, InjectEnter, InjectPush, InjectLeave, SilenceInv
<1>11. CASE RequestQuit \/ Terminated \/ UNCHANGED vars
  BY <1>11 DEF RequestQuit, Terminated, SilenceInv
<1> QED
  BY <1>1, <1>2, <1>3, <1>4, <1>5, <1>6, <1>7, <1>8, <1>9, <1>10, <1>11 DEF Next

LEMMA StoppedStep ==
  ASSUME IInv, PortsInv, SilenceInv, [Next]_vars
  PROVE  StoppedSilent'
<1> USE EngineAssumption DEF StoppedSilent, Ports, PhaseOK, vars, device, fields, senderVars,
      mtVars, GoTo, InputsOf, OutputsOf
<1>0. /\ TypeOK /\ Control /\ PhaseOK /\ Quiet /\ StoppedSilent /\ PortsOut
      /\ \A d \in Outputs : RouteOf[d] \notin live => (DeadSilent(d) => DeadSilent(d)')
  BY WhatStaysSilent DEF IInv, Control, PortsInv, SilenceInv
<1>1. CASE Environment
  BY <1>0, <1>1 DEF Environment, Plug, Unplug, Play
<1>2. ASSUME NEW i \in Inputs, Callback(i) PROVE StoppedSilent'
  BY <1>0, <1>2 DEF Callback, CallbackEnter, CallbackPush, CallbackLeave
<1>3. CASE Sender
  BY <1>0, <1>3 DEF Sender, SenderTake, SenderSend, SenderExit
<1>4. CASE TimerBegin \/ TimerEnd
  BY <1>0, <1>4 DEF TimerBegin, TimerEnd
<1>5. ASSUME NEW i \in Inputs, CheckInput(i) PROVE StoppedSilent'
  BY <1>0, <1>5 DEF CheckInput
<1>6. ASSUME NEW d \in Outputs, CheckOutput(d) PROVE StoppedSilent'
  BY <1>0, <1>6 DEF CheckOutput
<1>7. CASE CloseInput
  BY <1>0, <1>7 DEF CloseInput
<1>8. CASE OpenInput \/ AdoptInput
  BY <1>0, <1>8 DEF OpenInput, AdoptInput
<1>9. CASE OpenOutput \/ AdoptOutput
  BY <1>0, <1>9 DEF OpenOutput, AdoptOutput
<1>10. CASE PanicBegin
  BY <1>0, <1>10 DEF PanicBegin, PanicOutputs
<1>11. CASE PanicPush
  BY <1>0, <1>11, PanicPushSilences DEF PanicPush
<1>12. CASE PanicEnd
  BY <1>0, <1>12 DEF PanicEnd
<1>13. CASE StopPanicEnd
  BY <1>0, <1>13 DEF StopPanicEnd
<1>14. CASE StopSender \/ JoinSender \/ StartSender
  BY <1>0, <1>14 DEF StopSender, JoinSender, StartSender
<1>15. CASE CloseDrained
  BY <1>0, <1>15 DEF CloseDrained, ClosingPorts
<1>16. CASE Shutdown
  BY <1>0, <1>16 DEF Shutdown, ShutdownBegin, ShutdownCloseInputs
<1>17. CASE Tools
  BY <1>0, <1>17 DEF Tools, StageRoute, StopRoute, PanicRoute, InjectMidi
<1>18. CASE Staged
  BY <1>0, <1>18 DEF Staged, SpliceRoute, DiscardRoute
<1>19. CASE Inject
  BY <1>0, <1>19 DEF Inject, InjectEnter, InjectPush, InjectLeave
<1>20. CASE RequestQuit \/ Terminated \/ UNCHANGED vars
  BY <1>0, <1>20 DEF RequestQuit, Terminated
<1> QED
  BY <1>1, <1>2, <1>3, <1>4, <1>5, <1>6, <1>7, <1>8, <1>9, <1>10, <1>11, <1>12, <1>13, <1>14, <1>15,
     <1>16, <1>17, <1>18, <1>19, <1>20 DEF Next, Timer, Panic, Drain

LEMMA PanicStep ==
  ASSUME IInv, PortsInv, SilenceInv, [Next]_vars
  PROVE  PanicSilences'
<1> USE EngineAssumption DEF PanicSilences, Exiting, Ports, PhaseOK, vars, device, fields,
      senderVars, mtVars, GoTo, InputsOf, OutputsOf
<1>0. /\ IInv /\ TypeOK /\ Control /\ PhaseOK /\ Quiet /\ StoppedSilent /\ PanicSilences /\ PortsOut
      /\ \A d \in Outputs, s \in Sources : pc = "panicking" /\ Silent(d, s) => Silent(d, s)'
      /\ \A d \in Outputs :
           RouteOf[d] \notin live \/ Exiting \/ pc = "panicking" => (DeadSilent(d) => DeadSilent(d)')
  BY WhatStaysSilent DEF IInv, Control, PortsInv, SilenceInv
<1>a. ASSUME UNCHANGED <<pc, cur, live, panicTodo>> PROVE PanicSilences'
  <2>1. ASSUME NEW i \in Inputs, pc = "panicking", cur = i, NEW d \in OutputsOf(RouteOf[i]) \ panicTodo
        PROVE  Silent(d, i)'
    BY <1>0, <2>1 DEF Sources
  <2>2. ASSUME pc = "panicking", cur = Nobody, NEW d \in Outputs \ panicTodo, RouteOf[d] \in PanicRoutes
        PROVE  DeadSilent(d)'
    BY <1>0, <2>2
  <2>3. ASSUME Exiting, NEW d \in Outputs, RouteOf[d] \in PanicRoutes PROVE DeadSilent(d)'
    BY <1>0, <2>3
  <2> QED
    BY <1>a, <2>1, <2>2, <2>3
<1>1. CASE Environment
  BY <1>a, <1>1 DEF Environment, Plug, Unplug, Play
<1>2. ASSUME NEW i \in Inputs, Callback(i) PROVE PanicSilences'
  BY <1>a, <1>2 DEF Callback, CallbackEnter, CallbackPush, CallbackLeave
<1>3. CASE Sender
  BY <1>a, <1>3 DEF Sender, SenderTake, SenderSend, SenderExit
<1>4. CASE TimerBegin \/ TimerEnd
  BY <1>0, <1>4 DEF TimerBegin, TimerEnd
<1>5. ASSUME NEW i \in Inputs, CheckInput(i) PROVE PanicSilences'
  BY <1>0, <1>5 DEF CheckInput
<1>6. ASSUME NEW d \in Outputs, CheckOutput(d) PROVE PanicSilences'
  BY <1>0, <1>6 DEF CheckOutput
<1>7. CASE CloseInput
  BY <1>0, <1>7 DEF CloseInput
<1>8. CASE OpenInput \/ AdoptInput
  BY <1>0, <1>8 DEF OpenInput, AdoptInput
<1>9. CASE OpenOutput \/ AdoptOutput
  BY <1>0, <1>9 DEF OpenOutput, AdoptOutput
<1>10. CASE PanicBegin
  <2>1. /\ pc' = "panicking" /\ cur' = cur /\ cur \notin Outputs /\ panicTodo' = PanicOutputs
        /\ pc = "panic" /\ live' = live
    BY <1>0, <1>10 DEF PanicBegin
  <2>2. ASSUME NEW i \in Inputs, cur = i PROVE OutputsOf(RouteOf[i]) \ panicTodo' = {}
    BY <2>1, <2>2 DEF PanicOutputs
  <2>3. ASSUME cur = Nobody, NEW d \in Outputs \ panicTodo', RouteOf[d] \in PanicRoutes
        PROVE  DeadSilent(d)'
    BY <1>0, <2>1, <2>3 DEF PanicOutputs, StoppedSilent
  <2> QED
    BY <2>1, <2>2, <2>3
<1>11. CASE PanicPush
  <2>1. PICK e \in panicTodo : panicTodo' = panicTodo \ {e} /\ DeadSilent(e)'
    BY <1>0, <1>11, PanicPushSilences
  <2>2. UNCHANGED <<pc, cur, live>> /\ ~Exiting
    BY <1>11 DEF PanicPush
  <2>3. ASSUME NEW i \in Inputs, pc = "panicking", cur = i, NEW d \in OutputsOf(RouteOf[i]) \ panicTodo'
        PROVE  Silent(d, i)'
    BY <1>0, <2>1, <2>3 DEF DeadSilent, Sources
  <2>4. ASSUME pc = "panicking", cur = Nobody, NEW d \in Outputs \ panicTodo', RouteOf[d] \in PanicRoutes
        PROVE  DeadSilent(d)'
    BY <1>0, <2>1, <2>4
  <2> QED
    BY <2>2, <2>3, <2>4
<1>12. CASE PanicEnd
  BY <1>0, <1>12 DEF PanicEnd
<1>13. CASE StopPanicEnd
  BY <1>0, <1>13 DEF StopPanicEnd
<1>14. CASE StopSender \/ JoinSender \/ StartSender
  BY <1>0, <1>14 DEF StopSender, JoinSender, StartSender
<1>15. CASE CloseDrained
  BY <1>0, <1>15 DEF CloseDrained, ClosingPorts
<1>16. CASE Shutdown
  BY <1>0, <1>16 DEF Shutdown, ShutdownBegin, ShutdownCloseInputs
<1>17. CASE Tools
  BY <1>0, <1>17 DEF Tools, StageRoute, StopRoute, PanicRoute, InjectMidi
<1>18. CASE Staged
  BY <1>0, <1>18 DEF Staged, SpliceRoute, DiscardRoute
<1>19. CASE Inject
  BY <1>0, <1>19 DEF Inject, InjectEnter, InjectPush, InjectLeave
<1>20. CASE RequestQuit \/ Terminated \/ UNCHANGED vars
  BY <1>a, <1>20 DEF RequestQuit, Terminated
<1> QED
  BY <1>1, <1>2, <1>3, <1>4, <1>5, <1>6, <1>7, <1>8, <1>9, <1>10, <1>11, <1>12, <1>13, <1>14, <1>15,
     <1>16, <1>17, <1>18, <1>19, <1>20 DEF Next, Timer, Panic, Drain

LEMMA LostStep ==
  ASSUME IInv, PortsInv, SilenceInv, [Next]_vars
  PROVE  LostSilent'
<1> USE EngineAssumption DEF LostSilent, PanicDue, Exiting, Ports, PhaseOK, vars, device, fields,
      senderVars, mtVars, GoTo, InputsOf, OutputsOf
<1>0. /\ TypeOK /\ Control /\ PhaseOK /\ InputsGone /\ StoppedSilent /\ PanicSilences /\ LostSilent
      /\ \A d \in Outputs, i \in Inputs : i \notin conn /\ Silent(d, i) => Silent(d, i)'
      /\ \A d \in Outputs : RouteOf[d] \notin live => (DeadSilent(d) => DeadSilent(d)')
  BY WhatStaysSilent DEF IInv, Control, PortsInv, SilenceInv
<1>1. CASE Environment
  BY <1>0, <1>1 DEF Environment, Plug, Unplug, Play
<1>2. ASSUME NEW i \in Inputs, Callback(i) PROVE LostSilent'
  BY <1>0, <1>2 DEF Callback, CallbackEnter, CallbackPush, CallbackLeave
<1>3. CASE Sender
  BY <1>0, <1>3 DEF Sender, SenderTake, SenderSend, SenderExit
<1>4. CASE TimerBegin \/ TimerEnd
  BY <1>0, <1>4 DEF TimerBegin, TimerEnd
<1>5. ASSUME NEW i \in Inputs, CheckInput(i) PROVE LostSilent'
  BY <1>0, <1>5 DEF CheckInput
<1>6. ASSUME NEW d \in Outputs, CheckOutput(d) PROVE LostSilent'
  BY <1>0, <1>6 DEF CheckOutput
<1>7. CASE CloseInput
  BY <1>0, <1>7 DEF CloseInput
<1>8. CASE OpenInput \/ AdoptInput
  BY <1>0, <1>8 DEF OpenInput, AdoptInput
<1>9. CASE OpenOutput \/ AdoptOutput
  BY <1>0, <1>9 DEF OpenOutput, AdoptOutput
<1>10. CASE PanicBegin
  BY <1>0, <1>10 DEF PanicBegin, PanicOutputs
<1>11. CASE PanicPush
  BY <1>0, <1>11, PanicPushSilences DEF PanicPush
<1>12. CASE PanicEnd
  <2>1. CASE cur \in Inputs
    BY <1>0, <1>12, <2>1 DEF PanicEnd, PanicSilences
  <2>2. CASE cur \in Routes
    BY <1>0, <1>12, <2>2 DEF PanicEnd
  <2>3. CASE cur = Nobody
    BY <1>0, <1>12, <2>3 DEF PanicEnd, PanicSilences, DeadSilent, Sources
  <2> QED
    BY <1>12, <2>1, <2>2, <2>3 DEF PanicEnd
<1>13. CASE StopPanicEnd
  BY <1>0, <1>13 DEF StopPanicEnd
<1>14. CASE StopSender \/ JoinSender \/ StartSender
  BY <1>0, <1>14 DEF StopSender, JoinSender, StartSender
<1>15. CASE CloseDrained
  <2>1. CASE cur \in Outputs
    BY <1>0, <1>15, <2>1 DEF CloseDrained, ClosingPorts
  <2>2. CASE cur \in Routes
    BY <1>0, <1>15, <2>2 DEF CloseDrained, ClosingPorts
  <2>3. CASE cur = Nobody
    BY <1>0, <1>15, <2>3 DEF CloseDrained, InputsGone
  <2> QED
    BY <1>0, <1>15, <2>1, <2>2, <2>3 DEF CloseDrained, TypeOK
<1>16. CASE Shutdown
  BY <1>0, <1>16 DEF Shutdown, ShutdownBegin, ShutdownCloseInputs
<1>17. CASE Tools
  BY <1>0, <1>17 DEF Tools, StageRoute, StopRoute, PanicRoute, InjectMidi
<1>18. CASE Staged
  <2>1. CASE SpliceRoute
    BY <1>0, <2>1 DEF SpliceRoute, StoppedSilent, DeadSilent, Sources
  <2>2. CASE DiscardRoute
    BY <1>0, <2>2 DEF DiscardRoute
  <2> QED
    BY <1>18, <2>1, <2>2 DEF Staged
<1>19. CASE Inject
  BY <1>0, <1>19 DEF Inject, InjectEnter, InjectPush, InjectLeave
<1>20. CASE RequestQuit \/ Terminated \/ UNCHANGED vars
  BY <1>0, <1>20 DEF RequestQuit, Terminated
<1> QED
  BY <1>1, <1>2, <1>3, <1>4, <1>5, <1>6, <1>7, <1>8, <1>9, <1>10, <1>11, <1>12, <1>13, <1>14, <1>15,
     <1>16, <1>17, <1>18, <1>19, <1>20 DEF Next, Timer, Panic, Drain

LEMMA SilenceInvariance == Spec => []SilenceInv
<1>1. Init => SilenceInv
  <2> SUFFICES ASSUME Init PROVE SilenceInv
    OBVIOUS
  <2>1. Pending = <<>> /\ DOMAIN Pending = {}
    BY DEF Init, Pending
  <2>2. \A d \in Outputs : sounding[d] = {} /\ DeadSilent(d)
    BY <2>1 DEF Init, DeadSilent, Silent
  <2>3. Quiet /\ StoppedSilent /\ PanicSilences
    BY <2>2 DEF Init, Quiet, StoppedSilent, PanicSilences, Exiting
  <2>4. LostSilent
    BY <2>2 DEF LostSilent, DeadSilent, OutputsOf, Sources
  <2> QED
    BY <2>3, <2>4 DEF SilenceInv
<1>2. IInv /\ PortsInv /\ SilenceInv /\ [Next]_vars => SilenceInv'
  BY QuietStep, PanicStep, StoppedStep, LostStep DEF SilenceInv
<1> QED
  BY <1>1, <1>2, Invariance, PortsInvariance, PTL DEF Spec

\* NoNoteHangs: once the panic of a lost input is queued, behind stop_route
\* and at exit, nothing is on its way that makes the input's note sound again.
THEOREM NoNoteHangs == Spec => []LostInputsSilent
<1>1. IInv /\ SilenceInv => LostInputsSilent
  <2> SUFFICES ASSUME IInv, SilenceInv,
                      NEW i \in Inputs,
                      \/ i \notin conn /\ RouteOf[i] \in live \cap PanicRoutes
                      \/ RouteOf[i] \notin live,
                      ~PanicDue(i),
                      NEW d \in OutputsOf(RouteOf[i])
               PROVE  /\ ~WillSound(d, i)
                      /\ RouteOf[i] \notin live \/ Exiting => ~WillSound(d, Client)
    BY DEF LostInputsSilent
  <2>1. /\ TypeOK /\ d \in Outputs /\ RouteOf[d] = RouteOf[i]
        /\ i \in Sources /\ Client \in Sources
    BY DEF IInv, OutputsOf, Sources
  <2>2. RouteOf[i] \notin live => DeadSilent(d)
    BY <2>1 DEF SilenceInv, StoppedSilent, PanicDue
  <2>3. RouteOf[i] \in PanicRoutes /\ Exiting => DeadSilent(d)
    BY <2>1 DEF SilenceInv, PanicSilences
  <2>4. i \notin conn /\ RouteOf[i] \in live \cap PanicRoutes => Silent(d, i)
    BY DEF SilenceInv, LostSilent
  <2> QED
    BY <2>1, <2>2, <2>3, <2>4, SilentWontSound DEF DeadSilent
<1> QED
  BY <1>1, Invariance, SilenceInvariance, PTL

-----------------------------------------------------------------------------
(* The FIFO, apart from the fairness of its delivery.                      *)

LEMMA PortsInit == Init => Ch!Init
  BY DEF Init, Ch!Init, Pending

LEMMA PortsStep ==
  ASSUME IInv, PortsInv, [Next]_vars
  PROVE  [Ch!Next]_<<Pending, open \cap Outputs>>
<1> DEFINE Refines == [Ch!Next]_<<Pending, open \cap Outputs>>
<1> USE EngineAssumption DEF Ports, vars, device, fields, senderVars, mtVars
<1>0. TypeOK /\ PhaseOK /\ FieldsOpen /\ PortsOut /\ Timing
  BY DEF IInv, Control, PortsInv
<1>0a. \A k \in DOMAIN Pending : Pending[k] \in Queued
  BY <1>0, PendingQueued DEF TypeOK
<1>1. ASSUME NEW d \in Outputs, NEW from \in Sources \cup {AllNotesOff}, NEW n \in 0..MaxMsgs,
             Push(d, from, n), batch' = batch, open' = open
      PROVE  Refines
  <2> DEFINE m == [to |-> d, from |-> from, n |-> n]
  <2>1. m \in Item /\ m.to = d
    BY DEF Item
  <2>2. CASE d \in out
    <3>1. Pending' = Append(Pending, m) /\ d \in open \cap Outputs
      BY <1>0, <1>1, <2>2, PushAdds DEF FieldsOpen
    <3> HIDE DEF m
    <3>2. Ch!Accept(m)
      BY <1>1, <2>1, <3>1 DEF Ch!Accept
    <3> QED
      BY <2>1, <3>2 DEF Ch!Next
  <2>3. CASE d \notin out
    BY <1>0, <1>1, <2>3, PushAdds
  <2> QED
    BY <2>2, <2>3
<1>2. ASSUME NEW D \in SUBSET Outputs, Pending' = Pending, open' \cap Outputs = (open \cap Outputs) \cup D,
             D \cap open = {}
      PROVE  Refines
  <2>1. Ch!Open(D)
    BY <1>2 DEF Ch!Open
  <2> QED
    BY <2>1 DEF Ch!Next
<1>3. ASSUME NEW D \in SUBSET Outputs, Pending' = Pending, open' \cap Outputs = (open \cap Outputs) \ D,
             \A m \in Queued : m.to \notin D
      PROVE  Refines
  <2>1. Ch!Close(D)
    BY <1>0a, <1>3 DEF Ch!Close
  <2> QED
    BY <2>1 DEF Ch!Next
<1>4. CASE SenderSend
  <2>1. Pending # <<>> /\ Head(Pending) = Head(batch) /\ Pending' = Tail(Pending)
    BY <1>0, <1>4, SendDrops
  <2>2. Head(Pending) \in Queued
    BY <1>0, <1>4, <2>1 DEF SenderSend, TypeOK, Queued
  <2>3. Head(Pending).to \in open \cap Outputs
    BY <1>0, <2>2, QueuedOutputs DEF IInv, QueuedOK, TypeOK
  <2>4. open' = open
    BY <1>4 DEF SenderSend
  <2>5. Ch!Deliver
    BY <2>1, <2>3, <2>4 DEF Ch!Deliver
  <2> QED
    BY <2>5 DEF Ch!Next
<1>5. CASE Environment \/ SenderTake \/ SenderExit
  <2>1. Pending' = Pending /\ open' = open
    BY <1>0, <1>5, TakeSettles DEF Environment, Plug, Unplug, Play, SenderTake, SenderExit, Pending,
          fields
  <2> QED
    BY <2>1
<1>6. ASSUME NEW i \in Inputs, Callback(i) PROVE Refines
  <2>1. CASE CallbackEnter(i) \/ CallbackLeave(i)
    BY <2>1 DEF CallbackEnter, CallbackLeave, Pending
  <2>2. CASE CallbackPush(i)
    <3>1. PICK d \in todo : Push(d, i, callback[i])
      BY <2>2 DEF CallbackPush
    <3>2. d \in Outputs /\ callback[i] \in 0..MaxMsgs /\ i \in Sources /\ batch' = batch /\ open' = open
      BY <1>0, <2>2 DEF CallbackPush, TypeOK, Sources
    <3> QED
      BY <1>1, <3>1, <3>2
  <2> QED
    BY <1>6, <2>1, <2>2 DEF Callback
<1>7. CASE Timer
  <2>1. CASE TimerBegin \/ TimerEnd \/ AdoptInput \/ AdoptOutput
    BY <2>1 DEF TimerBegin, TimerEnd, AdoptInput, AdoptOutput, Pending
  <2>2. ASSUME NEW i \in Inputs, CheckInput(i) PROVE Refines
    BY <2>2 DEF CheckInput, Pending
  <2>3. ASSUME NEW d \in Outputs, CheckOutput(d) PROVE Refines
    BY <2>3 DEF CheckOutput, Pending
  <2>4. CASE CloseInput \/ OpenInput
    <3>1. Pending' = Pending /\ open' \cap Outputs = open \cap Outputs
      BY <1>0, <2>4 DEF CloseInput, OpenInput, ClosePorts, OpenPorts, PhaseOK, Pending
    <3> QED
      BY <3>1
  <2>5. CASE OpenOutput
    <3>1. CASE cur \in plugged
      <4>1. /\ Pending' = Pending /\ {cur} \in SUBSET Outputs
            /\ open' \cap Outputs = (open \cap Outputs) \cup {cur}
        BY <1>0, <2>5, <3>1 DEF OpenOutput, OpenPorts, PhaseOK, Pending
      <4>2. {cur} \cap open = {}
        BY <1>0, <2>5 DEF OpenOutput, PhaseOK, PortsOut, Timing
      <4> QED
        BY <1>2, <4>1, <4>2
    <3>2. CASE cur \notin plugged
      BY <2>5, <3>2 DEF OpenOutput, Pending
    <3> QED
      BY <3>1, <3>2
  <2> QED
    BY <1>7, <2>1, <2>2, <2>3, <2>4, <2>5 DEF Timer
<1>8. CASE PanicPush
  <2>1. PICK d \in panicTodo : Push(d, AllNotesOff, 0)
    BY <1>8 DEF PanicPush
  <2>2. d \in Outputs /\ 0 \in 0..MaxMsgs /\ batch' = batch /\ open' = open
    BY <1>0, <1>8 DEF PanicPush, TypeOK
  <2> QED
    BY <1>1, <2>1, <2>2
<1>9. CASE PanicBegin \/ PanicEnd \/ StopPanicEnd \/ StopSender \/ JoinSender \/ StartSender
  BY <1>9 DEF PanicBegin, PanicEnd, StopPanicEnd, StopSender, JoinSender, StartSender, Pending
<1>10. CASE CloseDrained
  <2>1. ClosingPorts \cap Outputs \in SUBSET Outputs
    OBVIOUS
  <2>2. /\ Pending' = Pending
        /\ open' \cap Outputs = (open \cap Outputs) \ (ClosingPorts \cap Outputs)
    BY <1>10 DEF CloseDrained, ClosePorts, Pending
  <2>3. \A m \in Queued : m.to \notin ClosingPorts \cap Outputs
    BY <1>0, <1>10 DEF CloseDrained, IInv, Control, PhaseOK, SenderOK, QueuedOK, NothingLeft,
          TypeOK,
                      ClosingPorts, InputsOf, OutputsOf, GoTo
  <2> QED
    BY <1>3, <2>1, <2>2, <2>3
<1>11. CASE Shutdown
  <2>1. Pending' = Pending /\ open' \cap Outputs = open \cap Outputs
    BY <1>11 DEF Shutdown, ShutdownBegin, ShutdownCloseInputs, ClosePorts, Pending
  <2> QED
    BY <2>1
<1>12. ASSUME NEW r \in Routes, StageRoute(r) PROVE Refines
  <2> DEFINE D == {p \in plugged : RouteOf[p] = r} \cap Outputs
  <2>1. D \in SUBSET Outputs /\ \A d \in D : RouteOf[d] = r
    OBVIOUS
  <2>2. D \cap open = {}
    BY <1>0, <1>12, <2>1 DEF StageRoute, PhaseOK, PortsOut
  <2>3. Pending' = Pending /\ open' \cap Outputs = (open \cap Outputs) \cup D
    BY <1>12 DEF StageRoute, OpenPorts, Pending
  <2> QED
    BY <1>2, <2>1, <2>2, <2>3
<1>13. CASE SpliceRoute
  BY <1>13 DEF SpliceRoute, Pending
<1>14. CASE DiscardRoute
  <2>1. OutputsOf(cur) \in SUBSET Outputs
    BY DEF OutputsOf
  <2>2. Pending' = Pending /\ open' \cap Outputs = (open \cap Outputs) \ OutputsOf(cur)
    BY <1>14 DEF DiscardRoute, ClosePorts, InputsOf, OutputsOf, Pending
  <2>3. \A m \in Queued : m.to \notin OutputsOf(cur)
    BY <1>0, <1>14 DEF DiscardRoute, IInv, PhaseOK, QueuedOK, OutputsOf
  <2> QED
    BY <1>3, <2>1, <2>2, <2>3
<1>15. ASSUME NEW r \in Routes, StopRoute(r) \/ PanicRoute(r) PROVE Refines
  BY <1>15 DEF StopRoute, PanicRoute, Pending
<1>16. ASSUME NEW i \in Inputs, InjectMidi(i) PROVE Refines
  BY <1>16 DEF InjectMidi, Pending
<1>17. CASE InjectPush
  <2>1. PICK d \in todo : Push(d, Client, played[Client])
    BY <1>17 DEF InjectPush
  <2>2. /\ d \in Outputs /\ played[Client] \in 0..MaxMsgs /\ Client \in Sources
        /\ batch' = batch /\ open' = open
    BY <1>0, <1>17 DEF InjectPush, TypeOK, Sources
  <2> QED
    BY <1>1, <2>1, <2>2
<1>18. CASE InjectEnter \/ InjectLeave
  BY <1>18 DEF InjectEnter, InjectLeave, Pending
<1>19. CASE RequestQuit \/ Terminated \/ UNCHANGED vars
  BY <1>19 DEF RequestQuit, Terminated, Pending
<1> QED
  BY <1>4, <1>5, <1>6, <1>7, <1>8, <1>9, <1>10, <1>11, <1>12, <1>13, <1>14, <1>15, <1>16, <1>17,
        <1>18, <1>19
     DEF Next, Sender, Panic, Drain, Tools, Staged, Inject

\* EngineIsOneFifo: every behaviour of the threads is one of module
\* OutputPorts' FIFO, that everything is sent in the end left aside.
THEOREM EngineIsOneFifo == Spec => Ch!Init /\ [][Ch!Next]_<<Pending, open \cap Outputs>>
<1>1. IInv /\ PortsInv /\ [Next]_vars => [Ch!Next]_<<Pending, open \cap Outputs>>
  BY PortsStep
<1> QED
  BY <1>1, PortsInit, Invariance, PortsInvariance, PTL DEF Spec
=============================================================================
