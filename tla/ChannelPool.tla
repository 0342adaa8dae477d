---------------------------- MODULE ChannelPool ----------------------------
(* What the channel bucket promises (ChannelBucket.h): a channel is reused *)
(* as late as possible. The released channels wait in the order in which   *)
(* they were released; when none is left the channel that was taken or     *)
(* partly released longest ago is shared.                                  *)
EXTENDS MpeZone, Sequences, SequencesExt

VARIABLES
  released,     \* the free channels, longest released first
  taken,        \* the channels in use, longest untouched first
  uses          \* how many notes use a channel

poolVars == <<released, taken, uses>>

NextChannel == IF released # <<>> THEN Head(released) ELSE Head(taken)

Acquire(c) ==
  /\ uses' = [uses EXCEPT ![c] = @ + 1]
  /\ c = NextChannel
  /\ released' = IF released # <<>> THEN Tail(released) ELSE released
  /\ taken' = Append(RemoveFirst(taken, c), c)

GiveBack(c) ==
  /\ uses[c] > 0
  /\ uses' = [uses EXCEPT ![c] = @ - 1]
  /\ IF uses[c] > 1
     THEN taken' = Append(RemoveFirst(taken, c), c) /\ released' = released
     ELSE taken' = RemoveFirst(taken, c) /\ released' = Append(released, c)

\* A note that is struck while it is held gives its channel back first.
Renew(c) ==
  /\ uses[c] > 0
  /\ LET free == IF uses[c] > 1 THEN released ELSE Append(released, c)
         busy == IF uses[c] > 1 THEN Append(RemoveFirst(taken, c), c) ELSE RemoveFirst(taken, c)
         got  == IF free # <<>> THEN Head(free) ELSE Head(busy)
     IN /\ released' = IF free # <<>> THEN Tail(free) ELSE free
        /\ taken' = Append(RemoveFirst(busy, got), got)
        /\ uses' = [[uses EXCEPT ![c] = @ - 1] EXCEPT ![got] = @ + 1]

PoolInit ==
  /\ released = [i \in 1..Members |-> MemberChannel(i - 1)]
  /\ taken = <<>>
  /\ uses = [c \in MemberChannels |-> 0]

Refill ==
  /\ uses' = [c \in MemberChannels |-> 0]
  /\ taken' = <<>>
  /\ released' = [i \in 1..Members |-> MemberChannel(i - 1)]

PoolNext == Refill \/ \E c \in MemberChannels : Acquire(c) \/ GiveBack(c) \/ Renew(c)

PoolSpec == PoolInit /\ [][PoolNext]_poolVars
=============================================================================
