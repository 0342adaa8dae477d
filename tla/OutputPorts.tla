----------------------------- MODULE OutputPorts -----------------------------
(***************************************************************************)
(* What the send queue and the sender thread promise, seen from the ports: *)
(* one FIFO for all of them.  A message is accepted for an open port and   *)
(* delivered in the order in which it was accepted, and a port is closed   *)
(* only when no message for it is left, so the sender never touches a port *)
(* that is gone.                                                           *)
(***************************************************************************)
EXTENDS Sequences

CONSTANTS Outputs, Item

VARIABLES pending,  \* messages accepted and not delivered yet, oldest first
          open      \* the ports that are open

Init == pending = <<>> /\ open = {}

Open(D) == /\ D \cap open = {}
           /\ open' = open \cup D
           /\ UNCHANGED pending

Accept(m) == /\ m.to \in open
             /\ pending' = Append(pending, m)
             /\ UNCHANGED open

Deliver == /\ pending # <<>>
           /\ Head(pending).to \in open
           /\ pending' = Tail(pending)
           /\ UNCHANGED open

Close(D) == /\ \A k \in DOMAIN pending : pending[k].to \notin D
            /\ open' = open \ D
            /\ UNCHANGED pending

Next == \/ \E D \in SUBSET Outputs : Open(D) \/ Close(D)
        \/ \E m \in Item : Accept(m)
        \/ Deliver

Spec == Init /\ [][Next]_<<pending, open>> /\ WF_<<pending, open>>(Deliver)
=============================================================================
