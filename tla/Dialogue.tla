------------------------------ MODULE Dialogue ------------------------------
(***************************************************************************)
(* What the MCP server promises its client: lines are handled one by one,  *)
(* in the order in which they were sent; each request is answered, once,   *)
(* for as long as the client listens, and nothing else is.                 *)
(***************************************************************************)
EXTENDS Sequences

CONSTANTS
  Kinds,       \* what a line may be; a "request" is answered
  Ids          \* what tells lines apart

VARIABLES
  unhandled,   \* lines sent and not handled, oldest first
  answers,     \* requests answered, oldest first
  listening    \* the client reads the answers

vars == <<unhandled, answers, listening>>

Init == /\ unhandled = <<>>
        /\ answers = <<>>
        /\ listening = TRUE

Send(kind, id) ==
  /\ \A k \in DOMAIN unhandled : unhandled[k].id # id
  /\ \A k \in DOMAIN answers : answers[k] # id
  /\ unhandled' = Append(unhandled, [kind |-> kind, id |-> id])
  /\ UNCHANGED <<answers, listening>>

IsNext(asked) == unhandled # <<>> /\ asked = (Head(unhandled).kind = "request")

Answer == /\ IsNext(TRUE)
          /\ unhandled' = Tail(unhandled)
          /\ answers' = IF listening THEN Append(answers, Head(unhandled).id) ELSE answers
          /\ UNCHANGED listening

Obey == /\ IsNext(FALSE)
        /\ unhandled' = Tail(unhandled)
        /\ UNCHANGED <<answers, listening>>

HangUp == /\ listening' = FALSE
          /\ UNCHANGED <<unhandled, answers>>

Next == Answer \/ Obey \/ HangUp \/ \E kind \in Kinds, id \in Ids : Send(kind, id)

Spec == Init /\ [][Next]_vars /\ WF_vars(Answer \/ Obey)
=============================================================================
