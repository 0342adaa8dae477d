----------------------------- MODULE McpRoutes -----------------------------
(* The tools that start, edit and stop routes, as one client sees them:    *)
(* what a call makes of the table of routes, the settings of the session   *)
(* and the parser, when it is accepted and when it is not. RouteEngine     *)
(* has what the same calls do to ports and threads.                        *)
EXTENDS RouteParser

CONSTANTS
  Openings,     \* what the client starts a session with, each a sequence of
                \* commands with their options
  FollowUps,    \* what it starts later
  Edits,        \* commands that it adds to a route or puts in place of others
  MaxRoutes,    \* maxMcpRoutes, 256 in the program
  MaxCalls      \* calls in a session

ASSUME McpAssumption == MaxRoutes \in Nat /\ MaxCalls \in Nat

VARIABLES
  mcpRoutes,    \* routes_
  settings,     \* what "hex", "omc" and "mon" set, and the return value
  staging,      \* what start_route has parsed and not yet decided about
  parser,       \* currentCommand_, pendingNegate_ and nextRouteId_
  calls,        \* how many calls the client made
  reply         \* the last call, what it met and whether it was accepted

mcpVars == <<mcpRoutes, settings, staging, parser, calls, reply>>

Answered == ~staging.parsed

NoEdit == [phrases |-> <<>>]

Index(id) == CHOOSE i \in DOMAIN mcpRoutes : mcpRoutes[i].id = id
Ids == {mcpRoutes[i].id : i \in DOMAIN mcpRoutes}

-----------------------------------------------------------------------------
(* start_route                                                             *)

FreshSettings == [hex |-> FALSE, octave |-> "3", monitor |-> FALSE, failed |-> FALSE]

NoStaging == [parsed |-> FALSE, routes |-> <<>>, errors |-> FALSE, before |-> FreshSettings]

\* parseParametersInto: routes are built apart from the live ones; a "not" is
\* not kept for the next call.
ParseInto(tokens) ==
  LET p == ParseParameters([current |-> parser.current, negate |-> parser.negate, nextId |-> parser.nextId,
                            settings |-> settings, errors |-> FALSE, routes |-> <<>>], tokens)
  IN [p EXCEPT !.negate = FALSE]

\* What the parser keeps, also when the call fails in the end.
Parsed(p) == [current |-> p.current, negate |-> p.negate, nextId |-> p.nextId]

Started(call, accepted) ==
  [call |-> call, accepted |-> accepted, edit |-> NoEdit, first |-> Len(mcpRoutes) + 1, met |-> settings]

\* A call is refused unparsed or parsed, which changes the session's settings.
StartRoute(call) ==
  \E tokens \in {FlattenSeq(call)} :
    \/ /\ Rejects(tokens)
       /\ reply' = Started(call, FALSE)
       /\ UNCHANGED <<mcpRoutes, settings, staging, parser>>
    \/ /\ ~Rejects(tokens)
       /\ \E p \in {ParseInto(tokens)} :
            /\ parser' = Parsed(p)
            /\ settings' = p.settings
            /\ staging' = [parsed |-> TRUE, routes |-> p.routes, errors |-> p.errors, before |-> settings]
            /\ reply' = Started(call, FALSE)
       /\ UNCHANGED mcpRoutes

Unconnected == \E i \in DOMAIN staging.routes : staging.routes[i].outputs = <<>>
TooMany == Len(mcpRoutes) + Len(staging.routes) > MaxRoutes

RestoreSettings(before) == before

Refuse ==
  /\ settings' = RestoreSettings(staging.before)
  /\ staging' = NoStaging
  /\ UNCHANGED <<mcpRoutes, parser, reply>>

\* The four ways out, and the one in.
RefuseErrors   == ~Answered /\ staging.errors /\ Refuse
RefuseNoRoute  == ~Answered /\ ~staging.errors /\ staging.routes = <<>> /\ Refuse
RefuseNoOutput == ~Answered /\ ~staging.errors /\ Unconnected /\ Refuse

\* Mutant: the check for room comes without restoring the settings.
RefuseTooManyLeft ==
  /\ ~Answered /\ ~staging.errors /\ staging.routes # <<>> /\ ~Unconnected /\ TooMany
  /\ staging' = NoStaging
  /\ UNCHANGED <<mcpRoutes, settings, parser, reply>>

RefuseTooMany  == ~Answered /\ ~staging.errors /\ staging.routes # <<>> /\ ~Unconnected /\ TooMany /\ Refuse

SpliceStaged ==
  /\ ~Answered /\ ~staging.errors /\ staging.routes # <<>> /\ ~Unconnected /\ ~TooMany
  /\ mcpRoutes' = mcpRoutes \o staging.routes
  /\ staging' = NoStaging
  /\ reply' = [reply EXCEPT !.accepted = TRUE]
  /\ UNCHANGED <<settings, parser>>

-----------------------------------------------------------------------------
(* stop_route, add_commands, replace_command and remove_command.           *)

\* An edit with the route as it was before it.
EditCall(id, phrases, stage, index) ==
  [was |-> mcpRoutes[Index(id)], phrases |-> phrases, stage |-> stage, index |-> index]

Answer(accepted, edit) ==
  reply' = [call |-> <<>>, accepted |-> accepted, edit |-> edit, first |-> 1, met |-> settings]

StopRoute(id) ==
  /\ Answer(TRUE, NoEdit)
  /\ mcpRoutes' = RemoveAt(mcpRoutes, Index(id))
  /\ UNCHANGED <<settings, staging, parser>>

\* What a batch is on a scratch route, before a live one is touched.
Scratch(cmds) ==
  FoldLeft(LAMBDA r, c : AddProcessingCommand(r, c.name, c.opts, c.negate), NewRoute(0), cmds)

RefusesBatch(tokens, cmds) ==
  Rejects(tokens) \/ cmds = <<>> \/ \E i \in DOMAIN cmds : RefusedCommand(cmds[i].name, cmds[i].opts)

AddCommands(id, phrases) ==
  /\ \E tokens \in {FlattenSeq(phrases)} : \E cmds \in {CollectProcessingCommands(tokens)} :
     \E refused \in {RefusesBatch(tokens, cmds)} :
       /\ Answer(~refused, EditCall(id, phrases, "every", 0))
       /\ mcpRoutes' = IF refused THEN mcpRoutes
                       ELSE [mcpRoutes EXCEPT ![Index(id)] =
                               FoldLeft(LAMBDA r, c : AddProcessingCommand(r, c.name, c.opts, c.negate), @, cmds)]
  /\ UNCHANGED <<settings, staging, parser>>

ReplaceCommand(id, stage, index, phrases) ==
  /\ \E tokens \in {FlattenSeq(phrases)} : \E cmds \in {CollectProcessingCommands(tokens)} :
     \E refused \in {RefusesBatch(tokens, cmds)} :
     \E scratch \in {IF refused THEN <<>> ELSE Scratch(cmds).commands[stage]} :
     \E fits \in {/\ ~refused /\ Len(cmds) = 1 /\ Len(scratch) = 1
                  /\ index \in DOMAIN mcpRoutes[Index(id)].commands[stage]} :
       /\ Answer(fits, EditCall(id, phrases, stage, index))
       /\ mcpRoutes' = IF fits THEN [mcpRoutes EXCEPT ![Index(id)].commands[stage][index] = scratch[1]]
                       ELSE mcpRoutes
  /\ UNCHANGED <<settings, staging, parser>>

RemoveCommand(id, stage, index) ==
  /\ index \in DOMAIN mcpRoutes[Index(id)].commands[stage]
  /\ Answer(TRUE, NoEdit)
  /\ mcpRoutes' = [mcpRoutes EXCEPT ![Index(id)].commands[stage] = RemoveAt(@, index)]
  /\ UNCHANGED <<settings, staging, parser>>

McpInit ==
  /\ mcpRoutes = <<>> /\ settings = FreshSettings /\ staging = NoStaging /\ calls = 0
  /\ parser = [current |-> NoCommand, negate |-> FALSE, nextId |-> 1]
  /\ reply = [call |-> <<>>, accepted |-> TRUE, edit |-> NoEdit, first |-> 1, met |-> FreshSettings]

Call ==
  /\ Answered /\ calls < MaxCalls
  /\ calls' = calls + 1
  /\ \/ \E call \in (IF calls = 0 THEN Openings ELSE FollowUps) : StartRoute(call)
     \/ \E id \in Ids :
          \/ StopRoute(id)
          \/ \E phrases \in Edits : AddCommands(id, phrases)
          \/ \E stage \in RouteStages, index \in 1..2 :
               \/ \E phrases \in Edits : ReplaceCommand(id, stage, index, phrases)
               \/ RemoveCommand(id, stage, index)

\* The client has no more to say.
SessionOver == Answered /\ calls = MaxCalls /\ UNCHANGED mcpVars

\* How a call that was parsed ends.
Decide ==
  /\ RefuseErrors \/ RefuseNoRoute \/ RefuseNoOutput \/ RefuseTooMany \/ SpliceStaged
  /\ UNCHANGED calls

McpNext == Call \/ Decide \/ SessionOver

McpSpec == McpInit /\ [][McpNext]_mcpVars

-----------------------------------------------------------------------------
(* Properties.                                                             *)

\* McpServer.cpp:860-863: no accepted call leaves the parser waiting for
\* options, or negating, so that it would swallow the tokens of the next.
ParserIsIdle == parser.current = NoCommand /\ ~parser.negate

\* McpServer.cpp:1171-1174, 1190-1193: settings change as a call is parsed, and one
\* that is rejected after that, for what it says, for what it lacks or for want of
\* room, must not leave them behind, nor the return value that its errors set.
RejectedStartsLeaveNoSettings == (Answered /\ ~reply.accepted) => settings = reply.met

(* What the commands of a call mean, without reading them token by token.  *)

\* A command with all of its options and no others. One that lacks options takes
\* the name that comes next for one.
Whole(phrase) ==
  CASE phrase[1] = "convert"         -> SpecComplete(Tail(phrase))
    [] Table[phrase[1]].options >= 0 -> Len(phrase) = 1 + Table[phrase[1]].options
    [] OTHER                         -> \A i \in 2..Len(phrase) : ~IsName(phrase[i])

Heads(call, i) == call[i][1]

\* An input starts a route when it is the first, or when an output came since
\* the last input.
StartsRoute(call, i) ==
  /\ Heads(call, i) = "in"
  /\ \/ \A j \in 1..(i - 1) : Heads(call, j) # "in"
     \/ \E j \in 1..(i - 1) : Heads(call, j) = "out" /\ \A k \in j..(i - 1) : Heads(call, k) # "in"

\* The commands that belong to the route which the command at i starts.
Belonging(call, i) ==
  LET next == {j \in (i + 1)..Len(call) : StartsRoute(call, j)}
  IN i..(IF next = {} THEN Len(call) ELSE Min(next) - 1)

\* What a port command names and what a "not" stands right in front of.
Named(call, is, name) ==
  [n \in 1..Cardinality({i \in is : Heads(call, i) = name}) |->
     call[CHOOSE i \in is : Heads(call, i) = name /\ Cardinality({j \in is : j <= i /\ Heads(call, j) = name}) = n][2]]
Negated(call, i) == i > 1 /\ Heads(call, i - 1) = "not"

InStage(call, i, stage) == IsProcessing(Kind(Heads(call, i))) /\ StageOf(Kind(Heads(call, i))) = stage

CommandsMeant(call, is, stage) ==
  LET indices == {i \in is : InStage(call, i, stage)}
      chosen  == IF stage = "split" /\ indices # {} THEN {Max(indices)} ELSE indices
  IN [n \in 1..Cardinality(chosen) |->
        LET i == CHOOSE i \in chosen : Cardinality({j \in chosen : j <= i}) = n
        IN [name |-> Heads(call, i),
            opts |-> IF Heads(call, i) = "convert" THEN ParsedSpec(Tail(call[i])) ELSE Tail(call[i]),
            negate |-> stage = "filters" /\ Negated(call, i)]]

\* The settings that a call makes of those it met.
Latest(call, names) ==
  LET is == {i \in DOMAIN call : Heads(call, i) \in names} IN IF is = {} THEN <<>> ELSE call[Max(is)]
SettingsMeant(met, call) ==
  LET number == Latest(call, {"dec", "hex"})
      octave == Latest(call, {"omc"})
  IN [met EXCEPT !.hex = IF number = <<>> THEN @ ELSE number[1] = "hex",
                 !.octave = IF octave = <<>> THEN @ ELSE octave[2]]

WholeCall(call) == call # <<>> /\ \A i \in DOMAIN call : Whole(call[i])

\* A route that was started has the ports and the commands that its call gives
\* it, in their order and with their options, and only the filters that a "not"
\* stands in front of are negated.
StartedRoutesAreAsWritten ==
  LET call   == reply.call
      starts == {i \in DOMAIN call : StartsRoute(call, i)}
  IN (reply.accepted /\ WholeCall(call)) =>
       /\ Len(mcpRoutes) = reply.first - 1 + Cardinality(starts)
       /\ settings = SettingsMeant(reply.met, call)
       /\ \A i \in starts :
            LET r  == mcpRoutes[reply.first - 1 + Cardinality({j \in starts : j <= i})]
                is == Belonging(call, i)
            IN /\ r.inputs = Named(call, is, "in") /\ r.outputs = Named(call, is, "out")
               /\ r.panic = \E j \in is : Heads(call, j) = "panic"
               /\ \A stage \in RouteStages : r.commands[stage] = CommandsMeant(call, is, stage)

\* An edit that was accepted puts its commands behind those of the route, a split
\* in place of the one there was, or its one command in the place it names.
EditedRoutesAreAsWritten ==
  LET edit == reply.edit
  IN (reply.accepted /\ WholeCall(edit.phrases)) =>
       \A stage \in RouteStages :
         LET was   == edit.was.commands[stage]
             meant == CommandsMeant(edit.phrases, DOMAIN edit.phrases, stage)
         IN mcpRoutes[Index(edit.was.id)].commands[stage] =
              CASE edit.stage = stage                      -> [was EXCEPT ![edit.index] = meant[1]]
                [] edit.stage \notin {stage, "every"}      -> was
                [] edit.stage = "every" /\ stage = "split" -> IF meant = <<>> THEN was ELSE meant
                [] edit.stage = "every" /\ stage # "split" -> was \o meant

\* Routes are what their calls say, whichever reader of the tokens made them.
RoutesAreAsWritten == StartedRoutesAreAsWritten /\ EditedRoutesAreAsWritten
=============================================================================
