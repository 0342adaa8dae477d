--------------------------- MODULE CommandNumbers ---------------------------
(* When the numbers of a command get their value. The tokens of a command  *)
(* are kept as they were read and decoded when a message first needs them, *)
(* with the number base that is the default by then: command by command in *)
(* filters and transforms, all rules at once in the converter stage. The   *)
(* client starts routes with "hex" and "dec" in between and edits them;    *)
(* parsing runs without the callback lock, edits and messages hold it.     *)
EXTENDS Naturals, Sequences, SequencesExt

CONSTANTS
  Bases,         \* what "dec", "hex" and "omc" choose from
  MaxCommands    \* bound: commands ever written

ASSUME NumbersAssumption == MaxCommands \in Nat

VARIABLES
  base,          \* the default for the next numbers
  saved,         \* the default in front of the call that is parsed
  staged,        \* what is parsed and not yet live, <<>> between calls
  routesLive,    \* the live routes
  commandsRead   \* how many commands were written, and the id of the last

numberVars == <<base, saved, staged, routesLive, commandsRead>>

\* A command knows what the default was when it was read and with which it was
\* decoded. A rule names the converter it was made from.
NotDecoded == "not decoded"
ReadCommand(id, b) == [id |-> id, readIn |-> b, decoded |-> NotDecoded]
RuleOf(command) == [id |-> command.id, base |-> base]
EmptyRoute == [steps |-> <<>>, converters |-> <<>>, rules |-> <<>>]

Stages == {"steps", "converters"}
RulesCleared(route) == [route EXCEPT !.rules = <<>>]

\* addProcessingCommand.
Added(route, stage, command) ==
  IF stage = "converters"
  THEN RulesCleared([route EXCEPT !.converters = Append(@, command)])
  ELSE [route EXCEPT !.steps = Append(@, command)]

\* Mutant: a converter that is replaced keeps the rule that was made from it.
ReplacedOnly(route, stage, i, command) == [route EXCEPT ![stage][i] = command]

\* replace_command and cleanupAfterCommandChange.
Replaced(route, stage, i, command) ==
  IF stage = "converters" THEN RulesCleared([route EXCEPT ![stage][i] = command]) ELSE [route EXCEPT ![stage][i] = command]

Removed(route, stage, i) ==
  IF stage = "converters" THEN RulesCleared([route EXCEPT ![stage] = RemoveAt(@, i)]) ELSE [route EXCEPT ![stage] = RemoveAt(@, i)]

-----------------------------------------------------------------------------
(* start_route: parsing, and the way in or out of what was parsed.         *)

\* A command of the call is read with one default, which may change behind it.
Parse(readIn, b, stage) ==
  /\ staged = <<>>
  /\ commandsRead < MaxCommands
  /\ commandsRead' = commandsRead + 1
  /\ base' = b
  /\ saved' = base
  /\ staged' = <<Added(EmptyRoute, stage, ReadCommand(commandsRead', readIn))>>
  /\ UNCHANGED routesLive

Splice ==
  /\ staged # <<>>
  /\ routesLive' = routesLive \o staged
  /\ staged' = <<>>
  /\ UNCHANGED <<base, saved, commandsRead>>

Discard ==
  /\ staged # <<>>
  /\ base' = saved
  /\ staged' = <<>>
  /\ UNCHANGED <<saved, routesLive, commandsRead>>

\* The tools that edit a live route read no settings.
Edit(r) ==
  /\ staged = <<>>
  /\ UNCHANGED <<base, saved, staged>>
  /\ \E stage \in Stages :
       \/ /\ commandsRead < MaxCommands
          /\ commandsRead' = commandsRead + 1
          /\ \/ routesLive' = [routesLive EXCEPT ![r] = Added(@, stage, ReadCommand(commandsRead', base))]
             \/ \E i \in DOMAIN routesLive[r][stage] :
                  routesLive' = [routesLive EXCEPT ![r] = Replaced(@, stage, i, ReadCommand(commandsRead', base))]
       \/ /\ \E i \in DOMAIN routesLive[r][stage] : routesLive' = [routesLive EXCEPT ![r] = Removed(@, stage, i)]
          /\ UNCHANGED commandsRead

-----------------------------------------------------------------------------
(* A message.                                                              *)

\* ensureCompiled.
Decoded(command) == IF command.decoded = NotDecoded THEN [command EXCEPT !.decoded = base] ELSE command

\* processConverters takes the rules for stale by their number alone.
Rules(route) ==
  IF Len(route.rules) = Len(route.converters) THEN route.rules
  ELSE [i \in DOMAIN route.converters |-> RuleOf(route.converters[i])]

\* A message gets as far as the filters and transforms let it.
MessagePasses(r) ==
  /\ \E reached \in 0..Len(routesLive[r].steps) :
     \E done \in {[routesLive[r] EXCEPT !.steps = [i \in DOMAIN @ |-> IF i <= reached THEN Decoded(@[i]) ELSE @[i]]]} :
       routesLive' = [routesLive EXCEPT ![r] =
         IF reached = Len(done.steps) THEN [done EXCEPT !.rules = Rules(done)] ELSE done]
  /\ UNCHANGED <<base, saved, staged, commandsRead>>

NumbersInit ==
  /\ base \in Bases /\ saved = base /\ staged = <<>> /\ routesLive = <<>> /\ commandsRead = 0

NumbersNext ==
  \/ \E readIn, b \in Bases, stage \in Stages : Parse(readIn, b, stage)
  \/ Splice \/ Discard
  \/ \E r \in DOMAIN routesLive : Edit(r) \/ MessagePasses(r)
  \/ commandsRead = MaxCommands /\ UNCHANGED numberVars

NumbersSpec == NumbersInit /\ [][NumbersNext]_numberVars
-----------------------------------------------------------------------------
\* Whenever a message would take the rules of a route as they are, by their
\* number, they are the ones of its converters, after any edits.
UsableRulesAreCurrent ==
  \A r \in DOMAIN routesLive :
    LET route == routesLive[r]
    IN Len(route.rules) = Len(route.converters) =>
         \A i \in DOMAIN route.rules : route.rules[i].id = route.converters[i].id

\* README.md:56 of hex: "Interpret the next numbers as hexadecimals by default".
NumbersMeanWhatWasRead ==
  \A r \in DOMAIN routesLive :
    LET route == routesLive[r]
    IN /\ \A i \in DOMAIN route.steps : route.steps[i].decoded \in {NotDecoded, route.steps[i].readIn}
       /\ Len(route.rules) = Len(route.converters) =>
            \A i \in DOMAIN route.rules : route.rules[i].base = route.converters[i].readIn
=============================================================================
