----------------------------- MODULE CommandProofs -----------------------------
(***************************************************************************)
(* Proofs about what commands make of routes.                              *)
(*                                                                         *)
(* A message never converts with rules of earlier converters, for any      *)
(* number of routes and commands, any settings and any edits. The code     *)
(* takes rules for current when there are as many of them as of            *)
(* converters. That is inductive once it is claimed of what is parsed and  *)
(* not yet live as well, which becomes a live route in one step: every     *)
(* command that changes the converters clears the rules, and every message *)
(* that finds their number wrong rebuilds them.                            *)
(*                                                                         *)
(* And no accepted call leaves the parser waiting for options, for any     *)
(* calls with any tokens but those that the validator is known to read     *)
(* otherwise. Parser and validator are two loops over the same tokens:     *)
(* what one waits for tells, behind every token, what the other does.      *)
(***************************************************************************)
EXTENDS CommandNumbers, McpRoutes, SequenceTheorems, TLAPS

Reading == INSTANCE FoldFacts WITH Op <- ParseToken
Checking == INSTANCE FoldFacts WITH Op <- ValidateToken

NumberedCommand == [id : Nat, readIn : Bases, decoded : Bases \cup {NotDecoded}]
NumberedRule == [id : Nat, base : Bases]
NumberedRoute == [steps : Seq(NumberedCommand), converters : Seq(NumberedCommand), rules : Seq(NumberedRule)]

\* The type of every variable.
NumbersType ==
  /\ base \in Bases
  /\ saved \in Bases
  /\ staged \in Seq(NumberedRoute)
  /\ routesLive \in Seq(NumberedRoute)
  /\ commandsRead \in Nat

\* The rules of a route are of its converters, or are seen not to be.
RulesCurrent(route) ==
  Len(route.rules) = Len(route.converters) =>
    \A i \in DOMAIN route.rules : route.rules[i].id = route.converters[i].id

NumbersInv ==
  /\ NumbersType
  /\ \A r \in DOMAIN routesLive : RulesCurrent(routesLive[r])
  /\ \A r \in DOMAIN staged : RulesCurrent(staged[r])

-----------------------------------------------------------------------------
(* What becomes of one route.                                              *)

\* Removing an element leaves a sequence of the rest.
LEMMA RemovalIsTyped ==
  ASSUME NEW S, NEW s \in Seq(S), NEW i \in DOMAIN s
  PROVE  RemoveAt(s, i) \in Seq(S)
<1>1. SubSeq(s, 1, i - 1) \in Seq(S)
  OBVIOUS
<1>2. SubSeq(s, i + 1, Len(s)) \in Seq(S)
  OBVIOUS
<1> QED BY <1>1, <1>2 DEF RemoveAt

\* A route without rules has none of an earlier converter.
LEMMA ClearingIsSafe ==
  ASSUME NEW route \in NumberedRoute, NEW s \in Seq(NumberedCommand)
  PROVE  /\ RulesCleared([route EXCEPT !.converters = s]) \in NumberedRoute
         /\ RulesCurrent(RulesCleared([route EXCEPT !.converters = s]))
         /\ [route EXCEPT !.steps = s] \in NumberedRoute
         /\ RulesCurrent(route) => RulesCurrent([route EXCEPT !.steps = s])
<1>1. /\ route.rules \in Seq(NumberedRule) /\ route.converters \in Seq(NumberedCommand) /\ route.steps \in Seq(NumberedCommand)
      /\ DOMAIN route = {"steps", "converters", "rules"}
  BY DEF NumberedRoute
<1>2. [route EXCEPT !.steps = s] \in NumberedRoute /\ [route EXCEPT !.converters = s] \in NumberedRoute
  BY DEF NumberedRoute
<1>3. ASSUME NEW other \in NumberedRoute
      PROVE  [other EXCEPT !.rules = <<>>] \in NumberedRoute /\ RulesCurrent([other EXCEPT !.rules = <<>>])
  <2>1. <<>> \in Seq(NumberedRule) /\ DOMAIN other = {"steps", "converters", "rules"}
    BY DEF NumberedRoute
  <2>2. [other EXCEPT !.rules = <<>>] \in NumberedRoute
    BY <2>1 DEF NumberedRoute
  <2>3. [other EXCEPT !.rules = <<>>].rules = <<>>
    BY <2>1
  <2> QED BY <2>2, <2>3 DEF RulesCurrent
<1>4. RulesCurrent(route) => RulesCurrent([route EXCEPT !.steps = s])
  BY <1>1 DEF RulesCurrent
<1> QED BY <1>2, <1>3, <1>4 DEF RulesCleared

\* An edit of one stage keeps the rules of a route good.
LEMMA EditsAreSafe ==
  ASSUME NEW route \in NumberedRoute, RulesCurrent(route), NEW stage \in Stages, NEW command \in NumberedCommand
  PROVE  /\ Added(route, stage, command) \in NumberedRoute
         /\ RulesCurrent(Added(route, stage, command))
         /\ \A i \in DOMAIN route[stage] :
              /\ Replaced(route, stage, i, command) \in NumberedRoute
              /\ RulesCurrent(Replaced(route, stage, i, command))
              /\ Removed(route, stage, i) \in NumberedRoute
              /\ RulesCurrent(Removed(route, stage, i))
<1>1. /\ route.steps \in Seq(NumberedCommand) /\ route.converters \in Seq(NumberedCommand)
      /\ DOMAIN route = {"steps", "converters", "rules"}
  BY DEF NumberedRoute
<1>2. CASE stage = "converters"
  <2>1. Added(route, stage, command) = RulesCleared([route EXCEPT !.converters = Append(route.converters, command)])
    BY <1>2 DEF Added
  <2>2. Append(route.converters, command) \in Seq(NumberedCommand)
    BY <1>1
  <2>3. ASSUME NEW i \in DOMAIN route.converters
        PROVE  /\ Replaced(route, stage, i, command) = RulesCleared([route EXCEPT !.converters = [route.converters EXCEPT ![i] = command]])
               /\ Removed(route, stage, i) = RulesCleared([route EXCEPT !.converters = RemoveAt(route.converters, i)])
    BY <1>1, <1>2 DEF Replaced, Removed
  <2>4. ASSUME NEW i \in DOMAIN route.converters
        PROVE  [route.converters EXCEPT ![i] = command] \in Seq(NumberedCommand) /\ RemoveAt(route.converters, i) \in Seq(NumberedCommand)
    BY <1>1, RemovalIsTyped
  <2> QED BY <1>2, <2>1, <2>2, <2>3, <2>4, ClearingIsSafe
<1>3. CASE stage = "steps"
  <2>1. Added(route, stage, command) = [route EXCEPT !.steps = Append(route.steps, command)]
    BY <1>3 DEF Added
  <2>2. Append(route.steps, command) \in Seq(NumberedCommand)
    BY <1>1
  <2>3. ASSUME NEW i \in DOMAIN route.steps
        PROVE  /\ Replaced(route, stage, i, command) = [route EXCEPT !.steps = [route.steps EXCEPT ![i] = command]]
               /\ Removed(route, stage, i) = [route EXCEPT !.steps = RemoveAt(route.steps, i)]
    BY <1>1, <1>3 DEF Replaced, Removed
  <2>5. RulesCurrent(route)
    OBVIOUS
  <2>4. ASSUME NEW i \in DOMAIN route.steps
        PROVE  [route.steps EXCEPT ![i] = command] \in Seq(NumberedCommand) /\ RemoveAt(route.steps, i) \in Seq(NumberedCommand)
    BY <1>1, RemovalIsTyped
  <2>6. ASSUME NEW s \in Seq(NumberedCommand)
        PROVE  [route EXCEPT !.steps = s] \in NumberedRoute /\ RulesCurrent([route EXCEPT !.steps = s])
    BY <2>5, ClearingIsSafe
  <2>7. ASSUME NEW i \in DOMAIN route.steps
        PROVE  /\ Replaced(route, stage, i, command) \in NumberedRoute
               /\ RulesCurrent(Replaced(route, stage, i, command))
               /\ Removed(route, stage, i) \in NumberedRoute
               /\ RulesCurrent(Removed(route, stage, i))
    BY <2>3, <2>4, <2>6
  <2>8. Added(route, stage, command) \in NumberedRoute /\ RulesCurrent(Added(route, stage, command))
    BY <2>1, <2>2, <2>6
  <2> QED BY <1>3, <2>7, <2>8
<1> QED BY <1>2, <1>3 DEF Stages

\* A command that is decoded stays a command with its number.
LEMMA DecodingIsTyped ==
  ASSUME NEW command \in NumberedCommand, base \in Bases
  PROVE  Decoded(command) \in NumberedCommand
BY DEF Decoded, NumberedCommand

\* What the converter stage goes by after it looked at the rules.
LEMMA RebuildingIsSafe ==
  ASSUME NEW route \in NumberedRoute, RulesCurrent(route), base \in Bases
  PROVE  /\ [route EXCEPT !.rules = Rules(route)] \in NumberedRoute
         /\ RulesCurrent([route EXCEPT !.rules = Rules(route)])
<1>1. /\ route.rules \in Seq(NumberedRule) /\ route.converters \in Seq(NumberedCommand) /\ route.steps \in Seq(NumberedCommand)
      /\ DOMAIN route = {"steps", "converters", "rules"}
  BY DEF NumberedRoute
<1>2. CASE Len(route.rules) = Len(route.converters)
  <2>1. Rules(route) = route.rules
    BY <1>2 DEF Rules
  <2> QED BY <2>1, <1>1 DEF RulesCurrent, NumberedRoute
<1>3. CASE Len(route.rules) # Len(route.converters)
  <2> DEFINE made == [i \in DOMAIN route.converters |-> RuleOf(route.converters[i])]
  <2>1. Rules(route) = made
    BY <1>3 DEF Rules
  <2>2. ASSUME NEW i \in DOMAIN route.converters
        PROVE  made[i] \in NumberedRule /\ made[i].id = route.converters[i].id
    <3>1. route.converters[i] \in NumberedCommand
      BY <1>1
    <3>2. made[i] = RuleOf(route.converters[i])
      OBVIOUS
    <3> QED BY <3>1, <3>2 DEF RuleOf, NumberedRule, NumberedCommand
  <2>3. made \in Seq(NumberedRule) /\ DOMAIN made = DOMAIN route.converters
    BY <1>1, <2>2
  <2> HIDE DEF made
  <2>4. [route EXCEPT !.rules = made] \in NumberedRoute
    BY <1>1, <2>3 DEF NumberedRoute
  <2>5. RulesCurrent([route EXCEPT !.rules = made])
    BY <1>1, <2>2, <2>3 DEF RulesCurrent
  <2> QED BY <2>1, <2>4, <2>5
<1> QED BY <1>2, <1>3

-----------------------------------------------------------------------------
(* The routes, through every step.                                         *)

\* There are no routes at first.
LEMMA NumbersInitially == NumbersInit => NumbersInv
BY DEF NumbersInit, NumbersInv, NumbersType

\* Replacing one live route by a good one keeps all of them good.
LEMMA OneRouteChanges ==
  ASSUME NumbersInv, NEW r \in DOMAIN routesLive, NEW route \in NumberedRoute, RulesCurrent(route)
  PROVE  /\ [routesLive EXCEPT ![r] = route] \in Seq(NumberedRoute)
         /\ \A q \in DOMAIN [routesLive EXCEPT ![r] = route] : RulesCurrent([routesLive EXCEPT ![r] = route][q])
BY DEF NumbersInv, NumbersType

\* Parsing stages a route,
LEMMA ParseKeeps ==
  ASSUME NumbersInv, NEW readIn \in Bases, NEW b \in Bases, NEW stage \in Stages, Parse(readIn, b, stage)
  PROVE  NumbersInv'
<1>1. PICK n \in Nat : n = commandsRead + 1 /\ commandsRead' = n
  BY DEF NumbersInv, NumbersType, Parse
<1>2. ReadCommand(n, readIn) \in NumberedCommand
  BY DEF ReadCommand, NumberedCommand
<1>3. EmptyRoute \in NumberedRoute /\ RulesCurrent(EmptyRoute)
  BY DEF EmptyRoute, NumberedRoute, RulesCurrent
<1>4. PICK route \in NumberedRoute : RulesCurrent(route) /\ staged' = <<route>>
  BY <1>1, <1>2, <1>3, EditsAreSafe DEF Parse
<1>5. staged' \in Seq(NumberedRoute) /\ \A r \in DOMAIN staged' : RulesCurrent(staged'[r])
  BY <1>4
<1> QED BY <1>1, <1>5 DEF NumbersInv, NumbersType, Parse

\* which becomes live,
LEMMA SpliceKeeps ==
  ASSUME NumbersInv, Splice
  PROVE  NumbersInv'
<1>1. routesLive \in Seq(NumberedRoute) /\ staged \in Seq(NumberedRoute) /\ routesLive' = routesLive \o staged
  BY DEF NumbersInv, NumbersType, Splice
<1>2. ASSUME NEW r \in DOMAIN routesLive'
      PROVE  \/ r \in DOMAIN routesLive /\ routesLive'[r] = routesLive[r]
             \/ r - Len(routesLive) \in DOMAIN staged /\ routesLive'[r] = staged[r - Len(routesLive)]
  BY <1>1
<1>3. \A r \in DOMAIN routesLive' : RulesCurrent(routesLive'[r])
  BY <1>2 DEF NumbersInv
<1> QED BY <1>1, <1>3 DEF NumbersInv, NumbersType, Splice

\* or is dropped.
LEMMA DiscardKeeps ==
  ASSUME NumbersInv, Discard
  PROVE  NumbersInv'
BY DEF NumbersInv, NumbersType, Discard

\* Editing a live route and
LEMMA EditKeeps ==
  ASSUME NumbersInv, NEW r \in DOMAIN routesLive, Edit(r)
  PROVE  NumbersInv'
<1>1. routesLive[r] \in NumberedRoute /\ RulesCurrent(routesLive[r]) /\ base \in Bases /\ commandsRead \in Nat
  BY DEF NumbersInv, NumbersType
<1>2. ReadCommand(commandsRead + 1, base) \in NumberedCommand /\ commandsRead + 1 \in Nat
  BY <1>1 DEF ReadCommand, NumberedCommand
<1>3. /\ UNCHANGED <<base, saved, staged>>
      /\ commandsRead' \in Nat
      /\ \E route \in NumberedRoute : RulesCurrent(route) /\ routesLive' = [routesLive EXCEPT ![r] = route]
  <2>1. PICK stage \in Stages :
       \/ /\ commandsRead' = commandsRead + 1
          /\ \/ routesLive' = [routesLive EXCEPT ![r] = Added(@, stage, ReadCommand(commandsRead + 1, base))]
             \/ \E i \in DOMAIN routesLive[r][stage] :
                  routesLive' = [routesLive EXCEPT ![r] = Replaced(@, stage, i, ReadCommand(commandsRead + 1, base))]
       \/ /\ \E i \in DOMAIN routesLive[r][stage] : routesLive' = [routesLive EXCEPT ![r] = Removed(@, stage, i)]
          /\ UNCHANGED commandsRead
    BY DEF Edit
  <2>2. UNCHANGED <<base, saved, staged>>
    BY DEF Edit
  <2> QED BY <1>1, <1>2, <2>1, <2>2, EditsAreSafe
<1> QED BY <1>3, OneRouteChanges DEF NumbersInv, NumbersType

\* passing a message through one keep all rules good.
LEMMA MessageKeeps ==
  ASSUME NumbersInv, NEW r \in DOMAIN routesLive, MessagePasses(r)
  PROVE  NumbersInv'
<1> DEFINE route == routesLive[r]
<1>1. /\ route \in NumberedRoute /\ RulesCurrent(route) /\ base \in Bases
      /\ route.steps \in Seq(NumberedCommand) /\ route.converters \in Seq(NumberedCommand) /\ route.rules \in Seq(NumberedRule)
      /\ DOMAIN route = {"steps", "converters", "rules"}
  <2>1. route \in NumberedRoute /\ RulesCurrent(route) /\ base \in Bases
    BY DEF NumbersInv, NumbersType
  <2> QED BY <2>1 DEF NumberedRoute
<1>2. PICK reached \in 0 .. Len(route.steps) :
        LET done == [route EXCEPT !.steps = [i \in DOMAIN @ |-> IF i <= reached THEN Decoded(@[i]) ELSE @[i]]]
        IN routesLive' = [routesLive EXCEPT ![r] = IF reached = Len(done.steps) THEN [done EXCEPT !.rules = Rules(done)] ELSE done]
  BY DEF MessagePasses
<1> DEFINE decoded == [i \in DOMAIN route.steps |-> IF i <= reached THEN Decoded(route.steps[i]) ELSE route.steps[i]]
           done == [route EXCEPT !.steps = decoded]
<1>3. decoded \in Seq(NumberedCommand)
  <2>1. \A i \in DOMAIN route.steps : decoded[i] \in NumberedCommand
    BY <1>1, DecodingIsTyped
  <2> QED BY <1>1, <2>1
<1>4. done \in NumberedRoute /\ RulesCurrent(done)
  BY <1>1, <1>3, ClearingIsSafe
<1>5. \E after \in NumberedRoute : RulesCurrent(after) /\ routesLive' = [routesLive EXCEPT ![r] = after]
  <2>1. routesLive' = [routesLive EXCEPT ![r] = IF reached = Len(done.steps) THEN [done EXCEPT !.rules = Rules(done)] ELSE done]
    BY <1>2
  <2> HIDE DEF done
  <2>2. [done EXCEPT !.rules = Rules(done)] \in NumberedRoute /\ RulesCurrent([done EXCEPT !.rules = Rules(done)])
    BY <1>1, <1>4, RebuildingIsSafe
  <2> QED BY <1>4, <2>1, <2>2
<1>6. UNCHANGED <<base, saved, staged, commandsRead>>
  BY DEF MessagePasses
<1> QED BY <1>5, <1>6, OneRouteChanges DEF NumbersInv, NumbersType

\* Hence rules are good throughout.
LEMMA NumbersInvHolds == NumbersSpec => []NumbersInv
<1>1. ASSUME NumbersInv, [NumbersNext]_numberVars
      PROVE  NumbersInv'
  <2>1. ASSUME UNCHANGED numberVars PROVE NumbersInv'
    BY <1>1, <2>1 DEF numberVars, NumbersInv, NumbersType
  <2>2. ASSUME NEW readIn \in Bases, NEW b \in Bases, NEW stage \in Stages, Parse(readIn, b, stage)
        PROVE  NumbersInv'
    BY <1>1, <2>2, ParseKeeps
  <2>3. ASSUME NEW r \in DOMAIN routesLive, Edit(r) \/ MessagePasses(r)
        PROVE  NumbersInv'
    BY <1>1, <2>3, EditKeeps, MessageKeeps
  <2> QED BY <1>1, <2>1, <2>2, <2>3, SpliceKeeps, DiscardKeeps DEF NumbersNext
<1> QED BY <1>1, NumbersInitially, PTL DEF NumbersSpec

\* Whatever is started, rejected and edited while messages pass, rules that a
\* message would take by their number were made from the route's converters.
THEOREM RulesFollowConverters == NumbersSpec => []UsableRulesAreCurrent
<1>1. NumbersInv => UsableRulesAreCurrent
  BY DEF NumbersInv, UsableRulesAreCurrent, RulesCurrent
<1> QED BY <1>1, NumbersInvHolds, PTL

-----------------------------------------------------------------------------
(* What parser and validator make of a call.                               *)

\* The tokens of a call which the validator reads as the parser does: none is
\* skipped by one of them, and the options that the validator expects are always
\* those of a command. Behind a complete convert they are not.
ReadAlike(tokens) ==
  /\ tokens \in Seq(STRING)
  /\ \A i \in DOMAIN tokens : tokens[i] # "--"
  /\ \A k \in DOMAIN tokens :
       k + 1 \in DOMAIN tokens =>
         LET v == Validated(SubSeq(tokens, 1, k)) IN v.rejected \/ v.current # "" \/ v.remaining = 0

\* What the table says of options.
LEMMA TableFacts ==
  /\ \A token \in DOMAIN Table : Table[token].options \in Int
  /\ "convert" \in DOMAIN Table /\ Table["convert"].options = 4 /\ "" \notin DOMAIN Table
  /\ {"dec", "hex"} \subseteq DOMAIN Table /\ Table["dec"].options = 0 /\ Table["hex"].options = 0
<1>1. \A kind, options : Command(kind, options).options = options
  BY DEF Command
<1>2. /\ DOMAIN Table = {"in", "out", "panic", "dec", "hex", "omc", "not", "mon", "ch", "cc", "cp", "transp", "latch",
                         "sustain", "mpe", "convert", "mpesplit"}
      /\ "" \notin DOMAIN Table
  BY DEF Table
<1>3. /\ Table["in"].options = 1 /\ Table["out"].options = 1 /\ Table["panic"].options = 0
      /\ Table["dec"].options = 0 /\ Table["hex"].options = 0 /\ Table["omc"].options = 1
  BY <1>1 DEF Table
<1>4. /\ Table["not"].options = 0 /\ Table["mon"].options = 0 /\ Table["ch"].options = 1
      /\ Table["cc"].options = -1 /\ Table["cp"].options = 0 /\ Table["transp"].options = 1
  BY <1>1 DEF Table
<1>5. /\ Table["latch"].options = -1 /\ Table["sustain"].options = 0 /\ Table["mpe"].options = 2
      /\ Table["convert"].options = 4 /\ Table["mpesplit"].options = -1
  BY <1>1 DEF Table
<1>6. \A token \in DOMAIN Table : Table[token].options \in Int
  <2> TAKE token \in DOMAIN Table
  <2> QED BY <1>2, <1>3, <1>4, <1>5
<1> QED BY <1>2, <1>3, <1>5, <1>6

-----------------------------------------------------------------------------
(* The parser between two tokens.                                          *)

Fields == {"current", "negate", "nextId", "settings", "errors", "routes"}

\* A parser that reads some command, or none.
Parser(p) ==
  /\ DOMAIN p = Fields
  /\ DOMAIN p.current = {"name", "opts", "expected"}
  /\ p.current.expected \in Int

SameCommand(q, p) == DOMAIN q = Fields /\ q.current = p.current

\* A command that is executed touches routes and settings, not what is read next.
LEMMA ExecuteKeepsCommand ==
  ASSUME NEW p, NEW name, NEW opts, DOMAIN p = Fields
  PROVE  SameCommand(ExecuteCommand(p, name, opts), p)
<1> USE DEF Fields, SameCommand
<1>1. SameCommand(Failed(p), p) /\ SameCommand(FailedProcess(p), p)
  BY DEF Failed, FailedProcess
<1>2. ASSUME NEW r PROVE SameCommand(ChangeRoute(p, r), p)
  BY <1>1 DEF ChangeRoute
<1>3. SameCommand(RouteForNewInput(p), p)
  BY DEF RouteForNewInput
<1> DEFINE q == RouteForNewInput(p)
           joined == [q EXCEPT !.routes[Len(q.routes)].inputs = Append(@, opts[1])]
           done == CASE name = "" -> p
                     [] name = "in" -> joined
                     [] name = "out"   -> ChangeRoute(p, [CurrentRoute(p) EXCEPT !.outputs = Append(@, opts[1])])
                     [] name = "panic" -> ChangeRoute(p, [CurrentRoute(p) EXCEPT !.panic = TRUE])
                     [] name = "omc"   -> [p EXCEPT !.settings.octave = opts[1]]
                     [] name = "mon"   -> [p EXCEPT !.settings.monitor = TRUE]
                     [] name = "not"   -> [p EXCEPT !.negate = TRUE]
                     [] OTHER -> IF p.routes # <<>> /\ RefusedCommand(name, opts) THEN FailedProcess(p)
                                 ELSE ChangeRoute(p, AddProcessingCommand(CurrentRoute(p), name, opts, p.negate))
<1>4. SameCommand(joined, p)
  <2>1. SameCommand(q, p)
    BY <1>3
  <2> HIDE DEF q
  <2> QED BY <2>1
<1>5. SameCommand(done, p)
  <2>1. CASE name = ""
    BY <2>1
  <2>2. CASE name = "in"
    <3> HIDE DEF joined
    <3> QED BY <1>4, <2>2
  <2>3. CASE name = "out"
    BY <1>2, <2>3
  <2>4. CASE name = "panic"
    BY <1>2, <2>4
  <2>5. CASE name = "omc"
    BY <2>5
  <2>6. CASE name = "mon"
    BY <2>6
  <2>7. CASE name = "not"
    BY <2>7
  <2>8. CASE name \notin {"", "in", "out", "panic", "omc", "mon", "not"}
    <3>1. done = IF p.routes # <<>> /\ RefusedCommand(name, opts) THEN FailedProcess(p)
                 ELSE ChangeRoute(p, AddProcessingCommand(CurrentRoute(p), name, opts, p.negate))
      BY <2>8
    <3> HIDE DEF done
    <3> QED BY <1>1, <1>2, <3>1
  <2> QED BY <2>1, <2>2, <2>3, <2>4, <2>5, <2>6, <2>7, <2>8
<1>6. ExecuteCommand(p, name, opts) = IF name = "not" THEN done ELSE [done EXCEPT !.negate = FALSE]
  BY DEF ExecuteCommand
<1> HIDE DEF done
<1> QED BY <1>5, <1>6

\* Executing the command that was read leaves the parser without one.
LEMMA ExecutedIsDone ==
  ASSUME NEW p, Parser(p)
  PROVE  Parser(ExecuteCurrentCommand(p)) /\ ExecuteCurrentCommand(p).current = NoCommand
<1> DEFINE q == [p EXCEPT !.current = NoCommand]
<1>1. DOMAIN q = Fields /\ q.current = NoCommand
  BY DEF Parser, Fields
<1>2. SameCommand(ExecuteCurrentCommand(p), q)
  <2> HIDE DEF q
  <2>1. ExecuteCurrentCommand(p) = ExecuteCommand(q, p.current.name, p.current.opts)
    BY DEF ExecuteCurrentCommand, q
  <2> QED BY <1>1, <2>1, ExecuteKeepsCommand
<1> DEFINE r == ExecuteCurrentCommand(p)
<1>3. DOMAIN r = Fields /\ r.current = NoCommand
  <2> HIDE DEF q
  <2> QED BY <1>1, <1>2 DEF SameCommand
<1>4. NoCommand.expected = 0 /\ DOMAIN NoCommand = {"name", "opts", "expected"}
  BY DEF NoCommand
<1> HIDE DEF r
<1>5. r.current.expected = 0 /\ DOMAIN r.current = {"name", "opts", "expected"}
  BY <1>3, <1>4
<1> QED BY <1>3, <1>5 DEF Parser, r

-----------------------------------------------------------------------------
(* How parser and validator go through the same tokens.                    *)

Validator(v) ==
  DOMAIN v = {"rejected", "current", "remaining", "collected"} /\ v.rejected \in BOOLEAN /\ v.remaining \in Int

\* Between commands, or behind one that takes any number of options.
Between(p) == p.current = NoCommand \/ (p.current.expected < 0 /\ p.current.name # "convert")

\* Both read options of a command that has a fixed number of them.
BothCount(p, v) ==
  /\ v.remaining > 0 /\ v.current \notin {"", "convert"}
  /\ p.current.expected = v.remaining /\ p.current.name # "convert"

\* Both read the specification of a convert.
BothConvert(p, v) ==
  /\ v.remaining > 0 /\ v.current = "convert"
  /\ p.current.name = "convert" /\ p.current.expected = 4 /\ p.current.opts = v.collected

\* The parser is between commands, while the validator takes options of none.
Strays(p, v) == v.remaining > 0 /\ v.current = "" /\ p.current = NoCommand

Alike(p, v) ==
  \/ v.remaining = 0 /\ v.current # "convert" /\ Between(p)
  \/ BothCount(p, v)
  \/ BothConvert(p, v)
  \/ Strays(p, v)

InStep(p, v) == v.rejected \/ (Parser(p) /\ Validator(v) /\ Alike(p, v))

\* Every token but one is.
IsRead(token) == token # "--"

\* A parser that read a token, before a command that needs no more is executed.
LEMMA TokenIsRead ==
  ASSUME NEW p, NEW token, IsRead(token), Parser(p), Parser(ReadToken(p, token))
  PROVE  /\ Parser(ParseToken(p, token))
         /\ ReadToken(p, token).current.expected = 0 => ParseToken(p, token).current = NoCommand
         /\ ReadToken(p, token).current.expected # 0 => ParseToken(p, token) = ReadToken(p, token)
BY ExecutedIsDone DEF ParseToken, IsRead

\* The parser takes in an option, or a part of the specification of a convert.
LEMMA CollectIsParser ==
  ASSUME NEW p, NEW token, Parser(p)
  PROVE  /\ Parser(Collect(p, token)) /\ Collect(p, token).current.expected = p.current.expected - 1
         /\ Collect(p, token).current.name = p.current.name
         /\ Parser(CollectSpec(p, token)) /\ CollectSpec(p, token).current.name = p.current.name
         /\ CollectSpec(p, token).current.opts = Append(p.current.opts, token)
         /\ CollectSpec(p, token).current.expected =
              IF SpecComplete(Append(p.current.opts, token)) THEN 0 ELSE p.current.expected
<1> DEFINE opts == Append(p.current.opts, token)
<1>2. /\ Parser(Collect(p, token)) /\ Collect(p, token).current.expected = p.current.expected - 1
      /\ Collect(p, token).current.name = p.current.name
  <2>1. PICK e \in Int : e = p.current.expected - 1
    BY DEF Parser
  <2>2. Collect(p, token) = [p EXCEPT !.current.opts = opts, !.current.expected = e]
    BY <2>1 DEF Collect
  <2> DEFINE q == Collect(p, token)
  <2> HIDE DEF q, opts
  <2>3. Parser(q) /\ q.current.expected = e /\ q.current.name = p.current.name /\ q.current.opts = opts
    <3>1. q = [p EXCEPT !.current.opts = opts, !.current.expected = e]
      BY <2>2 DEF q
    <3>2. Parser(q) /\ q.current.expected = e
      BY <3>1 DEF Parser, Fields
    <3>3. q.current.name = p.current.name /\ q.current.opts = opts
      BY <3>1 DEF Parser, Fields
    <3> QED BY <3>2, <3>3
  <2> QED BY <2>1, <2>3 DEF q
<1>3. /\ Parser(CollectSpec(p, token)) /\ CollectSpec(p, token).current.name = p.current.name
      /\ CollectSpec(p, token).current.opts = opts
      /\ CollectSpec(p, token).current.expected = IF SpecComplete(opts) THEN 0 ELSE p.current.expected
  <2>1. PICK e \in Int : e = IF SpecComplete(opts) THEN 0 ELSE p.current.expected
    BY DEF Parser
  <2>2. CollectSpec(p, token) = [p EXCEPT !.current.opts = opts, !.current.expected = e]
    BY <2>1 DEF CollectSpec
  <2> DEFINE q == CollectSpec(p, token)
  <2> HIDE DEF q, opts
  <2>3. Parser(q) /\ q.current.expected = e /\ q.current.name = p.current.name /\ q.current.opts = opts
    <3>1. q = [p EXCEPT !.current.opts = opts, !.current.expected = e]
      BY <2>2 DEF q
    <3>2. Parser(q) /\ q.current.expected = e
      BY <3>1 DEF Parser, Fields
    <3>3. q.current.name = p.current.name /\ q.current.opts = opts
      BY <3>1 DEF Parser, Fields
    <3> QED BY <3>2, <3>3
  <2> QED BY <2>1, <2>3 DEF q
<1> QED BY <1>2, <1>3 DEF opts

\* Between commands no options are outstanding.
LEMMA BetweenCommands ==
  ASSUME NEW p, Parser(p), Between(p)
  PROVE  p.current.expected \in Int /\ p.current.expected <= 0 /\ (p.current.expected # 0 => p.current.name # "convert")
<1>1. p.current.expected \in Int
  BY DEF Parser
<1>2. CASE p.current = NoCommand
  <2>1. NoCommand.expected = 0
    BY DEF NoCommand
  <2>2. p.current.expected = 0
    BY <1>2, <2>1
  <2> QED BY <1>1, <2>2
<1>3. CASE p.current.expected < 0 /\ p.current.name # "convert"
  BY <1>1, <1>3
<1> QED BY <1>2, <1>3 DEF Between

\* The parser starts a command that is named.
LEMMA NameIsRead ==
  ASSUME NEW p, NEW token, Parser(p), Between(p), IsName(token), token \notin {"dec", "hex"}
  PROVE  /\ Parser(ReadToken(p, token))
         /\ ReadToken(p, token).current = [name |-> token, opts |-> <<>>, expected |-> Table[token].options]
<1> DEFINE q == HandleVarArgCommand(p)
<1>1. Parser(q)
  BY ExecutedIsDone DEF HandleVarArgCommand
<1>2. p.current.expected <= 0 /\ p.current.expected \in Int
  BY BetweenCommands
<1>3. ~(p.current.name = "convert" /\ p.current.expected # 0)
  BY BetweenCommands
<1> HIDE DEF q
<1>4. ReadToken(p, token) = [q EXCEPT !.current = [name |-> token, opts |-> <<>>, expected |-> Table[token].options]]
  <2>1. ~(p.current.expected > 0)
    BY <1>2
  <2>2. /\ ~(p.current.name # "convert" /\ p.current.expected > 0)
        /\ ~(p.current.expected <= 0 /\ token \in {"dec", "hex"})
        /\ p.current.expected <= 0 /\ IsName(token) /\ token \notin {"dec", "hex"}
        /\ ~(p.current.expected < 0 /\ ~IsName(token))
    BY <1>2, <2>1
  <2> QED BY <1>3, <2>2 DEF ReadToken, q
<1> DEFINE c == [name |-> token, opts |-> <<>>, expected |-> Table[token].options]
<1>5. DOMAIN c = {"name", "opts", "expected"} /\ c.expected \in Int
  BY TableFacts DEF IsName
<1>6. ReadToken(p, token).current = c
  BY <1>1, <1>4 DEF Parser, Fields
<1>7. DOMAIN ReadToken(p, token) = Fields
  BY <1>1, <1>4 DEF Parser
<1> HIDE DEF c
<1>8. Parser(ReadToken(p, token))
  BY <1>5, <1>6, <1>7 DEF Parser
<1> QED BY <1>6, <1>8 DEF c

\* Number bases change a setting only.
LEMMA BaseIsRead ==
  ASSUME NEW p, NEW token, Parser(p), Between(p), token \in {"dec", "hex"}
  PROVE  Parser(ReadToken(p, token)) /\ ReadToken(p, token).current = p.current
<1>1. p.current.expected <= 0 /\ p.current.expected \in Int
  BY BetweenCommands
<1>2. ~(p.current.name = "convert" /\ p.current.expected # 0)
  BY BetweenCommands
<1>3. ReadToken(p, token) = [p EXCEPT !.settings.hex = token = "hex"]
  <2>1. ~(p.current.expected > 0)
    BY <1>1
  <2>2. IsName(token)
    BY TableFacts DEF IsName
  <2> QED BY <1>1, <1>2, <2>1, <2>2 DEF ReadToken
<1> QED BY <1>3 DEF Parser, Fields

\* The validator takes in a part of the specification of a convert.
LEMMA SpecIsChecked ==
  ASSUME NEW v, NEW token, Validator(v), ~v.rejected, v.current = "convert",
         NEW w, w = ValidateToken(v, token)
  PROVE  LET opts == Append(v.collected, token) IN
         /\ Validator(w) /\ w.collected = opts /\ w.remaining = v.remaining
         /\ SpecComplete(opts) => w.current = ""
         /\ ~SpecComplete(opts) => w.current = "convert"
<1>0. PICK opts : opts = Append(v.collected, token)
  OBVIOUS
<1>1. w = [v EXCEPT !.collected = opts, !.current = IF SpecComplete(opts) THEN "" ELSE v.current]
  BY <1>0 DEF ValidateToken
<1>2. /\ Validator(w) /\ w.collected = opts /\ w.remaining = v.remaining
      /\ SpecComplete(opts) => w.current = ""
      /\ ~SpecComplete(opts) => w.current = "convert"
  BY <1>1 DEF Validator
<1> QED BY <1>0, <1>2

\* The validator counts an option.
LEMMA OptionIsChecked ==
  ASSUME NEW v, NEW token, Validator(v), ~v.rejected, v.current # "convert", v.remaining > 0,
         NEW w, w = ValidateToken(v, token)
  PROVE  /\ Validator(w) /\ w.remaining = v.remaining - 1
         /\ v.remaining = 1 => w.current = ""
         /\ v.remaining # 1 => w.current = v.current
<1> DEFINE opts == Append(v.collected, token)
           bad == (token = "-" /\ v.current \in {"in", "out"}) \/ (v.remaining = 1 /\ ShapeError(v.current, opts))
<1>1. w = [v EXCEPT !.collected = opts, !.remaining = @ - 1,
                    !.current = IF v.remaining = 1 THEN "" ELSE @, !.rejected = bad]
  BY Zenon DEF ValidateToken
<1>2. bad \in BOOLEAN
  OBVIOUS
<1> HIDE DEF opts, bad
<1>3. w = [v EXCEPT !.collected = opts, !.remaining = v.remaining - 1,
                    !.current = IF v.remaining = 1 THEN "" ELSE v.current, !.rejected = bad]
  BY <1>1
<1>4. Validator(w) /\ w.remaining = v.remaining - 1
  BY <1>2, <1>3 DEF Validator
<1>5. w.current = IF v.remaining = 1 THEN "" ELSE v.current
  BY <1>3 DEF Validator
<1> QED BY <1>4, <1>5

\* The validator refuses what names nothing, or takes it for another option.
LEMMA OtherIsChecked ==
  ASSUME NEW v, NEW token, Validator(v), ~v.rejected, v.current # "convert", v.remaining = 0, ~IsName(token),
         NEW w, w = ValidateToken(v, token)
  PROVE  w.rejected \/ (Validator(w) /\ w.current = v.current /\ w.remaining = 0)
<1>0. DOMAIN v = {"rejected", "current", "remaining", "collected"} /\ ~(v.remaining > 0)
  BY DEF Validator
<1>1. CASE v.current = ""
  <2>1. w = [v EXCEPT !.rejected = TRUE]
    BY <1>0, <1>1 DEF ValidateToken
  <2> QED BY <1>0, <2>1
<1>2. CASE v.current # ""
  <2> DEFINE opts == Append(v.collected, token)
  <2>1. w = [v EXCEPT !.collected = opts]
    BY <1>0, <1>2 DEF ValidateToken
  <2> HIDE DEF opts
  <2> QED BY <1>0, <2>1 DEF Validator
<1> QED BY <1>1, <1>2

\* A named command is started by both.
LEMMA NamesInStep ==
  ASSUME NEW p, NEW v, NEW token, IsRead(token), Parser(p), Validator(v), ~v.rejected,
         v.remaining = 0, v.current # "convert", Between(p), IsName(token),
         NEW w, w = ValidateToken(v, token), NEW q, q = ParseToken(p, token)
  PROVE  InStep(q, w)
<1>0. PICK fixed : fixed = Table[token].options
  OBVIOUS
<1>m. PICK m : m = ReadToken(p, token)
  OBVIOUS
<1>1. /\ Validator(w) /\ w.collected = <<>>
      /\ fixed = 0 => w.current = ""
      /\ fixed # 0 => w.current = token
      /\ fixed > 0 => w.remaining = fixed
      /\ fixed <= 0 => w.remaining = 0
  <2> DEFINE bad == Kind(token) = "denied" \/ ShapeError(v.current, v.collected)
  <2>1. w = [rejected |-> bad, current |-> IF fixed = 0 THEN "" ELSE token,
             remaining |-> IF fixed > 0 THEN fixed ELSE 0, collected |-> <<>>]
    <3>1. ~(v.remaining > 0)
      OBVIOUS
    <3> QED BY <1>0, <3>1, Zenon DEF ValidateToken
  <2>2. bad \in BOOLEAN /\ fixed \in Int
    BY <1>0, TableFacts DEF IsName
  <2> HIDE DEF bad
  <2>3. PICK remaining \in Int : remaining = IF fixed > 0 THEN fixed ELSE 0
    BY <2>2
  <2>4. PICK current : current = IF fixed = 0 THEN "" ELSE token
    OBVIOUS
  <2>5. w = [rejected |-> bad, current |-> current, remaining |-> remaining, collected |-> <<>>]
    BY <2>1, <2>3, <2>4
  <2>6. Validator(w) /\ w.collected = <<>> /\ w.current = current /\ w.remaining = remaining
    BY <2>2, <2>5 DEF Validator
  <2>7. (fixed = 0 => w.current = "") /\ (fixed # 0 => w.current = token)
    BY <2>4, <2>6
  <2>8. (fixed > 0 => w.remaining = fixed) /\ (fixed <= 0 => w.remaining = 0)
    BY <2>2, <2>3, <2>6
  <2> QED BY <2>6, <2>7, <2>8, Zenon
<1>1r. (fixed > 0 => w.remaining = fixed) /\ (fixed <= 0 => w.remaining = 0)
  BY <1>1, Zenon
<1>2. fixed \in Int
  BY <1>0, TableFacts DEF IsName
<1>2a. token # "" /\ (token = "convert" => fixed = 4)
  BY <1>0, TableFacts DEF IsName
<1>3. Parser(m)
  BY <1>m, NameIsRead, BaseIsRead
<1>4. Parser(q) /\ (m.current.expected = 0 => q.current = NoCommand) /\ (m.current.expected # 0 => q = m)
  BY <1>m, <1>3, TokenIsRead
<1>5. CASE token \in {"dec", "hex"}
  <2>1. fixed = 0 /\ m.current = p.current
    BY <1>0, <1>m, <1>5, BaseIsRead, TableFacts
  <2>2. Between(q)
    <3>1. CASE m.current.expected = 0
      BY <1>4, <3>1 DEF Between
    <3>2. CASE m.current.expected # 0
      <4>1. q.current = p.current
        BY <1>4, <2>1, <3>2
      <4> QED BY <4>1 DEF Between
    <3> QED BY <3>1, <3>2
  <2>3. w.current = ""
    BY <1>1, <2>1
  <2>4. w.remaining = 0
    BY <1>1r, <2>1
  <2>5. Alike(q, w)
    BY <2>2, <2>3, <2>4 DEF Alike
  <2> QED BY <1>1, <1>4, <2>5 DEF InStep
<1>6. CASE token \notin {"dec", "hex"}
  <2>1. m.current.name = token /\ m.current.opts = <<>> /\ m.current.expected = fixed
    <3>1. m.current = [name |-> token, opts |-> <<>>, expected |-> fixed]
      BY <1>0, <1>m, <1>6, NameIsRead
    <3> QED BY <3>1
  <2>2. CASE fixed = 0
    <3>1. Between(q)
      BY <1>4, <2>1, <2>2 DEF Between
    <3>2. w.remaining = 0
      BY <1>1r, <2>2
    <3>3. Alike(q, w)
      BY <1>1, <2>2, <3>1, <3>2 DEF Alike
    <3> QED BY <1>1, <1>4, <3>3 DEF InStep
  <2>3. CASE fixed < 0
    <3>1. fixed # 0
      BY <1>2, <2>3
    <3>1a. token # "convert"
      <4>1. fixed # 4
        BY <1>2, <2>3
      <4> QED BY <1>2a, <4>1
    <3>2. q = m
      BY <1>4, <2>1, <3>1
    <3>3. Between(q)
      BY <2>1, <2>3, <3>1a, <3>2 DEF Between
    <3>4. w.remaining = 0
      BY <1>1r, <1>2, <2>3
    <3>5. w.current = token
      BY <1>1, <3>1
    <3>6. Alike(q, w)
      BY <3>1a, <3>3, <3>4, <3>5 DEF Alike
    <3> QED BY <1>1, <1>4, <3>6 DEF InStep
  <2>4. CASE fixed > 0
    <3>1. fixed # 0
      BY <1>2, <2>4
    <3>2. q = m
      BY <1>4, <2>1, <3>1
    <3>3. w.remaining = fixed
      BY <1>1, <2>4
    <3>4. w.remaining > 0
      BY <2>4, <3>3
    <3>5. w.current = token
      BY <1>1, <3>1
    <3>6. CASE token = "convert"
      <4>1. q.current.expected = 4
        BY <1>2a, <2>1, <3>2, <3>6
      <4>2. BothConvert(q, w)
        BY <1>1, <2>1, <3>2, <3>4, <3>5, <3>6, <4>1, Zenon DEF BothConvert
      <4> QED BY <1>1, <1>4, <4>2 DEF InStep, Alike
    <3>7. CASE token # "convert"
      <4>1. q.current.expected = w.remaining
        BY <2>1, <3>2, <3>3
      <4>2. w.current \notin {"", "convert"} /\ q.current.name # "convert"
        BY <1>2a, <2>1, <3>2, <3>5, <3>7
      <4>3. BothCount(q, w)
        BY <3>4, <4>1, <4>2 DEF BothCount
      <4> QED BY <1>1, <1>4, <4>3 DEF InStep, Alike
    <3> QED BY <3>6, <3>7
  <2>5. fixed = 0 \/ fixed < 0 \/ fixed > 0
    BY <1>2
  <2> QED BY <2>2, <2>3, <2>4, <2>5
<1> QED BY <1>5, <1>6

\* A token that names nothing ends up behind a command with any number of
\* options, in both.
LEMMA OthersInStep ==
  ASSUME NEW p, NEW v, NEW token, IsRead(token), Parser(p), Validator(v), ~v.rejected,
         v.remaining = 0, v.current # "convert", Between(p), ~IsName(token),
         NEW w, w = ValidateToken(v, token), NEW q, q = ParseToken(p, token)
  PROVE  InStep(q, w)
<1>m. PICK m : m = ReadToken(p, token)
  OBVIOUS
<1>1. w.rejected \/ (Validator(w) /\ w.current = v.current /\ w.remaining = 0)
  BY OtherIsChecked
<1>2. p.current.expected \in Int /\ p.current.expected <= 0 /\ (p.current.expected # 0 => p.current.name # "convert")
  BY BetweenCommands
<1>3. token \notin {"dec", "hex"}
  BY TableFacts DEF IsName
<1>4. ASSUME Parser(m)
      PROVE  Parser(q) /\ (m.current.expected = 0 => q.current = NoCommand) /\ (m.current.expected # 0 => q = m)
  BY <1>m, <1>4, TokenIsRead
<1>5. Parser(q) /\ Between(q)
  <2>1. CASE p.current.expected < 0
    <3>1. m = Collect(p, token)
      BY <1>m, <1>2, <1>3, <2>1 DEF ReadToken
    <3>2. Parser(m) /\ m.current.expected = p.current.expected - 1 /\ m.current.name = p.current.name
      BY <3>1, CollectIsParser
    <3>3. m.current.expected < 0 /\ m.current.expected # 0 /\ m.current.name # "convert"
      BY <1>2, <2>1, <3>2
    <3>4. q = m
      BY <1>4, <3>2, <3>3
    <3> QED BY <3>2, <3>3, <3>4 DEF Between
  <2>2. CASE p.current.expected = 0
    <3>1. m = p
      BY <1>m, <1>2, <1>3, <2>2 DEF ReadToken
    <3>2. Parser(q) /\ q.current = NoCommand
      BY <1>4, <2>2, <3>1
    <3> QED BY <3>2 DEF Between
  <2> QED BY <1>2, <2>1, <2>2
<1> QED BY <1>1, <1>5 DEF InStep, Alike

\* Options are counted by both.
LEMMA OptionsInStep ==
  ASSUME NEW p, NEW v, NEW token, IsRead(token), Parser(p), Validator(v), ~v.rejected, BothCount(p, v),
         NEW w, w = ValidateToken(v, token), NEW q, q = ParseToken(p, token)
  PROVE  InStep(q, w)
<1>m. PICK m : m = ReadToken(p, token)
  OBVIOUS
<1>0. v.remaining > 0 /\ v.remaining \in Int /\ p.current.expected = v.remaining
  BY DEF BothCount, Validator
<1>0n. v.current \notin {"", "convert"} /\ p.current.name # "convert"
  BY DEF BothCount
<1>1. /\ Validator(w) /\ w.remaining = v.remaining - 1
      /\ v.remaining = 1 => w.current = ""
      /\ v.remaining # 1 => w.current = v.current
  BY <1>0, <1>0n, OptionIsChecked
<1>1r. w.remaining = v.remaining - 1
  BY <1>1
<1>2. m = Collect(p, token)
  <2>1. p.current.expected > 0
    BY <1>0
  <2>2. ~(p.current.expected <= 0) /\ ~(p.current.expected < 0)
    BY <1>0
  <2> QED BY <1>m, <1>0n, <2>1, <2>2, Zenon DEF ReadToken
<1>3. Parser(m) /\ m.current.expected = p.current.expected - 1 /\ m.current.name = p.current.name
  BY <1>2, CollectIsParser
<1>4. Parser(q) /\ (m.current.expected = 0 => q.current = NoCommand) /\ (m.current.expected # 0 => q = m)
  BY <1>m, <1>3, TokenIsRead
<1>5. m.current.expected = v.remaining - 1
  BY <1>0, <1>3
<1>6. CASE v.remaining = 1
  <2>1. m.current.expected = 0
    BY <1>5, <1>6
  <2>2. w.remaining = 0
    BY <1>1r, <1>6
  <2>3. Alike(q, w)
    BY <1>1, <1>4, <1>6, <2>1, <2>2 DEF Alike, Between
  <2> QED BY <1>1, <1>4, <2>3 DEF InStep
<1>7. CASE v.remaining # 1
  <2>1. w.remaining > 0
    BY <1>0, <1>1r, <1>7
  <2>2. m.current.expected # 0
    BY <1>0, <1>5, <1>7
  <2>3. q = m
    BY <1>4, <2>2
  <2>4. q.current.expected = w.remaining
    BY <1>1r, <1>5, <2>3
  <2>5. w.current \notin {"", "convert"} /\ q.current.name # "convert"
    BY <1>0n, <1>1, <1>3, <1>7, <2>3
  <2>6. BothCount(q, w)
    BY <2>1, <2>4, <2>5 DEF BothCount
  <2> QED BY <1>1, <1>4, <2>6 DEF InStep, Alike
<1> QED BY <1>6, <1>7

\* Both take the specification of a convert for complete at the same token.
LEMMA SpecInStep ==
  ASSUME NEW p, NEW v, NEW token, IsRead(token), Parser(p), Validator(v), ~v.rejected, BothConvert(p, v),
         NEW w, w = ValidateToken(v, token), NEW q, q = ParseToken(p, token)
  PROVE  InStep(q, w)
<1>m. PICK m : m = ReadToken(p, token)
  OBVIOUS
<1>o. PICK opts : opts = Append(v.collected, token)
  OBVIOUS
<1>0. /\ v.remaining > 0 /\ v.current = "convert"
      /\ p.current.name = "convert" /\ p.current.expected = 4 /\ p.current.opts = v.collected
  BY DEF BothConvert
<1>1. /\ Validator(w) /\ w.collected = opts /\ w.remaining = v.remaining
      /\ SpecComplete(opts) => w.current = ""
      /\ ~SpecComplete(opts) => w.current = "convert"
  BY <1>0, <1>o, SpecIsChecked
<1>2. m = CollectSpec(p, token)
  BY <1>m, <1>0 DEF ReadToken
<1>3. /\ Parser(m) /\ m.current.name = "convert" /\ m.current.opts = opts
      /\ m.current.expected = IF SpecComplete(opts) THEN 0 ELSE 4
  <2>1. Append(p.current.opts, token) = opts
    BY <1>0, <1>o
  <2> QED BY <1>0, <1>2, <2>1, CollectIsParser
<1>4. Parser(q) /\ (m.current.expected = 0 => q.current = NoCommand) /\ (m.current.expected # 0 => q = m)
  BY <1>m, <1>3, TokenIsRead
<1>5. CASE SpecComplete(opts)
  <2>1. m.current.expected = 0
    BY <1>3, <1>5
  <2>2. w.remaining > 0
    BY <1>0, <1>1
  <2>3. Strays(q, w)
    BY <1>1, <1>4, <1>5, <2>1, <2>2 DEF Strays
  <2> QED BY <1>1, <1>4, <2>3 DEF InStep, Alike
<1>6. CASE ~SpecComplete(opts)
  <2>1. m.current.expected = 4
    BY <1>3, <1>6
  <2>2. w.remaining > 0
    BY <1>0, <1>1
  <2>3. q = m
    BY <1>4, <2>1
  <2>4. BothConvert(q, w)
    BY <1>1, <1>3, <1>6, <2>1, <2>2, <2>3, Zenon DEF BothConvert
  <2> QED BY <1>1, <1>4, <2>4 DEF InStep, Alike
<1> QED BY <1>5, <1>6

\* One token keeps them in step, unless it is an option of no command.
LEMMA TokenKeepsStep ==
  ASSUME NEW p, NEW v, NEW token, IsRead(token), InStep(p, v), v.rejected \/ ~Strays(p, v)
  PROVE  InStep(ParseToken(p, token), ValidateToken(v, token))
<1>1. CASE v.rejected
  <2>1. ValidateToken(v, token) = v
    BY <1>1 DEF ValidateToken
  <2> QED BY <1>1, <2>1 DEF InStep
<1>2. CASE ~v.rejected
  <2>1. Parser(p) /\ Validator(v) /\ Alike(p, v) /\ ~Strays(p, v)
    BY <1>2 DEF InStep
  <2>2. CASE v.remaining = 0 /\ v.current # "convert" /\ Between(p)
    BY <1>2, <2>1, <2>2, NamesInStep, OthersInStep
  <2>3. CASE BothCount(p, v)
    BY <1>2, <2>1, <2>3, OptionsInStep
  <2>4. CASE BothConvert(p, v)
    BY <1>2, <2>1, <2>4, SpecInStep
  <2> QED BY <2>1, <2>2, <2>3, <2>4 DEF Alike
<1> QED BY <1>1, <1>2


-----------------------------------------------------------------------------
(* A whole call.                                                           *)

Start == [rejected |-> FALSE, current |-> "", remaining |-> 0, collected |-> <<>>]

\* Both read the tokens in a loop.
LEMMA FoldsOfTokens ==
  /\ \A p, tokens : FoldLeft(ParseToken, p, tokens) = Reading!Folded(p, tokens)
  /\ \A v, tokens : FoldLeft(ValidateToken, v, tokens) = Checking!Folded(v, tokens)
<1>1. \A p, tokens : FoldLeft(ParseToken, p, tokens) = Reading!Folded(p, tokens)
  BY DEF FoldLeft, MapThenFoldSet, Reading!Folded, Reading!IsFold, Reading!Top, Max
<1>2. \A v, tokens : FoldLeft(ValidateToken, v, tokens) = Checking!Folded(v, tokens)
  BY DEF FoldLeft, MapThenFoldSet, Checking!Folded, Checking!IsFold, Checking!Top, Max
<1> QED BY <1>1, <1>2

\* What the validator makes of the first tokens.
LEMMA FirstTokens ==
  ASSUME NEW tokens \in Seq(STRING), NEW n \in Nat, n = Len(tokens),
         NEW g, Checking!IsRun(g, n, Start, tokens), NEW k \in 1..n
  PROVE  Validated(SubSeq(tokens, 1, k)) = g[k]
<1> DEFINE first == SubSeq(tokens, 1, k)
<1>1. k \in Nat /\ k \in 0..n /\ DOMAIN first = 1..k /\ \A i \in 1..k : first[i] = tokens[i]
  OBVIOUS
<1> HIDE DEF first
<1>2. PICK q : Checking!IsRun(q, k, Start, first) /\ Checking!Folded(Start, first) = q[k]
  BY <1>1, Checking!FoldIsRun
<1>3. q[k] = g[k]
  BY <1>1, <1>2, Checking!RunsAgree
<1>4. Validated(first) = Checking!Folded(Start, first)
  BY FoldsOfTokens DEF Validated, Start
<1> QED BY <1>2, <1>3, <1>4 DEF first

\* Parser and validator are in step behind all of the tokens.
LEMMA CallKeepsStep ==
  ASSUME NEW p, Parser(p), p.current = NoCommand, NEW tokens, ReadAlike(tokens)
  PROVE  InStep(FoldLeft(ParseToken, p, tokens), Validated(tokens))
<1>1. tokens \in Seq(STRING) /\ \A i \in DOMAIN tokens : IsRead(tokens[i])
  BY DEF ReadAlike, IsRead
<1>2. PICK n \in Nat : n = Len(tokens) /\ DOMAIN tokens = 1..n
  BY <1>1
<1>3. PICK r : Reading!IsRun(r, n, p, tokens) /\ Reading!Folded(p, tokens) = r[n]
  BY <1>2, Reading!FoldIsRun
<1>4. PICK g : Checking!IsRun(g, n, Start, tokens) /\ Checking!Folded(Start, tokens) = g[n]
  BY <1>2, Checking!FoldIsRun
<1>5. /\ r[0] = p /\ \A k \in 1..n : r[k] = ParseToken(r[k - 1], tokens[k])
      /\ g[0] = Start /\ \A k \in 1..n : g[k] = ValidateToken(g[k - 1], tokens[k])
  BY <1>3, <1>4, Reading!RunStep, Checking!RunStep
<1> DEFINE A == {k \in 0..n : InStep(r[k], g[k])}
<1>6. Start.remaining = 0 /\ Start.current = "" /\ Validator(Start)
  BY DEF Start, Validator
<1>7. 0 \in A
  <2>1. InStep(p, Start)
    BY <1>6 DEF InStep, Alike, Between
  <2> QED BY <1>5, <2>1
<1>8. \A k \in 1..n : k - 1 \in A => k \in A
  <2> SUFFICES ASSUME NEW k \in 1..n, k - 1 \in A PROVE k \in A
    OBVIOUS
  <2>1. g[k - 1].rejected \/ ~Strays(r[k - 1], g[k - 1])
    <3>1. CASE k = 1
      <4>1. g[k - 1] = Start
        BY <1>5, <3>1
      <4>2. ~(g[k - 1].remaining > 0)
        <5>1. Start.remaining = 0
          BY DEF Start
        <5> QED BY <4>1, <5>1
      <4> QED BY <4>2 DEF Strays
    <3>2. CASE k # 1
      <4>1. k - 1 \in 1..n /\ k - 1 \in DOMAIN tokens /\ (k - 1) + 1 \in DOMAIN tokens
        BY <1>2, <3>2
      <4>2. Validated(SubSeq(tokens, 1, k - 1)) = g[k - 1]
        BY <1>1, <1>2, <1>4, <4>1, FirstTokens
      <4>3. g[k - 1].rejected \/ g[k - 1].current # "" \/ g[k - 1].remaining = 0
        BY <4>1, <4>2 DEF ReadAlike
      <4>4. CASE g[k - 1].remaining = 0
        <5>1. ~(g[k - 1].remaining > 0)
          BY <4>4
        <5> QED BY <5>1 DEF Strays
      <4>5. CASE g[k - 1].rejected \/ g[k - 1].current # ""
        BY <4>5 DEF Strays
      <4> QED BY <4>3, <4>4, <4>5
    <3> QED BY <3>1, <3>2
  <2>2. InStep(r[k - 1], g[k - 1]) /\ k \in 0..n
    OBVIOUS
  <2>3. IsRead(tokens[k])
    BY <1>1, <1>2
  <2>4. InStep(ParseToken(r[k - 1], tokens[k]), ValidateToken(g[k - 1], tokens[k]))
    BY <2>1, <2>2, <2>3, TokenKeepsStep
  <2>5. r[k] = ParseToken(r[k - 1], tokens[k]) /\ g[k] = ValidateToken(g[k - 1], tokens[k])
    BY <1>5
  <2> QED BY <2>2, <2>4, <2>5
<1>9. n \in A
  <2>1. n \in 0..n
    BY <1>2
  <2> HIDE DEF A
  <2> QED BY <1>7, <1>8, <2>1, Reading!UpTo
<1>10. FoldLeft(ParseToken, p, tokens) = r[n] /\ Validated(tokens) = g[n]
  BY <1>3, <1>4, FoldsOfTokens DEF Validated, Start
<1> QED BY <1>9, <1>10

\* What is accepted leaves the parser without a command.
LEMMA AcceptedIsRead ==
  ASSUME NEW p, Parser(p), p.current = NoCommand, NEW tokens, ReadAlike(tokens), ~Rejects(tokens)
  PROVE  Parser(ParseParameters(p, tokens)) /\ ParseParameters(p, tokens).current = NoCommand
<1>1. PICK q : q = FoldLeft(ParseToken, p, tokens)
  OBVIOUS
<1>2. PICK v : v = Validated(tokens)
  OBVIOUS
<1>3. ~v.rejected /\ (v.current = "" \/ (~(v.remaining > 0) /\ v.current # "convert"))
  BY <1>2 DEF Rejects
<1>4. Parser(q) /\ Alike(q, v)
  BY <1>1, <1>2, <1>3, CallKeepsStep DEF InStep
<1>5. Between(q)
  <2>1. CASE v.current = ""
    BY <1>4, <2>1 DEF Alike, BothCount, BothConvert, Strays, Between
  <2>2. CASE ~(v.remaining > 0)
    BY <1>4, <2>2 DEF Alike, BothCount, BothConvert, Strays, Between
  <2> QED BY <1>3, <2>1, <2>2
<1>6. ParseParameters(p, tokens) = HandleVarArgCommand(q)
  BY <1>1 DEF ParseParameters
<1>7. CASE q.current.expected < 0
  BY <1>4, <1>6, <1>7, ExecutedIsDone DEF HandleVarArgCommand
<1>8. CASE ~(q.current.expected < 0)
  <2>1. q.current = NoCommand
    BY <1>5, <1>8 DEF Between
  <2> QED BY <1>4, <1>6, <1>8, <2>1 DEF HandleVarArgCommand
<1> QED BY <1>7, <1>8

\* A call to start routes leaves an idle parser idle.
LEMMA StartKeepsIdle ==
  ASSUME ParserIsIdle, NEW call, ReadAlike(FlattenSeq(call)), StartRoute(call)
  PROVE  ParserIsIdle'
<1> DEFINE tokens == FlattenSeq(call)
           p == ParseInto(tokens)
<1>1. parser' = parser \/ (~Rejects(tokens) /\ parser' = Parsed(p))
  BY DEF StartRoute
<1>2. ASSUME ~Rejects(tokens) PROVE p.current = NoCommand /\ p.negate = FALSE
  <2> DEFINE before == [current |-> parser.current, negate |-> parser.negate, nextId |-> parser.nextId,
                        settings |-> settings, errors |-> FALSE, routes |-> <<>>]
             after == ParseParameters(before, tokens)
  <2>1. p = [after EXCEPT !.negate = FALSE]
    BY DEF ParseInto
  <2>2. Parser(before) /\ before.current = NoCommand
    <3>1. DOMAIN before = Fields
      BY DEF Fields
    <3>2. before.current = NoCommand
      BY DEF ParserIsIdle
    <3>3. NoCommand.expected = 0 /\ DOMAIN NoCommand = {"name", "opts", "expected"}
      BY DEF NoCommand
    <3> HIDE DEF before
    <3>4. before.current.expected = 0 /\ DOMAIN before.current = {"name", "opts", "expected"}
      BY <3>2, <3>3
    <3> QED BY <3>1, <3>2, <3>4 DEF Parser
  <2> HIDE DEF before, tokens
  <2>3. ReadAlike(tokens)
    BY DEF tokens
  <2>4. Parser(after) /\ after.current = NoCommand
    BY <1>2, <2>2, <2>3, AcceptedIsRead
  <2> HIDE DEF after, p
  <2> QED BY <2>1, <2>4 DEF Parser, Fields
<1> HIDE DEF p, tokens
<1>3. ASSUME ~Rejects(tokens), parser' = Parsed(p) PROVE ParserIsIdle'
  <2>1. parser'.current = p.current /\ parser'.negate = p.negate
    BY <1>3 DEF Parsed
  <2> QED BY <1>2, <1>3, <2>1 DEF ParserIsIdle
<1> QED BY <1>1, <1>3 DEF ParserIsIdle

\* McpServer.cpp:860-863: no accepted call leaves the parser waiting for options
\* or negating, whatever the client starts, edits and stops, in any number of
\* calls; what the validator passes over unread behind a complete convert is the
\* one exception (see ReadAlike).
THEOREM AcceptedCallsEndIdle ==
  ASSUME \A call \in Openings \union FollowUps : ReadAlike(FlattenSeq(call))
  PROVE  McpSpec => []ParserIsIdle
<1>1. McpInit => ParserIsIdle
  BY DEF McpInit, ParserIsIdle
<1>2. ASSUME ParserIsIdle, [McpNext]_mcpVars
      PROVE  ParserIsIdle'
  <2>1. CASE UNCHANGED parser
    BY <1>2, <2>1 DEF ParserIsIdle
  <2>2. CASE \E call \in Openings \union FollowUps : StartRoute(call)
    BY <1>2, <2>2, StartKeepsIdle
  <2>3. UNCHANGED parser \/ \E call \in Openings \union FollowUps : StartRoute(call)
    <3>1. CASE UNCHANGED mcpVars
      BY <3>1 DEF mcpVars
    <3>2. CASE SessionOver
      BY <3>2 DEF SessionOver, mcpVars
    <3>3. CASE Call
      BY <3>3 DEF Call, StopRoute, AddCommands, ReplaceCommand, RemoveCommand
    <3>4. CASE Decide
      BY <3>4 DEF Decide, RefuseErrors, RefuseNoRoute, RefuseNoOutput, RefuseTooMany, Refuse, SpliceStaged
    <3> QED BY <1>2, <3>1, <3>2, <3>3, <3>4 DEF McpNext
  <2> QED BY <2>1, <2>2, <2>3
<1> QED BY <1>1, <1>2, PTL DEF McpSpec
=============================================================================
