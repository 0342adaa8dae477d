---------------------------- MODULE RouteParser ----------------------------
(* The three readers of command tokens: parseParameters, which builds       *)
(* routes, validateMcpCommandTokens, which is to accept only what leaves    *)
(* that parser with nothing half read, and collectProcessingCommands, for   *)
(* edits of a live route. The commands are one or two of every kind.        *)
EXTENDS Integers, Sequences, SequencesExt, FiniteSetsExt

\* What each command is and how many options it takes; from -1 down any number.
\* convert takes as many as its specification needs.
Command(kind, options) == [kind |-> kind, options |-> options]
Table ==
  [in |-> Command("in", 1), out |-> Command("out", 1), panic |-> Command("panic", 0),
   dec |-> Command("number base", 0), hex |-> Command("number base", 0), omc |-> Command("octave", 1),
   not |-> Command("not", 0), mon |-> Command("denied", 0),
   ch |-> Command("selector", 1), cc |-> Command("selector", -1), cp |-> Command("filter", 0),
   transp |-> Command("transform", 1), latch |-> Command("transform", -1), sustain |-> Command("transform", 0),
   mpe |-> Command("zones", 2), convert |-> Command("convert", 4), mpesplit |-> Command("split", -1)]

IsName(token) == token \in DOMAIN Table
Kind(name) == Table[name].kind

RouteStages == {"filters", "transforms", "mpe", "conversions", "split"}
StageOf(kind) ==
  CASE kind \in {"selector", "filter"} -> "filters"
    [] kind = "transform"              -> "transforms"
    [] kind = "zones"                  -> "mpe"
    [] kind = "convert"                -> "conversions"
    [] kind = "split"                  -> "split"

IsProcessing(kind) == kind \in {"selector", "filter", "transform", "zones", "convert", "split"}

Zones == {"lower", "upper"}
Numbers == {"7", "9"}

\* parseSpec: srctype [number] dsttype [number], with the place of the dsttype.
ConvertTypes == {"cc", "cc14", "rpn", "nrpn", "pb", "cp", "pc", "pp"}
Numbered == {"cc", "cc14", "rpn", "nrpn"}
NumberGiven(opts) ==
  \/ opts[1] \in Numbered
  \/ opts[1] = "pp" /\ Len(opts) > 1 /\ opts[2] \notin ConvertTypes
Destination(opts) == IF NumberGiven(opts) THEN 3 ELSE 2

SpecComplete(opts) ==
  /\ opts # <<>> /\ opts[1] \in ConvertTypes
  /\ Len(opts) >= Destination(opts) /\ opts[Destination(opts)] \in ConvertTypes
  /\ opts[Destination(opts)] \in Numbered \union {"pp"} => Len(opts) > Destination(opts)

\* A complete specification in the fixed form of the converter: no note of pp is
\* any note, a type without number has number zero.
ParsedSpec(opts) ==
  LET dst == Destination(opts)
  IN <<opts[1], IF NumberGiven(opts) THEN opts[2] ELSE IF opts[1] = "pp" THEN "-1" ELSE "0",
       opts[dst], IF opts[dst] \in Numbered \union {"pp"} THEN opts[dst + 1] ELSE "0">>

\* argumentShapeError, of no command as well.
ShapeError(name, opts) == name # "" /\ Kind(name) = "selector" /\ \E i \in DOMAIN opts : opts[i] \notin Numbers

-----------------------------------------------------------------------------
(* Routes and the commands that are added to them.                         *)

NewRoute(id) ==
  [id |-> id, inputs |-> <<>>, outputs |-> <<>>, panic |-> FALSE, commands |-> [s \in RouteStages |-> <<>>]]

Entered(name, opts, negate) == [name |-> name, opts |-> opts, negate |-> negate]

RefusedCommand(name, opts) ==
  CASE Kind(name) = "convert"  -> ~SpecComplete(opts)
    [] Kind(name) = "zones"    -> \E i \in 1..2 : opts[i] \notin Zones
    [] Kind(name) = "split"    -> opts = <<>> \/ opts[1] \notin Zones
    [] Kind(name) = "selector" -> ShapeError(name, opts)
    [] OTHER                   -> FALSE

\* addProcessingCommand: only filters are negated, a route has one split.
AddProcessingCommand(route, name, opts, negate) ==
  LET stage == StageOf(Kind(name))
      entry == Entered(name, IF name = "convert" THEN ParsedSpec(opts) ELSE opts, negate /\ stage = "filters")
  IN [route EXCEPT !.commands[stage] = IF stage = "split" THEN <<entry>> ELSE Append(@, entry)]

-----------------------------------------------------------------------------
(* parseParameters. The parser keeps, from one call to the next, the       *)
(* command it reads and whether a "not" came before.                       *)

NoCommand == [name |-> "", opts |-> <<>>, expected |-> 0]

\* Mutant: an input after an output joins the route.
RouteForNewInputJoined(p) ==
  IF p.routes = <<>> THEN [p EXCEPT !.routes = <<NewRoute(p.nextId)>>, !.nextId = @ + 1] ELSE p

RouteForNewInput(p) ==
  IF p.routes = <<>> \/ Last(p.routes).outputs # <<>>
  THEN [p EXCEPT !.routes = Append(@, NewRoute(p.nextId)), !.nextId = @ + 1]
  ELSE p

\* A command that is refused also fails the process, once it ends.
Failed(p) == [p EXCEPT !.errors = TRUE]
FailedProcess(p) == [p EXCEPT !.errors = TRUE, !.settings.failed = TRUE]
CurrentRoute(p) == Last(p.routes)
ChangeRoute(p, changed) == IF p.routes = <<>> THEN Failed(p) ELSE [p EXCEPT !.routes[Len(p.routes)] = changed]

\* executeCommand: all but "not" use up a "not".
ExecuteCommand(p, name, opts) ==
  LET done == CASE name = "" -> p
                [] name = "in" ->
                     LET q == RouteForNewInput(p)
                     IN [q EXCEPT !.routes[Len(q.routes)].inputs = Append(@, opts[1])]
                [] name = "out"   -> ChangeRoute(p, [CurrentRoute(p) EXCEPT !.outputs = Append(@, opts[1])])
                [] name = "panic" -> ChangeRoute(p, [CurrentRoute(p) EXCEPT !.panic = TRUE])
                [] name = "omc"   -> [p EXCEPT !.settings.octave = opts[1]]
                [] name = "mon"   -> [p EXCEPT !.settings.monitor = TRUE]
                [] name = "not"   -> [p EXCEPT !.negate = TRUE]
                [] OTHER -> IF p.routes # <<>> /\ RefusedCommand(name, opts) THEN FailedProcess(p)
                            ELSE ChangeRoute(p, AddProcessingCommand(CurrentRoute(p), name, opts, p.negate))
  IN IF name = "not" THEN done ELSE [done EXCEPT !.negate = FALSE]

ExecuteCurrentCommand(p) == ExecuteCommand([p EXCEPT !.current = NoCommand], p.current.name, p.current.opts)

\* A command with any number of options ends where the next one begins.
HandleVarArgCommand(p) == IF p.current.expected < 0 THEN ExecuteCurrentCommand(p) ELSE p

Collect(p, token) == [p EXCEPT !.current.opts = Append(@, token), !.current.expected = @ - 1]

CollectSpec(p, token) ==
  LET opts == Append(p.current.opts, token)
  IN [p EXCEPT !.current.opts = opts, !.current.expected = IF SpecComplete(opts) THEN 0 ELSE @]

ReadToken(p, token) ==
  CASE p.current.name = "convert" /\ p.current.expected # 0 -> CollectSpec(p, token)
    [] p.current.name # "convert" /\ p.current.expected > 0  -> Collect(p, token)
    [] p.current.expected <= 0 /\ token \in {"dec", "hex"}   -> [p EXCEPT !.settings.hex = token = "hex"]
    [] p.current.expected <= 0 /\ IsName(token) /\ token \notin {"dec", "hex"} ->
         [HandleVarArgCommand(p) EXCEPT !.current =
            [name |-> token, opts |-> <<>>, expected |-> Table[token].options]]
    [] p.current.expected < 0 /\ ~IsName(token) -> Collect(p, token)
    [] OTHER -> p

\* "--" is skipped wherever it stands.
ParseToken(p, token) ==
  IF token = "--" THEN p
  ELSE LET q == ReadToken(p, token) IN IF q.current.expected = 0 THEN ExecuteCurrentCommand(q) ELSE q

ParseParameters(p, tokens) == HandleVarArgCommand(FoldLeft(ParseToken, p, tokens))

-----------------------------------------------------------------------------
(* validateMcpCommandTokens. The count of options that convert starts is   *)
(* left as it is when its specification is complete, so the next four      *)
(* tokens are taken for options of no command. Where one of them is "-"    *)
(* the program reads the kind of no command, which is undefined; no call   *)
(* of the runs has it there.                                               *)

ValidateToken(v, token) ==
  IF v.rejected THEN v
  ELSE IF v.current = "convert"
  THEN LET opts == Append(v.collected, token)
       IN [v EXCEPT !.collected = opts, !.current = IF SpecComplete(opts) THEN "" ELSE @]
  ELSE IF v.remaining > 0
  THEN LET opts == Append(v.collected, token)
           last == v.remaining = 1
       IN [v EXCEPT !.collected = opts, !.remaining = @ - 1, !.current = IF last THEN "" ELSE @,
                    !.rejected = (token = "-" /\ v.current \in {"in", "out"}) \/ (last /\ ShapeError(v.current, opts))]
  ELSE IF IsName(token)
  THEN LET fixed == Table[token].options
       IN [rejected  |-> Kind(token) = "denied" \/ ShapeError(v.current, v.collected),
           current   |-> IF fixed = 0 THEN "" ELSE token,
           remaining |-> IF fixed > 0 THEN fixed ELSE 0,
           collected |-> <<>>]
  ELSE IF v.current = "" THEN [v EXCEPT !.rejected = TRUE]
  ELSE [v EXCEPT !.collected = Append(@, token)]

Validated(tokens) ==
  FoldLeft(ValidateToken, [rejected |-> FALSE, current |-> "", remaining |-> 0, collected |-> <<>>], tokens)

\* Mutant: a command that misses options at the end goes unnoticed.
RejectsUnfinished(tokens) == Validated(tokens).rejected

Rejects(tokens) ==
  LET v == Validated(tokens)
  IN \/ v.rejected
     \/ v.current # "" /\ (v.remaining > 0 \/ v.current = "convert")
     \/ ShapeError(v.current, v.collected)

-----------------------------------------------------------------------------
(* collectProcessingCommands, of tokens that were accepted.                *)

FinishCurrent(c) ==
  IF c.name = "" THEN c ELSE [c EXCEPT !.out = Append(@, Entered(c.name, c.opts, c.negate)), !.name = ""]

CollectToken(c, token) ==
  LET more == [c EXCEPT !.opts = Append(@, token), !.remaining = @ - 1]
      done == FinishCurrent(c)
  IN IF c.name = "convert" THEN IF SpecComplete(more.opts) THEN FinishCurrent(more) ELSE more
     ELSE IF c.name # "" /\ c.remaining > 0 THEN IF more.remaining = 0 THEN FinishCurrent(more) ELSE more
     ELSE IF ~IsName(token) THEN IF c.name = "" THEN [c EXCEPT !.failed = TRUE] ELSE more
     ELSE IF token = "not" THEN [done EXCEPT !.pending = TRUE]
     ELSE IF ~IsProcessing(Kind(token)) THEN [done EXCEPT !.failed = TRUE]
     ELSE LET begun == [done EXCEPT !.name = token, !.opts = <<>>, !.negate = done.pending, !.pending = FALSE,
                                    !.remaining = Table[token].options]
          IN IF begun.remaining = 0 THEN FinishCurrent(begun) ELSE begun

\* The commands of the tokens, or none if they cannot be added to a route.
CollectProcessingCommands(tokens) ==
  LET c == FinishCurrent(FoldLeft(CollectToken,
             [name |-> "", opts |-> <<>>, negate |-> FALSE, remaining |-> 0, pending |-> FALSE,
              failed |-> FALSE, out |-> <<>>], tokens))
  IN IF c.failed THEN <<>> ELSE c.out
=============================================================================
