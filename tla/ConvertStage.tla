---------------------------- MODULE ConvertStage ----------------------------
(* The filters and the converters of a route on one channel, between a     *)
(* device that sends (N)RPN, 14-bit pairs and controllers, and a receiver  *)
(* that follows selections.                                                *)
EXTENDS Conversion, Filters, FiniteSets

CONSTANTS
  Setups,        \* a route's filters and rules with the sources of its device
  CoarseBytes,   \* the values it sends as MSBs, and alone
  FineBytes,     \* the values it sends as LSBs
  MsbFirst       \* a device sends no LSB before the MSB of its selection

VARIABLES
  filters,       \* route.filters
  filterState,   \* the input's rpnFilter and cc14RangeMsb
  rules,         \* route.convertRules
  converter,     \* the input's conversion::State
  selected,      \* the parameter selected on the device, or Nothing
  toSend,        \* what the device has yet to send of a select or a null
  msbs,          \* the last MSB per source, -1 since its last select
  halves,        \* the last half per source: "none", "msb", "lsb" or "lost"
  receiver,      \* what the receiver has selected
  latest         \* what the device sent last and what it changed

convertVars == <<filters, filterState, rules, converter, selected, toSend, msbs, halves, receiver, latest>>

Source(kind, number) == [kind |-> kind, number |-> number]
Nothing == Source("none", 0)

\* What the device of this setup sends: parameters and 14-bit controllers.
Sources == DOMAIN msbs
Pairs == {s \in Sources : s.kind = "cc14"}
Parameters == Sources \ Pairs

-----------------------------------------------------------------------------
(* The receiver: what each message changes, and to what. A change holds    *)
(* the value and, of a 14-bit value, its LSB; -1 for a byte not heard.     *)

Change(to, value, fine) == [to |-> to, value |-> value, fine |-> fine]

ReceiverParam(s) == Source(IF s.nrpn THEN "nrpn" ELSE "rpn", Param(s))

\* The LSB completes the change that the MSB before it made.
Completed(changes, to, fine) ==
  LET of == {x \in changes : x.to = to}
  IN (changes \ of) \union
     (IF of = {} THEN {Change(to, -1, fine)} ELSE {Change(to, x.value, fine) : x \in of})

\* What a controller addresses: the selected parameter, a pair or itself.
Addressed(s, number) ==
  CASE number \in {6, 38, 96, 97} /\ Param(s) # NoParam -> ReceiverParam(s)
    [] number < 64 /\ number % 32 \in PairControllers   -> Source("cc14", number % 32)
    [] OTHER                                            -> Source("cc", number)

Hear(r, m) ==
  IF m.kind # "cc"
  THEN [r EXCEPT !.changes = @ \union {Change(Source(m.kind, m.number), m.value, -1)}]
  ELSE IF m.number \in Selects THEN [r EXCEPT !.selection = TrackSelect(@, m.number, m.value)]
  ELSE LET to == Addressed(r.selection, m.number)
       IN [r EXCEPT !.changes = IF IsLsb(m.number) THEN Completed(@, to, m.value)
                                ELSE @ \union {Change(to, m.value, -1)}]

\* processRouteMessage: the filters, then the converters if there are any.
Through(m) ==
  IF ~PassesFilters(filters, filterState', m) THEN Converted(converter, <<>>)
  ELSE IF rules = <<>> THEN Converted(converter, <<m>>) ELSE ProcessMessage(rules, converter, m)

\* Message m of the device, half a value of source, passes through the route.
\* Every step of the device ends up here.
Deliver(m, source, half) ==
  /\ filterState' = Tracked(filters, filterState, m)
  /\ \E result \in {Through(m)} :
     \E heard \in {FoldLeft(Hear, [selection |-> receiver, changes |-> {}], result.out)} :
     /\ converter' = result.state
     /\ receiver' = heard.selection
     /\ latest' = [source |-> source, half |-> half, byte |-> m.value, changes |-> heard.changes]
     /\ UNCHANGED <<filters, rules>>

\* The device's channel is the one that the filter at i is for: the last "ch" in
\* front of it names it, unless there is none.
Here(i) ==
  \A j \in 1..(i - 1) : \/ ~IsScope(filters[j]) \/ Within(filters[j].numbers, DeviceChannel)
                        \/ \E k \in (j + 1)..(i - 1) : IsScope(filters[k])

\* Whether a filter names a source: by its channel, by its kind and number, or by
\* the MSB that was sent.
Names(i, source) ==
  LET f == filters[i]
  IN CASE f.kind = "ch"        -> Within(f.numbers, DeviceChannel)
       [] f.kind = "cc14range" -> /\ Here(i) /\ source = Source("cc14", f.numbers.low)
                                  /\ \E v \in 128 * msbs[source]..128 * msbs[source] + 127 : Within(f.window, v)
       [] OTHER -> Here(i) /\ source.kind = f.kind /\ Within(f.numbers, source.number)

\* What the filters mean to pass: what a positive one names, everything of the
\* last channel when all of them are of channels, and nothing that a "not" names.
Wanted(source) ==
  LET negative == {i \in DOMAIN filters : filters[i].negate}
      positive == {i \in DOMAIN filters : filters[i].kind # "ch"} \ negative
  IN /\ IF positive = {} THEN Here(Len(filters) + 1) ELSE \E i \in positive : Names(i, source)
     /\ \A i \in negative : ~Names(i, source)

-----------------------------------------------------------------------------
(* The device.                                                             *)

SelectMessages(p, number) ==
  {CC(IF p.kind = "nrpn" THEN 99 ELSE 101, number \div 128), CC(IF p.kind = "nrpn" THEN 98 ELSE 100, number % 128)}

\* The two messages of a select or a null, in either order. A filter for one
\* parameter is for devices that send the MSB first.
Begin(messages) ==
  \E first \in messages :
    /\ filters # <<>> => first.number \in MsbSelects
    /\ toSend' = messages \ {first}
    /\ Deliver(first, Nothing, "select")
    /\ UNCHANGED halves

Select(p) ==
  /\ toSend = {}
  /\ Begin(SelectMessages(p, p.number))
  /\ selected' = p
  /\ msbs' = [msbs EXCEPT ![p] = -1]

\* Either null closes a parameter.
Close(p) ==
  /\ toSend = {} /\ selected # Nothing
  /\ Begin(SelectMessages(p, 128 * 127 + 127))
  /\ selected' = Nothing
  /\ UNCHANGED msbs

SendRest ==
  \E m \in toSend :
    /\ toSend' = toSend \ {m}
    /\ Deliver(m, Nothing, "select")
    /\ UNCHANGED <<selected, msbs, halves>>

\* The data entry that source uses, the controllers of a pair its own number.
Entry(source) == IF source \in Pairs THEN source.number ELSE 6

\* 6 and 38 are a pair only for a device that has no parameter selected.
MaySend(source) ==
  /\ toSend = {}
  /\ IF source \in Pairs THEN source.number = 6 => selected = Nothing ELSE selected = source

SendMsb(source, v) ==
  /\ MaySend(source)
  /\ msbs' = [msbs EXCEPT ![source] = v]
  /\ halves' = [halves EXCEPT ![source] = "msb"]
  /\ Deliver(CC(Entry(source), v), source, "msb")
  /\ UNCHANGED <<selected, toSend>>

\* An LSB that passes makes the stage forget the pairing of other parameters of
\* its kind.
SendLsb(source, v) ==
  /\ MaySend(source)
  /\ MsbFirst => msbs[source] >= 0
  /\ halves' = [s \in Sources |->
       IF s = source THEN "lsb"
       ELSE IF Wanted(source) /\ s.kind = source.kind /\ s \in Parameters /\ halves[s] = "lsb" THEN "lost" ELSE halves[s]]
  /\ Deliver(CC(Entry(source) + 32, v), source, "lsb")
  /\ UNCHANGED <<selected, toSend, msbs>>

Increment(p) ==
  /\ MaySend(p)
  /\ Deliver(CC(96, 0), p, "step")
  /\ UNCHANGED <<selected, toSend, msbs, halves>>

\* A controller may also come between the two halves of a select.
Turn(n, v) ==
  /\ Deliver(CC(n, v), Source("cc", n), "msb")
  /\ UNCHANGED <<selected, toSend, msbs, halves>>

ConvertInit ==
  /\ \E setup \in Setups :
       /\ filters = setup.filters /\ rules = setup.rules
       /\ msbs = [s \in setup.sources |-> -1]
       /\ halves = [s \in setup.sources |-> "none"]
  /\ filterState = FreshFilterState
  /\ converter = FreshConverter
  /\ selected = Nothing
  /\ toSend = {}
  /\ receiver = NoSelection
  /\ latest = [source |-> Nothing, half |-> "select", byte |-> 0, changes |-> {}]

ConvertNext ==
  \/ \E p \in Parameters : Select(p) \/ Close(p) \/ Increment(p)
  \/ SendRest
  \/ \E s \in Sources : (\E v \in CoarseBytes : SendMsb(s, v)) \/ (\E v \in FineBytes : SendLsb(s, v))
  \/ Turn(20, 0)

ConvertSpec == ConvertInit /\ [][ConvertNext]_convertVars
-----------------------------------------------------------------------------
(* Properties.                                                             *)

Takes(r, source) == r.src = source.kind /\ r.srcNum = source.number
Takers(source)   == {r \in {rules[i] : i \in DOMAIN rules} : Takes(r, source)}
Converts(source) == {r \in Takers(source) : r.op = "convert"}

\* A null that closes a parameter that a rule takes is consumed, also when the
\* device had selected that parameter over one that the receiver has selected
\* since. Bare 6 and 38 then reach the latter; this is left as it is.
Itself(source) ==
  IF source = Source("cc14", 6) /\ Param(receiver) # NoParam THEN ReceiverParam(receiver) ELSE source

\* Where the rules mean a source to go: to their destinations, or to itself.
Meant(source) ==
  IF Converts(source) = {} THEN {Itself(source)} ELSE {Source(r.dst, r.dstNum) : r \in Converts(source)}

\* README.md:333: only the traffic that the filters name passes; data of any
\* other parameter, which shares its controllers, changes nothing. What they want
\* and no rule takes arrives, also the data of a parameter, whose selects and
\* data pass a filter one by one.
OnlyTheWantedArrives ==
  latest.half # "select" =>
    /\ ~Wanted(latest.source) => latest.changes = {}
    /\ (Wanted(latest.source) /\ Takers(latest.source) = {}) => latest.changes # {}

\* FilterTests.cpp:660, "negated nrpn/rpn parameter filters block just that
\* parameter": any other one is changed by its data.
BlocksJustThatParameter ==
  (latest.half # "select" /\ Wanted(latest.source)) => \E x \in latest.changes : x.to = latest.source

\* What one rule in place makes of a 14-bit value.
InPlace(r, value) ==
  CASE r.op = "invert" -> 16383 - value
    [] r.op = "set"    -> r.amount
    [] r.op = "add"    -> IF value + r.amount > 16383 THEN 16383 ELSE value + r.amount

\* The change that a rule is to make of a 14-bit value: all of it, or the upper 7
\* bits to a narrow destination; or changed in place.
Exact(r, value) ==
  LET to   == IF r.op = "convert" THEN Source(r.dst, r.dstNum) ELSE Itself(latest.source)
      gets == IF r.op = "convert" THEN value ELSE InPlace(r, value)
  IN CASE to.kind = "pb"         -> Change(to, gets, -1)
       [] ValueBits(to.kind) = 14 -> Change(to, gets \div 128, gets % 128)
       [] OTHER                  -> Change(to, gets \div 128, -1)

\* README.md:527-528: data of a parameter that a rule takes changes only the
\* rule's destinations, data of any other parameter only that parameter, and
\* bare 6 and 38 change the pair they are, through whatever selections, nulls
\* and controllers came before. Nothing that a rule takes reaches a parameter
\* that the receiver happens to have selected, and on each LSB the rules of a
\* wanted source give what is exactly its value.
DataLandsWhereMeant ==
  /\ \A x \in latest.changes : \E to \in Meant(latest.source) : x.to = to
  /\ (latest.half = "lsb" /\ Wanted(latest.source)) =>
       \A r \in Takers(latest.source) : Exact(r, 128 * msbs[latest.source] + latest.byte) \in latest.changes

MsbStep(source) == latest'.source = source /\ latest'.half = "msb"
Taken(source)   == Takers(source) # {} /\ Wanted(source)

\* README.md:529, Conversion.cpp:497-504: once a source was seen to send pairs,
\* the MSB of the next pair gives no value of its own; a source that sends no LSBs
\* has every MSB converted, and one that stops sending them loses a single value.
OneValuePerPair ==
  [][\A s \in Sources : (MsbStep(s) /\ Taken(s)) => (latest'.changes = {} <=> halves[s] = "lsb")]_convertVars
=============================================================================
