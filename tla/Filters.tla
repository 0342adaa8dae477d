------------------------------ MODULE Filters ------------------------------
(* passesFilters for the controllers of one channel: which filters match,  *)
(* what two of them remember, and how positive and negative ones combine.  *)
(* Filters that look at notes, pressures, programs or system messages      *)
(* remember nothing and are left out.                                      *)
EXTENDS ParamSelection, Sequences, SequencesExt

DeviceChannel == 1

\* A filter has a range of numbers, one number being a range too, and
\* cc14range the window of its values.
AnyNumber == [low |-> 0, high |-> 16383]
AnyChannel == [low |-> 0, high |-> 0]
Within(range, v) == range.low <= v /\ v <= range.high

FreshFilterState ==
  [selection |-> NoSelection,           \* rpnFilter
   rangeMsb  |-> [n \in 0..31 |-> 0]]   \* cc14RangeMsb

IsScope(f) == f.kind = "ch" /\ ~f.negate

\* The channels of the filter at i: what the last "ch" before it says.
Scope(filters, i) ==
  LET scopes == SelectSeq(SubSeq(filters, 1, i - 1), IsScope)
  IN IF scopes = <<>> THEN AnyChannel ELSE Last(scopes).numbers

\* checkChannel: no low channel is any channel.
ScopeCovers(scope) == scope.low = 0 \/ Within(scope, DeviceChannel)

DataControllers == {6, 38, 96, 97}
SelectsOf(kind) == IF kind = "nrpn" THEN NrpnSelects ELSE Selects \ NrpnSelects

\* Mutant: data passes for the parameter number, whichever the kind.
MatchesRpnParamOfEither(f, s, m) ==
  \/ m.number \in SelectsOf(f.kind) /\ m.value = 127
  \/ m.number \in SelectsOf(f.kind) \intersect MsbSelects /\ m.value = f.numbers.low \div 128
  \/ /\ m.number \in (SelectsOf(f.kind) \ MsbSelects) \union DataControllers
     /\ Param(s.selection) = f.numbers.low

\* A byte of a null, the MSB of the parameter, and what comes while it is
\* selected.
MatchesRpnParam(f, s, m) ==
  \/ m.number \in SelectsOf(f.kind) /\ m.value = 127
  \/ m.number \in SelectsOf(f.kind) \intersect MsbSelects /\ m.value = f.numbers.low \div 128
  \/ /\ m.number \in (SelectsOf(f.kind) \ MsbSelects) \union DataControllers
     /\ s.selection.nrpn = (f.kind = "nrpn")
     /\ Param(s.selection) = f.numbers.low

\* Both halves of a pair get the verdict of its MSB's block of 128 values.
MatchesCc14Range(f, s, m) ==
  LET msb == s.rangeMsb[f.numbers.low]
  IN /\ m.number \in {f.numbers.low, f.numbers.low + 32}
     /\ 128 * msb + 127 >= f.window.low /\ 128 * msb <= f.window.high

Matches(f, s, m) ==
  CASE f.kind \in {"nrpn", "rpn"} /\ f.numbers = AnyNumber -> m.number \in SelectsOf(f.kind) \union DataControllers
    [] f.kind \in {"nrpn", "rpn"} /\ f.numbers # AnyNumber -> MatchesRpnParam(f, s, m)
    [] f.kind = "cc14range" -> MatchesCc14Range(f, s, m)
    [] f.kind = "cc14"      -> m.number < 64 /\ Within(f.numbers, m.number % 32)
    [] f.kind = "cc"        -> Within(f.numbers, m.number)
    [] f.kind = "ch"        -> f.numbers.low # 0 /\ Within(f.numbers, DeviceChannel)

\* A filter of a channel is no other's business: it has no scope.
Matching(filters, s, m) ==
  {i \in DOMAIN filters : /\ filters[i].kind # "ch" => ScopeCovers(Scope(filters, i))
                          /\ Matches(filters[i], s, m)}

\* What is remembered of a message, whether it passes or not: selections
\* always, an MSB when a filter on its channel asks for it.
Tracked(filters, s, m) ==
  [selection |-> IF m.number \in Selects THEN TrackSelect(s.selection, m.number, m.value) ELSE s.selection,
   rangeMsb  |-> [n \in 0..31 |->
     IF n = m.number /\ \E i \in DOMAIN filters : /\ filters[i].kind = "cc14range" /\ filters[i].numbers.low = n
                                                  /\ ScopeCovers(Scope(filters, i))
     THEN m.value ELSE s.rangeMsb[n]]]

\* Some positive filter matches, if there is one, and no negative one does. A
\* route with channel filters alone passes the channels of the last.
PassesFilters(filters, s, m) ==
  LET matching  == Matching(filters, s, m)
      positive  == {i \in DOMAIN filters : filters[i].kind # "ch" /\ ~filters[i].negate}
      scope     == Scope(filters, Len(filters) + 1)
  IN /\ IF positive # {} THEN positive \intersect matching # {} ELSE ScopeCovers(scope)
     /\ \A i \in matching : ~filters[i].negate
=============================================================================
