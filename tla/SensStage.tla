----------------------------- MODULE SensStage -----------------------------
(* An mpesens between an MPE controller, which configures its zone and     *)
(* sets parameters on its channels, and a synth, while a client changes    *)
(* the range that is declared.                                             *)
EXTENDS MpeTuning

CONSTANTS
  SensRanges,   \* the ranges that the client and the controller declare
  SetChannels   \* the members on which the controller sets parameters

ASSUME SensAssumption == SensRanges \subseteq 0..96 /\ SetChannels \subseteq MemberChannels

VARIABLES
  semitones,    \* the option of mpesens
  declarer,     \* the SensitivityDeclarer of the input
  sensPlayer,   \* what the controller has selected, and how far its configuration is
  sensSynth,    \* what the synth has selected and set
  tuned,        \* what the controller set of the other parameter, per channel
  overtaken,    \* the channels on which a declaration may have followed its selection
  rangeOwner    \* whose range the synth was told last: "nobody's", "declared" or "played"

sensVars == <<semitones, declarer, sensPlayer, sensSynth, tuned, overtaken, rangeOwner>>

DefaultRange == 48
Unsure == -1        \* what was set for a selection that may have been overtaken

\* The range of one member is the range of all.
SensHears(s, m) ==
  CASE m.kind = "select" -> [s EXCEPT !.selected[m.channel] = m.parameter]
    [] m.kind = "data" /\ s.selected[m.channel] = ZoneSize  -> [s EXCEPT !.range = DefaultRange]
    [] m.kind = "data" /\ s.selected[m.channel] = Tuning    -> [s EXCEPT !.tuning[m.channel] = m.value]
    [] m.kind = "data" /\ s.selected[m.channel] = BendRange /\ m.channel # ManagerChannel
                         -> [s EXCEPT !.range = m.value]
    [] OTHER             -> s

SensSends(m) ==
  \E told \in {DeclareSensitivity(declarer, semitones, m)} :
     /\ declarer' = told.declarer
     /\ sensSynth' = FoldLeft(SensHears, sensSynth, told.msgs)

\* The controller has the last word on a range until it is declared again.
PlayersRange == IF rangeOwner = "declared" THEN "played" ELSE rangeOwner

SensSelect(c, p) ==
  /\ sensPlayer.configuring = "no"
  /\ p = ZoneSize <=> c = ManagerChannel
  /\ sensPlayer' = [selected |-> [sensPlayer.selected EXCEPT ![c] = p], configuring |-> IF p = ZoneSize THEN "half" ELSE "no"]
  /\ overtaken' = overtaken \ {c}
  /\ SensSends(SelectOn(c, p))
  /\ UNCHANGED <<semitones, tuned, rangeOwner>>

\* A controller that selects its zone's size sends it next. When an edit came
\* between the two, the range waits for the next note.
SensConfigure ==
  /\ sensPlayer.configuring # "no"
  /\ sensPlayer' = [sensPlayer EXCEPT !.configuring = "no"]
  /\ overtaken' = overtaken \union MemberChannels
  /\ rangeOwner' = IF sensPlayer.configuring = "half" THEN "declared" ELSE "nobody's"
  /\ SensSends(DataOn(ManagerChannel, Members))
  /\ UNCHANGED <<semitones, tuned>>

\* Data of another parameter, also long after it was selected.
SensSet(c, v) ==
  /\ sensPlayer.configuring = "no"
  /\ sensPlayer.selected[c] \in {BendRange, Tuning}
  /\ IF sensPlayer.selected[c] = Tuning /\ c \notin overtaken
     THEN tuned' = [tuned EXCEPT ![c] = v] /\ UNCHANGED rangeOwner
     ELSE rangeOwner' = PlayersRange /\ tuned' = [tuned EXCEPT ![c] = Unsure]
  /\ SensSends(DataOn(c, v))
  /\ UNCHANGED <<semitones, sensPlayer, overtaken>>

SensPress(c) ==
  /\ sensPlayer.configuring = "no"
  /\ IF rangeOwner = "nobody's"
     THEN rangeOwner' = "declared" /\ overtaken' = overtaken \union MemberChannels
     ELSE UNCHANGED <<rangeOwner, overtaken>>
  /\ SensSends(On(c, c))
  /\ UNCHANGED <<semitones, sensPlayer, tuned>>

\* replace_command with another range, at any time; cleanupAfterCommandChange
\* starts the declarer over.
SensEdit(s) ==
  /\ s # semitones
  /\ semitones' = s
  /\ declarer' = FreshDeclarer
  /\ rangeOwner' = "nobody's"
  /\ sensPlayer' = [sensPlayer EXCEPT !.configuring = IF @ = "half" THEN "edited" ELSE @]
  /\ UNCHANGED <<sensSynth, tuned, overtaken>>

SensInit ==
  /\ semitones \in SensRanges
  /\ declarer = FreshDeclarer
  /\ sensPlayer = [selected |-> [c \in ZoneChannels |-> NoParameter], configuring |-> "no"]
  /\ sensSynth = [selected |-> [c \in ZoneChannels |-> NoParameter], range |-> DefaultRange,
                  tuning |-> [c \in ZoneChannels |-> 0]]
  /\ tuned = [c \in ZoneChannels |-> 0]
  /\ overtaken = {}
  /\ rangeOwner = "nobody's"

SensNext ==
  \/ \E c \in SetChannels \union {ManagerChannel}, p \in {NoParameter, BendRange, ZoneSize, Tuning} : SensSelect(c, p)
  \/ SensConfigure
  \/ \E c \in SetChannels, v \in SensRanges : SensSet(c, v)
  \/ \E c \in SetChannels : SensPress(c)
  \/ \E s \in SensRanges : SensEdit(s)

SensSpec == SensInit /\ [][SensNext]_sensVars
-----------------------------------------------------------------------------
\* README.md:624: RouteMIDI "sends the declaration once before the first note
\* and again after each MPE Configuration Message". From the first note after an
\* edit on, the synth has the declared range, unless the controller set one of
\* its own since; and the declaration takes no other parameter along. mpesens
\* leaves its parameter selected: data that the controller sends for an earlier
\* selection sets the range and counts as the controller's own.
DeclaredRangeHolds ==
  /\ rangeOwner = "declared" => sensSynth.range = semitones
  /\ \A c \in ZoneChannels : tuned[c] # Unsure => sensSynth.tuning[c] = tuned[c]
=============================================================================
