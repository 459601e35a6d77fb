------------------------------ MODULE ReportProofs ------------------------------
(* The single reports.  What the command line prints, refuses and looks back
   over, for any settings, samples, depths and lengths of a document, and any
   number of rounds; what the table of sockets says, for any sockets, processes
   and samples of nettop; and what the pages show of any sections, on a body of
   any size.                                                                 *)
EXTENDS Cli, Flows, Pages, DataLemmas, SequenceTheorems

(* The first key that is no container decides what is left of a value, and   *)
(* only a reviewed one, at the end of the path, leaves it as it is.          *)
LEMMA RawPath ==
  ASSUME NEW mode \in Modes, mode # "off", NEW n \in Nat, NEW path \in Paths(n),
         RedactPath(mode, path) = "raw"
  PROVE  StepsOf(path) \cap HiddenSteps(mode) = {}
  <1> DEFINE isBranch(i) == path[i] \in {"container", "item"}
             deciding == {i \in DOMAIN path : ~isBranch(i) /\ \A j \in 1 .. i - 1 : isBranch(j)}
             first == CHOOSE i \in deciding : TRUE
             key == path[first]
             isLeaf == deciding = {Len(path)}
  <1>1. PICK k \in 1 .. n : path \in [1 .. k -> Steps]
    BY DEF Paths
  <1>2. DOMAIN path = 1 .. k /\ k \in Nat
    BY <1>1
  <1> HIDE DEF deciding
  <1>3. RedactPath(mode, path) =
          IF deciding = {} \/ \E i \in deciding : i > DepthLimit THEN "none"
          ELSE CASE key = "identifier"  -> "masked"
                 [] key = "measurement" -> IF isLeaf THEN "raw" ELSE "none"
                 [] key = "label"       -> IF ~isLeaf THEN "none"
                                           ELSE IF mode = "strict" THEN "masked" ELSE "raw"
                 [] OTHER               -> "none"
    BY DEF RedactPath, deciding
  <1> HIDE DEF first, isLeaf
  <1>4. /\ deciding # {} /\ isLeaf
        /\ key \in {"measurement", "label"}
        /\ key = "label" => mode # "strict"
    <2>1. CASE deciding = {} \/ \E i \in deciding : i > DepthLimit
      BY <1>3, <2>1
    <2>2. CASE ~(deciding = {} \/ \E i \in deciding : i > DepthLimit)
      BY <1>3, <2>2
    <2> QED BY <2>1, <2>2
  <1>5. first \in deciding /\ first = Len(path)
    BY <1>4 DEF first, isLeaf
  <1>6. first \in DOMAIN path /\ \A j \in 1 .. first - 1 : isBranch(j)
    BY <1>5 DEF deciding
  <1>7. \A i \in DOMAIN path : i \in 1 .. first - 1 \/ i = first
    BY <1>1, <1>2, <1>5, <1>6
  <1>8. ASSUME NEW i \in DOMAIN path PROVE path[i] \notin HiddenSteps(mode)
    <2>1. CASE i \in 1 .. first - 1
      BY <1>6, <2>1 DEF HiddenSteps
    <2>2. CASE i = first
      BY <1>4, <2>2 DEF HiddenSteps
    <2> QED BY <1>7, <2>1, <2>2
  <1> QED BY <1>8 DEF StepsOf

(* The fields of each command, as a session shows them and as a writer       *)
(* prints them.                                                              *)
NoneHidden(report, mode) ==
  \A f \in DOMAIN report : report[f] = "raw" => f \notin Hidden(mode)

LEMMA FieldsPrivate ==
  ASSUME NEW mode \in Modes, NEW c
  PROVE  NoneHidden(Fields(c, mode), mode)
  <1>1. CASE c = "processes"
    BY <1>1 DEF Fields, NoneHidden, Modes, Hidden, RedactSnapshot, ProcessRows, Put, Raw
  <1>2. CASE c = "disk"
    BY <1>2 DEF Fields, NoneHidden, Modes, Hidden, RedactDisks, Put, Raw
  <1>3. CASE c = "network_flows"
    BY <1>3 DEF Fields, NoneHidden, Modes, Hidden, RedactNetworkFlows, Put, Raw
  <1>4. CASE c = "network_connections"
    BY <1>4 DEF Fields, NoneHidden, Modes, Hidden, RedactConnections, Put, Raw
  <1>5. CASE c \notin {"processes", "disk", "network_flows", "network_connections"}
    BY <1>5 DEF Fields, NoneHidden, Modes, Hidden, Raw
  <1> QED BY <1>1, <1>2, <1>3, <1>4, <1>5

Described == {"processes", "disk", "network_flows", "network_connections"}

(* A writer has columns only for the fields of its report. *)
LEMMA ColumnsAreFields ==
  ASSUME NEW c, NEW mode \in Modes, NEW format,
         format = "csv" => Columns(c, "csv", <<>>) # None
  PROVE  Columns(c, format, Fields(c, mode)) \subseteq DOMAIN Fields(c, mode)
  <1>1. CASE c = "processes"
    BY <1>1 DEF Columns, OfCollector, SnapshotCsv, SnapshotTable, Fields, RedactSnapshot,
                ProcessRows, Put, Raw, Modes
  <1>2. CASE c = "disk"
    BY <1>2 DEF Columns, OfCollector, ReportCsv, ReportTable, Fields, RedactDisks, Put, Raw
  <1>3. CASE c = "network_flows"
    BY <1>3 DEF Columns, OfCollector, ReportCsv, ReportTable, Fields, RedactNetworkFlows, Put, Raw
  <1>4. CASE c = "network_connections"
    BY <1>4 DEF Columns, OfCollector, ReportCsv, ReportTable, Fields, RedactConnections, Put, Raw
  <1>5. CASE c \notin Described
    <2>1. DOMAIN Fields(c, mode) = {"numbers"}
      BY <1>5 DEF Fields, Raw, Described
    <2>2. CASE format = "csv"
      <3>1. c \in OfCollector
        BY <1>5, <2>2 DEF Columns, ReportCsv, Described
      <3> QED BY <1>5, <2>1, <2>2, <3>1 DEF Columns, OfCollector, SnapshotCsv, Described
    <2>3. CASE format = "table"
      BY <1>5, <2>1, <2>3 DEF Columns, SnapshotTable, ReportTable, Described
    <2>4. CASE format \notin {"csv", "table"}
      BY <2>4 DEF Columns
    <2> QED BY <2>2, <2>3, <2>4
  <1> QED BY <1>1, <1>2, <1>3, <1>4, <1>5 DEF Described

LEMMA PrintedPrivate ==
  ASSUME NEW mode \in Modes, NEW c, NEW format,
         format = "csv" => Columns(c, "csv", <<>>) # None
  PROVE  NoneHidden(Printed(c, format, Fields(c, mode)), mode)
  BY FieldsPrivate, ColumnsAreFields DEF NoneHidden, Printed

LEMMA SessionPrivate ==
  ASSUME NEW mode \in Modes, NEW shown
  PROVE  NoneHidden(SessionFields(shown, mode), mode)
  BY FieldsPrivate DEF NoneHidden, SessionFields, TransportSections, Hidden, Modes

LEMMA DocumentPrivate ==
  ASSUME NEW mode \in Modes, mode # "off", NEW c, NEW path \in Document(c, mode)
  PROVE  StepsOf(path) \cap HiddenSteps(mode) = {}
  <1>1. path \in Paths(PathLength) /\ RedactPath(mode, path) = "raw"
    BY DEF Document, RedactProfiler
  <1> QED BY <1>1, RawPath, CliAssumption DEF CliAssumption

-------------------------------------------------------------------------------
(* The invariant *)

(* The settings a command works with are valid. *)
Settled ==
  /\ SettingsAreTheHighest
  /\ phase \in {"merged", "check", "warm", "rounds", "session"} =>
       DOMAIN prefs = {"interval", "privacy"} /\ prefs.privacy \in Modes
  /\ phase = "merged" => ParseInterval(prefs.interval) \in MinMillis .. MaxMillis
  /\ phase \in {"check", "warm", "rounds", "session"} => prefs.interval \in MinMillis .. MaxMillis

(* A command that works was not refused. *)
Accepted ==
  /\ phase \in {"start", "merged", "check"} => samples = 0
  /\ phase \in {"warm", "rounds", "session"} =>
       options \in Options /\ cmd \in Commands /\ ~Misuse(cmd, options)
  /\ phase \in {"warm", "rounds"} => cmd # "top"
  /\ phase = "session" => cmd = "top"

(* Nothing is measured before the work starts, and refusal ends it before. *)
Unstarted ==
  /\ phase \in {"start", "merged", "check"} => ~measured
  /\ phase \in {"start", "merged", "check", "warm"} => out = None /\ round = 0 /\ header = 0
  /\ ~measured => out = None
  /\ phase # "done" => exit = None
  /\ RefusedBeforeWork

(* Before the first report at most the warm-up has been waited for; after it *)
(* nothing, but for the run of powermetrics.                                 *)
Timed ==
  /\ round \in Nat
  /\ samples = 1 => round \in {0, 1}
  /\ phase \in {"start", "merged", "check", "warm"} => since = None
  /\ phase = "rounds" /\ round = 0 => since = None \/ since \in MinMillis .. LongestWindow
  /\ phase = "rounds" /\ round = 0 /\ samples = 1 /\ cmd \in {"cpu", "gpu"} =>
       since \in MinMillis .. LongestWindow
  /\ phase = "rounds" /\ round > 0 /\ cmd \in OfCollector =>
       since \in Nat /\ IF Powermetrics THEN since >= prefs.interval ELSE since = 0
  /\ cmd = "top" /\ out # None => out.window = None
  /\ RatesAreTimed

(* The header came with the first report. *)
Headed ==
  /\ phase = "rounds" => header = IF options.format = "csv" /\ round > 0 THEN 1 ELSE 0
  /\ StreamIsComplete

CliInv == Settled /\ Accepted /\ Unstarted /\ Timed /\ Headed /\ NothingPrivateShown

-------------------------------------------------------------------------------
(* Lemmas about the settings, the refusals and the windows *)

LEMMA HighestWins ==
  ASSUME NEW g \in Settings
  PROVE  LET asked == Over(g.cli, Over(g.env, Load(g)))
         IN  /\ DOMAIN asked = {"interval", "privacy"}
             /\ \A key \in {"interval", "privacy"} : asked[key] = Highest(g, key)
  <1> DEFINE asked == Over(g.cli, Over(g.env, Load(g)))
  <1>1. DOMAIN DefaultConfig = {"interval", "privacy"}
    BY DEF DefaultConfig
  <1>2. DOMAIN Load(g) = {"interval", "privacy"}
    BY <1>1 DEF Load, Over
  <1>3. DOMAIN asked = {"interval", "privacy"}
    BY <1>2 DEF Over
  <1>4. ASSUME NEW key \in {"interval", "privacy"} PROVE asked[key] = Highest(g, key)
    <2> DEFINE file == IF g.noConfig \/ g.file = None
                       THEN [interval |-> None, privacy |-> None] ELSE g.file
               order == <<g.cli[key], g.env[key], file[key]>>
               set == {i \in DOMAIN order : order[i] # None}
               least == CHOOSE i \in set : \A j \in set : i <= j
    <2>1. Load(g)[key] = IF file[key] = None THEN DefaultConfig[key] ELSE file[key]
      BY <1>1 DEF Load, Over
    <2>2. asked[key] = IF g.cli[key] # None THEN g.cli[key]
                       ELSE IF g.env[key] # None THEN g.env[key] ELSE Load(g)[key]
      BY <1>2 DEF Over
    <2>3. Highest(g, key) = IF set = {} THEN DefaultConfig[key] ELSE order[least]
      BY DEF Highest
    <2> HIDE DEF file
    <2>4. DOMAIN order = 1 .. 3 /\ set = {i \in 1 .. 3 : order[i] # None}
      OBVIOUS
    <2>5. order[1] = g.cli[key] /\ order[2] = g.env[key] /\ order[3] = file[key]
      OBVIOUS
    <2> HIDE DEF order
    <2>6. ASSUME NEW i \in set, \A j \in set : i <= j PROVE least = i
      <3>1. set \subseteq Int
        BY <2>4
      <3> HIDE DEF set
      <3>2. \E k \in set : \A j \in set : k <= j
        BY <2>6
      <3>3. least \in set /\ \A j \in set : least <= j
        BY <3>2
      <3>4. least <= i /\ i <= least /\ least \in Int /\ i \in Int
        BY <3>1, <3>3, <2>6
      <3> QED BY <3>4
    <2> HIDE DEF set, least
    <2>7. CASE order[1] # None
      <3>1. 1 \in set /\ \A j \in set : 1 <= j
        BY <2>4, <2>7
      <3> QED BY <3>1, <2>2, <2>3, <2>5, <2>6, <2>7
    <2>8. CASE order[1] = None /\ order[2] # None
      <3>1. 2 \in set /\ \A j \in set : 2 <= j
        BY <2>4, <2>8
      <3> QED BY <3>1, <2>2, <2>3, <2>5, <2>6, <2>8
    <2>9. CASE order[1] = None /\ order[2] = None /\ order[3] # None
      <3>1. 3 \in set /\ \A j \in set : 3 <= j
        BY <2>4, <2>9
      <3> QED BY <3>1, <2>1, <2>2, <2>3, <2>5, <2>6, <2>9
    <2>10. CASE order[1] = None /\ order[2] = None /\ order[3] = None
      <3>1. set = {}
        BY <2>4, <2>10
      <3> QED BY <3>1, <2>1, <2>2, <2>3, <2>5, <2>10
    <2> QED BY <2>7, <2>8, <2>9, <2>10
  <1> QED BY <1>3, <1>4

LEMMA PrivacyIsMode ==
  ASSUME NEW g \in Settings
  PROVE  Merge(g).privacy \in Modes
  <1> DEFINE asked == Over(g.cli, Over(g.env, Load(g)))
  <1>1. \A source \in Sources : source.privacy = None \/ source.privacy \in Modes
    BY CliAssumption DEF Sources, CliAssumption
  <1>2. g.cli \in Sources /\ g.env \in Sources /\ (g.file = None \/ g.file \in Sources)
    BY DEF Settings
  <1>3. DefaultConfig.privacy \in Modes /\ DOMAIN DefaultConfig = {"interval", "privacy"}
    BY DEF DefaultConfig, Modes
  <1>4. Load(g).privacy \in Modes /\ DOMAIN Load(g) = {"interval", "privacy"}
    BY <1>1, <1>2, <1>3 DEF Load, Over
  <1>5. asked.privacy \in Modes /\ DOMAIN asked = {"interval", "privacy"}
    BY <1>1, <1>2, <1>4 DEF Over
  <1> HIDE DEF asked
  <1>6. Merge(g) = IF g.showSensitive THEN [asked EXCEPT !.privacy = "off"] ELSE asked
    BY DEF Merge, asked
  <1> QED BY <1>5, <1>6 DEF Modes

LEMMA IntervalIsText ==
  ASSUME NEW g \in Settings
  PROVE  Merge(g).interval.n \in Nat
  <1> DEFINE asked == Over(g.cli, Over(g.env, Load(g)))
  <1>1. \A source \in Sources : source.interval = None \/ source.interval.n \in Nat
    BY CliAssumption DEF Sources, CliAssumption
  <1>2. g.cli \in Sources /\ g.env \in Sources /\ (g.file = None \/ g.file \in Sources)
    BY DEF Settings
  <1>3. DefaultConfig.interval.n \in Nat /\ DOMAIN DefaultConfig = {"interval", "privacy"}
    BY DEF DefaultConfig
  <1>4. Load(g).interval.n \in Nat /\ DOMAIN Load(g) = {"interval", "privacy"}
    BY <1>1, <1>2, <1>3 DEF Load, Over
  <1>5. asked.interval.n \in Nat /\ DOMAIN asked = {"interval", "privacy"}
    BY <1>1, <1>2, <1>4 DEF Over
  <1> HIDE DEF asked
  <1>6. Merge(g) = IF g.showSensitive THEN [asked EXCEPT !.privacy = "off"] ELSE asked
    BY DEF Merge, asked
  <1> QED BY <1>5, <1>6

(* What parses is between the limits as it was typed: nothing that saturates *)
(* comes below the largest one.                                              *)
LEMMA ParsedInterval ==
  ASSUME NEW text, text.n \in Nat, ParseInterval(text) # None
  PROVE  /\ ParseInterval(text) \in MinMillis .. MaxMillis
         /\ text.n * Mult(text.unit) \in MinMillis .. MaxMillis
  <1> DEFINE ms == text.n * Mult(text.unit)
  <1>1. ms \in Nat
    BY DEF Mult
  <1>2. ParseInterval(text) = FromMillis(Saturate(ms))
    BY DEF ParseInterval
  <1> HIDE DEF ms
  <1>3. Saturate(ms) \in MinMillis .. MaxMillis /\ ParseInterval(text) = Saturate(ms)
    BY <1>2 DEF FromMillis
  <1>4. Saturate(ms) <= MaxMillis /\ Word \in Nat /\ Word > MaxMillis
    <2>1. MinMillis \in Int /\ MaxMillis \in Int
      BY DEF MinMillis, MaxMillis
    <2> QED BY <1>3, <2>1, CliAssumption DEF CliAssumption
  <1>5. Saturate(ms) = ms
    BY <1>1, <1>4 DEF Saturate, MaxMillis
  <1> QED BY <1>3, <1>5 DEF ms

LEMMA Refused ==
  ASSUME NEW o \in Options, NEW c \in Commands, ~Misuse(c, o), c # "top",
         o.format = "csv"
  PROVE  Columns(c, "csv", <<>>) # None /\ ~(c = "gpu" /\ o.enhanced)
  <1>1. c \notin {"hardware", "sensors", "doctor"} /\ ~o.enhanced
    BY DEF Misuse
  <1>2. Columns(c, "csv", <<>>) \in {SnapshotTable(c), ReportTable(c)}
    BY <1>1 DEF Columns, OfCollector, Commands, SnapshotCsv, ReportCsv, SnapshotTable,
                ReportTable
  <1> QED BY <1>1, <1>2, ColumnsAssumption

LEMMA WindowInRange ==
  ASSUME NEW o, NEW ms \in MinMillis .. MaxMillis
  PROVE  SocWindow(o, ms) \in MinMillis .. LongestWindow
  <1>1. MinMillis \in Int /\ LongestWindow \in Int /\ MaxMillis \in Int
        /\ MinMillis <= LongestWindow
    BY DEF MinMillis, LongestWindow, MaxMillis
  <1> QED BY <1>1 DEF SocWindow

-------------------------------------------------------------------------------
(* Every step keeps the invariant *)

LEMMA MergeKeeps ==
  ASSUME CliInv, phase = "start", NEW g \in Settings, MergeSettings(g)
  PROVE  CliInv'
  <1> USE DEF MergeSettings, Running
  <1>1. UNCHANGED <<cmd, options, samples, round, since, measured, out, header>>
    OBVIOUS
  <1>2. /\ samples = 0 /\ round = 0 /\ header = 0 /\ out = None /\ ~measured /\ exit = None
        /\ None # 64
    BY CliAssumption DEF CliInv, Accepted, Unstarted, CliAssumption
  <1>3. CASE phase' = "done"
    BY <1>1, <1>2, <1>3
       DEF CliInv, Settled, Accepted, Unstarted, Timed, Headed, NothingPrivateShown,
           SettingsAreTheHighest, RefusedBeforeWork, RatesAreTimed, StreamIsComplete
  <1>4. CASE phase' # "done"
    <2>1. ~ClapConflicts(g) /\ ~LoadFails(g) /\ ParseInterval(Merge(g).interval) # None
      BY <1>4 DEF End
    <2>2. phase' = "merged" /\ exit' = exit /\ given' = g /\ prefs' = Merge(g)
      BY <1>4, <2>1 DEF End
    <2> DEFINE asked == Over(g.cli, Over(g.env, Load(g)))
    <2>3. /\ DOMAIN asked = {"interval", "privacy"}
          /\ asked.privacy = Highest(g, "privacy")
          /\ asked.interval = Highest(g, "interval")
      BY HighestWins
    <2> HIDE DEF asked
    <2>4. Merge(g) = IF g.showSensitive THEN [asked EXCEPT !.privacy = "off"] ELSE asked
      BY DEF Merge, asked
    <2>5. /\ DOMAIN prefs' = {"interval", "privacy"} /\ prefs'.privacy \in Modes
          /\ prefs'.privacy = IF g.showSensitive THEN "off" ELSE Highest(g, "privacy")
          /\ prefs'.interval = Highest(g, "interval")
      BY <2>2, <2>3, <2>4, PrivacyIsMode
    <2>6. prefs'.interval.n \in Nat
      BY <2>2, IntervalIsText
    <2>7. /\ ParseInterval(prefs'.interval) \in MinMillis .. MaxMillis
          /\ prefs'.interval.n * Mult(prefs'.interval.unit) \in MinMillis .. MaxMillis
      BY <2>1, <2>2, <2>6, ParsedInterval
    <2>8. g.noConfig \/ g.file = None \/ g.valid
      BY <2>1 DEF LoadFails
    <2>9. Settled'
      BY <2>2, <2>5, <2>7, <2>8 DEF Settled, SettingsAreTheHighest
    <2> QED
      BY <1>1, <1>2, <2>2, <2>9
         DEF CliInv, Accepted, Unstarted, Timed, Headed, NothingPrivateShown,
             RefusedBeforeWork, RatesAreTimed, StreamIsComplete
  <1> QED BY <1>3, <1>4

(* A step that ends the program, with a code that is no refusal after work,  *)
(* and leaves the rest alone.                                                *)
LEMMA EndKeeps ==
  ASSUME CliInv, NEW code, End(code), UNCHANGED <<prefs, Running>>,
         code = 64 => ~measured,
         code = 0 => \/ samples = 0 \/ cmd = "top"
                     \/ phase = "rounds" /\ round = samples
  PROVE  CliInv'
  <1> USE DEF End, Running
  <1>1. UNCHANGED <<cmd, options, samples, round, since, measured, out, header, prefs>>
        /\ phase' = "done" /\ exit' = code
    OBVIOUS
  <1>2. code = 64 => out = None
    BY DEF CliInv, Unstarted
  <1>3. StreamIsComplete'
    BY <1>1 DEF CliInv, Headed, StreamIsComplete
  <1>4. RatesAreTimed'
    BY <1>1 DEF CliInv, Accepted, Timed, RatesAreTimed, OfCollector, Powermetrics
  <1> QED
    BY <1>1, <1>2, <1>3, <1>4
       DEF CliInv, Settled, Accepted, Unstarted, Timed, Headed, NothingPrivateShown,
           SettingsAreTheHighest, RefusedBeforeWork

LEMMA ForgetKeeps ==
  ASSUME CliInv, phase = "merged", ForgetSources, UNCHANGED <<Running, exit>>, phase' = "check"
  PROVE  CliInv'
  <1>1. /\ DOMAIN prefs' = {"interval", "privacy"} /\ prefs'.privacy \in Modes
        /\ prefs'.interval \in MinMillis .. MaxMillis
    BY DEF CliInv, Settled, ForgetSources
  <1>2. UNCHANGED <<cmd, options, samples, round, since, measured, out, header, exit>>
    BY DEF Running
  <1>3. out = None /\ exit = None /\ samples = 0 /\ round = 0 /\ header = 0 /\ ~measured
    BY DEF CliInv, Unstarted, Accepted
  <1> QED
    BY <1>1, <1>2, <1>3
       DEF CliInv, Settled, Accepted, Unstarted, Timed, Headed, NothingPrivateShown,
           SettingsAreTheHighest, RefusedBeforeWork, RatesAreTimed, StreamIsComplete

LEMMA PrintKeeps ==
  ASSUME CliInv, PrintConfig
  PROVE  CliInv'
  <1>1. UNCHANGED <<cmd, options, samples, round, since, measured, out, header>>
        /\ phase' = "done" /\ exit' = 0
    BY DEF PrintConfig, Running, End
  <1>2. out = None /\ samples = 0 /\ round = 0
    BY DEF PrintConfig, CliInv, Unstarted, Accepted
  <1> QED
    BY <1>1, <1>2
       DEF CliInv, Settled, Accepted, Unstarted, Timed, Headed, NothingPrivateShown,
           SettingsAreTheHighest, RefusedBeforeWork, RatesAreTimed, StreamIsComplete

LEMMA ChooseKeeps ==
  ASSUME CliInv, NEW c \in Commands, NEW o \in Options, Choose(c, o)
  PROVE  CliInv'
  <1> DEFINE refused == \/ Misuse(c, o)
                        \/ c = "network_flows" /\ ~FlowInterval(prefs.interval)
  <1>1. /\ phase = "check" /\ cmd' = c /\ options' = o
        /\ UNCHANGED <<given, prefs, round, since, measured, out, header>>
        /\ samples' = IF refused THEN 0 ELSE SampleCount(o)
    BY DEF Choose
  <1>2. out = None /\ exit = None /\ round = 0 /\ header = 0 /\ ~measured
    BY <1>1 DEF CliInv, Unstarted
  <1>3. CASE refused
    <2>1. phase' = "done" /\ exit' = 64
      BY <1>3 DEF Choose, End
    <2>2. samples' = 0
      BY <1>1, <1>3
    <2> HIDE DEF refused
    <2> QED
      BY <1>1, <1>2, <2>1, <2>2
         DEF CliInv, Settled, Accepted, Unstarted, Timed, Headed, NothingPrivateShown,
             SettingsAreTheHighest, RefusedBeforeWork, RatesAreTimed, StreamIsComplete
  <1>4. CASE ~refused
    <2>1. /\ phase' = CASE c = "top" -> "session"
                        [] c \in {"cpu", "gpu"} /\ SampleCount(o) = 1 -> "warm"
                        [] OTHER -> "rounds"
          /\ exit' = exit
      BY <1>4 DEF Choose
    <2>2. ~Misuse(c, o) /\ samples' = SampleCount(o)
      BY <1>1, <1>4
    <2> HIDE DEF refused
    <2>3. phase' \in {"warm", "rounds", "session"} /\ (phase' = "session" <=> c = "top")
      BY <2>1
    <2>4. Settled' /\ NothingPrivateShown'
      BY <1>1, <1>2, <2>3 DEF CliInv, Settled, SettingsAreTheHighest, NothingPrivateShown
    <2>5. Accepted'
      BY <1>1, <2>2, <2>3 DEF Accepted
    <2>6. Unstarted' /\ Headed'
      BY <1>1, <1>2, <2>1, <2>3, CliAssumption
         DEF Unstarted, Headed, RefusedBeforeWork, StreamIsComplete, CliAssumption
    <2>7. Timed'
      BY <1>1, <1>2, <2>1, <2>2 DEF CliInv, Timed, RatesAreTimed
    <2> QED BY <2>4, <2>5, <2>6, <2>7 DEF CliInv
  <1> QED BY <1>3, <1>4

LEMMA WarmKeeps ==
  ASSUME CliInv, WarmUp
  PROVE  CliInv'
  <1>1. /\ phase = "warm" /\ measured'
        /\ UNCHANGED <<given, prefs, cmd, options, samples, round, out, header>>
    BY DEF WarmUp
  <1>2. out = None /\ exit = None /\ round = 0 /\ header = 0 /\ cmd # "top"
    BY <1>1 DEF CliInv, Unstarted, Accepted
  <1>3. CASE \E code \in Failures : End(code)
    <2>1. phase' = "done" /\ exit' # 0 /\ exit' # 64
      BY <1>3 DEF Failures, End
    <2> QED
      BY <1>1, <1>2, <2>1
         DEF CliInv, Settled, Accepted, Unstarted, Timed, Headed, NothingPrivateShown,
             SettingsAreTheHighest, RefusedBeforeWork, RatesAreTimed, StreamIsComplete
  <1>4. CASE phase' = "rounds" /\ since' = SocWindow(options, prefs.interval) /\ exit' = exit
    <2>1. since' \in MinMillis .. LongestWindow
      BY <1>1, <1>4, WindowInRange DEF CliInv, Settled
    <2>2. exit' # 0 /\ exit' # 64
      BY <1>2, <1>4, CliAssumption DEF CliAssumption
    <2> QED
      BY <1>1, <1>2, <1>4, <2>1, <2>2
         DEF CliInv, Settled, Accepted, Unstarted, Timed, Headed, NothingPrivateShown,
             SettingsAreTheHighest, RefusedBeforeWork, RatesAreTimed, StreamIsComplete
  <1> QED BY <1>3, <1>4 DEF WarmUp

LEMMA ReportPrivate ==
  ASSUME CliInv, NEW q, Report(q), out' # out
  PROVE  NothingPrivateShown'
  <1>1. /\ phase = "rounds" /\ ~Unprintable /\ UNCHANGED <<prefs, cmd, options>>
        /\ out' = [fields   |-> Printed(cmd, options.format, Fields(cmd, prefs.privacy)),
                   document |-> Document(cmd, prefs.privacy),
                   rows     |-> FilterProcesses(q.rows, q.user, q.limit),
                   query    |-> q,
                   window   |-> Looked]
    BY DEF Report
  <1>2. prefs.privacy \in Modes
    BY <1>1 DEF CliInv, Settled
  <1>3. NoneHidden(out'.fields, prefs.privacy)
    BY <1>1, <1>2, PrintedPrivate DEF Unprintable
  <1>4. ASSUME prefs.privacy # "off", NEW path \in out'.document
        PROVE  StepsOf(path) \cap HiddenSteps(prefs.privacy) = {}
    BY <1>1, <1>2, <1>4, DocumentPrivate
  <1> QED BY <1>1, <1>3, <1>4 DEF NothingPrivateShown, NoneHidden

LEMMA ReportKeeps ==
  ASSUME CliInv, NEW q, Report(q)
  PROVE  CliInv'
  <1>1. /\ phase = "rounds" /\ round < samples /\ measured'
        /\ UNCHANGED <<given, prefs, cmd, options, samples>>
    BY DEF Report
  <1>2. /\ prefs.interval \in MinMillis .. MaxMillis /\ exit = None /\ cmd # "top" /\ round \in Nat
        /\ options \in Options /\ cmd \in Commands /\ ~Misuse(cmd, options)
    BY <1>1 DEF CliInv, Settled, Accepted, Unstarted, Timed
  <1>3. ~Unprintable
    BY <1>2, Refused DEF Unprintable
  <1>4. CASE /\ \E code \in Failures \cup {IF Unprintable THEN 64 ELSE 101} : End(code)
             /\ UNCHANGED <<round, since, out, header>>
    <2>1. phase' = "done" /\ exit' # 0 /\ exit' # 64
      BY <1>3, <1>4 DEF Failures, End
    <2>2. RatesAreTimed'
      BY <1>1, <1>4, <2>1 DEF CliInv, Timed, RatesAreTimed, OfCollector, Powermetrics
    <2> QED
      BY <1>1, <1>4, <2>1, <2>2
         DEF CliInv, Settled, Accepted, Unstarted, Timed, Headed, NothingPrivateShown,
             SettingsAreTheHighest, RefusedBeforeWork, StreamIsComplete
  <1>5. CASE /\ out'.window = Looked
             /\ header' = IF options.format = "csv" /\ round = 0 THEN header + 1 ELSE header
             /\ round' = IF round = MaxRounds THEN round ELSE round + 1
             /\ since' \in IF cmd \in OfCollector THEN AfterReading ELSE {None}
             /\ UNCHANGED <<phase, exit>>
    <2>i. prefs.interval \in Nat /\ prefs.interval >= MinMillis
      <3> DEFINE ms == prefs.interval
      <3>1. ms \in MinMillis .. MaxMillis
        BY <1>2
      <3> HIDE DEF ms
      <3>2. ms \in Nat /\ ms >= MinMillis
        BY <3>1 DEF MinMillis, MaxMillis
      <3> QED BY <3>2 DEF ms
    <2>1. round' > 0 /\ round' \in Nat /\ (round' > 1 => round > 0)
          /\ (samples = 1 => round = 0 /\ round' = 1)
      <3>1. MaxRounds \in Nat /\ MaxRounds > 1
        BY CliAssumption DEF CliAssumption
      <3> QED BY <1>1, <1>2, <1>5, <3>1 DEF CliInv, Timed
    <2>2. header' = IF options.format = "csv" THEN 1 ELSE 0
      BY <1>1, <1>2, <1>5 DEF CliInv, Headed
    <2>3. exit' # 0 /\ exit' # 64
      BY <1>2, <1>5, CliAssumption DEF CliAssumption
    <2>4. RatesAreTimed'
      <3>1. ASSUME cmd \in {"cpu", "gpu", "sensors"}, samples = 1
            PROVE  out'.window \in MinMillis .. LongestWindow
        <4>1. CASE cmd = "sensors"
          BY <1>2, <1>5, <4>1, WindowInRange DEF Looked, OfCollector
        <4>2. CASE cmd # "sensors"
          <5>1. since \in MinMillis .. LongestWindow /\ cmd \in OfCollector /\ round = 0
            BY <1>1, <2>1, <3>1, <4>2 DEF OfCollector, CliInv, Timed
          <5>2. since \in Nat
            BY <5>1 DEF MinMillis, LongestWindow
          <5>3. since # None
            BY <5>2, CliAssumption DEF CliAssumption
          <5>4. out'.window = since + 0
            BY <1>5, <5>1, <5>3 DEF Looked, Slept, OfCollector
          <5> QED BY <5>1, <5>2, <5>4
        <4> QED BY <4>1, <4>2
      <3>2. ASSUME cmd \in OfCollector, round > 0
            PROVE  /\ out'.window >= MinMillis
                   /\ IF Powermetrics THEN out'.window >= 2 * prefs.interval
                      ELSE out'.window = prefs.interval
        <4>1. since \in Nat /\ (IF Powermetrics THEN since >= prefs.interval ELSE since = 0)
          BY <1>1, <3>2 DEF CliInv, Timed
        <4>3. since # None
          BY <4>1, CliAssumption DEF CliAssumption
        <4>4. out'.window = since + prefs.interval
          BY <1>2, <1>5, <3>2, <4>3 DEF Looked, Slept, OfCollector
        <4>5. MinMillis \in Nat
          BY DEF MinMillis
        <4>6. CASE Powermetrics
          BY <2>i, <4>1, <4>4, <4>5, <4>6
        <4>7. CASE ~Powermetrics
          BY <2>i, <4>1, <4>4, <4>5, <4>7
        <4> QED BY <4>6, <4>7
      <3>3. ASSUME out'.window # None PROVE out'.window >= MinMillis
        <4>1. CASE cmd \in OfCollector /\ round = 0
          <5>1. since = None \/ since \in MinMillis .. LongestWindow
            BY <1>1, <4>1 DEF CliInv, Timed
          <5>2. out'.window = IF since = None THEN None ELSE since + 0
            BY <1>5, <4>1 DEF Looked, Slept, OfCollector
          <5> QED BY <3>3, <5>1, <5>2 DEF MinMillis, LongestWindow
        <4>2. CASE cmd \in OfCollector /\ round # 0
          <5>1. round > 0
            BY <1>2, <4>2
          <5> QED BY <3>2, <4>2, <5>1
        <4>3. CASE cmd = "sensors"
          BY <1>2, <1>5, <4>3, WindowInRange DEF Looked, OfCollector, MinMillis, LongestWindow
        <4>4. CASE cmd \notin OfCollector \cup {"sensors"}
          <5>1. Looked = None \/ Looked = prefs.interval
            BY <4>4 DEF Looked, OfCollector
          <5> QED BY <1>5, <2>i, <3>3, <5>1
        <4> QED BY <4>1, <4>2, <4>3, <4>4
      <3>4. Powermetrics' = Powermetrics
        BY <1>1 DEF Powermetrics
      <3> QED BY <1>1, <1>2, <2>1, <3>1, <3>2, <3>3, <3>4 DEF RatesAreTimed
    <2>5. Timed'
      <3>1. ASSUME cmd \in OfCollector
            PROVE  since' \in Nat /\ IF Powermetrics' THEN since' >= prefs.interval ELSE since' = 0
        <4>1. Powermetrics' = Powermetrics
          BY <1>1 DEF Powermetrics
        <4>2. since' \in AfterReading
          BY <1>5, <3>1
        <4>3. CASE Powermetrics
          <5>1. PICK prompt \in Prompts : since' = prompt + prefs.interval
            BY <4>2, <4>3 DEF AfterReading
          <5>2. prompt \in Nat
            BY CliAssumption DEF CliAssumption
          <5> QED BY <2>i, <4>1, <4>3, <5>1, <5>2
        <4>4. CASE ~Powermetrics
          BY <4>1, <4>2, <4>4 DEF AfterReading
        <4> QED BY <4>3, <4>4
      <3> QED BY <1>1, <1>2, <1>5, <2>1, <2>4, <3>1 DEF Timed
    <2>6. Settled' /\ Accepted' /\ Unstarted' /\ Headed'
      BY <1>1, <1>5, <2>1, <2>2, <2>3
         DEF CliInv, Settled, Accepted, Unstarted, Headed, SettingsAreTheHighest,
             RefusedBeforeWork, StreamIsComplete
    <2>7. NothingPrivateShown'
      BY <1>1, ReportPrivate DEF CliInv, NothingPrivateShown
    <2> QED BY <2>5, <2>6, <2>7 DEF CliInv
  <1> QED BY <1>4, <1>5 DEF Report

LEMMA ShowKeeps ==
  ASSUME CliInv, NEW shown, ShowPage(shown)
  PROVE  CliInv'
  <1>1. /\ phase = "session" /\ measured'
        /\ out' = [fields |-> SessionFields(shown, prefs.privacy),
                   document |-> Document(shown, prefs.privacy),
                   rows |-> <<>>, query |-> None, window |-> None]
        /\ UNCHANGED <<phase, given, prefs, cmd, options, samples, round, since, header, exit>>
    BY DEF ShowPage
  <1>2. prefs.privacy \in Modes /\ exit = None /\ None # 64 /\ None # 0
    BY <1>1, CliAssumption DEF CliInv, Settled, Unstarted, CliAssumption
  <1>3. NoneHidden(out'.fields, prefs.privacy)
    BY <1>1, <1>2, SessionPrivate
  <1>4. ASSUME prefs.privacy # "off", NEW path \in out'.document
        PROVE  StepsOf(path) \cap HiddenSteps(prefs.privacy) = {}
    BY <1>1, <1>2, <1>4, DocumentPrivate
  <1>5. NothingPrivateShown'
    BY <1>1, <1>3, <1>4 DEF NothingPrivateShown, NoneHidden
  <1> QED
    BY <1>1, <1>2, <1>5
       DEF CliInv, Settled, Accepted, Unstarted, Timed, Headed,
           SettingsAreTheHighest, RefusedBeforeWork, RatesAreTimed, StreamIsComplete

LEMMA CliStep == CliInv /\ [Next]_vars => CliInv'
  <1> SUFFICES ASSUME CliInv, [Next]_vars PROVE CliInv'
    OBVIOUS
  <1>1. CASE Bypass
    BY <1>1, EndKeeps DEF Bypass, Running, CliInv, Accepted
  <1>2. CASE Proceed
    BY <1>2, ForgetKeeps DEF Proceed, Running
  <1>3. CASE Finish
    BY <1>3, EndKeeps DEF Finish, Running
  <1>4. CASE RefuseSession
    <2>1. PICK code \in {64, 69, 70} : End(code)
      BY <1>4 DEF RefuseSession
    <2> QED BY <1>4, <2>1, EndKeeps DEF RefuseSession, Running
  <1>5. CASE LeaveSession
    <2>1. PICK code \in {0, 70} : End(code)
      BY <1>5 DEF LeaveSession
    <2> QED BY <1>5, <2>1, EndKeeps DEF LeaveSession, Running, CliInv, Accepted
  <1>6. CASE Exited \/ UNCHANGED vars
    BY <1>6 DEF Exited, vars, CliInv, Settled, Accepted, Unstarted, Timed, Headed,
                NothingPrivateShown, SettingsAreTheHighest, RefusedBeforeWork,
                RatesAreTimed, StreamIsComplete, Powermetrics
  <1>7. ASSUME phase = "start", NEW g \in Settings, MergeSettings(g) PROVE CliInv'
    BY <1>7, MergeKeeps
  <1> QED
    BY <1>1, <1>2, <1>3, <1>4, <1>5, <1>6, <1>7, PrintKeeps, ChooseKeeps, WarmKeeps,
       ReportKeeps, ShowKeeps DEF Next

LEMMA CliStart == Init => CliInv
  BY CliAssumption
     DEF Init, CliInv, Settled, Accepted, Unstarted, Timed, Headed, NothingPrivateShown,
         SettingsAreTheHighest, RefusedBeforeWork, RatesAreTimed, StreamIsComplete,
         CliAssumption, OfCollector

LEMMA CliCorrect == Spec => []CliInv
  BY CliStart, CliStep, PTL DEF Spec

-------------------------------------------------------------------------------
(* The rows of ps.  A stable descending sort puts each row at the number of  *)
(* those that are to stand before it; as many rows have as many places.      *)

IsRows(rows, size) ==
  size \in Nat /\ DOMAIN rows = 1 .. size /\ Len(rows) = size /\ \A i \in 1 .. size : rows[i].key \in Int

Precedes(rows, j, i) == rows[j].key > rows[i].key \/ (rows[j].key = rows[i].key /\ j <= i)

LEMMA PlaceOfRow ==
  ASSUME NEW rows, NEW size, IsRows(rows, size), NEW i \in 1 .. size
  PROVE  /\ Place(rows, i) \in 1 .. size
         /\ \A j \in 1 .. size : ~Precedes(rows, i, j) => Place(rows, j) < Place(rows, i)
         /\ LET above == {j \in 1 .. size : rows[j].key > rows[i].key} IN
            IsFiniteSet(above) /\ Cardinality(above) < Place(rows, i)
<1>. DEFINE upTo(j) == {k \in 1 .. size : Precedes(rows, k, j)}
            above == {j \in 1 .. size : rows[j].key > rows[i].key}
<1>0. \A j \in 1 .. size : rows[j].key \in Int /\ j \in Int
  BY DEF IsRows
<1>1. /\ size \in Nat /\ IsFiniteSet(1 .. size) /\ Cardinality(1 .. size) = size
      /\ \A j \in 1 .. size : rows[j].key \in Int /\ Place(rows, j) = Cardinality(upTo(j))
  <2>1. size \in Nat /\ DOMAIN rows = 1 .. size /\ \A j \in 1 .. size : rows[j].key \in Int
    BY DEF IsRows
  <2>2. IsFiniteSet(1 .. size) /\ Cardinality(1 .. size) = size
    BY <2>1, FirstNumbers
  <2>3. ASSUME NEW j \in 1 .. size PROVE Place(rows, j) = Cardinality(upTo(j))
    BY <2>1 DEF Place, Precedes
  <2>. QED BY <2>1, <2>2, <2>3
<1>2. \A j \in 1 .. size : /\ upTo(j) \in SUBSET (1 .. size)
                           /\ ~Precedes(rows, i, j) => upTo(j) \in SUBSET (upTo(i) \ {i})
  <2>1. \A j, k \in 1 .. size : ~Precedes(rows, i, j) /\ Precedes(rows, k, j) =>
          Precedes(rows, k, i) /\ k # i
    BY <1>0 DEF Precedes
  <2>. QED BY <2>1, Zenon
<1>3. i \in upTo(i) /\ above \in SUBSET (upTo(i) \ {i})
  <2>1. Precedes(rows, i, i) /\ ~(rows[i].key > rows[i].key)
    BY <1>0 DEF Precedes
  <2>2. \A k \in above : k \in upTo(i) /\ k # i
    BY <2>1 DEF Precedes
  <2>. QED BY <2>1, <2>2, Zenon
<1>. HIDE DEF upTo, above
<1>4. /\ IsFiniteSet(upTo(i)) /\ Cardinality(upTo(i)) <= size
      /\ Cardinality(upTo(i)) \in Nat /\ Cardinality(upTo(i)) # 0
  BY <1>1, <1>2, <1>3, FS_Subset, FS_CardinalityType, FS_EmptySet
<1>5. IsFiniteSet(upTo(i) \ {i}) /\ Cardinality(upTo(i) \ {i}) = Cardinality(upTo(i)) - 1
  BY <1>3, <1>4, FS_RemoveElement
<1>6. ASSUME NEW T \in SUBSET (upTo(i) \ {i}) PROVE IsFiniteSet(T) /\ Cardinality(T) < Cardinality(upTo(i))
  <2>1. IsFiniteSet(T) /\ Cardinality(T) <= Cardinality(upTo(i)) - 1
    BY <1>5, FS_Subset
  <2>2. Cardinality(T) \in Nat
    BY <2>1, FS_CardinalityType
  <2>. QED BY <1>4, <2>1, <2>2
<1>. QED BY <1>1, <1>2, <1>3, <1>4, <1>6 DEF above

LEMMA SortedRows ==
  ASSUME NEW rows, NEW size, IsRows(rows, size)
  PROVE  \E from \in [1 .. size -> 1 .. size] :
           /\ DOMAIN Sorted(rows) = 1 .. size
           /\ \A n \in 1 .. size : Sorted(rows)[n] = rows[from[n]] /\ Place(rows, from[n]) = n
           /\ \A m, n \in 1 .. size : m <= n => rows[from[m]].key >= rows[from[n]].key
<1>. DEFINE place == [i \in 1 .. size |-> Place(rows, i)]
            from == [n \in 1 .. size |-> CHOOSE i \in 1 .. size : Place(rows, i) = n]
<1>1. /\ size \in Nat /\ DOMAIN rows = 1 .. size /\ IsFiniteSet(1 .. size) /\ Cardinality(1 .. size) = size
      /\ \A i \in 1 .. size : rows[i].key \in Int
  BY FirstNumbers DEF IsRows
<1>2. \A i \in 1 .. size : Place(rows, i) \in 1 .. size
  BY PlaceOfRow
<1>3. ASSUME NEW i \in 1 .. size, NEW j \in 1 .. size, i # j PROVE Place(rows, i) # Place(rows, j)
  <2>1. ~Precedes(rows, i, j) \/ ~Precedes(rows, j, i)
    BY <1>1, <1>3 DEF Precedes
  <2>2. Place(rows, j) < Place(rows, i) \/ Place(rows, i) < Place(rows, j)
    BY <2>1, PlaceOfRow
  <2>. QED BY <1>1, <1>2, <2>2
<1>4. \A n \in 1 .. size : \E i \in 1 .. size : Place(rows, i) = n
  <2>1. place \in [1 .. size -> 1 .. size] /\ \A i \in 1 .. size : place[i] = Place(rows, i)
    BY <1>2
  <2>. HIDE DEF place
  <2>2. \A x, y \in 1 .. size : place[x] = place[y] => x = y
    BY <1>3, <2>1, Zenon
  <2>3. \A n \in 1 .. size : \E i \in 1 .. size : place[i] = n
    <3>. DEFINE S == 1 .. size
    <3>1. IsFiniteSet(S) /\ Cardinality(S) = size /\ place \in [S -> 1 .. Cardinality(S)]
      BY <1>1, <2>1
    <3>2. \A x, y \in S : place[x] = place[y] => x = y
      BY <2>2
    <3>. HIDE DEF S
    <3>3. \A n \in 1 .. Cardinality(S) : \E i \in S : place[i] = n
      BY <3>1, <3>2, EveryPlaceTaken
    <3>. QED BY <3>1, <3>3 DEF S
  <2>. QED BY <2>1, <2>3
<1>5. ASSUME NEW n \in 1 .. size PROVE from[n] \in 1 .. size /\ Place(rows, from[n]) = n
  <2>1. from[n] = CHOOSE i \in 1 .. size : Place(rows, i) = n
    OBVIOUS
  <2>. HIDE DEF from
  <2>. QED BY <1>4, <2>1
<1>6. Sorted(rows) = [n \in 1 .. size |-> rows[from[n]]]
  BY <1>1 DEF Sorted
<1>7. from \in [1 .. size -> 1 .. size]
  <2>1. DOMAIN from = 1 .. size /\ from = [n \in 1 .. size |-> from[n]]
    OBVIOUS
  <2>. HIDE DEF from
  <2>. QED BY <1>5, <2>1
<1>. HIDE DEF from
<1>8. ASSUME NEW m \in 1 .. size, NEW n \in 1 .. size, m <= n
      PROVE  rows[from[m]].key >= rows[from[n]].key
  <2>1. ~Precedes(rows, from[m], from[n]) => Place(rows, from[n]) < Place(rows, from[m])
    BY <1>5, PlaceOfRow
  <2>2. Precedes(rows, from[m], from[n])
    BY <1>1, <1>5, <1>8, <2>1
  <2>. QED BY <1>1, <1>5, <2>2 DEF Precedes
<1>. QED BY <1>5, <1>6, <1>7, <1>8

(* What ps shows: as many rows as are wanted and the limit allows, the next  *)
(* never larger than the last, and fewer of the wanted are larger than a row *)
(* than stand above it.                                                      *)
LargestRows(q, shown) ==
  LET wanted == {i \in DOMAIN q.rows : q.user \in {None, q.rows[i].user}}
      atLeast(key, rows, dom) == Cardinality({i \in dom : rows[i].key >= key})
  IN  /\ Len(shown) = IF q.limit = None \/ q.limit > Cardinality(wanted)
                      THEN Cardinality(wanted) ELSE q.limit
      /\ \A n \in DOMAIN shown :
           /\ q.user \in {None, shown[n].user}
           /\ atLeast(shown[n].key, shown, 1 .. n) = n
           /\ atLeast(shown[n].key + 1, q.rows, wanted) < n

LEMMA FilteredRows ==
  ASSUME NEW q, IsRows(q.rows, Len(q.rows)), q.limit \in Nat \cup {None}
  PROVE  LargestRows(q, FilterProcesses(q.rows, q.user, q.limit))
<1>. DEFINE rows == q.rows
            wanted == {i \in DOMAIN rows : q.user \in {None, rows[i].user}}
            size == Cardinality(wanted)
            order == InOrder(wanted)
            matched == Matching(rows, q.user)
            full == IF q.limit = None \/ q.limit > size THEN size ELSE q.limit
            shown == FilterProcesses(rows, q.user, q.limit)
<1>1. /\ Len(rows) \in Nat /\ DOMAIN rows = 1 .. Len(rows) /\ \A i \in wanted : rows[i].key \in Int
      /\ wanted \in SUBSET (1 .. Len(rows)) /\ wanted \in SUBSET Nat
      /\ \A i \in wanted : q.user \in {None, rows[i].user}
  BY DEF IsRows
<1>. HIDE DEF wanted
<1>2. IsFiniteSet(wanted)
  BY <1>1, FirstNumbers, FS_Subset
<1>3. /\ size \in Nat /\ \A n \in 1 .. size : order[n] \in wanted
      /\ \A i \in wanted : CountTo(wanted, i) \in 1 .. size /\ order[CountTo(wanted, i)] = i
  BY <1>1, <1>2, InOrderIs
<1>4. /\ DOMAIN matched = 1 .. size /\ Len(matched) = size
      /\ \A n \in 1 .. size : matched[n] = rows[order[n]]
  <2>1. matched = Picked(rows, wanted)
    BY DEF Matching, wanted
  <2>. HIDE DEF matched
  <2>. QED BY <1>1, <1>2, <2>1, PickedIs
<1>5. IsRows(matched, size)
  BY <1>1, <1>3, <1>4 DEF IsRows
<1>. HIDE DEF matched, order, size, rows
<1>6. PICK from \in [1 .. size -> 1 .. size] :
        /\ DOMAIN Sorted(matched) = 1 .. size
        /\ \A n \in 1 .. size : Sorted(matched)[n] = matched[from[n]] /\ Place(matched, from[n]) = n
        /\ \A m, n \in 1 .. size : m <= n => matched[from[m]].key >= matched[from[n]].key
  BY <1>5, SortedRows
<1>7. /\ full \in Nat /\ full <= size /\ Len(shown) = full /\ DOMAIN shown = 1 .. full
      /\ \A n \in 1 .. full : shown[n] = matched[from[n]] /\ n \in 1 .. size
  <2>1. Len(Sorted(matched)) = size
    BY <1>3, <1>6
  <2>2. shown = Truncate(Sorted(matched), q.limit)
    BY DEF FilterProcesses, matched
  <2>0. full \in Nat /\ full <= size
    BY <1>3
  <2>. HIDE DEF shown
  <2>3. CASE q.limit = None \/ q.limit >= size
    <3>1. shown = Sorted(matched) /\ full = size
      BY <1>3, <2>1, <2>2, <2>3 DEF Truncate
    <3>. HIDE DEF full
    <3>. QED BY <1>3, <1>6, <2>0, <2>1, <3>1
  <2>4. CASE q.limit # None /\ ~(q.limit >= size)
    <3>1. q.limit \in Nat /\ q.limit < size /\ full = q.limit
      BY <1>3, <2>4
    <3>2. shown = SubSeq(Sorted(matched), 1, q.limit)
      BY <2>1, <2>2, <2>4 DEF Truncate
    <3>. HIDE DEF full
    <3>3. DEFINE s == Sorted(matched)  all == {s[n] : n \in 1 .. size}
    <3>4. s \in Seq(all)
      <4>1. s \in [1 .. size -> all]
        <5>1. s = [n \in 1 .. size |-> s[n]]
          BY <1>6 DEF Sorted
        <5>. QED BY <5>1
      <4>. HIDE DEF s, all
      <4>. QED BY <1>3, <4>1
    <3>5. Len(shown) = full /\ DOMAIN shown = 1 .. full /\ \A n \in 1 .. full : shown[n] = s[n]
      <4>. HIDE DEF s
      <4>1. Len(s) = size /\ shown = SubSeq(s, 1, q.limit)
        BY <2>1, <3>2 DEF s
      <4>2. \A i \in 1 .. full : s[i] \in all
        <5>1. \A i \in 1 .. full : i \in 1 .. size
          BY <1>3, <2>0
        <5>. QED BY <5>1 DEF all
      <4>3. /\ shown \in Seq(all) /\ Len(shown) = (IF 1 <= full THEN full - 1 + 1 ELSE 0)
            /\ \A i \in 1 .. full - 1 + 1 : shown[i] = s[1 + i - 1]
        BY <2>0, <3>1, <4>1, <4>2, SubSeqProperties
      <4>4. full - 1 + 1 = full /\ (~(1 <= full) => full = 0) /\ \A i \in 1 .. full : 1 + i - 1 = i
        BY <2>0
      <4>. QED BY <2>0, <4>3, <4>4
    <3>. QED BY <1>3, <1>6, <2>0, <3>1, <3>5
  <2>. HIDE DEF full
  <2>. QED BY <2>3, <2>4
<1>. HIDE DEF shown, full
<1>8. ASSUME NEW n \in 1 .. full
      PROVE  /\ q.user \in {None, shown[n].user}
             /\ Cardinality({i \in 1 .. n : shown[i].key >= shown[n].key}) = n
             /\ Cardinality({i \in wanted : rows[i].key >= shown[n].key + 1}) < n
  <2>1. /\ n \in Nat /\ n \in 1 .. size /\ from[n] \in 1 .. size /\ shown[n] = matched[from[n]]
        /\ Place(matched, from[n]) = n
    BY <1>6, <1>7
  <2>2. order[from[n]] \in wanted /\ shown[n] = rows[order[from[n]]]
    BY <1>3, <1>4, <2>1
  <2>3. {i \in 1 .. n : shown[i].key >= shown[n].key} = 1 .. n
    <3>1. \A i \in 1 .. n : i \in 1 .. full /\ i <= n
      BY <1>7
    <3>2. \A i \in 1 .. n : shown[i].key >= shown[n].key
      BY <1>6, <1>7, <2>1, <3>1
    <3>. QED BY <3>2
  <2>4. Cardinality(1 .. n) = n
    BY <2>1, FirstNumbers
  <2>. DEFINE key == shown[n].key
              larger == {i \in wanted : rows[i].key >= key + 1}
              above == {j \in 1 .. size : matched[j].key > key}
              f == [j \in above |-> order[j]]
  <2>5. IsFiniteSet(above) /\ Cardinality(above) < n
    BY <1>5, <2>1, PlaceOfRow
  <2>6. key \in Int
    BY <1>1, <2>2
  <2>7. larger \subseteq {f[j] : j \in above}
    <3>1. ASSUME NEW i \in larger PROVE \E j \in above : f[j] = i
      <4>1. i \in wanted /\ rows[i].key \in Int /\ rows[i].key > key
        <5>1. i \in wanted /\ rows[i].key >= key + 1
          OBVIOUS
        <5>2. rows[i].key \in Int
          BY <1>1, <5>1 DEF rows
        <5>. HIDE DEF key
        <5>. QED BY <2>6, <5>1, <5>2
      <4>2. PICK j \in 1 .. size : order[j] = i
        BY <1>3, <4>1
      <4>3. j \in above
        BY <1>4, <4>1, <4>2
      <4>. HIDE DEF above
      <4>. QED BY <4>2, <4>3
    <3>. HIDE DEF larger, above, f
    <3>. QED BY <3>1
  <2>8. DOMAIN f = above
    OBVIOUS
  <2>. HIDE DEF f, above, key
  <2>9. IsFiniteSet({f[j] : j \in above}) /\ Cardinality({f[j] : j \in above}) <= Cardinality(above)
    BY <2>5, <2>8, Image
  <2>. HIDE DEF larger
  <2>10. Cardinality(larger) <= Cardinality({f[j] : j \in above})
    BY <2>7, <2>9, FS_Subset
  <2>11. Cardinality(larger) < n
    <3>1. IsFiniteSet(larger)
      BY <2>7, <2>9, FS_Subset
    <3>. QED BY <2>1, <2>5, <2>9, <2>10, <3>1, FS_CardinalityType
  <2>12. q.user \in {None, shown[n].user}
    BY <1>1, <2>2 DEF rows
  <2>13. Cardinality({i \in 1 .. n : shown[i].key >= shown[n].key}) = n
    BY <2>3, <2>4
  <2>14. Cardinality({i \in wanted : rows[i].key >= shown[n].key + 1}) < n
    BY <2>11 DEF larger, key
  <2>. QED BY <2>12, <2>13, <2>14
<1>. QED BY <1>7, <1>8 DEF LargestRows, wanted, size, full, shown, rows

LEMMA RowsStart == Init => RowsAreLargest
  BY DEF Init, RowsAreLargest

(* A report sorts the rows of its own query, and no other step changes what  *)
(* was printed of ps.                                                        *)
LEMMA RowsStep ==
  ASSUME CliInv, RowsAreLargest, [Next]_vars
  PROVE  RowsAreLargest'
<1>1. \/ UNCHANGED <<cmd, out>>
      \/ out' = out /\ phase = "check"
      \/ UNCHANGED cmd /\ phase = "session"
      \/ UNCHANGED cmd /\ phase = "rounds" /\ \E q \in Queries : Report(q) /\ out' # out
  <2>1. ASSUME NEW q \in Queries, Report(q)
        PROVE  UNCHANGED cmd /\ phase = "rounds"
    BY <2>1 DEF Report
  <2>2. ASSUME NEW g, MergeSettings(g) PROVE UNCHANGED <<cmd, out>>
    BY <2>2 DEF MergeSettings, Running
  <2>3. ASSUME NEW c, NEW o, Choose(c, o) PROVE out' = out /\ phase = "check"
    BY <2>3 DEF Choose
  <2>4. ASSUME NEW p, ShowPage(p) PROVE UNCHANGED cmd /\ phase = "session"
    BY <2>4 DEF ShowPage
  <2>5. ASSUME Bypass \/ PrintConfig \/ Proceed \/ WarmUp \/ Finish \/ RefuseSession \/ LeaveSession
               \/ Exited \/ UNCHANGED vars
        PROVE  UNCHANGED <<cmd, out>>
    BY <2>5 DEF Bypass, PrintConfig, Proceed, WarmUp, Finish, RefuseSession, LeaveSession, Exited,
                vars, Running
  <2>. QED BY <2>1, <2>2, <2>3, <2>4, <2>5 DEF Next
<1>2. CASE UNCHANGED <<cmd, out>>
  BY <1>2 DEF RowsAreLargest
<1>3. CASE out' = out /\ phase = "check"
  BY <1>3 DEF RowsAreLargest, CliInv, Unstarted
<1>4. CASE UNCHANGED cmd /\ phase = "session"
  BY <1>4 DEF RowsAreLargest, CliInv, Accepted
<1>5. ASSUME NEW q \in Queries, UNCHANGED cmd, Report(q), out' # out, cmd = "processes"
      PROVE  RowsAreLargest'
  <2>1. out'.rows = FilterProcesses(q.rows, q.user, q.limit) /\ out'.query = q
    BY <1>5 DEF Report
  <2>2. q.rows \in Samples /\ q.limit \in {None, 0, 1}
    BY <1>5 DEF Queries
  <2>3. IsRows(q.rows, Len(q.rows)) /\ q.limit \in Nat \cup {None}
    BY <2>2, CliAssumption DEF CliAssumption, IsRows
  <2>4. LargestRows(out'.query, out'.rows)
    BY <2>1, <2>3, FilteredRows
  <2>. QED BY <2>4 DEF LargestRows, RowsAreLargest
<1>. QED BY <1>1, <1>2, <1>3, <1>4, <1>5 DEF RowsAreLargest

-------------------------------------------------------------------------------
(* Whatever the settings and however long a document or deep the limit, no   *)
(* report and no page shows what the policy in force hides.                  *)
THEOREM PrivacyCorrect == Spec => []NothingPrivateShown
  BY CliCorrect, PTL DEF CliInv

(* For any interval, any number of rounds and any wait for a password: no    *)
(* rate is of less than 250 ms; those of a single report are of a short      *)
(* window of their own, those of a stream of its interval, or of two where   *)
(* powermetrics runs between the readings.                                   *)
THEOREM RatesCorrect == Spec => []RatesAreTimed
  BY CliCorrect, PTL DEF CliInv, Timed

(* Each setting comes from its highest source, what is misuse is refused      *)
(* before any work, a stream that ends well is whole, and ps keeps no row in  *)
(* place of a larger one, for any rows, users and limits (FilterProcesses).   *)
THEOREM CommandCorrect == Spec => []ReportIsAsAsked
<1>1. Spec => [](CliInv /\ RowsAreLargest)
  BY CliStart, CliStep, RowsStart, RowsStep, PTL DEF Spec
<1>2. CliInv /\ RowsAreLargest => ReportIsAsAsked
  BY DEF CliInv, Settled, Unstarted, Headed, ReportIsAsAsked
<1>. QED BY <1>1, <1>2, PTL

-------------------------------------------------------------------------------
(* The table of sockets.

   A line of nettop keeps, as history, whose socket it is.  As long as that
   socket is open it has the line's key and at least its counts; all that the
   second sample has passed by is listed in it.                              *)

Uses == [tuple : Tuples, state : States, count : [Directions -> Nat], counted : BOOLEAN,
         owner : Sockets \X Nat]

ProcessLines == [kind : {"process"}, process : Processes, time : Int]
OwnLines == [kind : {"socket"}, socket : Sockets, interface : Interfaces, state : States,
             time : Int, at : Nat, count : [Directions -> Nat \cup {None}],
             owner : Sockets \X Nat]
Lines == ProcessLines \cup OwnLines

Owned(sockets, n) ==
  /\ sockets \in [Sockets -> Uses \cup {None}]
  /\ \A s \in Sockets : sockets[s] # None => sockets[s].owner[1] = s /\ sockets[s].owner[2] <= n

WellFormed(sample, now, end, n) ==
  /\ sample \in Seq(Lines)
  /\ sample # <<>> => sample[1].kind = "process"
  /\ \A i \in Socketed(sample) :
       /\ sample[i].at <= now /\ sample[i].time = ((sample[i].at - end) % Day)
       /\ sample[i].owner[1] = sample[i].socket /\ sample[i].owner[2] <= n

(* s is still the socket of line i. *)
StillOpen(sample, i, s, sockets) == sockets[s] # None /\ sockets[s].owner = sample[i].owner

Traced(sample, sockets) ==
  \A i \in Socketed(sample), s \in Sockets : StillOpen(sample, i, s, sockets) =>
    /\ Key(sample, i) = <<sockets[s].tuple.process, sockets[s].tuple.interface>>
    /\ \A d \in Directions : sample[i].count[d] # None => sample[i].count[d] <= sockets[s].count[d]

Ordered(before, after) ==
  \A i \in Socketed(before), j \in Socketed(after) :
    /\ before[i].at <= after[j].at
    /\ before[i].owner = after[j].owner =>
         /\ Key(before, i) = Key(after, j)
         /\ \A d \in Directions : before[i].count[d] # None /\ after[j].count[d] # None =>
              before[i].count[d] <= after[j].count[d]

(* The second sample lists what is still open under the same owner. *)
SameSocket(before, after, sockets) ==
  \A i \in Socketed(before), j \in Socketed(after), s \in Sockets :
    StillOpen(before, i, s, sockets) /\ after[j].socket = s => after[j].owner = before[i].owner

Complete(before, after, processes, sockets) ==
  \A i \in Socketed(before), s \in Sockets :
    StillOpen(before, i, s, sockets) /\ sockets[s].tuple.process \in processes =>
      \E j \in Socketed(after) : after[j].owner = before[i].owner

Passed == IF lines = <<>> THEN {} ELSE Listed \ {Current}

Clocked == uses \in Nat /\ clock \in Nat /\ clock <= Deadline /\ midnight \in Int

SamplesRight ==
  /\ listings \in Seq(Seq(Lines)) /\ Len(listings) \in 0 .. 2
  /\ WellFormed(lines, clock, midnight, uses) /\ Traced(lines, socket)
  /\ \A n \in 1 .. Len(listings) :
       WellFormed(listings[n], clock, midnight, uses) /\ Traced(listings[n], socket)
  /\ Len(listings) = 1 => /\ Ordered(listings[1], lines)
                          /\ SameSocket(listings[1], lines, socket)
                          /\ Complete(listings[1], lines, Passed, socket)
  /\ Len(listings) = 2 => /\ lines = <<>>
                          /\ Ordered(listings[1], listings[2])
                          /\ Complete(listings[1], listings[2], Processes, socket)

ReportRight ==
  Reported =>
    /\ Len(listings) = 2
    /\ flows.rows \in Cuts(FlowRows(listings[1], listings[2]))
    /\ flows.truncated = Truncated(listings[1], listings[2])

FlowsInv == Clocked /\ Owned(socket, uses) /\ SamplesRight /\ ReportRight

-------------------------------------------------------------------------------
(* Samples, line by line. *)

LEMMA LastProcess ==
  ASSUME NEW sample \in Seq(Lines), sample[1].kind = "process", NEW n \in 1 .. Len(sample)
  PROVE  \E k \in 1 .. n : /\ sample[k].kind = "process" /\ ProcessAt(sample, n) = sample[k].process
                           /\ \A j \in 1 .. n : sample[j].kind = "process" => j <= k
<1>. DEFINE above == {j \in 1 .. n : sample[j].kind = "process"}
<1>1. n \in Nat /\ above \in SUBSET (1 .. n) /\ 1 \in above
  OBVIOUS
<1>2. \E k \in above : \A j \in above : j <= k
  <2>. HIDE DEF above
  <2>. QED BY <1>1, GreatestUpTo
<1>3. PICK k : k = CHOOSE j \in above : \A other \in above : other <= j
  OBVIOUS
<1>4. k \in above /\ \A j \in above : j <= k
  <2>. HIDE DEF above
  <2>. QED BY <1>2, <1>3
<1>5. ProcessAt(sample, n) = sample[k].process
  BY <1>3 DEF ProcessAt
<1>. QED BY <1>4, <1>5

LEMMA AppendLine ==
  ASSUME NEW sample \in Seq(Lines), sample # <<>> => sample[1].kind = "process",
         NEW line \in Lines, sample = <<>> => line.kind = "process"
  PROVE  LET longer == Append(sample, line)  n == Len(sample) IN
         /\ longer \in Seq(Lines) /\ Len(longer) = n + 1 /\ n \in Nat
         /\ longer[n + 1] = line /\ longer[1].kind = "process"
         /\ Socketed(longer) = Socketed(sample) \cup (IF line.kind = "socket" THEN {n + 1} ELSE {})
         /\ \A i \in 1 .. n : longer[i] = sample[i] /\ ProcessAt(longer, i) = ProcessAt(sample, i)
         /\ line.kind = "process" => ProcessAt(longer, n + 1) = line.process
         /\ line.kind = "socket" => ProcessAt(longer, n + 1) = ProcessAt(sample, n)
<1>. DEFINE longer == Append(sample, line)  n == Len(sample)
            Above(s, i) == {j \in 1 .. i : s[j].kind = "process"}
            Top(s, i) == CHOOSE j \in Above(s, i) : \A k \in Above(s, i) : k <= j
<1>1. /\ longer \in Seq(Lines) /\ Len(longer) = n + 1 /\ n \in Nat
      /\ longer[n + 1] = line /\ \A i \in 1 .. n : longer[i] = sample[i]
  OBVIOUS
<1>2. longer[1].kind = "process"
  <2>1. CASE sample = <<>>
    BY <1>1, <2>1
  <2>2. CASE sample # <<>>
    <3>1. 1 \in 1 .. n
      BY <2>2
    <3>. QED BY <1>1, <2>2, <3>1
  <2>. QED BY <2>1, <2>2
<1>3. DOMAIN longer = DOMAIN sample \cup {n + 1} /\ DOMAIN sample = 1 .. n
  BY <1>1
<1>4. Socketed(longer) = Socketed(sample) \cup (IF line.kind = "socket" THEN {n + 1} ELSE {})
  <2>. HIDE DEF longer, n
  <2>. QED BY <1>1, <1>3 DEF Socketed
<1>5. ASSUME NEW i \in 1 .. n PROVE ProcessAt(longer, i) = ProcessAt(sample, i)
  <2>1. Above(longer, i) = Above(sample, i)
    BY <1>1
  <2>2. i \in 1 .. Len(sample) /\ sample[1].kind = "process"
    OBVIOUS
  <2>3. PICK k \in 1 .. i : sample[k].kind = "process" /\ \A j \in 1 .. i : sample[j].kind = "process" => j <= k
    BY <2>2, LastProcess
  <2>4. k \in Above(sample, i) /\ \A j \in Above(sample, i) : j <= k
    BY <2>3
  <2>5. Top(sample, i) \in Above(sample, i)
    <3>. HIDE DEF Above
    <3>. QED BY <2>4
  <2>6. Top(sample, i) \in 1 .. n
    BY <2>5, <1>1
  <2>7. ProcessAt(sample, i) = sample[Top(sample, i)].process
    BY DEF ProcessAt
  <2>8. ProcessAt(longer, i) = longer[Top(longer, i)].process
    BY DEF ProcessAt
  <2>. HIDE DEF Above, longer, n
  <2>. QED BY <1>1, <2>1, <2>6, <2>7, <2>8
<1>6. n + 1 \in 1 .. Len(longer)
  BY <1>1
<1>7. PICK m \in 1 .. n + 1 :
        /\ longer[m].kind = "process" /\ ProcessAt(longer, n + 1) = longer[m].process
        /\ \A j \in 1 .. n + 1 : longer[j].kind = "process" => j <= m
  <2>. HIDE DEF longer, n
  <2>. QED BY <1>1, <1>2, <1>6, LastProcess
<1>8. line.kind = "process" => ProcessAt(longer, n + 1) = line.process
  <2>. HIDE DEF longer
  <2>. QED BY <1>1, <1>7
<1>9. ASSUME line.kind = "socket" PROVE ProcessAt(longer, n + 1) = ProcessAt(sample, n)
  <2>1. sample # <<>> /\ sample[1].kind = "process" /\ n \in 1 .. Len(sample)
    BY <1>9
  <2>2. PICK k \in 1 .. n : /\ sample[k].kind = "process" /\ ProcessAt(sample, n) = sample[k].process
                            /\ \A j \in 1 .. n : sample[j].kind = "process" => j <= k
    BY <2>1, LastProcess
  <2>3. m # n + 1
    BY <1>1, <1>7, <1>9
  <2>. HIDE DEF longer
  <2>4. m \in 1 .. n /\ m = k
    BY <1>1, <1>7, <2>2, <2>3, SMTT(30)
  <2>. QED BY <1>1, <1>7, <2>2, <2>4
<1>. QED BY <1>1, <1>2, <1>4, <1>5, <1>8, <1>9


-------------------------------------------------------------------------------
(* The machine. *)

(* What is open now and had an owner before has had it all the time. *)
Outlived(before, after, n) ==
  \A s \in Sockets, owner \in Sockets \X Nat :
    owner[2] <= n /\ after[s] # None /\ after[s].owner = owner =>
      /\ before[s] # None /\ before[s].owner = owner /\ before[s].tuple = after[s].tuple
      /\ \A d \in Directions : before[s].count[d] <= after[s].count[d]

(* What may become of a socket. *)
Becomes(sockets, s, n, use) ==
  use # None =>
    /\ use \in Uses /\ use.owner[1] = s /\ use.owner[2] <= n + 1
    /\ \/ use.owner[2] = n + 1
       \/ /\ sockets[s] # None /\ use.owner = sockets[s].owner /\ use.tuple = sockets[s].tuple
          /\ \A d \in Directions : sockets[s].count[d] <= use.count[d]

LEMMA UseOutlived ==
  ASSUME NEW sockets, NEW n \in Nat, Owned(sockets, n), NEW s \in Sockets, NEW use,
         Becomes(sockets, s, n, use)
  PROVE  LET after == [sockets EXCEPT ![s] = use] IN
         Owned(after, n + 1) /\ Outlived(sockets, after, n)
<1>. DEFINE after == [sockets EXCEPT ![s] = use]
<1>1. /\ after \in [Sockets -> Uses \cup {None}]
      /\ \A t \in Sockets : after[t] = IF t = s THEN use ELSE sockets[t]
  BY DEF Owned, Becomes
<1>2. \A t \in Sockets : sockets[t] # None =>
        /\ sockets[t] \in Uses /\ sockets[t].owner[1] = t
        /\ sockets[t].owner[2] <= n /\ sockets[t].owner[2] \in Nat
        /\ \A d \in Directions : sockets[t].count[d] <= sockets[t].count[d]
  BY DEF Owned, Uses
<1>. HIDE DEF after
<1>3. ASSUME NEW t \in Sockets, after[t] # None
      PROVE  after[t].owner[1] = t /\ after[t].owner[2] <= n + 1
  BY <1>1, <1>2, <1>3 DEF Becomes
<1>4. ASSUME NEW t \in Sockets, NEW owner \in Sockets \X Nat, owner[2] <= n,
             after[t] # None, after[t].owner = owner
      PROVE  /\ sockets[t] # None /\ sockets[t].owner = owner /\ sockets[t].tuple = after[t].tuple
             /\ \A d \in Directions : sockets[t].count[d] <= after[t].count[d]
  <2>1. CASE t # s
    BY <1>1, <1>2, <1>4, <2>1
  <2>2. CASE t = s
    <3>1. after[t] = use /\ use # None
      BY <1>1, <1>4, <2>2
    <3>2. use.owner[2] # n + 1
      BY <1>4, <3>1
    <3>. QED BY <1>4, <2>2, <3>1, <3>2 DEF Becomes
  <2>. QED BY <2>1, <2>2
<1>. QED BY <1>1, <1>3, <1>4 DEF Owned, Outlived, after

LEMMA LineOutlived ==
  ASSUME NEW sample, NEW now, NEW end, NEW n \in Nat, WellFormed(sample, now, end, n),
         NEW i \in Socketed(sample), NEW s \in Sockets,
         NEW sockets, NEW after, Outlived(sockets, after, n), StillOpen(sample, i, s, after)
  PROVE  /\ StillOpen(sample, i, s, sockets) /\ sockets[s].tuple = after[s].tuple
         /\ \A d \in Directions : sockets[s].count[d] <= after[s].count[d]
<1>1. sample[i].owner \in Sockets \X Nat /\ sample[i].owner[2] <= n
  <2>1. sample[i] \in Lines /\ sample[i].kind = "socket"
    BY DEF Socketed, WellFormed
  <2>. QED BY <2>1 DEF Lines, ProcessLines, OwnLines, WellFormed
<1>. QED BY <1>1 DEF Outlived, StillOpen

LEMMA SampleOutlived ==
  ASSUME NEW sample, NEW now, NEW end, NEW n \in Nat, WellFormed(sample, now, end, n)
  PROVE  WellFormed(sample, now, end, n + 1)
<1>1. ASSUME NEW i \in Socketed(sample)
      PROVE  sample[i].owner[2] <= n + 1
  <2>1. sample[i] \in Lines /\ sample[i].kind = "socket"
    BY DEF Socketed, WellFormed
  <2>2. sample[i].owner[2] \in Nat /\ sample[i].owner[2] <= n
    BY <2>1 DEF Lines, ProcessLines, OwnLines, WellFormed
  <2>. QED BY <2>2
<1>. QED BY <1>1 DEF WellFormed

LEMMA TracedOutlived ==
  ASSUME NEW sample, NEW now, NEW end, NEW n \in Nat, WellFormed(sample, now, end, n),
         NEW sockets, NEW after, Owned(sockets, n), Owned(after, n + 1), Outlived(sockets, after, n),
         Traced(sample, sockets)
  PROVE  Traced(sample, after)
<1>. SUFFICES ASSUME NEW i \in Socketed(sample), NEW s \in Sockets, StillOpen(sample, i, s, after)
              PROVE  /\ Key(sample, i) = <<after[s].tuple.process, after[s].tuple.interface>>
                     /\ \A d \in Directions : sample[i].count[d] # None =>
                          sample[i].count[d] <= after[s].count[d]
  BY DEF Traced
<1>1. /\ StillOpen(sample, i, s, sockets) /\ sockets[s].tuple = after[s].tuple
      /\ \A d \in Directions : sockets[s].count[d] <= after[s].count[d]
  BY LineOutlived
<1>2. /\ Key(sample, i) = <<sockets[s].tuple.process, sockets[s].tuple.interface>>
      /\ \A d \in Directions : sample[i].count[d] # None => sample[i].count[d] <= sockets[s].count[d]
  BY <1>1 DEF Traced
<1>3. ASSUME NEW d \in Directions
      PROVE  /\ sockets[s].count[d] \in Nat /\ after[s].count[d] \in Nat
             /\ sample[i].count[d] \in Nat \cup {None}
  <2>1. sockets[s] \in Uses /\ after[s] \in Uses
    BY <1>1 DEF Owned, StillOpen
  <2>2. sample[i] \in Lines /\ sample[i].kind = "socket"
    BY DEF Socketed, WellFormed
  <2>. QED BY <2>1, <2>2 DEF Uses, Lines, ProcessLines, OwnLines
<1>4. ASSUME NEW d \in Directions, sample[i].count[d] # None
      PROVE  sample[i].count[d] <= after[s].count[d]
  <2>1. sample[i].count[d] \in Nat
    BY <1>3, <1>4
  <2>. QED BY <1>1, <1>2, <1>3, <1>4, <2>1
<1>. QED BY <1>1, <1>2, <1>4

LEMMA PairsOutlived ==
  ASSUME NEW sample, NEW now, NEW end, NEW n \in Nat, WellFormed(sample, now, end, n),
         NEW sockets, NEW after, Outlived(sockets, after, n), NEW later, NEW processes
  PROVE  /\ SameSocket(sample, later, sockets) => SameSocket(sample, later, after)
         /\ Complete(sample, later, processes, sockets) => Complete(sample, later, processes, after)
<1>1. ASSUME NEW i \in Socketed(sample), NEW s \in Sockets, StillOpen(sample, i, s, after)
      PROVE  StillOpen(sample, i, s, sockets) /\ sockets[s].tuple = after[s].tuple
  BY <1>1, LineOutlived
<1>. QED BY <1>1 DEF SameSocket, Complete

(* Sockets come, go and count while nettop stands still. *)
LEMMA UseStep ==
  ASSUME FlowsInv, NEW s \in Sockets, NEW use, Becomes(socket, s, uses, use), Use(s, use)
  PROVE  FlowsInv'
<1>1. /\ FlowsRun /\ uses' = uses + 1 /\ socket' = [socket EXCEPT ![s] = use]
      /\ UNCHANGED <<clock, midnight, lines, listings, flows>>
  BY DEF Use
<1>2. Clocked /\ Owned(socket, uses) /\ SamplesRight /\ uses \in Nat
  BY DEF FlowsInv, Clocked
<1>3. Owned(socket', uses + 1) /\ Outlived(socket, socket', uses)
  BY <1>1, <1>2, UseOutlived
<1>4. ASSUME NEW sample, WellFormed(sample, clock, midnight, uses), Traced(sample, socket)
      PROVE  WellFormed(sample, clock, midnight, uses + 1) /\ Traced(sample, socket')
  BY <1>2, <1>3, <1>4, SampleOutlived, TracedOutlived
<1>5. ASSUME NEW sample, WellFormed(sample, clock, midnight, uses), NEW later, NEW processes
      PROVE  /\ SameSocket(sample, later, socket) => SameSocket(sample, later, socket')
             /\ Complete(sample, later, processes, socket) => Complete(sample, later, processes, socket')
  BY <1>2, <1>3, <1>5, PairsOutlived
<1>6. Passed' = Passed
  BY <1>1 DEF Passed, Listed, Current, ProcessesOf, Socketed, ProcessAt
<1>7. SamplesRight'
  <2>1. listings' \in Seq(Seq(Lines)) /\ Len(listings') \in 0 .. 2
    BY <1>1, <1>2 DEF SamplesRight
  <2>2. WellFormed(lines', clock', midnight', uses') /\ Traced(lines', socket')
    BY <1>1, <1>2, <1>4 DEF SamplesRight
  <2>3. \A n \in 1 .. Len(listings') :
          WellFormed(listings'[n], clock', midnight', uses') /\ Traced(listings'[n], socket')
    BY <1>1, <1>2, <1>4 DEF SamplesRight
  <2>4. Len(listings) \in {1, 2} => WellFormed(listings[1], clock, midnight, uses)
    BY <1>2 DEF SamplesRight
  <2>5. Len(listings') = 1 => /\ Ordered(listings'[1], lines')
                              /\ SameSocket(listings'[1], lines', socket')
                              /\ Complete(listings'[1], lines', Passed', socket')
    BY <1>1, <1>2, <1>5, <1>6, <2>4 DEF SamplesRight
  <2>6. Len(listings') = 2 => /\ lines' = <<>>
                              /\ Ordered(listings'[1], listings'[2])
                              /\ Complete(listings'[1], listings'[2], Processes, socket')
    BY <1>1, <1>2, <1>5, <2>4 DEF SamplesRight
  <2>. QED BY <2>1, <2>2, <2>3, <2>5, <2>6 DEF SamplesRight
<1>8. ReportRight'
  BY <1>1 DEF ReportRight, FlowsRun, Reported
<1>9. Clocked'
  BY <1>1, <1>2 DEF Clocked
<1>. QED BY <1>1, <1>3, <1>7, <1>8, <1>9 DEF FlowsInv


LEMMA SocketsUsed ==
  ASSUME FlowsInv, NEW s \in Sockets,
         \/ Open(s) \/ Close(s) \/ Cover(s)
         \/ \E d \in Directions : Transfer(s, d)
         \/ \E state \in States : ChangeState(s, state)
  PROVE  FlowsInv'
<1>1. uses \in Nat /\ (socket[s] # None => /\ socket[s] \in Uses /\ socket[s].owner[1] = s
                                           /\ socket[s].owner[2] <= uses)
  BY DEF FlowsInv, Clocked, Owned
<1>2. ASSUME socket[s] # None
      PROVE  /\ socket[s].owner[2] <= uses + 1
             /\ \A d \in Directions : socket[s].count[d] \in Nat /\ socket[s].count[d] <= socket[s].count[d]
  BY <1>1, <1>2 DEF Uses
<1>3. CASE Open(s)
  <2>1. PICK tuple \in Tuples, state \in States :
          Use(s, New(s, tuple, state, uses + 1))
    BY <1>3 DEF Open
  <2>. DEFINE use == New(s, tuple, state, uses + 1)
  <2>2. Use(s, use)
    BY <2>1
  <2>4. use \in Uses
    BY <1>1 DEF Uses, New
  <2>5. use.owner[1] = s /\ use.owner[2] = uses + 1 /\ use.owner[2] <= uses + 1
    BY <1>1 DEF New
  <2>6. Becomes(socket, s, uses, use)
    BY <2>4, <2>5 DEF Becomes
  <2>. HIDE DEF use
  <2>. QED BY <2>2, <2>6, UseStep
<1>4. CASE Close(s)
  <2>1. Becomes(socket, s, uses, None)
    BY DEF Becomes
  <2>. QED BY <1>4, <2>1, UseStep DEF Close
<1>5. CASE Cover(s)
  <2>. DEFINE use == [socket[s] EXCEPT !.counted = ~@]
  <2>1. socket[s] # None /\ Use(s, use)
    BY <1>5 DEF Cover
  <2>2. /\ use \in Uses /\ use.owner = socket[s].owner /\ use.tuple = socket[s].tuple
        /\ use.count = socket[s].count
    BY <1>1, <2>1 DEF Uses
  <2>. HIDE DEF use
  <2>3. Becomes(socket, s, uses, use)
    BY <1>1, <1>2, <2>1, <2>2 DEF Becomes
  <2>. QED BY <2>1, <2>3, UseStep
<1>6. ASSUME NEW d \in Directions, Transfer(s, d) PROVE FlowsInv'
  <2>. DEFINE use == [socket[s] EXCEPT !.count[d] = @ + 1]
  <2>1. socket[s] # None /\ Use(s, use)
    BY <1>6 DEF Transfer
  <2>2. /\ use \in Uses /\ use.owner = socket[s].owner /\ use.tuple = socket[s].tuple
        /\ \A x \in Directions : use.count[x] = IF x = d THEN socket[s].count[x] + 1 ELSE socket[s].count[x]
    BY <1>1, <2>1 DEF Uses
  <2>. HIDE DEF use
  <2>3. Becomes(socket, s, uses, use)
    BY <1>1, <1>2, <2>1, <2>2 DEF Becomes
  <2>. QED BY <2>1, <2>3, UseStep
<1>7. ASSUME NEW state \in States, ChangeState(s, state) PROVE FlowsInv'
  <2>. DEFINE use == [socket[s] EXCEPT !.state = state]
  <2>1. socket[s] # None /\ Use(s, use)
    BY <1>7 DEF ChangeState
  <2>2. /\ use \in Uses /\ use.owner = socket[s].owner /\ use.tuple = socket[s].tuple
        /\ use.count = socket[s].count
    BY <1>1, <2>1 DEF Uses
  <2>. HIDE DEF use
  <2>3. Becomes(socket, s, uses, use)
    BY <1>1, <1>2, <2>1, <2>2 DEF Becomes
  <2>. QED BY <2>1, <2>3, UseStep
<1>. QED BY <1>3, <1>4, <1>5, <1>6, <1>7

(* Time passes. *)
LEMMA SecondStep ==
  ASSUME FlowsInv, Second
  PROVE  FlowsInv'
<1>1. /\ FlowsRun /\ clock < Deadline /\ clock' = clock + 1
      /\ UNCHANGED <<socket, uses, midnight, lines, listings, flows>>
  BY DEF Second
<1>2. clock \in Nat /\ Deadline \in Nat /\ SamplesRight /\ Clocked
  BY FlowsAssumption DEF FlowsInv, Clocked
<1>3. ASSUME NEW sample, WellFormed(sample, clock, midnight, uses)
      PROVE  WellFormed(sample, clock + 1, midnight, uses)
  <2>1. ASSUME NEW i \in Socketed(sample) PROVE sample[i].at <= clock + 1
    <3>1. sample[i] \in Lines /\ sample[i].kind = "socket"
      BY <1>3 DEF Socketed, WellFormed
    <3>2. sample[i].at \in Nat
      BY <3>1 DEF Lines, ProcessLines, OwnLines
    <3>3. sample[i].at <= clock
      BY <1>3 DEF WellFormed
    <3>. QED BY <1>2, <3>2, <3>3
  <2>. QED BY <1>3, <2>1 DEF WellFormed
<1>4. Passed' = Passed
  BY <1>1 DEF Passed, Listed, Current, ProcessesOf, Socketed, ProcessAt
<1>5. SamplesRight'
  <2>1. \A n \in 1 .. Len(listings') :
          WellFormed(listings'[n], clock', midnight', uses') /\ Traced(listings'[n], socket')
    BY <1>1, <1>2, <1>3 DEF SamplesRight
  <2>2. WellFormed(lines', clock', midnight', uses')
    BY <1>1, <1>2, <1>3 DEF SamplesRight
  <2>. QED BY <1>1, <1>2, <1>4, <2>1, <2>2 DEF SamplesRight
<1>6. ReportRight'
  BY <1>1 DEF ReportRight, FlowsRun, Reported
<1>7. Clocked'
  BY <1>1, <1>2 DEF Clocked
<1>. QED BY <1>1, <1>5, <1>6, <1>7 DEF FlowsInv, Owned


-------------------------------------------------------------------------------
(* nettop writes a line. *)

LEMMA LinesWritten ==
  ASSUME FlowsInv, NEW line \in Lines, lines = <<>> => line.kind = "process",
         Len(listings) < 2,
         UNCHANGED <<socket, uses, clock, midnight, listings, flows>>, FlowsRun,
         lines' = Append(lines, line),
         line.kind = "socket" =>
           /\ line.at = clock /\ line.time = ((clock - midnight) % Day)
           /\ line.owner[1] = line.socket /\ line.owner[2] <= uses
           /\ socket[line.socket] # None /\ socket[line.socket].owner = line.owner
           /\ socket[line.socket].tuple.process = Current
           /\ socket[line.socket].tuple.interface = line.interface
           /\ \A d \in Directions : line.count[d] # None => line.count[d] = socket[line.socket].count[d]
  PROVE  /\ WellFormed(lines', clock, midnight, uses) /\ Traced(lines', socket)
         /\ Len(listings) = 1 => Ordered(listings[1], lines') /\ SameSocket(listings[1], lines', socket)
<1>. DEFINE n == Len(lines)
<1>1. /\ clock \in Nat /\ uses \in Nat /\ Owned(socket, uses)
      /\ WellFormed(lines, clock, midnight, uses) /\ Traced(lines, socket)
  BY DEF FlowsInv, Clocked, SamplesRight
<1>2. lines \in Seq(Lines) /\ (lines # <<>> => lines[1].kind = "process")
  BY <1>1 DEF WellFormed
<1>3. /\ lines' \in Seq(Lines) /\ Len(lines') = n + 1 /\ n \in Nat
      /\ lines'[n + 1] = line /\ lines'[1].kind = "process"
      /\ Socketed(lines') = Socketed(lines) \cup (IF line.kind = "socket" THEN {n + 1} ELSE {})
      /\ \A i \in 1 .. n : lines'[i] = lines[i] /\ ProcessAt(lines', i) = ProcessAt(lines, i)
      /\ line.kind = "socket" => ProcessAt(lines', n + 1) = ProcessAt(lines, n)
  <2>. HIDE DEF n
  <2>. QED BY <1>2, AppendLine DEF n
<1>4. \A i \in Socketed(lines) : i \in 1 .. n /\ lines'[i] = lines[i] /\ Key(lines', i) = Key(lines, i)
  BY <1>2, <1>3 DEF Socketed, Key
<1>. HIDE DEF n
<1>5. WellFormed(lines', clock, midnight, uses)
  <2>1. ASSUME NEW i \in Socketed(lines')
        PROVE  /\ lines'[i].at <= clock /\ lines'[i].time = ((lines'[i].at - midnight) % Day)
               /\ lines'[i].owner[1] = lines'[i].socket /\ lines'[i].owner[2] <= uses
    <3>1. CASE i \in Socketed(lines)
      BY <1>1, <1>4, <3>1 DEF WellFormed
    <3>2. CASE i = n + 1 /\ line.kind = "socket"
      BY <1>1, <1>3, <3>2
    <3>. QED BY <1>3, <3>1, <3>2
  <2>. QED BY <1>3, <2>1 DEF WellFormed
<1>6. ASSUME line.kind = "socket"
      PROVE  /\ Key(lines', n + 1) = <<socket[line.socket].tuple.process, socket[line.socket].tuple.interface>>
             /\ line.socket \in Sockets
             /\ \A d \in Directions : line.count[d] # None =>
                  line.count[d] \in Nat /\ line.count[d] = socket[line.socket].count[d]
  <2>1. ProcessAt(lines', n + 1) = Current
    BY <1>3, <1>6 DEF n, Current
  <2>2. line.socket \in Sockets /\ \A d \in Directions : line.count[d] \in Nat \cup {None}
    BY <1>6 DEF Lines, ProcessLines, OwnLines
  <2>. QED BY <1>3, <1>6, <2>1, <2>2 DEF Key
<1>7. Traced(lines', socket)
  <2>1. ASSUME NEW i \in Socketed(lines'), NEW s \in Sockets, StillOpen(lines', i, s, socket)
        PROVE  /\ Key(lines', i) = <<socket[s].tuple.process, socket[s].tuple.interface>>
               /\ \A d \in Directions : lines'[i].count[d] # None =>
                    lines'[i].count[d] <= socket[s].count[d]
    <3>1. CASE i \in Socketed(lines)
      <4>1. StillOpen(lines, i, s, socket)
        BY <1>4, <2>1, <3>1 DEF StillOpen
      <4>. QED BY <1>1, <1>4, <3>1, <4>1 DEF Traced
    <3>2. CASE i = n + 1 /\ line.kind = "socket"
      <4>1. lines'[i] = line
        BY <1>3, <3>2
      <4>2. s = line.socket
        BY <1>1, <2>1, <3>2, <4>1 DEF StillOpen, Owned
      <4>3. \A d \in Directions : line.count[d] # None => line.count[d] <= socket[s].count[d]
        BY <1>6, <3>2, <4>2
      <4>. QED BY <1>6, <3>2, <4>1, <4>2, <4>3
    <3>. QED BY <1>3, <3>1, <3>2
  <2>. QED BY <2>1 DEF Traced
<1>8. ASSUME Len(listings) = 1
      PROVE  Ordered(listings[1], lines') /\ SameSocket(listings[1], lines', socket)
  <2>. DEFINE before == listings[1]
  <2>1. /\ Ordered(before, lines) /\ SameSocket(before, lines, socket)
        /\ WellFormed(before, clock, midnight, uses) /\ Traced(before, socket)
    BY <1>8 DEF FlowsInv, SamplesRight
  <2>. HIDE DEF before
  <2>2. ASSUME NEW i \in Socketed(before), NEW j \in Socketed(lines')
        PROVE  /\ before[i].at <= lines'[j].at
               /\ before[i].owner = lines'[j].owner =>
                    /\ Key(before, i) = Key(lines', j)
                    /\ \A d \in Directions : before[i].count[d] # None /\ lines'[j].count[d] # None =>
                         before[i].count[d] <= lines'[j].count[d]
               /\ \A s \in Sockets : StillOpen(before, i, s, socket) /\ lines'[j].socket = s
                                       => lines'[j].owner = before[i].owner
    <3>1. CASE j \in Socketed(lines)
      BY <1>4, <2>1, <3>1, ZenonT(40) DEF Ordered, SameSocket
    <3>2. CASE j = n + 1 /\ line.kind = "socket"
      <4>1. lines'[j] = line /\ line.socket \in Sockets
        BY <1>3, <1>6, <3>2
      <4>2. before[i].at <= line.at
        BY <2>1, <3>2 DEF WellFormed
      <4>3. ASSUME before[i].owner = line.owner
            PROVE  /\ Key(before, i) = Key(lines', j)
                   /\ \A d \in Directions : before[i].count[d] # None /\ line.count[d] # None =>
                        before[i].count[d] <= line.count[d]
        <5>1. StillOpen(before, i, line.socket, socket)
          BY <3>2, <4>3 DEF StillOpen
        <5>. QED BY <1>6, <2>1, <3>2, <4>1, <5>1 DEF Traced
      <4>4. \A s \in Sockets : StillOpen(before, i, s, socket) /\ line.socket = s
                                 => line.owner = before[i].owner
        BY <3>2 DEF StillOpen
      <4>. QED BY <4>1, <4>2, <4>3, <4>4
    <3>. QED BY <1>3, <3>1, <3>2
  <2>3. Ordered(before, lines') /\ SameSocket(before, lines', socket)
    BY <2>2 DEF Ordered, SameSocket
  <2>. QED BY <2>3 DEF before
<1>. QED BY <1>5, <1>7, <1>8


(* nettop moves on from a process when all its sockets are listed. *)
LEMMA ListedCompletely ==
  ASSUME FlowsInv, Len(listings) = 1, Unlisted(Current) = {}, lines # <<>>
  PROVE  Complete(listings[1], lines, Listed, socket)
<1>1. SameSocket(listings[1], lines, socket) /\ Complete(listings[1], lines, Passed, socket)
  BY DEF FlowsInv, SamplesRight
<1>2. Passed = Listed \ {Current}
  BY DEF Passed
<1>3. ASSUME NEW i \in Socketed(listings[1]), NEW s \in Sockets,
             StillOpen(listings[1], i, s, socket), socket[s].tuple.process \in Listed
      PROVE  \E j \in Socketed(lines) : lines[j].owner = listings[1][i].owner
  <2>1. CASE socket[s].tuple.process = Current
    <3>1. s \in ListedSockets
      BY <1>3, <2>1 DEF Unlisted, StillOpen
    <3>2. PICK j \in Socketed(lines) : lines[j].socket = s
      BY <3>1 DEF ListedSockets
    <3>. QED BY <1>1, <1>3, <3>2 DEF SameSocket
  <2>2. CASE socket[s].tuple.process # Current
    BY <1>1, <1>2, <1>3, <2>2 DEF Complete
  <2>. QED BY <2>1, <2>2
<1>. QED BY <1>3 DEF Complete

LEMMA ListedNext ==
  ASSUME NEW sample \in Seq(Lines), sample # <<>> => sample[1].kind = "process",
         NEW line \in Lines, sample = <<>> => line.kind = "process",
         NEW longer, longer = Append(sample, line)
  PROVE  /\ line.kind = "socket" => ProcessesOf(longer) = ProcessesOf(sample)
         /\ line.kind # "socket" => ProcessesOf(longer) = ProcessesOf(sample) \cup {line.process}
<1>. DEFINE n == Len(sample)
<1>1. /\ longer[n + 1] = line /\ n \in Nat
      /\ Socketed(longer) = Socketed(sample) \cup (IF line.kind = "socket" THEN {n + 1} ELSE {})
      /\ \A i \in 1 .. n : longer[i] = sample[i]
      /\ DOMAIN longer = 1 .. n + 1 /\ DOMAIN sample = 1 .. n
  BY AppendLine
<1>2. Socketed(sample) \subseteq 1 .. n
  BY <1>1 DEF Socketed
<1>. HIDE DEF n
<1>3. CASE line.kind = "socket"
  <2>1. DOMAIN longer \ Socketed(longer) = DOMAIN sample \ Socketed(sample)
    BY <1>1, <1>2, <1>3
  <2>. QED BY <1>1, <1>3, <2>1 DEF ProcessesOf
<1>4. CASE line.kind # "socket"
  <2>1. DOMAIN longer \ Socketed(longer) = (DOMAIN sample \ Socketed(sample)) \cup {n + 1}
    BY <1>1, <1>2, <1>4
  <2>2. \A i \in DOMAIN sample \ Socketed(sample) : longer[i].process = sample[i].process
    BY <1>1
  <2>3. {longer[i].process : i \in DOMAIN longer \ Socketed(longer)}
          = {sample[i].process : i \in DOMAIN sample \ Socketed(sample)} \cup {line.process}
    BY <1>1, <2>1, <2>2
  <2>. QED BY <1>4, <2>3 DEF ProcessesOf
<1>. QED BY <1>3, <1>4

LEMMA ProcessStep ==
  ASSUME FlowsInv, NEW p \in Processes, NextProcess(p)
  PROVE  FlowsInv'
<1>. DEFINE line == [kind |-> "process", process |-> p, time |-> TimeOfDay]
<1>1. /\ FlowsRun /\ Len(listings) < 2 /\ lines' = Append(lines, line)
      /\ UNCHANGED <<socket, uses, clock, midnight, listings, flows>>
      /\ p \notin Listed /\ (lines # <<>> => Unlisted(Current) = {})
  BY DEF NextProcess, Write
<1>2. clock \in Nat /\ midnight \in Int /\ SamplesRight
  BY DEF FlowsInv, Clocked
<1>3. line \in Lines /\ line.kind = "process"
  <2>1. TimeOfDay \in Int
    BY <1>2, FlowsAssumption DEF TimeOfDay
  <2>. QED BY <2>1 DEF Lines, ProcessLines
<1>4. line.process = p
  OBVIOUS
<1>. HIDE DEF line
<1>5. lines \in Seq(Lines) /\ (lines # <<>> => lines[1].kind = "process")
  BY <1>2 DEF SamplesRight, WellFormed
<1>6. /\ WellFormed(lines', clock, midnight, uses) /\ Traced(lines', socket)
      /\ Len(listings) = 1 => Ordered(listings[1], lines') /\ SameSocket(listings[1], lines', socket)
  BY <1>1, <1>3, LinesWritten
<1>7. /\ Len(lines') = Len(lines) + 1 /\ Len(lines) \in Nat
      /\ Socketed(lines') = Socketed(lines) /\ \A i \in 1 .. Len(lines) : lines'[i] = lines[i]
      /\ ProcessAt(lines', Len(lines) + 1) = p
  <2>1. line.kind # "socket"
    BY <1>3
  <2>2. /\ Len(lines') = Len(lines) + 1 /\ Len(lines) \in Nat
        /\ Socketed(lines') = Socketed(lines) \cup (IF line.kind = "socket" THEN {Len(lines) + 1} ELSE {})
        /\ \A i \in 1 .. Len(lines) : lines'[i] = lines[i]
        /\ ProcessAt(lines', Len(lines) + 1) = line.process
    BY <1>1, <1>3, <1>5, AppendLine, ZenonT(40)
  <2>. QED BY <1>4, <2>1, <2>2
<1>8. Current' = p
  BY <1>7 DEF Current
<1>9. Listed' = Listed \cup {p}
  <2>1. line.kind # "socket"
    BY <1>3
  <2>2. ProcessesOf(lines') = ProcessesOf(lines) \cup {p}
    BY <1>1, <1>3, <1>4, <1>5, <2>1, ListedNext
  <2>. QED BY <2>2 DEF Listed
<1>10. Passed' = Listed
  <2>1. lines' # <<>>
    BY <1>7
  <2>. QED BY <1>1, <1>8, <1>9, <2>1 DEF Passed
<1>11. ASSUME Len(listings) = 1 PROVE Complete(listings[1], lines', Listed, socket)
  <2>1. CASE lines = <<>>
    <3>1. Listed = {}
      BY <2>1 DEF Listed, ProcessesOf
    <3>. QED BY <3>1 DEF Complete
  <2>2. CASE lines # <<>>
    <3>1. Complete(listings[1], lines, Listed, socket)
      BY <1>1, <1>11, <2>2, ListedCompletely
    <3>2. \A j \in Socketed(lines) : j \in Socketed(lines') /\ lines'[j] = lines[j]
      BY <1>5, <1>7 DEF Socketed
    <3>. QED BY <3>1, <3>2 DEF Complete
  <2>. QED BY <2>1, <2>2
<1>12. SamplesRight'
  <2>1. Len(listings') # 2
    BY <1>1, <1>2 DEF SamplesRight
  <2>. QED BY <1>1, <1>2, <1>6, <1>10, <1>11, <2>1 DEF SamplesRight
<1>13. ReportRight' /\ Clocked'
  BY <1>1 DEF ReportRight, FlowsRun, Reported, Clocked, FlowsInv
<1>. QED BY <1>1, <1>12, <1>13 DEF FlowsInv, Owned

LEMMA SocketStep ==
  ASSUME FlowsInv, NEW s \in Sockets, NextSocket(s)
  PROVE  FlowsInv'
<1>. DEFINE line == [kind |-> "socket", socket |-> s, interface |-> socket[s].tuple.interface,
                     state |-> socket[s].state, time |-> TimeOfDay, at |-> clock,
                     count |-> IF socket[s].counted THEN socket[s].count
                               ELSE [d \in Directions |-> None],
                     owner |-> socket[s].owner]
<1>1. /\ FlowsRun /\ Len(listings) < 2 /\ lines' = Append(lines, line)
      /\ UNCHANGED <<socket, uses, clock, midnight, listings, flows>>
      /\ lines # <<>> /\ socket[s] # None /\ socket[s].tuple.process = Current
  BY DEF NextSocket, Write, Unlisted
<1>2. clock \in Nat /\ midnight \in Int /\ SamplesRight /\ Owned(socket, uses)
  BY DEF FlowsInv, Clocked
<1>3. socket[s] \in Uses /\ socket[s].owner[1] = s /\ socket[s].owner[2] <= uses
  BY <1>1, <1>2 DEF Owned
<1>4. TimeOfDay \in Int /\ TimeOfDay = ((clock - midnight) % Day)
  BY <1>2, FlowsAssumption DEF TimeOfDay
<1>5. /\ line \in OwnLines /\ line.kind = "socket" /\ line.socket = s /\ line.at = clock
      /\ line.time = TimeOfDay /\ line.interface = socket[s].tuple.interface
      /\ line.owner = socket[s].owner
      /\ \A d \in Directions : line.count[d] # None => line.count[d] = socket[s].count[d]
  <2>1. /\ socket[s].tuple.interface \in Interfaces /\ socket[s].state \in States
        /\ socket[s].count \in [Directions -> Nat] /\ socket[s].owner \in Sockets \X Nat
    BY <1>3 DEF Uses, Tuples
  <2>2. line.count \in [Directions -> Nat \cup {None}]
    BY <2>1
  <2>3. \A d \in Directions : line.count[d] # None => line.count[d] = socket[s].count[d]
    OBVIOUS
  <2>4. line \in OwnLines
    BY <1>2, <1>4, <2>1, <2>2 DEF OwnLines
  <2>. QED BY <2>3, <2>4
<1>. HIDE DEF line
<1>6. lines \in Seq(Lines) /\ (lines # <<>> => lines[1].kind = "process")
  BY <1>2 DEF SamplesRight, WellFormed
<1>7. line \in Lines
  BY <1>5 DEF Lines
<1>8. /\ WellFormed(lines', clock, midnight, uses) /\ Traced(lines', socket)
      /\ Len(listings) = 1 => Ordered(listings[1], lines') /\ SameSocket(listings[1], lines', socket)
  BY <1>1, <1>3, <1>4, <1>5, <1>7, LinesWritten
<1>9. /\ Len(lines') = Len(lines) + 1 /\ Len(lines) \in Nat
      /\ \A i \in 1 .. Len(lines) : lines'[i] = lines[i]
      /\ Socketed(lines) \subseteq Socketed(lines')
      /\ ProcessAt(lines', Len(lines) + 1) = ProcessAt(lines, Len(lines))
  BY <1>1, <1>5, <1>6, <1>7, AppendLine
<1>10. Current' = Current
  BY <1>9 DEF Current
<1>11. Listed' = Listed
  <2>1. ProcessesOf(lines') = ProcessesOf(lines)
    BY <1>1, <1>5, <1>6, <1>7, ListedNext
  <2>. QED BY <2>1 DEF Listed
<1>12. Passed' = Passed
  <2>1. lines' # <<>>
    BY <1>9
  <2>. QED BY <1>1, <1>10, <1>11, <2>1 DEF Passed
<1>13. ASSUME Len(listings) = 1 PROVE Complete(listings[1], lines', Passed, socket)
  <2>1. Complete(listings[1], lines, Passed, socket)
    BY <1>2, <1>13 DEF SamplesRight
  <2>2. \A j \in Socketed(lines) : j \in Socketed(lines') /\ lines'[j] = lines[j]
    BY <1>6, <1>9 DEF Socketed
  <2>. QED BY <2>1, <2>2 DEF Complete
<1>14. SamplesRight'
  <2>1. Len(listings') # 2
    BY <1>1, <1>2 DEF SamplesRight
  <2>. QED BY <1>1, <1>2, <1>8, <1>12, <1>13, <2>1 DEF SamplesRight
<1>15. ReportRight' /\ Clocked'
  BY <1>1 DEF ReportRight, FlowsRun, Reported, Clocked, FlowsInv
<1>. QED BY <1>1, <1>14, <1>15 DEF FlowsInv, Owned


LEMMA SampleEnds ==
  ASSUME FlowsInv, EndSample
  PROVE  FlowsInv'
<1>1. /\ FlowsRun /\ Listed = Processes /\ Unlisted(Current) = {}
      /\ listings' = Append(listings, lines) /\ lines' = <<>>
      /\ UNCHANGED <<socket, uses, clock, midnight, flows>>
  BY DEF EndSample
<1>2. /\ SamplesRight /\ listings \in Seq(Seq(Lines)) /\ Len(listings) \in 0 .. 2
      /\ WellFormed(lines, clock, midnight, uses) /\ Traced(lines, socket) /\ lines \in Seq(Lines)
  BY DEF FlowsInv, SamplesRight, WellFormed
<1>3. lines # <<>>
  <2>1. lines = <<>> => Listed = {}
    BY DEF Listed, ProcessesOf
  <2>. QED BY <1>1, <2>1, FlowsAssumption
<1>4. Len(listings) # 2
  BY <1>2, <1>3 DEF SamplesRight
<1>5. /\ listings' \in Seq(Seq(Lines)) /\ Len(listings') = Len(listings) + 1
      /\ Len(listings') \in 1 .. 2 /\ listings'[Len(listings')] = lines
      /\ \A n \in 1 .. Len(listings) : listings'[n] = listings[n]
  <2>1. Len(listings) \in {0, 1}
    BY <1>2, <1>4
  <2>2. /\ listings' \in Seq(Seq(Lines)) /\ Len(listings') = Len(listings) + 1
        /\ listings'[Len(listings) + 1] = lines
        /\ \A n \in 1 .. Len(listings) : listings'[n] = listings[n]
    BY <1>1, <1>2
  <2>3. Len(listings') \in 1 .. 2 /\ Len(listings) + 1 = Len(listings')
    BY <2>1, <2>2
  <2>. QED BY <2>2, <2>3
<1>6. WellFormed(<<>>, clock, midnight, uses) /\ Traced(<<>>, socket) /\ Socketed(<<>>) = {}
  BY DEF WellFormed, Traced, Socketed
<1>7. \A n \in 1 .. Len(listings') :
        WellFormed(listings'[n], clock, midnight, uses) /\ Traced(listings'[n], socket)
  <2>1. ASSUME NEW n \in 1 .. Len(listings')
        PROVE  WellFormed(listings'[n], clock, midnight, uses) /\ Traced(listings'[n], socket)
    <3>1. CASE n = Len(listings')
      BY <1>2, <1>5, <3>1
    <3>2. CASE n # Len(listings')
      <4>1. n \in 1 .. Len(listings) /\ listings'[n] = listings[n]
        BY <1>2, <1>5, <3>2
      <4>. QED BY <1>2, <4>1 DEF SamplesRight
    <3>. QED BY <3>1, <3>2
  <2>. QED BY <2>1
<1>8. ASSUME Len(listings') = 1
      PROVE  /\ Ordered(listings'[1], lines') /\ SameSocket(listings'[1], lines', socket)
             /\ Complete(listings'[1], lines', Passed', socket)
  <2>1. Passed' = {}
    BY <1>1 DEF Passed
  <2>. QED BY <1>1, <1>6, <2>1 DEF Ordered, SameSocket, Complete
<1>9. ASSUME Len(listings') = 2
      PROVE  /\ Ordered(listings'[1], listings'[2])
             /\ Complete(listings'[1], listings'[2], Processes, socket)
  <2>0. Len(listings) = 1
    <3>1. Len(listings) \in 0 .. 2 /\ Len(listings') = Len(listings) + 1
      BY <1>2, <1>5
    <3>. QED BY <1>9, <3>1
  <2>1. Len(listings) = 1 /\ listings'[1] = listings[1] /\ listings'[2] = lines
    BY <1>5, <1>9, <2>0
  <2>2. Complete(listings[1], lines, Processes, socket)
    BY <1>1, <1>3, <2>1, ListedCompletely
  <2>3. Ordered(listings[1], lines)
    BY <1>2, <2>1 DEF SamplesRight
  <2>. QED BY <2>1, <2>2, <2>3
<1>10. SamplesRight'
  BY <1>1, <1>5, <1>6, <1>7, <1>8, <1>9 DEF SamplesRight
<1>11. ReportRight' /\ Clocked'
  BY <1>1 DEF ReportRight, FlowsRun, Reported, Clocked, FlowsInv
<1>. QED BY <1>1, <1>10, <1>11 DEF FlowsInv, Owned

LEMMA ReportStep ==
  ASSUME FlowsInv, ReportFlows \/ NettopFails
  PROVE  FlowsInv'
<1>1. UNCHANGED <<socket, uses, clock, midnight, lines, listings>>
  BY DEF ReportFlows, NettopFails
<1>2. Passed' = Passed
  BY <1>1 DEF Passed, Listed, Current, ProcessesOf, Socketed, ProcessAt
<1>3. SamplesRight' /\ Clocked'
  BY <1>1, <1>2 DEF SamplesRight, Clocked, FlowsInv
<1>4. ReportRight'
  <2>1. CASE flows' = Without("error")
    BY <2>1 DEF ReportRight, Reported, Without
  <2>2. CASE /\ Len(listings) = 2
             /\ \E kept \in Cuts(FlowRows(listings[1], listings[2])) :
                  flows' = [status |-> "reported", rows |-> kept,
                            truncated |-> Truncated(listings[1], listings[2])]
    <3>1. /\ flows'.rows \in Cuts(FlowRows(listings[1], listings[2]))
          /\ flows'.truncated = Truncated(listings[1], listings[2])
      BY <2>2
    <3>. QED BY <1>1, <2>2, <3>1 DEF ReportRight, Reported
  <2>. QED BY <2>1, <2>2 DEF ReportFlows, NettopFails
<1>. QED BY <1>1, <1>3, <1>4 DEF FlowsInv, Owned

LEMMA FlowsStart == FlowsInit => FlowsInv
<1>. SUFFICES ASSUME FlowsInit PROVE FlowsInv
  OBVIOUS
<1>1. /\ uses = 0 /\ clock = 0 /\ midnight \in Int /\ lines = <<>> /\ listings = <<>>
      /\ flows = Without("running")
  BY FlowsAssumption DEF FlowsInit
<1>2. Owned(socket, uses)
  <2>1. PICK tuple \in [Sockets -> Tuples], open \in SUBSET Sockets, state \in States :
          socket = [s \in Sockets |-> IF s \in open THEN New(s, tuple[s], state, uses) ELSE None]
    BY DEF FlowsInit
  <2>2. ASSUME NEW s \in Sockets PROVE New(s, tuple[s], state, uses) \in Uses
    BY <1>1 DEF New, Uses
  <2>3. ASSUME NEW s \in Sockets PROVE New(s, tuple[s], state, uses).owner = <<s, 0>>
    BY <1>1 DEF New
  <2>. QED BY <1>1, <2>1, <2>2, <2>3 DEF Owned
<1>3. WellFormed(lines, clock, midnight, uses) /\ Traced(lines, socket)
  BY <1>1 DEF WellFormed, Traced, Socketed
<1>4. SamplesRight
  BY <1>1, <1>3 DEF SamplesRight
<1>5. ReportRight /\ Clocked
  BY <1>1, FlowsAssumption DEF ReportRight, Reported, Clocked, Without
<1>. QED BY <1>2, <1>4, <1>5 DEF FlowsInv

(* Each line of a sample is traced to its socket for as long as that is open,
   and the second sample lists all that outlived the first (network_flows).  *)
THEOREM FlowsTraced == FlowSpec => []FlowsInv
<1>1. FlowsInv /\ [FlowsNext]_flowVars => FlowsInv'
  <2>. SUFFICES ASSUME FlowsInv, [FlowsNext]_flowVars
                PROVE  FlowsInv'
    OBVIOUS
  <2>1. CASE UNCHANGED flowVars
    <3>1. Passed' = Passed
      BY <2>1 DEF flowVars, Passed, Listed, Current, ProcessesOf, Socketed, ProcessAt
    <3>. QED BY <2>1, <3>1 DEF flowVars, FlowsInv, Clocked, Owned, SamplesRight, ReportRight, Reported
  <2>. QED BY <2>1, SocketsUsed, SecondStep, ProcessStep, SocketStep, SampleEnds, ReportStep
           DEF FlowsNext
<1>. QED BY <1>1, FlowsStart, PTL DEF FlowSpec


-------------------------------------------------------------------------------
(* What the report makes of two such samples. *)

LEMMA OneLine ==
  ASSUME NEW sample \in Seq(Lines), NEW key \in SocketKeys(sample) \ Ambiguous(sample)
  PROVE  \E i \in Socketed(sample) : /\ Key(sample, i) = key /\ RowOf(sample, key) = sample[i]
                                     /\ LinesOf(sample, key) = {i}
<1>1. PICK i \in Socketed(sample) : Key(sample, i) = key
  BY DEF SocketKeys
<1>2. \A j \in LinesOf(sample, key) : j = i
  BY <1>1 DEF Ambiguous, LinesOf
<1>3. LinesOf(sample, key) = {i}
  BY <1>1, <1>2 DEF LinesOf
<1>4. i \in Nat /\ i <= i
  BY DEF Socketed
<1>5. (CHOOSE n \in LinesOf(sample, key) : \A j \in LinesOf(sample, key) : j <= n) = i
  BY <1>3, <1>4
<1>. QED BY <1>1, <1>3, <1>5 DEF RowOf

(* A day has more seconds than a run of nettop, so that the time of the day
   gives the time between two lines, over midnight too.                      *)
LEMMA TimeBetween ==
  ASSUME Clocked, NEW before, NEW after, Ordered(before, after),
         WellFormed(before, clock, midnight, uses), WellFormed(after, clock, midnight, uses),
         NEW i \in Socketed(before), NEW j \in Socketed(after)
  PROVE  /\ Difference(before[i].time, after[j].time) = after[j].at - before[i].at
         /\ before[i].at \in Nat /\ after[j].at \in Nat /\ before[i].at <= after[j].at
<1>. DEFINE from == before[i].at  to == after[j].at
            u == (from - midnight) \div Day  v == (to - midnight) \div Day
<1>1. before[i] \in OwnLines /\ after[j] \in OwnLines
  BY DEF Socketed, WellFormed, Lines, ProcessLines, OwnLines
<1>2. /\ from \in Nat /\ to \in Nat /\ from <= to /\ to <= clock
      /\ before[i].time = ((from - midnight) % Day) /\ after[j].time = ((to - midnight) % Day)
  BY <1>1 DEF OwnLines, WellFormed, Ordered
<1>3. /\ clock \in Nat /\ clock <= Deadline /\ Deadline \in Nat /\ Deadline < Day
      /\ midnight \in Int /\ Day \in Nat \ {0}
  BY FlowsAssumption DEF Clocked
<1>. HIDE DEF from, to
<1>4. /\ from - midnight = Day * u + before[i].time /\ u \in Int /\ before[i].time \in Int
      /\ to - midnight = Day * v + after[j].time /\ v \in Int /\ after[j].time \in Int
  <2>1. from - midnight \in Int /\ to - midnight \in Int
    BY <1>2, <1>3
  <2>2. /\ from - midnight = Day * u + ((from - midnight) % Day)
        /\ u \in Int /\ (from - midnight) % Day \in 0 .. Day - 1
    BY <1>3, <2>1, Division
  <2>3. /\ to - midnight = Day * v + ((to - midnight) % Day)
        /\ v \in Int /\ (to - midnight) % Day \in 0 .. Day - 1
    BY <1>3, <2>1, Division
  <2>. QED BY <1>2, <1>3, <2>2, <2>3
<1>. HIDE DEF u, v
<1>5. Day * (u - v) = Day * u - Day * v
  BY <1>3, <1>4
<1>6. after[j].time - before[i].time - Day * (u - v) = to - from
  BY <1>2, <1>3, <1>4, <1>5
<1>7. to - from \in 0 .. Day - 1
  BY <1>2, <1>3
<1>8. after[j].time - before[i].time \in Int /\ u - v \in Int
  BY <1>4
<1>9. (after[j].time - before[i].time) % Day = to - from
  BY <1>3, <1>6, <1>7, <1>8, RemainderOf
<1>. QED BY <1>2, <1>9 DEF Difference, from, to

LEMMA ReportedSamples ==
  ASSUME FlowsInv, Reported
  PROVE  /\ Ordered(listings[1], listings[2]) /\ Complete(listings[1], listings[2], Processes, socket)
         /\ WellFormed(listings[1], clock, midnight, uses) /\ WellFormed(listings[2], clock, midnight, uses)
         /\ Traced(listings[1], socket) /\ Traced(listings[2], socket)
         /\ listings[1] \in Seq(Lines) /\ listings[2] \in Seq(Lines) /\ Clocked
<1>1. Len(listings) = 2 /\ SamplesRight /\ Clocked
  BY DEF FlowsInv, ReportRight
<1>2. /\ Ordered(listings[1], listings[2])
      /\ Complete(listings[1], listings[2], Processes, socket)
  BY <1>1 DEF SamplesRight
<1>3. /\ 1 \in 1 .. Len(listings) /\ 2 \in 1 .. Len(listings)
  BY <1>1
<1>4. /\ WellFormed(listings[1], clock, midnight, uses) /\ Traced(listings[1], socket)
      /\ WellFormed(listings[2], clock, midnight, uses) /\ Traced(listings[2], socket)
  BY <1>1, <1>3 DEF SamplesRight
<1>. QED BY <1>1, <1>2, <1>4 DEF WellFormed

(* A row is that of the one line with its key, and its rates start from the one
   line with that key in the first sample.                                   *)
LEMMA RowShown ==
  ASSUME FlowsInv, Reported, NEW row \in flows.rows
  PROVE  \E j \in Socketed(listings[2]) :
           /\ row.line = listings[2][j] /\ LinesOf(listings[2], Key(listings[2], j)) = {j}
           /\ row.rates = Rates(listings[1], Key(listings[2], j), row.line)
           /\ Key(listings[2], j) \in SocketKeys(listings[1]) =>
                \E i \in Socketed(listings[1]) :
                  /\ RowOf(listings[1], Key(listings[2], j)) = listings[1][i]
                  /\ LinesOf(listings[1], Key(listings[2], j)) = {i}
<1>1. flows.rows \subseteq FlowRows(listings[1], listings[2])
  BY DEF FlowsInv, ReportRight, Cuts
<1>2. PICK key \in SocketKeys(listings[2]) \ Doubtful(listings[1], listings[2]) :
        row = [key |-> key, line |-> RowOf(listings[2], key),
               rates |-> Rates(listings[1], key, RowOf(listings[2], key))]
  BY <1>1 DEF FlowRows
<1>3. listings[1] \in Seq(Lines) /\ listings[2] \in Seq(Lines)
  BY ReportedSamples
<1>4. key \in SocketKeys(listings[2]) \ Ambiguous(listings[2]) /\ key \notin Ambiguous(listings[1])
  BY DEF Doubtful
<1>5. PICK j \in Socketed(listings[2]) :
        /\ Key(listings[2], j) = key /\ RowOf(listings[2], key) = listings[2][j]
        /\ LinesOf(listings[2], key) = {j}
  BY <1>3, <1>4, OneLine
<1>6. ASSUME key \in SocketKeys(listings[1])
      PROVE  \E i \in Socketed(listings[1]) : /\ RowOf(listings[1], key) = listings[1][i]
                                              /\ LinesOf(listings[1], key) = {i}
  BY <1>3, <1>4, <1>6, OneLine
<1>7. row.line = listings[2][j] /\ row.rates = Rates(listings[1], key, row.line)
  BY <1>2, <1>5
<1>. QED BY <1>5, <1>6, <1>7


(* A rate is of two lines with one key; if they are of two sockets, the first has
   been closed: else the second sample would list it, under the same key.    *)
LEMMA RateShown ==
  ASSUME FlowsInv, Reported, NEW rate \in ShownRates
  PROVE  /\ rate.over = rate.to.at - rate.from.at
         /\ rate.from.owner # rate.to.owner => rate.from.owner \notin OpenOwners
<1>. DEFINE before == listings[1]  after == listings[2]
<1>0. /\ Ordered(before, after) /\ Complete(before, after, Processes, socket)
      /\ WellFormed(before, clock, midnight, uses) /\ WellFormed(after, clock, midnight, uses)
      /\ Traced(before, socket) /\ Traced(after, socket) /\ Clocked /\ Owned(socket, uses)
  BY ReportedSamples DEF FlowsInv
<1>1. PICK row \in flows.rows, d \in Directions : rate = row.rates[d] /\ rate # None
  BY DEF ShownRates
<1>2. PICK j \in Socketed(after) :
        /\ row.line = after[j] /\ LinesOf(after, Key(after, j)) = {j}
        /\ row.rates = Rates(before, Key(after, j), row.line)
        /\ Key(after, j) \in SocketKeys(before) =>
             \E i \in Socketed(before) : /\ RowOf(before, Key(after, j)) = before[i]
                                         /\ LinesOf(before, Key(after, j)) = {i}
  BY RowShown
<1>. HIDE DEF before, after
<1>3. /\ Key(after, j) \in SocketKeys(before)
      /\ rate = RateOf(RowOf(before, Key(after, j)), after[j], d)
  BY <1>1, <1>2 DEF Rates
<1>4. PICK i \in Socketed(before) : /\ RowOf(before, Key(after, j)) = before[i]
                                    /\ LinesOf(before, Key(after, j)) = {i}
  BY <1>2, <1>3
<1>5. /\ rate.from = before[i] /\ rate.to = after[j]
      /\ rate.over = Difference(before[i].time, after[j].time)
  BY <1>1, <1>3, <1>4 DEF RateOf
<1>6. rate.over = rate.to.at - rate.from.at
  BY <1>0, <1>5, TimeBetween
<1>7. ASSUME rate.from.owner \in OpenOwners PROVE rate.from.owner = rate.to.owner
  <2>1. PICK s \in Sockets : StillOpen(before, i, s, socket)
    BY <1>5, <1>7 DEF OpenOwners, StillOpen
  <2>2. socket[s].tuple.process \in Processes
    BY <1>0, <2>1 DEF StillOpen, Owned, Uses, Tuples
  <2>3. PICK m \in Socketed(after) : after[m].owner = before[i].owner
    BY <1>0, <2>1, <2>2 DEF Complete
  <2>4. StillOpen(after, m, s, socket)
    BY <2>1, <2>3 DEF StillOpen
  <2>5. Key(before, i) = Key(after, m)
    BY <1>0, <2>1, <2>4 DEF Traced
  <2>6. Key(before, i) = Key(after, j)
    BY <1>4 DEF LinesOf
  <2>7. m = j
    BY <1>2, <2>5, <2>6 DEF LinesOf
  <2>. QED BY <1>5, <2>3, <2>7
<1>. QED BY <1>6, <1>7

(* A socket that stayed as it was has one line in each sample, and both rates. *)
LEMMA RateKept ==
  ASSUME FlowsInv, Reported, NEW row \in flows.rows, NEW from \in SocketLines(listings[1]),
         Follows(from, row.line), NEW d \in Directions
  PROVE  row.rates[d] = [from |-> from, to |-> row.line,
                         amount |-> row.line.count[d] - from.count[d],
                         over |-> row.line.at - from.at]
<1>. DEFINE before == listings[1]  after == listings[2]
<1>0. /\ Ordered(before, after)
      /\ WellFormed(before, clock, midnight, uses) /\ WellFormed(after, clock, midnight, uses)
      /\ before \in Seq(Lines) /\ after \in Seq(Lines) /\ Clocked
  BY ReportedSamples
<1>1. PICK j \in Socketed(after) :
        /\ row.line = after[j] /\ LinesOf(after, Key(after, j)) = {j}
        /\ row.rates = Rates(before, Key(after, j), row.line)
        /\ Key(after, j) \in SocketKeys(before) =>
             \E i \in Socketed(before) : /\ RowOf(before, Key(after, j)) = before[i]
                                         /\ LinesOf(before, Key(after, j)) = {i}
  BY RowShown
<1>2. PICK i \in Socketed(before) : from = before[i]
  BY DEF SocketLines
<1>. HIDE DEF before, after
<1>3. /\ before[i].owner = after[j].owner /\ before[i].state = after[j].state
      /\ after[j].at - before[i].at \in 1 .. Longest
      /\ before[i].count[d] # None /\ after[j].count[d] # None
  BY <1>1, <1>2 DEF Follows
<1>4. Key(before, i) = Key(after, j) /\ before[i].count[d] <= after[j].count[d]
  BY <1>0, <1>3 DEF Ordered
<1>5. RowOf(before, Key(after, j)) = before[i] /\ Key(after, j) \in SocketKeys(before)
  <2>1. Key(after, j) \in SocketKeys(before) /\ i \in LinesOf(before, Key(after, j))
    BY <1>4 DEF SocketKeys, LinesOf
  <2>. QED BY <1>1, <2>1
<1>6. Difference(before[i].time, after[j].time) = after[j].at - before[i].at
  BY <1>0, TimeBetween
<1>7. before[i].count[d] \in Nat /\ after[j].count[d] \in Nat
  <2>1. before[i] \in OwnLines /\ after[j] \in OwnLines
    BY <1>0 DEF Socketed, Lines, ProcessLines, OwnLines
  <2>. QED BY <1>3, <2>1 DEF OwnLines
<1>8. Elapsed(before[i].time, after[j].time) /\ after[j].count[d] >= before[i].count[d]
  BY <1>3, <1>4, <1>6, <1>7 DEF Elapsed
<1>9. row.rates[d] = RateOf(before[i], after[j], d)
  BY <1>1, <1>3, <1>5 DEF Rates
<1>. QED BY <1>1, <1>2, <1>3, <1>6, <1>8, <1>9 DEF RateOf

(* If nothing is cut off and no key is doubtful, every line has its row. *)
LEMMA RowsWhole ==
  ASSUME FlowsInv, Reported, ~flows.truncated
  PROVE  SocketLines(listings[2]) \subseteq {row.line : row \in flows.rows}
<1>. DEFINE before == listings[1]  after == listings[2]  keys == SocketKeys(after)
            rows == FlowRows(before, after)
            RowOfKey(key) == [key |-> key, line |-> RowOf(after, key),
                              rates |-> Rates(before, key, RowOf(after, key))]
<1>1. /\ after \in Seq(Lines) /\ flows.rows \in Cuts(rows)
      /\ ~(Cardinality(keys) > MaxFlows) /\ Doubtful(before, after) = {}
  BY ReportedSamples DEF FlowsInv, ReportRight, Truncated
<1>2. IsFiniteSet(keys)
  <2>1. IsFiniteSet(Socketed(after))
    <3>1. Len(after) \in Nat /\ Socketed(after) \subseteq 1 .. Len(after)
      BY <1>1 DEF Socketed
    <3>2. IsFiniteSet(1 .. Len(after))
      BY <3>1, FS_Interval
    <3>. HIDE DEF after
    <3>. QED BY <3>1, <3>2, FS_Subset
  <2>. DEFINE key == [i \in Socketed(after) |-> Key(after, i)]
  <2>2. keys = {key[i] : i \in Socketed(after)} /\ DOMAIN key = Socketed(after)
    BY DEF SocketKeys
  <2>. HIDE DEF after, keys, key
  <2>. QED BY <2>1, <2>2, Image
<1>3. rows = {RowOfKey(key) : key \in keys}
  BY <1>1 DEF FlowRows
<1>4. IsFiniteSet(rows) /\ Cardinality(rows) <= Cardinality(keys)
  <2>. DEFINE row == [key \in keys |-> RowOfKey(key)]
  <2>1. rows = {row[key] : key \in keys} /\ DOMAIN row = keys
    BY <1>3
  <2>. HIDE DEF keys, rows, row
  <2>. QED BY <1>2, <2>1, Image
<1>5. flows.rows \in SUBSET rows
  BY <1>1 DEF Cuts
<1>6. Cardinality(flows.rows) = Cardinality(rows)
  <2>1. Cardinality(rows) \in Nat /\ Cardinality(keys) \in Nat /\ MaxFlows \in Nat
    BY <1>2, <1>4, FS_CardinalityType, FlowsAssumption
  <2>2. Cardinality(flows.rows)
          = IF Cardinality(rows) < MaxFlows THEN Cardinality(rows) ELSE MaxFlows
    BY <1>1 DEF Cuts
  <2>. HIDE DEF keys, rows
  <2>. QED BY <1>1, <1>4, <2>1, <2>2
<1>7. flows.rows = rows
  <2>. HIDE DEF rows
  <2>. QED BY <1>4, <1>5, <1>6, FS_Subset
<1>8. ASSUME NEW line \in SocketLines(after)
      PROVE  \E row \in rows : row.line = line
  <2>1. PICK i \in Socketed(after) : line = after[i]
    BY DEF SocketLines
  <2>2. Key(after, i) \in keys \ Ambiguous(after)
    BY <1>1 DEF SocketKeys, Doubtful
  <2>3. PICK j \in Socketed(after) : /\ RowOf(after, Key(after, i)) = after[j]
                                     /\ LinesOf(after, Key(after, i)) = {j}
    BY <1>1, <2>2, OneLine
  <2>4. i = j
    BY <2>3 DEF LinesOf
  <2>5. RowOfKey(Key(after, i)) \in rows /\ RowOfKey(Key(after, i)).line = line
    BY <1>3, <2>1, <2>2, <2>3, <2>4
  <2>. HIDE DEF rows, RowOfKey
  <2>. QED BY <2>5
<1>. HIDE DEF rows
<1>. QED BY <1>7, <1>8

(* A reported rate is of one socket and its own time, unless that socket has left
   its end points to another; what is not reported is told of
   (parse_sample, parse_flow_samples).                                       *)
THEOREM FlowsHonest == FlowSpec => []FlowsAreHonest
<1>1. FlowsInv => FlowsAreHonest
  <2>. SUFFICES ASSUME FlowsInv, Reported
                PROVE  FlowRatesAreTrue /\ NothingIsHidden
    BY DEF FlowsAreHonest, FlowRatesAreTrue, NothingIsHidden
  <2>1. FlowRatesAreTrue
    BY RateShown, RateKept DEF FlowRatesAreTrue
  <2>2. NothingIsHidden
    BY RowsWhole DEF NothingIsHidden
  <2>. QED BY <2>1, <2>2
<1>. QED BY <1>1, FlowsTraced, PTL

-------------------------------------------------------------------------------
(* The pages. *)

CursorInSections == cursor <= LastSection(sections)

(* The strengthening: the cursor is on a section, or at 0 without any. *)
PagesInv == PagesTypeOK /\ CursorInSections /\ ScrollIsOwn

(* The sections of a report are a list. *)
LEMMA SectionsAreList ==
  ASSUME NEW keys \in Reports
  PROVE  LET list == HardwareSections(keys) \o Transport
         IN  Len(list) \in Nat /\ DOMAIN list = 1 .. Len(list)
<1>. DEFINE own == HardwareSections(keys)
            n == Cardinality(keys)
            some == {own[i] : i \in 1 .. n}
<1>1. n \in Nat
  BY PagesAssumption, FS_Subset, FS_CardinalityType DEF Reports
<1>2. own \in [1 .. n -> some]
  BY DEF HardwareSections
<1>3. own \in Seq(some \cup Nat)
  <2>. HIDE DEF own, n
  <2>. QED BY <1>1, <1>2
<1>4. Transport \in Seq(some \cup Nat)
  <2>. HIDE DEF some
  <2>. QED BY PagesAssumption
<1>5. own \o Transport \in Seq(some \cup Nat)
  <2>. HIDE DEF some, own
  <2>. QED BY <1>3, <1>4
<1>. HIDE DEF some, own
<1>. QED BY <1>5 DEF own

LEMMA SwitchReadable ==
  ASSUME PagesInv, NEW p \in {AllPages[i] : i \in DOMAIN AllPages}, SwitchTo(p),
         UNCHANGED <<sections, typing, area>>, gpuData' \in {gpuData, "present", "absent"}
  PROVE  PagesInv'
<1>1. cursor' \in {cursor, 0} /\ scroll' \in {scroll, 0} /\ page' \in {page, p}
      /\ UNCHANGED <<scrolled, exchanged>> /\ (scroll' = 0 \/ cursor' = cursor)
  BY DEF SwitchTo, reading
<1>2. PagesTypeOK'
  BY <1>1, PagesAssumption DEF PagesInv, PagesTypeOK
<1>3. CursorInSections'
  BY <1>1 DEF PagesInv, PagesTypeOK, CursorInSections, LastSection, Minus
<1>4. ScrollIsOwn'
  BY <1>1 DEF PagesInv, ScrollIsOwn, SectionShown, Selected
<1>. QED BY <1>2, <1>3, <1>4 DEF PagesInv

PageNames == {AllPages[i] : i \in DOMAIN AllPages}

LEMMA NinePages ==
  /\ Len(AllPages) = 9 /\ DOMAIN AllPages = 1 .. 9
  /\ \A i \in 1 .. 9 : AllPages[i] = "Gpu" <=> i = 7
BY DEF AllPages

(* The arrows lead to a page: one of the next two places has one. *)
LEMMA CycledIsPage ==
  ASSUME NEW p \in PageNames, NEW step \in {-1, 1}
  PROVE  Cycled(p, step) \in PageNames
<1>. DEFINE first == PlaceOf(AllPages, p) - 1
            index(n) == ((first + n * step) % Len(AllPages)) + 1
            tries == {n \in DOMAIN AllPages : Available(AllPages[index(n)])}
            found == CHOOSE n \in tries : \A m \in tries : n <= m
<1>1. first \in 0 .. 8
  BY NinePages DEF PlaceOf, PageNames
<1>. HIDE DEF first
<1>2. \A n \in 1 .. 9 : index(n) \in 1 .. 9
  BY <1>1, NinePages
<1>3. index(1) # 7 \/ index(2) # 7
  BY <1>1, NinePages
<1>4. tries \in SUBSET Nat /\ tries # {}
  <2>1. 1 \in tries \/ 2 \in tries
    <3>. HIDE DEF index
    <3>. QED BY <1>2, <1>3, NinePages DEF Available
  <2>2. \A n \in tries : n \in 1 .. 9
    BY NinePages
  <2>. HIDE DEF tries
  <2>. QED BY <2>1, <2>2
<1>5. found \in tries
  <2>. HIDE DEF tries
  <2>. QED BY <1>4, LeastNat
<1>6. found \in 1 .. 9
  <2>. HIDE DEF found
  <2>. QED BY <1>5, NinePages
<1>7. Cycled(p, step) = AllPages[index(found)]
  BY DEF Cycled, first
<1>. HIDE DEF found, index
<1>. QED BY <1>2, <1>6, <1>7, NinePages DEF PageNames

(* Every action of the pages keeps the strengthening. *)
LEMMA PagesStep ==
  ASSUME PagesInv, [PagesNext]_pagesVars
  PROVE  PagesInv'
<1>. USE DEF PagesInv
<1>1. ASSUME NEW data \in {"present", "absent"}, TakeSnapshot(data)
      PROVE  PagesInv'
  <2>1. CASE page = "Gpu" /\ data = "absent"
    <3>1. "Overview" \in PageNames
      BY NinePages DEF PageNames, AllPages
    <3>. QED BY <1>1, <2>1, <3>1, SwitchReadable DEF TakeSnapshot, PageNames
  <2>2. CASE ~(page = "Gpu" /\ data = "absent")
    BY <1>1, <2>2 DEF TakeSnapshot, reading, PagesTypeOK, CursorInSections, LastSection,
                      ScrollIsOwn, SectionShown, Selected
  <2>. QED BY <2>1, <2>2
<1>2. ASSUME NEW keys \in Reports, TakeReport(keys)
      PROVE  PagesInv'
  <2>1. Len(sections') \in Nat /\ DOMAIN sections' = 1 .. Len(sections')
    BY <1>2, SectionsAreList DEF TakeReport
  <2>2. cursor' \in Nat /\ CursorInSections'
    BY <1>2, <2>1 DEF TakeReport, Clamped, Least, LastSection, Minus, CursorInSections, PagesTypeOK
  <2>3. ScrollIsOwn'
    BY <1>2 DEF TakeReport, ScrollIsOwn, SectionShown, PagesTypeOK
  <2>. QED BY <1>2, <2>1, <2>2, <2>3 DEF TakeReport, PagesTypeOK
<1>3. CASE MoveSection
  <2>1. cursor' \in Nat /\ cursor' <= LastSection(sections)
    BY <1>3 DEF MoveSection, Least, LastSection, Minus, CursorInSections, PagesTypeOK
  <2>. QED BY <1>3, <2>1, PagesAssumption
           DEF MoveSection, PagesTypeOK, CursorInSections, LastSection, ScrollIsOwn
<1>4. CASE ScrollSection
  <2>1. scroll' \in 0 .. Deepest
    BY <1>4, PagesAssumption DEF ScrollSection, Least, Minus, PagesTypeOK
  <2>2. exchanged' \in BOOLEAN /\ ScrollIsOwn'
    BY <1>4 DEF ScrollSection, ScrollIsOwn, SectionShown, Selected, PagesTypeOK
  <2>. QED BY <1>4, <2>1, <2>2 DEF ScrollSection, PagesTypeOK, CursorInSections, LastSection
<1>5. CASE ChoosePage
  <2>1. PICK p \in PageNames : SwitchTo(p)
    <3>1. page \in PageNames
      BY DEF PagesTypeOK, PageNames
    <3>. QED BY <1>5, <3>1, CycledIsPage DEF ChoosePage, PageNames
  <2>. QED BY <1>5, <2>1, SwitchReadable DEF ChoosePage, PageNames
<1>6. CASE Prompt
  BY <1>6 DEF Prompt, reading, PagesTypeOK, CursorInSections, LastSection, ScrollIsOwn,
              SectionShown, Selected
<1>7. CASE Resize
  BY <1>7 DEF Resize, reading, PagesTypeOK, CursorInSections, LastSection, ScrollIsOwn,
              SectionShown, Selected
<1>8. CASE UNCHANGED pagesVars
  BY <1>8 DEF pagesVars, PagesTypeOK, CursorInSections, LastSection, ScrollIsOwn,
              SectionShown, Selected
<1>. QED BY <1>1, <1>2, <1>3, <1>4, <1>5, <1>6, <1>7, <1>8 DEF PagesNext

LEMMA PagesBegin ==
  ASSUME PagesInit
  PROVE  PagesInv
<1>1. Len(<<>>) = 0 /\ DOMAIN <<>> = 1 .. 0
  OBVIOUS
<1>2. PagesTypeOK
  <2>1. Len(sections) \in Nat /\ DOMAIN sections = 1 .. Len(sections)
    BY <1>1 DEF PagesInit
  <2>2. cursor \in Nat /\ scroll \in 0 .. Deepest
    BY PagesAssumption DEF PagesInit
  <2>. QED BY <2>1, <2>2 DEF PagesInit, PagesTypeOK
<1>3. CursorInSections
  BY <1>1 DEF PagesInit, CursorInSections, LastSection, Minus
<1>. QED BY <1>2, <1>3 DEF PagesInit, PagesInv, ScrollIsOwn

(* The list is paged so that the cursor is on its last line, or on its own in
   the first ones, and no line is left empty.                                  *)
LEMMA CursorListed ==
  ASSUME PagesTypeOK, CursorInSections, sections # <<>>, LinesInside > 0
  PROVE  cursor \in SectionsListed /\ Cardinality(SectionsListed) = Least(LinesInside, Len(sections))
<1>. DEFINE n == Len(sections)
            offset == Minus(cursor, Inside - 1)
            last == Least(offset + Inside, n) - 1
<1>1. n \in Nat /\ cursor \in Nat /\ cursor <= Minus(n, 1) /\ area.height \in Nat
  BY PagesAssumption DEF PagesTypeOK, CursorInSections, LastSection
<1>2. n # 0
  BY DEF PagesTypeOK
<1>3. Inside \in Nat /\ Inside > 0 /\ LinesInside = Inside
  <2>1. ListHeight \in Nat
    BY <1>1 DEF ListHeight, Least, Minus
  <2>. QED BY <2>1 DEF LinesInside, Inside, Minus
<1>4. SectionsListed = offset .. last
  BY DEF SectionsListed
<1>. HIDE DEF n
<1>5. /\ offset \in Int /\ last \in Int /\ cursor \in offset .. last
      /\ ~ offset > last /\ last - offset + 1 = Least(Inside, n)
  BY <1>1, <1>2, <1>3 DEF Minus, Least
<1>. HIDE DEF offset, last
<1>6. Cardinality(offset .. last) = last - offset + 1
  BY <1>5, FS_Interval
<1>. QED BY <1>3, <1>4, <1>5, <1>6 DEF n

(* Whatever snapshots and reports arrive, keys are pressed and sizes the terminal
   has: the section under the cursor is listed and is the one shown, its text is
   where the reader left it, and a command that stands next to the energy columns
   has its sixteen columns (render_section_list, render_section_detail,
   move_section, scroll_detail, process_energy_min_width).                     *)
THEOREM SectionsAreReadable == PagesSpec => []SectionsReadable
<1>1. PagesInv => SectionsReadable
  <2>. SUFFICES ASSUME PagesInv
                PROVE  SectionsReadable
    OBVIOUS
  <2>1. SectionOnScreen
    <3>. SUFFICES ASSUME sections # <<>>
                  PROVE  /\ cursor + 1 \in DOMAIN sections
                         /\ SectionShown = sections[cursor + 1]
                         /\ LinesInside > 0 => /\ cursor \in SectionsListed
                                         /\ Cardinality(SectionsListed) = Least(LinesInside, Len(sections))
      BY DEF SectionOnScreen
    <3>1. cursor + 1 \in DOMAIN sections
      <4>1. Len(sections) # 0
        BY DEF PagesInv, PagesTypeOK
      <4>. QED BY <4>1 DEF PagesInv, PagesTypeOK, CursorInSections, LastSection, Minus
    <3>. QED BY <3>1, CursorListed DEF PagesInv, SectionShown, Selected
  <2>2. CommandReadable
    <3>1. area.width \in Nat
      BY PagesAssumption DEF PagesInv, PagesTypeOK
    <3>2. TableWidth \in Nat
      BY <3>1 DEF TableWidth, Minus, SidePanel
    <3>. QED BY <3>2 DEF CommandReadable, ShowEnergy, CommandWidth, EnergyMinWidth,
                         EnergyColumns, FixedColumns, MinCommand
  <2>. QED BY <2>1, <2>2 DEF SectionsReadable, PagesInv
<1>. QED BY <1>1, PagesBegin, PagesStep, PTL DEF PagesSpec

-------------------------------------------------------------------------------
(* The mode bar. *)

(* A page with a place of its own in the bar: with GPU data each has one, and
   without all but the seventh.                                                *)
HasTab(i) == i \in 1 .. 9 /\ (gpuData = "present" \/ i # 7)

TabAfter(i) == IF i = 9 THEN 1 ELSE IF i = 6 /\ gpuData # "present" THEN 8 ELSE i + 1
TabBefore(i) == IF i = 1 THEN 9 ELSE IF i = 8 /\ gpuData # "present" THEN 6 ELSE i - 1
TabPlace(i) == IF gpuData = "present" \/ i < 7 THEN i ELSE i - 1

LEMMA TabsAvailable ==
  /\ \A i \in 1 .. 9 : Available(AllPages[i]) <=> HasTab(i)
  /\ \A i, j \in 1 .. 9 : AllPages[i] = AllPages[j] => i = j
<1>1. \A i \in 1 .. 9 : Available(AllPages[i]) <=> HasTab(i)
  BY NinePages DEF Available, HasTab
<1>2. \A i, j \in 1 .. 9 : AllPages[i] = AllPages[j] => i = j
  BY DEF AllPages
<1>. QED BY <1>1, <1>2

(* From a page with a tab the arrows go one place on, or two over the GPU page. *)
LEMMA CycledIs ==
  ASSUME NEW i \in 1 .. 9, HasTab(i)
  PROVE  Cycled(AllPages[i], 1) = AllPages[TabAfter(i)] /\ Cycled(AllPages[i], -1) = AllPages[TabBefore(i)]
<1>1. PlaceOf(AllPages, AllPages[i]) = i
  BY NinePages, TabsAvailable DEF PlaceOf
<1>2. ASSUME NEW step \in {-1, 1}
      PROVE  Cycled(AllPages[i], step) = AllPages[IF step = 1 THEN TabAfter(i) ELSE TabBefore(i)]
  <2>. DEFINE index(n) == (((i - 1) + n * step) % Len(AllPages)) + 1
              tries == {n \in DOMAIN AllPages : Available(AllPages[index(n)])}
              found == CHOOSE n \in tries : \A m \in tries : n <= m
              goal == IF step = 1 THEN TabAfter(i) ELSE TabBefore(i)
  <2>1. Cycled(AllPages[i], step) = AllPages[index(found)]
    BY <1>1 DEF Cycled
  <2>2. \A n \in 1 .. 9 : index(n) \in 1 .. 9
    BY NinePages
  <2>3. \A n \in 1 .. 9 : n \in tries <=> HasTab(index(n))
    <3>. HIDE DEF index
    <3>. QED BY <2>2, NinePages, TabsAvailable
  <2>4. tries \subseteq 1 .. 9
    BY NinePages
  <2>5. \/ HasTab(index(1)) /\ index(1) = goal
        \/ ~HasTab(index(1)) /\ HasTab(index(2)) /\ index(2) = goal
    <3>1. CASE step = 1
      BY <3>1, NinePages DEF HasTab, TabAfter
    <3>2. CASE step = -1
      BY <3>2, NinePages DEF HasTab, TabBefore
    <3>. QED BY <3>1, <3>2
  <2>. HIDE DEF tries, index, goal
  <2>6. found = IF HasTab(index(1)) THEN 1 ELSE 2
    <3>1. 1 \in 1 .. 9 /\ 2 \in 1 .. 9 /\ \A n \in 1 .. 9 : n \in Nat /\ (1 <= n) /\ (n # 1 => 2 <= n)
      OBVIOUS
    <3>2. CASE HasTab(index(1))
      <4>1. 1 \in tries /\ \A n \in tries : 1 <= n
        BY <2>3, <2>4, <3>1, <3>2
      <4>2. \A n \in tries : (\A m \in tries : n <= m) => n = 1
        <5>1. \A n \in tries : n <= 1 => n = 1
          BY <2>4
        <5>. QED BY <4>1, <5>1
      <4>3. found = 1
        BY <4>1, <4>2
      <4>. QED BY <3>2, <4>3
    <3>3. CASE ~HasTab(index(1))
      <4>1. 2 \in tries /\ \A n \in tries : 2 <= n
        BY <2>3, <2>4, <2>5, <3>1, <3>3
      <4>2. \A n \in tries : (\A m \in tries : n <= m) => n = 2
        <5>1. \A n \in tries : n <= 2 /\ 2 <= n => n = 2
          BY <2>4
        <5>. QED BY <4>1, <5>1
      <4>3. found = 2
        BY <4>1, <4>2
      <4>. QED BY <3>3, <4>3
    <3>. QED BY <3>2, <3>3
  <2>7. index(found) = goal
    BY <2>5, <2>6
  <2>. QED BY <2>1, <2>7 DEF goal
<1>3. Cycled(AllPages[i], 1) = AllPages[TabAfter(i)]
  BY <1>2
<1>4. Cycled(AllPages[i], -1) = AllPages[TabBefore(i)]
  BY <1>2
<1>. QED BY <1>3, <1>4

(* The bar shows the pages that have a tab, each at its place. *)
LEMMA TabsAre ==
  /\ Len(Tabs) = (IF gpuData = "present" THEN 9 ELSE 8) /\ DOMAIN Tabs = 1 .. Len(Tabs)
  /\ \A i \in 1 .. 9 : HasTab(i) => TabPlace(i) \in DOMAIN Tabs /\ Tabs[TabPlace(i)] = AllPages[i]
<1>. DEFINE shown == {i \in DOMAIN AllPages : Available(AllPages[i])}
            size == IF gpuData = "present" THEN 9 ELSE 8
<1>1. shown = IF gpuData = "present" THEN 1 .. 9 ELSE (1 .. 9) \ {7}
  <2>1. \A i : i \in shown <=> i \in 1 .. 9 /\ HasTab(i)
    BY NinePages, TabsAvailable
  <2>. HIDE DEF shown
  <2>. QED BY <2>1 DEF HasTab
<1>2. ASSUME NEW n \in 1 .. 9
      PROVE  /\ IsFiniteSet(1 .. n) /\ Cardinality(1 .. n) = n
             /\ IsFiniteSet((1 .. n) \ {7})
             /\ Cardinality((1 .. n) \ {7}) = IF 7 <= n THEN n - 1 ELSE n
  <2>1. IsFiniteSet(1 .. n) /\ Cardinality(1 .. n) = n
    BY FirstNumbers
  <2>2. 7 \in 1 .. n <=> 7 <= n
    OBVIOUS
  <2>. QED BY <2>1, <2>2, FS_RemoveElement
<1>. HIDE DEF shown
<1>3. shown \in SUBSET Nat /\ IsFiniteSet(shown) /\ Cardinality(shown) = size
  BY <1>1, <1>2
<1>4. ASSUME NEW i \in 1 .. 9, HasTab(i)
      PROVE  i \in shown /\ CountTo(shown, i) = TabPlace(i)
  <2>1. i \in shown
    BY <1>1, <1>4 DEF HasTab
  <2>2. {j \in shown : j <= i} = IF gpuData = "present" THEN 1 .. i ELSE (1 .. i) \ {7}
    BY <1>1
  <2>3. CountTo(shown, i) = TabPlace(i)
    <3>1. CASE gpuData = "present"
      BY <1>2, <2>2, <3>1 DEF CountTo, TabPlace
    <3>2. CASE gpuData # "present"
      <4>1. i # 7
        BY <1>4, <3>2 DEF HasTab
      <4>2. CountTo(shown, i) = IF 7 <= i THEN i - 1 ELSE i
        BY <1>2, <2>2, <3>2 DEF CountTo
      <4>. QED BY <3>2, <4>1, <4>2 DEF TabPlace
    <3>. QED BY <3>1, <3>2
  <2>. QED BY <2>1, <2>3
<1>5. Tabs = [n \in 1 .. size |-> AllPages[InOrder(shown)[n]]]
  <2>1. DOMAIN InOrder(shown) = 1 .. size
    BY <1>3, InOrderIs
  <2>. QED BY <2>1 DEF Tabs, Picked, shown
<1>6. Len(Tabs) = size /\ DOMAIN Tabs = 1 .. size
  BY <1>5
<1>7. ASSUME NEW i \in 1 .. 9, HasTab(i)
      PROVE  TabPlace(i) \in 1 .. size /\ Tabs[TabPlace(i)] = AllPages[i]
  <2>1. TabPlace(i) \in 1 .. size /\ InOrder(shown)[TabPlace(i)] = i
    BY <1>3, <1>4, <1>7, InOrderIs
  <2>. QED BY <1>5, <2>1
<1>. QED BY <1>6, <1>7

PageShown == gpuData # "unknown" => Available(page)

(* A snapshot without GPU data leaves the GPU page, and no key returns to it. *)
LEMMA ShownStep ==
  ASSUME PagesInv, PageShown, [PagesNext]_pagesVars
  PROVE  PageShown'
<1>1. ASSUME NEW data \in {"present", "absent"}, TakeSnapshot(data)
      PROVE  PageShown'
  BY <1>1 DEF TakeSnapshot, SwitchTo, reading, PageShown, Available
<1>2. CASE ChoosePage
  <2>1. gpuData' = gpuData
    BY <1>2 DEF ChoosePage
  <2>2. CASE \E i \in DOMAIN AllPages : Available(AllPages[i]) /\ SwitchTo(AllPages[i])
    BY <2>1, <2>2 DEF SwitchTo, PageShown, Available
  <2>3. ASSUME NEW step \in {-1, 1}, SwitchTo(Cycled(page, step)), gpuData # "unknown"
        PROVE  Available(page')
    <3>1. PICK i \in 1 .. 9 : page = AllPages[i]
      BY NinePages DEF PagesInv, PagesTypeOK
    <3>2. HasTab(i)
      BY <2>3, <3>1, TabsAvailable DEF PageShown
    <3>3. TabAfter(i) \in 1 .. 9 /\ HasTab(TabAfter(i)) /\ TabBefore(i) \in 1 .. 9 /\ HasTab(TabBefore(i))
      BY <3>2 DEF TabAfter, TabBefore, HasTab
    <3>4. Available(Cycled(page, step))
      BY <3>1, <3>2, <3>3, CycledIs, TabsAvailable
    <3>5. page' = Cycled(page, step)
      BY <2>3 DEF SwitchTo
    <3>. QED BY <3>4, <3>5
  <2>4. gpuData # "unknown" => Available(page')
    BY <1>2, <2>1, <2>2, <2>3 DEF ChoosePage, PageShown, Available
  <2>. QED BY <2>1, <2>4 DEF PageShown, Available
<1>3. CASE page' = page /\ gpuData' = gpuData
  BY <1>3 DEF PageShown, Available
<1>. QED BY <1>1, <1>2, <1>3 DEF PagesNext, pagesVars, TakeReport, MoveSection, ScrollSection, Prompt, Resize

(* The page has a tab and the arrows go to its neighbours. *)
LEMMA TabOfPage ==
  ASSUME PagesInv, PageShown
  PROVE  PageHasTab
<1>. SUFFICES ASSUME gpuData # "unknown"
              PROVE  /\ Available(page) /\ "waiting" \notin Panels
                     /\ \E i \in DOMAIN Tabs :
                          /\ Tabs[i] = page
                          /\ Cycled(page, 1) = Tabs[(i % Len(Tabs)) + 1]
                          /\ Cycled(Cycled(page, 1), -1) = page
  BY DEF PageHasTab
<1>1. PICK i \in 1 .. 9 : page = AllPages[i]
  BY NinePages DEF PagesInv, PagesTypeOK
<1>2. Available(page) /\ HasTab(i)
  BY <1>1, TabsAvailable DEF PageShown
<1>3. "waiting" \notin Panels
  <2>1. \A n \in 1 .. 9 : AllPages[n] # "waiting"
    BY DEF AllPages
  <2>2. page # "waiting"
    BY <1>1, <2>1
  <2>. QED BY <2>2 DEF Panels
<1>4. /\ TabAfter(i) \in 1 .. 9 /\ HasTab(TabAfter(i)) /\ TabBefore(TabAfter(i)) = i
      /\ TabPlace(TabAfter(i)) = (TabPlace(i) % (IF gpuData = "present" THEN 9 ELSE 8)) + 1
  BY <1>2 DEF TabAfter, TabBefore, HasTab, TabPlace
<1>5. Cycled(page, 1) = AllPages[TabAfter(i)] /\ Cycled(Cycled(page, 1), -1) = page
  BY <1>1, <1>2, <1>4, CycledIs
<1>6. /\ TabPlace(i) \in DOMAIN Tabs /\ Tabs[TabPlace(i)] = page
      /\ Tabs[(TabPlace(i) % Len(Tabs)) + 1] = AllPages[TabAfter(i)]
  BY <1>1, <1>2, <1>4, TabsAre
<1>. QED BY <1>2, <1>3, <1>5, <1>6

(* All of what PageIsReadable says, for any sections and sizes: beside the three
   parts above, that after the first snapshot the page on display has a tab, that
   the right arrow leads to the next tab and the left one back (render_modes,
   cycle_mode, set_snapshot).                                                   *)
THEOREM PagesCorrect == PagesSpec => []PageIsReadable
<1>1. PagesInit => PageShown
  BY DEF PagesInit, PageShown
<1>2. PagesInv /\ PageShown => PageHasTab
  BY TabOfPage
<1>3. PagesSpec => [](PagesInv /\ PageShown)
  BY <1>1, PagesBegin, PagesStep, ShownStep, PTL DEF PagesSpec
<1>4. PageHasTab /\ SectionsReadable => PageIsReadable
  BY DEF PageIsReadable
<1>. QED BY <1>2, <1>3, <1>4, SectionsAreReadable, PTL
=============================================================================
