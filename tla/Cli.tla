---------------------------------- MODULE Cli ----------------------------------
(* The command line (main.rs, config.rs, output.rs): a sequential program that
   merges its settings, refuses what makes no sense, and then takes and prints
   `samples` reports, or runs the interactive session.

   A command's options are drawn when the code first looks at them.  A report
   is a function from the classes of its fields to what the privacy policy
   left of them (module Privacy); texts and numbers are left out.            *)
EXTENDS Integers, Sequences, FiniteSets, Enumeration, Privacy, Absent

CONSTANTS
  Intervals,       \* the texts of intervals, as [n, unit]
  Policies,        \* the privacy modes a source may ask for
  Prompts,         \* how many ms sudo may wait for a password
  Word,            \* u64::MAX
  MaxRounds,       \* bound: rounds of a watch after this one look alike
  PathLength,      \* bound: the paths of a system_profiler document
  Samples          \* bound: what a sample lists: sequences of rows [user, key]

MinMillis == 250         \* RefreshInterval::MIN_MILLIS
MaxMillis == 60000       \* RefreshInterval::MAX_MILLIS

CliAssumption ==
  /\ Intervals \subseteq [n : Nat, unit : {"ms", "s", "none"}]
  /\ Policies \subseteq Modes /\ Prompts \subseteq Nat
  /\ MaxRounds \in Nat \ {0, 1} /\ PathLength \in Nat /\ Word \in Nat /\ Word > MaxMillis
  /\ None \notin Nat
  /\ \A rows \in Samples : /\ DOMAIN rows = 1 .. Len(rows) /\ Len(rows) \in Nat
                           /\ \A i \in DOMAIN rows : rows[i].key \in Int
ASSUME CliAssumption

Commands == {"top", "processes", "cpu", "memory", "network", "network_flows",
             "network_connections", "disk", "gpu", "sensors", "hardware", "doctor"}
Formats  == {"table", "json", "jsonl", "csv"}
Endless  == MaxRounds + 1     \* the u32::MAX samples of --watch

(* The flags of a command that do not say what to report. *)
Options == [format : Formats, watch : BOOLEAN, count : {None, 0, 1, 2},
            enhanced : BOOLEAN, quick : BOOLEAN, diagnostics : BOOLEAN]

VARIABLES
  phase,           \* "start", "merged", "check", "warm", "rounds", "session", "done"
  given,           \* the settings as given, until they are merged
  prefs,           \* Config after the merge: [interval, privacy]
  cmd, options,    \* the command and its flags
  samples, round,  \* reports to print, and printed
  since,           \* the ms waited since the collector's last reading, None before it
  measured,        \* whether anything was collected, or the user made to wait
  out,             \* the last report printed: None before the first
  header,          \* how many header lines were printed
  exit             \* the exit code, None before the end

vars == <<phase, given, prefs, cmd, options, samples, round, since, measured, out,
          header, exit>>

-------------------------------------------------------------------------------
(* Settings *)

Mult(unit) == IF unit = "s" THEN 1000 ELSE 1
Saturate(n) == IF n > Word THEN Word ELSE n

(* RefreshInterval::from_millis *)
FromMillis(ms) == IF ms \in MinMillis .. MaxMillis THEN ms ELSE None

ParseInterval(text) ==
  IF text.unit = "none" THEN None ELSE FromMillis(Saturate(text.n * Mult(text.unit)))

DefaultConfig == [interval |-> [n |-> 1, unit |-> "s"], privacy |-> "default"]

(* What a source may set: nothing, or a value. *)
Sources  == [interval : {None} \cup Intervals, privacy : {None} \cup Policies]
Settings == [cli : Sources, env : Sources, file : Sources \cup {None}, valid : BOOLEAN,
             path : {"default", "variable", "flag"}, noConfig : BOOLEAN,
             showSensitive : BOOLEAN, badMode : BOOLEAN]

Over(source, config) ==
  [k \in DOMAIN config |-> IF source[k] = None THEN config[k] ELSE source[k]]

(* config::load: no file is an error only if its path was given, and a file   *)
(* is validated before anything overrides it.                                 *)
LoadFails(g) ==
  /\ ~g.noConfig
  /\ IF g.file = None THEN g.path # "default"
     ELSE ~g.valid \/ ParseInterval(Over(g.file, DefaultConfig).interval) = None

Load(g) ==
  IF g.noConfig \/ g.file = None THEN DefaultConfig ELSE Over(g.file, DefaultConfig)

(* clap takes a flag from the command line first, then from its variable.     *)
ClapConflicts(g) ==
  \/ g.showSensitive /\ (g.cli.privacy # None \/ g.env.privacy # None)
  \/ g.noConfig /\ g.path = "flag"

Merge(g) ==
  LET asked  == Over(g.cli, Over(g.env, Load(g)))
  IN  IF g.showSensitive THEN [asked EXCEPT !.privacy = "off"] ELSE asked

-------------------------------------------------------------------------------
(* What is refused *)

SampleCount(o) == IF o.count # None THEN o.count ELSE IF o.watch THEN Endless ELSE 1

Misuse(c, o) ==
  LET n == SampleCount(o)
      top == c = "top"
  IN  \/ o.enhanced /\ c \notin {"gpu", "sensors"}
      \/ o.enhanced /\ o.format = "csv"
      \/ n = 0
      \/ o.quick /\ (c \notin {"cpu", "gpu", "sensors"} \/ n # 1 \/ o.watch)
      \/ top /\ (o.format # "table" \/ o.watch \/ o.count # None)
      \/ ~top /\ o.diagnostics
      \/ c = "doctor" /\ (o.watch \/ o.count # None)
      \/ o.format = "json" /\ n > 1
      \/ o.format = "csv" /\ c \in {"hardware", "sensors", "doctor"}

(* The rates of nettop need whole seconds. *)
FlowInterval(ms) == ms \div 1000 \in 1 .. 60 /\ ms % 1000 = 0

\* Seeded fault: the window is not capped.
WholeInterval(o, ms) == IF o.quick THEN MinMillis ELSE ms

LongestWindow == 500

SocWindow(o, ms) ==
  IF o.quick THEN MinMillis ELSE IF ms > LongestWindow THEN LongestWindow ELSE ms

-------------------------------------------------------------------------------
(* What is printed *)

(* Fields of the reports as collected.  The arguments and threads are those   *)
(* of the selected process; the collector reads arguments only if nothing is  *)
(* to be hidden.                                                              *)
Raw(fields) == [f \in fields |-> "raw"]

ProcessRows(mode) ==
  [Raw({"pid", "numbers", "name", "user", "path", "threadNames", "arguments"})
     EXCEPT !["arguments"] = IF mode = "off" THEN "raw" ELSE "none"]

(* Per command: collect, then apply the policy. *)
Fields(c, mode) ==
  CASE c = "processes"           -> RedactSnapshot(mode, ProcessRows(mode))
    [] c = "disk"                -> RedactDisks(mode, Raw({"numbers", "device", "mount"}))
    [] c = "network_flows"       -> RedactNetworkFlows(mode,
                                      Raw({"pid", "numbers", "interface", "state",
                                           "command", "local", "remote"}))
    [] c = "network_connections" -> RedactConnections(mode,
                                      Raw({"pid", "protocol", "state", "command", "endpoint"}))
    [] OTHER                     -> Raw({"numbers"})

(* hardware and sensors show a document, of system_profiler. *)
Document(c, mode) ==
  IF c \in {"hardware", "sensors"} THEN RedactProfiler(mode, Paths(PathLength)) ELSE {}

(* The columns of each writer; those of JSON are the fields of the report.    *)
(* None: the writer refuses the kind.                                         *)
SnapshotCsv(c) ==
  CASE c = "processes" -> {"pid", "numbers", "user", "name"}
    [] c \in {"network", "cpu", "memory", "gpu"} -> {"numbers"}
    [] OTHER -> None

ReportCsv(c) ==
  CASE c = "disk" -> {"device", "mount", "numbers"}
    [] c = "network_flows" -> {"pid", "command", "local", "remote", "interface", "state", "numbers"}
    [] c = "network_connections" -> {"pid", "command", "protocol", "endpoint", "state"}
    [] OTHER -> None

SnapshotTable(c) == IF c = "processes" THEN {"pid", "numbers", "user", "name"} ELSE {"numbers"}

ReportTable(c) ==
  CASE c = "disk" -> {"device", "mount", "numbers"}
    [] c = "network_flows" -> {"pid", "command", "local", "remote", "interface", "state", "numbers"}
    [] c = "network_connections" -> {"pid", "command", "protocol", "endpoint", "state"}
    [] OTHER -> {"numbers"}

(* A writer that refuses is not one that writes some columns. *)
ASSUME ColumnsAssumption ==
  \A c \in Commands : None \notin {SnapshotTable(c), ReportTable(c)}

OfCollector == {"processes", "cpu", "memory", "network", "gpu"}

Columns(c, format, report) ==
  CASE format = "csv"   -> IF c \in OfCollector THEN SnapshotCsv(c) ELSE ReportCsv(c)
    [] format = "table" -> IF c \in OfCollector THEN SnapshotTable(c) ELSE ReportTable(c)
    [] OTHER            -> DOMAIN report

Printed(c, format, report) == [f \in Columns(c, format, report) |-> report[f]]

(* The session passes snapshots, disks, flows and the hardware page on, each  *)
(* after the same policy.                                                     *)
Sessions == {"processes", "disk", "network_flows", "hardware"}

SessionFields(page, mode) ==
  IF page = "hardware" THEN [transport |-> TransportSections(mode)] ELSE Fields(page, mode)

(* ps: the rows asked for, in the stable order of a descending key, of which  *)
(* the first `limit` are kept.                                                *)
Matching(rows, user) == Picked(rows, {i \in DOMAIN rows : user \in {None, rows[i].user}})

Place(rows, i) ==
  Cardinality({j \in DOMAIN rows : \/ rows[j].key > rows[i].key
                                   \/ rows[j].key = rows[i].key /\ j <= i})

Sorted(rows) ==
  [n \in DOMAIN rows |-> rows[CHOOSE i \in DOMAIN rows : Place(rows, i) = n]]

Truncate(rows, limit) ==
  IF limit = None \/ limit >= Len(rows) THEN rows ELSE SubSeq(rows, 1, limit)

\* Seeded fault: the rows are cut before they are sorted.
CutFirst(rows, user, limit) == Sorted(Truncate(Matching(rows, user), limit))

FilterProcesses(rows, user, limit) == Truncate(Sorted(Matching(rows, user)), limit)

Users(rows) == {rows[i].user : i \in DOMAIN rows}

(* What ps is asked for; other commands list no rows. *)
Queries ==
  IF cmd # "processes" THEN [rows : {<<>>}, user : {None}, limit : {None}]
  ELSE UNION {[rows : {rows}, user : {None} \cup Users(rows), limit : {None, 0, 1}]
              : rows \in Samples}

-------------------------------------------------------------------------------
(* The program *)

Init ==
  /\ phase = "start" /\ given = None /\ prefs = None /\ cmd = None /\ options = None
  /\ samples = 0 /\ round = 0 /\ since = None /\ measured = FALSE
  /\ out = None /\ header = 0 /\ exit = None

Running   == <<cmd, options, samples, round, since, measured, out, header>>
End(code) == phase' = "done" /\ exit' = code

(* --schema-version and the completions need no settings. *)
Bypass == phase = "start" /\ End(0) /\ UNCHANGED <<given, prefs, Running>>

MergeSettings(g) ==
  /\ phase = "start" /\ given' = g
  /\ prefs' = IF ClapConflicts(g) \/ LoadFails(g) THEN None ELSE Merge(g)
  /\ CASE ClapConflicts(g) -> End(2)
       [] ~ClapConflicts(g) /\ (LoadFails(g) \/ g.badMode
             \/ ParseInterval(Merge(g).interval) = None) -> End(64)
       [] OTHER -> phase' = "merged" /\ UNCHANGED exit
  /\ UNCHANGED Running

(* Afterwards only the merged settings matter. *)
ForgetSources ==
  /\ given' = None
  /\ prefs' = [prefs EXCEPT !.interval = ParseInterval(prefs.interval)]

PrintConfig ==
  phase = "merged" /\ End(0) /\ ForgetSources /\ UNCHANGED Running

Proceed ==
  phase = "merged" /\ phase' = "check" /\ ForgetSources /\ UNCHANGED <<Running, exit>>

Choose(c, o) ==
  LET refused == \/ Misuse(c, o)
                 \/ c = "network_flows" /\ ~FlowInterval(prefs.interval)
  IN  /\ phase = "check" /\ cmd' = c /\ options' = o
      /\ IF refused THEN End(64)
         ELSE /\ phase' = CASE c = "top" -> "session"
                             [] c \in {"cpu", "gpu"} /\ SampleCount(o) = 1 -> "warm"
                             [] OTHER -> "rounds"
              /\ UNCHANGED exit
      /\ samples' = IF refused THEN 0 ELSE SampleCount(o)
      /\ UNCHANGED <<given, prefs, round, since, measured, out, header>>

(* The codes of exit_code, for the errors a collection may end with. *)
Failures ==
  {69, 70} \cup IF options.enhanced THEN {77} ELSE {}

(* One reading ahead gives a single report of cpu or gpu its difference. *)
WarmUp ==
  /\ phase = "warm" /\ measured' = TRUE
  /\ \/ \E code \in Failures : End(code) /\ UNCHANGED since
     \/ /\ since' = SocWindow(options, prefs.interval)
        /\ phase' = "rounds" /\ UNCHANGED exit
  /\ UNCHANGED <<given, prefs, cmd, options, samples, round, out, header>>

(* A stream sleeps before each report but the first. *)
Slept == IF round = 0 THEN 0 ELSE prefs.interval

(* How long the report's rates look back, as far as the command waits; what   *)
(* the collection itself takes comes on top.                                  *)
Looked ==
  CASE cmd \in OfCollector    -> IF since = None THEN None ELSE since + Slept
    [] cmd = "sensors"       -> SocWindow(options, prefs.interval)
    [] cmd = "network_flows" -> prefs.interval
    [] OTHER                 -> None

(* The reading of an enhanced gpu report is followed by powermetrics: sudo    *)
(* may ask for a password first, then it measures for an interval.            *)
Powermetrics == cmd = "gpu" /\ options.enhanced

AfterReading == IF Powermetrics THEN {prompt + prefs.interval : prompt \in Prompts} ELSE {0}

(* What the writers refuse themselves. *)
Unprintable ==
  /\ options.format = "csv"
  /\ \/ Columns(cmd, "csv", <<>>) = None
     \/ cmd = "gpu" /\ options.enhanced

(* One report: wait the interval unless it is the first, collect, filter,     *)
(* redact, print.  A closed standard output makes println! panic.             *)
Report(q) ==
  /\ phase = "rounds" /\ round < samples /\ measured' = TRUE
  /\ \/ /\ \E code \in Failures \cup {IF Unprintable THEN 64 ELSE 101} : End(code)
        /\ UNCHANGED <<round, since, out, header>>
     \/ /\ ~Unprintable
        /\ out' = [fields   |-> Printed(cmd, options.format, Fields(cmd, prefs.privacy)),
                   document |-> Document(cmd, prefs.privacy),
                   rows     |-> FilterProcesses(q.rows, q.user, q.limit),
                   query    |-> q,
                   window   |-> Looked]
        /\ header' = IF options.format = "csv" /\ round = 0 THEN header + 1 ELSE header
        /\ round' = IF round = MaxRounds THEN round ELSE round + 1
        /\ since' \in IF cmd \in OfCollector THEN AfterReading ELSE {None}
        /\ UNCHANGED <<phase, exit>>
  /\ UNCHANGED <<given, prefs, cmd, options, samples>>

Finish ==
  /\ phase = "rounds" /\ round = samples
  /\ End(0) /\ UNCHANGED <<given, prefs, Running>>

(* The interactive session: without a terminal it is misuse, elsewhere than   *)
(* on macOS unavailable, and the diagnostics file must not exist yet.         *)
RefuseSession ==
  /\ phase = "session" /\ ~measured
  /\ \/ \E code \in {64, 69} : End(code)
     \/ options.diagnostics /\ End(70)
  /\ UNCHANGED <<given, prefs, Running>>

ShowPage(page) ==
  /\ phase = "session" /\ measured' = TRUE
  /\ out' = [fields |-> SessionFields(page, prefs.privacy),
             document |-> Document(page, prefs.privacy),
             rows |-> <<>>, query |-> None, window |-> None]
  /\ UNCHANGED <<phase, given, prefs, cmd, options, samples, round, since, header, exit>>

(* The user quits, or the terminal or the writing of the diagnostics fails. *)
LeaveSession ==
  /\ phase = "session" /\ \E code \in {0, 70} : End(code)
  /\ UNCHANGED <<given, prefs, Running>>

Exited == phase = "done" /\ UNCHANGED vars

Next ==
  \/ Bypass \/ PrintConfig \/ Proceed \/ WarmUp \/ Finish
  \/ RefuseSession \/ LeaveSession \/ Exited
  \/ phase = "start" /\ \E g \in Settings : MergeSettings(g)
  \/ phase = "check" /\ \E c \in Commands, o \in Options : Choose(c, o)
  \/ phase = "rounds" /\ \E q \in Queries : Report(q)
  \/ \E page \in Sessions : ShowPage(page)

Spec == Init /\ [][Next]_vars

-------------------------------------------------------------------------------
(* Properties *)

(* What docs/PRIVACY.md promises of each policy. *)
Hidden(mode) ==
  CASE mode = "off"     -> {}
    [] mode = "default" -> {"arguments"}
    [] mode = "strict"  -> {"arguments", "name", "user", "path", "threadNames", "command",
                            "endpoint", "local", "remote", "mount", "transport"}

HiddenSteps(mode) ==
  {"identifier", "unreviewed"} \cup IF mode = "strict" THEN {"label"} ELSE {}

StepsOf(path) == {path[i] : i \in DOMAIN path}

(* Whatever the command, the format and the sources of the settings, no       *)
(* report, and no page of the session, shows what the policy in force hides:  *)
(* neither a field of a row, nor a value of a document below a key that       *)
(* nobody reviewed.                                                           *)
NothingPrivateShown ==
  out # None =>
    /\ \A f \in DOMAIN out.fields : out.fields[f] = "raw" => f \notin Hidden(prefs.privacy)
    /\ prefs.privacy # "off" =>
         \A path \in out.document : StepsOf(path) \cap HiddenSteps(prefs.privacy) = {}

(* A setting is the one of its highest source: the command line, then the     *)
(* environment, then the file, which --no-config alone leaves out; a file     *)
(* that is not valid is refused even where it is overridden.                  *)
Highest(g, key) ==
  LET file  == IF g.noConfig \/ g.file = None THEN [interval |-> None, privacy |-> None]
               ELSE g.file
      order == <<g.cli[key], g.env[key], file[key]>>
      set   == {i \in DOMAIN order : order[i] # None}
  IN  IF set = {} THEN DefaultConfig[key]
      ELSE order[CHOOSE i \in set : \A j \in set : i <= j]

SettingsAreTheHighest ==
  phase = "merged" =>
    /\ prefs.privacy = IF given.showSensitive THEN "off" ELSE Highest(given, "privacy")
    /\ prefs.interval = Highest(given, "interval")
    /\ LET ms == prefs.interval.n * Mult(prefs.interval.unit) IN ms \in MinMillis .. MaxMillis
    /\ given.noConfig \/ given.file = None \/ given.valid

(* What is misuse is refused before anything is measured, printed or waited   *)
(* for: the checks of each writer, which come later, never have to refuse.    *)
RefusedBeforeWork == exit = 64 => ~measured /\ out = None

(* No rate is of less than 250 ms, whatever was read ahead, slept or measured *)
(* in between.  A single report of cpu, gpu or the sensors looks back over a  *)
(* window of its own, of at most 500 ms; in a stream every report after the   *)
(* first looks back over the interval, but for enhanced gpu reports, between  *)
(* whose readings powermetrics takes another one.                             *)
RatesAreTimed ==
  out # None /\ phase # "session" =>
    /\ out.window # None => out.window >= MinMillis
    /\ cmd \in {"cpu", "gpu", "sensors"} /\ samples = 1 => out.window \in MinMillis .. LongestWindow
    /\ cmd \in OfCollector /\ round > 1 =>
         IF Powermetrics THEN out.window >= 2 * prefs.interval ELSE out.window = prefs.interval

(* A stream that ends well has all its reports, under one header if it is CSV. *)
StreamIsComplete ==
  exit = 0 /\ samples > 0 /\ cmd # "top" =>
    round = samples /\ header = IF options.format = "csv" THEN 1 ELSE 0

(* A report of ps keeps no row in place of a larger one the query allows,     *)
(* under the strict policy too, which hides the name of the user asked for.   *)
RowsAreLargest ==
  out # None /\ cmd = "processes" =>
    LET wanted == {i \in DOMAIN out.query.rows :
                     out.query.user \in {None, out.query.rows[i].user}}
        atLeast(key, rows, dom) == Cardinality({i \in dom : rows[i].key >= key})
        full == IF out.query.limit = None \/ out.query.limit > Cardinality(wanted)
                THEN Cardinality(wanted) ELSE out.query.limit
    IN  /\ Len(out.rows) = full
        /\ \A n \in DOMAIN out.rows :
             /\ out.query.user \in {None, out.rows[n].user}
             /\ atLeast(out.rows[n].key, out.rows, 1 .. n) = n
             /\ atLeast(out.rows[n].key + 1, out.query.rows, wanted) < n

(* Whatever is printed is what was asked for: by the highest source of each
   setting, in a form that was not refused, whole, and of the rows asked for. *)
ReportIsAsAsked ==
  SettingsAreTheHighest /\ RefusedBeforeWork /\ StreamIsComplete /\ RowsAreLargest

===============================================================================
