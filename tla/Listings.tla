------------------------------- MODULE Listings -------------------------------
(* Two listings of other programs, read line by line: the open sockets of lsof
   (connections.rs, network_connections) and the RDMA devices of rdma_ctl and
   ibv_devinfo (rdma.rs).  In both a line belongs to a record that an earlier
   line has opened.  The text of a value is left out.                         *)
EXTENDS Naturals, Sequences, SequencesExt, FiniteSetsExt, Enumeration, Absent

CONSTANTS
  Pids,      \* of the processes lsof lists
  Texts,     \* commands, end points, names
  MaxLines   \* bound of the model

VARIABLES
  source,    \* "lsof" or "rdma"
  written,   \* the lines so far: [tag, value]
  parsed,    \* parse_lsof_connections: rows, pid, command, current
  devices,   \* parse_ibv_devinfo
  answer     \* the report, or None

listingVars == <<source, written, parsed, devices, answer>>

FileTags == {"protocol", "endpoint", "state"}
NoFile == [tag \in FileTags |-> None]

(* A row is not the absence of one. *)
ASSUME ListingsAssumption ==
  None \notin [pid : Pids, command : Texts \cup {None}, fields : [FileTags -> Texts \cup {None}]]

(* A PID that is no positive number is None. *)
ProcessFields == {[tag |-> "process", value |-> pid] : pid \in Pids \cup {None}}
              \cup {[tag |-> "command", value |-> text] : text \in Texts}
FileFields == {[tag |-> "file", value |-> None], [tag |-> "other", value |-> None]}
           \cup {[tag |-> tag, value |-> text] : tag \in FileTags, text \in Texts}

DeviceTags == {"transport", "port_state"}
DeviceLines == {[tag |-> "hca_id", value |-> text] : text \in Texts}
            \cup {[tag |-> tag, value |-> text] : tag \in DeviceTags, text \in Texts}

(* lsof writes of a process first, then of its files; ibv_devinfo may write
   something else before the first device.                                   *)
MayFollow(line) ==
  LET tags == {written[i].tag : i \in DOMAIN written} IN
  CASE line.tag = "process" -> TRUE
    [] line.tag = "command" -> written # <<>> /\ Last(written).tag = "process"
    [] line.tag = "file"    -> "process" \in tags
    [] line.tag \in FileTags \cup {"other"} ->
         written # <<>> /\ Last(written).tag \notin {"process", "command"}
    [] OTHER -> TRUE

Pushed(p) == IF p.current = None THEN p.rows ELSE Append(p.rows, p.current)

\* Seeded fault: a process whose PID cannot be read leaves that of the last one.
KeepsPid(p, value) ==
  [rows |-> Pushed(p), pid |-> IF value = None THEN p.pid ELSE value,
   command |-> None, current |-> None]

NewProcess(p, value) ==
  [rows |-> Pushed(p), pid |-> value, command |-> None, current |-> None]

(* A file of a process without a PID has no row. *)
NewFile(p) ==
  [p EXCEPT !.rows = Pushed(p),
            !.current = IF p.pid = None THEN None
                        ELSE [pid |-> p.pid, command |-> p.command, fields |-> NoFile]]

ParseField(p, line) ==
  CASE line.tag = "process" -> NewProcess(p, line.value)
    [] line.tag = "command" -> [p EXCEPT !.command = line.value]
    [] line.tag = "file"    -> NewFile(p)
    [] line.tag \in FileTags /\ p.current # None ->
         [p EXCEPT !.current.fields[line.tag] = line.value]
    [] OTHER -> p

ParseDevice(list, line) ==
  CASE line.tag = "hca_id" ->
         Append(list, [name |-> line.value, fields |-> [tag \in DeviceTags |-> None]])
    [] line.tag \in DeviceTags /\ list # <<>> ->
         [list EXCEPT ![Len(list)].fields[line.tag] = line.value]
    [] OTHER -> list

ListingsInit ==
  /\ source \in {"lsof", "rdma"} /\ written = <<>> /\ devices = <<>> /\ answer = None
  /\ parsed = [rows |-> <<>>, pid |-> None, command |-> None, current |-> None]

Line(line) ==
  /\ answer = None /\ Len(written) < MaxLines /\ MayFollow(line)
  /\ written' = Append(written, line)
  /\ \/ source = "lsof" /\ parsed' = ParseField(parsed, line) /\ UNCHANGED devices
     \/ source = "rdma" /\ devices' = ParseDevice(devices, line) /\ UNCHANGED parsed
  /\ UNCHANGED <<source, answer>>

(* An empty selection ends lsof with status 1 and not a word; it ends so too
   with what it could list and a diagnostic.                                 *)
EmptySelection(status, diagnostic) == status = 1 /\ written = <<>> /\ ~diagnostic

ReportConnections(status, diagnostic) ==
  /\ source = "lsof" /\ answer = None
  /\ diagnostic => status # 0
  /\ status = 0 => written # <<>>
  /\ answer' = IF status # 0 /\ ~EmptySelection(status, diagnostic)
               THEN [ok |-> FALSE, troubled |-> diagnostic, rows |-> <<>>]
               ELSE [ok |-> TRUE, troubled |-> diagnostic, rows |-> Pushed(parsed)]
  /\ UNCHANGED <<source, written, parsed, devices>>

(* parse_rdma_ctl: "not enabled" holds the word "enabled". *)
Enabled(words) == "enabled" \in words /\ words \cap {"disabled", "not_enabled"} = {}

(* The devices are asked for only where RDMA is on; an ibv_devinfo that fails
   has none.                                                                 *)
ReportRdma(words) ==
  /\ source = "rdma" /\ answer = None
  /\ "not_enabled" \in words => "enabled" \in words
  /\ \E devinfo \in BOOLEAN :
       answer' = [ok |-> Enabled(words), troubled |-> ~devinfo,
                  rows |-> IF Enabled(words) /\ devinfo THEN devices ELSE <<>>]
  /\ UNCHANGED <<source, written, parsed, devices>>

ListingsNext ==
  \/ \E line \in ProcessFields \cup FileFields : source = "lsof" /\ Line(line)
  \/ \E line \in DeviceLines : source = "rdma" /\ Line(line)
  \/ \E status \in 0 .. 2, diagnostic \in BOOLEAN : ReportConnections(status, diagnostic)
  \/ \E words \in SUBSET {"enabled", "not_enabled", "disabled"} : ReportRdma(words)

ListingsSpec == ListingsInit /\ [][ListingsNext]_listingVars

-----------------------------------------------------------------------------
(* The last line before i with one of the tags; 0 if there is none. *)
LastBefore(i, tags) == Max({0} \cup {j \in 1 .. i - 1 : written[j].tag \in tags})

(* What line i opens, and what is said of it before the next record. *)
Own(i, tag, heads) ==
  LET own == {j \in i + 1 .. Len(written) : /\ written[j].tag = tag
                                           /\ LastBefore(j, heads) = i}
  IN  IF own = {} THEN None ELSE written[Max(own)].value

Heads == {"process", "file"}

ProcessOf(i) == LastBefore(i, {"process"})

TrueRow(i) ==
  [pid |-> written[ProcessOf(i)].value, command |-> Own(ProcessOf(i), "command", Heads),
   fields |-> [tag \in FileTags |-> Own(i, tag, Heads)]]

TrueDevice(i) ==
  [name |-> written[i].value, fields |-> [tag \in DeviceTags |-> Own(i, tag, {"hca_id"})]]

(* A report has a row for each socket of a process with a PID, and for each
   device, in order, each with what was said of it and of its own process and
   nothing of another's; a listing that lsof could not finish is an error,
   and an empty one is not (lib.rs:1271-1272).                               *)
RowsAreOwn ==
  answer # None /\ answer.ok =>
    IF source = "lsof"
    THEN LET order == InOrder({i \in DOMAIN written :
                         written[i].tag = "file" /\ written[ProcessOf(i)].value # None})
         IN  ~answer.troubled /\ answer.rows = [n \in DOMAIN order |-> TrueRow(order[n])]
    ELSE LET order == InOrder({i \in DOMAIN written : written[i].tag = "hca_id"})
         IN  answer.rows = IF answer.troubled THEN <<>>
                           ELSE [n \in DOMAIN order |-> TrueDevice(order[n])]
===============================================================================
