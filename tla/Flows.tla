-------------------------------- MODULE Flows --------------------------------
(* The socket table (bmtop-macos, flows.rs): nettop lists the sockets of every
   process twice, a while apart, and the difference of two lines of one socket
   gives its rates.

   The sockets open, close and transfer while nettop writes its lines, each with
   a time of its own.  nettop knows no identity: a socket is its process, its
   end points and its interface, and what has these in common is told apart by
   nothing.  The columns are values here, not text; nettop's first sample, which
   the program throws away, is left out, and so is the order of the rows.      *)
EXTENDS Integers, Sequences, FiniteSets, Absent

CONSTANTS
  Sockets,     \* sockets that may be open at once
  Processes, Interfaces, States,
  Day,         \* seconds until the time of the day starts again (86,400)
  Longest,     \* the longest time that gives a rate (120)
  Deadline,    \* the longest a run of nettop may take (2 * interval + 10)
  MaxFlows,    \* the rows of a report (512)
  MaxUses      \* bound: what happens to the sockets

ASSUME FlowsAssumption ==
  /\ Day \in Nat \ {0} /\ Longest \in Nat \ {0} /\ Deadline \in Nat /\ Deadline < Day
  /\ MaxFlows \in Nat /\ MaxUses \in Nat
  /\ Processes # {}   \* nettop runs

VARIABLES
  socket,   \* the open sockets: their tuple, state, counters and number
  uses,     \* what has happened to them so far
  clock,    \* seconds since nettop was started
  midnight, \* when its day ends
  lines,    \* the lines of the sample nettop is writing
  listings,  \* the samples it has written
  flows     \* the report: NetworkFlowSnapshot, or what has become of it

flowVars == <<socket, uses, clock, midnight, lines, listings, flows>>

Directions == {"in", "out"}
Without(status) == [status |-> status, rows |-> {}, truncated |-> FALSE]
FlowsRun == flows.status = "running"
Tuples == [process : Processes, interface : Interfaces]

New(s, tuple, state, n) ==
  [tuple |-> tuple, state |-> state, count |-> [d \in Directions |-> 0],
   counted |-> TRUE, owner |-> <<s, n>>]

FlowsInit ==
  /\ uses = 0
  /\ \E tuple \in [Sockets -> Tuples], open \in SUBSET Sockets, state \in States :
       socket = [s \in Sockets |-> IF s \in open THEN New(s, tuple[s], state, uses) ELSE None]
  /\ clock = 0 /\ midnight \in {1, Deadline + 1}
  /\ lines = <<>> /\ listings = <<>> /\ flows = Without("running")

-----------------------------------------------------------------------------
(* The machine. *)

Use(s, use) ==
  /\ FlowsRun /\ uses < MaxUses /\ uses' = uses + 1
  /\ socket' = [socket EXCEPT ![s] = use]
  /\ UNCHANGED <<clock, midnight, lines, listings, flows>>

Open(s) ==
  /\ socket[s] = None
  /\ \E tuple \in Tuples, state \in States : Use(s, New(s, tuple, state, uses + 1))

Close(s) == socket[s] # None /\ Use(s, None)

Transfer(s, d) == socket[s] # None /\ Use(s, [socket[s] EXCEPT !.count[d] = @ + 1])

ChangeState(s, state) ==
  socket[s] # None /\ socket[s].state # state /\ Use(s, [socket[s] EXCEPT !.state = state])

(* Some sockets have no counters, or none for a while. *)
Cover(s) == socket[s] # None /\ Use(s, [socket[s] EXCEPT !.counted = ~@])

Second ==
  /\ FlowsRun /\ clock < Deadline /\ clock' = clock + 1
  /\ UNCHANGED <<socket, uses, midnight, lines, listings, flows>>

-----------------------------------------------------------------------------
(* nettop: a line for each process, and under it one for each of its sockets. *)

TimeOfDay == (clock - midnight) % Day

(* A socket belongs to the process listed before it. *)
Socketed(sample) == {i \in DOMAIN sample : sample[i].kind = "socket"}

ProcessAt(sample, i) ==
  LET above == {j \in 1 .. i : sample[j].kind = "process"} IN
  sample[CHOOSE j \in above : \A k \in above : k <= j].process

Current == ProcessAt(lines, Len(lines))

ProcessesOf(sample) == {sample[i].process : i \in DOMAIN sample \ Socketed(sample)}

Listed == ProcessesOf(lines)

ListedSockets == {lines[i].socket : i \in Socketed(lines)}

Unlisted(p) == {s \in Sockets \ ListedSockets : socket[s] # None /\ socket[s].tuple.process = p}

Write(line) ==
  /\ FlowsRun /\ Len(listings) < 2 /\ lines' = Append(lines, line)
  /\ UNCHANGED <<socket, uses, clock, midnight, listings, flows>>

NextProcess(p) ==
  /\ p \notin Listed /\ (lines # <<>> => Unlisted(Current) = {})
  /\ Write([kind |-> "process", process |-> p, time |-> TimeOfDay])

NextSocket(s) ==
  /\ lines # <<>> /\ s \in Unlisted(Current)
  /\ Write([kind |-> "socket", socket |-> s, interface |-> socket[s].tuple.interface,
            state |-> socket[s].state, time |-> TimeOfDay, at |-> clock,
            count |-> IF socket[s].counted THEN socket[s].count ELSE [d \in Directions |-> None],
            owner |-> socket[s].owner])

EndSample ==
  /\ FlowsRun /\ Listed = Processes /\ Unlisted(Current) = {}
  /\ listings' = Append(listings, lines) /\ lines' = <<>>
  /\ UNCHANGED <<socket, uses, clock, midnight, flows>>

-----------------------------------------------------------------------------
(* parse_sample *)

Key(sample, i) == <<ProcessAt(sample, i), sample[i].interface>>

SocketKeys(sample) == {Key(sample, i) : i \in Socketed(sample)}

LinesOf(sample, key) == {i \in Socketed(sample) : Key(sample, i) = key}

(* The last of the lines with one key, of which it is not known whose they are. *)
RowOf(sample, key) == sample[CHOOSE i \in LinesOf(sample, key) :
                               \A j \in LinesOf(sample, key) : j <= i]

Ambiguous(sample) == {key \in SocketKeys(sample) : \E i, j \in LinesOf(sample, key) : i # j}

SampleTime(sample) == sample[1].time

-----------------------------------------------------------------------------
(* parse_flow_samples *)

Difference(before, after) == (after - before) % Day

Elapsed(before, after) == Difference(before, after) \in 1 .. Longest

(* A counter that is missing or has gone back gives no rate. *)
RateOf(from, to, d) ==
  IF Elapsed(from.time, to.time) /\ from.count[d] # None /\ to.count[d] # None /\ to.count[d] >= from.count[d]
    THEN [from |-> from, to |-> to, amount |-> to.count[d] - from.count[d],
          over |-> Difference(from.time, to.time)]
    ELSE None

Rates(before, key, to) ==
  [d \in Directions |->
     IF key \in SocketKeys(before) /\ RowOf(before, key).state = to.state
       THEN RateOf(RowOf(before, key), to, d) ELSE None]

(* total_rate, as a fraction: rows without any rate come last. *)
Known(rates) == {d \in Directions : rates[d] # None}

Total(rates) ==
  (IF rates["in"] = None THEN 0 ELSE rates["in"].amount)
    + (IF rates["out"] = None THEN 0 ELSE rates["out"].amount)

OverSeconds(rates) == rates[CHOOSE d \in Known(rates) : TRUE].over

Busier(row, other) ==
  /\ Known(row.rates) # {}
  /\ Known(other.rates) # {} =>
       Total(row.rates) * OverSeconds(other.rates) > Total(other.rates) * OverSeconds(row.rates)

Doubtful(before, after) == Ambiguous(before) \cup Ambiguous(after)

FlowRows(before, after) ==
  {[key |-> key, line |-> RowOf(after, key), rates |-> Rates(before, key, RowOf(after, key))] :
     key \in SocketKeys(after) \ Doubtful(before, after)}

\* Seeded fault: only a full table is called truncated.
FullTable(before, after) == Cardinality(SocketKeys(after)) > MaxFlows

Truncated(before, after) ==
  \/ Cardinality(SocketKeys(after)) > MaxFlows
  \/ Doubtful(before, after) # {}

(* The busiest rows; among equals the order decides that is left out here. *)
Cuts(rows) ==
  {kept \in SUBSET rows :
     /\ Cardinality(kept) = IF Cardinality(rows) < MaxFlows THEN Cardinality(rows) ELSE MaxFlows
     /\ \A row \in rows \ kept, other \in kept : ~Busier(row, other)}

(* The output is read when nettop has ended. *)
ReportFlows ==
  /\ FlowsRun /\ Len(listings) = 2
  /\ IF ~Elapsed(SampleTime(listings[1]), SampleTime(listings[2])) THEN flows' = Without("error")
     ELSE \E kept \in Cuts(FlowRows(listings[1], listings[2])) :
            flows' = [status |-> "reported", rows |-> kept,
                      truncated |-> Truncated(listings[1], listings[2])]
  /\ UNCHANGED <<socket, uses, clock, midnight, lines, listings>>

(* A run without both samples, past its deadline or with a line that cannot be
   read is an error.                                                         *)
NettopFails ==
  /\ FlowsRun /\ lines = <<>> /\ flows' = Without("error")
  /\ UNCHANGED <<socket, uses, clock, midnight, lines, listings>>

FlowsNext ==
  \/ \E s \in Sockets :
       \/ Open(s) \/ Close(s)
       \/ \E d \in Directions : Transfer(s, d)
       \/ \E state \in States : ChangeState(s, state)
       \/ Cover(s) \/ NextSocket(s)
  \/ \E p \in Processes : NextProcess(p)
  \/ Second \/ EndSample \/ ReportFlows \/ NettopFails

FlowSpec == FlowsInit /\ [][FlowsNext]_flowVars

-----------------------------------------------------------------------------
Reported == flows.status = "reported"

ShownRates == {rate \in UNION {{row.rates[d] : d \in Directions} : row \in flows.rows} : rate # None}

OpenOwners == {socket[s].owner : s \in {s \in Sockets : socket[s] # None}}

SocketLines(sample) == {sample[i] : i \in Socketed(sample)}

Follows(from, to) ==
  /\ from.owner = to.owner /\ from.state = to.state /\ to.at - from.at \in 1 .. Longest
  /\ \A d \in Directions : None \notin {from.count[d], to.count[d]}

(* A rate is the traffic of one socket divided by the time between its own two
   lines, over midnight too: two sockets meet in a rate only if the first has
   left its tuple to the second ("same-tuple reuse between samples remains a
   limit"), and a socket that stayed as it was has both its rates.           *)
FlowRatesAreTrue ==
  Reported =>
    /\ \A rate \in ShownRates :
         /\ rate.over = rate.to.at - rate.from.at
         /\ rate.from.owner # rate.to.owner => rate.from.owner \notin OpenOwners
    /\ \A row \in flows.rows, from \in SocketLines(listings[1]) :
         Follows(from, row.line) =>
           \A d \in Directions :
             row.rates[d] = [from |-> from, to |-> row.line,
                             amount |-> row.line.count[d] - from.count[d],
                             over |-> row.line.at - from.at]

(* A socket that nettop listed and the report does not show is told of: either
   it cannot be told from another one, or the table is full.                 *)
NothingIsHidden ==
  Reported =>
    (SocketLines(listings[2]) \subseteq {row.line : row \in flows.rows} \/ flows.truncated)

(* The table of sockets says nothing false, and says where it is silent. *)
FlowsAreHonest == FlowRatesAreTrue /\ NothingIsHidden
=============================================================================
