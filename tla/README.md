# bmtop: models, checks and proofs

bmtop is a terminal monitor for macOS: a TUI (`crates/bmtop-tui`), a collector
(`crates/bmtop-macos`, with a C and Objective-C bridge), the data types they
share (`crates/bmtop-core`) and a command line (`crates/bmtop`). This
directory holds TLA+ modules translated from that code, TLC runs that check
them on small instances, and TLAPS proofs of the results that matter most for
every value of the constants. `PROJECT.json` maps each definition to the lines
it stands for, and lists the runs, the seeded faults, the hazards and the
theorems.

To run one instance: `tlc -workers 2 -config Command.cfg Command`. To check the
proofs of a module: `tlapm CommandProofs.tla`.

## The system

```
  arguments, environment, file ──> command line ──> one or more reports on stdout
                                     │    (merge, refuse, collect, redact, print)
                                     ▼ interactive session
  user keys ──> event loop (run_loop, UiState) <── responses (one channel)
                  │ one-slot queue      │ one-slot queue        ▲
                  ▼                     ▼                       │
              sampler thread        detail thread ──────────────┘
                  │ snapshot()          │ disks, flows, sections
                  ▼                     ▼
           MacCollector ──> proc_pidinfo, GPU clients, IOReport, display stream
                  └── command::output ──> ps, df, mount, nettop, lsof ...

  confirmed action ──> control_process, on the loop's own thread: its identity is
                       checked, then sudo and kill run without a deadline
```

| Component | State | Operations | Interacts with | What is hard | What makes it correct |
|---|---|---|---|---|---|
| Event loop (`bmtop-tui/src/lib.rs`) | page, pause, caches, loading flag, error, interval, next sample, in-flight flag, redraw gate | one iteration: schedule, request, drain, draw, poll; keys | workers by queue and channel, terminal | late answers, panics, pause with work in flight, no wake-up from workers | only wanted answers are shown, nothing changes while paused, the screen is current before each sleep, the loop never oversleeps and never finds a worker unavailable |
| Detail scheduling (`scheduling.rs`) | revision of the page, in-flight flag, deadline, ticket loaded last | `update`, `due`, `start`, `finish`, `deadline` | event loop | page left and entered again while a job runs; cooldown | every page the user stays on is served, no stale result is used |
| Worker lanes (`worker.rs`) | two one-slot queues, two threads, stop flag | request, take, complete, panic, drop | event loop, collector | thread death, drop without join, hung native call | one request per lane, a dead thread reports, the other lane goes on |
| Process table (`state.rs`, `input.rs`) | rows, cursor as row number, filter, prompt | keys, `set_snapshot` | event loop; the sample carries the details of the selected PID | re-sorting, processes that come and go, empty list | the cursor stays on its process; the details follow |
| Process signals (`state.rs`, `bmtop-macos/src/lib.rs`) | pending action with PID and start time, typed PID | x, k, X, confirm, check, sudo, kill | process table, operating system | PID reuse at each step, password prompt in the middle | the confirmed process is the target; no bystander started before the check is hit; protected processes never |
| Subprocess runner (`command.rs`) | child, two reader threads, deadline | spawn, poll, drain, terminate | every collector that runs a tool | helpers that keep pipes open, exit at the deadline, output at its limit | returns, complete output or an error, nothing left behind |
| Collector: process rates (`bmtop-macos/src/lib.rs`, `bmtop-core/src/lib.rs`, `energy.rs`) | counters per (PID, start), GPU times and their time | `snapshot` | sampler thread, operating system | PID reuse, partial enumeration, expired readings, rows of the `ps` fallback | no rate mixes two processes; each is divided by its own window; partial data is not used |
| Collector: system metrics | previous interface, disk, CPU and SoC readings, whether IOReport could be opened | read, difference | sampler; batch commands | counters without an identity, devices that come back, wraps, queries that fail once | no rate is negative, exaggerated or of another window; what stays has its rate |
| GPU client buffer (`gpu_buffer.rs`) | the size of the buffer | grow and read again, at most four times | collector | a list that grows with each read | the list is whole or marked as truncated |
| SoC handle (`soc.rs`, `bmtop_soc.c`) | a lease; the C library's subscription and previous sample, static and unlocked | `new`, `sample`, move, `Drop` | sampler thread, batch commands | a handle made while another is being closed | one user of the library; no reading spans two handles |
| SoC sample (`bmtop_soc.c`) | none | sort channels into buckets, choose one bucket; average the states of clusters and GPU | SoC handle | the same power or traffic offered under several names and in two groups; states without a frequency | nothing is counted by two buckets; each average is between states the chip was in |
| Display stream (`bmtop_link.m`) | stream, atomic frame counter | start, stop, read, the queue's handler | collector; a serial queue of the system | late calls after a stop, drops, start refused | open only while wanted; each frame is counted once |
| Disk report (`disk_report`) | none | `df`, then `mount`, then filters | detail thread, command line | volumes come and go between the two calls | each device once, shown by a volume the filters leave |
| Network flows (`flows.rs`) | two samples of sockets | parse, difference | detail thread, command line | ambiguous keys, midnight, a socket that changes state, the table's limit | a rate only between two readings of one socket; what is left out is told |
| Connections, RDMA (`connections.rs`, `rdma.rs`) | record opened last | one line | command line | lines that belong to a record that was refused | each line in its own row |
| Thunderbolt tree (`bmtop_link.m`, `thunderbolt.rs`) | none | read switches, climb to the host, group | detail thread | devices pulled out during the climb; chains | each device under its own bus |
| Charts and power column | histories of the screen, GPU history, decaying peak | one snapshot | event loop, collector | missing readings | no invented point; columns add up to the cards |
| Tree order (`state.rs`) | none | `tree_order` | process table | parents in a cycle | each rooted row once, after its parent |
| Command line (`main.rs`, `config.rs`, `output.rs`) | settings, rounds | merge, refuse, warm up, report, session | collector, privacy filter, session | precedence of sources, contradictory options, a stream's first window | the highest source wins, misuse is refused before work, streams are whole |
| Privacy filter (`privacy.rs`) | none | redact | command line, session | a field that is forgotten, an order of filter and mask | nothing the policy hides is shown |
| Pages (`render.rs`, `widgets.rs`, `state.rs`, `bmtop/src/sections.rs`) | page, sections with cursor and scroll, what is on display | snapshots, reports, page and section keys, resizing | event loop, terminal | a list that gets shorter under the cursor, a page that is left, a body too small | the section under the cursor is on the screen and is the one shown, from where the reader left it |
| Hardware documents, core types, interval prompt, scripts | none | - | - | - | see Not modelled |

## Modules

| Module | Models | Remarks |
|---|---|---|
| `DetailSchedule` | `scheduling.rs`: `DetailRevision`, `DetailSchedule` | a state as a record, one operator per method |
| `Workers` | `worker.rs`: queues, threads, response channel, stop flag | extends `DetailSchedule` |
| `RunLoop` | `run_loop` with the parts of `UiState` it drives | extends `Workers`: the composition of the loop, both threads and the user |
| `SingleFlight` | abstract: a service that answers at most one request per lane | implemented by `RunLoop` (`LanesImplemented`) |
| `RunLoopProperties` | the properties of `RunLoop` and its inductive invariant | |
| `ProcessTable` | rows, cursor, filter prompts, sample requests that carry the selected PID | |
| `ProcessSignals` | confirmation and execution of an action | extends `ProcessTable`: cursor and samples go on under the prompt |
| `Command` | one call of `command::output` | |
| `Collector` | `MacCollector::snapshot` for processes, GPU clients and the display stream's life | |
| `Counters` | the same snapshot for what belongs to the machine: CPU ticks, interfaces, disks, IOReport energy | |
| `GpuBuffer` | the repeated native call that lists GPU clients | |
| `SocHandle` | the lease on the C library, and the library's static state | any number of threads |
| `DisplayStream` | the frame counter, at its atomic steps | |
| `SocSample` | channels of one difference to powers, traffic, clusters, temperatures; single sensors to groups | |
| `Volumes` | `disk_report` | |
| `TreeOrder` | `tree_order`, pop by pop | against a definition by paths |
| `Charts` | GPU and power columns, GPU history, the screen's histories and peak | exact fractions |
| `Thunderbolt` | reading of the switches and the climb to the host bus | |
| `Listings` | the line parsers of `lsof` and `ibv_devinfo`, the verdict on `rdma_ctl` | |
| `Pages` | what `render.rs` draws of a page: panels, mode bar, section list, columns | with the keys and arrivals that change it |
| `Privacy` | the policies over classes of fields and of profiler keys | |
| `Cli` | the command line from its arguments to its exit code | extends `Privacy` |
| `Flows` | nettop's two samples, and the report made of them | with the sockets as they really are |
| `Enumeration` | the numbers of a set in their order, what a list has at some of its places | the order is counted, see Proofs; used by `Charts`, `Cli`, `Listings`, `Pages`, `TreeOrder` |
| `MCMeters`, `MCReports` | for TLC: several components in one run, one of them moving per behaviour | |
| `Absent` | `Option::None` | |
| `RunLoopProofs`, `ProcessProofs` (`ProcessTable`, `ProcessSignals`, `TreeOrder`), `CommandProofs`, `CollectorProofs` (`Collector`, `SocSample`), `CountersProofs` (`Counters`, `Charts`), `MetersProofs` (`GpuBuffer`, `SocHandle`, `DisplayStream`, `Volumes`, `Thunderbolt`, `Listings`), `ReportProofs` (`Cli`, `Flows`, `Pages`) | theorems and proofs | |
| `DataLemmas` | lemmas on finite sets, numbers, remainders, sums and the places of a list | used by all proof modules but `RunLoopProofs` and `CommandProofs` |

### State and actions against the code

*RunLoop.* `pc` is the place in one iteration of the loop: `UpdateSchedule`
(changed interval, `details.update`), `RequestDetail`, `RequestSample`, one
`Receive...` action for each response the drain takes (`ReceiveSample`,
`ReceiveDetail`, `ReceivePanic`), `Draw` with the poll timeout, then one user
event or `TimeOut`. Threads move between any two of these. Times are ticks that
remain; `Tick` lets a tick pass at any moment, so a step may take as long as it
likes. Which snapshot is on display is a model value; the only thing told apart
is whether it has GPU data, since `set_snapshot` leaves the GPU page without it.
`View` is what of the state tells one screen from another as far as results, pages and pause
go; cursors, prompts and scrolls, which `draw` reads too, change only with keys, and any key opens
the redraw gate. `screen` is the view drawn last. `superseded`
is a history variable: the user has changed, refreshed or paused the page since
the detail request in flight was sent.

*Workers.* A job is the request taken from the queue. `Complete` is a closure
that returns or panics, and the send of its response; `Disconnect` is an idle
thread whose loop ends, once both senders are gone, and the last message its guard
sends. `DropWorkers` sets the stop flag and
drops both senders and the receiver; nobody joins.

*ProcessTable.* A row is its PID and start time. `SampleArrives` is
`set_snapshot`: the new rows in an arbitrary order, the cursor pinned to its
process, or kept at its row number if that process is gone. The order is
arbitrary because every sort key is a changing number; `Resort` is any key that
changes it (o, O, R, P, M, N, E, W, V), `Filter` and `HideIdle` change which rows
are shown. `aim` and `kept` are history variables: the process the user left the
cursor on, and whether it has been on display ever since. `Pane` is the panel next
to the table: whose it is, and whether the details in it have arrived.

*ProcessSignals.* `AskFor` is x, k or X, `EditConfirmation` and `Cancel` the
prompt, `Confirm` Enter with its two checks, then `CheckIdentity`, `Authorize`
(sudo, which may wait for a password, for ever too) and `Kill` in `control_process`. Processes
exit and PIDs are used again between any two of them.

*Command.* `Caller`'s actions are the thread that called: `Reap` and `TimeOut`
(the poll loop), `Receive`, `RejectExcess`, `DrainTimeOut` (the drain),
`WaitForChild` (the wait after a SIGKILL). `ReadToEnd` is a reader thread.
The program forks, writes, closes pipes and exits as it likes.
`written` counts up to one byte more than the limit: more makes no difference.

*Collector.* A snapshot is `Begin` (the time, the stream flag), `ReadProcesses`
(or `ReadRowsOnly` when no counter can be read, or `FallBack` to `ps`),
`ReadGpuTimes`, and `StartFps`/`StopFps`/`KeepFps`. A reading holds whose counter it is, its value, and
the snapshot and time it was taken in; a rate is the pair of readings it was
made from and the time it was divided by, so that "whose is it" is a question of
the model, which the program could not ask.

*Counters.* `ReadCpu`, `ReadInterfaces`, `ReadSoc`
(which opens the SoC collector at its first use) and `ReadDisks`, each with its
failure. A device has a counter for its present life, which the program reads, and
a total over all its lives, which only the properties read.

*GpuBuffer.* `Grow`, `Retain` and `Unavailable` are one call each of the loop in
`collect`; `ClientsChange` happens between two of them. `first` is history.

*SocHandle.* A thread takes the lease (`Lease`, or `AlreadyActive`), opens
(`Opened`, or `NotOpened` and `GiveBack`), samples in two steps (the reading, then
`FirstSample` or `SampleDelta`; or `SampleFails`), hands the value over (`Move`), and
drops it in three (`Drop`, `CleanUp`, `Release`). The C functions take two steps
each so that two threads inside would be seen. Openings are numbered, which the
code does not do, so that a comparison across two of them can be told.

*DisplayStream.* `Draw` is a frame that the system composites and queues,
`Handler` one call of the queue (a frame that was dropped before counts too),
`StartRefused`, `Start` (publishes the stream) and `ClearFrames`, `BeginWindow` the
two halves of a start, `Stop`, and `Read` with the atomic `Exchange` of the
counter, between which the handler may run.

*SocSample.* `chip` is what a machine did, and which channels of it IOReport
offers; `SampleTraffic`, `SamplePower`, `SampleClusters`, `SampleGpu`,
`SampleTemperatures` and `SampleSensors` are the six parts of one sample. A power channel has the bucket
its name puts it in, one of the two groups, and the parts of the chip it measures; several of them may be
in one bucket. A state of a cluster or of the GPU has the kind of its name and the first number in it,
and a machine's frequency table may be empty or shorter than the list of states. There is no second step:
the state space is the machines.

*Volumes, Thunderbolt, Listings, TreeOrder.* One action per query, line, registry entry or
pop; between them volumes are mounted and unmounted (`Unmount`, `Remount`) and
devices are pulled out (`Pull`).

*Charts.* `Snapshot` is one snapshot as far as derived figures go, from the
collector's columns to `record_history`. `seen` is the history of the readings.

*Cli.* `phase` is the place in `run`. The options of a command are drawn in the action
that first looks at them: `MergeSettings` (file, environment, flags, and every
way in which one of them is refused), `Choose` (the command, and every refusal
of its options), `WarmUp`, `Report` (one round), `Finish`; `ShowPage` and
`LeaveSession` are the interactive session, whose inside is `RunLoop`. A report
is a function from classes of fields to what the policy left of them; `out` is
the report printed last. `since` is how long ago the collector took its last reading: the warm-up, the sleep
between two rounds, and the run of powermetrics (with sudo's prompt before it, `AfterReading`) that follows the reading of an
enhanced GPU report.

*Flows.* Sockets open (also with the end points of one that closed), close, transfer, change state
and have counters or none (`Cover`), while nettop writes line after
line (`NextProcess`, `NextSocket`, `EndSample`) and seconds pass (`Second`).
`ReportFlows` is everything from the parse to the sorted table.

*Pages.* `TakeSnapshot` is `set_snapshot` as far as the page goes, `TakeReport` the
sections' arm of `apply_detail`, `ChoosePage`, `MoveSection` and `ScrollSection` the keys, `Prompt`
the opening and closing of whatever takes the keys, `Resize` another terminal. What is drawn is an
operator on the state: `Panels`, `Tabs`, `SectionsListed`, `SectionShown`, `CommandWidth`. `area` is
what the layout leaves for the body. `scrolled` and `exchanged` are history: which section
the reader paged in, and whether a report has put another in its place since.

Some definitions stand next to another one of the same shape and are used by no
action (`DrawAndSleep`, `VerdictOfCut`, `PidOnly`, `AddAll`,
`HasUid`, `PushAny`, `CursorKept`, ...). They are seeded faults: the bug a
programmer could make there. `PROJECT.json` names for each property the fault
that it must catch.

## Runs

| Run | Question | Instance |
|---|---|---|
| `RunLoopSafety` | Do late, lost and failing answers ever reach the screen, stop the loop, or let it oversleep; is a freed lane used? | four pages (two that share a cache, the network page with its cooldown, and the GPU page that has no detail work and is left when its data disappear), a snapshot with and one without GPU data, two intervals |
| `RunLoopLiveness` | Is every page served, does a panic end the loop, do both threads end; are the lanes a single-flight service? | two pages, one interval, fair workers |
| `RunLoopHungDetail` | Does sampling go on while the detail thread hangs? | as above, only the sampler fair |
| `Processes` | Does the cursor stay on its process, do the details follow it, and is it the confirmed process that is hit? | two PIDs, one protected, one reuse, four keys, fair sampling |
| `ProcessTableResort` | (violated) Does re-sorting between samples leave the selection alone? | see Findings |
| `Command` | Does a call return, with complete output, and with nothing left behind? | a child and two helpers, limit 1 |
| `CommandStray` | (violated) Is only the call's own group signalled? | see Findings |
| `Collector` | Is each rate the difference of two readings of one process, over the time between them? | one PID, two lives, four snapshots, a reading expires after two ticks |
| `CollectorGpu` | (violated) The same for GPU rates under PID reuse | see Findings |
| `Meters` | Is what is shown of the machine what was there: rates, GPU clients, disks, tree, SoC library, frames, SoC figures, columns and charts, Thunderbolt, listings? | one of these parts per behaviour, see Bounds |
| `Reports` | Are settings, refusals, streams and privacy as documented for every command line; is the socket table true; is what the reader works with on the screen? | all commands and options; two sockets; four sections on fifteen sizes |

What the properties of `Meters` and `Reports` say:

* `RatesAreReal` (`NeverExaggerated` and `WindowsFit`), `SteadyRates` (`Counters`): no rate shows more than passed, each is
  divided by the time between its two readings, and what stayed in place has an
  exact rate.
* `GpuListIsWhole`: the calls end with an answer; a list that is not marked as truncated is whole,
  and one that fits the largest buffer and has grown by no more than a quarter is never cut.
* `HandleIsAlone`: the C library has one user, who holds the lease, and a
  difference is between two samples of one handle.
* `EveryFrameOnce`: since the counter was cleared, the frames told and those
  still in the counter are the frames counted, in whatever order the handler ran.
* `SampleIsTrue`: traffic is not counted twice (`TrafficOnce`). What a part of the chip used is in
  its domain's power no more often than the channels of one bucket name it, and the power is exact
  when they name each part once (`PowerOnce`). A cluster's and the GPU's share and frequency are such
  that one die, or channel, can have had them, with any state names and tables (`ClusterIsReal`,
  `GpuIsReal`). Temperatures are such as silicon can have, and every sensor that reads something its kind
  can is in one group.
* `EachDeviceOnce`: a physical device is reported once, by one of the volumes that
  the filters leave. Which of them it is, and whether mount's answer is still true, is not checked.
* `TreeIsFaithful`: the rows are those that have a root, each once, at
  its depth, parents first and siblings in the order of the table; rows in a
  cycle of parents are left out.
* `FiguresAreMeasured`: the columns add up to the readings, and charts have no
  invented point.
* `DevicesUnderTheirBus`, `RowsAreOwn`: each device under its host, each line in
  the record it belongs to.
* `NothingPrivateShown`, `RatesAreTimed`, `ReportIsAsAsked` (`Cli`): nothing that the policy
  hides reaches standard output or the session; no rate is of less than 250 ms, a single report looks
  back over a window of its own, and the reports of a stream over its interval, but over two of them or more when
  powermetrics runs between the readings; settings come from their highest source, misuse is refused
  before any work, and a stream is whole.
* `FlowsAreHonest` (`Flows`): a rate is the difference of two readings of one
  socket over the time between, and a report that leaves something out says so.
* `PageIsReadable` (`Pages`): wherever the section list has a line, the section under the
  cursor is in it, and no line is empty while there are sections for it; the text next to it is that
  section's, from its top or from where the reader paged to; the page has a tab and
  data, and the arrows lead to the neighbours on the mode bar; the energy columns are shown only where
  the command keeps its sixteen columns.

### Bounds

* `MaxGeneration` 2 (RunLoop): the user acts only while the page revision is
  below it. Two revisions are enough to leave a page, come back (A to B to A) and
  have the answer of the first visit arrive in the second, because a lane holds
  one job. The bound limits the user only; the proofs have no bound.
* Cooldown, poll timeouts and intervals of `RunLoopSafety` are one to four ticks, chosen so that the
  order of the real values holds (40 ms busy poll < interval < 60 s paused poll)
  and that either of two deadlines may come first. The two liveness runs have smaller values, at which
  some of them are equal or nothing: how long a wait is makes no difference to whether it ends.
* `MaxKeys` 4, `MaxBirths` 1 (Processes): ask, type and confirm, and one more; one birth is one
  PID used again.
* `Limit` 1 (Command): output below, at and above the limit.
* `Ttl` 2, `MaxRounds` 4, `MaxWork` 2, `MaxBirths` 2 (Collector): a reading is
  used, expires unused, and is followed by a reading of the PID's next process. One PID; that
  only the first row of a snapshot may still find an expired reading (the others come after
  the histories are pruned) needs two and is not seen by TLC.
  The proofs cover any number of PIDs.
* Meters. The parts share nothing but the clock of a snapshot, so that
  `focus` lets one of them move per behaviour. `MaxEvents` 4, `MaxRounds` 3, `Wrap` 3: a device
  leaves, comes back, counts in both directions and is read before, between and
  after; a tick counter wraps. `Initial` 1, `Maximum` 9, `Attempts` 4: the list
  grows faster than the buffer, and past its largest size. Three threads, two
  openings: an owner, one who is refused and one who comes after. Four frames, two
  starts, four tenths of a second: late calls of a stopped stream, windows too
  short for a rate. Four PIDs: all parent relations, cycles of two and of three
  with a row below them. Three
  kinds of traffic counters at once, two dies; three power channels of a domain at once, among those of
  two groups, all buckets and every set of parts, which use nothing or one unit each. Three states of a
  cluster or of the GPU, tables of no, one and two frequencies, one unit of time at most in each state; no, one and two
  channels of the GPU. Two volumes on one device, or on
  none; one that is mounted anew is neither small nor internal
  (`ReturnsLarge`). Two processes, three
  snapshots, histories of two: a chart overflows. Two hosts, three devices in any
  chain, `Between` 2, `MaxHops` 5, `Room` 4: a device just within reach and one
  beyond it, and one switch too many; at most one host is unreadable. Five lines: two records with a
  line in each that is refused.
* Reports. An interval at, above and below its limits; `Prompts` 0 and 700: a password that is
  remembered, and one that takes longer than the shortest interval; two policies besides the
  default; `MaxRounds` 2: the first report, a later one, and those
  after it look alike. `DepthLimit` 2, `PathLength` 3: a document at its limit and
  beyond. `Word` stands for 2^64 - 1. `ps` lists no process or two, of one user or of two,
  the first with a larger, a smaller or the same key. Two sockets, one process, two interfaces and two
  states, which are symmetric; `Day` 4, `Longest` 1, `Deadline` 2: samples across
  midnight, and too far apart; `MaxFlows` 1: a table that is full; `MaxUses` 2:
  two events between the lines. Three data types, one of which has a rank, and one transport
  section; bodies of 80, 81, 91, 92 and 117 columns (below and at each width at which a column or
  a panel comes) by 5, 6 and 30 lines (a stacked list with no line, with one, and with room for all but
  the longest lists); `Deepest` 15 for the 65535 lines a scroll can hold.

`CHECK_DEADLOCK FALSE` is set for `Command`, `CommandStray`, `Collector`,
`CollectorGpu` and `Meters`: a call returns and its program ends; the snapshots are bounded
and the collector is dropped with its thread; a meter's part ends with its
answer. The other modules check for
deadlock, and have an explicit action (`Ended`, `Rest`, `Exited`, `Collected`) for their proper end.

### Fairness

* `RunLoop`: weak fairness of the loop's own steps and of the clock: the loop is a thread
  that never blocks for ever (its poll has a timeout). Weak fairness of each
  worker: a closure returns since every subprocess it starts has a deadline,
  which is what `Command` shows (`Returns`). Native calls have no deadline, which is
  why `RunLoopHungDetail` drops the detail thread's fairness. The user and the
  terminal owe nothing. A confirmed action is left out of this module: the loop waits in it for as
  long as sudo waits for a password, which is the subject of `ProcessSignals`.
* `Processes`: weak fairness of the request and of the arrival of a sample,
  strong fairness of `Collect`: a collector that fails now and then succeeds
  again and again. One that fails for ever shows no new data, and no property of
  the table could hold. Of a confirmed action only the check of the identity, which is a call in the process, is
  fair. sudo and kill run by `Command::status` without a deadline (`docs/PERFORMANCE.md:14` says
  so of the prompts): nothing is assumed of them, and `DetailCatchesUp` is about the behaviours in
  which the loop comes back from each of them (`[]<>(step = "idle")`).
* `Command`: the clock, the calling thread, the two readers, and the death of a
  process under SIGKILL. The program itself owes nothing. A child in an
  uninterruptible system call survives SIGKILL: the wait after it
  (`command.rs:55`) has no deadline, so the call would hang.

## Findings

Three statements of the documentation are not what the code does. Each is a run
that TLC refutes.

1. `ProcessTableResort`: `README.md:193` says that re-sorting never moves the
   selection. It holds for the re-sorting by a sample (`CursorHolds`), not for the
   keys that change the order, which leave the row number.
2. `CommandStray`: `docs/PERFORMANCE.md:12` says that the timeout kills only the
   child's own group, then reaps. In the drain the child has been reaped
   already; with no helper left its group ID is free, and may be another's.
3. `CollectorGpu`: the comment at `bmtop-macos/src/lib.rs:637` says that GPU
   history is as safe against PID reuse as CPU history. GPU times are read later and joined by PID
   alone, so a PID used again within the snapshot files the new process's time under the old
   identity. Rows of the `ps` fallback all have start time 0, so that there any reuse does it.

Smaller observations, met while modelling and not given a run:

* When a sample without GPU data is the last response drained, the page changes from GPU to Overview after the
  schedule was computed, and Overview's disks are asked for only after the poll (an event, or at most
  the refresh interval). The comment at `bmtop-tui/src/lib.rs:273` promises an earlier request only after a
  stale result, for the page the user selected; `FreedLaneIsUsed` states that.
* A part of the chip that is named twice within one bucket, by a channel in each energy group or by a sum
  and its parts, is added twice; the two buckets of a kind (`bmtop_soc.c:643`) prevent it only between them. `PowerOnce` states
  what is left.
* A state that is not in the frequency table counts with the first number in its name, an index, as MHz
  (`bmtop_soc.c:453`), or with nothing; "DOWN" is work for a cluster and none for the GPU; if a machine offers
  several GPU channels, share and frequency may come from different ones.
* A standard output that is closed makes `println!` panic (`main.rs:878`): exit code 101, which the list
  of codes at `README.md:143` does not have.
* `read_topology` uses the C library's frequency tables outside the lease that `soc.rs:108` describes.
* "The total of this column equals the CPU + GPU reading" (`bmtop-macos/src/lib.rs:1018`) holds for
  a part of the chip that some row has used; what no row has used is shared out to nobody. `ColumnsAddUp` states it so.
* The frame counter switched off while paused leaves the stream open until the next sample.
* A volume whose statistics cannot be read for one sample changes the sums of the
  next (`bmtop_sys.c:347`); `NeverExaggerated` covers what can be shown of it.
* A first attempt to open IOReport that fails is remembered (`bmtop-macos/src/lib.rs:498`): no SoC
  figures until bmtop is started again.
* "Below this width one cannot tell which process it is" (`widgets.rs:36`): the energy columns give way to
  a command of sixteen columns, but nothing else does. From 92 columns on the panel beside the table
  takes 36, so that from 92 to 102 columns the command has fewer than sixteen although it had 26 at 91.
* "The cursor never scrolls off the screen" (`render.rs:180`): a stacked list on a body of five
  lines has a frame and no line (`SectionOnScreen` says `LinesInside > 0`). The process table is drawn
  without an offset, so its cursor may be below the last line.
* A section's scroll is kept when a report puts another section under the cursor; the test at
  `bmtop-tui/src/lib.rs:1721` is about keys only (`exchanged`).
* The number typed at the interval prompt is multiplied by 1000 unchecked (`state.rs:787`).

## Proofs

All theorems are proved for every value of the constants that satisfies the
named assumptions: any pages, snapshots and intervals, any number of processes,
threads and interfaces, any limits and bounds. Every safety property that a run
checks is proved, and so are the action properties.

* `RunLoopProofs`. `Safety` proves the inductive invariant `IInv`: types, one
  request per lane, no failing send, a true loading flag, and
  `LanesFollowSchedule`. The last is the strengthening: a dead thread has left its
  report in the channel or the loop has ended (`DeadThreadsReport`); past the
  top of the loop the schedule knows the page on display, but for the fallback
  from the GPU page (`ScheduleKnowsPage`); a ticket held by a lane is older than
  the schedule's revision, or is its current one and of an active page
  (`HeldTicketsAge`).
  Without it a flag such as `sampleInFlight` would say nothing about the queue's
  slot. From it: `TypeCorrect`, `SingleFlightLanes`, `NeverUnavailable`,
  `LoadingCorrect`, and the action property `FreshDetail`. `PauseCorrect` follows from
  types alone. `PollCorrect` (`NeverOversleeps`) needs `Paced`: the next sample is
  due within the interval in use, and only an idle network page has a cooldown.
  `ScreenCorrect` (`ScreenIsCurrent`) needs `Redrawn`, which says of each place in the
  loop why the screen may be old there (the redraw gate is open, or the page's
  detail is about to be requested), `LoadedIsHeld` and `ErrorOfSchedule` (the error on
  display is one of the schedule's page). `FreedLaneCorrect` (`FreedLaneIsUsed`), from `ServedInv`: a page whose
  detail counts as loaded, or is put off for its cooldown, has data or an error to show, and the loop sleeps only
  with such a page or with a job in the lane.
* `LanesRefined`, in the same module: the loop and its threads implement
  `SingleFlight`'s safety, where a lane's request is outstanding from its send to
  its receipt, wherever it is in between (queue, job, channel). `OneHeld` says
  that these places hold at most one; each loop step then maps to `Ask`, `Answer`, `Abandon` or
  a stutter, and thread steps to stutters.
* `ProcessProofs`. `TableTypeCorrect`: the shown rows are rows of the
  snapshot, each once, and the cursor is a row number that never wraps.
  `CursorCorrect`: the pinning of `set_snapshot` keeps the cursor on its process;
  the type invariant is all it needs, since a process occurs in one row only.
  `TargetCorrect` from: the pending action is the one asked for. `SignalCorrect` from:
  start times of a PID only grow, and before the kill nothing has been hit, so that
  what is hit is either what was checked or a process born after the check.
  `TreeCorrect` (`TreeIsFaithful`), for any rows, order and parents. A row's path is the way
  down to it from a root; there is at most one (`OneWay`) and no row is twice on it
  (`WaysAreShort`), so that cycles have none. `TreeInv` says that the rows shown and those
  still on the stack, each at its depth, stand in the order of their paths (`WalkInOrder`), and
  that a row whose parent has been shown, or that has none, is among them (`Reached`). The children
  pushed take the place of their parent in that order (`ChildrenFollow`, `WalkOn`). As no path
  comes before itself, a popped row is always new (`NextIsNew`); and at the end no row with a path
  is left out, or one with a shortest path would have a parent that is (`AllShown`).
* `CommandProofs`. `OutputCorrect`, `CleanupCorrect` from: the exit status is
  collected once and only of a dead child; a stream that was read to its end has no writer any
  more, and streams are drained in order; after a group was signalled nobody in it
  runs. The proof rests on what the model takes from the kernel: helpers stay in
  the child's process group, and a signalled process starts no new one.
* `CollectorProofs`. `CollectorInvariant`: each remembered reading belongs to the
  process it is filed under, and the GPU times kept are those of the last
  snapshot. `OwnRates`, `WindowCorrect`, `PartialNeverUsed` follow since a column
  is written in the snapshot that shows it. `StreamCorrect` (`StreamIsWanted`) from
  `StreamFollows`: what the collector believes of the stream is true until it is dropped.
  `SampleCorrect` (`SampleIsTrue`), for any channels, any number of them and of dies, and any amounts. One sample is
  one step, so it needs no invariant but the sums. The traffic chosen is, one for one, that of the parts of the chip that count
  (`SumMatched`). The power of a bucket is a sum over channels of a sum over parts, hence one over parts, each
  times the channels that name it (`SumCounts`); a frequency is a weighted average, between the least and the greatest of its
  states (`SumWeighted`); the average of a group's temperatures stays
  between the least and the greatest of them (`SumBounds`); and the sensors fall
  apart into groups (`SumOfParts`).
* `CountersProofs`. `CountersInvariant`: the reading of an interface in its present
  life has missed exactly what has passed since, one of an earlier life at least
  all of the present one (`NetReadings`); remembered CPU ticks are the true ones' remainder
  (`CpuFollows`); the last sum of the disks was made of one reading of each volume, and each has
  missed what an interface's would (`DisksFollow`). From it `RatesAreTrue` (`NeverExaggerated`), `Windows` (`WindowsFit`), both as `RatesReal`,
  and the action property `RatesAreSteady`. A sum over volumes is compared term by term
  (`SumGap` in `DataLemmas`), and a difference modulo the word by `RemainderGap`.
  `FiguresCorrect` (`FiguresAreMeasured`), from `ChartsInv`: the GPU's card holds the readings since one failed
  (`CardRight`), the charts of power and energy the newest points that were measured in the whole history `seen`, and
  the other charts a point for each snapshot (`ChartsRight`); the decayed peak is above the last reading, and
  never above all of them (`PeakRight`); the columns are those of the last reading. That the
  columns of any rows add up to the reading is `ColumnsRight`, by `SumLinear`; that a chart stays an end of
  its list when it overflows is `PickedNext`.
* `MetersProofs`. `GpuListSafe`, from: after the first call the buffer holds what
  it returned and a quarter more, or has its largest size (`RoomForFirst`), and
  another call is made only while there are some left (`CallsLeft`). `HandleCorrect`,
  from `NothingLeft`: a library that nobody owns has neither a subscription nor a
  sample. Without it the next owner's first difference could be taken against the
  last owner's sample. `FramesCounted`: `EveryFrameOnce` is inductive, since the only
  step that takes frames out of the counter exchanges it. `DevicesReported`
  (`EachDeviceOnce`), from `DisksInv`: the rows reported are one for each device of df's rows that the
  filters leave. `TreeRight` (`DevicesUnderTheirBus`), from `TreeInv`: what hangs behind a device pulled out has gone
  with it (`PulledBehind`), a climb stands on a switch above its device, has made as many hops as it
  has climbed levels and has passed no host that can be read (`ClimbRight`), and the switches read have the root they
  should (`SwitchesRight`). It rests on two lemmas on the tree: cables make no cycle (`NoCycle`) and a parent is
  one level up (`LevelsUp`). `ListingsCorrect` (`RowsAreOwn`), from `ListingInv`: of any number of lines the
  parser has read so far, the rows finished are those of the records before the open one,
  what is held of the open one was said by its own lines (`LsofInv`, `RdmaInv`), and an
  answer is the report of all lines or of the failure (`AnswerRight`).
* `ReportProofs`. `PrivacyCorrect`, for any depth limit and any length of a path: all steps of a raw path but the last
  are containers or items, and the last is a measurement or a label that the mode leaves (`RawPath`);
  a writer has columns only for fields of its report (`ColumnsAreFields`).
  `RatesCorrect` (`RatesAreTimed`), from `Timed`: what has been waited since the collector's last reading is the
  warm-up's window before the first report, and afterwards nothing, or one interval and a prompt where powermetrics ran;
  the sleep comes on top. `CommandCorrect` (`ReportIsAsAsked`, with the rows of `ps`, which are the largest of theirs
  in a stable order) rests on `Accepted` (a command that works was not refused, so no
  writer refuses later) and `ParsedInterval` (a product that saturates is never in range,
  since `Word` is above the largest interval).
  `FlowsTraced` (`FlowsInv`): each line of a sample carries the key of its socket and no more bytes than
  the socket had moved, sockets that stayed open are in both samples once the second is complete, and
  a report stands for a pair of lines with one key. `FlowsHonest` (`FlowsAreHonest`) follows: two lines with one key
  that occurs once in both are of one socket, or of one that took over its end points.
  `PagesCorrect` (`PageIsReadable`), from `PagesInv`: the cursor is on a section,
  or at 0 without any. Its part on the sections is `SectionsAreReadable`; its part on the mode bar (`PageHasTab`)
  rests on the arrows leading to neighbours in the list of the pages that exist, from either end to the other.
* `DataLemmas`. Every set of subsets of a finite set has a minimal member, every nonempty set of
  numbers a least one; from these, what induction is usually used for: remainders (`Division`,
  `RemainderGap`) and sums over finite sets. A sum exists and can be taken apart at any one of its terms
  (`SumsExist`, `SumIsLast`, `PartSumIs`), which is all that is needed to add
  (`SumLinear`), to compare (`SumGap`, `SumAtLeast`, `SumBounds`), to rename terms (`SumMatched`) and to
  group them (`SumOfParts`). Then the places of a list: the number `CountTo` of members of a set
  up to one of them numbers the set without gaps (`EveryPlaceTaken`, `PlacesGrow`), so that `InOrder` is its
  increasing enumeration (`InOrderIs`) and `Picked` a part of the list in its order (`PickedIs`, `PickedNext`).

`Enumeration` is used where the code filters or sorts a list. The library's filters are
recursive and its sorting chooses among permutations; both agree with the counting form, which the provers can
follow.

Constants are assumed to be what the machine guarantees: finitely many volumes, switches, dies, processes
and sockets, a process in each sample, shares of at most 100 percent, and an absent value that is no reading
and no name.

Model-checked only: all liveness (`PageIsServed`, `LoopAndThreadsEnd`,
`SamplingContinues`, `DetailCatchesUp`, `Returns`, `ReadersEnd`) and the fairness part of
`LanesImplemented`. Liveness and ENABLED are beyond the proof system, and so are RECURSIVE operators and the
induction theorems that take an operator. No module declares a RECURSIVE operator; induction over
finite sets, numbers and the length of a path is done by least and minimal
counterexamples instead.

## Assumptions of the models

* Helpers of a program stay in its process group, and SIGKILL takes effect.
* The reads of one process's identity and counters in `read_processes` are one
  step: a PID is not used again between two system calls for the same row.
* The CPU and energy histories are one history, fed with the rows whose counter
  could be read.
* Start times of two processes with one PID differ (they have microseconds).
* Channels deliver in the order of their sends (they are in-process).
* A Thunderbolt switch that cannot be read stays unreadable during a reading, and
  one that is plugged in during it is not in the iterator.
* nettop lists each process once, with the sockets it has when its lines are
  written.
* The keys of a system_profiler document that `privacy.rs` names are four classes;
  all others are one.

## Not modelled

* Memory, battery, topology, GPU utilisation and the shares of single
  cores are values shown as they are read; so are fans, units and the thermal level of a
  SoC sample, and the speeds and names of the Thunderbolt tree.
* Hardware documents (`link.rs`, `platform.rs`, `pmenergy.rs`, `powermetrics.rs`) parse one answer and
  keep nothing; what the policy leaves of them is in `Privacy`.
* The core data types are records, labels and formats.
* The interval prompt converts one typed text; its hazard is the width of a 64-bit product, beyond TLC's integers.
* Of the rendering: texts, styles and the contents of the summary pages (`pages.rs`, `overview.rs`,
  `network.rs`). Which state is drawn is `ScreenIsCurrent`, what of it can be read is `PageIsReadable`, and what the
  charts are made of is `FiguresAreMeasured`.
* Scripts, native tests and CI are tools.

## Plan

Done, in this order: the event loop with its lanes and schedule (the heart of the
program), its abstract service, the process table and the signals on top of it,
the subprocess runner every fairness assumption rests on, the collector's
rates, of processes and of the machine, the C library's handle, the display
stream and the GPU client buffer, the derived figures (SoC sample, columns and charts), the reports of other
programs (disks, flows, connections, RDMA, Thunderbolt), the command line with its privacy policies, and
what the pages show.

Next:

1. An abstract specification of a rate ("two readings of one process") that `Collector` is shown
   to implement, and one of the detail page ("shows the answer to its last revision").
2. The hardware documents, should they come to keep anything between two readings.
