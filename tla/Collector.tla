------------------------------ MODULE Collector ------------------------------
(* How MacCollector (bmtop-macos/src/lib.rs) turns the cumulative counters of
   processes into rates, snapshot after snapshot: the CPU and energy histories
   (bmtop-core), the GPU times with their coverage, and the display stream that
   counts frames.

   A snapshot takes its time once, then reads the processes, the GPU times and
   the frames one after the other, while processes work, exit and re-use PIDs.
   A counter is a small number, a rate the two readings it is made from and the
   time it is divided by.  Both histories of the first kind are one here: the
   energy history is fed with those rows whose resource usage could be read,
   the CPU history with all of them.                                        *)
EXTENDS Naturals

CONSTANTS Pids, None,
          Ttl,         \* how long a counter is kept, in ticks (120 s)
          MaxRounds,   \* bound: snapshots
          MaxBirths,   \* bound: processes per PID
          MaxWork      \* bound: a counter

ASSUME CollectorAssumption ==
  /\ None \notin Pids
  /\ Ttl \in Nat \ {0} /\ MaxRounds \in Nat /\ MaxBirths \in Nat \ {0} /\ MaxWork \in Nat

VARIABLES
  alive,     \* PIDs in use
  born,      \* the start time of the last process of a PID, counted from 1
  work,      \* its cumulative CPU, energy and GPU counters
  phase,     \* what the snapshot does next
  round,     \* the number of the snapshot
  now,       \* its time
  rows,      \* the rows of the snapshot: PID -> start time
  history,   \* ProcessCpuHistory.counters, ProcessEnergyHistory.counters
  rates,     \* the CPU or energy column
  gpuTimes,  \* previous_gpu_times
  gpuAt,     \* previous_gpu_at
  gpuRates,  \* the GPU column
  wanted,    \* fps_enabled
  running,   \* fps_running
  stream     \* g_fps_stream of bmtop_link.m is set

os        == <<alive, born, work>>
snapshot  == <<round, now>>
processes == <<rows, history, rates>>
gpu       == <<gpuTimes, gpuAt, gpuRates>>
fps       == <<wanted, running, stream>>
vars      == <<os, phase, snapshot, processes, gpu, fps>>

Empty   == [x \in {} |-> None]
NoRates == [p \in Pids |-> None]

Init ==
  /\ alive = Pids /\ born = [p \in Pids |-> 1] /\ work = [p \in Pids |-> 0]
  /\ phase = "idle" /\ round = 0 /\ now = 0
  /\ rows = Empty /\ history = Empty /\ rates = NoRates
  /\ gpuTimes = Empty /\ gpuAt = None /\ gpuRates = NoRates
  /\ wanted = FALSE /\ running = FALSE /\ stream = FALSE

-----------------------------------------------------------------------------
(* The processes of the machine. *)

Work(p) ==
  /\ p \in alive /\ work[p] < MaxWork
  /\ work' = [work EXCEPT ![p] = @ + 1]
  /\ UNCHANGED <<alive, born, phase, snapshot, processes, gpu, fps>>

Exit(p) ==
  /\ p \in alive /\ alive' = alive \ {p}
  /\ UNCHANGED <<born, work, phase, snapshot, processes, gpu, fps>>

Spawn(p) ==
  /\ p \notin alive /\ born[p] < MaxBirths
  /\ alive' = alive \cup {p}
  /\ born' = [born EXCEPT ![p] = @ + 1] /\ work' = [work EXCEPT ![p] = 0]
  /\ UNCHANGED <<phase, snapshot, processes, gpu, fps>>

Os == \E p \in Pids : Work(p) \/ Exit(p) \/ Spawn(p)

-----------------------------------------------------------------------------
(* What a snapshot reads.  `owner` is the process the counter belongs to, as
   opposed to the row it is put in.                                         *)

Reading(p, complete) ==
  [owner |-> <<p, born[p]>>, work |-> work[p], round |-> round, at |-> now,
   complete |-> complete]

Rate(from, to, since) == [from |-> from, to |-> to, over |-> to.at - since]

(* Two readings give a rate only if time has passed and the counter has not
   gone back.                                                               *)
Rateable(from, to, since) == to.at > since /\ to.work >= from.work

\* Seeded fault: the start time is not part of the key.
PidOnly(p, start) == <<p, 0>>

Identity(p, start) == <<p, start>>

(* set_fps_enabled and the head of snapshot; the clock may not have moved. *)
Begin(enabled) ==
  /\ phase = "idle" /\ round < MaxRounds
  /\ round' = round + 1 /\ now' \in {now, now + 1}
  /\ rows' = Empty /\ rates' = NoRates /\ gpuRates' = NoRates
  /\ wanted' = enabled /\ phase' = "processes"
  /\ UNCHANGED <<os, history, gpuTimes, gpuAt, running, stream>>

Current(reading) == now - reading.at < Ttl

(* Each row first takes its previous reading and then drops what is too old, so
   only the first row can still use one that is.                            *)
Previous(p, first) ==
  LET key == Identity(p, born[p]) IN
  IF key \in DOMAIN history /\ (p = first \/ Current(history[key])) THEN history[key] ELSE None

Fed(pids) ==
  LET new  == {Identity(p, born[p]) : p \in pids}
      kept == {key \in DOMAIN history : Current(history[key])}
  IN [key \in new \cup kept |->
        IF key \in new
          THEN Reading(CHOOSE p \in pids : key = Identity(p, born[p]), TRUE)
          ELSE history[key]]

NewRate(p, from) ==
  IF from # None /\ Rateable(from, Reading(p, TRUE), from.at)
    THEN Rate(from, Reading(p, TRUE), from.at) ELSE None

(* read_processes.  The enumeration may miss processes; the history is fed with
   the rows whose counters could be read.                                   *)
FeedRows(seen, pids, first) ==
  /\ phase = "processes" /\ phase' = "gpu"
  /\ rows'    = [p \in seen |-> born[p]]
  /\ history' = Fed(pids)
  /\ rates'   = [p \in Pids |-> IF p \in pids THEN NewRate(p, Previous(p, first)) ELSE None]
  /\ UNCHANGED <<os, snapshot, gpu, fps>>

ReadProcesses ==
  \E seen \in SUBSET alive : \E pids \in SUBSET seen : \E first \in pids :
    FeedRows(seen, pids, first)

(* No counter could be read. *)
ReadRowsOnly ==
  /\ phase = "processes" /\ phase' = "gpu"
  /\ \E seen \in (SUBSET alive) \ {{}} : rows' = [p \in seen |-> born[p]]
  /\ UNCHANGED <<os, snapshot, history, rates, gpu, fps>>

(* ps_fallback: no start times and no history; ps may fail too. *)
PsRows(seen) == [p \in seen |-> 0]

FallBack ==
  /\ phase = "processes" /\ phase' = "gpu"
  /\ \E seen \in SUBSET alive : rows' = PsRows(seen)
  /\ UNCHANGED <<os, snapshot, history, rates, gpu, fps>>

-----------------------------------------------------------------------------
(* apply_gpu_percent. *)

\* Seeded fault: a truncated enumeration is good enough.
Available(coverage) == coverage # "unavailable"

Complete(coverage) == coverage = "complete"

\* Seeded fault: times of processes without a GPU client now are kept.
Extended(times) == [key \in DOMAIN times \cup DOMAIN gpuTimes |->
                      IF key \in DOMAIN times THEN times[key] ELSE gpuTimes[key]]

Replaced(times) == times

(* A GPU time is found by its PID and put under the start time of the row. *)
GpuTimes(listed, coverage) ==
  [key \in {Identity(p, rows[p]) : p \in listed \cap DOMAIN rows} |->
     Reading(key[1], coverage = "complete")]

NewGpuRate(key, times) ==
  IF /\ gpuAt # None
     /\ key \in DOMAIN times /\ key \in DOMAIN gpuTimes
     /\ Rateable(gpuTimes[key], times[key], gpuAt)
    THEN Rate(gpuTimes[key], times[key], gpuAt) ELSE None

ReadGpu(listed, coverage) ==
  /\ phase = "gpu" /\ phase' = "fps"
  /\ IF ~Complete(coverage)
       THEN gpuTimes' = Empty /\ gpuAt' = None /\ UNCHANGED gpuRates
       ELSE LET times == GpuTimes(listed, coverage) IN
            /\ gpuTimes' = Replaced(times) /\ gpuAt' = now
            /\ gpuRates' = [p \in Pids |->
                 IF p \in DOMAIN rows THEN NewGpuRate(Identity(p, rows[p]), times) ELSE None]
  /\ UNCHANGED <<os, snapshot, processes, fps>>

(* Only processes that have used the GPU are listed. *)
ReadGpuTimes ==
  \E coverage \in {"complete", "truncated", "unavailable"} :
    \E listed \in SUBSET {p \in alive : work[p] > 0} : ReadGpu(listed, coverage)

-----------------------------------------------------------------------------
(* manage_fps, with the start and stop of bmtop_link.m. *)

StartFps ==
  /\ phase = "fps" /\ wanted /\ ~running /\ phase' = "idle"
  /\ \/ running' = TRUE /\ stream' = TRUE
     \/ UNCHANGED <<running, stream>>      \* no permission, or no stream
  /\ UNCHANGED <<os, snapshot, processes, gpu, wanted>>

StopFps ==
  /\ phase = "fps" /\ ~wanted /\ running /\ phase' = "idle"
  /\ running' = FALSE /\ stream' = FALSE
  /\ UNCHANGED <<os, snapshot, processes, gpu, wanted>>

KeepFps ==
  /\ phase = "fps" /\ wanted = running /\ phase' = "idle"
  /\ UNCHANGED <<os, snapshot, processes, gpu, fps>>

\* Seeded fault: the collector goes without stopping the stream.
StreamKept == stream

StreamAfterDrop == IF running THEN FALSE ELSE stream

(* Drop: the sampler thread ends. *)
DropCollector ==
  /\ phase = "idle" /\ phase' = "dropped"
  /\ stream' = StreamAfterDrop
  /\ UNCHANGED <<os, snapshot, processes, gpu, wanted, running>>

Snapshot == \/ \E enabled \in BOOLEAN : Begin(enabled)
            \/ ReadProcesses \/ ReadRowsOnly \/ FallBack \/ ReadGpuTimes
            \/ StartFps \/ StopFps \/ KeepFps \/ DropCollector

Next == Os \/ Snapshot

Spec == Init /\ [][Next]_vars

-----------------------------------------------------------------------------
Ids      == Pids \X (0 .. MaxBirths)
Readings == [owner : Ids, work : 0 .. MaxWork, round : 0 .. MaxRounds,
             at : 0 .. MaxRounds, complete : BOOLEAN]
Rates    == [from : Readings, to : Readings, over : 1 .. MaxRounds]

(* Every variable has its type; no rate is divided by zero. *)
CollectorTypeOK ==
  /\ alive \subseteq Pids /\ born \in [Pids -> 1 .. MaxBirths] /\ work \in [Pids -> 0 .. MaxWork]
  /\ phase \in {"idle", "processes", "gpu", "fps", "dropped"}
  /\ round \in 0 .. MaxRounds /\ now \in 0 .. round
  /\ \E seen \in SUBSET Pids : rows \in [seen -> 0 .. MaxBirths]
  /\ \E keys \in SUBSET Ids : history \in [keys -> Readings]
  /\ \E keys \in SUBSET Ids : gpuTimes \in [keys -> Readings]
  /\ rates \in [Pids -> Rates \cup {None}] /\ gpuRates \in [Pids -> Rates \cup {None}]
  /\ gpuAt \in (0 .. MaxRounds) \cup {None}
  /\ wanted \in BOOLEAN /\ running \in BOOLEAN /\ stream \in BOOLEAN

Own(p, rate) == rate.from.owner = <<p, rows[p]>> /\ rate.to.owner = <<p, rows[p]>>

(* A CPU or energy rate is made from two readings of the process its row names:
   a new process with the PID of another starts a series of its own
   (the comment at energy.rs:107: the key carries the start time).                       *)
RatesAreOwn == \A p \in Pids : rates[p] # None => p \in DOMAIN rows /\ Own(p, rates[p])

(* Every rate is divided by the time between its two readings, also if the
   process was missing from snapshots in between, and never by zero, also if
   two snapshots are taken at the same instant.                             *)
RatesFitTheirWindow ==
  \A p \in Pids :
    \A rate \in {rates[p], gpuRates[p]} \ {None} :
      rate.over = rate.to.at - rate.from.at /\ rate.over > 0 /\ rate.from.round < rate.to.round

(* "Never normalize a partial set up to the whole system's GPU activity"
   (lib.rs:626): a GPU rate comes from two complete enumerations, and from two
   that follow each other.                                                  *)
NeverPartial ==
  \A p \in Pids : gpuRates[p] # None =>
    /\ gpuRates[p].from.complete /\ gpuRates[p].to.complete
    /\ gpuRates[p].from.round + 1 = gpuRates[p].to.round

(* The display stream runs only for a snapshot that wants it, and not longer
   than the collector (lib.rs:565-588, 868-874).                            *)
StreamIsWanted ==
  /\ phase = "idle" /\ ~wanted => ~stream
  /\ phase = "dropped" => ~stream

(* "GPU history must be as PID-reuse-safe as CPU / energy history. Do not assign
   an old PID's time to a new task." (lib.rs:637-638)                       *)
GpuRatesAreOwn ==
  \A p \in Pids : gpuRates[p] # None => gpuRates[p].from.owner = gpuRates[p].to.owner
=============================================================================
