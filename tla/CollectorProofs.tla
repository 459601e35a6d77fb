--------------------------- MODULE CollectorProofs ---------------------------
(* The rates of the collector, for any processes, re-uses of PIDs, gaps and
   snapshots.

   A reading in a history is one of the process its key names, so a rate is made
   from two readings of the same process.  The GPU times that are remembered are
   all of the last snapshot, and none are if that one was incomplete.       *)
EXTENDS Collector, SocSample, DataLemmas

(* The last snapshot whose processes, or whose GPU times, have been read. *)
ReadRound == IF phase = "processes" THEN round - 1 ELSE round
GpuRound  == IF phase \in {"processes", "gpu"} THEN round - 1 ELSE round

HistoryIsOwn ==
  \A key \in DOMAIN history : history[key].owner = key /\ history[key].round <= ReadRound

GpuTimesAreOfLastSnapshot ==
  \A key \in DOMAIN gpuTimes :
    /\ gpuTimes[key].complete /\ gpuTimes[key].round = GpuRound
    /\ gpuTimes[key].at = gpuAt /\ gpuAt \in Nat

RateInv ==
  /\ alive \subseteq Pids /\ round \in Nat /\ now \in Nat
  /\ \A key \in DOMAIN history : history[key].round \in Nat /\ history[key].at \in Nat
  /\ HistoryIsOwn /\ GpuTimesAreOfLastSnapshot
  /\ RatesAreOwn /\ RatesFitTheirWindow /\ NeverPartial

LEMMA NoRatesAtFirst ==
  ASSUME rates = NoRates, gpuRates = NoRates
  PROVE  RatesAreOwn /\ RatesFitTheirWindow /\ NeverPartial
BY DEF NoRates, RatesAreOwn, RatesFitTheirWindow, NeverPartial

(* What does not touch the collector touches no rate. *)
LEMMA RateInvKept ==
  ASSUME RateInv, alive' \subseteq Pids, UNCHANGED <<round, now, rows, history, rates, gpuTimes, gpuAt, gpuRates>>,
         ReadRound' = ReadRound, GpuRound' = GpuRound
  PROVE  RateInv'
BY DEF RateInv, HistoryIsOwn, GpuTimesAreOfLastSnapshot, RatesAreOwn, RatesFitTheirWindow,
       NeverPartial, Own

LEMMA BeginStep ==
  ASSUME RateInv, NEW enabled \in BOOLEAN, Begin(enabled)
  PROVE  RateInv'
<1>. USE DEF Begin, RateInv, os
<1>1. ReadRound' = ReadRound /\ GpuRound' = GpuRound
  BY DEF ReadRound, GpuRound
<1>2. round' \in Nat /\ now' \in Nat
  OBVIOUS
<1>3. HistoryIsOwn' /\ GpuTimesAreOfLastSnapshot'
  BY <1>1 DEF HistoryIsOwn, GpuTimesAreOfLastSnapshot
<1>4. (RatesAreOwn /\ RatesFitTheirWindow /\ NeverPartial)'
  BY DEF NoRates, RatesAreOwn, RatesFitTheirWindow, NeverPartial
<1>. QED BY <1>2, <1>3, <1>4

(* What the history is fed with is put under the process it was read from. *)
LEMMA FedIsOwn ==
  ASSUME RateInv, NEW pids \in SUBSET Pids, NEW key \in DOMAIN Fed(pids)
  PROVE  /\ Fed(pids)[key].owner = key
         /\ Fed(pids)[key].round \in Nat /\ Fed(pids)[key].round <= round
         /\ Fed(pids)[key].at \in Nat
<1> DEFINE new  == {Identity(p, born[p]) : p \in pids}
           kept == {k \in DOMAIN history : Current(history[k])}
<1>1. CASE key \in new
  <2> DEFINE q == CHOOSE p \in pids : key = Identity(p, born[p])
  <2>1. q \in pids /\ key = Identity(q, born[q])
    BY <1>1
  <2>2. Fed(pids)[key] = Reading(q, TRUE)
    BY <1>1 DEF Fed
  <2>. HIDE DEF q
  <2>. QED BY <2>1, <2>2 DEF Reading, Identity, RateInv
<1>2. CASE key \notin new
  <2>1. key \in DOMAIN history /\ Fed(pids)[key] = history[key]
    BY <1>2 DEF Fed
  <2>2. ReadRound <= round
    BY DEF ReadRound, RateInv
  <2>3. ReadRound \in Int
    BY DEF ReadRound, RateInv
  <2>. QED BY <2>1, <2>2, <2>3 DEF RateInv, HistoryIsOwn
<1>. QED BY <1>1, <1>2

(* A rate of a row is made of its last reading and of the one just taken. *)
LEMMA NewRateIsOwn ==
  ASSUME RateInv, phase = "processes", NEW p \in Pids, NEW first,
         NewRate(p, Previous(p, first)) # None
  PROVE  LET rate == NewRate(p, Previous(p, first)) IN
         /\ rate.from.owner = <<p, born[p]>> /\ rate.to.owner = <<p, born[p]>>
         /\ rate.over = rate.to.at - rate.from.at /\ rate.over > 0
         /\ rate.from.round < rate.to.round
<1> DEFINE key == Identity(p, born[p])
           from == Previous(p, first)
<1>1. from # None /\ NewRate(p, from) = Rate(from, Reading(p, TRUE), from.at)
  BY DEF NewRate
<1>2. key \in DOMAIN history /\ from = history[key]
  BY <1>1 DEF Previous
<1>3. /\ from.owner = <<p, born[p]>> /\ from.round \in Nat /\ from.round <= round - 1
      /\ from.at \in Nat /\ now > from.at
  BY <1>1, <1>2 DEF RateInv, HistoryIsOwn, ReadRound, Identity, NewRate, Rateable, Reading
<1>. QED BY <1>1, <1>3 DEF Rate, Reading, RateInv

LEMMA FeedRowsStep ==
  ASSUME RateInv, NEW seen \in SUBSET alive, NEW pids \in SUBSET seen, NEW first \in pids,
         FeedRows(seen, pids, first)
  PROVE  RateInv'
<1>. USE DEF FeedRows, os, snapshot, gpu
<1>1. pids \subseteq Pids /\ (\A p \in pids : p \in DOMAIN rows' /\ rows'[p] = born[p])
  BY DEF RateInv
<1>2. HistoryIsOwn' /\ \A key \in DOMAIN history' : (history'[key].round \in Nat /\ history'[key].at \in Nat)
  BY <1>1, FedIsOwn DEF HistoryIsOwn, ReadRound
<1>3. ASSUME NEW p \in Pids, rates'[p] # None
      PROVE  /\ p \in DOMAIN rows' /\ rates'[p].from.owner = <<p, rows'[p]>>
             /\ rates'[p].to.owner = <<p, rows'[p]>>
             /\ rates'[p].over = rates'[p].to.at - rates'[p].from.at
             /\ rates'[p].over > 0 /\ rates'[p].from.round < rates'[p].to.round
  <2>1. p \in pids /\ rates'[p] = NewRate(p, Previous(p, first))
    BY <1>3
  <2>. QED BY <1>1, <1>3, <2>1, NewRateIsOwn
<1>4. RatesAreOwn' /\ RatesFitTheirWindow'
  BY <1>3 DEF RatesAreOwn, RatesFitTheirWindow, RateInv, Own
<1>5. GpuTimesAreOfLastSnapshot' /\ NeverPartial'
  BY DEF RateInv, GpuTimesAreOfLastSnapshot, GpuRound, NeverPartial
<1>. QED BY <1>2, <1>4, <1>5 DEF RateInv

(* Rows without a history have no rates. *)
LEMMA RowsOnlyStep ==
  ASSUME RateInv, ReadRowsOnly \/ FallBack, rates = NoRates
  PROVE  RateInv'
BY DEF RateInv, ReadRowsOnly, FallBack, PsRows, os, snapshot, gpu, NoRates, HistoryIsOwn, ReadRound,
       GpuTimesAreOfLastSnapshot, GpuRound, RatesAreOwn, RatesFitTheirWindow, NeverPartial

(* A GPU rate is made of the times of the last snapshot and of this one. *)
LEMMA NewGpuRateIsComplete ==
  ASSUME RateInv, phase = "gpu", NEW key, NEW listed,
         NewGpuRate(key, GpuTimes(listed, "complete")) # None
  PROVE  LET rate == NewGpuRate(key, GpuTimes(listed, "complete")) IN
         /\ rate.from.complete /\ rate.to.complete
         /\ rate.from.round + 1 = rate.to.round
         /\ rate.over = rate.to.at - rate.from.at /\ rate.over > 0
         /\ rate.from.round < rate.to.round
<1> DEFINE times == GpuTimes(listed, "complete")
<1>1. /\ key \in DOMAIN times /\ key \in DOMAIN gpuTimes
      /\ NewGpuRate(key, times) = Rate(gpuTimes[key], times[key], gpuAt)
  BY DEF NewGpuRate
<1>2. times[key] = Reading(key[1], TRUE)
  BY <1>1 DEF GpuTimes
<1>3. /\ gpuTimes[key].complete /\ gpuTimes[key].round = round - 1 /\ gpuTimes[key].at = gpuAt
      /\ gpuAt \in Nat /\ now > gpuAt
  BY <1>1, <1>2 DEF RateInv, GpuTimesAreOfLastSnapshot, GpuRound, NewGpuRate, Rateable, Reading
<1>. QED BY <1>1, <1>2, <1>3 DEF Rate, Reading, RateInv

LEMMA ReadGpuStep ==
  ASSUME RateInv, NEW listed, NEW coverage \in {"complete", "truncated", "unavailable"},
         ReadGpu(listed, coverage), gpuRates = NoRates
  PROVE  RateInv'
<1>. USE DEF ReadGpu, os, snapshot, processes
<1>1. HistoryIsOwn' /\ RatesAreOwn'
  BY DEF RateInv, HistoryIsOwn, ReadRound, RatesAreOwn, Own
<1>2. CASE coverage # "complete"
  BY <1>1, <1>2 DEF Complete, Empty, NoRates, RateInv, GpuTimesAreOfLastSnapshot,
                    RatesFitTheirWindow, NeverPartial
<1>3. CASE coverage = "complete"
  <2>1. gpuTimes' = GpuTimes(listed, "complete") /\ gpuAt' = now
    BY <1>3 DEF Complete, Replaced
  <2>2. GpuTimesAreOfLastSnapshot'
    BY <2>1 DEF GpuTimesAreOfLastSnapshot, GpuRound, GpuTimes, Reading, RateInv
  <2>3. ASSUME NEW p \in Pids, gpuRates'[p] # None
        PROVE  gpuRates'[p] = NewGpuRate(Identity(p, rows[p]), GpuTimes(listed, "complete"))
    BY <1>3, <2>3 DEF Complete
  <2>4. NeverPartial' /\ RatesFitTheirWindow'
    BY <2>3, NewGpuRateIsComplete DEF RateInv, NeverPartial, RatesFitTheirWindow
  <2>. QED BY <1>1, <2>2, <2>4 DEF RateInv
<1>. QED BY <1>2, <1>3

(* The columns are empty until the snapshot has read what they show. *)
ColumnsAreNew ==
  /\ phase = "processes" => rates = NoRates
  /\ phase \in {"processes", "gpu"} => gpuRates = NoRates

LEMMA InvStep ==
  ASSUME RateInv, ColumnsAreNew, [Next]_vars
  PROVE  RateInv' /\ ColumnsAreNew'
<1>. USE DEF ColumnsAreNew
<1>1. CASE Os
  <2>1. /\ UNCHANGED <<phase, round, now, rows, history, rates, gpuTimes, gpuAt, gpuRates>>
        /\ alive' \subseteq Pids
    BY <1>1 DEF Os, Work, Exit, Spawn, snapshot, processes, gpu, RateInv
  <2>. QED BY <2>1, RateInvKept DEF ReadRound, GpuRound
<1>2. ASSUME NEW enabled \in BOOLEAN, Begin(enabled)
      PROVE  RateInv' /\ ColumnsAreNew'
  BY <1>2, BeginStep DEF Begin
<1>3. CASE ReadProcesses
  BY <1>3, FeedRowsStep DEF ReadProcesses, FeedRows, gpu
<1>4. CASE ReadRowsOnly \/ FallBack
  <2>1. phase = "processes" /\ phase' = "gpu" /\ gpuRates' = gpuRates
    BY <1>4 DEF ReadRowsOnly, FallBack, PsRows, gpu
  <2>. QED BY <1>4, <2>1, RowsOnlyStep
<1>5. CASE ReadGpuTimes
  BY <1>5, ReadGpuStep DEF ReadGpuTimes, ReadGpu
<1>6. CASE StartFps \/ StopFps \/ KeepFps \/ DropCollector
  <2>1. /\ UNCHANGED <<alive, round, now, rows, history, rates, gpuTimes, gpuAt, gpuRates>>
        /\ phase \in {"fps", "idle"} /\ phase' \in {"idle", "dropped"}
    BY <1>6 DEF StartFps, StopFps, KeepFps, DropCollector, os, snapshot, processes, gpu
  <2>. QED BY <2>1, RateInvKept DEF ReadRound, GpuRound, RateInv
<1>7. CASE UNCHANGED vars
  BY <1>7, RateInvKept DEF vars, os, snapshot, processes, gpu, ReadRound, GpuRound, RateInv
<1>. QED BY <1>1, <1>2, <1>3, <1>4, <1>5, <1>6, <1>7 DEF Next, Snapshot

(* What is remembered belongs to the process and to the snapshot it is taken
   for, in every reachable state.                                           *)
THEOREM CollectorInvariant == Spec => [](RateInv /\ ColumnsAreNew)
<1>1. Init => RateInv /\ ColumnsAreNew
  BY NoRatesAtFirst DEF Init, Empty, RateInv, ColumnsAreNew, HistoryIsOwn,
                        GpuTimesAreOfLastSnapshot
<1>. QED BY <1>1, InvStep, PTL DEF Spec

(* No CPU or energy rate mixes the counters of two processes. *)
THEOREM OwnRates == Spec => []RatesAreOwn
<1>1. RateInv => RatesAreOwn
  BY DEF RateInv
<1>. QED BY <1>1, CollectorInvariant, PTL

(* Every rate is divided by the time between its two readings. *)
THEOREM WindowCorrect == Spec => []RatesFitTheirWindow
<1>1. RateInv => RatesFitTheirWindow
  BY DEF RateInv
<1>. QED BY <1>1, CollectorInvariant, PTL

(* No GPU rate is made from a partial enumeration, or across one. *)
THEOREM PartialNeverUsed == Spec => []NeverPartial
<1>1. RateInv => NeverPartial
  BY DEF RateInv
<1>. QED BY <1>1, CollectorInvariant, PTL

-----------------------------------------------------------------------------
(* The display stream *)

(* The stream is what the collector takes it for until the drop, and a
   snapshot that ends unwanted has stopped it.                              *)
StreamFollows ==
  /\ wanted \in BOOLEAN /\ running \in BOOLEAN
  /\ IF phase = "dropped" THEN ~stream ELSE stream = running
  /\ phase = "idle" /\ ~wanted => ~running

(* No stream outlives the snapshot that asks for none, nor the collector, for
   any snapshots and also if the stream could not be started.               *)
THEOREM StreamCorrect == Spec => []StreamIsWanted
<1>1. Init => StreamFollows
  BY DEF Init, StreamFollows
<1>2. StreamFollows /\ [Next]_vars => StreamFollows'
  <2>. SUFFICES ASSUME StreamFollows, [Next]_vars PROVE StreamFollows'
    OBVIOUS
  <2>. USE DEF StreamFollows, fps
  <2>1. CASE Os \/ UNCHANGED vars
    BY <2>1 DEF Os, Work, Exit, Spawn, vars
  <2>2. ASSUME NEW enabled \in BOOLEAN, Begin(enabled) PROVE StreamFollows'
    BY <2>2 DEF Begin
  <2>3. CASE ReadProcesses \/ ReadRowsOnly \/ FallBack \/ ReadGpuTimes
    <3>1. phase # "dropped" /\ phase' \in {"gpu", "fps"} /\ UNCHANGED fps
      BY <2>3 DEF ReadProcesses, FeedRows, ReadRowsOnly, FallBack, ReadGpuTimes, ReadGpu
    <3>. QED BY <3>1
  <2>4. CASE StartFps
    BY <2>4 DEF StartFps
  <2>5. CASE StopFps
    BY <2>5 DEF StopFps
  <2>6. CASE KeepFps
    <3>1. /\ phase = "fps" /\ phase' = "idle" /\ (wanted <=> running)
          /\ wanted' = wanted /\ running' = running /\ stream' = stream
      BY <2>6 DEF KeepFps
    <3>. QED BY <3>1
  <2>7. CASE DropCollector
    BY <2>7 DEF DropCollector, StreamAfterDrop
  <2>. QED BY <2>1, <2>2, <2>3, <2>4, <2>5, <2>6, <2>7 DEF Next, Snapshot
<1>3. StreamFollows => StreamIsWanted
  BY DEF StreamFollows, StreamIsWanted
<1>. QED BY <1>1, <1>2, <1>3, PTL DEF Spec

-----------------------------------------------------------------------------
(* Type correctness *)

LEMMA ReadingType ==
  ASSUME CollectorTypeOK, NEW p \in Pids, NEW complete \in BOOLEAN
  PROVE  /\ Reading(p, complete) \in Readings /\ Identity(p, born[p]) \in Ids
         /\ now \in 0 .. MaxRounds
<1>1. now \in 0 .. MaxRounds
  BY CollectorAssumption DEF CollectorTypeOK
<1>2. born[p] \in 0 .. MaxBirths
  BY CollectorAssumption DEF CollectorTypeOK
<1>. QED BY <1>1, <1>2 DEF CollectorTypeOK, Reading, Readings, Identity, Ids

LEMMA RateType ==
  ASSUME NEW from \in Readings, NEW to \in Readings, NEW since \in 0 .. MaxRounds,
         Rateable(from, to, since)
  PROVE  Rate(from, to, since) \in Rates
<1>1. to.at \in 0 .. MaxRounds
  BY DEF Readings
<1>2. to.at - since \in 1 .. MaxRounds
  BY <1>1, CollectorAssumption DEF Rateable
<1>. QED BY <1>2 DEF Rate, Rates

(* What is empty has any type. *)
LEMMA EmptyType ==
  /\ \E seen \in SUBSET Pids : Empty \in [seen -> 0 .. MaxBirths]
  /\ \E keys \in SUBSET Ids : Empty \in [keys -> Readings]
  /\ NoRates \in [Pids -> Rates \cup {None}]
<1>1. Empty \in [{} -> 0 .. MaxBirths] /\ Empty \in [{} -> Readings]
  BY DEF Empty
<1>. QED BY <1>1 DEF NoRates

LEMMA HistoryType ==
  ASSUME CollectorTypeOK, NEW pids \in SUBSET Pids
  PROVE  Fed(pids) \in [DOMAIN Fed(pids) -> Readings] /\ DOMAIN Fed(pids) \subseteq Ids
<1>1. ASSUME NEW key \in {Identity(p, born[p]) : p \in pids}
      PROVE  key \in Ids /\ (CHOOSE p \in pids : key = Identity(p, born[p])) \in Pids
  BY ReadingType
<1>2. ASSUME NEW key \in DOMAIN history
      PROVE  key \in Ids /\ history[key] \in Readings
  BY DEF CollectorTypeOK
<1>. QED BY <1>1, <1>2, ReadingType DEF Fed

LEMMA GpuTimesType ==
  ASSUME CollectorTypeOK, NEW listed \in SUBSET Pids, NEW coverage
  PROVE  /\ GpuTimes(listed, coverage) \in [DOMAIN GpuTimes(listed, coverage) -> Readings]
         /\ DOMAIN GpuTimes(listed, coverage) \subseteq Ids
<1>1. ASSUME NEW p \in listed \cap DOMAIN rows
      PROVE  /\ Identity(p, rows[p]) \in Ids
             /\ Reading(Identity(p, rows[p])[1], coverage = "complete") \in Readings
  BY ReadingType DEF CollectorTypeOK, Identity, Ids
<1>. QED BY <1>1 DEF GpuTimes

(* The types are kept: no reading is later than its snapshot, no rate is
   divided by zero or by more than the snapshots taken.                     *)
THEOREM CollectorTypeCorrect == Spec => []CollectorTypeOK
<1>1. Init => CollectorTypeOK
  <2>. SUFFICES ASSUME Init PROVE CollectorTypeOK
    OBVIOUS
  <2>1. /\ alive \subseteq Pids /\ born \in [Pids -> 1 .. MaxBirths] /\ work \in [Pids -> 0 .. MaxWork]
        /\ round \in 0 .. MaxRounds /\ now \in 0 .. round /\ gpuAt = None
    BY CollectorAssumption DEF Init
  <2>2. rows = Empty /\ history = Empty /\ gpuTimes = Empty /\ rates = NoRates /\ gpuRates = NoRates
    BY DEF Init
  <2>3. phase = "idle" /\ wanted = FALSE /\ running = FALSE /\ stream = FALSE
    BY DEF Init
  <2>. QED BY <2>1, <2>2, <2>3, EmptyType DEF CollectorTypeOK
<1>2. CollectorTypeOK /\ [Next]_vars => CollectorTypeOK'
  <2>. SUFFICES ASSUME CollectorTypeOK, [Next]_vars PROVE CollectorTypeOK'
    OBVIOUS
  <2>. USE CollectorAssumption DEF CollectorTypeOK, os, snapshot, processes, gpu, fps
  <2>1. ASSUME NEW p \in Pids, Work(p) \/ Exit(p) \/ Spawn(p) PROVE CollectorTypeOK'
    BY <2>1 DEF Work, Exit, Spawn
  <2>2. ASSUME NEW enabled \in BOOLEAN, Begin(enabled) PROVE CollectorTypeOK'
    BY <2>2, EmptyType DEF Begin
  <2>rows. ASSUME NEW seen \in SUBSET alive
           PROVE  /\ [p \in seen |-> born[p]] \in [seen -> 0 .. MaxBirths]
                  /\ [p \in seen |-> 0] \in [seen -> 0 .. MaxBirths]
    OBVIOUS
  <2>3. ASSUME NEW seen \in SUBSET alive, NEW pids \in SUBSET seen, NEW first \in pids,
               FeedRows(seen, pids, first)
        PROVE  CollectorTypeOK'
    <3>1. history' \in [DOMAIN history' -> Readings] /\ DOMAIN history' \subseteq Ids
      BY <2>3, HistoryType DEF FeedRows
    <3>2. ASSUME NEW p \in Pids
          PROVE  NewRate(p, Previous(p, first)) \in Rates \cup {None}
      <4>1. Previous(p, first) # None => Previous(p, first) \in Readings
        BY DEF Previous
      <4>2. \A from \in Readings : from.at \in 0 .. MaxRounds
        BY DEF Readings
      <4>. QED BY <4>1, <4>2, ReadingType, RateType DEF NewRate
    <3>3. rates' \in [Pids -> Rates \cup {None}]
      BY <2>3, <3>2 DEF FeedRows
    <3>4. rows' \in [seen -> 0 .. MaxBirths] /\ seen \in SUBSET Pids
      BY <2>3, <2>rows DEF FeedRows
    <3>. QED BY <2>3, <3>1, <3>3, <3>4 DEF FeedRows
  <2>4. CASE ReadRowsOnly \/ FallBack
    BY <2>4, <2>rows DEF ReadRowsOnly, FallBack, PsRows
  <2>5. ASSUME NEW coverage, NEW listed \in SUBSET alive, ReadGpu(listed, coverage)
        PROVE  CollectorTypeOK'
    <3>. DEFINE times == GpuTimes(listed, coverage)
    <3>1. times \in [DOMAIN times -> Readings] /\ DOMAIN times \subseteq Ids
      BY GpuTimesType
    <3>. HIDE DEF times
    <3>2. ASSUME NEW key PROVE NewGpuRate(key, times) \in Rates \cup {None}
      BY <3>1, RateType DEF NewGpuRate
    <3>3. CASE ~Complete(coverage)
      BY <2>5, <3>3, EmptyType DEF ReadGpu
    <3>4. CASE Complete(coverage)
      <4>1. /\ gpuTimes' = times /\ gpuAt' = now
            /\ gpuRates' = [p \in Pids |-> IF p \in DOMAIN rows
                             THEN NewGpuRate(Identity(p, rows[p]), times) ELSE None]
        BY <2>5, <3>4 DEF ReadGpu, Replaced, times
      <4>2. gpuRates' \in [Pids -> Rates \cup {None}]
        BY <4>1, <3>2
      <4>. QED BY <2>5, <3>1, <4>1, <4>2 DEF ReadGpu
    <3>. QED BY <3>3, <3>4
  <2>6. CASE StartFps \/ StopFps \/ KeepFps \/ DropCollector
    <3>1. /\ UNCHANGED <<alive, born, work, round, now, rows, history, rates,
                         gpuTimes, gpuAt, gpuRates, wanted>>
          /\ phase' \in {"idle", "dropped"}
      BY <2>6 DEF StartFps, StopFps, KeepFps, DropCollector
    <3>2. running' \in BOOLEAN
      BY <2>6 DEF StartFps, StopFps, KeepFps, DropCollector
    <3>3. stream' \in BOOLEAN
      BY <2>6 DEF StartFps, StopFps, KeepFps, DropCollector, StreamAfterDrop
    <3>. QED BY <3>1, <3>2, <3>3
  <2>7. CASE UNCHANGED vars
    BY <2>7 DEF vars
  <2>. QED BY <2>1, <2>2, <2>3, <2>4, <2>5, <2>6, <2>7
           DEF Next, Os, Snapshot, ReadProcesses, ReadGpuTimes
<1>. QED BY <1>1, <1>2, PTL DEF Spec

-------------------------------------------------------------------------------
(* What a sample makes of the channels *)

(* A bounded set of numbers has a greatest and a least one. *)
LEMMA Extremes ==
  ASSUME NEW n \in Nat, NEW S \in SUBSET (0 .. n), S # {}
  PROVE  /\ Max(S) \in S /\ \A y \in S : y <= Max(S)
         /\ Min(S) \in S /\ \A y \in S : Min(S) <= y
<1>1. S \in SUBSET Nat /\ \A x \in S : x \in 0 .. n /\ n - x \in Nat
  OBVIOUS
<1>2. \E x \in S : \A y \in S : x <= y
  BY <1>1, LeastNat
<1>3. \E x \in S : \A y \in S : x >= y
  <2>. DEFINE Gaps == {n - x : x \in S}
  <2>1. Gaps \in SUBSET Nat /\ Gaps # {}
    BY <1>1, Zenon
  <2>2. PICK gap \in Gaps : \A other \in Gaps : gap <= other
    <3>. HIDE DEF Gaps
    <3>. QED BY <2>1, LeastNat
  <2>3. PICK x \in S : gap = n - x
    OBVIOUS
  <2>4. ASSUME NEW y \in S PROVE x >= y
    <3>1. n - y \in Gaps
      OBVIOUS
    <3>2. n - x <= n - y
      <4>. HIDE DEF Gaps
      <4>. QED BY <2>2, <2>3, <3>1
    <3>. QED BY <1>1, <3>2
  <2>. QED BY <2>4
<1>4. Max(S) \in S /\ \A y \in S : Max(S) >= y
  BY <1>3, Zenon DEF Max
<1>5. Min(S) \in S /\ \A y \in S : Min(S) <= y
  BY <1>2, Zenon DEF Min
<1>. QED BY <1>1, <1>4, <1>5

(* The traffic of a machine. *)
IsTraffic(m) ==
  /\ m.kinds \subseteq TrafficKinds
  /\ m.reads \in [Dies -> Nat] /\ m.writes \in [Dies -> Nat]

LEMMA TrafficIs ==
  ASSUME NEW m, IsTraffic(m)
  PROVE  /\ \A dir \in {"read", "write", "both"} :
              /\ Traffic(m, dir) \in Nat
              /\ \A d \in Dies : OfDie(m, d, dir) \in Nat
              /\ SumFunction([d \in Dies |-> OfDie(m, d, dir)]) = Traffic(m, dir)
         /\ Moved(m) = Traffic(m, "read") + Traffic(m, "write")
         /\ Moved(m) = Traffic(m, "both")
<1>. DEFINE reads == m.reads  writes == m.writes
            both == [d \in Dies |-> reads[d] + writes[d]]
<1>1. /\ reads \in [Dies -> Nat] /\ writes \in [Dies -> Nat] /\ IsFiniteSet(Dies)
      /\ both \in [Dies -> Int] /\ \A d \in Dies : both[d] = reads[d] + writes[d] /\ both[d] \in Nat
  BY SocSampleAssumption DEF IsTraffic
<1>2. /\ Traffic(m, "read") = SumFunction(reads) /\ Traffic(m, "write") = SumFunction(writes)
      /\ Traffic(m, "both") = SumFunction(reads) + SumFunction(writes)
  BY DEF Traffic
<1>3. /\ [d \in Dies |-> OfDie(m, d, "read")] = reads
      /\ [d \in Dies |-> OfDie(m, d, "write")] = writes
      /\ [d \in Dies |-> OfDie(m, d, "both")] = both
      /\ \A d \in Dies : /\ OfDie(m, d, "read") = reads[d] /\ OfDie(m, d, "write") = writes[d]
                         /\ OfDie(m, d, "both") = both[d]
  BY <1>1 DEF OfDie
<1>. HIDE DEF reads, writes, both
<1>4. SumFunction(reads) \in Nat /\ SumFunction(writes) \in Nat
  BY <1>1, SumAtLeast
<1>5. SumFunction(both) = SumFunction(reads) + SumFunction(writes)
  <2>1. IsCombination(Dies, 1, 1, reads, writes, both)
    BY <1>1 DEF IsCombination
  <2>2. SumFunction(both) = 1 * SumFunction(reads) + 1 * SumFunction(writes)
    BY <1>1, <2>1, SumLinear
  <2>. QED BY <1>4, <2>2
<1>6. Moved(m) = SumFunction(reads) + SumFunction(writes)
  BY <1>2 DEF Moved
<1>. QED BY <1>1, <1>2, <1>3, <1>4, <1>5, <1>6

(* A bucket of the controller or of the dies counts nothing twice. *)
LEMMA BucketIs ==
  ASSUME NEW m, IsTraffic(m), NEW class \in {"exact", "partition"}, NEW dir \in {"read", "write", "both"}
  PROVE  /\ SumOf(Bucket(m, class, dir)) \in Nat
         /\ SumOf(Bucket(m, class, dir)) <= Traffic(m, dir)
         /\ \A c \in Bucket(m, class, dir) : c.value <= SumOf(Bucket(m, class, dir))
<1>. DEFINE B == Bucket(m, class, dir)  K == [class |-> class, dir |-> dir]  P == Places(K)
            own == [c \in B |-> c.on]  f == [c \in B |-> c.value]
            g == [d \in P |-> IF class = "partition" THEN OfDie(m, d, dir) ELSE Traffic(m, dir)]
<1>1. IsFiniteSet(P) /\ P = IF class = "partition" THEN Dies ELSE {"all"}
  BY SocSampleAssumption, FS_Singleton DEF Places
<1>2. ASSUME NEW c \in B
      PROVE  /\ c.on \in P /\ c = [kind |-> K, on |-> c.on, value |-> CounterOf(m, K, c.on)]
             /\ c.value = g[c.on]
  <2>1. c \in Channels(m) /\ c.value >= 0 /\ c.kind.dir = dir /\ c.kind.class = class
    BY DEF Bucket, Valid
  <2>2. PICK k \in m.kinds : \E d \in Places(k) : c = [kind |-> k, on |-> d, value |-> CounterOf(m, k, d)]
    BY <2>1 DEF Channels
  <2>3. PICK d \in Places(k) : c = [kind |-> k, on |-> d, value |-> CounterOf(m, k, d)]
    BY <2>2
  <2>4. k = [class |-> k.class, dir |-> k.dir]
    BY <2>2 DEF IsTraffic, TrafficKinds
  <2>5. k = K
    BY <2>1, <2>3, <2>4
  <2>6. c.on = d /\ c.value = CounterOf(m, K, d) /\ d \in P
    BY <2>3, <2>5
  <2>7. CounterOf(m, K, d) = g[d]
    <3>1. CounterOf(m, K, d) # Invalid
      BY <2>1, <2>6 DEF Invalid
    <3>. QED BY <2>6, <3>1 DEF CounterOf
  <2>. QED BY <2>3, <2>5, <2>6, <2>7
<1>3. g \in [P -> Nat] /\ SumFunction(g) = Traffic(m, dir)
  <2>1. CASE class = "partition"
    <3>1. g = [d \in Dies |-> OfDie(m, d, dir)]
      BY <1>1, <2>1
    <3>. QED BY <1>1, <2>1, <3>1, TrafficIs
  <2>2. CASE class # "partition"
    <3>1. g \in [{"all"} -> Nat] /\ g["all"] = Traffic(m, dir)
      BY <1>1, <2>2, TrafficIs
    <3>2. g \in [{"all"} -> Int]
      BY <3>1
    <3>. HIDE DEF g
    <3>. QED BY <1>1, <2>2, <3>1, <3>2, SumOfOne
  <2>. QED BY <2>1, <2>2
<1>. HIDE DEF B, P, g
<1>4. /\ own \in [B -> P] /\ f \in [B -> Nat]
      /\ \A c \in B : own[c] = c.on /\ f[c] = c.value /\ f[c] <= g[own[c]]
  BY <1>2, <1>3
<1>5. \A x, y \in B : own[x] = own[y] => x = y
  <2>. HIDE DEF K
  <2>1. ASSUME NEW x \in B, NEW y \in B, own[x] = own[y] PROVE x = y
    <3>1. x.on = y.on
      BY <1>4, <2>1
    <3>2. /\ x = [kind |-> K, on |-> x.on, value |-> CounterOf(m, K, x.on)]
          /\ y = [kind |-> K, on |-> y.on, value |-> CounterOf(m, K, y.on)]
      BY <1>2
    <3>. QED BY <3>1, <3>2, Zenon
  <2>. QED BY <2>1
<1>. HIDE DEF own, f
<1>6. IsFiniteSet(B)
  <2>1. own \in Injection(B, P)
    BY <1>4, <1>5 DEF Injection, IsInjective
  <2>. QED BY <1>1, <2>1, FS_Injection
<1>7. Matched(B, P, f, g, own)
  BY <1>3, <1>4, <1>5 DEF Matched
<1>8. SumFunction(f) <= SumFunction(g)
  BY <1>1, <1>6, <1>7, SumMatched
<1>9. SumFunction(f) \in Nat /\ \A c \in B : f[c] <= SumFunction(f)
  BY <1>4, <1>6, SumAtLeast
<1>10. SumOf(B) = SumFunction(f)
  BY DEF SumOf, f
<1>. QED BY <1>3, <1>4, <1>8, <1>9, <1>10 DEF B

LEMMA TrafficIsCountedOnce ==
  ASSUME NEW m, IsTraffic(m)
  PROVE  LET amc == ResolveAmc(m)
             total == amc[1] + amc[2]
         IN /\ (\E class \in {"exact", "partition"} : Directed(m, class) \/ Combined(m, class))
                 => total <= Moved(m)
            /\ m.unread = <<>> /\ {[class |-> "exact", dir |-> d] : d \in {"read", "write"}} \subseteq m.kinds
                 => total = Moved(m)
<1>. DEFINE Total(pair) == pair[1] + pair[2]
<1>1. ASSUME NEW class \in {"exact", "partition"} PROVE Total(ByDirection(m, class)) <= Moved(m)
  <2>1. /\ SumOf(Bucket(m, class, "read")) \in Nat /\ SumOf(Bucket(m, class, "write")) \in Nat
        /\ SumOf(Bucket(m, class, "read")) <= Traffic(m, "read")
        /\ SumOf(Bucket(m, class, "write")) <= Traffic(m, "write")
    BY BucketIs
  <2>2. /\ Traffic(m, "read") \in Nat /\ Traffic(m, "write") \in Nat
        /\ Moved(m) = Traffic(m, "read") + Traffic(m, "write")
    BY TrafficIs
  <2>3. Total(ByDirection(m, class)) = SumOf(Bucket(m, class, "read")) + SumOf(Bucket(m, class, "write"))
    BY DEF ByDirection
  <2>. HIDE DEF Total
  <2>. QED BY <2>1, <2>2, <2>3
<1>2. ASSUME NEW class \in {"exact", "partition"} PROVE Total(InHalves(m, class)) <= Moved(m)
  <2>1. SumOf(Bucket(m, class, "both")) \in Nat /\ SumOf(Bucket(m, class, "both")) <= Traffic(m, "both")
    BY BucketIs
  <2>2. Traffic(m, "both") \in Nat /\ Moved(m) = Traffic(m, "both")
    BY TrafficIs
  <2>3. \A both \in Nat : both \div 2 + (both - both \div 2) = both
    OBVIOUS
  <2>4. Total(InHalves(m, class)) = SumOf(Bucket(m, class, "both"))
    BY <2>1, <2>3 DEF InHalves
  <2>. HIDE DEF Total
  <2>. QED BY <2>1, <2>2, <2>4
<1>3. ASSUME NEW class \in {"exact", "partition"}, Directed(m, class) \/ Combined(m, class)
      PROVE  Total(ResolveAmc(m)) <= Moved(m)
  <2>1. ResolveAmc(m) \in {ByDirection(m, c) : c \in {"exact", "partition"}}
                            \cup {InHalves(m, c) : c \in {"exact", "partition"}}
    BY <1>3 DEF ResolveAmc
  <2>. HIDE DEF Total
  <2>. QED BY <1>1, <1>2, <2>1
<1>4. ASSUME m.unread = <<>>, {[class |-> "exact", dir |-> d] : d \in {"read", "write"}} \subseteq m.kinds
      PROVE  Total(ResolveAmc(m)) = Moved(m)
  <2>1. ASSUME NEW dir \in {"read", "write"}
        PROVE  /\ SumOf(Bucket(m, "exact", dir)) = Traffic(m, dir)
               /\ Bucket(m, "exact", dir) # {}
    <3>. DEFINE k == [class |-> "exact", dir |-> dir]
                c == [kind |-> k, on |-> "all", value |-> Traffic(m, dir)]
    <3>1. Traffic(m, dir) \in Nat
      BY TrafficIs
    <3>2. k \in m.kinds /\ k.class = "exact" /\ k.dir = dir
      BY <1>4
    <3>3. "all" \in Places(k) /\ CounterOf(m, k, "all") = Traffic(m, dir)
      BY <1>4, <3>2 DEF Places, CounterOf
    <3>4. c \in Channels(m)
      <4>1. c \in {[kind |-> k, on |-> d, value |-> CounterOf(m, k, d)] : d \in Places(k)}
        BY <3>3
      <4>. QED BY <3>2, <4>1 DEF Channels
    <3>5. c \in Bucket(m, "exact", dir) /\ c.value = Traffic(m, dir)
      BY <3>1, <3>2, <3>4 DEF Bucket, Valid
    <3>6. /\ SumOf(Bucket(m, "exact", dir)) \in Nat
          /\ SumOf(Bucket(m, "exact", dir)) <= Traffic(m, dir)
          /\ \A x \in Bucket(m, "exact", dir) : x.value <= SumOf(Bucket(m, "exact", dir))
      BY BucketIs
    <3>. HIDE DEF c, k
    <3>. QED BY <3>1, <3>5, <3>6
  <2>2. ResolveAmc(m) = ByDirection(m, "exact")
    BY <2>1 DEF ResolveAmc, Directed
  <2>3. ResolveAmc(m) = <<Traffic(m, "read"), Traffic(m, "write")>>
    BY <2>1, <2>2 DEF ByDirection
  <2>4. Moved(m) = Traffic(m, "read") + Traffic(m, "write")
    BY TrafficIs
  <2>. QED BY <2>3, <2>4
<1>. QED BY <1>3, <1>4

(* The energy of a domain's parts, and the channels it is offered in. *)
IsPower(m) ==
  /\ m.domain \in DOMAIN EnergyBuckets
  /\ IsFiniteSet(m.channels) /\ m.channels \subseteq EnergyChannels(m.domain)
  /\ m.energy \in [EnergyParts[m.domain] -> Nat]

(* Every domain has two parts; a bucket and a channel of it measure no others. *)
LEMMA DomainIs ==
  ASSUME NEW domain \in DOMAIN EnergyBuckets
  PROVE  /\ \E a, b : a # b /\ EnergyParts[domain] = {a, b}
         /\ IsFiniteSet(EnergyBuckets[domain]) /\ IsFiniteSet(EnergyChannels(domain))
         /\ \A bucket \in EnergyBuckets[domain] : Scope(domain, bucket) \subseteq EnergyParts[domain]
         /\ \A c \in EnergyChannels(domain) :
              c.bucket \in EnergyBuckets[domain] /\ c.parts \in (SUBSET Scope(domain, c.bucket)) \ {{}}
<1>. DEFINE parts == EnergyParts[domain]  buckets == EnergyBuckets[domain]
            groups == {"Model", "Counters"}
<1>1. domain \in {"cpu", "gpu", "ane", "dram"}
  BY DEF EnergyBuckets
<1>2. \E a, b : a # b /\ parts = {a, b}
  <2>1. /\ domain = "cpu" => parts = {"E", "P"}
        /\ domain = "gpu" => parts = {"core", "SRAM"}
        /\ domain = "ane" => parts = {"ane0", "ane1"}
        /\ domain = "dram" => parts = {"dram0", "dram1"}
    BY DEF EnergyParts
  <2>2. "E" # "P" /\ "core" # "SRAM" /\ "ane0" # "ane1" /\ "dram0" # "dram1"
    OBVIOUS
  <2>. HIDE DEF parts
  <2>. QED BY <1>1, <2>1, <2>2
<1>3. IsFiniteSet(buckets) /\ IsFiniteSet(parts) /\ IsFiniteSet(groups)
  <2>1. \A x, y, z : IsFiniteSet({x, y}) /\ IsFiniteSet({x, y, z})
    <3>1. \A x, y : IsFiniteSet({x, y})
      <4>. SUFFICES ASSUME NEW x, NEW y PROVE IsFiniteSet({x, y})
        OBVIOUS
      <4>1. {x, y} = {x} \cup {y} /\ IsFiniteSet({x})
        BY FS_Singleton
      <4>2. IsFiniteSet({x} \cup {y})
        BY <4>1, FS_AddElement
      <4>. QED BY <4>1, <4>2
    <3>2. ASSUME NEW x, NEW y, NEW z PROVE IsFiniteSet({x, y, z})
      <4>1. {x, y, z} = {x, y} \cup {z} /\ IsFiniteSet({x, y})
        BY <3>1
      <4>2. IsFiniteSet({x, y} \cup {z})
        BY <4>1, FS_AddElement
      <4>. QED BY <4>1, <4>2
    <3>. QED BY <3>1, <3>2
  <2>2. \E x, y, z : buckets = {x, y} \/ buckets = {x, y, z}
    <3>1. /\ domain = "cpu" => buckets = {"typed", "total"}
          /\ domain = "gpu" => buckets = {"named", "alias", "sram"}
          /\ domain \in {"ane", "dram"} => buckets = {"named", "block"}
      BY DEF EnergyBuckets
    <3>. HIDE DEF buckets
    <3>. QED BY <1>1, <3>1
  <2>3. IsFiniteSet(buckets)
    <3>1. PICK x, y, z : buckets = {x, y} \/ buckets = {x, y, z}
      BY <2>2
    <3>2. IsFiniteSet({x, y}) /\ IsFiniteSet({x, y, z})
      BY <2>1
    <3>. HIDE DEF buckets
    <3>. QED BY <3>1, <3>2, Zenon
  <2>4. IsFiniteSet(parts)
    <3>1. PICK a, b : a # b /\ parts = {a, b}
      BY <1>2
    <3>2. IsFiniteSet({a, b})
      BY <2>1
    <3>. HIDE DEF parts
    <3>. QED BY <3>1, <3>2, Zenon
  <2>. QED BY <2>1, <2>3, <2>4
<1>4. ASSUME NEW bucket \in buckets PROVE Scope(domain, bucket) \subseteq parts
  BY <1>1 DEF Scope, EnergyBuckets, EnergyParts
<1>5. ASSUME NEW c \in EnergyChannels(domain)
      PROVE  /\ c.bucket \in buckets /\ c.parts \in (SUBSET Scope(domain, c.bucket)) \ {{}}
             /\ c.group \in groups /\ c = [bucket |-> c.bucket, parts |-> c.parts, group |-> c.group]
  <2>1. PICK b \in buckets : c \in [bucket : {b}, parts : Measurable(domain, b), group : groups]
    BY DEF EnergyChannels
  <2>2. c.bucket = b /\ c.parts \in Measurable(domain, b)
    BY <2>1
  <2>3. c.parts \in (SUBSET Scope(domain, b)) \ {{}}
    BY <2>2 DEF Measurable
  <2>. QED BY <2>1, <2>2, <2>3
<1>6. IsFiniteSet(EnergyChannels(domain))
  <2>. DEFINE box == (buckets \X SUBSET parts) \X groups
              f == [t \in box |-> [bucket |-> t[1][1], parts |-> t[1][2], group |-> t[2]]]
              image == {f[t] : t \in box}
  <2>1. IsFiniteSet(box)
    <3>1. IsFiniteSet(SUBSET parts)
      BY <1>3, FS_SUBSET
    <3>2. IsFiniteSet(buckets \X SUBSET parts)
      BY <1>3, <3>1, FS_Product
    <3>. QED BY <1>3, <3>2, FS_Product
  <2>2. IsFiniteSet(image)
    <3>1. DOMAIN f = box
      OBVIOUS
    <3>. HIDE DEF f, box
    <3>. QED BY <2>1, <3>1, Image
  <2>3. EnergyChannels(domain) \subseteq image
    <3>. SUFFICES ASSUME NEW c \in EnergyChannels(domain) PROVE c \in image
      OBVIOUS
    <3>. DEFINE t == <<<<c.bucket, c.parts>>, c.group>>
    <3>1. t \in box
      BY <1>4, <1>5
    <3>2. f[t] = c
      <4>1. f[t] = [bucket |-> c.bucket, parts |-> c.parts, group |-> c.group]
        BY <3>1
      <4>. QED BY <4>1, <1>5
    <3>. QED BY <3>1, <3>2
  <2>. QED BY <2>2, <2>3, FS_Subset
<1>. QED BY <1>2, <1>3, <1>4, <1>5, <1>6

(* The sum of a bucket is what the parts used, each as often as it is named. *)
TwoParts(m, a, b) == IsPower(m) /\ EnergyParts[m.domain] = {a, b} /\ a # b

LEMMA WattsAre ==
  ASSUME NEW m, NEW a, NEW b, TwoParts(m, a, b), NEW bucket \in EnergyBuckets[m.domain]
  PROVE  LET x == m.energy[a]  y == m.energy[b]
             i == Named(m, bucket, a)  j == Named(m, bucket, b)
         IN /\ x \in Nat /\ y \in Nat /\ i \in Nat /\ j \in Nat
            /\ i <= Cardinality(m.channels) /\ j <= Cardinality(m.channels)
            /\ Watts(m, bucket) \in Int /\ Watts(m, bucket) <= x * i + y * j
            /\ m.unread = {} => Watts(m, bucket) = x * i + y * j
            /\ InBucket(m, bucket) = {} => Watts(m, bucket) = 0
            /\ \A p \in {a, b} \ Scope(m.domain, bucket) : Named(m, bucket, p) = 0
<1>. DEFINE e == m.energy  x == e[a]  y == e[b]  B == InBucket(m, bucket)
            A1 == {c \in B : a \in c.parts}  B1 == {c \in B : b \in c.parts}
            first == [c \in B |-> IF c \in A1 THEN 1 ELSE 0]
            second == [c \in B |-> IF c \in B1 THEN 1 ELSE 0]
            all == [c \in B |-> SumFunction([p \in c.parts |-> e[p]])]
            read == [c \in B |-> ChannelValue(m, c)]
<1>0. /\ IsPower(m) /\ EnergyParts[m.domain] = {a, b} /\ a # b
      /\ e \in [{a, b} -> Nat] /\ x \in Nat /\ y \in Nat /\ e \in [{a, b} -> Int]
  BY DEF TwoParts, IsPower
<1>1. IsFiniteSet(B) /\ B \subseteq m.channels
  BY <1>0, FS_Subset DEF IsPower, InBucket
<1>2. ASSUME NEW c \in B
      PROVE  /\ c.parts \subseteq Scope(m.domain, bucket) /\ c.parts \subseteq {a, b} /\ c.parts # {}
  <2>1. c \in EnergyChannels(m.domain) /\ c.bucket = bucket /\ m.domain \in DOMAIN EnergyBuckets
    BY <1>0 DEF IsPower, InBucket
  <2>2. c.parts \in (SUBSET Scope(m.domain, bucket)) \ {{}}
    BY <2>1, DomainIs
  <2>3. Scope(m.domain, bucket) \subseteq {a, b}
    BY <1>0, <2>1, DomainIs
  <2>. QED BY <2>2, <2>3
<1>3. ASSUME NEW c \in B
      PROVE  /\ all[c] = x * first[c] + y * second[c] /\ all[c] \in Nat
             /\ read[c] \in Int /\ read[c] <= all[c] /\ (m.unread = {} => read[c] = all[c])
  <2>. DEFINE g == [p \in c.parts |-> e[p]]
  <2>0. all[c] = SumFunction(g)
    OBVIOUS
  <2>1. c.parts = {a} \/ c.parts = {b} \/ c.parts = {a, b}
    BY <1>2
  <2>2. all[c] = (IF a \in c.parts THEN x ELSE 0) + (IF b \in c.parts THEN y ELSE 0)
    <3>1. CASE c.parts = {a}
      <4>1. g \in [{a} -> Int] /\ g[a] = x /\ b \notin c.parts
        BY <1>0, <3>1
      <4>. HIDE DEF g, all, x, y
      <4>. QED BY <1>0, <2>0, <3>1, <4>1, SumOfOne
    <3>2. CASE c.parts = {b}
      <4>1. g \in [{b} -> Int] /\ g[b] = y /\ a \notin c.parts
        BY <1>0, <3>2
      <4>. HIDE DEF g, all, x, y
      <4>. QED BY <1>0, <2>0, <3>2, <4>1, SumOfOne
    <3>3. CASE c.parts = {a, b}
      <4>1. g \in [{a, b} -> Int] /\ g[a] = x /\ g[b] = y
        BY <1>0, <3>3
      <4>2. SumFunction(g) = g[a] + g[b]
        <5>. HIDE DEF g
        <5>. QED BY <1>0, <4>1, SumOfTwo
      <4>. HIDE DEF g, all, x, y
      <4>. QED BY <2>0, <3>3, <4>1, <4>2
    <3>. QED BY <2>1, <3>1, <3>2, <3>3
  <2>3. /\ first[c] = IF a \in c.parts THEN 1 ELSE 0
        /\ second[c] = IF b \in c.parts THEN 1 ELSE 0
    OBVIOUS
  <2>4. all[c] = x * first[c] + y * second[c] /\ all[c] \in Nat
    <3>. HIDE DEF all, first, second, x, y
    <3>. QED BY <1>0, <2>2, <2>3
  <2>5. read[c] = IF c \in m.unread THEN Invalid ELSE all[c]
    BY DEF ChannelValue
  <2>6. read[c] \in Int /\ read[c] <= all[c] /\ (m.unread = {} => read[c] = all[c])
    <3>. HIDE DEF all, read
    <3>. QED BY <2>4, <2>5 DEF Invalid
  <2>. QED BY <2>4, <2>6
<1>4. /\ first \in [B -> Int] /\ second \in [B -> Int]
      /\ all \in [B -> Int] /\ read \in [B -> Int]
  <2>1. first \in [B -> Int] /\ second \in [B -> Int]
    OBVIOUS
  <2>2. \A c \in B : all[c] \in Int /\ read[c] \in Int
    BY <1>3
  <2>3. all = [c \in B |-> all[c]] /\ read = [c \in B |-> read[c]]
    OBVIOUS
  <2>. HIDE DEF all, read
  <2>. QED BY <2>1, <2>2, <2>3
<1>5. A1 \in SUBSET B /\ B1 \in SUBSET B
  OBVIOUS
<1>6. /\ SumFunction(first) = Cardinality(A1) /\ SumFunction(second) = Cardinality(B1)
      /\ Cardinality(A1) \in Nat /\ Cardinality(A1) <= Cardinality(m.channels)
      /\ Cardinality(B1) \in Nat /\ Cardinality(B1) <= Cardinality(m.channels)
  <2>1. /\ IsFiniteSet(m.channels) /\ A1 \subseteq m.channels /\ B1 \subseteq m.channels
    BY <1>0, <1>1 DEF IsPower
  <2>2. SumFunction(first) = Cardinality(A1)
    <3>. HIDE DEF A1, B
    <3>. QED BY <1>1, <1>5, SumCounts
  <2>3. SumFunction(second) = Cardinality(B1)
    <3>. HIDE DEF B1, B
    <3>. QED BY <1>1, <1>5, SumCounts
  <2>. HIDE DEF A1, B1
  <2>. QED BY <2>1, <2>2, <2>3, FS_Subset, FS_CardinalityType
<1>7. SumFunction(all) = x * Cardinality(A1) + y * Cardinality(B1) /\ SumFunction(all) \in Int
  <2>1. IsCombination(B, x, y, first, second, all)
    <3>1. \A c \in B : all[c] = x * first[c] + y * second[c]
      BY <1>3
    <3>. HIDE DEF B, first, second, all, x, y
    <3>. QED BY <1>0, <1>4, <3>1 DEF IsCombination
  <2>. HIDE DEF B, first, second, all, x, y
  <2>. QED BY <1>1, <1>6, <2>1, SumLinear
<1>8. SumFunction(read) \in Int /\ SumFunction(read) <= SumFunction(all)
  <2>1. \A c \in B : read[c] - all[c] <= all[c] - all[c]
    <3>. SUFFICES ASSUME NEW c \in B PROVE read[c] - all[c] <= all[c] - all[c]
      OBVIOUS
    <3>1. read[c] \in Int /\ all[c] \in Nat /\ read[c] <= all[c]
      BY <1>3
    <3>. HIDE DEF read, all, B
    <3>. QED BY <3>1
  <2>. HIDE DEF B, read, all
  <2>2. /\ SumFunction(read) - SumFunction(all) <= SumFunction(all) - SumFunction(all)
        /\ SumFunction(read) \in Int
    BY <1>1, <1>4, <2>1, SumGap
  <2>. QED BY <1>7, <2>2
<1>9. ASSUME m.unread = {} PROVE SumFunction(read) = SumFunction(all)
  <2>1. read = all
    <3>1. \A c \in B : read[c] = all[c]
      BY <1>3, <1>9
    <3>2. DOMAIN read = B /\ DOMAIN all = B
      OBVIOUS
    <3>. HIDE DEF read, all, B
    <3>. QED BY <1>4, <3>1, <3>2
  <2>. HIDE DEF read, all
  <2>. QED BY <2>1
<1>10. ASSUME B = {} PROVE SumFunction(read) = 0
  <2>1. DOMAIN read = {}
    BY <1>10
  <2>. HIDE DEF read
  <2>. QED BY <2>1, SumOfNone
<1>11. \A p \in {a, b} \ Scope(m.domain, bucket) : Named(m, bucket, p) = 0
  <2>. SUFFICES ASSUME NEW p \in {a, b}, p \notin Scope(m.domain, bucket)
                PROVE  Named(m, bucket, p) = 0
    OBVIOUS
  <2>1. {c \in B : p \in c.parts} = {}
    BY <1>2
  <2>2. Named(m, bucket, p) = Cardinality({c \in B : p \in c.parts})
    BY DEF Named
  <2>. QED BY <2>1, <2>2, FS_EmptySet
<1>12. /\ Named(m, bucket, a) = Cardinality(A1) /\ Named(m, bucket, b) = Cardinality(B1)
       /\ Watts(m, bucket) = SumFunction(read)
  BY DEF Named, Watts
<1>. HIDE DEF A1, B1, read, all, e, B
<1>. QED BY <1>0, <1>6, <1>7, <1>8, <1>9, <1>10, <1>11, <1>12 DEF e, B

(* The sum of a bucket, next to what the domain used and may be shown at most. *)
Bound(m) == SumFunction([p \in EnergyParts[m.domain] |-> MostNamed(m, p) * m.energy[p]])

Offered(m) == {b \in EnergyBuckets[m.domain] : InBucket(m, b) # {}}

Whole(m) ==
  /\ m.unread = {} /\ \A b \in Offered(m) : NamesEachOnce(m, b)
  /\ EnergyParts[m.domain] = UNION {Scope(m.domain, b) : b \in Offered(m)}

LEMMA BucketsAre ==
  ASSUME NEW m, NEW a, NEW b, TwoParts(m, a, b)
  PROVE  LET x == m.energy[a]  y == m.energy[b]
             i == MostNamed(m, a) * x  j == MostNamed(m, b) * y
         IN /\ x \in Nat /\ y \in Nat /\ i \in Nat /\ j \in Nat
            /\ Used(m) = x + y /\ Bound(m) = i + j
            /\ \A bucket \in EnergyBuckets[m.domain] :
                 LET w == Watts(m, bucket)  scope == Scope(m.domain, bucket)
                 IN /\ w \in Int /\ w <= (IF a \in scope THEN i ELSE 0) + (IF b \in scope THEN j ELSE 0)
                    /\ bucket \notin Offered(m) => w = 0
                    /\ bucket \in Offered(m) /\ Whole(m) =>
                         w = (IF a \in scope THEN x ELSE 0) + (IF b \in scope THEN y ELSE 0)
<1>. DEFINE e == m.energy  x == e[a]  y == e[b]  buckets == EnergyBuckets[m.domain]
            n == Cardinality(m.channels)
            N(p) == {Named(m, bk, p) : bk \in buckets}
<1>0. /\ IsPower(m) /\ EnergyParts[m.domain] = {a, b} /\ a # b /\ m.domain \in DOMAIN EnergyBuckets
      /\ e \in [{a, b} -> Nat] /\ x \in Nat /\ y \in Nat /\ n \in Nat
  BY FS_CardinalityType DEF TwoParts, IsPower
<1>1. buckets # {}
  BY <1>0 DEF EnergyBuckets
<1>2. ASSUME NEW bk \in buckets
      PROVE  /\ Named(m, bk, a) \in 0 .. n /\ Named(m, bk, b) \in 0 .. n
             /\ Watts(m, bk) \in Int /\ Watts(m, bk) <= x * Named(m, bk, a) + y * Named(m, bk, b)
             /\ m.unread = {} => Watts(m, bk) = x * Named(m, bk, a) + y * Named(m, bk, b)
             /\ InBucket(m, bk) = {} => Watts(m, bk) = 0
             /\ a \notin Scope(m.domain, bk) => Named(m, bk, a) = 0
             /\ b \notin Scope(m.domain, bk) => Named(m, bk, b) = 0
  <2>1. /\ Named(m, bk, a) \in Nat /\ Named(m, bk, b) \in Nat
        /\ Named(m, bk, a) <= n /\ Named(m, bk, b) <= n
    BY WattsAre
  <2>2. /\ Watts(m, bk) \in Int /\ Watts(m, bk) <= x * Named(m, bk, a) + y * Named(m, bk, b)
        /\ m.unread = {} => Watts(m, bk) = x * Named(m, bk, a) + y * Named(m, bk, b)
        /\ InBucket(m, bk) = {} => Watts(m, bk) = 0
    BY WattsAre
  <2>3. \A p \in {a, b} \ Scope(m.domain, bk) : Named(m, bk, p) = 0
    BY WattsAre
  <2>4. /\ a \notin Scope(m.domain, bk) => Named(m, bk, a) = 0
        /\ b \notin Scope(m.domain, bk) => Named(m, bk, b) = 0
    BY <2>3
  <2>5. Named(m, bk, a) \in 0 .. n /\ Named(m, bk, b) \in 0 .. n
    BY <1>0, <2>1
  <2>. QED BY <2>2, <2>4, <2>5
<1>3. ASSUME NEW p \in {a, b}
      PROVE  /\ MostNamed(m, p) \in Nat
             /\ \A bk \in buckets : Named(m, bk, p) \in Nat /\ Named(m, bk, p) <= MostNamed(m, p)
  <2>1. N(p) \in SUBSET (0 .. n) /\ N(p) # {}
    BY <1>1, <1>2
  <2>2. MostNamed(m, p) = Max(N(p))
    BY DEF MostNamed
  <2>3. Max(N(p)) \in N(p) /\ \A k \in N(p) : k <= Max(N(p))
    <3>. HIDE DEF N
    <3>. QED BY <1>0, <2>1, Extremes
  <2>4. \A bk \in buckets : Named(m, bk, p) \in N(p)
    OBVIOUS
  <2>. HIDE DEF N
  <2>. QED BY <1>0, <2>1, <2>2, <2>3, <2>4
<1>. DEFINE u == MostNamed(m, a)  v == MostNamed(m, b)  i == u * x  j == v * y
<1>4. /\ u \in Nat /\ v \in Nat
      /\ \A bk \in buckets : Named(m, bk, a) \in 0 .. u /\ Named(m, bk, b) \in 0 .. v
  BY <1>3
<1>5. \A k, l, z \in Nat : k * z \in Nat /\ z * k = k * z /\ (k <= l => k * z <= l * z)
  <2>. SUFFICES ASSUME NEW k \in Nat, NEW l \in Nat, NEW z \in Nat
                PROVE  k * z \in Nat /\ z * k = k * z /\ (k <= l => k * z <= l * z)
    OBVIOUS
  <2>1. ASSUME k <= l PROVE k * z <= l * z
    <3>1. (l - k) * z >= 0 /\ (l - k) * z = l * z - k * z
      BY <2>1
    <3>. QED BY <3>1
  <2>. QED BY <2>1
<1>6. i \in Nat /\ j \in Nat
  <2>. HIDE DEF u, v, x, y
  <2>. QED BY <1>0, <1>4, <1>5
<1>7. Used(m) = x + y
  <2>1. e \in [{a, b} -> Int]
    BY <1>0
  <2>2. SumFunction(e) = x + y
    <3>. HIDE DEF e
    <3>. QED BY <1>0, <2>1, SumOfTwo DEF x, y
  <2>. QED BY <2>2 DEF Used
<1>8. Bound(m) = i + j
  <2>. DEFINE g == [p \in EnergyParts[m.domain] |-> MostNamed(m, p) * m.energy[p]]
  <2>1. g[a] = i /\ g[b] = j /\ g \in [{a, b} -> Int]
    <3>1. g[a] = i /\ g[b] = j /\ DOMAIN g = {a, b} /\ g = [p \in {a, b} |-> g[p]]
      BY <1>0
    <3>. HIDE DEF g, i, j
    <3>. QED BY <1>6, <3>1
  <2>2. SumFunction(g) = g[a] + g[b]
    <3>. HIDE DEF g
    <3>. QED BY <1>0, <2>1, SumOfTwo
  <2>3. Bound(m) = SumFunction(g)
    BY DEF Bound
  <2>. HIDE DEF g, i, j
  <2>. QED BY <2>1, <2>2, <2>3
<1>9. ASSUME NEW bk \in buckets
      PROVE  LET w == Watts(m, bk)  scope == Scope(m.domain, bk)
             IN /\ w \in Int /\ w <= (IF a \in scope THEN i ELSE 0) + (IF b \in scope THEN j ELSE 0)
                /\ bk \notin Offered(m) => w = 0
                /\ bk \in Offered(m) /\ Whole(m) =>
                     w = (IF a \in scope THEN x ELSE 0) + (IF b \in scope THEN y ELSE 0)
  <2>. DEFINE k == Named(m, bk, a)  l == Named(m, bk, b)  w == Watts(m, bk)
              scope == Scope(m.domain, bk)
  <2>1. /\ k \in 0 .. u /\ l \in 0 .. v /\ k \in Nat /\ l \in Nat
        /\ w \in Int /\ w <= x * k + y * l /\ (m.unread = {} => w = x * k + y * l)
        /\ (InBucket(m, bk) = {} => w = 0)
        /\ (a \notin scope => k = 0) /\ (b \notin scope => l = 0)
    <3>1. k \in 0 .. u /\ l \in 0 .. v /\ k \in Nat /\ l \in Nat
      <4>1. k \in 0 .. u /\ l \in 0 .. v
        BY <1>4
      <4>. HIDE DEF k, l, u, v
      <4>. QED BY <1>4, <4>1
    <3>. QED BY <1>2, <3>1
  <2>2. x * k <= i /\ y * l <= j /\ x * k \in Nat /\ y * l \in Nat
    <3>1. k * x <= u * x /\ k * x \in Nat /\ x * k = k * x
      <4>. HIDE DEF k, u, x
      <4>. QED BY <1>0, <1>4, <1>5, <2>1
    <3>2. l * y <= v * y /\ l * y \in Nat /\ y * l = l * y
      <4>. HIDE DEF l, v, y
      <4>. QED BY <1>0, <1>4, <1>5, <2>1
    <3>. QED BY <3>1, <3>2
  <2>3. /\ a \notin scope => x * k = 0
        /\ b \notin scope => y * l = 0
    <3>. HIDE DEF k, l, x, y, scope
    <3>. QED BY <1>0, <2>1
  <2>4. bk \notin Offered(m) => w = 0
    BY <2>1 DEF Offered
  <2>5. ASSUME bk \in Offered(m), Whole(m)
        PROVE  w = (IF a \in scope THEN x ELSE 0) + (IF b \in scope THEN y ELSE 0)
    <3>1. w = x * k + y * l
      BY <2>1, <2>5 DEF Whole
    <3>2. (a \in scope => k = 1) /\ (b \in scope => l = 1)
      BY <2>5 DEF Whole, NamesEachOnce
    <3>3. x * k = (IF a \in scope THEN x ELSE 0) /\ y * l = (IF b \in scope THEN y ELSE 0)
      <4>. HIDE DEF k, l, x, y, scope
      <4>. QED BY <1>0, <2>1, <3>2
    <3>. QED BY <3>1, <3>3
  <2>6. w <= (IF a \in scope THEN i ELSE 0) + (IF b \in scope THEN j ELSE 0)
    <3>. DEFINE p == x * k  q == y * l
    <3>1. p <= i /\ q <= j /\ p \in Nat /\ q \in Nat /\ w \in Int /\ w <= p + q
          /\ (a \notin scope => p = 0) /\ (b \notin scope => q = 0)
      BY <2>1, <2>2, <2>3
    <3>. HIDE DEF p, q, i, j, w, scope
    <3>. QED BY <1>6, <3>1
  <2>. QED BY <2>1, <2>4, <2>5, <2>6
<1>. HIDE DEF i, j
<1>. QED BY <1>0, <1>6, <1>7, <1>8, <1>9 DEF i, j

(* Of two sums that measure the same, either is shown. *)
LEMMA Preferred ==
  ASSUME NEW first \in Int, NEW second \in Int, NEW most \in Nat, first <= most, second <= most
  PROVE  Prefer(first, second) \in Int /\ Prefer(first, second) <= most
BY DEF Prefer

LEMMA PowerIsCountedOnce ==
  ASSUME NEW m, IsPower(m)
  PROVE  LET watts == Field(m, Power(m))
         IN watts <= Bound(m) /\ (Whole(m) => watts = Used(m))
<1>. DEFINE W(bucket) == Watts(m, bucket)
<1>1. m.domain \in {"cpu", "gpu", "ane", "dram"} /\ m.domain \in DOMAIN EnergyBuckets
  BY DEF IsPower, EnergyBuckets
<1>2. Whole(m) => Offered(m) # {} /\ m.channels # {}
  <2>1. EnergyParts[m.domain] # {}
    BY <1>1, DomainIs
  <2>. QED BY <2>1 DEF Whole, Offered, InBucket
<1>3. /\ Bound(m) \in Nat /\ Used(m) \in Nat
      /\ Power(m) \in Int /\ Power(m) <= Bound(m) /\ (Whole(m) => Power(m) = Used(m))
  <2>1. ASSUME NEW first, NEW second, EnergyBuckets[m.domain] = {first, second}, m.domain # "gpu",
               Power(m) = Prefer(W(first), W(second))
        PROVE  /\ Bound(m) \in Nat /\ Used(m) \in Nat
               /\ Power(m) \in Int /\ Power(m) <= Bound(m) /\ (Whole(m) => Power(m) = Used(m))
    <3>1. PICK a, b : a # b /\ EnergyParts[m.domain] = {a, b}
      BY <1>1, DomainIs
    <3>2. TwoParts(m, a, b)
      BY <3>1 DEF TwoParts
    <3>3. \A bk \in {first, second} : Scope(m.domain, bk) = {a, b}
      <4>1. \A bk \in {first, second} : bk # "sram"
        BY <1>1, <2>1 DEF EnergyBuckets
      <4>. QED BY <2>1, <3>1, <4>1 DEF Scope
    <3>. DEFINE x == m.energy[a]  y == m.energy[b]
                i == MostNamed(m, a) * x  j == MostNamed(m, b) * y
    <3>4. /\ x \in Nat /\ y \in Nat /\ i \in Nat /\ j \in Nat
          /\ Used(m) = x + y /\ Bound(m) = i + j
      BY <3>2, BucketsAre
    <3>5. ASSUME NEW bk \in {first, second}
          PROVE  /\ W(bk) \in Int /\ W(bk) <= i + j
                 /\ bk \notin Offered(m) => W(bk) = 0
                 /\ bk \in Offered(m) /\ Whole(m) => W(bk) = x + y
      <4>1. bk \in EnergyBuckets[m.domain] /\ a \in Scope(m.domain, bk) /\ b \in Scope(m.domain, bk)
        BY <2>1, <3>3
      <4>2. /\ W(bk) \in Int
            /\ W(bk) <= (IF a \in Scope(m.domain, bk) THEN i ELSE 0) + (IF b \in Scope(m.domain, bk) THEN j ELSE 0)
            /\ bk \notin Offered(m) => W(bk) = 0
            /\ bk \in Offered(m) /\ Whole(m) =>
                 W(bk) = (IF a \in Scope(m.domain, bk) THEN x ELSE 0) + (IF b \in Scope(m.domain, bk) THEN y ELSE 0)
        BY <3>2, <4>1, BucketsAre
      <4>. HIDE DEF i, j, x, y, W
      <4>. QED BY <3>4, <4>1, <4>2
    <3>6. Whole(m) => first \in Offered(m) \/ second \in Offered(m)
      BY <1>2, <2>1 DEF Offered
    <3>7. W(first) \in Int /\ W(second) \in Int /\ W(first) <= i + j /\ W(second) <= i + j
      BY <3>5
    <3>8. Power(m) \in Int /\ Power(m) <= Bound(m)
      <4>. HIDE DEF i, j, x, y, W
      <4>. QED BY <2>1, <3>4, <3>7 DEF Prefer
    <3>9. ASSUME Whole(m) PROVE Power(m) = x + y
      <4>1. /\ W(first) = x + y \/ (W(first) = 0 /\ first \notin Offered(m))
            /\ W(second) = x + y \/ (W(second) = 0 /\ second \notin Offered(m))
        BY <3>5, <3>9
      <4>. HIDE DEF i, j, x, y, W
      <4>. QED BY <2>1, <3>4, <3>6, <3>9, <4>1 DEF Prefer
    <3>. HIDE DEF i, j, x, y, W
    <3>. QED BY <3>4, <3>8, <3>9
  <2>2. CASE m.domain = "gpu"
    <3>. DEFINE a == "core"  b == "SRAM"  x == m.energy[a]  y == m.energy[b]
                i == MostNamed(m, a) * x  j == MostNamed(m, b) * y
    <3>1. /\ EnergyParts[m.domain] = {a, b} /\ a # b
          /\ EnergyBuckets[m.domain] = {"named", "alias", "sram"}
      BY <2>2 DEF EnergyParts, EnergyBuckets
    <3>2. /\ Scope(m.domain, "named") = {a} /\ Scope(m.domain, "alias") = {a}
          /\ Scope(m.domain, "sram") = {b}
      BY <2>2 DEF Scope
    <3>3. TwoParts(m, a, b)
      BY <3>1 DEF TwoParts
    <3>4. /\ x \in Nat /\ y \in Nat /\ i \in Nat /\ j \in Nat
          /\ Used(m) = x + y /\ Bound(m) = i + j
      BY <3>3, BucketsAre
    <3>5. ASSUME NEW bk \in {"named", "alias", "sram"}
          PROVE  /\ W(bk) \in Int
                 /\ W(bk) <= (IF a \in Scope(m.domain, bk) THEN i ELSE 0) + (IF b \in Scope(m.domain, bk) THEN j ELSE 0)
                 /\ bk \notin Offered(m) => W(bk) = 0
                 /\ bk \in Offered(m) /\ Whole(m) =>
                      W(bk) = (IF a \in Scope(m.domain, bk) THEN x ELSE 0) + (IF b \in Scope(m.domain, bk) THEN y ELSE 0)
      BY <3>1, <3>3, BucketsAre
    <3>6. /\ \A bk \in {"named", "alias"} :
               /\ W(bk) \in Int /\ W(bk) <= i
               /\ bk \notin Offered(m) => W(bk) = 0
               /\ bk \in Offered(m) /\ Whole(m) => W(bk) = x
          /\ W("sram") \in Int /\ W("sram") <= j
          /\ "sram" \in Offered(m) /\ Whole(m) => W("sram") = y
      <4>1. ASSUME NEW bk \in {"named", "alias"}
            PROVE  /\ W(bk) \in Int /\ W(bk) <= i
                   /\ bk \notin Offered(m) => W(bk) = 0
                   /\ bk \in Offered(m) /\ Whole(m) => W(bk) = x
        <5>1. a \in Scope(m.domain, bk) /\ b \notin Scope(m.domain, bk)
          BY <3>2
        <5>2. /\ W(bk) \in Int
              /\ W(bk) <= (IF a \in Scope(m.domain, bk) THEN i ELSE 0) + (IF b \in Scope(m.domain, bk) THEN j ELSE 0)
              /\ bk \notin Offered(m) => W(bk) = 0
              /\ bk \in Offered(m) /\ Whole(m) =>
                   W(bk) = (IF a \in Scope(m.domain, bk) THEN x ELSE 0) + (IF b \in Scope(m.domain, bk) THEN y ELSE 0)
          BY <3>5
        <5>. HIDE DEF a, b, i, j, x, y, W
        <5>. QED BY <3>4, <5>1, <5>2
      <4>2. /\ W("sram") \in Int /\ W("sram") <= j
            /\ "sram" \in Offered(m) /\ Whole(m) => W("sram") = y
        <5>1. a \notin Scope(m.domain, "sram") /\ b \in Scope(m.domain, "sram")
          BY <3>2
        <5>. DEFINE bk == "sram"
        <5>2. /\ W(bk) \in Int
              /\ W(bk) <= (IF a \in Scope(m.domain, bk) THEN i ELSE 0) + (IF b \in Scope(m.domain, bk) THEN j ELSE 0)
              /\ bk \in Offered(m) /\ Whole(m) =>
                   W(bk) = (IF a \in Scope(m.domain, bk) THEN x ELSE 0) + (IF b \in Scope(m.domain, bk) THEN y ELSE 0)
          BY <3>5
        <5>. HIDE DEF a, b, i, j, x, y, W
        <5>. QED BY <3>4, <5>1, <5>2
      <4>. QED BY <4>1, <4>2
    <3>7. Whole(m) => /\ "sram" \in Offered(m)
                      /\ "named" \in Offered(m) \/ "alias" \in Offered(m)
      <4>. SUFFICES ASSUME Whole(m) PROVE /\ "sram" \in Offered(m)
                                          /\ "named" \in Offered(m) \/ "alias" \in Offered(m)
        OBVIOUS
      <4>1. \A p \in {a, b} : \E bk \in Offered(m) : p \in Scope(m.domain, bk)
        BY <3>1 DEF Whole
      <4>2. Offered(m) \subseteq {"named", "alias", "sram"}
        BY <3>1 DEF Offered
      <4>. QED BY <3>1, <3>2, <4>1, <4>2
    <3>8. Power(m) = Prefer(W("named"), W("alias")) + W("sram")
      BY <2>2 DEF Power
    <3>9. Prefer(W("named"), W("alias")) \in Int /\ Prefer(W("named"), W("alias")) <= i
      <4>. HIDE DEF i, W
      <4>. QED BY <3>4, <3>6, Preferred
    <3>10. ASSUME Whole(m) PROVE Prefer(W("named"), W("alias")) = x /\ W("sram") = y
      <4>1. /\ W("named") = x \/ (W("named") = 0 /\ "named" \notin Offered(m))
            /\ W("alias") = x \/ (W("alias") = 0 /\ "alias" \notin Offered(m))
        BY <3>6, <3>10
      <4>2. W("sram") = y
        BY <3>6, <3>7, <3>10
      <4>. HIDE DEF x, y, W
      <4>. QED BY <3>4, <3>7, <3>10, <4>1, <4>2 DEF Prefer
    <3>11. W("sram") \in Int /\ W("sram") <= j
      BY <3>6
    <3>. DEFINE p == Prefer(W("named"), W("alias"))
    <3>. HIDE DEF p, i, j, x, y, W
    <3>. QED BY <3>4, <3>8, <3>9, <3>10, <3>11 DEF p
  <2>3. CASE m.domain = "cpu"
    <3>1. EnergyBuckets[m.domain] = {"total", "typed"} /\ m.domain # "gpu"
      BY <2>3 DEF EnergyBuckets
    <3>2. Power(m) = Prefer(W("total"), W("typed"))
      BY <2>3 DEF Power
    <3>. QED BY <2>1, <3>1, <3>2
  <2>4. CASE m.domain \in {"ane", "dram"}
    <3>1. EnergyBuckets[m.domain] = {"named", "block"} /\ m.domain # "gpu"
      BY <2>4 DEF EnergyBuckets
    <3>2. Power(m) = Prefer(W("named"), W("block"))
      BY <2>4 DEF Power
    <3>. QED BY <2>1, <3>1, <3>2
  <2>. QED BY <1>1, <2>2, <2>3, <2>4
<1>. QED BY <1>2, <1>3 DEF Field, Missing

(* A machine with performance states. *)
HasStates(m) ==
  m.what \in {"clusters", "gpu"} /\ m.table \in Tables /\ m.states \in [States -> StateNames]

LEMMA FrequencyIs ==
  ASSUME NEW m, HasStates(m)
  PROVE  /\ Working(m) \subseteq States /\ IsFiniteSet(States) /\ IsFiniteSet(Working(m))
         /\ \A s \in Working(m) : Frequency(m, s) \in 0 .. 30
         /\ m.what = "gpu" /\ m.table = <<>> => \A s \in Working(m) : Frequency(m, s) = 0
<1>1. IsFiniteSet(States) /\ Working(m) \subseteq States /\ IsFiniteSet(Working(m))
  <2>1. IsFiniteSet(1..3)
    BY FirstNumbers
  <2>2. Working(m) \subseteq States
    BY DEF Working
  <2>. QED BY <2>1, <2>2, FS_Subset DEF States
<1>2. \A place \in 1 .. Len(m.table) : m.table[place] \in 0 .. 30
  <2>1. m.table = <<>> \/ m.table = <<6>> \/ m.table = <<6, 30>>
    BY DEF HasStates, Tables
  <2>2. CASE m.table = <<>>
    <3>1. Len(m.table) = 0 /\ 1 .. 0 = {}
      BY <2>2
    <3>. QED BY <3>1
  <2>3. CASE m.table = <<6>>
    <3>1. Len(<<6>>) = 1 /\ \A place \in 1 .. 1 : place = 1
      OBVIOUS
    <3>. QED BY <2>3, <3>1
  <2>4. CASE m.table = <<6, 30>>
    <3>1. Len(<<6, 30>>) = 2 /\ \A place \in 1 .. 2 : place = 1 \/ place = 2
      OBVIOUS
    <3>. QED BY <2>4, <3>1
  <2>. QED BY <2>1, <2>2, <2>3, <2>4
<1>3. Len(m.table) \in Nat /\ (m.table = <<>> => Len(m.table) = 0)
  BY DEF HasStates, Tables
<1>4. ASSUME NEW s \in Working(m)
      PROVE  /\ PlacedFrequency(m, s) \in 0 .. 30
             /\ m.table = <<>> => PlacedFrequency(m, s) = 0
  <2>. DEFINE T == {t \in Working(m) : t <= s}  place == Cardinality(T)
  <2>1. IsFiniteSet(T) /\ s \in T
    <3>1. T \subseteq Working(m) /\ s \in Nat
      BY <1>1 DEF States
    <3>. QED BY <1>1, <3>1, FS_Subset
  <2>2. place \in Nat /\ place # 0
    <3>. HIDE DEF T
    <3>. QED BY <2>1, FS_CardinalityType, FS_EmptySet
  <2>3. PlacedFrequency(m, s) = IF place <= Len(m.table) THEN m.table[place] ELSE 0
    BY DEF PlacedFrequency
  <2>. HIDE DEF place
  <2>. QED BY <1>2, <1>3, <2>2, <2>3
<1>5. ASSUME NEW s \in Working(m) PROVE NamedFrequency(m, s) \in 0 .. 30
  <2>1. m.states[s] \in StateNames
    BY <1>1 DEF HasStates
  <2>2. m.states[s].number \in 0 .. 7
    BY <2>1 DEF StateNames
  <2>3. CASE m.states[s].kind = "indexed" /\ m.states[s].number < Len(m.table)
    <3>1. m.states[s].number + 1 \in 1 .. Len(m.table)
      <4>. DEFINE number == m.states[s].number  size == Len(m.table)
      <4>1. number \in 0 .. 7 /\ number < size /\ size \in Nat
        BY <1>3, <2>2, <2>3
      <4>. HIDE DEF number, size
      <4>2. number + 1 \in 1 .. size
        BY <4>1
      <4>. QED BY <4>2 DEF number, size
    <3>2. NamedFrequency(m, s) = m.table[m.states[s].number + 1]
      BY <2>3 DEF NamedFrequency
    <3>. QED BY <1>2, <3>1, <3>2
  <2>4. CASE ~(m.states[s].kind = "indexed" /\ m.states[s].number < Len(m.table))
    <3>1. NamedFrequency(m, s) = m.states[s].number
      BY <2>4 DEF NamedFrequency
    <3>. QED BY <2>2, <3>1
  <2>. QED BY <2>3, <2>4
<1>. QED BY <1>1, <1>4, <1>5 DEF Frequency

(* The times of a cluster or channel make a share of at most all of them, and *)
(* an average within the frequencies of the states that it worked in.         *)
TimesWithin(m, times, lo, hi) ==
  /\ HasStates(m) /\ times \in [States -> Nat] /\ lo \in Nat /\ hi \in Nat
  /\ \A s \in Working(m) : times[s] > 0 => lo <= Frequency(m, s) /\ Frequency(m, s) <= hi

LEMMA TimesAre ==
  ASSUME NEW m, NEW times, NEW lo, NEW hi, TimesWithin(m, times, lo, hi)
  PROVE  LET a == Active(m, times)  w == Weighted(m, times)
         IN /\ a \in Nat /\ w \in Nat /\ Spent(times) \in Nat
            /\ lo * a <= w /\ w <= hi * a
            /\ a > 0 <=> \E s \in Working(m) : times[s] > 0
            /\ Spent(times) > 0 => ShareOf(m, times) \in 0 .. 100 /\ (a = 0 => ShareOf(m, times) = 0)
            /\ Average(m, times) \in Nat /\ (a = 0 => Average(m, times) = 0)
            /\ a > 0 => Average(m, times) \in lo .. hi
<1>. DEFINE W == Working(m)  t == [s \in W |-> times[s]]  f == [s \in W |-> Frequency(m, s)]
            a == Active(m, times)  w == Weighted(m, times)  spent == Spent(times)
<1>1. /\ HasStates(m) /\ times \in [States -> Nat] /\ lo \in Nat /\ hi \in Nat
      /\ W \subseteq States /\ IsFiniteSet(States) /\ IsFiniteSet(W)
      /\ t \in [W -> Nat] /\ f \in [W -> Nat]
  <2>1. HasStates(m) /\ times \in [States -> Nat] /\ lo \in Nat /\ hi \in Nat
    BY DEF TimesWithin
  <2>2. W \subseteq States /\ IsFiniteSet(States) /\ IsFiniteSet(W)
        /\ \A s \in W : Frequency(m, s) \in 0 .. 30
    BY <2>1, FrequencyIs
  <2>3. \A s \in W : Frequency(m, s) \in Nat
    BY <2>2
  <2>. HIDE DEF W
  <2>. QED BY <2>1, <2>2, <2>3
<1>2. a = SumFunction(t) /\ spent = SumFunction(times)
  BY DEF Active, Spent
<1>3. w = SumFunction([s \in W |-> f[s] * t[s]])
  <2>1. [s \in W |-> f[s] * t[s]] = [s \in W |-> Frequency(m, s) * times[s]]
    OBVIOUS
  <2>. QED BY <2>1 DEF Weighted
<1>4. a \in Nat /\ spent \in Nat /\ \A s \in W : t[s] <= a
  <2>. HIDE DEF a, spent, t, W
  <2>. QED BY <1>1, <1>2, SumAtLeast
<1>5. a <= spent
  <2>1. PartSum(times, W) = a
    BY DEF PartSum, Active
  <2>2. PartSum(times, W) <= SumFunction(times)
    <3>. HIDE DEF W
    <3>. QED BY <1>1, PartsGrow
  <2>. QED BY <1>2, <2>1, <2>2
<1>6. w \in Nat /\ lo * a <= w /\ w <= hi * a
  <2>1. Weighed(W, t, f, lo, hi)
    <3>1. \A s \in W : t[s] > 0 => lo <= f[s] /\ f[s] <= hi
      BY DEF TimesWithin
    <3>. HIDE DEF W, t, f
    <3>. QED BY <1>1, <3>1 DEF Weighed
  <2>. HIDE DEF W, t, f, a, w
  <2>. QED BY <1>2, <1>3, <2>1, SumWeighted
<1>7. ASSUME a > 0 PROVE \E s \in W : times[s] > 0
  <2>. SUFFICES ASSUME \A s \in W : ~(times[s] > 0) PROVE FALSE
    OBVIOUS
  <2>1. \A s \in W : t[s] = 0
    <3>1. \A s \in W : times[s] \in Nat
      BY <1>1
    <3>. QED BY <3>1
  <2>2. Within(W, t, 0, 0)
    <3>. HIDE DEF W, t
    <3>. QED BY <1>1, <2>1 DEF Within
  <2>3. SumFunction(t) <= 0 * Cardinality(W) /\ Cardinality(W) \in Nat
    <3>. HIDE DEF W, t
    <3>. QED BY <1>1, <2>2, SumBounds, FS_CardinalityType
  <2>4. SumFunction(t) <= 0
    <3>. DEFINE n == Cardinality(W)
    <3>1. n \in Nat => 0 * n = 0
      OBVIOUS
    <3>. HIDE DEF W, t
    <3>. QED BY <2>3, <3>1
  <2>. HIDE DEF a, t
  <2>. QED BY <1>2, <1>4, <1>7, <2>4
<1>8. ASSUME NEW s \in W, times[s] > 0 PROVE a > 0
  <2>1. t[s] <= a /\ t[s] = times[s] /\ times[s] \in Nat
    BY <1>1, <1>4
  <2>. HIDE DEF a, t
  <2>. QED BY <1>4, <1>8, <2>1
<1>9. ASSUME spent > 0
      PROVE  ShareOf(m, times) \in 0 .. 100 /\ (a = 0 => ShareOf(m, times) = 0)
  <2>1. ShareOf(m, times) = (100 * a) \div spent
    BY DEF ShareOf
  <2>. HIDE DEF a, spent
  <2>2. 100 * a \in Nat /\ 0 * spent <= 100 * a /\ 100 * a <= 100 * spent
    BY <1>4, <1>5
  <2>3. (100 * a) \div spent \in 0 .. 100
    BY <1>4, <1>9, <2>2, Divided
  <2>4. ASSUME a = 0 PROVE (100 * a) \div spent = 0
    <3>1. \A k \in Nat \ {0} : 0 \div k = 0
      <4>1. ASSUME NEW k \in Nat \ {0} PROVE 0 \div k = 0
        <5>1. 0 * k <= 0
          OBVIOUS
        <5>2. 0 \div k \in 0 .. 0
          BY <5>1, Divided
        <5>. QED BY <5>2
      <4>. QED BY <4>1
    <3>2. 100 * a = 0
      BY <2>4
    <3>. QED BY <1>4, <1>9, <3>1, <3>2
  <2>. QED BY <2>1, <2>3, <2>4
<1>10. /\ Average(m, times) \in Nat /\ (a = 0 => Average(m, times) = 0)
       /\ a > 0 => Average(m, times) \in lo .. hi
  <2>1. Average(m, times) = IF a = 0 THEN 0 ELSE w \div a
    BY DEF Average
  <2>. HIDE DEF a, w
  <2>2. ASSUME a > 0 PROVE w \div a \in lo .. hi
    BY <1>1, <1>4, <1>6, <2>2, Divided
  <2>. QED BY <1>1, <1>4, <2>1, <2>2
<1>. HIDE DEF W, t, a, w, spent
<1>. QED BY <1>4, <1>6, <1>7, <1>8, <1>9, <1>10 DEF W, a, w, spent

(* What the states that a machine worked in say of each of its times. *)
HasTimes(m) == HasStates(m) /\ \A d \in DOMAIN m.times : m.times[d] \in [States -> Nat]

LEMMA WorkedAtIs ==
  ASSUME NEW m, HasTimes(m)
  PROVE  /\ WorkedAt(m) \in SUBSET (0 .. 30)
         /\ WorkedAt(m) = {} => \A d \in DOMAIN m.times :
              TimesWithin(m, m.times[d], 0, 0) /\ Active(m, m.times[d]) = 0
         /\ WorkedAt(m) # {} =>
              /\ Min(WorkedAt(m)) \in WorkedAt(m) /\ Max(WorkedAt(m)) \in WorkedAt(m)
              /\ \E d \in DOMAIN m.times : Active(m, m.times[d]) > 0
              /\ \A d \in DOMAIN m.times :
                   TimesWithin(m, m.times[d], Min(WorkedAt(m)), Max(WorkedAt(m)))
<1>. DEFINE F == WorkedAt(m)
<1>1. /\ HasStates(m) /\ \A d \in DOMAIN m.times : m.times[d] \in [States -> Nat]
      /\ \A s \in Working(m) : Frequency(m, s) \in 0 .. 30
  BY FrequencyIs DEF HasTimes
<1>2. F \in SUBSET (0 .. 30)
  BY <1>1 DEF WorkedAt
<1>3. \A d \in DOMAIN m.times : \A s \in Working(m) : m.times[d][s] > 0 => Frequency(m, s) \in F
  BY DEF WorkedAt
<1>4. ASSUME F = {}, NEW d \in DOMAIN m.times
      PROVE  TimesWithin(m, m.times[d], 0, 0) /\ Active(m, m.times[d]) = 0
  <2>1. \A s \in Working(m) : ~(m.times[d][s] > 0)
    BY <1>3, <1>4
  <2>2. TimesWithin(m, m.times[d], 0, 0)
    BY <1>1, <2>1 DEF TimesWithin
  <2>3. /\ Active(m, m.times[d]) \in Nat
        /\ Active(m, m.times[d]) > 0 <=> \E s \in Working(m) : m.times[d][s] > 0
    BY <2>2, TimesAre
  <2>. QED BY <2>1, <2>2, <2>3
<1>5. ASSUME F # {}
      PROVE  /\ Min(F) \in F /\ Max(F) \in F
             /\ \E d \in DOMAIN m.times : Active(m, m.times[d]) > 0
             /\ \A d \in DOMAIN m.times : TimesWithin(m, m.times[d], Min(F), Max(F))
  <2>1. /\ Max(F) \in F /\ \A y \in F : y <= Max(F)
        /\ Min(F) \in F /\ \A y \in F : Min(F) <= y
    <3>. HIDE DEF F
    <3>. QED BY <1>2, <1>5, Extremes
  <2>2. Min(F) \in Nat /\ Max(F) \in Nat
    <3>1. \A k \in F : k \in Nat
      BY <1>2
    <3>. HIDE DEF F
    <3>. QED BY <2>1, <3>1
  <2>3. ASSUME NEW d \in DOMAIN m.times PROVE TimesWithin(m, m.times[d], Min(F), Max(F))
    <3>. HIDE DEF F
    <3>. QED BY <1>1, <1>3, <2>1, <2>2 DEF TimesWithin
  <2>4. PICK s \in Working(m), d \in DOMAIN m.times : m.times[d][s] > 0
    BY <1>5 DEF WorkedAt
  <2>5. Active(m, m.times[d]) > 0
    <3>. HIDE DEF F
    <3>. QED BY <2>3, <2>4, TimesAre
  <2>. HIDE DEF F
  <2>. QED BY <2>1, <2>3, <2>5
<1>. QED BY <1>2, <1>4, <1>5

LEMMA ClustersAreReal ==
  ASSUME NEW m, HasTimes(m), DOMAIN m.times = Dies
  PROVE  LET cluster == Cluster(m)
         IN cluster # NoCluster =>
              /\ cluster.active \in 0 .. 100
              /\ IF WorkedAt(m) = {}
                   THEN cluster.active = 0 /\ cluster.freq = 0
                   ELSE cluster.freq \in Min(WorkedAt(m)) .. Max(WorkedAt(m))
<1>. DEFINE F == WorkedAt(m)  seen == {d \in Dies : Spent(m.times[d]) > 0}
            Shares == {ShareOf(m, m.times[d]) : d \in seen}
            Freqs == {Average(m, m.times[d]) : d \in seen}
            lo == IF F = {} THEN 0 ELSE Min(F)  hi == IF F = {} THEN 0 ELSE Max(F)
<1>1. SUFFICES ASSUME seen # {}
               PROVE  /\ Max(Shares) \in 0 .. 100
                      /\ IF F = {} THEN Max(Shares) = 0 /\ Max(Freqs) = 0
                         ELSE Max(Freqs) \in lo .. hi
  BY DEF Cluster, NoCluster
<1>2. lo \in 0 .. 30 /\ hi \in 0 .. 30 /\ \A d \in Dies : TimesWithin(m, m.times[d], lo, hi)
  <2>1. CASE F = {}
    <3>1. lo = 0 /\ hi = 0
      BY <2>1
    <3>2. \A d \in Dies : TimesWithin(m, m.times[d], 0, 0)
      BY <2>1, WorkedAtIs
    <3>. HIDE DEF lo, hi, F
    <3>. QED BY <3>1, <3>2
  <2>2. CASE F # {}
    <3>1. lo = Min(F) /\ hi = Max(F)
      BY <2>2
    <3>2. /\ F \in SUBSET (0 .. 30) /\ Min(F) \in F /\ Max(F) \in F
          /\ \A d \in Dies : TimesWithin(m, m.times[d], Min(F), Max(F))
      BY <2>2, WorkedAtIs
    <3>. HIDE DEF lo, hi, F
    <3>. QED BY <3>1, <3>2
  <2>. QED BY <2>1, <2>2
<1>3. ASSUME NEW d \in seen
      PROVE  /\ ShareOf(m, m.times[d]) \in 0 .. 100
             /\ Average(m, m.times[d]) \in {0} \cup lo .. hi
             /\ Active(m, m.times[d]) > 0 => Average(m, m.times[d]) \in lo .. hi
             /\ Active(m, m.times[d]) = 0 => ShareOf(m, m.times[d]) = 0
  <2>. DEFINE times == m.times[d]
  <2>1. TimesWithin(m, times, lo, hi) /\ Spent(times) > 0
    BY <1>2
  <2>. HIDE DEF times, lo, hi
  <2>2. /\ Active(m, times) \in Nat
        /\ ShareOf(m, times) \in 0 .. 100 /\ (Active(m, times) = 0 => ShareOf(m, times) = 0)
        /\ Active(m, times) = 0 => Average(m, times) = 0
        /\ Active(m, times) > 0 => Average(m, times) \in lo .. hi
    BY <2>1, TimesAre
  <2>. QED BY <2>2 DEF times
<1>4. /\ Shares \in SUBSET (0 .. 100) /\ Shares # {}
      /\ Freqs \in SUBSET (0 .. 30) /\ Freqs # {}
  <2>1. \A d \in seen : Average(m, m.times[d]) \in 0 .. 30
    <3>. SUFFICES ASSUME NEW d \in seen PROVE Average(m, m.times[d]) \in 0 .. 30
      OBVIOUS
    <3>. DEFINE average == Average(m, m.times[d])
    <3>1. average \in {0} \cup lo .. hi
      BY <1>3
    <3>. HIDE DEF average, lo, hi
    <3>2. average \in 0 .. 30
      BY <1>2, <3>1
    <3>. QED BY <3>2 DEF average
  <2>2. \A d \in seen : ShareOf(m, m.times[d]) \in 0 .. 100
    BY <1>3
  <2>. HIDE DEF seen
  <2>. QED BY <1>1, <2>1, <2>2
<1>5. /\ Max(Shares) \in Shares /\ Max(Shares) \in 0 .. 100
      /\ Max(Freqs) \in Freqs /\ \A f \in Freqs : f <= Max(Freqs)
  <2>. HIDE DEF Shares, Freqs
  <2>1. Max(Shares) \in Shares
    BY <1>4, Extremes
  <2>2. Max(Freqs) \in Freqs /\ \A f \in Freqs : f <= Max(Freqs)
    BY <1>4, Extremes
  <2>. QED BY <1>4, <2>1, <2>2
<1>6. ASSUME F = {} PROVE Max(Shares) = 0 /\ Max(Freqs) = 0
  <2>1. \A d \in seen : Active(m, m.times[d]) = 0
    BY <1>6, WorkedAtIs
  <2>2. \A d \in seen : ShareOf(m, m.times[d]) = 0
    BY <1>3, <2>1
  <2>3. \A d \in seen : Average(m, m.times[d]) = 0
    BY <2>1 DEF Average
  <2>4. Shares \subseteq {0} /\ Freqs \subseteq {0}
    <3>. HIDE DEF seen
    <3>. QED BY <2>2, <2>3
  <2>. HIDE DEF Shares, Freqs
  <2>. QED BY <1>5, <2>4
<1>7. ASSUME F # {} PROVE Max(Freqs) \in lo .. hi
  <2>1. PICK d \in Dies : Active(m, m.times[d]) > 0
    BY <1>7, WorkedAtIs
  <2>2. d \in seen
    <3>1. /\ Active(m, m.times[d]) <= Spent(m.times[d]) /\ Spent(m.times[d]) \in Nat
          /\ Active(m, m.times[d]) \in Nat
      <4>. DEFINE W == Working(m)  times == m.times[d]
      <4>1. /\ times \in [States -> Nat] /\ IsFiniteSet(States) /\ W \in SUBSET States
        BY FrequencyIs DEF HasTimes
      <4>2. PartSum(times, W) <= SumFunction(times)
        <5>. HIDE DEF times, W
        <5>. QED BY <4>1, PartsGrow
      <4>3. PartSum(times, W) = Active(m, m.times[d]) /\ SumFunction(times) = Spent(m.times[d])
        BY DEF PartSum, Active, Spent
      <4>4. Spent(m.times[d]) \in Nat /\ Active(m, m.times[d]) \in Nat
        BY <1>2, TimesAre
      <4>. HIDE DEF times, W
      <4>. QED BY <4>2, <4>3, <4>4
    <3>. QED BY <2>1, <3>1
  <2>3. Average(m, m.times[d]) \in lo .. hi /\ Average(m, m.times[d]) \in Freqs
    BY <1>3, <2>1, <2>2
  <2>4. PICK most \in seen : Max(Freqs) = Average(m, m.times[most])
    BY <1>5
  <2>5. Max(Freqs) \in {0} \cup lo .. hi
    BY <1>3, <2>4
  <2>. DEFINE average == Average(m, m.times[d])
  <2>6. average \in lo .. hi /\ average <= Max(Freqs)
    BY <1>5, <2>3
  <2>. HIDE DEF average, lo, hi, Freqs
  <2>. QED BY <1>2, <2>5, <2>6
<1>. HIDE DEF F, Shares, Freqs, lo, hi
<1>. QED BY <1>5, <1>6, <1>7

LEMMA GpuIsShown ==
  ASSUME NEW m, HasTimes(m), m.what = "gpu", NEW n \in Nat, DOMAIN m.times = 1 .. n
  PROVE  LET freq == Gpu(m).freq
         IN /\ Gpu(m).share \in {Missing} \cup 0 .. 100
            /\ freq # NoFrequency =>
                 /\ WorkedAt(m) # {}
                 /\ Min(WorkedAt(m)) * freq.time <= freq.sum
                 /\ freq.sum <= Max(WorkedAt(m)) * freq.time
            /\ WorkedAt(m) # {} /\ 0 \notin WorkedAt(m) => freq # NoFrequency
<1>. DEFINE F == WorkedAt(m)  seen == {c \in DOMAIN m.times : Spent(m.times[c]) > 0}
            worked == {c \in DOMAIN m.times : Active(m, m.times[c]) > 0}
            last == m.times[Max(worked)]  whole == [sum |-> Weighted(m, last), time |-> Active(m, last)]
<1>1. /\ Gpu(m).share = IF seen = {} THEN Missing ELSE ShareOf(m, m.times[Max(seen)])
      /\ Gpu(m).freq = IF worked = {} \/ m.table = <<>> THEN NoFrequency ELSE ShownFrequency(whole)
  BY DEF Gpu
<1>2. seen \in SUBSET (0 .. n) /\ worked \in SUBSET (0 .. n)
  OBVIOUS
<1>3. (seen # {} => Max(seen) \in seen) /\ (worked # {} => Max(worked) \in worked)
  <2>. HIDE DEF seen, worked
  <2>. QED BY <1>2, Extremes
<1>4. Gpu(m).share \in {Missing} \cup 0 .. 100
  <2>1. ASSUME seen # {} PROVE ShareOf(m, m.times[Max(seen)]) \in 0 .. 100
    <3>. DEFINE c == Max(seen)  times == m.times[c]
    <3>1. c \in DOMAIN m.times /\ Spent(times) > 0
      BY <1>3, <2>1
    <3>2. \E lo, hi : TimesWithin(m, times, lo, hi)
      <4>. HIDE DEF c, seen
      <4>. QED BY <3>1, WorkedAtIs
    <3>. HIDE DEF times
    <3>3. ShareOf(m, times) \in 0 .. 100
      <4>1. PICK lo, hi : TimesWithin(m, times, lo, hi)
        BY <3>2
      <4>. HIDE DEF c
      <4>. QED BY <3>1, <4>1, TimesAre
    <3>. QED BY <3>3 DEF times
  <2>. HIDE DEF seen
  <2>. QED BY <1>1, <2>1
<1>5. ASSUME worked # {}
      PROVE  /\ F # {} /\ TimesWithin(m, last, Min(F), Max(F)) /\ Active(m, last) > 0
             /\ Min(F) \in F /\ F \in SUBSET (0 .. 30)
  <2>1. Max(worked) \in DOMAIN m.times /\ Active(m, last) > 0
    BY <1>3, <1>5
  <2>2. F # {}
    <3>. HIDE DEF worked
    <3>. QED BY <2>1, WorkedAtIs
  <2>. HIDE DEF worked, F
  <2>. QED BY <2>1, <2>2, WorkedAtIs DEF F
<1>6. ASSUME worked # {}
      PROVE  /\ Active(m, last) \in Nat /\ Weighted(m, last) \in Nat /\ Active(m, last) > 0
             /\ Min(F) * Active(m, last) <= Weighted(m, last)
             /\ Weighted(m, last) <= Max(F) * Active(m, last)
  <2>. HIDE DEF worked, F, last
  <2>. QED BY <1>5, <1>6, TimesAre
<1>7. ASSUME Gpu(m).freq # NoFrequency
      PROVE  /\ F # {} /\ Min(F) * Gpu(m).freq.time <= Gpu(m).freq.sum
             /\ Gpu(m).freq.sum <= Max(F) * Gpu(m).freq.time
  <2>1. worked # {} /\ Gpu(m).freq = ShownFrequency(whole)
    <3>. HIDE DEF worked, whole
    <3>. QED BY <1>1, <1>7
  <2>2. Gpu(m).freq = whole
    <3>. HIDE DEF worked, whole
    <3>. QED BY <1>7, <2>1 DEF ShownFrequency
  <2>3. Gpu(m).freq.time = Active(m, last) /\ Gpu(m).freq.sum = Weighted(m, last)
    BY <2>2
  <2>. HIDE DEF worked, whole, F, last
  <2>. QED BY <1>5, <1>6, <2>1, <2>3
<1>8. ASSUME F # {}, 0 \notin F PROVE Gpu(m).freq # NoFrequency
  <2>1. worked # {}
    BY <1>8, WorkedAtIs
  <2>2. m.table # <<>>
    <3>1. ASSUME m.table = <<>> PROVE FALSE
      <4>1. \A s \in Working(m) : Frequency(m, s) = 0
        BY <3>1, FrequencyIs DEF HasTimes
      <4>2. F \subseteq {0}
        BY <4>1 DEF WorkedAt
      <4>. QED BY <1>8, <4>2
    <3>. QED BY <3>1
  <2>3. Weighted(m, last) > 0
    <3>1. Min(F) \in Nat \ {0}
      <4>1. Min(F) \in F /\ F \in SUBSET (0 .. 30) /\ 0 \notin F
        BY <1>5, <1>8, <2>1
      <4>. DEFINE k == Min(F)
      <4>2. k \in 0 .. 30 /\ k # 0
        <5>1. k \in F /\ F \subseteq 0 .. 30 /\ 0 \notin F
          BY <4>1
        <5>. HIDE DEF k, F
        <5>. QED BY <5>1
      <4>. HIDE DEF k
      <4>3. k \in Nat \ {0}
        BY <4>2
      <4>. QED BY <4>3 DEF k
    <3>. DEFINE k == Min(F)  a == Active(m, last)  w == Weighted(m, last)
    <3>2. k * a <= w /\ a \in Nat /\ a > 0 /\ w \in Nat
      BY <1>6, <2>1
    <3>3. \A i, j \in Nat : i > 0 /\ j > 0 => i * j > 0
      OBVIOUS
    <3>4. k \in Nat /\ k > 0
      BY <3>1
    <3>. HIDE DEF k, a, w
    <3>5. k * a > 0 /\ k * a \in Nat
      BY <3>2, <3>3, <3>4
    <3>6. w > 0
      BY <3>2, <3>5
    <3>. QED BY <3>6 DEF w
  <2>4. Gpu(m).freq = whole /\ whole.sum > 0
    <3>1. whole.sum > 0
      BY <2>3
    <3>. HIDE DEF worked, whole
    <3>. QED BY <1>1, <2>1, <2>2, <3>1 DEF ShownFrequency
  <2>. HIDE DEF whole
  <2>. QED BY <2>4 DEF NoFrequency
<1>. HIDE DEF F
<1>. QED BY <1>4, <1>7, <1>8 DEF F

(* The mean of sensors that work is between their bounds. *)
LEMMA AverageIs ==
  ASSUME NEW sensors \in [1..2 -> Reads]
  PROVE  Average10(sensors) \in {0} \cup 11..199
<1>. DEFINE ok == {s \in DOMAIN sensors : sensors[s] > 10 /\ sensors[s] < 200}
            f == [s \in ok |-> sensors[s]]  k == Cardinality(ok)
<1>1. \A s \in 1..2 : sensors[s] \in Nat
  BY DEF Reads
<1>2. CASE ok = {}
  BY <1>2 DEF Average10
<1>3. CASE ok # {}
  <2>1. IsFiniteSet(ok) /\ k \in Nat /\ k <= 2
    <3>1. IsFiniteSet(1..2) /\ Cardinality(1..2) = 2
      BY FirstNumbers
    <3>. DEFINE two == 1..2
    <3>2. ok \in SUBSET two /\ IsFiniteSet(two) /\ Cardinality(two) = 2
      BY <3>1
    <3>. HIDE DEF ok, two
    <3>3. IsFiniteSet(ok) /\ Cardinality(ok) <= Cardinality(two)
      BY <3>2, FS_Subset
    <3>. QED BY <3>2, <3>3, FS_CardinalityType
  <2>2. k # 0
    <3>. HIDE DEF ok
    <3>. QED BY <1>3, <2>1, FS_EmptySet
  <2>3. Within(ok, f, 11, 199)
    BY <1>1, <2>1 DEF Within
  <2>4. Average10(sensors) = SumFunction(f) \div k
    BY <1>3 DEF Average10
  <2>. HIDE DEF f, k
  <2>5. SumFunction(f) \in Int /\ 11 * k <= SumFunction(f) /\ SumFunction(f) <= 199 * k
    <3>. HIDE DEF ok
    <3>. QED BY <2>3, SumBounds DEF k
  <2>6. k = 1 \/ k = 2
    BY <2>1, <2>2
  <2>7. SumFunction(f) \div k \in 11..199
    BY <2>5, <2>6
  <2>. QED BY <2>4, <2>7
<1>. QED BY <1>2, <1>3

LEMMA TemperaturesAreBounded ==
  ASSUME NEW c \in {0} \cup 11..199, NEW g \in {0} \cup 11..199, NEW s \in {0} \cup 11..199
  PROVE  LET soc == AboveZero(IF s > 0 THEN s ELSE Hotter(c, g))
         IN /\ {AboveZero(c), AboveZero(g), soc} \subseteq {Missing} \cup 11..199
            /\ soc = Missing => AboveZero(c) = Missing /\ AboveZero(g) = Missing
BY DEF AboveZero, Hotter, Missing

(* The sensors of a machine, and what each of them is. *)
LEMMA SensorsAre ==
  ASSUME NEW m, m.keys \in [1..2 -> AllKeys], m.reads \in [1..2 -> Reads]
  PROVE  /\ IsFiniteSet(Sensors(m))
         /\ \A r \in Sensors(m) :
              /\ r.group \in Range(GroupOrder) /\ r.celsius \in 1..199
              /\ r.group \in {"cpu_p", "cpu_e", "cpu_die", "gpu"} => r.celsius > 10
<1>. DEFINE Warm == {s \in Slots(m) : m.reads[s] > 0}
            Row == [s \in Warm |-> [group |-> SensorGroupForKey(m.keys[s]), sensor |-> s,
                                   celsius |-> m.reads[s]]]
<1>1. Sensors(m) = {Row[s] : s \in Warm}
  BY DEF Sensors
<1>2. IsFiniteSet(Sensors(m))
  <2>1. Warm \in SUBSET (1..2)
    BY DEF Slots
  <2>2. IsFiniteSet(Warm)
    <3>1. IsFiniteSet(1..2)
      BY FirstNumbers
    <3>. HIDE DEF Warm
    <3>. QED BY <2>1, <3>1, FS_Subset
  <2>3. DOMAIN Row = Warm
    OBVIOUS
  <2>. HIDE DEF Warm, Row
  <2>. QED BY <1>1, <2>2, <2>3, Image
<1>3. ASSUME NEW key
      PROVE  /\ SensorGroupForKey(key) \in DOMAIN SensorKeys \cup {"other"}
             /\ SensorGroupForKey(key) \in {"cpu_p", "cpu_e", "cpu_die", "gpu"} => key \in Silicon
  <2>1. CASE \E g \in DOMAIN SensorKeys : key \in SensorKeys[g]
    <3>1. SensorGroupForKey(key) \in DOMAIN SensorKeys /\ key \in SensorKeys[SensorGroupForKey(key)]
      <4>. DEFINE G == DOMAIN SensorKeys
      <4>1. SensorGroupForKey(key) = CHOOSE g \in G : key \in SensorKeys[g]
        BY <2>1 DEF SensorGroupForKey
      <4>. HIDE DEF G
      <4>2. \E g \in G : key \in SensorKeys[g]
        BY <2>1 DEF G
      <4>3. SensorGroupForKey(key) \in G /\ key \in SensorKeys[SensorGroupForKey(key)]
        BY <4>1, <4>2, Zenon
      <4>. QED BY <4>3 DEF G
    <3>. QED BY <3>1 DEF Silicon
  <2>2. CASE ~\E g \in DOMAIN SensorKeys : key \in SensorKeys[g]
    BY <2>2 DEF SensorGroupForKey
  <2>. QED BY <2>1, <2>2
<1>4. DOMAIN SensorKeys \cup {"other"} \subseteq Range(GroupOrder)
  <2>1. DOMAIN SensorKeys = {"cpu_p", "cpu_e", "cpu_die", "gpu", "soc", "memory", "ssd", "ambient",
                             "board", "vrm", "display", "wireless"}
    BY DEF SensorKeys
  <2>2. /\ DOMAIN GroupOrder = 1..13
        /\ GroupOrder[1] = "cpu_e" /\ GroupOrder[2] = "cpu_p" /\ GroupOrder[3] = "cpu_die"
        /\ GroupOrder[4] = "gpu" /\ GroupOrder[5] = "soc" /\ GroupOrder[6] = "memory"
        /\ GroupOrder[7] = "ssd" /\ GroupOrder[8] = "vrm" /\ GroupOrder[9] = "display"
        /\ GroupOrder[10] = "wireless" /\ GroupOrder[11] = "ambient" /\ GroupOrder[12] = "board"
        /\ GroupOrder[13] = "other"
    BY DEF GroupOrder
  <2>3. \A i \in 1..13 : GroupOrder[i] \in Range(GroupOrder)
    BY <2>2 DEF Range
  <2>. QED BY <2>1, <2>2, <2>3
<1>5. ASSUME NEW s \in Warm
      PROVE  /\ Row[s].group \in Range(GroupOrder) /\ Row[s].celsius \in 1..199
             /\ Row[s].group \in {"cpu_p", "cpu_e", "cpu_die", "gpu"} => Row[s].celsius > 10
  <2>1. /\ s \in 1..2 /\ m.reads[s] \in Nat /\ m.reads[s] > 0 /\ m.reads[s] < 200
        /\ m.keys[s] \in Silicon => m.reads[s] > 10
    BY DEF Slots, Reads
  <2>2. Row[s].group = SensorGroupForKey(m.keys[s]) /\ Row[s].celsius = m.reads[s]
    OBVIOUS
  <2>. HIDE DEF Row, Warm
  <2>. QED BY <1>3, <1>4, <2>1, <2>2
<1>. QED BY <1>1, <1>2, <1>5

(* A line of the groups that has a sensor. *)
LEMMA LineIs ==
  ASSUME NEW m, m.keys \in [1..2 -> AllKeys], m.reads \in [1..2 -> Reads],
         NEW group, InGroup(m, group) # {}
  PROVE  LET line == LineOf(m, group)
         IN /\ line.group = group /\ line.count = Cardinality(InGroup(m, group))
            /\ line.min * line.count <= line.sum /\ line.sum <= line.max * line.count
            /\ line.min > (IF group \in {"cpu_p", "cpu_e", "cpu_die", "gpu"} THEN 10 ELSE 0)
            /\ line.max < 200
            /\ \A r \in InGroup(m, group) : r.celsius \in line.min..line.max
<1>. DEFINE own == InGroup(m, group)  degrees == {r.celsius : r \in own}
            f == [r \in own |-> r.celsius]  least == Min(degrees)  most == Max(degrees)
            k == Cardinality(own)
<1>1. LineOf(m, group) = [group |-> group, count |-> k, min |-> least, max |-> most,
                          sum |-> SumFunction(f)]
  BY DEF LineOf
<1>2. \A r \in own : /\ r \in Sensors(m) /\ r.group = group /\ r.celsius \in 1..199
                     /\ group \in {"cpu_p", "cpu_e", "cpu_die", "gpu"} => r.celsius > 10
  BY SensorsAre DEF InGroup
<1>3. IsFiniteSet(own)
  <2>1. own \in SUBSET Sensors(m)
    BY DEF InGroup
  <2>. HIDE DEF own
  <2>. QED BY <2>1, SensorsAre, FS_Subset
<1>. HIDE DEF own
<1>4. degrees \in SUBSET (0..199) /\ degrees # {} /\ \A r \in own : r.celsius \in degrees
  BY <1>2 DEF own
<1>5. \A d \in degrees : d \in 1..199 /\ (group \in {"cpu_p", "cpu_e", "cpu_die", "gpu"} => d > 10)
  BY <1>2
<1>. HIDE DEF degrees, f, least, most, k
<1>6. /\ least \in degrees /\ \A d \in degrees : least <= d
      /\ most \in degrees /\ \A d \in degrees : d <= most
  <2>1. ASSUME NEW n \in Nat, degrees \in SUBSET (0..n)
        PROVE  /\ Min(degrees) \in degrees /\ \A d \in degrees : Min(degrees) <= d
               /\ Max(degrees) \in degrees /\ \A d \in degrees : d <= Max(degrees)
    BY <1>4, <2>1, Extremes
  <2>2. /\ Min(degrees) \in degrees /\ \A d \in degrees : Min(degrees) <= d
        /\ Max(degrees) \in degrees /\ \A d \in degrees : d <= Max(degrees)
    BY <1>4, <2>1
  <2>. QED BY <2>2 DEF least, most
<1>7. Within(own, f, least, most)
  <2>1. f \in [own -> Int] /\ \A r \in own : f[r] = r.celsius
    BY <1>2 DEF f
  <2>2. least \in Int /\ most \in Int /\ \A r \in own : least <= r.celsius /\ r.celsius <= most
    <3>1. least \in 1..199 /\ most \in 1..199
      BY <1>5, <1>6
    <3>2. ASSUME NEW r \in own PROVE least <= r.celsius /\ r.celsius <= most
      <4>1. r.celsius \in degrees
        BY <1>4
      <4>. QED BY <1>6, <4>1
    <3>. QED BY <3>1, <3>2
  <2>. QED BY <1>3, <2>1, <2>2 DEF Within
<1>8. least * k <= SumFunction(f) /\ SumFunction(f) <= most * k
  BY <1>7, SumBounds DEF k
<1>9. \A r \in own : r.celsius \in least..most
  BY <1>2, <1>4, <1>5, <1>6
<1>10. /\ LineOf(m, group).group = group /\ LineOf(m, group).count = k
       /\ LineOf(m, group).min = least /\ LineOf(m, group).max = most
       /\ LineOf(m, group).sum = SumFunction(f)
  BY <1>1
<1>11. least > (IF group \in {"cpu_p", "cpu_e", "cpu_die", "gpu"} THEN 10 ELSE 0) /\ most < 200
  BY <1>5, <1>6
<1>. QED BY <1>8, <1>9, <1>10, <1>11 DEF own, k

LEMMA EverySensorIsInALine ==
  ASSUME NEW m, m.keys \in [1..2 -> AllKeys], m.reads \in [1..2 -> Reads]
  PROVE  LET lines == GroupStats(m)
         IN /\ SumFunction([line \in lines |-> line.count]) = Cardinality(Sensors(m))
            /\ \A line \in lines :
                 /\ line.min * line.count <= line.sum /\ line.sum <= line.max * line.count
                 /\ line.min > (IF line.group \in {"cpu_p", "cpu_e", "cpu_die", "gpu"} THEN 10 ELSE 0)
                 /\ line.max < 200
            /\ \A r \in Sensors(m) :
                 \E line \in lines : line.group = r.group /\ r.celsius \in line.min..line.max
<1>. DEFINE lines == GroupStats(m)  R == Sensors(m)
            Groups == {g \in Range(GroupOrder) : InGroup(m, g) # {}}
            own == [line \in lines |-> InGroup(m, line.group)]
<1>1. lines = {LineOf(m, g) : g \in Groups}
  BY DEF GroupStats
<1>2. ASSUME NEW line \in lines
      PROVE  /\ line.group \in Groups /\ line = LineOf(m, line.group)
             /\ line.count = Cardinality(InGroup(m, line.group))
             /\ line.min * line.count <= line.sum /\ line.sum <= line.max * line.count
             /\ line.min > (IF line.group \in {"cpu_p", "cpu_e", "cpu_die", "gpu"} THEN 10 ELSE 0)
             /\ line.max < 200
  <2>1. PICK g \in Groups : line = LineOf(m, g)
    BY <1>1
  <2>2. InGroup(m, g) # {}
    OBVIOUS
  <2>3. line.group = g
    BY <2>1, <2>2, LineIs
  <2>. HIDE DEF Groups
  <2>. QED BY <2>1, <2>2, <2>3, LineIs
<1>3. ASSUME NEW r \in R
      PROVE  /\ LineOf(m, r.group) \in lines /\ LineOf(m, r.group).group = r.group
             /\ r \in InGroup(m, r.group)
             /\ r.celsius \in LineOf(m, r.group).min..LineOf(m, r.group).max
  <2>1. r \in InGroup(m, r.group)
    BY DEF InGroup
  <2>2. r.group \in Groups
    BY <2>1, SensorsAre
  <2>3. LineOf(m, r.group) \in lines
    BY <1>1, <2>2
  <2>. QED BY <2>1, <2>3, LineIs
<1>4. IsFiniteSet(lines)
  <2>1. DOMAIN GroupOrder = 1..13
    BY DEF GroupOrder
  <2>2. IsFiniteSet(1..13)
    BY FirstNumbers
  <2>3. IsFiniteSet(Range(GroupOrder))
    <3>1. Range(GroupOrder) = {GroupOrder[i] : i \in 1..13}
      BY <2>1 DEF Range
    <3>. QED BY <2>1, <2>2, <3>1, Image
  <2>4. Groups \in SUBSET Range(GroupOrder)
    OBVIOUS
  <2>. DEFINE of == [g \in Groups |-> LineOf(m, g)]
  <2>5. lines = {of[g] : g \in Groups} /\ DOMAIN of = Groups
    BY <1>1
  <2>. HIDE DEF Groups, of, lines
  <2>6. IsFiniteSet(Groups)
    BY <2>3, <2>4, FS_Subset
  <2>. QED BY <2>5, <2>6, Image
<1>5. Parted(lines, R, own)
  <2>1. own \in [lines -> SUBSET R]
    BY DEF InGroup
  <2>2. ASSUME NEW r \in R PROVE \E line \in lines : r \in own[line]
    <3>. HIDE DEF lines, R
    <3>. QED BY <1>3
  <2>3. ASSUME NEW l \in lines, NEW n \in lines, l # n PROVE own[l] \cap own[n] = {}
    <3>1. l.group # n.group
      <4>. HIDE DEF lines
      <4>. QED BY <1>2, <2>3
    <3>. HIDE DEF lines
    <3>. QED BY <3>1 DEF InGroup
  <2>. HIDE DEF own, lines, R
  <2>. QED BY <2>1, <2>2, <2>3 DEF Parted
<1>6. SumFunction([line \in lines |-> Cardinality(own[line])]) = Cardinality(R)
  <2>. HIDE DEF own, lines, R
  <2>. QED BY <1>4, <1>5, SensorsAre, SumOfParts DEF R
<1>7. [line \in lines |-> Cardinality(own[line])] = [line \in lines |-> line.count]
  <2>. HIDE DEF lines
  <2>. QED BY <1>2
<1>. HIDE DEF lines, R, own, Groups
<1>. QED BY <1>2, <1>3, <1>6, <1>7 DEF lines, R

(***************************************************************************)
(* Whatever names a machine offers, and whichever of its channels and      *)
(* sensors cannot be read, for any number of dies and any amounts: no      *)
(* traffic through the memory controllers and no power is shown twice,     *)
(* what is shown for several dies or sensors could be so on one of them,   *)
(* and no sensor is left out of the groups.                                *)
(***************************************************************************)
THEOREM SampleCorrect == SocSampleSpec => []SampleIsTrue
<1>1. SocSampleInit => SampleIsTrue
  BY DEF SocSampleInit, SampleIsTrue
<1>2. SampleIsTrue /\ [SocSampleNext]_socSampleVars => SampleIsTrue'
  <2>1. CASE UNCHANGED socSampleVars
    BY <2>1 DEF socSampleVars, SampleIsTrue, TrafficOnce, PowerOnce, ClusterIsReal, GpuIsReal,
                TemperaturesAreReal, SensorsAreGrouped
  <2>2. CASE SampleTraffic
    <3>0. PICK kinds \in UNION {kSubset(n, TrafficKinds) : n \in 0..MostKinds} :
            \E reads, writes \in [Dies -> Amounts] :
            \E unread \in {<<>>} \cup UNION {{k} \X Places(k) : k \in kinds} :
            LET m == [what |-> "traffic", kinds |-> kinds, reads |-> reads,
                      writes |-> writes, unread |-> unread]
            IN chip' = m /\ shown' = [dram |-> ResolveAmc(m), ane |-> ResolveAne(m)]
      BY <2>2 DEF SampleTraffic
    <3>1. PICK reads \in [Dies -> Amounts], writes \in [Dies -> Amounts],
               unread \in {<<>>} \cup UNION {{k} \X Places(k) : k \in kinds} :
            LET m == [what |-> "traffic", kinds |-> kinds, reads |-> reads,
                      writes |-> writes, unread |-> unread]
            IN chip' = m /\ shown' = [dram |-> ResolveAmc(m), ane |-> ResolveAne(m)]
      BY <3>0
    <3>. DEFINE m == [what |-> "traffic", kinds |-> kinds, reads |-> reads,
                      writes |-> writes, unread |-> unread]
    <3>2. IsTraffic(m)
      <4>1. kinds \subseteq TrafficKinds
        BY DEF kSubset
      <4>. QED BY <4>1, SocSampleAssumption DEF IsTraffic
    <3>3. chip' = m /\ m.what = "traffic" /\ (shown').dram = ResolveAmc(m)
      BY <3>1
    <3>. HIDE DEF m
    <3>4. TrafficOnce'
      BY <3>2, <3>3, TrafficIsCountedOnce DEF TrafficOnce
    <3>. QED BY <3>3, <3>4 DEF SampleIsTrue
  <2>3. CASE SamplePower
    <3>0. PICK domain \in DOMAIN EnergyBuckets :
            \E channels \in UNION {kSubset(n, EnergyChannels(domain)) : n \in 0..MostKinds} :
            \E energy \in [EnergyParts[domain] -> Amounts], unread \in SUBSET channels :
            LET m == [what |-> "power", domain |-> domain, channels |-> channels,
                      energy |-> energy, unread |-> unread]
            IN chip' = m /\ shown' = [watts |-> Field(m, Power(m))]
      BY <2>3 DEF SamplePower
    <3>1. PICK channels \in UNION {kSubset(n, EnergyChannels(domain)) : n \in 0..MostKinds} :
            \E energy \in [EnergyParts[domain] -> Amounts], unread \in SUBSET channels :
            LET m == [what |-> "power", domain |-> domain, channels |-> channels,
                      energy |-> energy, unread |-> unread]
            IN chip' = m /\ shown' = [watts |-> Field(m, Power(m))]
      BY <3>0
    <3>2. PICK energy \in [EnergyParts[domain] -> Amounts], unread \in SUBSET channels :
            LET m == [what |-> "power", domain |-> domain, channels |-> channels,
                      energy |-> energy, unread |-> unread]
            IN chip' = m /\ shown' = [watts |-> Field(m, Power(m))]
      BY <3>1
    <3>. DEFINE m == [what |-> "power", domain |-> domain, channels |-> channels,
                      energy |-> energy, unread |-> unread]
    <3>3. IsPower(m)
      <4>1. channels \subseteq EnergyChannels(domain)
        BY DEF kSubset
      <4>2. IsFiniteSet(channels)
        <5>1. IsFiniteSet(EnergyChannels(domain))
          BY DomainIs
        <5>. QED BY <4>1, <5>1, FS_Subset
      <4>. QED BY <4>1, <4>2, SocSampleAssumption DEF IsPower
    <3>4. chip' = m /\ m.what = "power" /\ (shown').watts = Field(m, Power(m))
      BY <3>2
    <3>. HIDE DEF m
    <3>5. Field(m, Power(m)) <= Bound(m) /\ (Whole(m) => Field(m, Power(m)) = Used(m))
      BY <3>3, PowerIsCountedOnce
    <3>6. PowerOnce'
      BY <3>4, <3>5 DEF PowerOnce, Bound, Whole, Offered
    <3>. QED BY <3>4, <3>6 DEF SampleIsTrue
  <2>4. CASE SampleClusters
    <3>0. PICK table \in Tables, states \in [States -> StateNames] :
            \E times \in [Dies -> [States -> Amounts]] :
            LET m == [what |-> "clusters", table |-> table, states |-> states, times |-> times]
            IN chip' = m /\ shown' = [cluster |-> Cluster(m)]
      BY <2>4 DEF SampleClusters
    <3>1. PICK times \in [Dies -> [States -> Amounts]] :
            LET m == [what |-> "clusters", table |-> table, states |-> states, times |-> times]
            IN chip' = m /\ shown' = [cluster |-> Cluster(m)]
      BY <3>0
    <3>. DEFINE m == [what |-> "clusters", table |-> table, states |-> states, times |-> times]
    <3>2. HasTimes(m) /\ DOMAIN m.times = Dies
      <4>1. \A d \in Dies : times[d] \in [States -> Nat]
        BY SocSampleAssumption
      <4>. QED BY <4>1 DEF HasTimes, HasStates
    <3>3. chip' = m /\ m.what = "clusters" /\ (shown').cluster = Cluster(m)
      BY <3>1
    <3>. HIDE DEF m
    <3>4. ClusterIsReal'
      BY <3>2, <3>3, ClustersAreReal DEF ClusterIsReal
    <3>. QED BY <3>3, <3>4 DEF SampleIsTrue
  <2>7. CASE SampleGpu
    <3>0. PICK table \in Tables, states \in [States -> {n \in StateNames : n.number = 0}] :
            \E times \in UNION {[1..n -> [States -> Amounts]] : n \in 0..2} :
            LET m == [what |-> "gpu", table |-> table, states |-> states, times |-> times]
            IN chip' = m /\ shown' = [gpu |-> Gpu(m)]
      BY <2>7 DEF SampleGpu
    <3>1. PICK times \in UNION {[1..n -> [States -> Amounts]] : n \in 0..2} :
            LET m == [what |-> "gpu", table |-> table, states |-> states, times |-> times]
            IN chip' = m /\ shown' = [gpu |-> Gpu(m)]
      BY <3>0
    <3>2. PICK n \in 0..2 : times \in [1..n -> [States -> Amounts]]
      BY <3>1
    <3>. DEFINE m == [what |-> "gpu", table |-> table, states |-> states, times |-> times]
    <3>3. HasTimes(m) /\ m.what = "gpu" /\ n \in Nat /\ DOMAIN m.times = 1 .. n
      <4>1. \A c \in 1 .. n : times[c] \in [States -> Nat]
        BY <3>2, SocSampleAssumption
      <4>2. states \in [States -> StateNames]
        OBVIOUS
      <4>. QED BY <3>2, <4>1, <4>2 DEF HasTimes, HasStates
    <3>4. chip' = m /\ (shown').gpu = Gpu(m)
      BY <3>1
    <3>. HIDE DEF m
    <3>5. GpuIsReal'
      BY <3>3, <3>4, GpuIsShown DEF GpuIsReal
    <3>. QED BY <3>3, <3>4, <3>5 DEF SampleIsTrue
  <2>5. CASE SampleTemperatures
    <3>1. PICK ofCpu \in [1..2 -> Reads], ofGpu \in [1..2 -> Reads], ofSoc \in [1..2 -> Reads] :
            /\ chip' = [what |-> "temperatures", cpu |-> ofCpu, gpu |-> ofGpu, soc |-> ofSoc]
            /\ shown' = [cpu |-> AboveZero(Average10(ofCpu)), gpu |-> AboveZero(Average10(ofGpu)),
                         soc |-> AboveZero(IF Average10(ofSoc) > 0 THEN Average10(ofSoc)
                                           ELSE Hotter(Average10(ofCpu), Average10(ofGpu)))]
      BY <2>5 DEF SampleTemperatures
    <3>2. /\ Average10(ofCpu) \in {0} \cup 11..199 /\ Average10(ofGpu) \in {0} \cup 11..199
          /\ Average10(ofSoc) \in {0} \cup 11..199
      BY AverageIs
    <3>3. TemperaturesAreReal'
      <4>. DEFINE c == Average10(ofCpu)  g == Average10(ofGpu)  s == Average10(ofSoc)
      <4>1. /\ (shown').cpu = AboveZero(c) /\ (shown').gpu = AboveZero(g)
            /\ (shown').soc = AboveZero(IF s > 0 THEN s ELSE Hotter(c, g))
        BY <3>1
      <4>. HIDE DEF c, g, s
      <4>2. c \in {0} \cup 11..199 /\ g \in {0} \cup 11..199 /\ s \in {0} \cup 11..199
        BY <3>2 DEF c, g, s
      <4>. DEFINE a == AboveZero(c)  b == AboveZero(g)
                  d == AboveZero(IF s > 0 THEN s ELSE Hotter(c, g))
      <4>3. /\ {a, b, d} \subseteq {Missing} \cup 11..199
            /\ d = Missing => a = Missing /\ b = Missing
        BY <4>2, TemperaturesAreBounded
      <4>. HIDE DEF a, b, d
      <4>4. (shown').cpu = a /\ (shown').gpu = b /\ (shown').soc = d
        BY <4>1 DEF a, b, d
      <4>. QED BY <4>3, <4>4 DEF TemperaturesAreReal
    <3>4. (chip').what = "temperatures"
      BY <3>1
    <3>. QED BY <3>3, <3>4 DEF SampleIsTrue
  <2>6. CASE SampleSensors
    <3>1. PICK keys \in [1..2 -> AllKeys], reads \in [1..2 -> Reads] :
            LET m == [what |-> "sensors", keys |-> keys, reads |-> reads]
            IN chip' = m /\ shown' = [groups |-> GroupStats(m)]
      BY <2>6 DEF SampleSensors
    <3>. DEFINE m == [what |-> "sensors", keys |-> keys, reads |-> reads]
    <3>2. m.keys \in [1..2 -> AllKeys] /\ m.reads \in [1..2 -> Reads]
      OBVIOUS
    <3>3. chip' = m /\ m.what = "sensors" /\ (shown').groups = GroupStats(m)
      BY <3>1
    <3>. HIDE DEF m
    <3>4. SensorsAreGrouped'
      BY <3>2, <3>3, EverySensorIsInALine DEF SensorsAreGrouped
    <3>. QED BY <3>3, <3>4 DEF SampleIsTrue
  <2>. QED BY <2>1, <2>2, <2>3, <2>4, <2>5, <2>6, <2>7 DEF SocSampleNext
<1>. QED BY <1>1, <1>2, PTL DEF SocSampleSpec
=============================================================================
