-------------------------------- MODULE Charts --------------------------------
(* The figures derived from what one snapshot has read: the GPU and power
   columns of the processes (MacCollector::snapshot, apply_gpu_percent,
   apply_process_power, GpuSnapshot), and the charts the screen keeps of them
   (UiState::record_history).  Figures are whole numbers and a column's are
   fractions, so that sums are exact.  The CPU chart stands for that of memory,
   received bytes for sent ones, the ANE for the DRAM.                        *)
EXTENDS Integers, Sequences, FiniteSetsExt, Functions, Enumeration, Absent

CONSTANTS
  Rows,         \* processes
  Readings,     \* what a snapshot may read
  HistoryMax,   \* NETWORK_HISTORY_MAX, 120 in the code
  GpuHistoryMax,\* GpuSnapshot::MAX_HISTORY, 3600 in the code
  MaxSnapshots  \* bound of the model

(* A share of the time is at most all of it (soc.rs, and ClusterIsReal of
   SocSample).                                                               *)
ASSUME ChartsAssumption ==
  /\ IsFiniteSet(Rows) /\ HistoryMax \in Nat \ {0} /\ GpuHistoryMax \in Nat \ {0}
  /\ None \notin Nat /\ None \notin [num : Nat, den : Nat] /\ None \notin [use : Nat, history : Seq(Nat)]
  /\ LET Figure == Nat \cup {None} IN
     Readings \subseteq
       [cpu : [Rows -> Figure], gpu : [Rows -> Figure], energy : [Rows -> Figure],
        watts : [cpu : Figure, gpu : Figure, ane : Figure], active : 0 .. 100 \cup {None},
        device : Figure, load : Figure, receive : Figure]

VARIABLES
  seen,      \* the readings, for the properties
  gpuCard,   \* the GPU and its history (last_gpu), or None
  columns,   \* of the last snapshot: GPU use and watts of each row
  charts,    \* the histories of the screen
  peak       \* of the received bytes: top * (98/100)^age

chartVars == <<seen, gpuCard, columns, charts, peak>>

ZeroIfNone(value) == IF value = None THEN 0 ELSE value

KnownOf(column) == {r \in DOMAIN column : column[r] # None}
Total(column) == SumFunction([r \in DOMAIN column |-> ZeroIfNone(column[r])])
TotalOrNone(column) == IF KnownOf(column) = {} THEN None ELSE Total(column)

(* Fractions: num / den. *)
Fraction(num, den) == [num |-> num, den |-> den]
Plus(a, b) == Fraction(a.num * b.den + b.num * a.den, a.den * b.den)

(* What the rows took of the GPU, brought to the scale of the whole GPU's use
   when both are measured; no row is shown above 100 percent.                *)
Scale(read) ==
  IF Total(read.gpu) > 0 /\ read.active \notin {None, 0}
  THEN Fraction(read.active, Total(read.gpu)) ELSE Fraction(1, 1)

GpuPercents(read) ==
  [r \in Rows |-> IF read.gpu[r] = None THEN None
                  ELSE Min({read.gpu[r] * Scale(read).num, 100 * Scale(read).den})]

(* share: the watts of a part go to the rows in proportion to their use. *)
Share(column, r, watts) ==
  IF column[r] = None \/ watts = None \/ Total(column) = 0 THEN None
  ELSE Fraction(column[r] * watts, Total(column))

OrZero(fraction) == IF fraction = None THEN Fraction(0, 1) ELSE fraction

RowWatts(read, percents) ==
  [r \in Rows |->
     LET cpu == Share(read.cpu, r, read.watts.cpu)
         gpu == Share(percents, r, read.watts.gpu)
     IN  IF cpu = None /\ gpu = None THEN None ELSE Plus(OrZero(cpu), OrZero(gpu))]

(* SocPower::total_watts. *)
TotalWatts(read) == TotalOrNone(read.watts)

(* push_bounded, and GpuSnapshot::push_history. *)
Push(history, value, max) ==
  Append(IF Len(history) >= max THEN Tail(history) ELSE history, value)

PushOrZero(history, value) == Push(history, ZeroIfNone(value), HistoryMax)

\* Seeded fault: a sample without power is drawn as zero watts.
PushAny(history, value) == PushOrZero(history, value)

(* A gap in the power or the energy is no point. *)
PushKnown(history, value) ==
  IF value = None THEN history ELSE Push(history, value, HistoryMax)

RecordHistory(read) ==
  [cpu     |-> PushOrZero(charts.cpu, read.load),
   power   |-> PushKnown(charts.power, TotalWatts(read)),
   energy  |-> PushKnown(charts.energy, TotalOrNone(read.energy)),
   receive |-> PushOrZero(charts.receive, read.receive)]

DecayingPeak(value) ==
  IF value * 100^(peak.age + 1) >= peak.top * 98^(peak.age + 1)
  THEN [top |-> value, age |-> 0] ELSE [peak EXCEPT !.age = @ + 1]

UpdateGpu(use) ==
  IF use = None THEN None
  ELSE [use |-> use,
        history |-> Push(IF gpuCard = None THEN <<>> ELSE gpuCard.history, use, GpuHistoryMax)]

ChartsInit ==
  /\ seen = <<>> /\ gpuCard = None /\ columns = None
  /\ charts = [cpu |-> <<>>, power |-> <<>>, energy |-> <<>>, receive |-> <<>>]
  /\ peak = [top |-> 0, age |-> 0]

(* The shares of the watts need the GPU column to be finished. *)
Snapshot(read) ==
  /\ Len(seen) < MaxSnapshots /\ seen' = Append(seen, read)
  /\ gpuCard' = UpdateGpu(read.device)
  /\ LET percents == GpuPercents(read) IN
     columns' = [gpu |-> percents, scale |-> Scale(read).den,
                 watts |-> RowWatts(read, percents)]
  /\ charts' = RecordHistory(read)
  /\ peak' = DecayingPeak(ZeroIfNone(read.receive))

ChartsNext == \E read \in Readings : Snapshot(read)

ChartsSpec == ChartsInit /\ [][ChartsNext]_chartVars

-----------------------------------------------------------------------------
LastReading == seen[Len(seen)]

(* Times any sum of shares, a whole number. *)
Common == Max({Total(LastReading.cpu), 1}) * Max({Total(columns.gpu), 1})

Attributable(watts, column) == IF watts = None \/ Total(column) = 0 THEN 0 ELSE watts

(* The watts of the rows add up to those of the parts that some row has used
   ("the total of this column equals the CPU + GPU reading of the power card",
   lib.rs:1018), and the GPU column to the use of the GPU where both are
   measured: nothing is shared out twice, or to a row nobody has measured.    *)
ColumnsAddUp ==
  columns # None =>
    /\ SumFunction([r \in Rows |-> IF columns.watts[r] = None THEN 0
                                ELSE columns.watts[r].num * (Common \div columns.watts[r].den)])
         = Common * ( Attributable(LastReading.watts.cpu, LastReading.cpu)
                    + Attributable(LastReading.watts.gpu, LastReading.gpu) )
    /\ LastReading.active \notin {None, 0} /\ Total(LastReading.gpu) > 0 =>
         Total(columns.gpu) = LastReading.active * columns.scale

Newest(s, n) == SubSeq(s, Max({1, Len(s) - n + 1}), Len(s))

Measured(values) == Picked(values, {i \in DOMAIN values : values[i] # None})

LastFailure == Max({0} \cup {i \in DOMAIN seen : seen[i].device = None})

SinceFailure == [i \in 1 .. Len(seen) - LastFailure |-> seen[LastFailure + i].device]

(* A chart is what was measured, in order and without invented points: gaps of
   power and energy leave no false valley (state.rs:258), the GPU's begins anew
   after a failure, and the others keep pace with the samples.  The peak is
   never below the rate beside it, nor above all that was ever received.      *)
ChartsAreMeasured ==
  /\ charts.power = Newest(Measured([i \in DOMAIN seen |-> TotalWatts(seen[i])]), HistoryMax)
  /\ charts.energy = Newest(Measured([i \in DOMAIN seen |-> TotalOrNone(seen[i].energy)]), HistoryMax)
  /\ gpuCard # None => gpuCard.history = Newest(SinceFailure, GpuHistoryMax)
  /\ {Len(charts.cpu), Len(charts.receive)} = {Min({Len(seen), HistoryMax})}
  /\ seen # <<>> =>
       /\ peak.top * 98^peak.age >= ZeroIfNone(LastReading.receive) * 100^peak.age
       /\ \E i \in DOMAIN seen : peak.top <= ZeroIfNone(seen[i].receive)

FiguresAreMeasured == ColumnsAddUp /\ ChartsAreMeasured
===============================================================================
