------------------------------ MODULE SocSample ------------------------------
(***************************************************************************)
(* What one sample makes of the channels that IOReport offers              *)
(* (bmtop-macos/src/bmtop_soc.c 291-402, 425-505, 548-600, 640-731; the    *)
(* conversion of soc.rs 205-281).  Machines offer different channels, and  *)
(* some offer the same traffic or power several times, as a sum and as its *)
(* parts: the code puts each channel in a bucket by its name, adds those   *)
(* of a bucket and shows one bucket of each kind.  A name is here its      *)
(* bucket; a bandwidth is the bytes of the window, a power its energy.     *)
(***************************************************************************)
EXTENDS Integers, Sequences, FiniteSetsExt, Functions

CONSTANTS Dies,     \* the parts of the chip, each with a share of the traffic
          Amounts,  \* what one part may move, or use, in a window
          MostKinds \* bound: kinds of traffic counters, channels of a domain, offered

ASSUME SocSampleAssumption ==
  IsFiniteSet(Dies) /\ Amounts \subseteq Nat /\ MostKinds \in Nat

VARIABLES chip,  \* what was there to be read, and what was read of it
          shown    \* what the sample shows of it

socSampleVars == <<chip, shown>>

Missing == -1     \* not shown; all that is shown is zero or more
Invalid == -1000  \* a channel that cannot be read: a large negative number

(***************************************************************************)
(* AMC Stats: counters of memory traffic.  "exact" is the controller's     *)
(* sum, "partition" a counter of each die, "client" a counter on each die  *)
(* of what one client asked of all of them, "request" one outside the      *)
(* controller, and "ane" one of the neural engine alone.  A channel counts *)
(* reads, writes, or both.                                                 *)
(***************************************************************************)
TrafficKinds == {[class |-> c, dir |-> d] :
            c \in {"exact", "partition"}, d \in {"read", "write", "both"}}
         \cup {[class |-> c, dir |-> d] :
                 c \in {"client", "request", "ane"}, d \in {"read", "write"}}

\* The true traffic; that of one channel's direction.
Traffic(m, dir) ==
    CASE dir = "read"  -> SumFunction(m.reads)
      [] dir = "write" -> SumFunction(m.writes)
      [] OTHER         -> SumFunction(m.reads) + SumFunction(m.writes)

OfDie(m, d, dir) ==
    CASE dir = "read"  -> m.reads[d]
      [] dir = "write" -> m.writes[d]
      [] OTHER         -> m.reads[d] + m.writes[d]

\* A client's requests are counted on each die, a partition's only on its own.
Places(k) == IF k.class \in {"partition", "client"} THEN Dies ELSE {"all"}

CounterOf(m, k, d) ==
    IF <<k, d>> = m.unread THEN Invalid
    ELSE IF k.class = "partition" THEN OfDie(m, d, k.dir)
    ELSE Traffic(m, k.dir)

Channels(m) ==
    UNION {{[kind |-> k, on |-> d, value |-> CounterOf(m, k, d)] : d \in Places(k)} :
             k \in m.kinds}

(***************************************************************************)
(* accumulate_amc: invalid values are left out.  A counter of the neural   *)
(* engine is counted for the engine and also as a request.                 *)
(***************************************************************************)
Valid(m) == {c \in Channels(m) : c.value >= 0}

Bucket(m, class, dir) ==
    {c \in Valid(m) : c.kind.dir = dir /\ \/ c.kind.class = class
                                          \/ class = "request" /\ c.kind.class = "ane"}

SumOf(cs) == SumFunction([c \in cs |-> c.value])

Directed(m, class) == Bucket(m, class, "read") \cup Bucket(m, class, "write") # {}
Combined(m, class) == Bucket(m, class, "both") # {}

ByDirection(m, class) ==
    <<SumOf(Bucket(m, class, "read")), SumOf(Bucket(m, class, "write"))>>

InHalves(m, class) ==
    LET both == SumOf(Bucket(m, class, "both")) IN <<both \div 2, both - both \div 2>>

\* resolve_amc: the DRAM traffic shown, reads and writes.
ResolveAmc(m) ==
    IF Directed(m, "exact") THEN ByDirection(m, "exact")
    ELSE IF Combined(m, "exact") THEN InHalves(m, "exact")
    ELSE IF Directed(m, "partition") THEN ByDirection(m, "partition")
    ELSE IF Combined(m, "partition") THEN InHalves(m, "partition")
    ELSE IF Directed(m, "client") THEN ByDirection(m, "client")
    ELSE IF Directed(m, "request") THEN ByDirection(m, "request")
    ELSE <<Missing, Missing>>

ResolveAne(m) ==
    IF Directed(m, "ane") THEN ByDirection(m, "ane") ELSE <<Missing, Missing>>

SampleTraffic ==
    \E kinds \in UNION {kSubset(n, TrafficKinds) : n \in 0..MostKinds} :
    \E reads, writes \in [Dies -> Amounts] :
    \E unread \in {<<>>} \cup UNION {{k} \X Places(k) : k \in kinds} :
        LET m == [what |-> "traffic", kinds |-> kinds, reads |-> reads,
                  writes |-> writes, unread |-> unread]
        IN /\ chip' = m
           /\ shown' = [dram |-> ResolveAmc(m), ane |-> ResolveAne(m)]

-----------------------------------------------------------------------------
(***************************************************************************)
(* Energy Model and Energy Counters: a channel is put in a bucket by a     *)
(* part of its name, and all channels of a bucket are added, whichever of  *)
(* the two groups they are from.  What a channel measures is up to the     *)
(* machine: the cores of one type or of several, the GPU or its memory,    *)
(* one block or all.                                                       *)
(***************************************************************************)
EnergyBuckets == [cpu |-> {"typed", "total"}, gpu |-> {"named", "alias", "sram"},
            ane |-> {"named", "block"}, dram |-> {"named", "block"}]

\* The parts of each domain that use energy.
EnergyParts == [cpu |-> {"E", "P"}, gpu |-> {"core", "SRAM"},
          ane |-> {"ane0", "ane1"}, dram |-> {"dram0", "dram1"}]

\* The parts that a bucket is there for.
Scope(domain, bucket) ==
    CASE bucket = "sram"                       -> {"SRAM"}
      [] domain = "gpu" /\ bucket # "sram"     -> {"core"}
      [] OTHER                                 -> EnergyParts[domain]

\* What one of its channels measures: a type of cores is one part.
Measurable(domain, bucket) ==
    {parts \in SUBSET Scope(domain, bucket) :
       parts # {} /\ (bucket = "typed" => parts # EnergyParts[domain])}

EnergyChannels(domain) ==
    UNION {[bucket : {b}, parts : Measurable(domain, b), group : {"Model", "Counters"}] :
             b \in EnergyBuckets[domain]}

ChannelValue(m, c) ==
    IF c \in m.unread THEN Invalid ELSE SumFunction([p \in c.parts |-> m.energy[p]])

InBucket(m, bucket) == {c \in m.channels : c.bucket = bucket}

\* The sum of a bucket: zero when there is no channel in it.
Watts(m, bucket) == SumFunction([c \in InBucket(m, bucket) |-> ChannelValue(m, c)])

\* Either the first sum, when it is more than nothing, or the second.
Prefer(first, second) == IF first > 0 THEN first ELSE second

\* Seeded fault: all channels of a domain are added.
AddAll(m) == SumFunction([c \in m.channels |-> ChannelValue(m, c)])

Power(m) ==
    CASE m.domain = "cpu" -> Prefer(Watts(m, "total"), Watts(m, "typed"))
      [] m.domain = "gpu" -> Prefer(Watts(m, "named"), Watts(m, "alias")) + Watts(m, "sram")
      [] m.domain \in {"ane", "dram"} -> Prefer(Watts(m, "named"), Watts(m, "block"))

\* watts_field: a domain without a channel, or a negative sum, is not shown.
Field(m, watts) == IF m.channels = {} \/ watts < 0 THEN Missing ELSE watts

SamplePower ==
    \E domain \in DOMAIN EnergyBuckets :
    \E channels \in UNION {kSubset(n, EnergyChannels(domain)) : n \in 0..MostKinds} :
    \E energy \in [EnergyParts[domain] -> Amounts], unread \in SUBSET channels :
        LET m == [what |-> "power", domain |-> domain, channels |-> channels,
                  energy |-> energy, unread |-> unread]
        IN chip' = m /\ shown' = [watts |-> Field(m, Power(m))]

-----------------------------------------------------------------------------
(***************************************************************************)
(* CPU and GPU Stats: the time a cluster of cores, or the GPU, spent in    *)
(* each of its performance states.  A state that says OFF or IDLE is no    *)
(* work, of the GPU one that says DOWN neither; one without a name counts  *)
(* only in the time.  A name is here its kind and the first number in it,  *)
(* zero if there is none.                                                  *)
(***************************************************************************)
States == 1..3
StateNames == [kind : {"off", "down", "nameless"}, number : {0}]
        \cup [kind : {"indexed"}, number : 0..2]   \* V0, V1, V2
        \cup [kind : {"other"}, number : {7}]
Tables == {<<>>, <<6>>, <<6, 30>>}  \* the frequencies the machine lists

Idle(m) == {"off", "nameless"} \cup (IF m.what = "gpu" THEN {"down"} ELSE {})
Working(m) == {s \in States : m.states[s].kind \notin Idle(m)}

\* A cluster's state has the frequency at its index, or its number for one.
NamedFrequency(m, s) ==
    LET name == m.states[s] IN
    IF name.kind = "indexed" /\ name.number < Len(m.table) THEN m.table[name.number + 1]
    ELSE name.number

\* The working states of the GPU take the table's in turn; the rest have none.
PlacedFrequency(m, s) ==
    LET place == Cardinality({t \in Working(m) : t <= s}) IN
    IF place <= Len(m.table) THEN m.table[place] ELSE 0

Frequency(m, s) == IF m.what = "gpu" THEN PlacedFrequency(m, s) ELSE NamedFrequency(m, s)

Spent(times) == SumFunction(times)
Active(m, times) == SumFunction([s \in Working(m) |-> times[s]])
Weighted(m, times) == SumFunction([s \in Working(m) |-> Frequency(m, s) * times[s]])

ShareOf(m, times) == (100 * Active(m, times)) \div Spent(times)
Average(m, times) ==
    IF Active(m, times) = 0 THEN 0 ELSE Weighted(m, times) \div Active(m, times)

NoCluster == [active |-> Missing, freq |-> Missing]

\* accumulate_cluster and emit_cluster: the clusters of one type, one for each
\* die, are shown as one, with the busiest share and the highest average, each
\* on its own.  A cluster without any time is not seen.
Cluster(m) ==
    LET seen == {d \in Dies : Spent(m.times[d]) > 0} IN
    IF seen = {} THEN NoCluster
    ELSE [active |-> Max({ShareOf(m, m.times[d]) : d \in seen}),
          freq   |-> Max({Average(m, m.times[d]) : d \in seen})]

SampleClusters ==
    \E table \in Tables, states \in [States -> StateNames] :
    \E times \in [Dies -> [States -> Amounts]] :
        LET m == [what |-> "clusters", table |-> table, states |-> states, times |-> times]
        IN chip' = m /\ shown' = [cluster |-> Cluster(m)]

\* An average that is a fraction, shown when it is more than nothing.
NoFrequency == [sum |-> 0, time |-> 0]
ShownFrequency(f) == IF f.sum > 0 THEN f ELSE NoFrequency

\* read_gpu_states, channel by channel: the last one with any time has the
\* share, the last one with any work has the frequency.
Gpu(m) ==
    LET seen   == {c \in DOMAIN m.times : Spent(m.times[c]) > 0}
        worked == {c \in DOMAIN m.times : Active(m, m.times[c]) > 0}
        last   == m.times[Max(worked)]
    IN [share |-> IF seen = {} THEN Missing ELSE ShareOf(m, m.times[Max(seen)]),
        freq  |-> IF worked = {} \/ m.table = <<>> THEN NoFrequency
                  ELSE ShownFrequency([sum |-> Weighted(m, last), time |-> Active(m, last)])]

SampleGpu ==
    \E table \in Tables, states \in [States -> {n \in StateNames : n.number = 0}] :
    \E times \in UNION {[1..n -> [States -> Amounts]] : n \in 0..2} :
        LET m == [what |-> "gpu", table |-> table, states |-> states, times |-> times]
        IN chip' = m /\ shown' = [gpu |-> Gpu(m)]

-----------------------------------------------------------------------------
(***************************************************************************)
(* read_smc_extras: temperatures from lists of sensors, in degrees.  A     *)
(* sensor that is not ready reads less than ten, a broken one too much.    *)
(***************************************************************************)
Reads == {0, 7, 40, 90, 250}

Average10(sensors) ==
    LET ok == {s \in DOMAIN sensors : sensors[s] > 10 /\ sensors[s] < 200} IN
    IF ok = {} THEN 0
    ELSE SumFunction([s \in ok |-> sensors[s]]) \div Cardinality(ok)

Hotter(a, b) == IF a > b THEN a ELSE b

\* temp_field: nothing above zero is a missing temperature.
AboveZero(t) == IF t > 0 THEN t ELSE Missing

SampleTemperatures ==
    \E cpu, gpu, soc \in [1..2 -> Reads] :
        LET c == Average10(cpu)
            g == Average10(gpu)
            s == Average10(soc)
        IN /\ chip' = [what |-> "temperatures", cpu |-> cpu, gpu |-> gpu, soc |-> soc]
           /\ shown' = [cpu |-> AboveZero(c), gpu |-> AboveZero(g),
                        soc |-> AboveZero(IF s > 0 THEN s ELSE Hotter(c, g))]

-----------------------------------------------------------------------------
(***************************************************************************)
(* The single sensors of the SMC.  What decides a sensor's group is the    *)
(* start of its key, in which capitals count; a group is shown as a line.  *)
(***************************************************************************)
SensorKeys == [cpu_p |-> {"Tp", "Tf"}, cpu_e |-> {"Te"}, cpu_die |-> {"TC", "Tc"},
               gpu |-> {"Tg", "TR"}, soc |-> {"TP"}, memory |-> {"Tm", "TM"},
               ssd |-> {"Ts", "TS", "TH", "TN"}, ambient |-> {"Ta", "TA", "TF"},
               board |-> {"TB", "Tb"}, vrm |-> {"TV"}, display |-> {"TD", "Td", "TL"},
               wireless |-> {"Tw", "TW"}]

SensorGroupForKey(key) ==
    IF \E g \in DOMAIN SensorKeys : key \in SensorKeys[g]
      THEN CHOOSE g \in DOMAIN SensorKeys : key \in SensorKeys[g] ELSE "other"

GroupOrder == <<"cpu_e", "cpu_p", "cpu_die", "gpu", "soc", "memory", "ssd", "vrm", "display",
                "wireless", "ambient", "board", "other">>

Silicon == UNION {SensorKeys[g] : g \in {"cpu_p", "cpu_e", "cpu_die", "gpu"}}

\* read_smc_extras: the sensors that read what their kind can.
Slots(m) ==
    {s \in DOMAIN m.reads : /\ m.reads[s] > (IF m.keys[s] \in Silicon THEN 10 ELSE 0)
                            /\ m.reads[s] < 200}

\* convert_sample.
Sensors(m) ==
    {[group |-> SensorGroupForKey(m.keys[s]), sensor |-> s, celsius |-> m.reads[s]] :
       s \in {s \in Slots(m) : m.reads[s] > 0}}

\* group_sensor_stats: a line for each group, in its order, that has a sensor.
InGroup(m, group) == {r \in Sensors(m) : r.group = group}

LineOf(m, group) ==
    LET own == InGroup(m, group)
        degrees == {r.celsius : r \in own}
    IN [group |-> group, count |-> Cardinality(own), min |-> Min(degrees), max |-> Max(degrees),
        sum |-> SumFunction([r \in own |-> r.celsius])]

GroupStats(m) == {LineOf(m, g) : g \in {g \in Range(GroupOrder) : InGroup(m, g) # {}}}

AllKeys == UNION {SensorKeys[g] : g \in DOMAIN SensorKeys} \cup {"T0"}

SampleSensors ==
    \E keys \in [1..2 -> AllKeys], reads \in [1..2 -> Reads] :
        LET m == [what |-> "sensors", keys |-> keys, reads |-> reads]
        IN chip' = m /\ shown' = [groups |-> GroupStats(m)]

-----------------------------------------------------------------------------
SocSampleInit ==
    /\ chip = [what |-> "nothing"]
    /\ shown = [watts |-> Missing]

SocSampleNext ==
    /\ chip.what = "nothing"
    /\ \/ SampleTraffic \/ SamplePower \/ SampleClusters
       \/ SampleGpu \/ SampleTemperatures \/ SampleSensors

SocSampleSpec == SocSampleInit /\ [][SocSampleNext]_socSampleVars

Moved(m) == Traffic(m, "both")
Used(m) == SumFunction(m.energy)

\* The DRAM traffic is at most what was moved, when anything but clients and
\* requests is counted, and exact when it is counted by direction.
TrafficOnce ==
    LET total == shown.dram[1] + shown.dram[2] IN
    /\ (\E class \in {"exact", "partition"} :
            Directed(chip, class) \/ Combined(chip, class)) => total <= Moved(chip)
    /\ chip.unread = <<>> /\ {[class |-> "exact", dir |-> d] : d \in {"read", "write"}}
                                   \subseteq chip.kinds => total = Moved(chip)

\* How often the channels of a bucket name a part, and how often any bucket does.
Named(m, bucket, part) == Cardinality({c \in InBucket(m, bucket) : part \in c.parts})
MostNamed(m, part) == Max({Named(m, b, part) : b \in EnergyBuckets[m.domain]})

NamesEachOnce(m, bucket) ==
    \A p \in Scope(m.domain, bucket) : Named(m, bucket, p) = 1

\* What a part used is in its domain's power no more often than one bucket
\* names it.  The power is exact when all could be read, each bucket there is
\* names each of its parts once, and together they name all.
PowerOnce ==
    LET used == {b \in EnergyBuckets[chip.domain] : InBucket(chip, b) # {}} IN
    /\ shown.watts <= SumFunction([p \in EnergyParts[chip.domain] |->
                                     MostNamed(chip, p) * chip.energy[p]])
    /\ (/\ chip.unread = {} /\ \A b \in used : NamesEachOnce(chip, b)
        /\ EnergyParts[chip.domain] = UNION {Scope(chip.domain, b) : b \in used})
         => shown.watts = Used(chip)

\* The frequencies of the states that some die, or channel, worked in.
WorkedAt(m) ==
    {Frequency(m, s) : s \in {s \in Working(m) : \E d \in DOMAIN m.times : m.times[d][s] > 0}}

\* A share of the time, and a frequency that some die worked at, or between
\* two of them; within the table when each state that worked is in it.
ClusterIsReal ==
    shown.cluster # NoCluster =>
      /\ shown.cluster.active \in 0..100
      /\ IF WorkedAt(chip) = {}
           THEN shown.cluster.active = 0 /\ shown.cluster.freq = 0
           ELSE shown.cluster.freq \in Min(WorkedAt(chip))..Max(WorkedAt(chip))

\* The same of the GPU; a GPU that worked in states of its table only shows
\* its frequency.
GpuIsReal ==
    LET freq == shown.gpu.freq IN
    /\ shown.gpu.share \in {Missing} \cup 0..100
    /\ freq # NoFrequency =>
         /\ WorkedAt(chip) # {}
         /\ Min(WorkedAt(chip)) * freq.time <= freq.sum
         /\ freq.sum <= Max(WorkedAt(chip)) * freq.time
    /\ WorkedAt(chip) # {} /\ 0 \notin WorkedAt(chip) => freq # NoFrequency

\* Temperatures silicon can have; the chip's is missing only when all are.
TemperaturesAreReal ==
    /\ {shown.cpu, shown.gpu, shown.soc} \subseteq {Missing} \cup 11..199
    /\ shown.soc = Missing => shown.cpu = Missing /\ shown.gpu = Missing

\* Every sensor that reads something is in one line, whatever its key, and
\* within its bounds; processors are not cooler than silicon can be.
SensorsAreGrouped ==
    /\ SumFunction([line \in shown.groups |-> line.count]) = Cardinality(Sensors(chip))
    /\ \A line \in shown.groups :
         /\ line.min * line.count <= line.sum /\ line.sum <= line.max * line.count
         /\ line.min > (IF line.group \in {"cpu_p", "cpu_e", "cpu_die", "gpu"} THEN 10 ELSE 0)
         /\ line.max < 200
    /\ \A r \in Sensors(chip) :
         \E line \in shown.groups : line.group = r.group /\ r.celsius \in line.min..line.max

(***************************************************************************)
(* Whatever names a machine offers, and whichever of its channels and      *)
(* sensors cannot be read, no traffic through the memory controllers and   *)
(* no power is shown twice, and what is shown for several dies or sensors  *)
(* could be so on one of them; no sensor is left out of the groups.        *)
(***************************************************************************)
SampleIsTrue ==
    /\ chip.what = "traffic" => TrafficOnce
    /\ chip.what = "power" => PowerOnce
    /\ chip.what = "clusters" => ClusterIsReal
    /\ chip.what = "gpu" => GpuIsReal
    /\ chip.what = "temperatures" => TemperaturesAreReal
    /\ chip.what = "sensors" => SensorsAreGrouped

=============================================================================
