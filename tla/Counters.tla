------------------------------ MODULE Counters ------------------------------
(* The rates of a snapshot whose counters belong to the machine and not to a
   process (MacCollector in bmtop-macos/src/lib.rs): CPU ticks, interface and
   disk bytes, and the energy that IOReport counts (bmtop_soc.c).

   An interface or a volume may go and come back under its name, its counters
   then start from zero; CPU ticks are 32-bit numbers and wrap; any query may
   fail for one snapshot.  A rate holds the two readings it is made from, the
   amount it shows and the time that amount is divided by.  `total` and `real`
   are history: what really passed, over all lives and all wraps.

   bmtop_soc_sample reads a clock of its own; here it reads that of the
   snapshot, which may stand still between two snapshots.                   *)
EXTENDS Naturals, FiniteSets, Functions, Absent

CONSTANTS Interfaces, Volumes,
          Wrap,       \* the number of values of a tick counter (2^32)
          MaxRounds,  \* bound: snapshots
          MaxEvents   \* bound: what the machine does

Devices    == Interfaces \cup Volumes
Directions == {"in", "out"}    \* received and sent, read and written
CpuStates  == {"busy", "idle"} \* user, system and nice are busy

ASSUME CountersAssumption ==
  /\ Interfaces \cap Volumes = {} /\ IsFiniteSet(Volumes)
  /\ Wrap \in Nat \ {0} /\ MaxRounds \in Nat /\ MaxEvents \in Nat

VARIABLES
  up,        \* interfaces and volumes that are there
  life,      \* how often a device has come back
  count,     \* its counters in this life
  total,     \* history: the same over all lives
  ticks,     \* history: CPU ticks without wrapping
  energy,    \* the energy counter of IOReport
  events,    \* how much the machine has done
  phase, round, now,  \* what the snapshot reads next, its number and time
  prevNet,   \* previous_interfaces
  listed, netRate,    \* the interface rows and their rates
  prevCpu, prevCpuAt, \* previous_cpu, previous_cpu_at
  cpuShare,  \* CpuMetrics
  soc,       \* the SocCollector: not tried, refused for good, or open
  prevSoc, prevSocAt, \* g_prev_sample, g_prev_time of bmtop_soc.c
  power,     \* SocMetrics
  prevDisk,  \* previous_disk_io
  diskRate   \* DiskIoRates

machine   == <<up, life, count, total, ticks, energy, events>>
clock     == <<round, now>>
net       == <<prevNet, listed, netRate>>
cpu       == <<prevCpu, prevCpuAt, cpuShare>>
socVars   == <<soc, prevSoc, prevSocAt, power>>
disk      == <<prevDisk, diskRate>>
snapshots == <<phase, clock, net, cpu, socVars, disk>>
vars      == <<machine, snapshots>>

Zero    == [x \in Directions |-> 0]
NoRates == [i \in Interfaces |-> None]

Init ==
  /\ up \in SUBSET Devices
  /\ life = [d \in Devices |-> 0] /\ count = [d \in Devices |-> Zero]
  /\ total = count /\ ticks = [s \in CpuStates |-> 0] /\ energy = 0 /\ events = 0
  /\ phase = "idle" /\ round = 0 /\ now = 0
  /\ prevNet = NoRates /\ listed = {} /\ netRate = NoRates
  /\ prevCpu = None /\ prevCpuAt = None /\ cpuShare = None
  /\ soc = "untried" /\ prevSoc = None /\ prevSocAt = 0 /\ power = None
  /\ prevDisk = None /\ diskRate = None

-----------------------------------------------------------------------------
(* The machine. *)

Happens == events < MaxEvents /\ events' = events + 1 /\ UNCHANGED snapshots

Transfer(d, x) ==
  /\ Happens /\ d \in up
  /\ count' = [count EXCEPT ![d][x] = @ + 1]
  /\ total' = [total EXCEPT ![d][x] = @ + 1]
  /\ UNCHANGED <<up, life, ticks, energy>>

Disappear(d) ==
  /\ Happens /\ d \in up /\ up' = up \ {d}
  /\ UNCHANGED <<life, count, total, ticks, energy>>

Appear(d) ==
  /\ Happens /\ d \notin up /\ up' = up \cup {d}
  /\ life' = [life EXCEPT ![d] = @ + 1] /\ count' = [count EXCEPT ![d] = Zero]
  /\ UNCHANGED <<total, ticks, energy>>

CpuWorks(s) ==
  /\ Happens /\ ticks' = [ticks EXCEPT ![s] = @ + 1]
  /\ UNCHANGED <<up, life, count, total, energy>>

ChipWorks ==
  /\ Happens /\ energy' = energy + 1
  /\ UNCHANGED <<up, life, count, total, ticks>>

Machine ==
  \/ \E d \in Devices : Disappear(d) \/ Appear(d) \/ \E x \in Directions : Transfer(d, x)
  \/ \E s \in CpuStates : CpuWorks(s)
  \/ ChipWorks

-----------------------------------------------------------------------------

Rate(from, to, amount, since) ==
  [from |-> from, to |-> to, amount |-> amount, over |-> now - since]

Grown(from, to) == [x \in DOMAIN to |-> to[x] - from[x]]

(* Time for the next snapshot; its clock may not have moved. *)
Begin ==
  /\ phase = "idle" /\ round < MaxRounds /\ phase' = "cpu"
  /\ round' = round + 1 /\ now' \in {now, now + 1}
  /\ listed' = {} /\ netRate' = NoRates /\ cpuShare' = None /\ power' = None
  /\ diskRate' = None
  /\ UNCHANGED <<machine, prevNet, prevCpu, prevCpuAt, soc, prevSoc, prevSocAt, prevDisk>>

-----------------------------------------------------------------------------
(* read_cpu *)

CpuReading == [read |-> [s \in CpuStates |-> ticks[s] % Wrap], real |-> ticks]

\* Seeded fault: a subtraction that wraps at 64 bits.
WrappingSub(new, old) == (new + Wrap * Wrap - old) % (Wrap * Wrap)

(* A counter that went back counts as one that stood still. *)
SaturatingSub(new, old) == IF new > old THEN new - old ELSE 0

TicksSince(reading) ==
  [s \in CpuStates |-> SaturatingSub(CpuReading.read[s], reading.read[s])]

CpuMoved(delta) == \E s \in CpuStates : delta[s] # 0

ReadCpu ==
  /\ phase = "cpu" /\ phase' = "interfaces"
  /\ prevCpu' = CpuReading /\ prevCpuAt' = now
  /\ cpuShare' = IF prevCpu # None /\ now > prevCpuAt /\ CpuMoved(TicksSince(prevCpu))
                   THEN Rate(prevCpu, CpuReading, TicksSince(prevCpu), prevCpuAt) ELSE None
  /\ UNCHANGED <<machine, clock, net, socVars, disk>>

CpuFails ==
  /\ phase = "cpu" /\ phase' = "interfaces"
  /\ UNCHANGED <<machine, clock, net, cpu, socVars, disk>>

-----------------------------------------------------------------------------
(* read_interfaces *)

NetReading(i) == [count |-> count[i], total |-> total[i], life |-> life[i], at |-> now]

\* Seeded fault: a counter that stood still gives no rate.
Moves(from, to) == \A x \in Directions : to[x] > from[x]

(* A rate needs time that has passed and a counter that has not gone back. *)
GoesForward(from, to) == \A x \in Directions : to[x] >= from[x]

CounterRates(from, to) == IF now > from.at /\ GoesForward(from.count, to.count)
                            THEN Rate(from, to, Grown(from.count, to.count), from.at) ELSE None

(* The route list may be cut short, or fail; an interface it leaves out keeps
   its old reading.                                                         *)
ReadInterfaces ==
  /\ phase = "interfaces" /\ phase' = "soc"
  /\ \E seen \in SUBSET (up \cap Interfaces) :
       /\ listed'  = seen
       /\ prevNet' = [i \in Interfaces |-> IF i \in seen THEN NetReading(i) ELSE prevNet[i]]
       /\ netRate' = [i \in Interfaces |-> IF i \in seen /\ prevNet[i] # None
                                             THEN CounterRates(prevNet[i], NetReading(i)) ELSE None]
  /\ UNCHANGED <<machine, clock, cpu, socVars, disk>>

-----------------------------------------------------------------------------
(* The SocCollector: opened at its first use, refused for good if that fails. *)

OpenSoc == soc' \in IF soc = "untried" THEN {"refused", "open"} ELSE {soc}

\* Seeded fault: the time is not taken if the difference cannot be made.
TimeOfUse(delta) == IF delta THEN now ELSE prevSocAt

TimeOfSample(delta) == now

(* bmtop_soc_sample: the first sample warms up, a failed one leaves the last in
   place, and one whose difference cannot be made replaces it all the same.  *)
ReadSoc ==
  /\ phase = "soc" /\ phase' = "disks" /\ OpenSoc
  /\ \/ soc' = "open" /\ \E delta \in BOOLEAN :
          /\ prevSoc' = [energy |-> energy, at |-> now] /\ prevSocAt' = TimeOfSample(delta)
          /\ power' = IF prevSoc # None /\ delta
                        THEN Rate(prevSoc, prevSoc', energy - prevSoc.energy, prevSocAt) ELSE None
     \/ UNCHANGED <<prevSoc, prevSocAt, power>>
  /\ UNCHANGED <<machine, clock, net, cpu, disk>>

-----------------------------------------------------------------------------
(* read_disk_io_rates and bmtop_read_disk_io *)

SumOver(volumes, counters) ==
  [x \in Directions |->
     SumFunction([v \in Volumes |-> IF v \in volumes THEN counters[v][x] ELSE 0])]

(* The sum over the APFS volumes whose statistics can be read, with the life of
   each; if there is none, over the block devices, which never leave.        *)
ApfsReading(volumes) ==
  [count |-> SumOver(volumes, count), total |-> SumOver(Volumes, total),
   lives |-> [v \in volumes |-> life[v]], whole |-> volumes = up \cap Volumes, at |-> now]
BlockReading ==
  [count |-> SumOver(Volumes, total), total |-> SumOver(Volumes, total),
   lives |-> [v \in {} |-> 0], whole |-> TRUE, at |-> now]

DiskReadings == {ApfsReading(volumes) : volumes \in (SUBSET (up \cap Volumes)) \ {{}}}
                  \cup {BlockReading}

ReadDisks ==
  /\ phase = "disks" /\ phase' = "idle"
  /\ \E reading \in DiskReadings :
       /\ prevDisk' = reading
       /\ diskRate' = IF prevDisk # None THEN CounterRates(prevDisk, reading) ELSE None
  /\ UNCHANGED <<machine, clock, net, cpu, socVars>>

DisksFail ==
  /\ phase = "disks" /\ phase' = "idle"
  /\ UNCHANGED <<machine, clock, net, cpu, socVars, disk>>

Next == \/ Machine
        \/ Begin \/ ReadCpu \/ CpuFails \/ ReadInterfaces \/ ReadSoc \/ ReadDisks \/ DisksFail

Spec == Init /\ [][Next]_vars

-----------------------------------------------------------------------------
(* Every variable has its type. *)
CountersTypeOK ==
  /\ up \subseteq Devices /\ life \in [Devices -> Nat]
  /\ count \in [Devices -> [Directions -> Nat]] /\ total \in [Devices -> [Directions -> Nat]]
  /\ ticks \in [CpuStates -> Nat] /\ energy \in Nat /\ events \in 0 .. MaxEvents
  /\ phase \in {"idle", "cpu", "interfaces", "soc", "disks"}
  /\ round \in 0 .. MaxRounds /\ now \in 0 .. round
  /\ listed \subseteq Interfaces /\ soc \in {"untried", "refused", "open"}
  /\ \A i \in Interfaces : netRate[i] # None => i \in listed /\ netRate[i].amount \in [Directions -> Nat]
  /\ diskRate # None => diskRate.amount \in [Directions -> Nat]
  /\ cpuShare # None => cpuShare.amount \in [CpuStates -> Nat]
  /\ power # None => power.amount \in Nat

AtMost(amount, from, to) == \A x \in DOMAIN amount : amount[x] \in 0 .. to[x] - from[x]

NetNeverExaggerated ==
  \A i \in Interfaces : netRate[i] # None =>
    AtMost(netRate[i].amount, netRate[i].from.total, netRate[i].to.total)

CpuNeverExaggerated ==
  cpuShare # None => AtMost(cpuShare.amount, cpuShare.from.real, cpuShare.to.real)

SameKind(from, to) == DOMAIN from.lives = {} <=> DOMAIN to.lives = {}

DisksNeverExaggerated ==
  diskRate # None /\ diskRate.from.whole /\ SameKind(diskRate.from, diskRate.to) =>
    AtMost(diskRate.amount, diskRate.from.total, diskRate.to.total)

(* A rate may miss traffic, but is never negative (unsigned 64-bit differences
   would be enormous) and never shows more than there was between its two
   readings: an interface that is made again, a volume that leaves or a tick
   counter that wraps gives no "astronomical number" (lib.rs:599, 876-877).  Of
   the disks this is said for two sums of one kind, the first over all volumes:
   one that was skipped, or read from the other kind, returns with its past.  *)
NeverExaggerated == NetNeverExaggerated /\ CpuNeverExaggerated /\ DisksNeverExaggerated

(* Amount and time are of the same two readings, whatever failed in between. *)
WindowsFit ==
  /\ \A rate \in ({netRate[i] : i \in Interfaces} \cup {diskRate}) \ {None} :
       rate.over = rate.to.at - rate.from.at /\ rate.over > 0
  /\ power # None => power.over = power.to.at - power.from.at

(* A rate is an amount that really passed over the time it is divided by. *)
RatesAreReal == NeverExaggerated /\ WindowsFit

(* An interface that stayed has a rate, and the exact one, as soon as time has
   passed, also if it stood still or was left out of the list for a while; so
   have disks whose sum is over the same volumes.                           *)
SteadyRates ==
  [][/\ phase = "interfaces" /\ phase' = "soc" =>
          \A i \in listed' :
            prevNet[i] # None /\ prevNet[i].life = life[i] /\ prevNet[i].at < now =>
              netRate'[i] = Rate(prevNet[i], prevNet'[i], Grown(prevNet[i].total, total[i]),
                                 prevNet[i].at)
     /\ phase = "disks" /\ prevDisk # None /\ prevDisk' # prevDisk =>
          (prevDisk.lives = prevDisk'.lives /\ prevDisk.at < now =>
             diskRate' = Rate(prevDisk, prevDisk', Grown(prevDisk.count, prevDisk'.count),
                              prevDisk.at))]_vars
=============================================================================
