---------------------------- MODULE CountersProofs ----------------------------
(* The rates of a snapshot, for any interfaces and volumes, any number of
   snapshots and any behaviour of the machine.

   A rate is made once and shown until the next snapshot begins; what has to be
   known is the reading it starts from.  The reading of a device that is still
   in the same life has missed exactly what has passed since; that of an earlier
   life has missed at least all of the present one.  The sum over the volumes is
   made of such readings, one of each volume, and the sum of the ticks is a
   remainder of what really passed.                                          *)
EXTENDS Counters, Charts, DataLemmas

(* The part of the type of the state the proofs need. *)
Counted ==
  /\ life \in [Devices -> Nat] /\ now \in Nat /\ ticks \in [CpuStates -> Nat]
  /\ count \in [Devices -> [Directions -> Nat]] /\ total \in [Devices -> [Directions -> Nat]]

IsReading(r) ==
  /\ r.life \in Nat /\ r.at \in Nat
  /\ r.count \in [Directions -> Nat] /\ r.total \in [Directions -> Nat]

(* What a device has counted since its reading was taken. *)
Missed(d, r) ==
  /\ r.life <= life[d]
  /\ \A x \in Directions :
       /\ r.life = life[d] => /\ count[d][x] >= r.count[x]
                              /\ count[d][x] - r.count[x] = total[d][x] - r.total[x]
       /\ r.life < life[d] => count[d][x] <= total[d][x] - r.total[x]

NetReadings == \A i \in Interfaces : prevNet[i] # None => IsReading(prevNet[i]) /\ Missed(i, prevNet[i])

CpuFollows ==
  prevCpu # None =>
    \A s \in CpuStates : /\ prevCpu.real[s] \in Nat /\ prevCpu.real[s] <= ticks[s]
                         /\ prevCpu.read[s] = (prevCpu.real[s] % Wrap)

(* A sum is of readings of all volumes, though it counts only some of them. *)
MadeOf(sum, volumes, samples) ==
  /\ DOMAIN sum.lives = volumes
  /\ sum.total = SumOver(Volumes, [v \in Volumes |-> samples[v].total])
  /\ sum.count = IF volumes = {} THEN sum.total
                 ELSE SumOver(volumes, [v \in Volumes |-> samples[v].count])
  /\ \A v \in volumes : sum.lives[v] = samples[v].life

(* A volume that a whole sum does not count has not come yet, or came later. *)
SinceThen(sum, volumes, samples) ==
  \A v \in Volumes :
    /\ IsReading(samples[v]) /\ Missed(v, samples[v])
    /\ sum.whole /\ volumes # {} /\ v \notin volumes => v \notin up \/ samples[v].life < life[v]

Follows(sum) == \E volumes \in SUBSET Volumes : \E samples :
                  MadeOf(sum, volumes, samples) /\ SinceThen(sum, volumes, samples)

DisksFollow == prevDisk # None => Follows(prevDisk)

(* The two clocks kept apart from their reading agree with it. *)
Clocks == /\ prevDisk # None => prevDisk.at \in Nat
          /\ prevSoc # None => prevSoc.at = prevSocAt

IInv == Counted /\ NetReadings /\ CpuFollows /\ DisksFollow /\ Clocks

(* A reading is never ahead of its device. *)
LEMMA MissedBounds ==
  ASSUME Counted, NEW d \in Devices, NEW r, IsReading(r), Missed(d, r), NEW x \in Directions
  PROVE  /\ r.total[x] <= total[d][x]
         /\ count[d][x] - r.count[x] <= total[d][x] - r.total[x]
<1>1. /\ count[d][x] \in Nat /\ total[d][x] \in Nat /\ life[d] \in Nat
      /\ r.count[x] \in Nat /\ r.total[x] \in Nat /\ r.life \in Nat
  BY DEF Counted, IsReading
<1>2. CASE r.life = life[d]
  <2>1. /\ count[d][x] >= r.count[x]
        /\ count[d][x] - r.count[x] = total[d][x] - r.total[x]
    BY <1>2 DEF Missed
  <2>. QED BY <1>1, <2>1
<1>3. CASE r.life < life[d]
  <2>1. count[d][x] <= total[d][x] - r.total[x]
    BY <1>3 DEF Missed
  <2>. QED BY <1>1, <2>1
<1>4. r.life <= life[d]
  BY DEF Missed
<1>. QED BY <1>1, <1>2, <1>3, <1>4

(* A reading that is taken now has missed nothing. *)
LEMMA FreshReading ==
  ASSUME Counted, NEW d \in Devices
  PROVE  IsReading(NetReading(d)) /\ Missed(d, NetReading(d))
BY DEF NetReading, IsReading, Missed, Counted

-------------------------------------------------------------------------------
(* The machine moves: readings stay, and fall behind by what has happened. *)

LEMMA MachineOrSnapshot ==
  ASSUME [Next]_vars
  PROVE  \/ Machine /\ UNCHANGED snapshots
         \/ UNCHANGED machine
<1>1. Machine => UNCHANGED snapshots
  BY DEF Machine, Disappear, Appear, Transfer, CpuWorks, ChipWorks, Happens
<1>2. Begin \/ ReadCpu \/ CpuFails \/ ReadInterfaces \/ ReadSoc \/ ReadDisks \/ DisksFail
        => UNCHANGED machine
  BY DEF Begin, ReadCpu, CpuFails, ReadInterfaces, ReadSoc, ReadDisks, DisksFail
<1>. QED BY <1>1, <1>2 DEF Next, vars

LEMMA CountedStep ==
  ASSUME Counted, [Next]_vars
  PROVE  Counted'
<1>1. CASE Machine /\ UNCHANGED snapshots
  <2>1. now' = now
    BY <1>1 DEF snapshots, clock
  <2>2. ASSUME NEW d \in Devices, NEW x \in Directions, Transfer(d, x) PROVE Counted'
    BY <2>1, <2>2 DEF Transfer, Counted
  <2>3. ASSUME NEW d \in Devices, Appear(d) PROVE Counted'
    BY <2>1, <2>3 DEF Appear, Counted, Zero
  <2>4. ASSUME NEW d \in Devices, Disappear(d) PROVE Counted'
    BY <2>1, <2>4 DEF Disappear, Counted
  <2>5. ASSUME NEW s \in CpuStates, CpuWorks(s) PROVE Counted'
    BY <2>1, <2>5 DEF CpuWorks, Counted
  <2>6. CASE ChipWorks
    BY <2>1, <2>6 DEF ChipWorks, Counted
  <2>. QED BY <1>1, <2>2, <2>3, <2>4, <2>5, <2>6 DEF Machine
<1>2. CASE UNCHANGED machine
  <2>1. now' \in Nat
    <3>1. Begin => now' \in {now, now + 1}
      BY DEF Begin
    <3>2. ReadCpu \/ CpuFails \/ ReadInterfaces \/ ReadSoc \/ ReadDisks \/ DisksFail
            \/ UNCHANGED vars => now' = now
      BY DEF ReadCpu, CpuFails, ReadInterfaces, ReadSoc, ReadDisks, DisksFail, clock, vars, snapshots
    <3>3. Machine => now' = now
      BY DEF Machine, Disappear, Appear, Transfer, CpuWorks, ChipWorks, Happens, snapshots, clock
    <3>. QED BY <3>1, <3>2, <3>3 DEF Next, Counted
  <2>. QED BY <1>2, <2>1 DEF machine, Counted
<1>. QED BY <1>1, <1>2, MachineOrSnapshot

LEMMA TransferMissed ==
  ASSUME Counted, NEW d \in Devices, NEW r, IsReading(r), Missed(d, r),
         NEW other \in Devices, NEW x \in Directions, Transfer(other, x)
  PROVE  Missed(d, r)' /\ life' = life /\ up' = up
<1>1. /\ life' = life /\ up' = up
      /\ count' = [count EXCEPT ![other][x] = @ + 1] /\ total' = [total EXCEPT ![other][x] = @ + 1]
  BY DEF Transfer
<1>2. \A y \in Directions :
        /\ count'[d][y] - count[d][y] = total'[d][y] - total[d][y]
        /\ count'[d][y] \in Nat /\ total'[d][y] \in Nat
        /\ count[d][y] \in Nat /\ total[d][y] \in Nat
        /\ total'[d][y] >= total[d][y]
  BY <1>1 DEF Counted
<1>3. r.life \in Nat /\ life[d] \in Nat /\ r.life <= life[d]
  BY DEF Missed, IsReading, Counted
<1>4. ASSUME NEW y \in Directions
      PROVE  /\ r.life = life[d] => /\ count'[d][y] >= r.count[y]
                                    /\ count'[d][y] - r.count[y] = total'[d][y] - r.total[y]
             /\ r.life < life[d] => count'[d][y] <= total'[d][y] - r.total[y]
  <2>1. r.count[y] \in Nat /\ r.total[y] \in Nat
    BY DEF IsReading
  <2>2. /\ r.life = life[d] => /\ count[d][y] >= r.count[y]
                               /\ count[d][y] - r.count[y] = total[d][y] - r.total[y]
        /\ r.life < life[d] => count[d][y] <= total[d][y] - r.total[y]
    BY DEF Missed
  <2>. QED BY <1>2, <2>1, <2>2
<1>. QED BY <1>1, <1>3, <1>4 DEF Missed

(* A device that comes back starts from zero: its old reading has missed nothing
   of the new life yet.                                                     *)
LEMMA AppearMissed ==
  ASSUME Counted, NEW d \in Devices, NEW r, IsReading(r), Missed(d, r), Appear(d)
  PROVE  Missed(d, r)' /\ r.life < life'[d]
<1>1. /\ total' = total /\ life'[d] = life[d] + 1 /\ \A x \in Directions : count'[d][x] = 0
  BY DEF Appear, Counted, Zero
<1>2. r.life \in Nat /\ life[d] \in Nat /\ r.life <= life[d]
  BY DEF Missed, IsReading, Counted
<1>3. r.life < life'[d] /\ r.life # life'[d] /\ r.life <= life'[d]
  BY <1>1, <1>2
<1>4. ASSUME NEW x \in Directions
      PROVE  0 <= total[d][x] - r.total[x]
  <2>1. r.total[x] <= total[d][x]
    BY MissedBounds
  <2>2. r.total[x] \in Nat /\ total[d][x] \in Nat
    BY DEF IsReading, Counted
  <2>. QED BY <2>1, <2>2
<1>. QED BY <1>1, <1>3, <1>4 DEF Missed

(* A reading goes on being right, and a device that is new has a new life. *)
LEMMA StillMissed ==
  ASSUME Counted, NEW d \in Devices, NEW r, IsReading(r), Missed(d, r), [Next]_vars
  PROVE  /\ Missed(d, r)'
         /\ d \in up' => d \in up \/ r.life < life'[d]
         /\ r.life < life[d] => r.life < life'[d]
<1>1. CASE UNCHANGED <<up, life, count, total>>
  BY <1>1 DEF Missed
<1>2. CASE Machine
  <2>1. ASSUME NEW other \in Devices, NEW x \in Directions, Transfer(other, x)
        PROVE  /\ Missed(d, r)' /\ life' = life /\ up' = up
    BY <2>1, TransferMissed
  <2>2. CASE Appear(d)
    BY <2>2, AppearMissed
  <2>3. ASSUME NEW other \in Devices, Appear(other), other # d
        PROVE  Missed(d, r)' /\ life'[d] = life[d] /\ (d \in up' => d \in up)
    <3>1. life'[d] = life[d] /\ count'[d] = count[d] /\ total' = total /\ (d \in up' => d \in up)
      BY <2>3 DEF Appear, Counted
    <3>. QED BY <3>1 DEF Missed
  <2>4. ASSUME NEW other \in Devices, Disappear(other)
        PROVE  Missed(d, r)' /\ life' = life /\ (d \in up' => d \in up)
    <3>1. UNCHANGED <<life, count, total>> /\ (d \in up' => d \in up)
      BY <2>4 DEF Disappear
    <3>. QED BY <3>1 DEF Missed
  <2>5. (\E s \in CpuStates : CpuWorks(s)) \/ ChipWorks => UNCHANGED <<up, life, count, total>>
    BY DEF CpuWorks, ChipWorks
  <2>. QED BY <1>1, <1>2, <2>1, <2>2, <2>3, <2>4, <2>5 DEF Machine
<1>. QED BY <1>1, <1>2, MachineOrSnapshot DEF machine

-------------------------------------------------------------------------------
(* The snapshot reads. *)

LEMMA NetStep ==
  ASSUME IInv, [Next]_vars
  PROVE  NetReadings'
<1>1. ASSUME NEW i \in Interfaces, prevNet'[i] # None
      PROVE  IsReading(prevNet'[i]) /\ Missed(i, prevNet[i])'
  <2>0. i \in Devices /\ Counted
    BY DEF Devices, IInv
  <2>1. CASE ReadInterfaces /\ prevNet'[i] = NetReading(i)
    <3>1. UNCHANGED <<life, count, total>>
      BY <2>1 DEF ReadInterfaces, machine
    <3>. QED BY <2>0, <2>1, <3>1, FreshReading DEF Missed
  <2>2. CASE prevNet'[i] = prevNet[i]
    <3>1. PICK r : r = prevNet[i]
      OBVIOUS
    <3>2. IsReading(r) /\ Missed(i, r)
      BY <1>1, <2>2, <3>1 DEF IInv, NetReadings
    <3>3. Missed(i, r)'
      BY <2>0, <3>2, StillMissed
    <3>4. r = prevNet'[i]
      BY <2>2, <3>1
    <3>5. Missed(i, prevNet[i])'
      BY <3>3, <3>4 DEF Missed
    <3>. QED BY <3>2, <3>4, <3>5
  <2>3. ReadInterfaces => prevNet'[i] = NetReading(i) \/ prevNet'[i] = prevNet[i]
    BY DEF ReadInterfaces
  <2>4. Machine \/ Begin \/ ReadCpu \/ CpuFails \/ ReadSoc \/ ReadDisks \/ DisksFail
          \/ UNCHANGED vars => prevNet' = prevNet
    BY DEF Machine, Disappear, Appear, Transfer, CpuWorks, ChipWorks, Happens, snapshots, net,
           Begin, ReadCpu, CpuFails, ReadSoc, ReadDisks, DisksFail, vars
  <2>. QED BY <2>1, <2>2, <2>3, <2>4 DEF Next
<1>. QED BY <1>1 DEF NetReadings, IsReading

LEMMA CpuStep ==
  ASSUME IInv, [Next]_vars
  PROVE  CpuFollows'
<1>1. \A s \in CpuStates : ticks[s] \in Nat
  BY DEF IInv, Counted
<1>2. CASE ReadCpu
  <2>1. ticks' = ticks /\ prevCpu' = CpuReading
    BY <1>2 DEF ReadCpu, machine
  <2>. QED BY <1>1, <2>1 DEF CpuFollows, CpuReading
<1>3. CASE prevCpu' = prevCpu /\ \A s \in CpuStates : ticks'[s] \in Nat /\ ticks[s] <= ticks'[s]
  <2>1. ASSUME NEW s \in CpuStates, prevCpu' # None
        PROVE  /\ prevCpu'.real[s] \in Nat /\ prevCpu'.real[s] <= ticks'[s]
               /\ prevCpu'.read[s] = (prevCpu'.real[s] % Wrap)
    <3>1. /\ prevCpu.real[s] \in Nat /\ prevCpu.real[s] <= ticks[s]
          /\ prevCpu.read[s] = (prevCpu.real[s] % Wrap)
      BY <1>3, <2>1 DEF IInv, CpuFollows
    <3>. QED BY <1>1, <1>3, <3>1
  <2>. QED BY <2>1 DEF CpuFollows
<1>4. Machine => /\ prevCpu' = prevCpu
                 /\ \A s \in CpuStates : ticks'[s] \in Nat /\ ticks[s] <= ticks'[s]
  <2>1. ASSUME NEW s \in CpuStates, CpuWorks(s)
        PROVE  \A t \in CpuStates : ticks'[t] \in Nat /\ ticks[t] <= ticks'[t]
    BY <2>1 DEF CpuWorks, IInv, Counted
  <2>2. ASSUME UNCHANGED ticks
        PROVE  \A t \in CpuStates : ticks'[t] \in Nat /\ ticks[t] <= ticks'[t]
    BY <1>1, <2>2
  <2>3. Machine => UNCHANGED ticks \/ \E s \in CpuStates : CpuWorks(s)
    BY DEF Machine, Disappear, Appear, Transfer, ChipWorks
  <2>4. Machine => prevCpu' = prevCpu
    BY DEF Machine, Disappear, Appear, Transfer, CpuWorks, ChipWorks, Happens, snapshots, cpu
  <2>. QED BY <2>1, <2>2, <2>3, <2>4
<1>5. Begin \/ CpuFails \/ ReadInterfaces \/ ReadSoc \/ ReadDisks \/ DisksFail \/ UNCHANGED vars
        => prevCpu' = prevCpu /\ ticks' = ticks
  BY DEF Begin, CpuFails, ReadInterfaces, ReadSoc, ReadDisks, DisksFail, machine, cpu, vars, snapshots
<1>. QED BY <1>1, <1>2, <1>3, <1>4, <1>5 DEF Next

(* What the sum over the volumes is made of, when it is made. *)
LEMMA FreshSum ==
  ASSUME Counted, NEW sum \in DiskReadings
  PROVE  LET samples == [v \in Volumes |-> NetReading(v)] IN
         /\ sum.at = now
         /\ DOMAIN sum.lives \in SUBSET Volumes
         /\ MadeOf(sum, DOMAIN sum.lives, samples)
         /\ SinceThen(sum, DOMAIN sum.lives, samples)
<1>. DEFINE samples == [v \in Volumes |-> NetReading(v)]
<1>1. \A v \in Volumes : /\ samples[v].total = total[v] /\ samples[v].count = count[v]
                         /\ samples[v].life = life[v]
  BY DEF NetReading
<1>2. \A v \in Volumes : IsReading(samples[v]) /\ Missed(v, samples[v])
  BY FreshReading DEF Devices
<1>3. SumOver(Volumes, [v \in Volumes |-> samples[v].total]) = SumOver(Volumes, total)
  BY <1>1 DEF SumOver
<1>4. ASSUME sum = BlockReading
      PROVE  /\ sum.at = now
             /\ DOMAIN sum.lives \in SUBSET Volumes
             /\ MadeOf(sum, DOMAIN sum.lives, samples)
             /\ SinceThen(sum, DOMAIN sum.lives, samples)
  <2>1. DOMAIN sum.lives = {} /\ sum.count = sum.total /\ sum.total = SumOver(Volumes, total)
        /\ sum.at = now
    BY <1>4 DEF BlockReading
  <2>. HIDE DEF samples
  <2>. QED BY <1>2, <1>3, <2>1 DEF MadeOf, SinceThen, samples
<1>5. ASSUME NEW volumes \in SUBSET (up \cap Volumes), volumes # {}, sum = ApfsReading(volumes)
      PROVE  /\ sum.at = now
             /\ DOMAIN sum.lives \in SUBSET Volumes
             /\ MadeOf(sum, DOMAIN sum.lives, samples)
             /\ SinceThen(sum, DOMAIN sum.lives, samples)
  <2>1. /\ sum.lives = [v \in volumes |-> life[v]] /\ DOMAIN sum.lives = volumes
        /\ sum.count = SumOver(volumes, count) /\ sum.total = SumOver(Volumes, total)
        /\ sum.whole = (volumes = up \cap Volumes) /\ sum.at = now
    BY <1>5 DEF ApfsReading
  <2>2. SumOver(volumes, [v \in Volumes |-> samples[v].count]) = SumOver(volumes, count)
    BY <1>1 DEF SumOver
  <2>3. MadeOf(sum, volumes, samples)
    <3>. HIDE DEF samples
    <3>. QED BY <1>1, <1>3, <1>5, <2>1, <2>2 DEF MadeOf
  <2>4. SinceThen(sum, volumes, samples)
    <3>1. ASSUME NEW v \in Volumes, sum.whole, v \notin volumes PROVE v \notin up
      BY <2>1, <3>1
    <3>. HIDE DEF samples
    <3>. QED BY <1>2, <3>1 DEF SinceThen
  <2>. HIDE DEF samples
  <2>. QED BY <1>5, <2>1, <2>3, <2>4
<1>6. \/ sum = BlockReading
      \/ \E volumes \in SUBSET (up \cap Volumes) : volumes # {} /\ sum = ApfsReading(volumes)
  BY Zenon DEF DiskReadings
<1>. HIDE DEF samples
<1>7. /\ sum.at = now
      /\ DOMAIN sum.lives \in SUBSET Volumes
      /\ MadeOf(sum, DOMAIN sum.lives, samples)
      /\ SinceThen(sum, DOMAIN sum.lives, samples)
  <2>1. CASE sum = BlockReading
    BY <1>4, <2>1
  <2>2. ASSUME NEW volumes \in SUBSET (up \cap Volumes), volumes # {}, sum = ApfsReading(volumes)
        PROVE  /\ sum.at = now
               /\ DOMAIN sum.lives \in SUBSET Volumes
               /\ MadeOf(sum, DOMAIN sum.lives, samples)
               /\ SinceThen(sum, DOMAIN sum.lives, samples)
    BY <1>5, <2>2
  <2>. QED BY <1>6, <2>1, <2>2
<1>. QED BY <1>7 DEF samples

LEMMA FollowsNext ==
  ASSUME NEW sum, NEW volumes \in SUBSET Volumes, NEW samples, prevDisk' = sum,
         MadeOf(sum, volumes, samples), SinceThen(sum, volumes, samples)'
  PROVE  Follows(prevDisk)'
<1>1. MadeOf(sum, volumes, samples)'
  BY DEF MadeOf, SumOver
<1>2. MadeOf(prevDisk, volumes, samples)'
  BY <1>1 DEF MadeOf
<1>3. SinceThen(prevDisk, volumes, samples)'
  BY DEF SinceThen
<1>. QED BY <1>2, <1>3 DEF Follows

LEMMA DiskStep ==
  ASSUME IInv, [Next]_vars
  PROVE  DisksFollow'
<1>1. CASE ReadDisks
  <2>1. PICK sum \in DiskReadings : prevDisk' = sum
    BY <1>1 DEF ReadDisks
  <2>2. PICK samples : /\ DOMAIN sum.lives \in SUBSET Volumes
                       /\ MadeOf(sum, DOMAIN sum.lives, samples)
                       /\ SinceThen(sum, DOMAIN sum.lives, samples)
    BY FreshSum DEF IInv
  <2>3. UNCHANGED <<life, count, total, up>>
    BY <1>1 DEF ReadDisks, machine
  <2>4. SinceThen(sum, DOMAIN sum.lives, samples)'
    BY <2>2, <2>3 DEF SinceThen, Missed
  <2>5. Follows(prevDisk)'
    BY <2>1, <2>2, <2>4, FollowsNext
  <2>. QED BY <2>5 DEF DisksFollow
<1>2. ASSUME prevDisk' = prevDisk, prevDisk' # None PROVE Follows(prevDisk)'
  <2>1. PICK sum : sum = prevDisk
    OBVIOUS
  <2>2. PICK volumes, samples :
          /\ volumes \in SUBSET Volumes
          /\ MadeOf(sum, volumes, samples) /\ SinceThen(sum, volumes, samples)
    BY <1>2, <2>1 DEF IInv, DisksFollow, Follows
  <2>3. ASSUME NEW v \in Volumes
        PROVE  /\ IsReading(samples[v]) /\ Missed(v, samples[v])'
               /\ sum.whole /\ volumes # {} /\ v \notin volumes
                    => v \notin up' \/ samples[v].life < life'[v]
    <3>1. PICK r : r = samples[v]
      OBVIOUS
    <3>2. IsReading(r) /\ Missed(v, r) /\ v \in Devices /\ Counted
      BY <2>2, <3>1 DEF SinceThen, Devices, IInv
    <3>3. sum.whole /\ volumes # {} /\ v \notin volumes => v \notin up \/ r.life < life[v]
      BY <2>2, <3>1 DEF SinceThen
    <3>4. /\ Missed(v, r)' /\ (v \in up' => v \in up \/ r.life < life'[v])
          /\ r.life < life[v] => r.life < life'[v]
      BY <3>2, StillMissed
    <3>. QED BY <3>1, <3>2, <3>3, <3>4
  <2>4. SinceThen(sum, volumes, samples)'
    BY <2>3 DEF SinceThen, IsReading
  <2>5. prevDisk' = sum
    BY <1>2, <2>1
  <2>. QED BY <2>2, <2>4, <2>5, FollowsNext
<1>3. Machine \/ Begin \/ ReadCpu \/ CpuFails \/ ReadInterfaces \/ ReadSoc \/ DisksFail
        \/ UNCHANGED vars => prevDisk' = prevDisk
  BY DEF Machine, Disappear, Appear, Transfer, CpuWorks, ChipWorks, Happens, snapshots, disk,
         Begin, ReadCpu, CpuFails, ReadInterfaces, ReadSoc, DisksFail, vars
<1>. QED BY <1>1, <1>2, <1>3 DEF Next, DisksFollow

LEMMA InvariantStep ==
  ASSUME IInv, [Next]_vars
  PROVE  IInv'
<1>1. Counted'
  BY CountedStep DEF IInv
<1>2. Clocks'
  <2>1. CASE ReadDisks
    <3>1. /\ prevDisk' \in DiskReadings /\ UNCHANGED <<prevSoc, prevSocAt>>
      BY <2>1 DEF ReadDisks, socVars
    <3>2. prevDisk'.at = now /\ now \in Nat
      BY <3>1, FreshSum DEF IInv, Counted
    <3>. QED BY <3>1, <3>2 DEF IInv, Clocks
  <2>2. CASE ReadSoc
    BY <2>2 DEF ReadSoc, TimeOfSample, disk, IInv, Clocks
  <2>3. Machine \/ Begin \/ ReadCpu \/ CpuFails \/ ReadInterfaces \/ DisksFail \/ UNCHANGED vars
          => UNCHANGED <<prevDisk, prevSoc, prevSocAt>>
    BY DEF Machine, Disappear, Appear, Transfer, CpuWorks, ChipWorks, Happens, snapshots, disk,
           socVars, Begin, ReadCpu, CpuFails, ReadInterfaces, DisksFail, vars
  <2>. QED BY <2>1, <2>2, <2>3 DEF Next, IInv, Clocks
<1>. QED BY <1>1, <1>2, NetStep, CpuStep, DiskStep DEF IInv

LEMMA InvariantHolds == Init => IInv
BY DEF Init, IInv, Counted, NetReadings, CpuFollows, DisksFollow, Clocks, NoRates, Zero

(* The readings the next rates start from are right: each device knows what it
   has missed over all its lives, a sum over the volumes is of such readings, a
   tick counter is a remainder of what passed, and each clock is that of its
   reading (read_interfaces, read_disk_io_rates, read_cpu, bmtop_soc_sample). *)
THEOREM CountersInvariant == Spec => []IInv
<1>. QED BY InvariantHolds, InvariantStep, PTL DEF Spec

-------------------------------------------------------------------------------
(* Rates, when they are made. *)

LEMMA RatesOfInterfaces ==
  ASSUME IInv, NEW i \in Interfaces, prevNet[i] # None,
         CounterRates(prevNet[i], NetReading(i)) # None
  PROVE  LET rate == CounterRates(prevNet[i], NetReading(i)) IN
         /\ AtMost(rate.amount, rate.from.total, rate.to.total)
         /\ rate.over = rate.to.at - rate.from.at /\ rate.over > 0
<1>1. IsReading(prevNet[i]) /\ Missed(i, prevNet[i])
  BY DEF IInv, NetReadings
<1>2. now > prevNet[i].at /\ GoesForward(prevNet[i].count, count[i])
  BY DEF CounterRates, NetReading
<1>3. CounterRates(prevNet[i], NetReading(i))
        = Rate(prevNet[i], NetReading(i), Grown(prevNet[i].count, count[i]), prevNet[i].at)
  BY <1>2 DEF CounterRates, NetReading
<1>4. \A x \in Directions : count[i][x] - prevNet[i].count[x] <= total[i][x] - prevNet[i].total[x]
  BY <1>1, MissedBounds DEF IInv, Devices
<1>5. DOMAIN count[i] = Directions
  BY DEF IInv, Counted, Devices
<1>6. \A x \in Directions :
        count[i][x] - prevNet[i].count[x] \in 0 .. total[i][x] - prevNet[i].total[x]
  <2>1. \A x \in Directions : /\ count[i][x] \in Nat /\ prevNet[i].count[x] \in Nat
                              /\ total[i][x] \in Nat /\ prevNet[i].total[x] \in Nat
    BY <1>1 DEF IInv, Counted, Devices, IsReading
  <2>2. \A x \in Directions : prevNet[i].count[x] <= count[i][x]
    BY <1>2, <1>5 DEF GoesForward
  <2>. QED BY <1>4, <2>1, <2>2
<1>7. AtMost(Grown(prevNet[i].count, count[i]), prevNet[i].total, total[i])
  BY <1>5, <1>6 DEF AtMost, Grown
<1>. QED BY <1>1, <1>2, <1>3, <1>7 DEF Rate, NetReading, IsReading, IInv, Counted

(* An interface that stayed lost nothing: its rate is made, and is exact. *)
LEMMA SteadyInterface ==
  ASSUME IInv, NEW i \in Interfaces, prevNet[i] # None,
         prevNet[i].life = life[i], prevNet[i].at < now
  PROVE  CounterRates(prevNet[i], NetReading(i))
           = Rate(prevNet[i], NetReading(i), Grown(prevNet[i].total, total[i]), prevNet[i].at)
<1>1. IsReading(prevNet[i]) /\ Missed(i, prevNet[i])
  BY DEF IInv, NetReadings
<1>2. DOMAIN count[i] = Directions /\ DOMAIN total[i] = Directions
  BY DEF IInv, Counted, Devices
<1>3. \A x \in Directions : /\ count[i][x] >= prevNet[i].count[x]
                            /\ count[i][x] - prevNet[i].count[x] = total[i][x] - prevNet[i].total[x]
  BY <1>1 DEF Missed
<1>4. GoesForward(prevNet[i].count, count[i])
  BY <1>2, <1>3 DEF GoesForward
<1>5. Grown(prevNet[i].count, count[i]) = Grown(prevNet[i].total, total[i])
  BY <1>2, <1>3 DEF Grown
<1>6. now > prevNet[i].at
  BY <1>1 DEF IsReading, IInv, Counted
<1>. QED BY <1>4, <1>5, <1>6 DEF CounterRates, NetReading

(* The counters of the processor wrap, and a difference that would be negative
   counts as nothing: no state shows more ticks than there were.             *)
LEMMA CpuShares ==
  ASSUME IInv, prevCpu # None
  PROVE  AtMost(TicksSince(prevCpu), prevCpu.real, ticks)
<1>1. ASSUME NEW s \in CpuStates
      PROVE  TicksSince(prevCpu)[s] \in 0 .. ticks[s] - prevCpu.real[s]
  <2>1. /\ prevCpu.real[s] \in Nat /\ prevCpu.real[s] <= ticks[s] /\ ticks[s] \in Nat
        /\ prevCpu.read[s] = (prevCpu.real[s] % Wrap)
    BY DEF IInv, CpuFollows, Counted
  <2>2. Wrap \in Nat \ {0}
    BY CountersAssumption
  <2>3. (ticks[s] % Wrap) - (prevCpu.real[s] % Wrap) <= ticks[s] - prevCpu.real[s]
    BY <2>1, <2>2, RemainderGap
  <2>4. (ticks[s] % Wrap) \in Int /\ (prevCpu.real[s] % Wrap) \in Int
    BY <2>1, <2>2, Division
  <2>5. TicksSince(prevCpu)[s] = SaturatingSub(ticks[s] % Wrap, prevCpu.real[s] % Wrap)
    BY <2>1 DEF TicksSince, CpuReading
  <2>. QED BY <2>1, <2>3, <2>4, <2>5 DEF SaturatingSub
<1>. QED BY <1>1 DEF AtMost, TicksSince

(* The terms of a sum over some of the volumes. *)
Terms(volumes, counters, x) == [v \in Volumes |-> IF v \in volumes THEN counters[v][x] ELSE 0]

LEMMA TermsSummed ==
  ASSUME NEW volumes \in SUBSET Volumes, NEW counters
  PROVE  SumOver(volumes, counters) = [x \in Directions |-> SumFunction(Terms(volumes, counters, x))]
BY DEF SumOver, Terms

(* Two sums that count the same volumes, each still in its life, go forward. *)
LEMMA SteadyDisks ==
  ASSUME IInv, prevDisk # None, NEW sum \in DiskReadings, prevDisk.lives = sum.lives,
         prevDisk.at < now
  PROVE  CounterRates(prevDisk, sum)
           = Rate(prevDisk, sum, Grown(prevDisk.count, sum.count), prevDisk.at)
<1>1. PICK volumes, old :
        /\ volumes \in SUBSET Volumes
        /\ MadeOf(prevDisk, volumes, old) /\ SinceThen(prevDisk, volumes, old)
  BY DEF IInv, DisksFollow, Follows
<1>2. PICK new : /\ new = [v \in Volumes |-> NetReading(v)] /\ sum.at = now
                 /\ MadeOf(sum, DOMAIN sum.lives, new)
  BY FreshSum DEF IInv
<1>3. DOMAIN sum.lives = volumes
  BY <1>1 DEF MadeOf
<1>. DEFINE was == [v \in Volumes |-> old[v].count]  is == [v \in Volumes |-> new[v].count]
            before == [v \in Volumes |-> old[v].total]  after == [v \in Volumes |-> new[v].total]
<1>4. ASSUME NEW v \in Volumes
      PROVE  /\ IsReading(old[v]) /\ Missed(v, old[v])
             /\ v \in Devices /\ new[v].count = count[v] /\ new[v].total = total[v]
             /\ v \in volumes => old[v].life = life[v]
  <2>1. /\ IsReading(old[v]) /\ Missed(v, old[v]) /\ v \in Devices
        /\ new[v].count = count[v] /\ new[v].total = total[v] /\ new[v].life = life[v]
    BY <1>1, <1>2 DEF SinceThen, NetReading, Devices
  <2>2. v \in volumes => prevDisk.lives[v] = old[v].life /\ sum.lives[v] = new[v].life
    BY <1>1, <1>2, <1>3 DEF MadeOf
  <2>. QED BY <2>1, <2>2
<1>5. \A v \in Volumes, x \in Directions :
        /\ old[v].count[x] \in Nat /\ new[v].count[x] \in Nat
        /\ old[v].total[x] \in Nat /\ new[v].total[x] \in Nat
  BY <1>4 DEF IsReading, IInv, Counted
<1>6. ASSUME NEW x \in Directions
      PROVE  /\ SumFunction(Terms(volumes, was, x)) <= SumFunction(Terms(volumes, is, x))
             /\ SumFunction(Terms(Volumes, before, x)) <= SumFunction(Terms(Volumes, after, x))
  <2>1. /\ Terms(volumes, was, x) \in [Volumes -> Int] /\ Terms(volumes, is, x) \in [Volumes -> Int]
        /\ Terms(Volumes, before, x) \in [Volumes -> Int] /\ Terms(Volumes, after, x) \in [Volumes -> Int]
    BY <1>5 DEF Terms
  <2>2. ASSUME NEW v \in Volumes
        PROVE  Terms(volumes, was, x)[v] <= Terms(volumes, is, x)[v]
    <3>1. CASE v \in volumes
      <4>1. count[v][x] >= old[v].count[x]
        BY <1>4, <3>1 DEF Missed
      <4>. QED BY <1>4, <1>5, <3>1, <4>1 DEF Terms
    <3>2. CASE v \notin volumes
      BY <3>2 DEF Terms
    <3>. QED BY <3>1, <3>2
  <2>3. ASSUME NEW v \in Volumes
        PROVE  Terms(Volumes, before, x)[v] <= Terms(Volumes, after, x)[v]
    <3>1. old[v].total[x] <= total[v][x]
      BY <1>4, MissedBounds DEF IInv
    <3>. QED BY <1>4, <3>1 DEF Terms
  <2>. HIDE DEF was, is, before, after
  <2>4. ASSUME NEW f \in [Volumes -> Int], NEW g \in [Volumes -> Int], \A v \in Volumes : f[v] <= g[v]
        PROVE  SumFunction(f) <= SumFunction(g)
    <3>1. \A v \in Volumes : f[v] - g[v] <= f[v] - f[v]
      BY <2>4
    <3>2. /\ SumFunction(f) - SumFunction(g) <= SumFunction(f) - SumFunction(f)
          /\ SumFunction(f) \in Int /\ SumFunction(g) \in Int
      BY <3>1, SumGap, CountersAssumption
    <3>. QED BY <3>2
  <2>. QED BY <2>1, <2>2, <2>3, <2>4
<1>7. \A x \in Directions : sum.count[x] >= prevDisk.count[x] /\ DOMAIN sum.count = Directions
  <2>1. /\ SumOver(volumes, was) = [x \in Directions |-> SumFunction(Terms(volumes, was, x))]
        /\ SumOver(volumes, is) = [x \in Directions |-> SumFunction(Terms(volumes, is, x))]
        /\ SumOver(Volumes, before) = [x \in Directions |-> SumFunction(Terms(Volumes, before, x))]
        /\ SumOver(Volumes, after) = [x \in Directions |-> SumFunction(Terms(Volumes, after, x))]
    BY <1>1, TermsSummed
  <2>2. \/ volumes = {} /\ prevDisk.count = SumOver(Volumes, before) /\ sum.count = SumOver(Volumes, after)
        \/ volumes # {} /\ prevDisk.count = SumOver(volumes, was) /\ sum.count = SumOver(volumes, is)
    BY <1>1, <1>2, <1>3 DEF MadeOf
  <2>. HIDE DEF was, is, before, after
  <2>. QED BY <1>6, <2>1, <2>2
<1>8. GoesForward(prevDisk.count, sum.count) /\ now > prevDisk.at
  BY <1>7 DEF GoesForward, IInv, Clocks, Counted
<1>. QED BY <1>2, <1>8 DEF CounterRates

(* The rate of two sums of one kind, the first over all volumes that were there:
   a volume that the second counts anew has come back with less than it moved. *)
LEMMA RatesOfDisks ==
  ASSUME IInv, prevDisk # None, prevDisk.whole, NEW sum \in DiskReadings,
         SameKind(prevDisk, sum), GoesForward(prevDisk.count, sum.count)
  PROVE  AtMost(Grown(prevDisk.count, sum.count), prevDisk.total, sum.total)
<1>1. PICK volumes, old :
        /\ volumes \in SUBSET Volumes
        /\ MadeOf(prevDisk, volumes, old) /\ SinceThen(prevDisk, volumes, old)
  BY DEF IInv, DisksFollow, Follows
<1>2. PICK new : /\ new = [v \in Volumes |-> NetReading(v)]
                 /\ DOMAIN sum.lives \in SUBSET Volumes
                 /\ MadeOf(sum, DOMAIN sum.lives, new)
  BY FreshSum DEF IInv
<1>. DEFINE counted == DOMAIN sum.lives
            was == [v \in Volumes |-> old[v].count]  is == [v \in Volumes |-> new[v].count]
            before == [v \in Volumes |-> old[v].total]  after == [v \in Volumes |-> new[v].total]
<1>3. volumes = {} <=> counted = {}
  BY <1>1 DEF MadeOf, SameKind
<1>4. ASSUME NEW v \in Volumes
      PROVE  /\ IsReading(old[v]) /\ Missed(v, old[v]) /\ v \in Devices
             /\ new[v].count = count[v] /\ new[v].total = total[v]
  BY <1>1, <1>2 DEF SinceThen, NetReading, Devices
<1>5. \A v \in Volumes, x \in Directions :
        /\ old[v].count[x] \in Nat /\ new[v].count[x] \in Nat
        /\ old[v].total[x] \in Nat /\ new[v].total[x] \in Nat
  BY <1>4 DEF IsReading, IInv, Counted
<1>6. counted \in SUBSET up
  <2>1. sum = BlockReading => counted = {}
    BY DEF BlockReading
  <2>2. ASSUME NEW some \in SUBSET (up \cap Volumes), sum = ApfsReading(some) PROVE counted = some
    BY <2>2 DEF ApfsReading
  <2>3. \/ sum = BlockReading
        \/ \E some \in SUBSET (up \cap Volumes) : sum = ApfsReading(some)
    BY Zenon DEF DiskReadings
  <2>. HIDE DEF counted
  <2>. QED BY <2>1, <2>2, <2>3
<1>7. ASSUME NEW v \in Volumes, NEW x \in Directions, volumes # {}
      PROVE  Terms(counted, is, x)[v] - Terms(volumes, was, x)[v]
               <= Terms(Volumes, after, x)[v] - Terms(Volumes, before, x)[v]
  <2>1. /\ Terms(Volumes, after, x)[v] = total[v][x]
        /\ Terms(Volumes, before, x)[v] = old[v].total[x]
        /\ Terms(counted, is, x)[v] = IF v \in counted THEN count[v][x] ELSE 0
        /\ Terms(volumes, was, x)[v] = IF v \in volumes THEN old[v].count[x] ELSE 0
    BY <1>4 DEF Terms
  <2>2. /\ old[v].total[x] <= total[v][x]
        /\ count[v][x] - old[v].count[x] <= total[v][x] - old[v].total[x]
    BY <1>4, MissedBounds DEF IInv
  <2>3. /\ old[v].count[x] \in Nat /\ count[v][x] \in Nat
        /\ old[v].total[x] \in Nat /\ total[v][x] \in Nat
    BY <1>4, <1>5
  <2>4. CASE v \in volumes
    BY <2>1, <2>2, <2>3, <2>4
  <2>5. CASE v \notin volumes /\ v \notin counted
    BY <2>1, <2>2, <2>3, <2>5
  <2>6. CASE v \notin volumes /\ v \in counted
    <3>1. old[v].life < life[v]
      BY <1>1, <1>6, <1>7, <2>6 DEF SinceThen
    <3>2. count[v][x] <= total[v][x] - old[v].total[x]
      BY <1>4, <3>1 DEF Missed
    <3>. QED BY <2>1, <2>3, <2>6, <3>2
  <2>. QED BY <2>4, <2>5, <2>6
<1>8. ASSUME NEW x \in Directions
      PROVE  /\ SumFunction(Terms(counted, is, x)) \in Int
             /\ SumFunction(Terms(volumes, was, x)) \in Int
             /\ SumFunction(Terms(Volumes, after, x)) \in Int
             /\ SumFunction(Terms(Volumes, before, x)) \in Int
             /\ volumes # {} =>
                  SumFunction(Terms(counted, is, x)) - SumFunction(Terms(volumes, was, x))
                    <= SumFunction(Terms(Volumes, after, x)) - SumFunction(Terms(Volumes, before, x))
  <2>1. /\ Terms(counted, is, x) \in [Volumes -> Int] /\ Terms(volumes, was, x) \in [Volumes -> Int]
        /\ Terms(Volumes, after, x) \in [Volumes -> Int]
        /\ Terms(Volumes, before, x) \in [Volumes -> Int]
    BY <1>2, <1>5 DEF Terms
  <2>. HIDE DEF counted, was, is, before, after
  <2>2. ASSUME NEW f \in [Volumes -> Int] PROVE SumFunction(f) \in Int
    <3>1. \A v \in Volumes : f[v] - f[v] <= f[v] - f[v]
      OBVIOUS
    <3>. QED BY <3>1, SumGap, CountersAssumption
  <2>3. ASSUME volumes # {}
        PROVE  SumFunction(Terms(counted, is, x)) - SumFunction(Terms(volumes, was, x))
                 <= SumFunction(Terms(Volumes, after, x)) - SumFunction(Terms(Volumes, before, x))
    <3>1. \A v \in Volumes :
            Terms(counted, is, x)[v] - Terms(volumes, was, x)[v]
              <= Terms(Volumes, after, x)[v] - Terms(Volumes, before, x)[v]
      BY <1>7, <2>3
    <3>. QED BY <2>1, <3>1, SumGap, CountersAssumption
  <2>. QED BY <2>1, <2>2, <2>3
<1>9. ASSUME NEW x \in Directions
      PROVE  /\ DOMAIN sum.count = Directions
             /\ sum.count[x] \in Int /\ prevDisk.count[x] \in Int
             /\ sum.total[x] \in Int /\ prevDisk.total[x] \in Int
             /\ sum.count[x] - prevDisk.count[x] <= sum.total[x] - prevDisk.total[x]
  <2>1. /\ SumOver(volumes, was) = [y \in Directions |-> SumFunction(Terms(volumes, was, y))]
        /\ SumOver(counted, is) = [y \in Directions |-> SumFunction(Terms(counted, is, y))]
        /\ SumOver(Volumes, before) = [y \in Directions |-> SumFunction(Terms(Volumes, before, y))]
        /\ SumOver(Volumes, after) = [y \in Directions |-> SumFunction(Terms(Volumes, after, y))]
    BY <1>1, <1>2, TermsSummed
  <2>2. /\ prevDisk.total = SumOver(Volumes, before) /\ sum.total = SumOver(Volumes, after)
        /\ volumes = {} => prevDisk.count = prevDisk.total /\ sum.count = sum.total
        /\ volumes # {} => prevDisk.count = SumOver(volumes, was) /\ sum.count = SumOver(counted, is)
    BY <1>1, <1>2, <1>3 DEF MadeOf
  <2>. HIDE DEF counted, was, is, before, after
  <2>3. CASE volumes = {}
    BY <1>8, <2>1, <2>2, <2>3
  <2>4. CASE volumes # {}
    BY <1>8, <2>1, <2>2, <2>4
  <2>. QED BY <2>3, <2>4
<1>10. \A x \in Directions : prevDisk.count[x] <= sum.count[x]
  BY <1>9 DEF GoesForward
<1>11. ASSUME NEW x \in Directions
       PROVE  sum.count[x] - prevDisk.count[x] \in 0 .. sum.total[x] - prevDisk.total[x]
  BY <1>9, <1>10
<1>12. DOMAIN sum.count = Directions
  BY <1>9 DEF Directions
<1>. QED BY <1>11, <1>12 DEF AtMost, Grown

-------------------------------------------------------------------------------

(* Whatever leaves, comes back under its name, wraps, or cannot be read in
   between, no snapshot shows more than there was between its two readings
   (counter_rate, read_disk_io_rates, read_cpu).                             *)
THEOREM RatesAreTrue == Spec => []NeverExaggerated
<1>1. Init => NeverExaggerated
  BY DEF Init, NeverExaggerated, NetNeverExaggerated, CpuNeverExaggerated, DisksNeverExaggerated, NoRates
<1>2. IInv /\ NeverExaggerated /\ [Next]_vars => NeverExaggerated'
  <2>. SUFFICES ASSUME IInv, NeverExaggerated, [Next]_vars
                PROVE  NeverExaggerated'
    OBVIOUS
  <2>1. NetNeverExaggerated'
    <3>1. CASE Begin
      BY <3>1 DEF Begin, NetNeverExaggerated, NoRates
    <3>2. CASE ReadInterfaces
      BY <3>2, RatesOfInterfaces DEF ReadInterfaces, NetNeverExaggerated
    <3>3. Machine \/ ReadCpu \/ CpuFails \/ ReadSoc \/ ReadDisks \/ DisksFail \/ UNCHANGED vars
            => UNCHANGED netRate
      BY DEF Machine, Disappear, Appear, Transfer, CpuWorks, ChipWorks, Happens,
             ReadCpu, CpuFails, ReadSoc, ReadDisks, DisksFail, vars, snapshots, net
    <3>. QED BY <3>1, <3>2, <3>3 DEF Next, NeverExaggerated, NetNeverExaggerated
  <2>2. CpuNeverExaggerated'
    <3>1. CASE Begin
      BY <3>1 DEF Begin, CpuNeverExaggerated
    <3>2. CASE ReadCpu
      <4>1. ASSUME cpuShare' # None
            PROVE  /\ prevCpu # None
                   /\ cpuShare' = Rate(prevCpu, CpuReading, TicksSince(prevCpu), prevCpuAt)
        BY <3>2, <4>1 DEF ReadCpu
      <4>2. ASSUME cpuShare' # None
            PROVE  AtMost(cpuShare'.amount, cpuShare'.from.real, cpuShare'.to.real)
        <5>1. AtMost(TicksSince(prevCpu), prevCpu.real, ticks)
          BY <4>1, <4>2, CpuShares
        <5>2. /\ cpuShare'.amount = TicksSince(prevCpu) /\ cpuShare'.from.real = prevCpu.real
              /\ cpuShare'.to.real = ticks
          BY <4>1, <4>2 DEF Rate, CpuReading
        <5>. QED BY <5>1, <5>2
      <4>. QED BY <4>2 DEF CpuNeverExaggerated, AtMost
    <3>3. Machine \/ CpuFails \/ ReadInterfaces \/ ReadSoc \/ ReadDisks \/ DisksFail \/ UNCHANGED vars
            => UNCHANGED cpuShare
      BY DEF Machine, Disappear, Appear, Transfer, CpuWorks, ChipWorks, Happens,
             ReadInterfaces, CpuFails, ReadSoc, ReadDisks, DisksFail, vars, snapshots, cpu
    <3>. QED BY <3>1, <3>2, <3>3 DEF Next, NeverExaggerated, CpuNeverExaggerated
  <2>3. DisksNeverExaggerated'
    <3>1. CASE Begin
      BY <3>1 DEF Begin, DisksNeverExaggerated
    <3>2. CASE ReadDisks
      <4>1. PICK sum \in DiskReadings :
              diskRate' = IF prevDisk # None THEN CounterRates(prevDisk, sum) ELSE None
        BY <3>2 DEF ReadDisks
      <4>2. ASSUME diskRate' # None, diskRate'.from.whole, SameKind(diskRate'.from, diskRate'.to)
            PROVE  AtMost(diskRate'.amount, diskRate'.from.total, diskRate'.to.total)
        <5>1. /\ prevDisk # None /\ GoesForward(prevDisk.count, sum.count)
              /\ diskRate' = Rate(prevDisk, sum, Grown(prevDisk.count, sum.count), prevDisk.at)
          BY <4>1, <4>2 DEF CounterRates
        <5>2. /\ diskRate'.from = prevDisk /\ diskRate'.to = sum
              /\ diskRate'.amount = Grown(prevDisk.count, sum.count)
          BY <5>1 DEF Rate
        <5>. QED BY <4>2, <5>1, <5>2, RatesOfDisks
      <4>. QED BY <4>2 DEF DisksNeverExaggerated, AtMost, SameKind
    <3>3. Machine \/ ReadCpu \/ CpuFails \/ ReadInterfaces \/ ReadSoc \/ DisksFail \/ UNCHANGED vars
            => UNCHANGED diskRate
      BY DEF Machine, Disappear, Appear, Transfer, CpuWorks, ChipWorks, Happens,
             ReadInterfaces, CpuFails, ReadSoc, ReadCpu, DisksFail, vars, snapshots, disk
    <3>. QED BY <3>1, <3>2, <3>3 DEF Next, NeverExaggerated, DisksNeverExaggerated
  <2>. QED BY <2>1, <2>2, <2>3 DEF NeverExaggerated
<1>. QED BY <1>1, <1>2, CountersInvariant, PTL DEF Spec

(* An interface that stayed shows all that passed since its last reading, and
   disks whose sum is over the same volumes always show a rate.              *)
THEOREM RatesAreSteady == Spec => SteadyRates
<1>. DEFINE Step ==
       /\ phase = "interfaces" /\ phase' = "soc" =>
            \A i \in listed' :
              prevNet[i] # None /\ prevNet[i].life = life[i] /\ prevNet[i].at < now =>
                netRate'[i] = Rate(prevNet[i], prevNet'[i], Grown(prevNet[i].total, total[i]),
                                   prevNet[i].at)
       /\ phase = "disks" /\ prevDisk # None /\ prevDisk' # prevDisk =>
            (prevDisk.lives = prevDisk'.lives /\ prevDisk.at < now =>
               diskRate' = Rate(prevDisk, prevDisk', Grown(prevDisk.count, prevDisk'.count),
                                prevDisk.at))
<1>1. IInv /\ [Next]_vars => [Step]_vars
  <2>. SUFFICES ASSUME IInv, [Next]_vars
                PROVE  Step
    BY Zenon
  <2>1. CASE ReadInterfaces
    <3>1. /\ phase = "interfaces" /\ phase' = "soc"
          /\ \E listing \in SUBSET (up \cap Interfaces) :
               /\ listed'  = listing
               /\ prevNet' = [i \in Interfaces |-> IF i \in listing THEN NetReading(i) ELSE prevNet[i]]
               /\ netRate' = [i \in Interfaces |-> IF i \in listing /\ prevNet[i] # None
                                THEN CounterRates(prevNet[i], NetReading(i)) ELSE None]
      BY <2>1 DEF ReadInterfaces
    <3>2. ASSUME NEW i \in listed', prevNet[i] # None, prevNet[i].life = life[i], prevNet[i].at < now
          PROVE  netRate'[i] = Rate(prevNet[i], prevNet'[i], Grown(prevNet[i].total, total[i]),
                                    prevNet[i].at)
      <4>1. /\ i \in Interfaces /\ prevNet'[i] = NetReading(i)
            /\ netRate'[i] = CounterRates(prevNet[i], NetReading(i))
        BY <3>1, <3>2
      <4>. QED BY <3>2, <4>1, SteadyInterface
    <3>. QED BY <3>1, <3>2
  <2>2. CASE ReadDisks
    <3>1. phase = "disks"
      BY <2>2 DEF ReadDisks
    <3>2. PICK sum \in DiskReadings :
            /\ prevDisk' = sum
            /\ diskRate' = IF prevDisk # None THEN CounterRates(prevDisk, sum) ELSE None
      BY <2>2 DEF ReadDisks
    <3>3. ASSUME prevDisk # None, prevDisk.lives = prevDisk'.lives, prevDisk.at < now
          PROVE  diskRate' = Rate(prevDisk, prevDisk', Grown(prevDisk.count, prevDisk'.count),
                                  prevDisk.at)
      BY <3>2, <3>3, SteadyDisks
    <3>. QED BY <3>1, <3>3
  <2>3. Machine => phase' = phase /\ prevDisk' = prevDisk
    BY DEF Machine, Disappear, Appear, Transfer, CpuWorks, ChipWorks, Happens, snapshots, disk
  <2>4. Begin \/ ReadCpu \/ CpuFails \/ ReadSoc \/ DisksFail
          => prevDisk' = prevDisk /\ phase # "interfaces"
    BY DEF Begin, ReadCpu, CpuFails, ReadSoc, DisksFail, disk
  <2>5. UNCHANGED vars => phase' = phase /\ prevDisk' = prevDisk
    BY DEF vars, snapshots, disk
  <2>. QED BY <2>1, <2>2, <2>3, <2>4, <2>5 DEF Next
<1>2. Spec => [][Step]_vars
  BY <1>1, CountersInvariant, PTL DEF Spec
<1>. QED BY <1>2 DEF SteadyRates

(* Every rate is divided by the time between its two readings, whatever could
   not be read in between, and never by zero.                                *)
THEOREM Windows == Spec => []WindowsFit
<1>1. Init => WindowsFit
  BY DEF Init, WindowsFit, NoRates
<1>2. IInv /\ WindowsFit /\ [Next]_vars => WindowsFit'
  <2>. SUFFICES ASSUME IInv, WindowsFit, [Next]_vars
                PROVE  WindowsFit'
    OBVIOUS
  <2>1. CASE Begin
    BY <2>1 DEF Begin, WindowsFit, NoRates
  <2>2. CASE ReadInterfaces
    BY <2>2, RatesOfInterfaces DEF ReadInterfaces, WindowsFit, socVars, disk
  <2>3. CASE ReadSoc
    BY <2>3 DEF ReadSoc, WindowsFit, Rate, TimeOfSample, net, disk, IInv, Clocks
  <2>4. CASE ReadDisks
    <3>1. PICK reading \in DiskReadings :
            diskRate' = IF prevDisk # None THEN CounterRates(prevDisk, reading) ELSE None
      BY <2>4 DEF ReadDisks
    <3>2. reading.at = now
      BY FreshSum DEF IInv
    <3>3. diskRate' # None => diskRate'.over = diskRate'.to.at - diskRate'.from.at
                                /\ diskRate'.over > 0
      BY <3>1, <3>2 DEF CounterRates, Rate, IInv, Counted, Clocks
    <3>. QED BY <2>4, <3>3 DEF ReadDisks, WindowsFit, net, socVars
  <2>5. CASE UNCHANGED <<netRate, diskRate, power>>
    BY <2>5 DEF WindowsFit
  <2>6. Machine => UNCHANGED <<netRate, diskRate, power>>
    BY DEF Machine, Disappear, Appear, Transfer, CpuWorks, ChipWorks, Happens, snapshots, net,
           socVars, disk
  <2>7. ReadCpu \/ CpuFails \/ DisksFail \/ UNCHANGED vars => UNCHANGED <<netRate, diskRate, power>>
    BY DEF ReadCpu, CpuFails, DisksFail, vars, snapshots, net, socVars, disk
  <2>. QED BY <2>1, <2>2, <2>3, <2>4, <2>5, <2>6, <2>7 DEF Next
<1>. QED BY <1>1, <1>2, CountersInvariant, PTL DEF Spec

(* Both together: what passed, over the time in which it did. *)
THEOREM RatesReal == Spec => []RatesAreReal
<1>1. NeverExaggerated /\ WindowsFit <=> RatesAreReal
  BY DEF RatesAreReal
<1>. QED BY <1>1, RatesAreTrue, Windows, PTL

-------------------------------------------------------------------------------
(* The charts and the columns *)

Figure == Nat \cup {None}
Histories == [cpu : Seq(Nat), power : Seq(Nat), energy : Seq(Nat), receive : Seq(Nat)]

Columns(read) ==
  [gpu |-> GpuPercents(read), scale |-> Scale(read).den,
   watts |-> RowWatts(read, GpuPercents(read))]

(* There is no card exactly if the last reading failed, or there is none.    *)
CardRight ==
  /\ gpuCard = None <=> LastFailure = Len(seen)
  /\ gpuCard # None => gpuCard.history = Newest(SinceFailure, GpuHistoryMax)

PeakRight ==
  /\ peak \in [top : Nat, age : Nat] /\ (seen = <<>> => peak = [top |-> 0, age |-> 0])
  /\ seen # <<>> =>
       /\ peak.top * 98^peak.age >= ZeroIfNone(LastReading.receive) * 100^peak.age
       /\ \E i \in DOMAIN seen : peak.top <= ZeroIfNone(seen[i].receive)

ChartsRight ==
  /\ charts \in Histories
  /\ charts.power = Newest(Measured([i \in DOMAIN seen |-> TotalWatts(seen[i])]), HistoryMax)
  /\ charts.energy = Newest(Measured([i \in DOMAIN seen |-> TotalOrNone(seen[i].energy)]), HistoryMax)
  /\ {Len(charts.cpu), Len(charts.receive)} = {Min({Len(seen), HistoryMax})}

ChartsInv ==
  /\ seen \in Seq(Readings)
  /\ columns # None => seen # <<>> /\ columns = Columns(LastReading)
  /\ CardRight /\ PeakRight /\ ChartsRight

LEMMA Greater ==
  ASSUME NEW a \in Int, NEW b \in Int
  PROVE  /\ Max({a, b}) = IF a >= b THEN a ELSE b
         /\ Min({a, b}) = IF a <= b THEN a ELSE b
<1>. DEFINE most == IF a >= b THEN a ELSE b  least == IF a <= b THEN a ELSE b
<1>1. most \in {a, b} /\ \A y \in {a, b} : most >= y
  OBVIOUS
<1>2. \A x \in {a, b} : (\A y \in {a, b} : x >= y) => x = most
  OBVIOUS
<1>3. least \in {a, b} /\ \A y \in {a, b} : least <= y
  OBVIOUS
<1>4. \A x \in {a, b} : (\A y \in {a, b} : x <= y) => x = least
  OBVIOUS
<1>. HIDE DEF most, least
<1>5. Max({a, b}) = most
  BY <1>1, <1>2 DEF Max
<1>6. Min({a, b}) = least
  BY <1>3, <1>4 DEF Min
<1>. QED BY <1>5, <1>6 DEF most, least

LEMMA ReadingIs ==
  ASSUME NEW read \in Readings
  PROVE  /\ read.cpu \in [Rows -> Figure] /\ read.gpu \in [Rows -> Figure]
         /\ read.energy \in [Rows -> Figure]
         /\ read.watts \in [cpu : Figure, gpu : Figure, ane : Figure]
         /\ read.watts \in [{"cpu", "gpu", "ane"} -> Figure]
         /\ read.active \in 0 .. 100 \cup {None} /\ read.device \in Figure
         /\ read.load \in Figure /\ read.receive \in Figure
BY ChartsAssumption DEF Figure

(* The newest of a history, and what a further value makes of it. *)
LEMMA NewestIs ==
  ASSUME NEW X, NEW s \in Seq(X), NEW m \in Nat \ {0}
  PROVE  LET before == IF Len(s) >= m THEN Len(s) - m ELSE 0 IN
         /\ before \in Nat /\ Len(s) \in Nat
         /\ Newest(s, m) \in Seq(X) /\ Len(Newest(s, m)) = Len(s) - before
         /\ Len(Newest(s, m)) = Min({Len(s), m})
         /\ \A i \in 1 .. Len(s) - before : Newest(s, m)[i] = s[before + i]
<1>. DEFINE n == Len(s)  before == IF n >= m THEN n - m ELSE 0
<1>1. n \in Nat /\ before \in Nat /\ before <= n
  OBVIOUS
<1>2. Max({1, n - m + 1}) = before + 1
  BY <1>1, Greater
<1>3. Min({n, m}) = n - before
  <2>. HIDE DEF n
  <2>1. \A a, b \in Int : Min({a, b}) = IF a <= b THEN a ELSE b
    BY Greater
  <2>2. n \in Int /\ m \in Int
    BY <1>1
  <2>3. Min({n, m}) = IF n <= m THEN n ELSE m
    BY <2>1, <2>2
  <2>. QED BY <1>1, <2>3
<1>4. Newest(s, m) = SubSeq(s, before + 1, n)
  BY <1>2 DEF Newest
<1>. HIDE DEF before
<1>5. SubSeq(s, before + 1, n) \in Seq(X) /\ Len(SubSeq(s, before + 1, n)) = n - before
      /\ \A i \in 1 .. n - before : SubSeq(s, before + 1, n)[i] = s[before + i]
  BY <1>1
<1>. QED BY <1>1, <1>3, <1>4, <1>5 DEF before

LEMMA NewestNext ==
  ASSUME NEW X, NEW s \in Seq(X), NEW x \in X, NEW m \in Nat \ {0}
  PROVE  Newest(Append(s, x), m) = Push(Newest(s, m), x, m)
<1>. DEFINE n == Len(s)  before == IF n >= m THEN n - m ELSE 0
            later == IF n + 1 >= m THEN n + 1 - m ELSE 0
            old == Newest(s, m)  new == Newest(Append(s, x), m)
<1>1. /\ n \in Nat /\ before \in Nat /\ old \in Seq(X) /\ Len(old) = n - before
      /\ \A i \in 1 .. n - before : old[i] = s[before + i]
  BY NewestIs
<1>2. Append(s, x) \in Seq(X) /\ Len(Append(s, x)) = n + 1 /\ Append(s, x)[n + 1] = x
      /\ \A i \in 1 .. n : Append(s, x)[i] = s[i]
  OBVIOUS
<1>3. /\ later \in Nat /\ new \in Seq(X) /\ Len(new) = n + 1 - later
      /\ \A i \in 1 .. n + 1 - later : new[i] = Append(s, x)[later + i]
  <2>1. PICK longer : longer = Append(s, x)
    OBVIOUS
  <2>2. longer \in Seq(X) /\ Len(longer) = n + 1
    BY <1>2, <2>1
  <2>. DEFINE from == IF Len(longer) >= m THEN Len(longer) - m ELSE 0
  <2>3. /\ from \in Nat /\ Newest(longer, m) \in Seq(X) /\ Len(Newest(longer, m)) = Len(longer) - from
        /\ \A i \in 1 .. Len(longer) - from : Newest(longer, m)[i] = longer[from + i]
    BY <2>2, NewestIs
  <2>4. from = later
    BY <2>2
  <2>. HIDE DEF from, later
  <2>. QED BY <2>1, <2>2, <2>3, <2>4
<1>4. /\ before \in 0 .. n /\ later \in 0 .. n
      /\ IF n - before >= m THEN n - before = m /\ later = before + 1 ELSE later = before
  BY <1>1
<1>. HIDE DEF n, before, later, old, new
<1>5. CASE n - before >= m
  <2>1. Len(old) = m /\ m # 0 /\ old # <<>>
    BY <1>1, <1>4, <1>5
  <2>2. /\ Tail(old) \in Seq(X) /\ Len(Tail(old)) = m - 1
        /\ \A i \in 1 .. m - 1 : Tail(old)[i] = old[i + 1]
    BY <1>1, <2>1
  <2>3. Push(old, x, m) = Append(Tail(old), x)
    BY <1>1, <2>1 DEF Push
  <2>4. /\ Append(Tail(old), x) \in Seq(X) /\ Len(Append(Tail(old), x)) = m
        /\ Append(Tail(old), x)[m] = x
        /\ \A i \in 1 .. m - 1 : Append(Tail(old), x)[i] = old[i + 1]
    BY <2>2
  <2>5. Len(new) = m
    BY <1>1, <1>3, <1>4, <1>5
  <2>6. ASSUME NEW i \in 1 .. m PROVE new[i] = Append(Tail(old), x)[i]
    <3>1. CASE i = m
      <4>1. i \in 1 .. n + 1 - later /\ later + i = n + 1
        BY <1>1, <1>4, <1>5, <3>1
      <4>. QED BY <1>2, <1>3, <2>4, <3>1, <4>1
    <3>2. CASE i # m
      <4>1. /\ i \in 1 .. m - 1 /\ i + 1 \in 1 .. n - before /\ i \in 1 .. n + 1 - later
            /\ later + i = before + (i + 1) /\ later + i \in 1 .. n
        BY <1>1, <1>4, <1>5, <3>2
      <4>2. new[i] = s[later + i]
        BY <1>2, <1>3, <4>1
      <4>3. old[i + 1] = s[before + (i + 1)]
        BY <1>1, <4>1
      <4>4. Append(Tail(old), x)[i] = old[i + 1]
        BY <2>4, <4>1
      <4>. QED BY <4>1, <4>2, <4>3, <4>4
    <3>. QED BY <3>1, <3>2
  <2>7. new = Append(Tail(old), x)
    <3>. DEFINE other == Append(Tail(old), x)
    <3>. HIDE DEF other
    <3>1. other \in Seq(X) /\ Len(other) = m /\ \A i \in 1 .. m : new[i] = other[i]
      BY <2>4, <2>6 DEF other
    <3>2. new = other
      BY <1>3, <2>5, <3>1
    <3>. QED BY <3>2 DEF other
  <2>. QED BY <2>3, <2>7 DEF old, new
<1>6. CASE ~(n - before >= m)
  <2>1. Push(old, x, m) = Append(old, x)
    BY <1>1, <1>6 DEF Push
  <2>2. /\ Append(old, x) \in Seq(X) /\ Len(Append(old, x)) = n + 1 - before
        /\ Append(old, x)[n + 1 - before] = x
        /\ \A i \in 1 .. n - before : Append(old, x)[i] = old[i]
    BY <1>1
  <2>3. Len(new) = n + 1 - before
    BY <1>3, <1>4, <1>6
  <2>4. ASSUME NEW i \in 1 .. n + 1 - before PROVE new[i] = Append(old, x)[i]
    <3>1. CASE i = n + 1 - before
      <4>1. i \in 1 .. n + 1 - later /\ later + i = n + 1
        BY <1>1, <1>4, <1>6, <3>1
      <4>. QED BY <1>2, <1>3, <2>2, <3>1, <4>1
    <3>2. CASE i # n + 1 - before
      <4>1. i \in 1 .. n - before /\ i \in 1 .. n + 1 - later /\ later + i = before + i /\ later + i \in 1 .. n
        BY <1>1, <1>4, <1>6, <3>2
      <4>2. new[i] = s[later + i]
        BY <1>2, <1>3, <4>1
      <4>3. old[i] = s[before + i] /\ Append(old, x)[i] = old[i]
        BY <1>1, <2>2, <4>1
      <4>. QED BY <4>1, <4>2, <4>3
    <3>. QED BY <3>1, <3>2
  <2>5. new = Append(old, x)
    <3>. DEFINE other == Append(old, x)
    <3>. HIDE DEF other
    <3>1. other \in Seq(X) /\ Len(other) = n + 1 - before /\ \A i \in 1 .. n + 1 - before : new[i] = other[i]
      BY <2>2, <2>4 DEF other
    <3>2. new = other
      BY <1>3, <2>3, <3>1
    <3>. QED BY <3>2 DEF other
  <2>. QED BY <2>1, <2>5 DEF old, new
<1>. QED BY <1>5, <1>6

LEMMA ExtendedIs ==
  ASSUME NEW X, NEW n \in Nat, NEW f \in [1 .. n -> X], NEW g \in [1 .. n + 1 -> X],
         \A i \in 1 .. n : g[i] = f[i]
  PROVE  f \in Seq(X) /\ Len(f) = n /\ g = Append(f, g[n + 1])
<1>1. f \in Seq(X) /\ Len(f) = n /\ g \in Seq(X) /\ Len(g) = n + 1 /\ g[n + 1] \in X
  OBVIOUS
<1>. DEFINE longer == Append(f, g[n + 1])
<1>2. /\ longer \in Seq(X) /\ Len(longer) = n + 1 /\ longer[n + 1] = g[n + 1]
      /\ \A i \in 1 .. n : longer[i] = f[i]
  BY <1>1
<1>. HIDE DEF longer
<1>3. \A i \in 1 .. n + 1 : longer[i] = g[i]
  <2>1. \A i \in 1 .. n + 1 : i \in 1 .. n \/ i = n + 1
    OBVIOUS
  <2>. QED BY <1>2, <2>1
<1>4. longer = g
  BY <1>1, <1>2, <1>3
<1>. QED BY <1>1, <1>4 DEF longer

(* A chart without gaps grows by what was measured. *)
LEMMA MeasuredNext ==
  ASSUME NEW values \in Seq(Figure), NEW v \in Figure
  PROVE  /\ Measured(values) \in Seq(Nat)
         /\ Measured(Append(values, v)) = IF v = None THEN Measured(values)
                                         ELSE Append(Measured(values), v)
<1>. DEFINE n == Len(values)  longer == Append(values, v)
            S == {i \in DOMAIN values : values[i] # None}
            T == {i \in DOMAIN longer : longer[i] # None}
<1>1. n \in Nat /\ DOMAIN values = 1 .. n /\ \A i \in 1 .. n : values[i] \in Figure
  OBVIOUS
<1>2. /\ DOMAIN longer = 1 .. n + 1 /\ longer[n + 1] = v
      /\ \A i \in 1 .. n : longer[i] = values[i]
  OBVIOUS
<1>3. S \in SUBSET (1 .. n) /\ S \in SUBSET Nat /\ IsFiniteSet(S)
  BY <1>1, FirstNumbers, FS_Subset
<1>. HIDE DEF n, longer
<1>4. T = IF v = None THEN S ELSE S \cup {n + 1}
  <2>1. \A i : i \in 1 .. n + 1 <=> i \in 1 .. n \/ i = n + 1
    BY <1>1
  <2>2. ~(n + 1 \in 1 .. n)
    BY <1>1
  <2>. QED BY <1>1, <1>2, <2>1, <2>2
<1>5. \A i \in S : longer[i] = values[i] /\ values[i] \in Nat
  BY <1>1, <1>2 DEF Figure
<1>6. Measured(values) = Picked(values, S) /\ Measured(longer) = Picked(longer, T)
  BY DEF Measured
<1>. HIDE DEF S, T
<1>7. Picked(values, S) \in Seq(Nat)
  <2>1. /\ Cardinality(S) \in Nat /\ DOMAIN Picked(values, S) = 1 .. Cardinality(S)
        /\ \A k \in 1 .. Cardinality(S) : Picked(values, S)[k] = values[InOrder(S)[k]]
    BY <1>3, PickedIs
  <2>2. \A k \in 1 .. Cardinality(S) : InOrder(S)[k] \in S
    BY <1>3, InOrderIs
  <2>3. Picked(values, S) = [k \in 1 .. Cardinality(S) |-> Picked(values, S)[k]]
    BY <2>1 DEF Picked, InOrder
  <2>4. \A k \in 1 .. Cardinality(S) : Picked(values, S)[k] \in Nat
    BY <1>5, <2>1, <2>2
  <2>. HIDE DEF S
  <2>5. ASSUME NEW list, NEW k \in Nat, list = [j \in 1 .. k |-> list[j]], \A j \in 1 .. k : list[j] \in Nat
        PROVE  list \in Seq(Nat)
    BY <2>5
  <2>. QED BY <2>1, <2>3, <2>4, <2>5
<1>8. /\ Picked(longer, S) = Picked(values, S)
      /\ Picked(longer, S \cup {n + 1}) = Append(Picked(values, S), longer[n + 1])
  <2>1. SameUpTo(values, longer, n, S)
    BY <1>1, <1>3, <1>5 DEF SameUpTo
  <2>. QED BY <2>1, PickedNext
<1>. QED BY <1>2, <1>4, <1>6, <1>7, <1>8 DEF longer

(* The sum of a column, of which a row is a part. *)
LEMMA TotalIs ==
  ASSUME NEW D, IsFiniteSet(D), NEW column \in [D -> Figure]
  PROVE  /\ Total(column) \in Nat /\ \A x \in D : ZeroIfNone(column[x]) <= Total(column)
         /\ TotalOrNone(column) \in Figure
         /\ DOMAIN column = D /\ \A x \in D : ZeroIfNone(column[x]) \in Nat
<1>. DEFINE plain == [x \in D |-> ZeroIfNone(column[x])]
<1>1. DOMAIN column = D /\ plain \in [D -> Nat] /\ \A x \in D : plain[x] = ZeroIfNone(column[x])
  BY DEF ZeroIfNone, Figure
<1>2. Total(column) = SumFunction(plain)
  BY <1>1 DEF Total
<1>. HIDE DEF plain
<1>3. SumFunction(plain) \in Nat /\ \A x \in D : plain[x] <= SumFunction(plain)
  BY <1>1, SumAtLeast
<1>. QED BY <1>1, <1>2, <1>3 DEF TotalOrNone, Figure

(* The last of some numbers, or 0. *)
LEMMA LastOf ==
  ASSUME NEW n \in Nat, NEW F \in SUBSET (1 .. n)
  PROVE  LET last == Max({0} \cup F) IN
         /\ last \in {0} \cup F /\ last \in 0 .. n /\ \A y \in F : y <= last
         /\ \A k \in {0} \cup F : (\A y \in F : y <= k) => k = last
<1>. DEFINE from == {0} \cup F
<1>1. \E x \in from : \A y \in from : x >= y
  <2>1. CASE F = {}
    BY <2>1
  <2>2. CASE F # {}
    <3>1. PICK x \in F : \A y \in F : y <= x
      BY <2>2, GreatestUpTo
    <3>2. x \in from /\ x \in 1 .. n
      BY <3>1
    <3>3. \A y \in from : x >= y
      BY <3>1, <3>2
    <3>. QED BY <3>2, <3>3
  <2>. QED BY <2>1, <2>2
<1>2. \A y \in from : y \in 0 .. n
  OBVIOUS
<1>3. 0 \in from /\ \A y \in F : y \in from
  OBVIOUS
<1>4. \A k \in from : (\A y \in F : y <= k) => \A y \in from : k >= y
  BY <1>2
<1>. HIDE DEF from
<1>5. Max(from) \in from /\ \A y \in from : Max(from) >= y
  BY <1>1 DEF Max
<1>6. \A k \in from : (\A y \in from : k >= y) => k = Max(from)
  BY <1>2, <1>5
<1>7. Max(from) \in 0 .. n /\ \A y \in F : y <= Max(from)
  BY <1>2, <1>3, <1>5
<1>. QED BY <1>4, <1>5, <1>6, <1>7 DEF from

(* Both histories begin empty, and a lost card gives none. *)
LEMMA CardStart == ASSUME ChartsInit PROVE CardRight
<1>1. seen = <<>> /\ gpuCard = None /\ Len(seen) = 0 /\ DOMAIN seen = {}
  BY DEF ChartsInit
<1>2. {i \in DOMAIN seen : seen[i].device = None} \in SUBSET (1 .. 0) /\ 0 \in Nat
  BY <1>1
<1>3. LastFailure = 0
  <2>. DEFINE F == {i \in DOMAIN seen : seen[i].device = None}
  <2>. HIDE DEF F
  <2>1. F \in SUBSET (1 .. 0)
    BY <1>2 DEF F
  <2>2. Max({0} \cup F) \in 0 .. 0
    BY <2>1, LastOf
  <2>. QED BY <2>2 DEF LastFailure, F
<1>. QED BY <1>1, <1>3 DEF CardRight

LEMMA CardStep ==
  ASSUME seen \in Seq(Readings), CardRight, NEW read \in Readings, Snapshot(read)
  PROVE  CardRight'
<1>. DEFINE n == Len(seen)
            F == {i \in DOMAIN seen : seen[i].device = None}
            G == {i \in DOMAIN seen' : seen'[i].device = None}
            since == SinceFailure
<1>1. n \in Nat /\ DOMAIN seen = 1 .. n /\ \A i \in 1 .. n : seen[i] \in Readings
  OBVIOUS
<1>2. /\ seen' = Append(seen, read) /\ Len(seen') = n + 1 /\ DOMAIN seen' = 1 .. n + 1
      /\ seen'[n + 1] = read /\ \A i \in 1 .. n : seen'[i] = seen[i]
  BY DEF Snapshot
<1>3. F \in SUBSET (1 .. n) /\ G \in SUBSET (1 .. n + 1) /\ LastFailure = Max({0} \cup F)
      /\ LastFailure' = Max({0} \cup G)
  BY <1>1, <1>2 DEF LastFailure
<1>4. G = IF read.device = None THEN F \cup {n + 1} ELSE F
  <2>1. \A i : i \in 1 .. n + 1 <=> i \in 1 .. n \/ i = n + 1
    BY <1>1
  <2>2. ~(n + 1 \in 1 .. n)
    BY <1>1
  <2>. QED BY <1>1, <1>2, <2>1, <2>2
<1>5. LastFailure \in 0 .. n
  <2>. HIDE DEF n, F
  <2>. QED BY <1>1, <1>3, LastOf
<1>6. LastFailure' = IF read.device = None THEN n + 1 ELSE LastFailure
  <2>. HIDE DEF n, F, G
  <2>1. CASE read.device = None
    <3>1. n + 1 \in Nat /\ n + 1 \in {0} \cup G /\ \A y \in G : y <= n + 1
      BY <1>1, <1>3, <1>4, <2>1
    <3>2. \A k \in {0} \cup G : (\A y \in G : y <= k) => k = Max({0} \cup G)
      BY <1>3, <3>1, LastOf
    <3>3. Max({0} \cup G) = n + 1
      BY <3>1, <3>2
    <3>. QED BY <1>3, <2>1, <3>3
  <2>. QED BY <1>3, <1>4, <2>1
<1>7. gpuCard' = UpdateGpu(read.device) /\ read.device \in Figure /\ HistoryMax \in Nat \ {0} /\ GpuHistoryMax \in Nat \ {0}
  BY ReadingIs, ChartsAssumption DEF Snapshot
<1>8. CASE read.device = None
  BY <1>2, <1>6, <1>7, <1>8 DEF CardRight, UpdateGpu
<1>9. CASE read.device # None
  <2>1. read.device \in Nat
    BY <1>7, <1>9 DEF Figure
  <2>2. LastFailure' = LastFailure
    BY <1>6, <1>9
  <2>3. /\ since \in Seq(Nat) /\ Len(since) = n - LastFailure
        /\ since \in [1 .. n - LastFailure -> Nat]
        /\ \A i \in 1 .. n - LastFailure : since[i] = seen[LastFailure + i].device
    <3>1. \A i \in 1 .. n - LastFailure : LastFailure + i \in 1 .. n /\ ~(LastFailure + i \in F)
      <4>1. \A i \in 1 .. n - LastFailure : LastFailure + i \in 1 .. n /\ ~(LastFailure + i <= LastFailure)
        BY <1>1, <1>5
      <4>2. \A y \in F : y <= LastFailure
        <5>. HIDE DEF n, F
        <5>. QED BY <1>1, <1>3, LastOf
      <4>. QED BY <4>1, <4>2
    <3>2. \A i \in 1 .. n - LastFailure : seen[LastFailure + i].device \in Nat
      BY <1>1, <3>1, ReadingIs DEF Figure
    <3>3. n - LastFailure \in Nat
      BY <1>1, <1>5
    <3>4. since = [i \in 1 .. n - LastFailure |-> seen[LastFailure + i].device]
      BY DEF SinceFailure
    <3>. HIDE DEF n, since
    <3>5. since \in [1 .. n - LastFailure -> Nat]
          /\ \A i \in 1 .. n - LastFailure : since[i] = seen[LastFailure + i].device
      BY <3>2, <3>4
    <3>. QED BY <3>3, <3>5
  <2>4. SinceFailure' = Append(since, read.device)
    <3>. DEFINE k == n - LastFailure  longer == [i \in 1 .. k + 1 |-> seen'[LastFailure + i].device]
    <3>1. SinceFailure' = [i \in 1 .. (n + 1) - LastFailure |-> seen'[LastFailure + i].device]
      BY <1>2, <2>2 DEF SinceFailure
    <3>2. k \in Nat /\ (n + 1) - LastFailure = k + 1 /\ LastFailure + (k + 1) = n + 1
          /\ \A i \in 1 .. k : LastFailure + i \in 1 .. n
      BY <1>1, <1>5
    <3>3. since \in [1 .. k -> Nat] /\ \A i \in 1 .. k : since[i] = seen[LastFailure + i].device
      BY <2>3, Zenon
    <3>4. longer[k + 1] = read.device
      BY <1>2, <3>2
    <3>5. \A i \in 1 .. k : i \in 1 .. k + 1 /\ longer[i] = since[i]
      BY <1>2, <3>2, <3>3
    <3>6. longer \in [1 .. k + 1 -> Nat]
      <4>1. \A i \in 1 .. k + 1 : i \in 1 .. k \/ i = k + 1
        BY <3>2
      <4>2. \A i \in 1 .. k + 1 : longer[i] \in Nat
        <5>. HIDE DEF longer, since, k
        <5>. QED BY <2>1, <3>3, <3>4, <3>5, <4>1
      <4>. QED BY <4>2
    <3>. HIDE DEF longer, since, k, n
    <3>7. longer = Append(since, longer[k + 1])
      BY <3>2, <3>3, <3>5, <3>6, ExtendedIs
    <3>8. SinceFailure' = longer
      BY <3>1, <3>2 DEF longer
    <3>. QED BY <3>4, <3>7, <3>8
  <2>5. gpuCard' # None /\ gpuCard'.history =
           Push(IF gpuCard = None THEN <<>> ELSE gpuCard.history, read.device, GpuHistoryMax)
    <3>. DEFINE history == Push(IF gpuCard = None THEN <<>> ELSE gpuCard.history, read.device, GpuHistoryMax)
    <3>1. gpuCard' = [use |-> read.device, history |-> history]
      BY <1>7, <1>9 DEF UpdateGpu
    <3>2. history \in Seq(Nat)
      <4>1. \A h \in Seq(Nat) : Push(h, read.device, GpuHistoryMax) \in Seq(Nat)
        <5>1. \A h \in Seq(Nat) : Len(h) >= GpuHistoryMax => h # <<>> /\ Tail(h) \in Seq(Nat)
          BY <1>7
        <5>. QED BY <1>7, <2>1, <5>1 DEF Push
      <4>2. (IF gpuCard = None THEN <<>> ELSE gpuCard.history) \in Seq(Nat)
        <5>1. Newest(SinceFailure, GpuHistoryMax) \in Seq(Nat)
          <6>. HIDE DEF n
          <6>. QED BY <1>7, <2>3, NewestIs
        <5>. QED BY <5>1 DEF CardRight
      <4>. QED BY <4>1, <4>2
    <3>. HIDE DEF history
    <3>3. [use |-> read.device, history |-> history] \in [use : Nat, history : Seq(Nat)]
      BY <2>1, <3>2
    <3>4. gpuCard' # None
      BY <3>1, <3>3, ChartsAssumption
    <3>5. gpuCard'.history = history
      BY <3>1
    <3>. QED BY <3>4, <3>5 DEF history
  <2>6. (IF gpuCard = None THEN <<>> ELSE gpuCard.history) = Newest(since, GpuHistoryMax)
    <3>1. CASE gpuCard = None
      <4>1. Len(since) = 0 /\ since = <<>>
        BY <1>1, <2>3, <3>1 DEF CardRight
      <4>2. Newest(since, GpuHistoryMax) \in Seq(Nat) /\ Len(Newest(since, GpuHistoryMax)) = 0
        <5>1. Len(Newest(since, GpuHistoryMax)) = Len(since) - (IF Len(since) >= GpuHistoryMax THEN Len(since) - GpuHistoryMax ELSE 0)
              /\ Newest(since, GpuHistoryMax) \in Seq(Nat)
          <6>. HIDE DEF since
          <6>. QED BY <1>7, <2>3, NewestIs
        <5>. QED BY <1>7, <4>1, <5>1
      <4>. QED BY <3>1, <4>2
    <3>. QED BY <3>1 DEF CardRight
  <2>7. Newest(Append(since, read.device), GpuHistoryMax) = Push(Newest(since, GpuHistoryMax), read.device, GpuHistoryMax)
    <3>. HIDE DEF since
    <3>. QED BY <1>7, <2>1, <2>3, NewestNext
  <2>8. gpuCard'.history = Newest(SinceFailure', GpuHistoryMax)
    BY <2>4, <2>5, <2>6, <2>7
  <2>9. LastFailure' # Len(seen')
    BY <1>1, <1>2, <1>5, <2>2
  <2>. QED BY <2>5, <2>8, <2>9 DEF CardRight
<1>. QED BY <1>8, <1>9

(* The peak decays from sample to sample, unless the rate beside it is above. *)
LEMMA PeakStart == ASSUME ChartsInit PROVE PeakRight
BY DEF ChartsInit, PeakRight

LEMMA PeakStep ==
  ASSUME seen \in Seq(Readings), PeakRight, NEW read \in Readings, Snapshot(read)
  PROVE  PeakRight'
<1>. DEFINE n == Len(seen)  value == ZeroIfNone(read.receive)  later == peak.age + 1
<1>1. n \in Nat /\ DOMAIN seen = 1 .. n
  OBVIOUS
<1>2. /\ seen' = Append(seen, read) /\ Len(seen') = n + 1 /\ DOMAIN seen' = 1 .. n + 1
      /\ seen'[n + 1] = read /\ \A i \in 1 .. n : i \in 1 .. n + 1 /\ seen'[i] = seen[i]
      /\ seen' # <<>>
  BY DEF Snapshot
<1>3. value \in Nat /\ peak.top \in Nat /\ peak.age \in Nat /\ later \in Nat
  BY ReadingIs DEF Figure, ZeroIfNone, PeakRight
<1>4. peak' = IF value * 100^later >= peak.top * 98^later
              THEN [top |-> value, age |-> 0] ELSE [peak EXCEPT !.age = later]
  BY DEF Snapshot, DecayingPeak
<1>5. LastReading' = read
  BY <1>2 DEF LastReading
<1>6. 98^later \in Int /\ 100^later \in Int
  <2>. HIDE DEF later
  <2>. QED BY <1>3
<1>. DEFINE decayed == peak.top * 98^later  reached == value * 100^later
<1>7. decayed \in Int /\ reached \in Int
  <2>1. \A a \in Nat, b \in Int : a * b \in Int
    OBVIOUS
  <2>. HIDE DEF later, value
  <2>. QED BY <1>3, <1>6, <2>1
<1>8. CASE reached >= decayed
  <2>1. peak' = [top |-> value, age |-> 0]
    BY <1>4, <1>8
  <2>2. peak' \in [top : Nat, age : Nat] /\ peak'.top = value /\ peak'.age = 0
    BY <1>3, <2>1
  <2>3. peak'.top * 98^peak'.age >= value * 100^peak'.age
    BY <1>3, <2>2
  <2>4. n + 1 \in DOMAIN seen' /\ peak'.top <= ZeroIfNone(seen'[n + 1].receive)
    BY <1>1, <1>2, <1>3, <2>2
  <2>5. \E i \in DOMAIN seen' : peak'.top <= ZeroIfNone(seen'[i].receive)
    BY <2>4
  <2>. QED BY <1>2, <1>5, <2>2, <2>3, <2>5 DEF PeakRight
<1>9. CASE ~(reached >= decayed)
  <2>1. peak' = [peak EXCEPT !.age = later]
    BY <1>4, <1>9
  <2>2. peak' \in [top : Nat, age : Nat] /\ peak'.top = peak.top /\ peak'.age = later
    BY <1>3, <2>1 DEF PeakRight
  <2>3. decayed >= reached
    <3>. HIDE DEF decayed, reached
    <3>. QED BY <1>7, <1>9
  <2>4. seen # <<>>
    <3>1. ASSUME seen = <<>> PROVE FALSE
      <4>1. peak.top = 0 /\ later = 1
        BY <3>1 DEF PeakRight
      <4>2. 98^1 = 98 /\ 100^1 = 100
        OBVIOUS
      <4>3. decayed = 0 * 98 /\ reached = value * 100
        BY <4>1, <4>2
      <4>. HIDE DEF decayed, reached, value
      <4>. QED BY <1>3, <1>9, <4>3
    <3>. QED BY <3>1
  <2>5. PICK i \in DOMAIN seen : peak.top <= ZeroIfNone(seen[i].receive)
    BY <2>4 DEF PeakRight
  <2>6. i \in DOMAIN seen' /\ peak'.top <= ZeroIfNone(seen'[i].receive)
    BY <1>1, <1>2, <2>2, <2>5
  <2>7. \E j \in DOMAIN seen' : peak'.top <= ZeroIfNone(seen'[j].receive)
    BY <2>6
  <2>. QED BY <1>2, <1>5, <2>2, <2>3, <2>7 DEF PeakRight
<1>. QED BY <1>8, <1>9

(* The charts. *)
LEMMA ChartsStart == ASSUME ChartsInit PROVE ChartsRight
<1>1. /\ seen = <<>> /\ Len(seen) = 0 /\ DOMAIN seen = {} /\ HistoryMax \in Nat \ {0}
      /\ charts = [cpu |-> <<>>, power |-> <<>>, energy |-> <<>>, receive |-> <<>>]
  BY ChartsAssumption DEF ChartsInit
<1>2. charts \in Histories
  BY <1>1 DEF Histories
<1>3. [i \in DOMAIN seen |-> TotalWatts(seen[i])] = <<>>
      /\ [i \in DOMAIN seen |-> TotalOrNone(seen[i].energy)] = <<>>
  BY <1>1
<1>4. Measured(<<>>) = <<>>
  <2>1. PICK none : none = <<>>
    OBVIOUS
  <2>2. {i \in DOMAIN none : none[i] # None} = {}
    BY <2>1
  <2>3. DOMAIN Picked(none, {}) = 1 .. 0
    <3>1. {} \in SUBSET Nat /\ IsFiniteSet({}) /\ Cardinality({}) = 0
      BY FS_EmptySet
    <3>2. DOMAIN Picked(none, {}) = 1 .. Cardinality({})
      BY <3>1, PickedIs
    <3>. QED BY <3>1, <3>2
  <2>4. Picked(none, {}) = [k \in DOMAIN Picked(none, {}) |-> Picked(none, {})[k]]
    BY DEF Picked
  <2>5. \A list : list = [k \in DOMAIN list |-> list[k]] /\ DOMAIN list = 1 .. 0 => list = <<>>
    OBVIOUS
  <2>6. Picked(none, {}) = <<>>
    BY <2>3, <2>4, <2>5
  <2>. QED BY <2>1, <2>2, <2>6 DEF Measured
<1>5. Newest(<<>>, HistoryMax) = <<>>
  <2>1. PICK none : none = <<>>
    OBVIOUS
  <2>2. none \in Seq(Nat) /\ Len(none) = 0
    BY <2>1
  <2>3. Newest(none, HistoryMax) \in Seq(Nat) /\ Len(Newest(none, HistoryMax)) =
            Len(none) - (IF Len(none) >= HistoryMax THEN Len(none) - HistoryMax ELSE 0)
    BY <1>1, <2>2, NewestIs
  <2>4. Len(Newest(none, HistoryMax)) = 0
    <3>1. ~(Len(none) >= HistoryMax)
      BY <1>1, <2>2
    <3>2. Len(Newest(none, HistoryMax)) = Len(none) - 0
      BY <2>3, <3>1
    <3>. QED BY <2>2, <3>2
  <2>5. Newest(none, HistoryMax) = <<>>
    BY <2>3, <2>4
  <2>. QED BY <2>1, <2>5
<1>6. Min({Len(seen), HistoryMax}) = 0
  <2>1. \A b \in Nat : Min({0, b}) = 0
    <3>1. \A a, b \in Int : Min({a, b}) = IF a <= b THEN a ELSE b
      BY Greater
    <3>2. \A b \in Nat : 0 \in Int /\ b \in Int /\ 0 <= b
      OBVIOUS
    <3>. QED BY <3>1, <3>2
  <2>. QED BY <1>1, <2>1
<1>. QED BY <1>1, <1>2, <1>3, <1>4, <1>5, <1>6 DEF ChartsRight

LEMMA PushIs ==
  ASSUME NEW history \in Seq(Nat), NEW value \in Nat, NEW most \in Nat \ {0}
  PROVE  /\ Push(history, value, most) \in Seq(Nat)
         /\ Len(history) <= most =>
              Len(Push(history, value, most)) = IF Len(history) >= most THEN most ELSE Len(history) + 1
<1>1. CASE Len(history) >= most
  <2>1. history # <<>> /\ Tail(history) \in Seq(Nat) /\ Len(Tail(history)) = Len(history) - 1
    BY <1>1
  <2>2. Push(history, value, most) = Append(Tail(history), value)
    BY <1>1 DEF Push
  <2>3. /\ Append(Tail(history), value) \in Seq(Nat)
        /\ Len(Append(Tail(history), value)) = Len(Tail(history)) + 1
    BY <2>1
  <2>4. Len(history) <= most => Len(Append(Tail(history), value)) = most
    <3>1. \A k, j \in Int : k >= j /\ k <= j => (k - 1) + 1 = j
      OBVIOUS
    <3>2. Len(history) \in Int /\ most \in Int
      OBVIOUS
    <3>3. Len(Append(Tail(history), value)) = (Len(history) - 1) + 1
      BY <2>1, <2>3
    <3>. QED BY <1>1, <3>1, <3>2, <3>3
  <2>. QED BY <1>1, <2>2, <2>3, <2>4
<1>2. CASE ~(Len(history) >= most)
  BY <1>2 DEF Push
<1>. QED BY <1>1, <1>2

(* Power and energy: a chart without gaps. *)
LEMMA KnownNext ==
  ASSUME NEW values \in Seq(Figure), NEW v \in Figure
  PROVE  /\ Newest(Measured(values), HistoryMax) \in Seq(Nat)
         /\ Newest(Measured(Append(values, v)), HistoryMax) =
              PushKnown(Newest(Measured(values), HistoryMax), v)
         /\ PushKnown(Newest(Measured(values), HistoryMax), v) \in Seq(Nat)
<1>. DEFINE known == Measured(values)
<1>1. /\ known \in Seq(Nat) /\ HistoryMax \in Nat \ {0}
      /\ Measured(Append(values, v)) = IF v = None THEN known ELSE Append(known, v)
  BY MeasuredNext, ChartsAssumption
<1>. HIDE DEF known
<1>2. Newest(known, HistoryMax) \in Seq(Nat)
  BY <1>1, NewestIs
<1>3. CASE v = None
  BY <1>1, <1>2, <1>3 DEF PushKnown, known
<1>4. CASE v # None
  <2>1. v \in Nat
    BY <1>4 DEF Figure
  <2>2. Newest(Append(known, v), HistoryMax) = Push(Newest(known, HistoryMax), v, HistoryMax)
    BY <1>1, <2>1, NewestNext
  <2>3. Push(Newest(known, HistoryMax), v, HistoryMax) \in Seq(Nat)
    BY <1>1, <1>2, <2>1, PushIs
  <2>. QED BY <1>1, <1>2, <1>4, <2>2, <2>3 DEF PushKnown, known
<1>. QED BY <1>3, <1>4

(* The figures of the charts are totals, or there is none. *)
LEMMA FiguresOf ==
  ASSUME NEW read \in Readings
  PROVE  /\ TotalWatts(read) \in Figure /\ TotalOrNone(read.energy) \in Figure
         /\ ZeroIfNone(read.load) \in Nat /\ ZeroIfNone(read.receive) \in Nat
<1>1. read.watts \in [{"cpu", "gpu", "ane"} -> Figure] /\ read.energy \in [Rows -> Figure]
      /\ read.load \in Figure /\ read.receive \in Figure
  BY ReadingIs
<1>2. IsFiniteSet({"cpu", "gpu", "ane"})
  <2>1. {"cpu", "gpu", "ane"} = {"cpu"} \cup ({"gpu"} \cup {"ane"})
    OBVIOUS
  <2>2. \A x : IsFiniteSet({x})
    BY FS_Singleton
  <2>3. IsFiniteSet({"gpu"} \cup {"ane"})
    BY <2>2, FS_Union
  <2>4. IsFiniteSet({"cpu"} \cup ({"gpu"} \cup {"ane"}))
    BY <2>2, <2>3, FS_Union
  <2>. QED BY <2>1, <2>4
<1>3. TotalOrNone(read.watts) \in Figure
  BY <1>1, <1>2, TotalIs
<1>4. TotalOrNone(read.energy) \in Figure
  BY <1>1, TotalIs, ChartsAssumption
<1>. QED BY <1>1, <1>3, <1>4 DEF TotalWatts, ZeroIfNone, Figure

LEMMA ChartsStep ==
  ASSUME seen \in Seq(Readings), ChartsRight, NEW read \in Readings, Snapshot(read)
  PROVE  ChartsRight'
<1>. DEFINE n == Len(seen)
            watts == [i \in DOMAIN seen |-> TotalWatts(seen[i])]
            joules == [i \in DOMAIN seen |-> TotalOrNone(seen[i].energy)]
            watts2 == [i \in DOMAIN seen' |-> TotalWatts(seen'[i])]
            joules2 == [i \in DOMAIN seen' |-> TotalOrNone(seen'[i].energy)]
            w == TotalWatts(read)  e == TotalOrNone(read.energy)
            load == ZeroIfNone(read.load)  rx == ZeroIfNone(read.receive)
<1>1. n \in Nat /\ DOMAIN seen = 1 .. n /\ \A i \in 1 .. n : seen[i] \in Readings
  OBVIOUS
<1>2. /\ seen' = Append(seen, read) /\ Len(seen') = n + 1 /\ DOMAIN seen' = 1 .. n + 1
      /\ seen'[n + 1] = read /\ \A i \in 1 .. n : i \in 1 .. n + 1 /\ seen'[i] = seen[i]
      /\ \A i \in 1 .. n + 1 : seen'[i] \in Readings
  BY DEF Snapshot
<1>3. w \in Figure /\ e \in Figure /\ load \in Nat /\ rx \in Nat /\ HistoryMax \in Nat \ {0}
  BY FiguresOf, ChartsAssumption
<1>4. charts' = [cpu |-> Push(charts.cpu, load, HistoryMax), power |-> PushKnown(charts.power, w),
                 energy |-> PushKnown(charts.energy, e), receive |-> Push(charts.receive, rx, HistoryMax)]
  BY DEF Snapshot, RecordHistory, PushOrZero
<1>5. watts \in Seq(Figure) /\ watts2 = Append(watts, w)
  <2>1. watts \in [1 .. n -> Figure] /\ watts2 \in [1 .. n + 1 -> Figure]
    BY <1>1, <1>2, FiguresOf
  <2>2. watts2[n + 1] = w /\ \A i \in 1 .. n : watts2[i] = watts[i]
    BY <1>1, <1>2
  <2>. HIDE DEF n, watts, watts2, w
  <2>. QED BY <1>1, <2>1, <2>2, ExtendedIs
<1>6. joules \in Seq(Figure) /\ joules2 = Append(joules, e)
  <2>1. joules \in [1 .. n -> Figure] /\ joules2 \in [1 .. n + 1 -> Figure]
    BY <1>1, <1>2, FiguresOf
  <2>2. joules2[n + 1] = e /\ \A i \in 1 .. n : joules2[i] = joules[i]
    BY <1>1, <1>2
  <2>. HIDE DEF n, joules, joules2, e
  <2>. QED BY <1>1, <2>1, <2>2, ExtendedIs
<1>7. /\ charts \in Histories /\ charts.power = Newest(Measured(watts), HistoryMax)
      /\ charts.energy = Newest(Measured(joules), HistoryMax)
      /\ {Len(charts.cpu), Len(charts.receive)} = {Min({n, HistoryMax})}
  BY DEF ChartsRight
<1>. HIDE DEF n, watts, joules, watts2, joules2, w, e, load, rx
<1>8. /\ PushKnown(charts.power, w) = Newest(Measured(watts2), HistoryMax)
      /\ PushKnown(charts.power, w) \in Seq(Nat)
  BY <1>3, <1>5, <1>7, KnownNext
<1>9. /\ PushKnown(charts.energy, e) = Newest(Measured(joules2), HistoryMax)
      /\ PushKnown(charts.energy, e) \in Seq(Nat)
  BY <1>3, <1>6, <1>7, KnownNext
<1>10. /\ charts.cpu \in Seq(Nat) /\ charts.receive \in Seq(Nat)
       /\ Len(charts.cpu) = Min({n, HistoryMax}) /\ Len(charts.receive) = Min({n, HistoryMax})
  BY <1>7 DEF Histories
<1>11. Min({n, HistoryMax}) = (IF n <= HistoryMax THEN n ELSE HistoryMax)
       /\ Min({n + 1, HistoryMax}) = (IF n + 1 <= HistoryMax THEN n + 1 ELSE HistoryMax)
  <2>1. \A a, b \in Int : Min({a, b}) = IF a <= b THEN a ELSE b
    BY Greater
  <2>2. n \in Int /\ n + 1 \in Int /\ HistoryMax \in Int
    BY <1>1, <1>3
  <2>. QED BY <2>1, <2>2
<1>12. ASSUME NEW history \in Seq(Nat), NEW value \in Nat, Len(history) = Min({n, HistoryMax})
       PROVE  /\ Push(history, value, HistoryMax) \in Seq(Nat)
              /\ Len(Push(history, value, HistoryMax)) = Min({n + 1, HistoryMax})
  <2>1. Len(history) <= HistoryMax
    BY <1>1, <1>3, <1>11, <1>12
  <2>2. /\ Push(history, value, HistoryMax) \in Seq(Nat)
        /\ Len(Push(history, value, HistoryMax)) =
              IF Len(history) >= HistoryMax THEN HistoryMax ELSE Len(history) + 1
    BY <1>3, <2>1, PushIs
  <2>4. Len(Push(history, value, HistoryMax)) = IF n + 1 <= HistoryMax THEN n + 1 ELSE HistoryMax
    <3>1. CASE n >= HistoryMax
      <4>1. Len(history) = HistoryMax /\ ~(n + 1 <= HistoryMax)
        BY <1>1, <1>3, <1>11, <1>12, <3>1
      <4>. QED BY <1>3, <2>2, <4>1
    <3>2. CASE ~(n >= HistoryMax)
      <4>1. Len(history) = n /\ n + 1 <= HistoryMax
        BY <1>1, <1>3, <1>11, <1>12, <3>2
      <4>. QED BY <1>1, <1>3, <2>2, <3>2, <4>1
    <3>. QED BY <3>1, <3>2
  <2>. QED BY <1>11, <2>2, <2>4
<1>13. /\ Push(charts.cpu, load, HistoryMax) \in Seq(Nat)
       /\ Len(Push(charts.cpu, load, HistoryMax)) = Min({n + 1, HistoryMax})
       /\ Push(charts.receive, rx, HistoryMax) \in Seq(Nat)
       /\ Len(Push(charts.receive, rx, HistoryMax)) = Min({n + 1, HistoryMax})
  BY <1>3, <1>10, <1>12
<1>14. /\ charts' \in Histories
       /\ charts'.power = Newest(Measured(watts2), HistoryMax)
       /\ charts'.energy = Newest(Measured(joules2), HistoryMax)
       /\ Len(charts'.cpu) = Min({n + 1, HistoryMax}) /\ Len(charts'.receive) = Min({n + 1, HistoryMax})
  BY <1>4, <1>8, <1>9, <1>13 DEF Histories
<1>15. {Len(charts'.cpu), Len(charts'.receive)} = {Min({Len(seen'), HistoryMax})}
  BY <1>2, <1>14
<1>. QED BY <1>14, <1>15 DEF ChartsRight, watts2, joules2

(* The part of a row is its share of the watts, as far as there is one. *)
LEMMA ShareIs ==
  ASSUME NEW column \in [Rows -> Figure], NEW watts \in Figure, NEW r \in Rows
  PROVE  LET part == Share(column, r, watts)  x == ZeroIfNone(column[r])
             w == Attributable(watts, column) IN
         /\ x \in Nat /\ w \in Nat /\ Total(column) \in Nat
         /\ part = None => x * w = 0
         /\ part # None => part = Fraction(x * w, Total(column)) /\ Total(column) # 0
<1>1. Total(column) \in Nat /\ ZeroIfNone(column[r]) \in Nat
  BY TotalIs, ChartsAssumption
<1>2. Attributable(watts, column) \in Nat
  BY DEF Attributable, Figure
<1>3. \A x \in Nat : x * 0 = 0 /\ 0 * x = 0
  OBVIOUS
<1>4. CASE column[r] = None \/ watts = None \/ Total(column) = 0
  <2>1. ZeroIfNone(column[r]) = 0 \/ Attributable(watts, column) = 0
    BY <1>4 DEF ZeroIfNone, Attributable
  <2>2. Share(column, r, watts) = None
    BY <1>4 DEF Share
  <2>. QED BY <1>1, <1>2, <1>3, <2>1, <2>2
<1>5. CASE ~(column[r] = None \/ watts = None \/ Total(column) = 0)
  <2>1. ZeroIfNone(column[r]) = column[r] /\ Attributable(watts, column) = watts
    BY <1>5 DEF ZeroIfNone, Attributable
  <2>2. Share(column, r, watts) = Fraction(column[r] * watts, Total(column))
    BY <1>5 DEF Share
  <2>3. column[r] * watts \in Nat
    <3>1. column[r] \in Nat /\ watts \in Nat
      BY <1>1, <1>5, <2>1 DEF Figure
    <3>. QED BY <3>1
  <2>4. Share(column, r, watts) # None
    BY <1>1, <2>2, <2>3, ChartsAssumption DEF Fraction
  <2>. QED BY <1>1, <1>2, <1>5, <2>1, <2>2, <2>4
<1>. QED BY <1>4, <1>5

(* The whole number a row's watts are, times the common denominator.         *)
AtLeastOne(T) == IF T >= 1 THEN T ELSE 1
Joined(a, b) == IF a = None /\ b = None THEN None ELSE Plus(OrZero(a), OrZero(b))
IsPart(a, x, T) ==
  x \in Nat /\ T \in Nat /\ IF a = None THEN x = 0 ELSE a = Fraction(x, T) /\ T # 0

LEMMA RowWattsAre ==
  ASSUME NEW T, NEW U, NEW x, NEW y, NEW a, NEW b, IsPart(a, x, T), IsPart(b, y, U)
  PROVE  (IF Joined(a, b) = None THEN 0
          ELSE Joined(a, b).num * ((AtLeastOne(T) * AtLeastOne(U)) \div Joined(a, b).den))
           = x * AtLeastOne(U) + y * AtLeastOne(T)
<1>. DEFINE all == IF a = None /\ b = None THEN None ELSE Plus(OrZero(a), OrZero(b))
            C == IF T >= 1 THEN T ELSE 1
            G == IF U >= 1 THEN U ELSE 1
<1>. SUFFICES (IF all = None THEN 0 ELSE all.num * ((C * G) \div all.den)) = x * G + y * C
  BY DEF Joined, AtLeastOne
<1>. /\ T \in Nat /\ U \in Nat /\ x \in Nat /\ y \in Nat
     /\ a = None => x = 0
     /\ a # None => a = Fraction(x, T) /\ T # 0
     /\ b = None => y = 0
     /\ b # None => b = Fraction(y, U) /\ U # 0
  BY DEF IsPart
<1>1. C \in Nat \ {0} /\ G \in Nat \ {0} /\ (T # 0 => C = T) /\ (U # 0 => G = U)
  OBVIOUS
<1>2. \A k \in Nat, d \in Nat \ {0} : (d * k) \div d = k /\ (k * d) \div d = k
  OBVIOUS
<1>3. \A k \in Nat : k * 1 = k /\ 0 * k = 0 /\ k * 0 = 0 /\ k + 0 = k /\ 0 + k = k
  OBVIOUS
<1>4. \A k, j \in Nat : k * j \in Nat /\ k + j \in Nat
  OBVIOUS
<1>5. \A num, den \in Nat : Fraction(num, den) # None /\ Fraction(num, den).num = num
                            /\ Fraction(num, den).den = den
  BY ChartsAssumption DEF Fraction
<1>6. CASE a = None /\ b = None
  <2>1. all = None /\ x = 0 /\ y = 0
    BY <1>6
  <2>2. x * G + y * C = 0
    <3>. HIDE DEF C, G
    <3>. QED BY <1>1, <1>3, <2>1
  <2>. QED BY <2>1, <2>2
<1>7. CASE a # None /\ b = None
  <2>1. a = Fraction(x, T) /\ OrZero(a) = Fraction(x, T) /\ OrZero(b) = Fraction(0, 1) /\ y = 0 /\ C = T /\ T \in Nat \ {0}
    BY <1>1, <1>7 DEF OrZero
  <2>2. all = Fraction(x * 1 + 0 * T, T * 1)
    BY <1>5, <1>7, <2>1 DEF Plus
  <2>3. x * 1 + 0 * T = x /\ T * 1 = T /\ (C * G) \div T = G
    <3>. HIDE DEF C, G
    <3>. QED BY <1>1, <1>2, <1>3, <2>1
  <2>. HIDE DEF all, C, G
  <2>4. all # None /\ all.num = x /\ all.den = T
    BY <1>5, <2>2, <2>3
  <2>5. x * G + y * C = x * G
    BY <1>1, <1>3, <1>4, <2>1
  <2>6. (IF all = None THEN 0 ELSE all.num * ((C * G) \div all.den)) = x * G + y * C
    BY <2>3, <2>4, <2>5
  <2>. QED BY <2>6 DEF all, C, G
<1>8. CASE a = None /\ b # None
  <2>1. OrZero(a) = Fraction(0, 1) /\ OrZero(b) = Fraction(y, U) /\ x = 0 /\ G = U /\ U \in Nat \ {0}
    BY <1>1, <1>8 DEF OrZero
  <2>2. all = Fraction(0 * U + y * 1, 1 * U)
    BY <1>5, <1>8, <2>1 DEF Plus
  <2>3. 0 * U + y * 1 = y /\ 1 * U = U /\ (C * G) \div U = C
    <3>1. 1 * U = U
      OBVIOUS
    <3>. HIDE DEF C, G
    <3>. QED BY <1>1, <1>2, <1>3, <2>1, <3>1
  <2>. HIDE DEF all, C, G
  <2>4. all # None /\ all.num = y /\ all.den = U
    BY <1>5, <2>2, <2>3
  <2>5. x * G + y * C = y * C
    BY <1>1, <1>3, <1>4, <2>1
  <2>6. (IF all = None THEN 0 ELSE all.num * ((C * G) \div all.den)) = x * G + y * C
    BY <2>3, <2>4, <2>5
  <2>. QED BY <2>6 DEF all, C, G
<1>9. CASE a # None /\ b # None
  <2>1. /\ OrZero(a) = Fraction(x, T) /\ OrZero(b) = Fraction(y, U)
        /\ C = T /\ T \in Nat \ {0} /\ G = U /\ U \in Nat \ {0}
    BY <1>1, <1>9 DEF OrZero
  <2>2. all = Fraction(x * U + y * T, T * U)
    BY <1>5, <1>9, <2>1 DEF Plus
  <2>3. T * U \in Nat \ {0} /\ (T * U) \div (T * U) = 1
    <3>1. T * U \in Nat \ {0}
      BY <2>1
    <3>2. \A d \in Nat \ {0} : d \div d = 1
      OBVIOUS
    <3>. QED BY <3>1, <3>2
  <2>. HIDE DEF all, C, G
  <2>4. all # None /\ all.num = x * U + y * T /\ all.den = T * U
    BY <1>4, <1>5, <2>2
  <2>5. (x * U + y * T) * 1 = x * G + y * C
    BY <1>3, <1>4, <2>1
  <2>6. (IF all = None THEN 0 ELSE all.num * ((C * G) \div all.den)) = x * G + y * C
    BY <2>1, <2>3, <2>4, <2>5
  <2>. QED BY <2>6 DEF all, C, G
<1>. QED BY <1>6, <1>7, <1>8, <1>9

LEMMA TotalIsZero ==
  ASSUME NEW D, IsFiniteSet(D), NEW column \in [D -> Figure]
  PROVE  Total(column) = 0 <=> \A x \in D : ZeroIfNone(column[x]) = 0
<1>. DEFINE plain == [x \in D |-> ZeroIfNone(column[x])]
<1>1. /\ Total(column) \in Nat /\ DOMAIN column = D
      /\ \A x \in D : ZeroIfNone(column[x]) \in Nat /\ ZeroIfNone(column[x]) <= Total(column)
  BY TotalIs
<1>2. Total(column) = SumFunction(plain) /\ plain \in [D -> Int]
      /\ \A x \in D : plain[x] = ZeroIfNone(column[x])
  BY <1>1 DEF Total
<1>3. ASSUME \A x \in D : ZeroIfNone(column[x]) = 0 PROVE Total(column) = 0
  <2>. HIDE DEF plain
  <2>1. IsCombination(D, 0, 0, plain, plain, plain)
    BY <1>2, <1>3 DEF IsCombination
  <2>2. SumFunction(plain) = 0 * SumFunction(plain) + 0 * SumFunction(plain)
    BY <2>1, SumLinear
  <2>3. \A k \in Nat : 0 * k + 0 * k = 0
    OBVIOUS
  <2>. QED BY <1>1, <1>2, <2>2, <2>3
<1>4. ASSUME Total(column) = 0, NEW x \in D PROVE ZeroIfNone(column[x]) = 0
  BY <1>1, <1>4
<1>. QED BY <1>3, <1>4

(* No row is above the whole GPU, so that the scaled column is not cut off.   *)
LEMMA PercentsAre ==
  ASSUME NEW read \in Readings
  PROVE  /\ GpuPercents(read) \in [Rows -> Figure] /\ Scale(read).den \in Nat
         /\ Total(GpuPercents(read)) = 0 <=> Total(read.gpu) = 0
         /\ read.active \notin {None, 0} /\ Total(read.gpu) > 0 =>
              Total(GpuPercents(read)) = read.active * Scale(read).den
<1>. DEFINE U == Total(read.gpu)  P == GpuPercents(read)
<1>1. /\ read.gpu \in [Rows -> Figure] /\ read.active \in 0 .. 100 \cup {None}
      /\ U \in Nat /\ IsFiniteSet(Rows) /\ DOMAIN read.gpu = Rows
      /\ \A r \in Rows : ZeroIfNone(read.gpu[r]) \in Nat /\ ZeroIfNone(read.gpu[r]) <= U
  BY ReadingIs, TotalIs, ChartsAssumption
<1>. HIDE DEF U
<1>2. Scale(read) = IF U > 0 /\ read.active \notin {None, 0} THEN Fraction(read.active, U) ELSE Fraction(1, 1)
  BY DEF Scale, U
<1>3. Scale(read).num \in Nat \ {0} /\ Scale(read).den \in Nat \ {0}
  BY <1>1, <1>2 DEF Fraction
<1>4. \A r \in Rows : P[r] = IF read.gpu[r] = None THEN None
                            ELSE Min({read.gpu[r] * Scale(read).num, 100 * Scale(read).den})
  BY DEF GpuPercents
<1>5. \A a, b \in Int : Min({a, b}) = IF a <= b THEN a ELSE b
  BY Greater
<1>6. P \in [Rows -> Figure]
  <2>1. \A a, b \in Nat : a * b \in Nat /\ 100 * b \in Nat
    OBVIOUS
  <2>2. \A a, b \in Nat : Min({a, b}) \in Nat
    BY <1>5
  <2>3. ASSUME NEW r \in Rows PROVE P[r] \in Figure
    <3>1. CASE read.gpu[r] = None
      BY <1>4, <3>1 DEF Figure
    <3>2. CASE read.gpu[r] # None
      <4>1. read.gpu[r] \in Nat
        BY <1>1, <3>2 DEF Figure
      <4>2. Min({read.gpu[r] * Scale(read).num, 100 * Scale(read).den}) \in Nat
        <5>1. read.gpu[r] * Scale(read).num \in Nat /\ 100 * Scale(read).den \in Nat
          BY <1>3, <2>1, <4>1
        <5>. QED BY <2>2, <5>1
      <4>3. P[r] \in Nat
        BY <1>4, <3>2, <4>2
      <4>. QED BY <4>3 DEF Figure
    <3>. QED BY <3>1, <3>2
  <2>4. P = [r \in Rows |-> P[r]]
    BY DEF GpuPercents
  <2>. HIDE DEF P
  <2>. QED BY <2>3, <2>4
<1>7. ASSUME read.active \notin {None, 0}, U > 0
      PROVE  Total(P) = read.active * Scale(read).den
  <2>1. Scale(read).num = read.active /\ Scale(read).den = U /\ read.active \in 1 .. 100
    BY <1>1, <1>2, <1>7 DEF Fraction
  <2>2. ASSUME NEW r \in Rows
        PROVE  ZeroIfNone(P[r]) = read.active * ZeroIfNone(read.gpu[r]) + 0 * ZeroIfNone(read.gpu[r])
    <3>1. ZeroIfNone(read.gpu[r]) \in Nat /\ ZeroIfNone(read.gpu[r]) <= U
      BY <1>1
    <3>2. CASE read.gpu[r] = None
      <4>1. ZeroIfNone(P[r]) = 0 /\ ZeroIfNone(read.gpu[r]) = 0
        BY <1>4, <3>2 DEF ZeroIfNone
      <4>2. \A k \in 1 .. 100 : 0 = k * 0 + 0 * 0
        OBVIOUS
      <4>. QED BY <2>1, <4>1, <4>2
    <3>3. CASE read.gpu[r] # None
      <4>1. ZeroIfNone(read.gpu[r]) = read.gpu[r] /\ read.gpu[r] \in Nat /\ read.gpu[r] <= U
        BY <3>1, <3>3 DEF ZeroIfNone
      <4>2. P[r] = Min({read.gpu[r] * read.active, 100 * U})
        BY <1>4, <2>1, <3>3
      <4>3. \A g \in Nat, k \in 1 .. 100, whole \in Nat :
               g <= whole => g * k \in Nat /\ 100 * whole \in Nat /\ g * k <= 100 * whole
        OBVIOUS
      <4>4. /\ read.gpu[r] * read.active \in Nat /\ 100 * U \in Nat
            /\ read.gpu[r] * read.active <= 100 * U
        BY <1>1, <2>1, <4>1, <4>3
      <4>5. P[r] = read.gpu[r] * read.active
        BY <1>5, <4>2, <4>4
      <4>6. P[r] # None
        BY <4>4, <4>5, ChartsAssumption
      <4>7. \A g \in Nat, k \in Nat : g * k = k * g + 0 * g
        OBVIOUS
      <4>8. read.active \in Nat
        BY <2>1
      <4>. QED BY <4>1, <4>5, <4>6, <4>7, <4>8 DEF ZeroIfNone
    <3>. QED BY <3>2, <3>3
  <2>. DEFINE f == [r \in Rows |-> ZeroIfNone(read.gpu[r])]  h == [r \in Rows |-> ZeroIfNone(P[r])]
  <2>3. f \in [Rows -> Int] /\ \A r \in Rows : f[r] = ZeroIfNone(read.gpu[r])
    BY <1>1
  <2>4. h \in [Rows -> Int] /\ \A r \in Rows : h[r] = ZeroIfNone(P[r])
    <3>. HIDE DEF P
    <3>. QED BY <1>6 DEF ZeroIfNone, Figure
  <2>5. U = SumFunction(f) /\ Total(P) = SumFunction(h)
    <3>1. DOMAIN P = Rows
      BY <1>6
    <3>. QED BY <1>1, <3>1 DEF U, Total
  <2>. HIDE DEF P, f, h
  <2>6. IsCombination(Rows, read.active, 0, f, f, h)
    <3>1. \A r \in Rows : h[r] = read.active * f[r] + 0 * f[r]
      BY <2>2, <2>3, <2>4
    <3>2. read.active \in Int /\ 0 \in Int
      BY <2>1
    <3>. QED BY <2>3, <2>4, <3>1, <3>2 DEF IsCombination
  <2>7. read.active \in Int /\ 0 \in Int
    BY <2>1
  <2>8. SumFunction(h) = read.active * SumFunction(f) + 0 * SumFunction(f) /\ SumFunction(f) \in Int
    BY <1>1, <2>6, SumLinear
  <2>9. \A k, j \in Int : k * j + 0 * j = k * j
    OBVIOUS
  <2>. QED BY <2>1, <2>5, <2>7, <2>8, <2>9
<1>8. ASSUME NEW r \in Rows
      PROVE  ZeroIfNone(P[r]) = 0 <=> ZeroIfNone(read.gpu[r]) = 0
  <2>1. CASE read.gpu[r] = None
    BY <1>4, <2>1 DEF ZeroIfNone
  <2>2. CASE read.gpu[r] # None
    <3>1. read.gpu[r] \in Nat /\ ZeroIfNone(read.gpu[r]) = read.gpu[r]
      BY <1>1, <2>2 DEF ZeroIfNone
    <3>2. \A g \in Nat, num, den \in Nat \ {0} :
             g * num \in Nat /\ 100 * den \in Nat \ {0} /\ (g * num = 0 <=> g = 0)
      OBVIOUS
    <3>3. \A k \in Nat, whole \in Nat \ {0} : Min({k, whole}) \in Nat /\ (Min({k, whole}) = 0 <=> k = 0)
      BY <1>5
    <3>4. P[r] = Min({read.gpu[r] * Scale(read).num, 100 * Scale(read).den})
      BY <1>4, <2>2
    <3>. DEFINE k == read.gpu[r] * Scale(read).num  whole == 100 * Scale(read).den
    <3>5. k \in Nat /\ whole \in Nat \ {0} /\ (k = 0 <=> read.gpu[r] = 0)
      BY <1>3, <3>1, <3>2
    <3>. HIDE DEF k, whole, P
    <3>6. P[r] \in Nat /\ (P[r] = 0 <=> k = 0)
      BY <3>3, <3>4, <3>5 DEF k, whole
    <3>7. ZeroIfNone(P[r]) = P[r]
      BY <3>6, ChartsAssumption DEF ZeroIfNone
    <3>. QED BY <3>1, <3>5, <3>6, <3>7
  <2>. QED BY <2>1, <2>2
<1>9. Total(P) = 0 <=> U = 0
  <2>. HIDE DEF P
  <2>1. Total(P) = 0 <=> \A r \in Rows : ZeroIfNone(P[r]) = 0
    BY <1>1, <1>6, TotalIsZero
  <2>2. U = 0 <=> \A r \in Rows : ZeroIfNone(read.gpu[r]) = 0
    BY <1>1, TotalIsZero DEF U
  <2>. QED BY <1>8, <2>1, <2>2
<1>. QED BY <1>3, <1>6, <1>7, <1>9 DEF U

LEMMA ColumnsRight ==
  ASSUME LastReading \in Readings, columns # None => columns = Columns(LastReading)
  PROVE  ColumnsAddUp
<1>1. PICK read \in Readings : read = LastReading
  OBVIOUS
<1>. SUFFICES ASSUME columns # None PROVE ColumnsAddUp
  BY DEF ColumnsAddUp
<1>. DEFINE P == GpuPercents(read)  T == Total(read.cpu)  U == Total(P)
            wc == Attributable(read.watts.cpu, read.cpu)  wg == Attributable(read.watts.gpu, P)
            C == AtLeastOne(T)  G == AtLeastOne(U)
            W == RowWatts(read, P)
            h == [r \in Rows |-> IF W[r] = None THEN 0 ELSE W[r].num * ((C * G) \div W[r].den)]
            f == [r \in Rows |-> ZeroIfNone(read.cpu[r])]
            g == [r \in Rows |-> ZeroIfNone(P[r])]
<1>2. columns.gpu = P /\ columns.watts = W /\ columns.scale = Scale(read).den
  BY <1>1 DEF Columns
<1>3. /\ read.cpu \in [Rows -> Figure] /\ P \in [Rows -> Figure] /\ IsFiniteSet(Rows)
      /\ read.watts.cpu \in Figure /\ read.watts.gpu \in Figure
  BY ReadingIs, PercentsAre, ChartsAssumption
<1>. HIDE DEF P
<1>4. /\ T \in Nat /\ U \in Nat /\ wc \in Nat /\ wg \in Nat
      /\ \A r \in Rows : ZeroIfNone(read.cpu[r]) \in Nat /\ ZeroIfNone(P[r]) \in Nat
  BY <1>3, TotalIs DEF Attributable, Figure
<1>5. Common = C * G
  <2>1. \A a, b \in Int : Max({a, b}) = IF a >= b THEN a ELSE b
    BY Greater
  <2>2. T \in Int /\ U \in Int /\ 1 \in Int
    BY <1>4
  <2>3. Common = Max({T, 1}) * Max({U, 1})
    BY <1>1, <1>2 DEF Common
  <2>. HIDE DEF T, U
  <2>4. Max({T, 1}) = C /\ Max({U, 1}) = G
    BY <2>1, <2>2 DEF AtLeastOne
  <2>. QED BY <2>3, <2>4
<1>6. C \in Nat \ {0} /\ G \in Nat \ {0} /\ wc * G \in Int /\ wg * C \in Int
  <2>1. C \in Nat \ {0} /\ G \in Nat \ {0}
    BY <1>4 DEF AtLeastOne
  <2>. HIDE DEF C, G, wc, wg
  <2>. QED BY <1>4, <2>1
<1>7. ASSUME NEW r \in Rows
      PROVE  (IF W[r] = None THEN 0 ELSE W[r].num * ((C * G) \div W[r].den))
               = (wc * G) * ZeroIfNone(read.cpu[r]) + (wg * C) * ZeroIfNone(P[r])
  <2>. DEFINE x == ZeroIfNone(read.cpu[r])  y == ZeroIfNone(P[r])
              a == Share(read.cpu, r, read.watts.cpu)  b == Share(P, r, read.watts.gpu)
  <2>1. /\ x \in Nat /\ y \in Nat
        /\ a = None => x * wc = 0
        /\ a # None => a = Fraction(x * wc, T) /\ T # 0
        /\ b = None => y * wg = 0
        /\ b # None => b = Fraction(y * wg, U) /\ U # 0
    BY <1>3, ShareIs
  <2>2. W[r] = Joined(a, b)
    BY DEF RowWatts, Joined
  <2>. HIDE DEF x, y, a, b, wc, wg, T, U, W
  <2>3. x * wc \in Nat /\ y * wg \in Nat
    BY <1>4, <2>1
  <2>4. IsPart(a, x * wc, T) /\ IsPart(b, y * wg, U)
    BY <1>4, <2>1, <2>3 DEF IsPart
  <2>5. (IF W[r] = None THEN 0 ELSE W[r].num * ((C * G) \div W[r].den)) = (x * wc) * G + (y * wg) * C
    BY <2>2, <2>4, RowWattsAre
  <2>6. (x * wc) * G + (y * wg) * C = (wc * G) * x + (wg * C) * y
    <3>1. \A i, j, k \in Nat : (i * j) * k = (j * k) * i
      OBVIOUS
    <3>. HIDE DEF C, G
    <3>. QED BY <1>4, <1>6, <2>1, <3>1
  <2>. QED BY <2>5, <2>6 DEF x, y
<1>8. f \in [Rows -> Int] /\ g \in [Rows -> Int] /\ T = SumFunction(f) /\ U = SumFunction(g)
  <2>1. DOMAIN read.cpu = Rows /\ DOMAIN P = Rows
    BY <1>3
  <2>. QED BY <1>4, <2>1 DEF Total
<1>9. \A r \in Rows : h[r] = (wc * G) * f[r] + (wg * C) * g[r]
  BY <1>7
<1>10. h \in [Rows -> Int]
  <2>1. \A r \in Rows : (wc * G) * f[r] + (wg * C) * g[r] \in Int
    <3>1. \A i, j, k, l \in Int : i * j + k * l \in Int
      OBVIOUS
    <3>. HIDE DEF f, g, wc, wg, C, G
    <3>. QED BY <1>6, <1>8, <3>1
  <2>2. h = [r \in Rows |-> h[r]]
    OBVIOUS
  <2>. HIDE DEF h, f, g, wc, wg, C, G
  <2>. QED BY <1>9, <2>1, <2>2
<1>11. SumFunction(h) = (wc * G) * T + (wg * C) * U
  <2>. HIDE DEF h, f, g, wc, wg, C, G, T, U
  <2>1. IsCombination(Rows, wc * G, wg * C, f, g, h)
    BY <1>6, <1>8, <1>9, <1>10 DEF IsCombination
  <2>2. SumFunction(h) = (wc * G) * SumFunction(f) + (wg * C) * SumFunction(g)
    BY <1>3, <2>1, SumLinear
  <2>. QED BY <1>8, <2>2
<1>12. (wc * G) * T + (wg * C) * U = (C * G) * (wc + wg)
  <2>1. (T # 0 => C = T) /\ (T = 0 => wc = 0) /\ (U # 0 => G = U) /\ (U = 0 => wg = 0)
    BY <1>4 DEF Attributable, AtLeastOne
  <2>2. (wc * G) * T = (wc * G) * C /\ (wg * C) * U = (wg * C) * G
    <3>1. \A i \in Nat : (0 * i) * 0 = 0 /\ \A j \in Nat : (0 * i) * j = 0
      OBVIOUS
    <3>. HIDE DEF wc, wg, C, G, T, U
    <3>. QED BY <1>4, <1>6, <2>1, <3>1
  <2>3. \A i, j, k, l \in Nat : (i * j) * k + (l * k) * j = (k * j) * (i + l)
    OBVIOUS
  <2>. HIDE DEF wc, wg, C, G, T, U
  <2>. QED BY <1>4, <1>6, <2>2, <2>3
<1>13. SumFunction([r \in Rows |-> IF columns.watts[r] = None THEN 0
                                 ELSE columns.watts[r].num * (Common \div columns.watts[r].den)])
         = Common * ( Attributable(LastReading.watts.cpu, LastReading.cpu)
                    + Attributable(LastReading.watts.gpu, LastReading.gpu) )
  <2>. HIDE DEF C, G, W
  <2>1. wg = Attributable(read.watts.gpu, read.gpu)
    BY PercentsAre DEF Attributable, P
  <2>. HIDE DEF wc, wg, T, U
  <2>2. SumFunction(h) = Common * (wc + wg)
    BY <1>5, <1>11, <1>12
  <2>. QED BY <1>1, <1>2, <1>5, <2>1, <2>2 DEF wc
<1>14. read.active \notin {None, 0} /\ Total(read.gpu) > 0 => Total(P) = read.active * Scale(read).den
  BY PercentsAre DEF P
<1>15. LastReading.active \notin {None, 0} /\ Total(LastReading.gpu) > 0 =>
         Total(columns.gpu) = LastReading.active * columns.scale
  BY <1>1, <1>2, <1>14, Zenon
<1>. QED BY <1>13, <1>15, Zenon DEF ColumnsAddUp

LEMMA ChartsInvStep ==
  ASSUME ChartsInv, NEW read \in Readings, Snapshot(read)
  PROVE  ChartsInv'
<1>1. seen' = Append(seen, read) /\ columns' = Columns(read) /\ seen \in Seq(Readings)
  BY DEF Snapshot, Columns, ChartsInv
<1>2. seen' \in Seq(Readings) /\ seen' # <<>> /\ LastReading' = read
  BY <1>1 DEF LastReading
<1>3. columns' = Columns(LastReading')
  BY <1>1, <1>2
<1>4. CardRight' /\ PeakRight' /\ ChartsRight'
  BY <1>1, CardStep, PeakStep, ChartsStep DEF ChartsInv
<1>. QED BY <1>2, <1>3, <1>4 DEF ChartsInv, Columns

(* The charts and the columns show what was measured (FiguresAreMeasured), for
   any processes, any readings and charts of any length: the watts of the rows
   add up to those of the parts they have used, a gap leaves no point, the
   history of the GPU begins anew after a failure, and the peak is never below
   the rate beside it.                                                        *)
THEOREM FiguresCorrect == ChartsSpec => []FiguresAreMeasured
<1>1. ChartsInit => ChartsInv
  BY CardStart, PeakStart, ChartsStart DEF ChartsInv, ChartsInit
<1>2. ChartsInv /\ [ChartsNext]_chartVars => ChartsInv'
  <2>. SUFFICES ASSUME ChartsInv, [ChartsNext]_chartVars PROVE ChartsInv'
    OBVIOUS
  <2>1. ASSUME NEW read \in Readings, Snapshot(read) PROVE ChartsInv'
    BY <2>1, ChartsInvStep
  <2>2. CASE UNCHANGED chartVars
    <3>1. ChartsInv' = ChartsInv
      BY <2>2 DEF chartVars, ChartsInv, CardRight, PeakRight, ChartsRight, LastReading, LastFailure, SinceFailure
    <3>. QED BY <3>1
  <2>. QED BY <2>1, <2>2 DEF ChartsNext
<1>3. ChartsInv => FiguresAreMeasured
  <2>. SUFFICES ASSUME ChartsInv PROVE FiguresAreMeasured
    OBVIOUS
  <2>1. columns # None => LastReading \in Readings /\ columns = Columns(LastReading)
    BY DEF ChartsInv, LastReading
  <2>2. ColumnsAddUp
    <3>1. CASE columns = None
      BY <3>1 DEF ColumnsAddUp
    <3>2. CASE columns # None
      BY <2>1, <3>2, ColumnsRight
    <3>. QED BY <3>1, <3>2
  <2>3. ChartsAreMeasured
    BY DEF ChartsAreMeasured, ChartsInv, CardRight, PeakRight, ChartsRight
  <2>. QED BY <2>2, <2>3 DEF FiguresAreMeasured
<1>. QED BY <1>1, <1>2, <1>3, PTL DEF ChartsSpec
===============================================================================
