----------------------------- MODULE MetersProofs -----------------------------
(***************************************************************************)
(* The parts of a snapshot that have state of their own beside the rates:   *)
(* the list of GPU clients, the handle on the SoC counters and the counter  *)
(* of frames, for any sizes, numbers of calls, threads and frames.          *)
(***************************************************************************)
EXTENDS GpuBuffer, SocHandle, DisplayStream, Volumes, Thunderbolt, Listings, DataLemmas

-------------------------------------------------------------------------------
(* The list of GPU clients *)

(* After a first call the buffer holds what that call found and a quarter   *)
(* more, or as much as it may.                                              *)
RoomForFirst ==
  ~coverage.done /\ attempt > 0 => capacity >= Lesser(first + first \div 4, Maximum)

(* There is a call left for as long as there is no answer, in which case     *)
(* nothing is said of the clients.                                          *)
CallsLeft == (~coverage.done => attempt < Attempts) /\ (coverage.available => coverage.done)

BufferInv == BufferTypeOK /\ RoomForFirst /\ CallsLeft /\ GpuListIsWhole

LEMMA InitBuffer == BufferInit => BufferInv
  BY BufferAssumption DEF BufferInit, BufferInv, BufferTypeOK, RoomForFirst, CallsLeft,
     GpuListIsWhole, Pending

LEMMA GrownBounds ==
  ASSUME NEW observed \in Nat, BufferTypeOK
  PROVE  /\ NextCapacity(observed) \in Initial .. Maximum
         /\ NextCapacity(observed) >= capacity
         /\ NextCapacity(observed) >= Lesser(observed + observed \div 4, Maximum)
  <1> DEFINE quarter == observed \div 4
  <1>1. quarter \in Nat
    OBVIOUS
  <1> HIDE DEF quarter
  <1> QED
    BY <1>1, BufferAssumption DEF NextCapacity, Larger, Lesser, BufferTypeOK, quarter

LEMMA ClientsChangeBuffer == ASSUME BufferInv, ClientsChange PROVE BufferInv'
  BY BufferAssumption DEF ClientsChange, BufferInv, BufferTypeOK, RoomForFirst, CallsLeft,
     GpuListIsWhole

LEMMA GrowBuffer == ASSUME BufferInv, Grow PROVE BufferInv'
  <1>1. BufferTypeOK /\ clients \in Nat
    BY DEF BufferInv, BufferTypeOK
  <1>2. capacity' = NextCapacity(clients) /\ UNCHANGED <<clients, coverage>> /\ ~coverage.done
        /\ attempt' = attempt + 1 /\ attempt + 1 < Attempts
        /\ first' = (IF attempt = 0 THEN clients ELSE first)
    BY DEF Grow, Call, Called, TooSmall
  <1>3. NextCapacity(clients) \in Initial .. Maximum /\ NextCapacity(clients) >= capacity
        /\ NextCapacity(clients) >= Lesser(clients + clients \div 4, Maximum)
    BY <1>1, GrownBounds
  <1>4. BufferTypeOK'
    BY <1>1, <1>2, <1>3, BufferAssumption DEF BufferTypeOK
  <1>5. RoomForFirst'
    <2>1. CASE attempt = 0
      BY <2>1, <1>2, <1>3 DEF RoomForFirst
    <2>2. CASE attempt # 0
      <3>1. capacity >= Lesser(first + first \div 4, Maximum)
        BY <2>2, <1>1, <1>2 DEF BufferInv, RoomForFirst, BufferTypeOK
      <3>2. first' = first /\ capacity' >= capacity
        BY <2>2, <1>2, <1>3
      <3>3. Lesser(first + first \div 4, Maximum) \in Int
        BY <1>1, BufferAssumption DEF Lesser, BufferTypeOK
      <3>4. capacity \in Int /\ capacity' \in Int
        BY <1>1, <1>4, BufferAssumption DEF BufferTypeOK
      <3> QED
        BY <3>1, <3>2, <3>3, <3>4 DEF RoomForFirst
    <2> QED
      BY <2>1, <2>2
  <1>6. CallsLeft' /\ GpuListIsWhole'
    BY <1>1, <1>2, BufferAssumption DEF BufferInv, CallsLeft, GpuListIsWhole, BufferTypeOK
  <1> QED
    BY <1>4, <1>5, <1>6 DEF BufferInv

LEMMA RetainBuffer == ASSUME BufferInv, Retain PROVE BufferInv'
  <1>1. BufferTypeOK /\ RoomForFirst /\ ~coverage.done /\ attempt < Attempts
    BY DEF BufferInv, Retain, Call
  <1>2. /\ coverage' = [available |-> TRUE, observed |-> clients,
                        retained |-> Lesser(clients, capacity),
                        truncated |-> clients > capacity, done |-> TRUE]
        /\ UNCHANGED <<clients, capacity>> /\ attempt' = attempt + 1
        /\ first' = (IF attempt = 0 THEN clients ELSE first)
        /\ (clients <= capacity \/ capacity >= Maximum \/ attempt + 1 >= Attempts)
    BY <1>1, BufferAssumption DEF Retain, Call, Called, TooSmall, TruncatedAt, BufferTypeOK
  <1>3. BufferTypeOK'
    BY <1>1, <1>2, BufferAssumption DEF BufferTypeOK, Lesser
  <1>4. RoomForFirst' /\ CallsLeft'
    BY <1>2 DEF RoomForFirst, CallsLeft
  <1>5. ASSUME clients <= Maximum, clients <= first' + first' \div 4, Attempts > 1
        PROVE  clients <= capacity
    <2>1. CASE attempt = 0
      BY <2>1, <1>1, <1>2, <1>5, BufferAssumption DEF BufferTypeOK
    <2>2. CASE attempt # 0
      <3>1. capacity >= Lesser(first + first \div 4, Maximum) /\ first' = first
        BY <2>2, <1>1, <1>2 DEF RoomForFirst, BufferTypeOK
      <3>2. first \div 4 \in Int
        BY <1>1 DEF BufferTypeOK
      <3> QED
        BY <3>1, <3>2, <1>1, <1>5, BufferAssumption DEF Lesser, BufferTypeOK
    <2> QED
      BY <2>1, <2>2
  <1>6. coverage'.retained = coverage'.observed \/ coverage'.truncated
    <2>1. CASE clients > capacity
      BY <2>1, <1>2
    <2>2. CASE ~(clients > capacity)
      <3>1. Lesser(clients, capacity) = clients
        BY <2>2, <1>1, BufferAssumption DEF Lesser, BufferTypeOK
      <3> QED
        BY <3>1, <1>2
    <2> QED
      BY <2>1, <2>2
  <1>7. GpuListIsWhole'
    BY <1>1, <1>2, <1>5, <1>6, BufferAssumption DEF GpuListIsWhole, BufferTypeOK
  <1> QED
    BY <1>3, <1>4, <1>7 DEF BufferInv

LEMMA UnavailableBuffer == ASSUME BufferInv, Unavailable PROVE BufferInv'
  <1>1. BufferTypeOK /\ attempt < Attempts
    BY DEF BufferInv, Unavailable, Call
  <1>2. /\ coverage' = [available |-> FALSE, observed |-> 0, retained |-> 0,
                        truncated |-> FALSE, done |-> TRUE]
        /\ UNCHANGED <<clients, capacity>> /\ attempt' = attempt + 1
        /\ first' = (IF attempt = 0 THEN clients ELSE first)
    BY DEF Unavailable, Call, Called, Pending
  <1> QED
    BY <1>1, <1>2, BufferAssumption
    DEF BufferInv, BufferTypeOK, RoomForFirst, CallsLeft, GpuListIsWhole

(* The answer is the whole list of GPU clients or says that it is not, comes *)
(* within the calls allowed, and is whole whenever the clients fit and grew  *)
(* by at most a quarter (gpu_buffer.rs 14-46): for all sizes and numbers.    *)
THEOREM GpuListSafe == BufferSpec => []GpuListIsWhole
  <1>1. BufferInv /\ [BufferNext]_bufferVars => BufferInv'
    <2> SUFFICES ASSUME BufferInv, [BufferNext]_bufferVars PROVE BufferInv'
      OBVIOUS
    <2>1. CASE UNCHANGED bufferVars
      BY <2>1 DEF bufferVars, BufferInv, BufferTypeOK, RoomForFirst, CallsLeft, GpuListIsWhole
    <2> QED
      BY <2>1, ClientsChangeBuffer, GrowBuffer, RetainBuffer, UnavailableBuffer
      DEF BufferNext
  <1>2. BufferInv => GpuListIsWhole
    BY DEF BufferInv
  <1> QED
    BY InitBuffer, <1>1, <1>2, PTL DEF BufferSpec

-------------------------------------------------------------------------------
(* The SoC handle: the lease keeps the library, which has no lock, to one    *)
(* thread, and its samples to one handle.                                    *)

HandleInv == SocTypeOK /\ OneUser /\ NothingLeft /\ OwnWindow

LEMMA InitAlone == SocInit => HandleInv
  <1> SUFFICES ASSUME SocInit PROVE HandleInv
    OBVIOUS
  <1>1. SocTypeOK BY DEF SocInit, SocTypeOK
  <1>2. OneUser BY DEF SocInit, OneUser, Owning, Inside
  <1>3. NothingLeft /\ OwnWindow BY DEF SocInit, NothingLeft, OwnWindow
  <1> QED BY <1>1, <1>2, <1>3 DEF HandleInv

(* The conjuncts that only the threads' places decide. *)
Places == at \in [Threads -> Owning \cup {"free"}] /\ active \in BOOLEAN /\ OneUser

(* A thread that takes the lease finds nobody else who has it. *)
LEMMA LeaseAlone == ASSUME Places, NEW t \in Threads, Lease(t) PROVE Places'
  BY DEF Lease, Places, OneUser, Owning, Inside

(* The owner stays the owner while it goes from one call to the next. *)
LEMMA StayAlone ==
  ASSUME Places, NEW t \in Threads, NEW place \in Owning,
         at[t] \in Owning, at' = [at EXCEPT ![t] = place], UNCHANGED active
  PROVE  Places'
  BY DEF Places, OneUser

(* A handle that moves leaves its old thread. *)
LEMMA MoveAlone == ASSUME Places, NEW t \in Threads, NEW u \in Threads, Move(t, u) PROVE Places'
  BY DEF Move, Places, OneUser, Owning, Inside

(* Nobody has it once the owner gives it back. *)
LEMMA GiveAlone ==
  ASSUME Places, NEW t \in Threads, at[t] \in Owning,
         at' = [at EXCEPT ![t] = "free"], active' = FALSE
  PROVE  Places'
  BY DEF Places, OneUser, Owning, Inside

(* The places after any step. *)
LEMMA PlacesKept == ASSUME Places, SocNext PROVE Places'
  <1> PICK t \in Threads :
        \/ Lease(t) \/ AlreadyActive(t) \/ Opened(t) \/ NotOpened(t) \/ GiveBack(t)
        \/ \E u \in Threads : Move(t, u)
        \/ Sample(t) \/ SampleFails(t) \/ FirstSample(t) \/ SampleDelta(t)
        \/ Drop(t) \/ CleanUp(t) \/ Release(t)
    BY DEF SocNext
  <1> USE DEF Owning, Inside
  <1>1. CASE Lease(t) BY <1>1, LeaseAlone
  <1>2. CASE AlreadyActive(t) BY <1>2 DEF AlreadyActive, handleVars, Places, OneUser
  <1>3. CASE Opened(t) BY <1>3, StayAlone DEF Opened
  <1>4. CASE NotOpened(t) BY <1>4, StayAlone DEF NotOpened
  <1>5. CASE GiveBack(t) BY <1>5, GiveAlone DEF GiveBack
  <1>6. CASE \E u \in Threads : Move(t, u) BY <1>6, MoveAlone
  <1>7. CASE Sample(t) BY <1>7, StayAlone DEF Sample
  <1>8. CASE SampleFails(t) BY <1>8, StayAlone DEF SampleFails
  <1>9. CASE FirstSample(t) BY <1>9, StayAlone DEF FirstSample
  <1>10. CASE SampleDelta(t) BY <1>10, StayAlone DEF SampleDelta
  <1>11. CASE Drop(t) BY <1>11, StayAlone DEF Drop
  <1>12. CASE CleanUp(t) BY <1>12, StayAlone DEF CleanUp
  <1>13. CASE Release(t) BY <1>13, GiveAlone DEF Release
  <1> QED
    BY <1>1, <1>2, <1>3, <1>4, <1>5, <1>6, <1>7, <1>8, <1>9, <1>10, <1>11, <1>12, <1>13

(* The samples after any step. *)
Samples == openings \in Nat /\ subscription \in Nat /\ previous \in Nat
           /\ compared \in Nat \X Nat /\ OwnWindow

LEMMA SamplesKept ==
  ASSUME Places, Samples, NothingLeft, SocNext
  PROVE  Samples' /\ NothingLeft'
  <1> PICK t \in Threads :
        \/ Lease(t) \/ AlreadyActive(t) \/ Opened(t) \/ NotOpened(t) \/ GiveBack(t)
        \/ \E u \in Threads : Move(t, u)
        \/ Sample(t) \/ SampleFails(t) \/ FirstSample(t) \/ SampleDelta(t)
        \/ Drop(t) \/ CleanUp(t) \/ Release(t)
    BY DEF SocNext
  <1> USE DEF Owning, Inside
  <1>1. CASE Lease(t) BY <1>1 DEF Lease, Samples, OwnWindow, NothingLeft, Places
  <1>2. CASE AlreadyActive(t)
    BY <1>2 DEF AlreadyActive, handleVars, Samples, OwnWindow, NothingLeft
  <1>3. CASE Opened(t)
    BY <1>3 DEF Opened, Samples, OwnWindow, NothingLeft, Places
  <1>4. CASE NotOpened(t) BY <1>4 DEF NotOpened, Samples, OwnWindow, NothingLeft, Places
  <1>5. CASE GiveBack(t) BY <1>5 DEF GiveBack, Samples, OwnWindow, NothingLeft, Places
  <1>6. CASE \E u \in Threads : Move(t, u)
    BY <1>6 DEF Move, Samples, OwnWindow, NothingLeft, Places
  <1>7. CASE Sample(t) BY <1>7 DEF Sample, Samples, OwnWindow, NothingLeft, Places
  <1>8. CASE SampleFails(t) BY <1>8 DEF SampleFails, Samples, OwnWindow, NothingLeft, Places
  <1>9. CASE FirstSample(t) BY <1>9 DEF FirstSample, Samples, OwnWindow, NothingLeft, Places
  <1>10. CASE SampleDelta(t)
    BY <1>10 DEF SampleDelta, Samples, OwnWindow, NothingLeft, Places
  <1>11. CASE Drop(t) BY <1>11 DEF Drop, Samples, OwnWindow, NothingLeft, Places
  <1>12. CASE CleanUp(t) BY <1>12 DEF CleanUp, Samples, OwnWindow, NothingLeft
  <1>13. CASE Release(t) BY <1>13 DEF Release, Samples, OwnWindow, NothingLeft, Places
  <1> QED
    BY <1>1, <1>2, <1>3, <1>4, <1>5, <1>6, <1>7, <1>8, <1>9, <1>10, <1>11, <1>12, <1>13

LEMMA StepAlone == ASSUME HandleInv, [SocNext]_handleVars PROVE HandleInv'
  <1>1. CASE SocNext
    BY <1>1, PlacesKept, SamplesKept DEF HandleInv, SocTypeOK, Places, Samples
  <1>2. CASE UNCHANGED handleVars
    BY <1>2 DEF handleVars, HandleInv, SocTypeOK, OneUser, NothingLeft, OwnWindow
  <1> QED
    BY <1>1, <1>2

LEMMA Alone == SocSpec => []HandleInv
  BY InitAlone, StepAlone, PTL DEF SocSpec

(* Only the owner of the lease is ever inside the C library, whatever        *)
(* threads ask for a handle, move it, drop it and ask again (soc.rs 108-170),*)
(* and no reading compares samples of two handles (bmtop_soc.c 634-652,      *)
(* 747-768).                                                                 *)
THEOREM HandleCorrect == SocSpec => []HandleIsAlone
  <1>1. HandleInv => HandleIsAlone
    BY DEF HandleInv, HandleIsAlone
  <1> QED
    BY Alone, <1>1, PTL

-------------------------------------------------------------------------------
(* The display stream *)

FrameInv == frames \in Nat /\ counted \in Nat /\ told \in Nat /\ EveryFrameOnce

(* The handler may come between any two steps of the sampler.                *)
LEMMA StepFrames == ASSUME FrameInv, [DisplayNext]_displayVars PROVE FrameInv'
  <1> USE DEF FrameInv, EveryFrameOnce
  <1>1. CASE Handler
    <2>1. PICK dropped \in 0 .. MostDropped :
            frames' = frames + 1 + dropped /\ counted' = counted + 1 + dropped
      BY <1>1, DisplayAssumption DEF Handler
    <2> QED
      BY <1>1, <2>1, DisplayAssumption DEF Handler
  <1>2. CASE ClearFrames
    BY <1>2 DEF ClearFrames
  <1>3. CASE Exchange
    BY <1>3 DEF Exchange
  <1>4. CASE Tick \/ Draw \/ StartRefused \/ Start \/ BeginWindow \/ Stop \/ Read
    BY <1>4 DEF Tick, Draw, StartRefused, Start, BeginWindow, Stop, Read, displayVars
  <1>5. CASE UNCHANGED displayVars
    BY <1>5 DEF displayVars
  <1> QED
    BY <1>1, <1>2, <1>3, <1>4, <1>5 DEF DisplayNext

(* No frame is lost or counted twice, whenever the queue calls while the     *)
(* sampler starts, stops or reads (bmtop_link.m 231-340).                    *)
THEOREM FramesCounted == DisplaySpec => []EveryFrameOnce
  <1>1. DisplayInit => FrameInv
    BY DEF DisplayInit, FrameInv, EveryFrameOnce
  <1>2. FrameInv => EveryFrameOnce
    BY DEF FrameInv
  <1> QED
    BY <1>1, <1>2, StepFrames, PTL DEF DisplaySpec

-------------------------------------------------------------------------------
(* The volumes *)

(* What is reported is the first of each device among the rows that df wrote
   and the filters leave; after a df that fails, nothing.                     *)
DisksInv ==
  /\ rows # None => rows \in Seq([name : Names, kind : Kinds])
  /\ hidden # None => rows # None
  /\ disks # None => hidden # None /\ disks = FirstOfDevice(rows)
  /\ mounted \in [Names -> Kinds \cup {None}]

VolumeRows == [name : Names, kind : Kinds]

LEMMA DfWrites ==
  ASSUME mounted \in [Names -> Kinds \cup {None}], NEW order \in SetToSeqs(Mounted)
  PROVE  [i \in DOMAIN order |-> Row(order[i])] \in Seq(VolumeRows)
<1>1. IsFiniteSet(Mounted)
  BY VolumesAssumption, FS_Subset DEF Mounted, VolumesAssumption
<1>2. Cardinality(Mounted) \in Nat
  BY <1>1, FS_CardinalityType
<1>3. order \in [1 .. Cardinality(Mounted) -> Mounted]
  BY DEF SetToSeqs
<1>4. \A n \in Mounted : Row(n) \in VolumeRows
  BY DEF Mounted, Row, VolumeRows
<1>. QED BY <1>2, <1>3, <1>4

LEMMA VolumesStep == DisksInv /\ [VolumesNext]_volumeVars => DisksInv'
<1>. SUFFICES ASSUME DisksInv, [VolumesNext]_volumeVars PROVE DisksInv'
  OBVIOUS
<1>1. ASSUME NEW n \in Names, Unmount(n) \/ Remount(n) PROVE DisksInv'
  BY <1>1 DEF DisksInv, Unmount, Remount
<1>2. CASE Df
  <2>1. rows' \in Seq(VolumeRows)
    BY <1>2, DfWrites DEF Df, DisksInv
  <2>. QED BY <1>2, <2>1 DEF Df, DisksInv, VolumeRows
<1>3. CASE DfFails
  <2>1. FirstOfDevice(rows)' = {}
    BY <1>3 DEF DfFails, FirstOfDevice, Left
  <2>. QED BY <1>3, <2>1, VolumesAssumption DEF DfFails, DisksInv, VolumesAssumption
<1>4. CASE Mount
  BY <1>4 DEF Mount, DisksInv
<1>5. CASE ReportDisks
  <2>1. FirstOfDevice(rows)' = FirstOfDevice(rows)
    BY <1>5 DEF ReportDisks, FirstOfDevice, Left, Reportable
  <2>. QED BY <1>5, <2>1 DEF ReportDisks, DisksInv
<1>6. CASE UNCHANGED volumeVars
  BY <1>6 DEF volumeVars, DisksInv, FirstOfDevice, Left, Reportable
<1>. QED BY <1>1, <1>2, <1>3, <1>4, <1>5, <1>6 DEF VolumesNext

LEMMA VolumesTraced == VolumesSpec => []DisksInv
<1>1. VolumesInit => DisksInv
  BY DEF VolumesInit, DisksInv
<1>. QED BY <1>1, VolumesStep, PTL DEF VolumesSpec

(* Of a device whose rows are left there is a first one, and no other.       *)
LEMMA OneOfDevice ==
  ASSUME NEW list \in Seq(VolumeRows), NEW device \in Disks
  PROVE  LET fit == {i \in Left(list) : list[i].kind.device = device}
             shown == {row \in FirstOfDevice(list) : row.kind.device = device}
         IN  IF fit = {} THEN shown = {} ELSE \E i \in fit : shown = {list[i]}
<1>. DEFINE fit == {i \in Left(list) : list[i].kind.device = device}
            shown == {row \in FirstOfDevice(list) : row.kind.device = device}
<1>1. fit \in SUBSET Nat /\ device # None
  BY VolumesAssumption DEF Left, VolumesAssumption
<1>2. CASE fit = {}
  BY <1>2 DEF FirstOfDevice
<1>3. CASE fit # {}
  <2>1. PICK i \in fit : \A j \in fit : i <= j
    <3>. HIDE DEF fit
    <3>. QED BY <1>1, <1>3, LeastNat
  <2>2. i \in Left(list) /\ list[i].kind.device = device
    OBVIOUS
  <2>3. list[i] \in shown
    BY <1>1, <2>1, <2>2 DEF FirstOfDevice
  <2>4. ASSUME NEW row \in shown PROVE row = list[i]
    <3>1. PICK k \in Left(list) : /\ row = list[k] /\ list[k].kind.device = device
                                  /\ \A j \in Left(list) : list[j].kind.device = list[k].kind.device => k <= j
      BY DEF FirstOfDevice
    <3>2. k \in fit
      BY <3>1
    <3>3. k <= i /\ i <= k /\ i \in Nat /\ k \in Nat
      BY <1>1, <2>1, <2>2, <3>1, <3>2
    <3>. QED BY <3>1, <3>3
  <2>5. shown = {list[i]}
    <3>. HIDE DEF shown
    <3>. QED BY <2>3, <2>4
  <2>. QED BY <1>3, <2>5
<1>. QED BY <1>2, <1>3

(* Whatever is mounted and unmounted while df and mount list the volumes, of
   each device with a row that the filters leave one is reported, and none of
   another device or one that they take out (parse_df_output).               *)
THEOREM DevicesReported == VolumesSpec => []EachDeviceOnce
<1>1. DisksInv => EachDeviceOnce
  <2>. SUFFICES ASSUME DisksInv, disks # None, NEW device \in Disks
                PROVE  LET shown == {row \in disks : row.kind.device = device}
                           fit == {row \in Range(rows) : row.kind.device = device /\ Reportable(row)}
                       IN  shown \subseteq fit /\ Cardinality(shown) = IF fit = {} THEN 0 ELSE 1
    BY DEF EachDeviceOnce
  <2>. DEFINE shown == {row \in disks : row.kind.device = device}
              fit == {row \in Range(rows) : row.kind.device = device /\ Reportable(row)}
              places == {i \in Left(rows) : rows[i].kind.device = device}
  <2>1. rows \in Seq(VolumeRows) /\ disks = FirstOfDevice(rows)
    BY DEF DisksInv, VolumeRows
  <2>2. fit = {rows[i] : i \in places}
    BY DEF Range, Left
  <2>3. IF places = {} THEN shown = {} ELSE \E i \in places : shown = {rows[i]}
    BY <2>1, OneOfDevice
  <2>4. CASE places = {}
    BY <2>2, <2>3, <2>4, FS_EmptySet
  <2>5. CASE places # {}
    <3>1. PICK i \in places : shown = {rows[i]}
      BY <2>3, <2>5
    <3>2. rows[i] \in fit /\ fit # {}
      BY <2>2
    <3>3. shown \subseteq fit /\ Cardinality(shown) = IF fit = {} THEN 0 ELSE 1
      <4>. HIDE DEF fit, shown
      <4>. QED BY <3>1, <3>2, FS_Singleton
    <3>. QED BY <3>3
  <2>. QED BY <2>4, <2>5
<1>. QED BY <1>1, VolumesTraced, PTL

-------------------------------------------------------------------------------
(* The Thunderbolt tree *)

Wired ==
  /\ cable \in [Plugs -> Hosts \cup Plugs \cup {None}]
  /\ \A d \in Plugged : Above(d) \cap Hosts # {}

LEMMA UpType ==
  ASSUME Wired, NEW s \in Hosts \cup Plugs
  PROVE  Up(s) \in Hosts \cup Plugs \cup {None} /\ (s \in Hosts => Up(s) = None)
BY ThunderboltAssumption DEF Wired, Up, ThunderboltAssumption

(* The switches above a device are closed, and the least such set. *)
LEMMA AboveClosed ==
  ASSUME Wired, NEW d \in Hosts \cup Plugs
  PROVE  /\ Above(d) \in SUBSET (Hosts \cup Plugs) /\ d \in Above(d) /\ Closed(Above(d))
         /\ \A set \in SUBSET (Hosts \cup Plugs) : d \in set /\ Closed(set) => Above(d) \subseteq set
<1>1. /\ Above(d) \in SUBSET (Hosts \cup Plugs) /\ d \in Above(d)
      /\ \A set \in SUBSET (Hosts \cup Plugs) : d \in set /\ Closed(set) => Above(d) \subseteq set
  BY DEF Above
<1>2. ASSUME NEW s \in Above(d), Up(s) # None PROVE Up(s) \in Above(d)
  <2>1. s \in Hosts \cup Plugs /\ Up(s) \in Hosts \cup Plugs
    BY <1>1, <1>2, UpType
  <2>2. ASSUME NEW set \in SUBSET (Hosts \cup Plugs), d \in set, Closed(set) PROVE Up(s) \in set
    BY <1>1, <1>2, <2>2 DEF Closed
  <2>. QED BY <2>1, <2>2 DEF Above
<1>. QED BY <1>1, <1>2 DEF Closed

LEMMA AboveNext ==
  ASSUME Wired, NEW s \in Hosts \cup Plugs
  PROVE  Above(s) = IF Up(s) = None THEN {s} ELSE {s} \cup Above(Up(s))
<1>1. CASE Up(s) = None
  <2>1. {s} \in SUBSET (Hosts \cup Plugs) /\ Closed({s})
    BY <1>1 DEF Closed
  <2>2. Above(s) \subseteq {s} /\ s \in Above(s)
    BY <2>1, AboveClosed
  <2>. QED BY <1>1, <2>2
<1>2. CASE Up(s) # None
  <2>1. Up(s) \in Hosts \cup Plugs
    BY <1>2, UpType
  <2>2. /\ Above(Up(s)) \in SUBSET (Hosts \cup Plugs) /\ Up(s) \in Above(Up(s)) /\ Closed(Above(Up(s)))
        /\ \A set \in SUBSET (Hosts \cup Plugs) : Up(s) \in set /\ Closed(set) => Above(Up(s)) \subseteq set
    BY <2>1, AboveClosed
  <2>3. /\ {s} \cup Above(Up(s)) \in SUBSET (Hosts \cup Plugs)
        /\ s \in {s} \cup Above(Up(s)) /\ Closed({s} \cup Above(Up(s)))
    BY <2>2 DEF Closed
  <2>4. /\ Above(s) \in SUBSET (Hosts \cup Plugs) /\ s \in Above(s) /\ Closed(Above(s))
        /\ Above(s) \subseteq {s} \cup Above(Up(s))
    BY <2>3, AboveClosed
  <2>5. Up(s) \in Above(s)
    BY <1>2, <2>4 DEF Closed
  <2>6. Above(Up(s)) \subseteq Above(s)
    BY <2>2, <2>4, <2>5
  <2>. QED BY <1>2, <2>4, <2>6
<1>. QED BY <1>1, <1>2

LEMMA AboveTransitive ==
  ASSUME Wired, NEW d \in Hosts \cup Plugs, NEW s \in Above(d)
  PROVE  Above(s) \subseteq Above(d) /\ s \in Hosts \cup Plugs
BY AboveClosed

(* Who is above itself never comes to a host. *)
LEMMA NoCycle ==
  ASSUME Wired, NEW s \in Hosts \cup Plugs, Up(s) # None, Above(s) \cap Hosts # {}
  PROVE  s \notin Above(Up(s))
<1>. SUFFICES ASSUME s \in Above(Up(s)) PROVE FALSE
  OBVIOUS
<1>. DEFINE Round == {e \in Hosts \cup Plugs : s \in Above(e)}
<1>1. Round \in SUBSET (Hosts \cup Plugs) /\ s \in Round
  BY AboveClosed
<1>2. ASSUME NEW e \in Round, Up(e) # None PROVE Up(e) \in Round
  <2>1. Up(e) \in Hosts \cup Plugs
    BY <1>2, UpType
  <2>2. Above(e) = {e} \cup Above(Up(e))
    BY <1>2, AboveNext
  <2>3. s \in Above(Up(e))
    BY <2>2
  <2>. QED BY <2>1, <2>3
<1>3. Closed(Round)
  <2>. HIDE DEF Round
  <2>. QED BY <1>2 DEF Closed
<1>4. Above(s) \subseteq Round
  <2>. HIDE DEF Round
  <2>. QED BY <1>1, <1>3, AboveClosed
<1>5. PICK h \in Hosts : h \in Above(s)
  OBVIOUS
<1>6. s \in Above(h) /\ Up(h) = None
  BY <1>4, <1>5, UpType
<1>7. s = h
  BY <1>6, AboveNext
<1>. QED BY <1>6, <1>7

LEMMA LevelsUp ==
  ASSUME Wired, NEW s \in Hosts \cup Plugs
  PROVE  /\ Levels(s) \in Nat
         /\ Up(s) # None /\ Above(s) \cap Hosts # {} => Levels(s) = Levels(Up(s)) + 1
<1>1. ASSUME NEW e \in Hosts \cup Plugs
      PROVE  IsFiniteSet(Above(e)) /\ Cardinality(Above(e)) \in Nat \ {0}
  <2>1. IsFiniteSet(Above(e)) /\ e \in Above(e)
    BY AboveClosed, FS_Subset, ThunderboltAssumption DEF ThunderboltAssumption
  <2>2. Cardinality(Above(e)) \in Nat /\ Cardinality(Above(e)) # 0
    BY <2>1, FS_CardinalityType, FS_EmptySet
  <2>. QED BY <2>1, <2>2
<1>2. Levels(s) \in Nat
  BY <1>1 DEF Levels
<1>3. ASSUME Up(s) # None, Above(s) \cap Hosts # {} PROVE Levels(s) = Levels(Up(s)) + 1
  <2>1. Up(s) \in Hosts \cup Plugs
    BY <1>3, UpType
  <2>2. Above(s) = Above(Up(s)) \cup {s} /\ s \notin Above(Up(s))
    BY <1>3, AboveNext, NoCycle
  <2>3. Cardinality(Above(s)) = Cardinality(Above(Up(s))) + 1
    BY <1>1, <2>1, <2>2, FS_AddElement
  <2>. QED BY <1>1, <2>1, <2>3 DEF Levels
<1>. QED BY <1>2, <1>3

(* What is behind a device that was pulled out has gone with it. *)
PulledBehind ==
  pulled \subseteq Plugged /\ \A d \in Plugged : Above(d) \cap pulled # {} => d \in pulled

(* The root of a device is a host above it, and if it stayed and its host is
   readable and near enough, that host.                                      *)
RightRoot(d, root) ==
  /\ root # None => root \in Hosts \cap Above(d)
  /\ d \notin pulled /\ Levels(d) * Between <= MaxHops =>
       \A h \in (Hosts \cap Above(d)) \ unreadable : root = h

SwitchesRight ==
  \A row \in switches : \/ row.uid \in Hosts \ unreadable /\ row.parent = None
                        \/ row.uid \in Plugged /\ RightRoot(row.uid, row.parent)

(* The climb has passed by no host that can be read, and counts its hops. *)
ClimbRight ==
  climb # None =>
    /\ climb \in [of : Plugged, at : Hosts \cup Plugs, hops : Nat]
    /\ climb.at \in Above(climb.of)
    /\ climb.hops + Levels(climb.at) * Between = Levels(climb.of) * Between
    /\ climb.at \notin Hosts \ unreadable
    /\ (Hosts \cap Above(climb.of)) \ unreadable \subseteq Above(climb.at)

BusesRight ==
  tbBuses # None => climb = None /\ DevicesUnderTheirBus

TreeInv ==
  /\ Wired /\ iterator \subseteq Hosts \cup Plugged
  /\ PulledBehind /\ SwitchesRight /\ ClimbRight /\ BusesRight

LEMMA TreeStart == ThunderboltInit => TreeInv
  BY ThunderboltAssumption
     DEF ThunderboltInit, TreeInv, Wired, PulledBehind, SwitchesRight, ClimbRight, BusesRight,
         ThunderboltAssumption

LEMMA SameCable ==
  ASSUME cable' = cable
  PROVE  /\ Wired' = Wired /\ Plugged' = Plugged
         /\ \A d : Above(d)' = Above(d) /\ Up(d)' = Up(d) /\ Levels(d)' = Levels(d)
BY DEF Wired, Plugged, Above, Closed, Up, Levels

LEMMA PullKeeps ==
  ASSUME TreeInv, NEW d \in Plugs, Pull(d)
  PROVE  TreeInv'
<1>1. /\ tbBuses = None /\ d \in Plugged /\ pulled' = pulled \cup {e \in Plugged : d \in Above(e)}
      /\ UNCHANGED <<cable, unreadable, iterator, switches, climb, tbBuses>>
  BY DEF Pull
<1>2. Wired /\ PulledBehind /\ Plugged \subseteq Hosts \cup Plugs
  BY DEF TreeInv, Plugged
<1>3. \A e : Above(e)' = Above(e) /\ Levels(e)' = Levels(e)
  BY <1>1, SameCable
<1>4. ASSUME NEW e \in Plugged, NEW s \in Above(e), s \in pulled' PROVE e \in pulled'
  <2>1. Above(s) \subseteq Above(e)
    BY <1>2, AboveTransitive
  <2>2. CASE s \in pulled
    BY <1>1, <1>2, <2>2 DEF PulledBehind
  <2>3. CASE d \in Above(s)
    BY <1>1, <2>1, <2>3
  <2>. QED BY <1>1, <1>4, <2>2, <2>3
<1>5. PulledBehind'
  BY <1>1, <1>2, <1>3, <1>4, SameCable DEF PulledBehind
<1>6. SwitchesRight'
  BY <1>1, <1>3, SameCable DEF TreeInv, SwitchesRight, RightRoot
<1>7. ClimbRight'
  BY <1>1, <1>3, SameCable DEF TreeInv, ClimbRight
<1>. QED BY <1>1, <1>5, <1>6, <1>7, SameCable DEF TreeInv, BusesRight

LEMMA NextSwitchKeeps ==
  ASSUME TreeInv, NEW s \in Hosts \cup Plugs, NextSwitch(s)
  PROVE  TreeInv'
<1>1. /\ tbBuses = None /\ climb = None /\ s \in iterator /\ iterator' = iterator \ {s}
      /\ UNCHANGED <<cable, unreadable, pulled, tbBuses>>
  BY DEF NextSwitch
<1>2. Wired /\ PulledBehind /\ SwitchesRight /\ iterator \subseteq Hosts \cup Plugged
  BY DEF TreeInv
<1>3. \A e : Above(e)' = Above(e) /\ Levels(e)' = Levels(e)
  BY <1>1, SameCable
<1>4. PulledBehind' /\ Wired' /\ iterator' \subseteq (Hosts \cup Plugged)' /\ BusesRight'
  BY <1>1, <1>2, <1>3, SameCable DEF PulledBehind, BusesRight
<1>5. CASE s \in unreadable /\ UNCHANGED <<switches, climb>>
  BY <1>1, <1>2, <1>3, <1>4, <1>5, SameCable DEF TreeInv, SwitchesRight, RightRoot, ClimbRight
<1>6. CASE s \in Hosts \ unreadable /\ switches' = switches \cup {[uid |-> s, parent |-> None]} /\ UNCHANGED climb
  BY <1>1, <1>2, <1>3, <1>4, <1>6, SameCable DEF TreeInv, SwitchesRight, RightRoot, ClimbRight
<1>7. CASE s \in Plugs \ unreadable /\ climb' = [of |-> s, at |-> s, hops |-> 0] /\ UNCHANGED switches
  <2>1. s \in Plugged /\ s \notin Hosts /\ s \in Above(s)
    BY <1>1, <1>2, <1>7, ThunderboltAssumption, AboveClosed DEF ThunderboltAssumption
  <2>2. Levels(s) \in Nat /\ Between \in Nat
    BY <1>2, LevelsUp, ThunderboltAssumption DEF ThunderboltAssumption
  <2>3. 0 + Levels(s) * Between = Levels(s) * Between
    BY <2>2
  <2>4. ClimbRight'
    BY <1>1, <1>3, <1>7, <2>1, <2>3, SameCable DEF ClimbRight
  <2>. QED BY <1>1, <1>2, <1>3, <1>4, <1>7, <2>4, SameCable DEF TreeInv, SwitchesRight, RightRoot
<1>. QED BY <1>5, <1>6, <1>7 DEF NextSwitch

(* The climb ends with the right root. *)
LEMMA FoundKeeps ==
  ASSUME TreeInv, climb # None, NEW root, RightRoot(climb.of, root), Found(root),
         UNCHANGED <<cable, unreadable, pulled, iterator, tbBuses>>
  PROVE  TreeInv'
<1>1. switches' = switches \cup {[uid |-> climb.of, parent |-> root]} /\ climb' = None
  BY DEF Found
<1>2. \A e : Above(e)' = Above(e) /\ Levels(e)' = Levels(e)
  BY SameCable
<1>3. climb.of \in Plugged /\ tbBuses = None
  BY DEF TreeInv, ClimbRight, BusesRight
<1>4. SwitchesRight'
  BY <1>1, <1>2, <1>3, SameCable DEF TreeInv, SwitchesRight, RightRoot
<1>. QED BY <1>1, <1>2, <1>3, <1>4, SameCable DEF TreeInv, PulledBehind, ClimbRight, BusesRight

LEMMA ClimbKeeps ==
  ASSUME TreeInv, Climb
  PROVE  TreeInv'
<1>. DEFINE here == climb.at
            up == IF here \in pulled THEN None ELSE Up(here)
            hops == climb.hops + Between
<1>1. /\ climb # None /\ Wired /\ PulledBehind /\ tbBuses = None
      /\ UNCHANGED <<cable, unreadable, pulled, iterator, tbBuses>>
  BY DEF Climb, TreeInv, BusesRight
<1>2. /\ climb.of \in Plugged /\ here \in Above(climb.of) /\ climb.hops \in Nat
      /\ climb.hops + Levels(here) * Between = Levels(climb.of) * Between
      /\ here \notin Hosts \ unreadable
      /\ (Hosts \cap Above(climb.of)) \ unreadable \subseteq Above(here)
      /\ climb \in [of : Plugged, at : Hosts \cup Plugs, hops : Nat]
  BY <1>1 DEF TreeInv, ClimbRight
<1>3. here \in Hosts \cup Plugs /\ Above(here) \subseteq Above(climb.of)
  BY <1>1, <1>2, AboveTransitive DEF Plugged
<1>4. climb.of \notin pulled => here \notin pulled
  BY <1>1, <1>2 DEF PulledBehind
<1>5. CASE up = None /\ Found(None)
  <2>1. climb.of \notin pulled => (Hosts \cap Above(climb.of)) \ unreadable = {}
    <3>1. Up(here) = None => Above(here) = {here}
      BY <1>1, <1>3, AboveNext
    <3>. QED BY <1>2, <1>4, <1>5, <3>1
  <2>2. RightRoot(climb.of, None)
    BY <2>1 DEF RightRoot
  <2>. QED BY <1>1, <1>5, <2>2, FoundKeeps
<1>6. CASE up # None
  <2>1. up = Up(here) /\ up \in Hosts \cup Plugs /\ up \in Above(here) /\ Above(here) = {here} \cup Above(up)
    BY <1>1, <1>3, <1>6, UpType, AboveClosed, AboveNext DEF Closed
  <2>2. Above(here) \cap Hosts # {}
    BY <1>1, <1>3, <1>6, <2>1, UpType DEF Wired, Plugged, Up
  <2>3. /\ Levels(here) = Levels(up) + 1 /\ Levels(up) \in Nat /\ Levels(climb.of) \in Nat
        /\ Between \in Nat /\ MaxHops \in Nat
    BY <1>1, <1>2, <1>3, <1>6, <2>1, <2>2, LevelsUp, ThunderboltAssumption
       DEF ThunderboltAssumption, Plugged
  <2>4. hops + Levels(up) * Between = Levels(climb.of) * Between /\ Levels(up) * Between >= 0
    <3>. HIDE DEF here, up
    <3>1. (Levels(up) + 1) * Between = Levels(up) * Between + Between
      BY <2>3
    <3>2. Levels(up) * Between \in Nat
      BY <2>3
    <3>3. climb.hops + (Levels(up) + 1) * Between = Levels(climb.of) * Between
      BY <1>2, <2>3
    <3>. QED BY <1>2, <2>3, <3>1, <3>2, <3>3
  <2>5. (Hosts \cap Above(climb.of)) \ unreadable \subseteq Above(up) /\ up \in Above(climb.of)
    BY <1>2, <1>3, <2>1
  <2>6. CASE hops > MaxHops /\ Found(None)
    <3>1. ~(Levels(climb.of) * Between <= MaxHops)
      <4>. DEFINE a == Levels(climb.of) * Between  b == Levels(up) * Between
      <4>1. a \in Nat /\ b \in Nat /\ hops + b = a /\ hops > MaxHops /\ hops \in Nat
        BY <1>2, <2>3, <2>4, <2>6
      <4>. HIDE DEF a, b, hops
      <4>2. ~(a <= MaxHops)
        BY <2>3, <4>1
      <4>. QED BY <4>2 DEF a
    <3>2. RightRoot(climb.of, None)
      BY <3>1 DEF RightRoot
    <3>. QED BY <1>1, <2>6, <3>2, FoundKeeps
  <2>7. CASE IsBus(up) /\ Found(up)
    <3>1. Above(up) = {up} /\ up \in Hosts \ unreadable
      BY <1>1, <2>1, <2>7, UpType, AboveNext DEF IsBus
    <3>2. RightRoot(climb.of, up)
      BY <2>5, <3>1 DEF RightRoot
    <3>. QED BY <1>1, <2>7, <3>2, FoundKeeps
  <2>8. CASE /\ ~IsBus(up) /\ climb' = [climb EXCEPT !.at = up, !.hops = hops]
             /\ UNCHANGED switches
    <3>1. \A e : Above(e)' = Above(e) /\ Levels(e)' = Levels(e)
      BY <1>1, SameCable
    <3>2. ClimbRight'
      <4>1. /\ climb'.of = climb.of /\ climb'.at = up /\ climb'.hops = hops
            /\ climb' \in [of : Plugged, at : Hosts \cup Plugs, hops : Nat]
        <5>1. climb \in [of : Plugged, at : Hosts \cup Plugs, hops : Nat]
          BY <1>2
        <5>2. up \in Hosts \cup Plugs /\ hops \in Nat /\ climb' = [climb EXCEPT !.at = up, !.hops = hops]
          BY <1>2, <2>1, <2>3, <2>8
        <5>. HIDE DEF up, hops
        <5>. QED BY <5>1, <5>2
      <4>2. up \notin Hosts \ unreadable
        BY <2>8 DEF IsBus
      <4>3. hops + Levels(up) * Between = Levels(climb.of) * Between
        BY <2>4
      <4>. HIDE DEF up, hops, here
      <4>. QED BY <1>1, <2>5, <3>1, <4>1, <4>2, <4>3, SameCable DEF ClimbRight
    <3>. QED BY <1>1, <2>8, <3>1, <3>2, SameCable
             DEF TreeInv, PulledBehind, SwitchesRight, RightRoot, BusesRight
  <2>. QED BY <1>6, <2>6, <2>7, <2>8 DEF Climb
<1>. QED BY <1>5, <1>6 DEF Climb

LEMMA BuildKeeps ==
  ASSUME TreeInv, BuildBuses
  PROVE  TreeInv'
<1>1. /\ climb = None /\ UNCHANGED <<cable, unreadable, pulled, iterator, switches, climb>>
      /\ tbBuses' = [h \in {row.uid : row \in {r \in switches : r.uid \in Hosts}} |->
                       {row.uid : row \in {r \in switches : r.parent = h}}]
  BY DEF BuildBuses
<1>2. SwitchesRight /\ Hosts \cap Plugged = {} /\ None \notin Hosts
  BY ThunderboltAssumption DEF TreeInv, ThunderboltAssumption, Plugged
<1>3. \A e : Above(e)' = Above(e) /\ Levels(e)' = Levels(e)
  BY <1>1, SameCable
<1>4. ASSUME NEW h \in DOMAIN tbBuses'
      PROVE  /\ h \in Hosts \ unreadable
             /\ \A d \in tbBuses'[h] : h \in Above(d)
             /\ \A row \in switches :
                  row.uid \in Plugged \ pulled /\ h \in Above(row.uid) /\ Levels(row.uid) * Between <= MaxHops
                  => row.uid \in tbBuses'[h]
  <2>1. h \in Hosts \ unreadable
    BY <1>1, <1>2 DEF SwitchesRight
  <2>2. tbBuses'[h] = {row.uid : row \in {r \in switches : r.parent = h}}
    BY <1>1
  <2>3. ASSUME NEW row \in switches, row.parent = h PROVE h \in Above(row.uid)
    BY <1>2, <2>1, <2>3 DEF SwitchesRight, RightRoot
  <2>4. ASSUME NEW row \in switches, row.uid \in Plugged \ pulled, h \in Above(row.uid),
               Levels(row.uid) * Between <= MaxHops
        PROVE  row.parent = h
    BY <1>2, <2>1, <2>4 DEF SwitchesRight, RightRoot
  <2>. QED BY <2>1, <2>2, <2>3, <2>4
<1>5. BusesRight'
  BY <1>1, <1>3, <1>4, SameCable DEF BusesRight, DevicesUnderTheirBus
<1>. QED BY <1>1, <1>3, <1>5, SameCable
         DEF TreeInv, PulledBehind, SwitchesRight, RightRoot, ClimbRight

(* Whatever chain the devices are in and whichever of them are pulled out while
   the switches are read, a device is shown under its own bus, and missing only
   with it or too far away (find_root_uid, build_tb_buses).                  *)
THEOREM TreeRight == ThunderboltSpec => []DevicesUnderTheirBus
<1>1. TreeInv /\ [ThunderboltNext]_thunderboltVars => TreeInv'
  <2>. SUFFICES ASSUME TreeInv, [ThunderboltNext]_thunderboltVars PROVE TreeInv'
    OBVIOUS
  <2>1. ASSUME UNCHANGED thunderboltVars PROVE TreeInv'
    <3>1. \A e : Above(e)' = Above(e) /\ Levels(e)' = Levels(e)
      BY <2>1, SameCable DEF thunderboltVars
    <3>. QED BY <2>1, <3>1, SameCable
             DEF thunderboltVars, TreeInv, PulledBehind, SwitchesRight, RightRoot, ClimbRight,
                 BusesRight, DevicesUnderTheirBus
  <2>. QED BY <2>1, PullKeeps, NextSwitchKeeps, ClimbKeeps, BuildKeeps DEF ThunderboltNext
<1>2. TreeInv => DevicesUnderTheirBus
  BY DEF TreeInv, BusesRight, DevicesUnderTheirBus
<1>. QED BY <1>1, <1>2, TreeStart, PTL DEF ThunderboltSpec

-------------------------------------------------------------------------------
(* The listings of sockets and devices *)

LsofLines == ProcessFields \cup FileFields

SocketRow == [pid : Pids, command : Texts \cup {None}, fields : [FileTags -> Texts \cup {None}]]
Device == [name : Texts, fields : [DeviceTags -> Texts \cup {None}]]

(* The lines that open a row, and a device. *)
Files == {i \in DOMAIN written : written[i].tag = "file" /\ written[ProcessOf(i)].value # None}
Hcas == {i \in DOMAIN written : written[i].tag = "hca_id"}

(* The last line so far with one of the tags. *)
Latest(tags) == LastBefore(Len(written) + 1, tags)

(* The first line is a process, so that a line has one.                     *)
LsofWritten ==
  written \in Seq(LsofLines) /\ (written # <<>> => written[1].tag = "process")

(* What the parser holds: of the open process, of the open file, and all      *)
(* rows before that one.                                                      *)
ProcessHeld ==
  /\ parsed \in [rows : Seq(SocketRow), pid : Pids \cup {None}, command : Texts \cup {None},
                current : SocketRow \cup {None}]
  /\ parsed.pid = IF written = <<>> THEN None ELSE written[Latest({"process"})].value
  /\ parsed.command = IF written = <<>> THEN None ELSE Own(Latest({"process"}), "command", Heads)

FileHeld ==
  parsed.current = IF Latest(Heads) \in Files THEN TrueRow(Latest(Heads)) ELSE None

Finished == Cardinality(Files) - IF Latest(Heads) \in Files THEN 1 ELSE 0

RowsOf(list, n) ==
  /\ list \in Seq(SocketRow) /\ Len(list) = n
  /\ \A i \in Files : CountTo(Files, i) <= n => list[CountTo(Files, i)] = TrueRow(i)

LsofInv == LsofWritten /\ ProcessHeld /\ FileHeld /\ RowsOf(parsed.rows, Finished)

RdmaInv ==
  /\ written \in Seq(DeviceLines)
  /\ devices \in Seq(Device) /\ Len(devices) = Cardinality(Hcas)
  /\ \A i \in Hcas : devices[CountTo(Hcas, i)] = TrueDevice(i)

(* What is to be reported. *)
TrueRows == [n \in DOMAIN InOrder(Files) |-> TrueRow(InOrder(Files)[n])]
TrueDevices == [n \in DOMAIN InOrder(Hcas) |-> TrueDevice(InOrder(Hcas)[n])]

AnswerRight ==
  answer # None /\ answer.ok =>
    /\ source = "lsof" => ~answer.troubled /\ answer.rows = TrueRows
    /\ source = "rdma" => answer.rows = IF answer.troubled THEN <<>> ELSE TrueDevices

ListingInv ==
  /\ source \in {"lsof", "rdma"}
  /\ source = "lsof" => LsofInv
  /\ source = "rdma" => RdmaInv
  /\ AnswerRight

(* LastBefore is the last. *)
LEMMA LastIs ==
  ASSUME NEW n \in Nat, NEW i \in 1 .. n + 1, NEW tags
  PROVE  LET last == LastBefore(i, tags) IN
         /\ last \in 0 .. i - 1 /\ (last # 0 => written[last].tag \in tags)
         /\ \A j \in 1 .. i - 1 : written[j].tag \in tags => j <= last
         /\ \A k \in 0 .. i - 1 : /\ k # 0 => written[k].tag \in tags
                                  /\ \A j \in 1 .. i - 1 : written[j].tag \in tags => j <= k
                                  => k = last
<1>. DEFINE some == {j \in 1 .. i - 1 : written[j].tag \in tags}
            from == {0} \cup some
            last == LastBefore(i, tags)
<1>1. last = CHOOSE x \in from : \A y \in from : x >= y
  BY DEF LastBefore, Max
<1>2. i \in Nat /\ i - 1 \in Nat /\ some \in SUBSET (1 .. i - 1)
  OBVIOUS
<1>3. \E x \in from : \A y \in from : x >= y
  <2>. HIDE DEF some
  <2>1. CASE some = {}
    BY <2>1
  <2>2. CASE some # {}
    <3>1. PICK x \in some : \A y \in some : y <= x
      BY <1>2, <2>2, GreatestUpTo
    <3>2. x \in from /\ x \in 1 .. i - 1
      BY <1>2, <3>1
    <3>3. \A y \in from : x >= y
      BY <1>2, <3>1, <3>2
    <3>. QED BY <3>2, <3>3
  <2>. QED BY <2>1, <2>2
<1>4. last \in from /\ \A y \in from : last >= y
  <2>. HIDE DEF last, from
  <2>. QED BY <1>1, <1>3
<1>. HIDE DEF last
<1>5. last \in 0 .. i - 1 /\ (last # 0 => written[last].tag \in tags)
  BY <1>2, <1>4
<1>6. \A j \in 1 .. i - 1 : written[j].tag \in tags => j <= last
  <2>1. \A j \in some : last >= j
    BY <1>4
  <2>. QED BY <1>5, <2>1
<1>7. ASSUME NEW k \in 0 .. i - 1, k # 0 => written[k].tag \in tags,
             \A j \in 1 .. i - 1 : written[j].tag \in tags => j <= k
      PROVE  k = last
  <2>1. last <= k
    <3>1. CASE last = 0
      BY <1>2, <3>1
    <3>2. CASE last # 0
      BY <1>2, <1>5, <1>7, <3>2
    <3>. QED BY <3>1, <3>2
  <2>2. k <= last
    <3>1. CASE k = 0
      BY <1>2, <1>5, <3>1
    <3>2. CASE k # 0
      BY <1>2, <1>6, <1>7, <3>2
    <3>. QED BY <3>1, <3>2
  <2>. QED BY <1>2, <1>5, <2>1, <2>2
<1>. QED BY <1>5, <1>6, <1>7 DEF last

(* The step that reads line n + 1. *)
LineAdded(n, line) ==
  /\ n \in Nat /\ Len(written) = n /\ Len(written') = n + 1 /\ written'[n + 1] = line
  /\ \A i \in 1 .. n : written'[i] = written[i]

LEMMA AddedBy ==
  ASSUME NEW S, NEW line \in S, written \in Seq(S), written' = Append(written, line)
  PROVE  /\ LineAdded(Len(written), line) /\ written' \in Seq(S) /\ Len(written) \in Nat
         /\ DOMAIN written = 1 .. Len(written) /\ DOMAIN written' = 1 .. Len(written) + 1
BY DEF LineAdded

(* A further line moves no last one but its own. *)
LEMMA LastNext ==
  ASSUME NEW n, NEW line, NEW tags, LineAdded(n, line)
  PROVE  /\ \A i \in 1 .. n + 1 : LastBefore(i, tags)' = LastBefore(i, tags)
         /\ LastBefore(n + 2, tags)' = IF line.tag \in tags THEN n + 1 ELSE LastBefore(n + 1, tags)
<1>. USE DEF LineAdded
<1>1. ASSUME NEW i \in 1 .. n + 1 PROVE LastBefore(i, tags)' = LastBefore(i, tags)
  <2>1. \A j \in 1 .. i - 1 : written'[j] = written[j]
    BY <1>1
  <2>2. {j \in 1 .. i - 1 : written'[j].tag \in tags} = {j \in 1 .. i - 1 : written[j].tag \in tags}
    BY <2>1
  <2>. QED BY <2>2 DEF LastBefore
<1>2. LastBefore(n + 2, tags)' = IF line.tag \in tags THEN n + 1 ELSE LastBefore(n + 1, tags)
  <2>1. {j \in 1 .. (n + 2) - 1 : written'[j].tag \in tags} =
          {j \in 1 .. n : written[j].tag \in tags} \cup (IF line.tag \in tags THEN {n + 1} ELSE {})
    <3>1. \A j : j \in 1 .. (n + 2) - 1 <=> j \in 1 .. n \/ j = n + 1
      OBVIOUS
    <3>. QED BY <3>1
  <2>2. CASE line.tag \in tags
    <3>. DEFINE from == {0} \cup {j \in 1 .. (n + 2) - 1 : written'[j].tag \in tags}
    <3>1. n + 1 \in from /\ \A y \in from : n + 1 >= y /\ y \in Nat
      BY <2>2
    <3>2. \A x \in from : (\A y \in from : x >= y) => x = n + 1
      <4>. HIDE DEF from
      <4>. QED BY <3>1
    <3>3. LastBefore(n + 2, tags)' = CHOOSE x \in from : \A y \in from : x >= y
      BY DEF LastBefore, Max
    <3>. HIDE DEF from
    <3>4. LastBefore(n + 2, tags)' = n + 1
      BY <3>1, <3>2, <3>3
    <3>. QED BY <2>2, <3>4
  <2>3. CASE line.tag \notin tags
    <3>1. {j \in 1 .. (n + 2) - 1 : written'[j].tag \in tags} = {j \in 1 .. (n + 1) - 1 : written[j].tag \in tags}
      BY <2>1, <2>3
    <3>. QED BY <2>3, <3>1 DEF LastBefore
  <2>. QED BY <2>2, <2>3
<1>. QED BY <1>1, <1>2

(* It is said of the last record if it is no head itself. *)
LEMMA OwnNext ==
  ASSUME NEW n, NEW line, NEW tag, NEW heads, LineAdded(n, line), NEW i \in 0 .. n
  PROVE  Own(i, tag, heads)' =
           IF line.tag = tag /\ LastBefore(n + 1, heads) = i THEN line.value ELSE Own(i, tag, heads)
<1>last. \A k \in 1 .. n + 1 : LastBefore(k, heads)' = LastBefore(k, heads)
  BY LastNext
<1>. USE DEF LineAdded
<1>1. Own(i, tag, heads)' =
        IF line.tag = tag /\ LastBefore(n + 1, heads) = i THEN line.value ELSE Own(i, tag, heads)
  <2>. DEFINE own == {j \in i + 1 .. n : written[j].tag = tag /\ LastBefore(j, heads) = i}
              later == {j \in i + 1 .. n + 1 : written'[j].tag = tag /\ LastBefore(j, heads)' = i}
              said == line.tag = tag /\ LastBefore(n + 1, heads) = i
  <2>1. Own(i, tag, heads) = IF own = {} THEN None ELSE written[Max(own)].value
    BY DEF Own
  <2>2. Own(i, tag, heads)' = IF later = {} THEN None ELSE written'[Max(later)].value
    BY DEF Own
  <2>3. \A j : j \in i + 1 .. n + 1 <=> j \in i + 1 .. n \/ j = n + 1
    OBVIOUS
  <2>4. \A j \in i + 1 .. n : j \in 1 .. n /\ j \in 1 .. n + 1
    OBVIOUS
  <2>5. n + 1 \in 1 .. n + 1
    OBVIOUS
  <2>6. \A j \in i + 1 .. n : (written'[j].tag = tag /\ LastBefore(j, heads)' = i)
                          <=> (written[j].tag = tag /\ LastBefore(j, heads) = i)
    BY <1>last, <2>4
  <2>7. (written'[n + 1].tag = tag /\ LastBefore(n + 1, heads)' = i) <=> said
    BY <1>last, <2>5
  <2>8. later = own \cup (IF said THEN {n + 1} ELSE {})
    <3>. HIDE DEF said
    <3>. QED BY <2>3, <2>6, <2>7
  <2>9. own \in SUBSET (1 .. n)
    BY <2>4
  <2>. HIDE DEF own, later
  <2>10. CASE said
    <3>1. n + 1 \in later /\ \A y \in later : n + 1 >= y /\ y \in Nat
      BY <2>8, <2>9, <2>10
    <3>2. Max(later) = n + 1
      <4>1. \A x \in later : (\A y \in later : x >= y) => x = n + 1
        BY <3>1
      <4>. QED BY <3>1, <4>1 DEF Max
    <3>. QED BY <2>2, <2>10, <3>1, <3>2
  <2>11. CASE ~said
    <3>1. later = own
      BY <2>8, <2>11
    <3>2. CASE own = {}
      BY <2>1, <2>2, <2>11, <3>1, <3>2
    <3>3. CASE own # {}
      <4>1. \E x \in own : \A y \in own : x >= y
        <5>1. PICK x \in own : \A y \in own : y <= x
          BY <2>9, <3>3, GreatestUpTo
        <5>2. \A y \in own : x >= y
          BY <2>9, <5>1
        <5>. QED BY <5>2
      <4>2. Max(own) \in own
        BY <4>1 DEF Max
      <4>3. written'[Max(own)] = written[Max(own)]
        BY <2>9, <4>2
      <4>. QED BY <2>1, <2>2, <2>11, <3>1, <3>3, <4>3
    <3>. QED BY <3>2, <3>3
  <2>. QED BY <2>10, <2>11
<1>. QED BY <1>1

LEMMA OwnStart ==
  ASSUME NEW n, NEW line, NEW tag, NEW heads, LineAdded(n, line), NEW i, i = n + 1
  PROVE  Own(i, tag, heads)' = None
<1>1. i + 1 .. Len(written') = {}
  BY DEF LineAdded
<1>2. {j \in i + 1 .. Len(written') : written'[j].tag = tag /\ LastBefore(j, heads)' = i} = {}
  BY <1>1
<1>. QED BY <1>2 DEF Own

LEMMA OwnType ==
  ASSUME NEW i \in Nat, NEW tag, NEW heads, Len(written) \in Nat,
         \A j \in 1 .. Len(written) : written[j].tag = tag => written[j].value \in Texts
  PROVE  Own(i, tag, heads) \in Texts \cup {None}
<1>. DEFINE own == {j \in i + 1 .. Len(written) : written[j].tag = tag /\ LastBefore(j, heads) = i}
<1>1. Own(i, tag, heads) = IF own = {} THEN None ELSE written[Max(own)].value
  BY DEF Own
<1>2. own \in SUBSET (1 .. Len(written)) /\ \A j \in own : written[j].value \in Texts
  OBVIOUS
<1>. HIDE DEF own
<1>3. CASE own # {}
  <2>1. \E x \in own : \A y \in own : x >= y
    <3>1. PICK x \in own : \A y \in own : y <= x
      BY <1>2, <1>3, GreatestUpTo
    <3>2. \A y \in own : x >= y
      BY <1>2, <3>1
    <3>. QED BY <3>2
  <2>2. Max(own) \in own
    BY <2>1 DEF Max
  <2>. QED BY <1>1, <1>2, <1>3, <2>2
<1>. QED BY <1>1, <1>3

LEMMA LsofLine ==
  ASSUME NEW line \in LsofLines
  PROVE  /\ line.tag \in {"process", "command", "file", "other"} \cup FileTags
         /\ line.tag = "process" => line.value \in Pids \cup {None}
         /\ line.tag = "command" \/ line.tag \in FileTags => line.value \in Texts
BY DEF LsofLines, ProcessFields, FileFields, FileTags

(* The lines that open a row: each has a process before it, the last of them  *)
(* is no later than the last head, and its row is one.                        *)
LEMMA FilesAre ==
  ASSUME LsofWritten
  PROVE  /\ Len(written) \in Nat /\ DOMAIN written = 1 .. Len(written)
         /\ Files \in SUBSET (1 .. Len(written)) /\ Files \in SUBSET Nat /\ IsFiniteSet(Files)
         /\ \A i \in Files : /\ i <= Latest(Heads) /\ ProcessOf(i) \in 1 .. i - 1
                             /\ TrueRow(i) \in SocketRow
<1>1. /\ Len(written) \in Nat /\ DOMAIN written = 1 .. Len(written)
      /\ \A i \in 1 .. Len(written) : written[i] \in LsofLines
  BY DEF LsofWritten
<1>2. Files \in SUBSET (1 .. Len(written)) /\ Files \in SUBSET Nat
  BY <1>1 DEF Files
<1>3. IsFiniteSet(Files)
  BY <1>1, <1>2, FirstNumbers, FS_Subset
<1>4. ASSUME NEW i \in Files
      PROVE  /\ i <= Latest(Heads) /\ ProcessOf(i) \in 1 .. i - 1 /\ TrueRow(i) \in SocketRow
  <2>1. i \in 1 .. Len(written) /\ written[i].tag = "file" /\ written[ProcessOf(i)].value # None
    BY <1>1 DEF Files
  <2>2. i <= Latest(Heads)
    <3>1. Len(written) + 1 \in 1 .. Len(written) + 1 /\ i \in 1 .. (Len(written) + 1) - 1
      BY <1>1, <2>1
    <3>2. written[i].tag \in Heads
      BY <2>1 DEF Heads
    <3>. QED BY <1>1, <3>1, <3>2, LastIs DEF Latest
  <2>3. ProcessOf(i) \in 0 .. i - 1 /\ (ProcessOf(i) # 0 => written[ProcessOf(i)].tag = "process")
        /\ \A j \in 1 .. i - 1 : written[j].tag = "process" => j <= ProcessOf(i)
    <3>1. i \in 1 .. Len(written) + 1
      BY <1>1, <2>1
    <3>. QED BY <1>1, <3>1, LastIs DEF ProcessOf
  <2>4. written[1].tag = "process"
    BY <1>1, <2>1 DEF LsofWritten
  <2>5. ProcessOf(i) \in 1 .. i - 1
    <3>1. i # 1
      BY <2>1, <2>4
    <3>2. 1 \in 1 .. i - 1
      BY <2>1, <3>1
    <3>. QED BY <2>1, <2>3, <2>4, <3>2
  <2>6. written[ProcessOf(i)].value \in Pids
    <3>1. ProcessOf(i) \in 1 .. Len(written) /\ written[ProcessOf(i)].tag = "process"
      BY <2>1, <2>3, <2>5
    <3>. QED BY <1>1, <2>1, <3>1, LsofLine
  <2>7. Own(ProcessOf(i), "command", Heads) \in Texts \cup {None}
    <3>1. \A j \in 1 .. Len(written) : written[j].tag = "command" => written[j].value \in Texts
      BY <1>1, LsofLine
    <3>2. ProcessOf(i) \in Nat
      BY <2>1, <2>5
    <3>. QED BY <1>1, <3>1, <3>2, OwnType
  <2>8. \A tag \in FileTags : Own(i, tag, Heads) \in Texts \cup {None}
    <3>1. \A tag \in FileTags : \A j \in 1 .. Len(written) : written[j].tag = tag => written[j].value \in Texts
      BY <1>1, LsofLine
    <3>2. i \in Nat
      BY <2>1
    <3>. QED BY <1>1, <3>1, <3>2, OwnType
  <2>9. TrueRow(i) \in SocketRow
    BY <2>6, <2>7, <2>8 DEF TrueRow, SocketRow
  <2>. QED BY <2>2, <2>5, <2>9
<1>. QED BY <1>1, <1>2, <1>3, <1>4

(* A row of the open file comes after all others. *)
LEMMA PushedRows ==
  ASSUME LsofInv
  PROVE  RowsOf(Pushed(parsed), Cardinality(Files))
<1>1. /\ Files \in SUBSET Nat /\ IsFiniteSet(Files)
      /\ \A i \in Files : i <= Latest(Heads) /\ TrueRow(i) \in SocketRow
  BY FilesAre DEF LsofInv
<1>2. Cardinality(Files) \in Nat
  BY <1>1, FS_CardinalityType
<1>3. \A i \in Files : CountTo(Files, i) \in 1 .. Cardinality(Files)
  BY <1>1, PlaceInRange
<1>4. RowsOf(parsed.rows, Finished)
  BY DEF LsofInv
<1>5. CASE Latest(Heads) \notin Files
  <2>1. parsed.current = None /\ Finished = Cardinality(Files)
    BY <1>2, <1>5 DEF LsofInv, FileHeld, Finished
  <2>. QED BY <1>4, <2>1 DEF Pushed
<1>6. CASE Latest(Heads) \in Files
  <2>. DEFINE last == Latest(Heads)
  <2>1. parsed.current = TrueRow(last) /\ TrueRow(last) \in SocketRow /\ parsed.current # None
    BY <1>1, <1>6, ListingsAssumption DEF LsofInv, FileHeld, SocketRow
  <2>2. Finished + 1 = Cardinality(Files) /\ Finished \in Nat
    <3>1. Cardinality(Files) # 0
      BY <1>1, <1>6, FS_EmptySet
    <3>. QED BY <1>2, <1>6, <3>1 DEF Finished
  <2>3. Pushed(parsed) = Append(parsed.rows, TrueRow(last))
    BY <2>1 DEF Pushed
  <2>4. /\ Pushed(parsed) \in Seq(SocketRow) /\ Len(Pushed(parsed)) = Cardinality(Files)
        /\ Pushed(parsed)[Cardinality(Files)] = TrueRow(last)
        /\ \A k \in 1 .. Finished : Pushed(parsed)[k] = parsed.rows[k]
    <3>1. parsed.rows \in Seq(SocketRow) /\ Len(parsed.rows) = Finished
      BY <1>4 DEF RowsOf
    <3>. QED BY <2>1, <2>2, <2>3, <3>1
  <2>5. CountTo(Files, last) = Cardinality(Files)
    BY <1>1, <1>6, CountGreatest
  <2>6. ASSUME NEW i \in Files PROVE Pushed(parsed)[CountTo(Files, i)] = TrueRow(i)
    <3>1. CASE i = last
      BY <2>4, <2>5, <3>1
    <3>2. CASE i # last
      <4>1. i < last /\ last \in Nat /\ i \in Nat
        <5>1. last \in Nat /\ i \in Nat
          BY <1>1, <1>6, Zenon
        <5>2. i <= last
          BY <1>1
        <5>. HIDE DEF last
        <5>. QED BY <3>2, <5>1, <5>2
      <4>2. CountTo(Files, i) < CountTo(Files, last)
        BY <1>1, <1>6, <4>1, PlacesGrow
      <4>3. CountTo(Files, i) \in 1 .. Finished /\ CountTo(Files, i) <= Finished
        BY <1>3, <2>2, <2>5, <4>2
      <4>. QED BY <1>4, <2>4, <4>3 DEF RowsOf
    <3>. QED BY <3>1, <3>2
  <2>. QED BY <2>4, <2>6 DEF RowsOf
<1>. QED BY <1>5, <1>6

LEMMA AppendIs ==
  ASSUME NEW S, NEW s \in Seq(S), NEW x \in S
  PROVE  /\ Append(s, x) \in Seq(S) /\ Len(s) \in Nat /\ Len(Append(s, x)) = Len(s) + 1
         /\ Append(s, x)[Len(s) + 1] = x /\ \A i \in 1 .. Len(s) : Append(s, x)[i] = s[i]
         /\ DOMAIN s = 1 .. Len(s) /\ DOMAIN Append(s, x) = 1 .. Len(s) + 1
OBVIOUS

LEMMA LatestNext ==
  ASSUME NEW n, NEW line, NEW tags, LineAdded(n, line)
  PROVE  /\ Latest(tags) = LastBefore(n + 1, tags)
         /\ Latest(tags)' = IF line.tag \in tags THEN n + 1 ELSE Latest(tags)
<1>1. Len(written) + 1 = n + 1 /\ Len(written') + 1 = n + 2
  BY DEF LineAdded
<1>2. Latest(tags) = LastBefore(n + 1, tags)
  BY <1>1 DEF Latest
<1>3. Latest(tags)' = LastBefore(n + 2, tags)'
  BY <1>1 DEF Latest
<1>. QED BY <1>2, <1>3, LastNext

(* The step that reads line n + 1 of lsof. *)
LsofRead(n, line) ==
  /\ LsofInv /\ line \in LsofLines /\ MayFollow(line)
  /\ LineAdded(n, line) /\ written' \in Seq(LsofLines)

(* A further line opens a row of its own, or none. *)
LEMMA FilesNext ==
  ASSUME NEW n, NEW line, LsofRead(n, line)
  PROVE  /\ LsofWritten' /\ (line.tag # "process" => written # <<>>)
         /\ written # <<>> => Latest({"process"}) \in 1 .. n
         /\ \A i \in 1 .. n + 1 : ProcessOf(i)' = ProcessOf(i)
         /\ Files' = Files \cup IF line.tag = "file" /\ parsed.pid # None THEN {n + 1} ELSE {}
<1>. USE DEF LsofRead
<1>1. /\ n \in Nat /\ Len(written') = n + 1 /\ written'[n + 1] = line /\ written' \in Seq(LsofLines)
      /\ \A i \in 1 .. n : written'[i] = written[i]
      /\ DOMAIN written = 1 .. n /\ DOMAIN written' = 1 .. n + 1
  BY DEF LsofInv, LsofWritten, LineAdded
<1>2. line.tag # "process" => written # <<>>
  <2>1. CASE line.tag = "file"
    BY <2>1 DEF MayFollow
  <2>2. CASE line.tag # "file"
    BY <2>2, LsofLine DEF MayFollow
  <2>. QED BY <2>1, <2>2
<1>3. LsofWritten'
  <2>1. CASE written = <<>>
    BY <1>1, <1>2, <2>1 DEF LsofWritten
  <2>2. CASE written # <<>>
    <3>1. 1 \in 1 .. n
      BY <1>1, <2>2
    <3>. QED BY <1>1, <2>2, <3>1 DEF LsofInv, LsofWritten
  <2>. QED BY <2>1, <2>2
<1>4. \A i \in 1 .. n + 1 : ProcessOf(i)' = ProcessOf(i)
  <2>1. \A tags : \A i \in 1 .. n + 1 : LastBefore(i, tags)' = LastBefore(i, tags)
    BY LastNext
  <2>. QED BY <2>1 DEF ProcessOf
<1>5. ASSUME written # <<>> PROVE Latest({"process"}) \in 1 .. n
  <2>1. n + 1 \in 1 .. n + 1 /\ 1 \in 1 .. (n + 1) - 1
    BY <1>1, <1>5
  <2>2. written[1].tag = "process"
    BY <1>5 DEF LsofInv, LsofWritten
  <2>3. Latest({"process"}) \in 0 .. (n + 1) - 1 /\ 1 <= Latest({"process"})
    BY <1>1, <2>1, <2>2, LastIs DEF Latest
  <2>. QED BY <1>1, <2>3
<1>6. ASSUME NEW i \in 1 .. n
      PROVE  (written'[i].tag = "file" /\ written'[ProcessOf(i)'].value # None)
         <=> (written[i].tag = "file" /\ written[ProcessOf(i)].value # None)
  <2>1. ASSUME written[i].tag = "file" PROVE ProcessOf(i) \in 1 .. n
    <3>1. i \in 1 .. n + 1 /\ i \in Nat /\ written # <<>>
      BY <1>1
    <3>2. ProcessOf(i) \in 0 .. i - 1 /\ \A j \in 1 .. i - 1 : written[j].tag = "process" => j <= ProcessOf(i)
      BY <1>1, <3>1, LastIs DEF ProcessOf
    <3>3. written[1].tag = "process" /\ i # 1
      BY <2>1, <3>1 DEF LsofInv, LsofWritten
    <3>4. 1 \in 1 .. i - 1
      BY <3>1, <3>3
    <3>. QED BY <1>1, <3>2, <3>3, <3>4
  <2>2. i \in 1 .. n + 1
    BY <1>1
  <2>. QED BY <1>1, <1>4, <2>1, <2>2
<1>7. ASSUME line.tag = "file" PROVE written'[ProcessOf(n + 1)'].value = parsed.pid
  <2>1. written # <<>> /\ n + 1 \in 1 .. n + 1
    BY <1>1, <1>2, <1>7
  <2>2. ProcessOf(n + 1) = Latest({"process"})
    BY LatestNext DEF ProcessOf
  <2>3. ProcessOf(n + 1)' = Latest({"process"})
    BY <1>4, <2>1, <2>2
  <2>. QED BY <1>1, <1>5, <2>1, <2>3 DEF LsofInv, ProcessHeld
<1>8. Files' = {i \in 1 .. n + 1 : written'[i].tag = "file" /\ written'[ProcessOf(i)'].value # None}
  BY <1>1 DEF Files
<1>9. Files = {i \in 1 .. n : written[i].tag = "file" /\ written[ProcessOf(i)].value # None}
  BY <1>1 DEF Files
<1>10. \A i : i \in 1 .. n + 1 <=> i \in 1 .. n \/ i = n + 1
  BY <1>1
<1>11. Files' = Files \cup IF line.tag = "file" /\ parsed.pid # None THEN {n + 1} ELSE {}
  <2>1. n + 1 \notin Files
    BY <1>1, <1>9
  <2>2. n + 1 \in Files' <=> line.tag = "file" /\ parsed.pid # None
    BY <1>1, <1>7, <1>8, <1>10
  <2>3. \A i \in 1 .. n : i \in Files' <=> i \in Files
    BY <1>6, <1>8, <1>9, <1>10
  <2>4. \A i : (i \in Files => i \in 1 .. n) /\ (i \in Files' => i \in 1 .. n \/ i = n + 1)
    BY <1>8, <1>9, <1>10
  <2>5. \A i : i \in Files' <=> i \in Files \/ (i = n + 1 /\ line.tag = "file" /\ parsed.pid # None)
    BY <2>1, <2>2, <2>3, <2>4, Zenon
  <2>. QED BY <2>5
<1>. QED BY <1>1, <1>2, <1>3, <1>4, <1>5, <1>11

(* It says something of the open file alone. *)
LEMMA RowNext ==
  ASSUME NEW n, NEW line, LsofRead(n, line), NEW i \in Files
  PROVE  TrueRow(i)' = IF line.tag \in FileTags /\ Latest(Heads) = i
                       THEN [TrueRow(i) EXCEPT !.fields[line.tag] = line.value] ELSE TrueRow(i)
<1>. USE DEF LsofRead
<1>1. n = Len(written)
  BY DEF LineAdded
<1>2. PICK p : p = ProcessOf(i)
  OBVIOUS
<1>3. /\ n \in Nat /\ Len(written') = n + 1 /\ written'[n + 1] = line
      /\ \A k \in 1 .. n : written'[k] = written[k]
      /\ \A k \in 1 .. n + 1 : ProcessOf(k)' = ProcessOf(k)
  BY FilesNext DEF LineAdded
<1>4. i \in 1 .. n /\ i \in 1 .. n + 1 /\ i \in 0 .. n /\ p \in 1 .. i - 1 /\ p \in 1 .. n /\ p \in 0 .. n
      /\ i <= Latest(Heads)
  <2>1. i \in 1 .. n /\ p \in 1 .. i - 1 /\ i <= Latest(Heads)
    BY <1>1, <1>2, FilesAre DEF LsofInv
  <2>. QED BY <1>3, <2>1
<1>5. Latest(Heads) = LastBefore(n + 1, Heads) /\ LastBefore(n + 1, Heads) # p
  <2>1. Latest(Heads) = LastBefore(n + 1, Heads)
    BY <1>1 DEF Latest
  <2>2. LastBefore(n + 1, Heads) \in 0 .. (n + 1) - 1
    <3>1. n + 1 \in 1 .. n + 1
      BY <1>3
    <3>. QED BY <1>3, <3>1, LastIs
  <2>. QED BY <1>3, <1>4, <2>1, <2>2
<1>6. ProcessOf(i)' = p /\ written'[p].value = written[p].value
  BY <1>2, <1>3, <1>4
<1>said. \A tag : \A k \in 0 .. n : Own(k, tag, Heads)' =
           IF line.tag = tag /\ LastBefore(n + 1, Heads) = k THEN line.value ELSE Own(k, tag, Heads)
  BY OwnNext
<1>7. Own(p, "command", Heads)' = Own(p, "command", Heads)
  BY <1>4, <1>5, <1>said
<1>8. \A tag \in FileTags : Own(i, tag, Heads)' =
        IF line.tag = tag /\ Latest(Heads) = i THEN line.value ELSE Own(i, tag, Heads)
  BY <1>4, <1>5, <1>said
<1>9. TrueRow(i) = [pid |-> written[p].value, command |-> Own(p, "command", Heads),
                    fields |-> [tag \in FileTags |-> Own(i, tag, Heads)]]
  BY <1>2 DEF TrueRow
<1>10. TrueRow(i)' = [pid |-> written[p].value, command |-> Own(p, "command", Heads),
                      fields |-> [tag \in FileTags |->
                        IF line.tag = tag /\ Latest(Heads) = i THEN line.value ELSE Own(i, tag, Heads)]]
  <2>1. TrueRow(i)' = [pid |-> written'[p].value, command |-> Own(p, "command", Heads)',
                       fields |-> [tag \in FileTags |-> Own(i, tag, Heads)']]
    BY <1>6 DEF TrueRow
  <2>. QED BY <1>6, <1>7, <1>8, <2>1
<1>11. CASE line.tag \in FileTags /\ Latest(Heads) = i
  <2>. DEFINE old == [tag \in FileTags |-> Own(i, tag, Heads)]
  <2>1. [tag \in FileTags |-> IF line.tag = tag /\ Latest(Heads) = i THEN line.value ELSE Own(i, tag, Heads)]
          = [old EXCEPT ![line.tag] = line.value]
    BY <1>11
  <2>2. TrueRow(i)' = [pid |-> written[p].value, command |-> Own(p, "command", Heads),
                       fields |-> [old EXCEPT ![line.tag] = line.value]]
    BY <1>10, <2>1
  <2>3. TrueRow(i) = [pid |-> written[p].value, command |-> Own(p, "command", Heads), fields |-> old]
    BY <1>9
  <2>. HIDE DEF old
  <2>4. TrueRow(i)' = [TrueRow(i) EXCEPT !.fields[line.tag] = line.value]
    BY <2>2, <2>3
  <2>. QED BY <1>11, <2>4
<1>12. CASE ~(line.tag \in FileTags /\ Latest(Heads) = i)
  <2>1. [tag \in FileTags |-> IF line.tag = tag /\ Latest(Heads) = i THEN line.value ELSE Own(i, tag, Heads)]
          = [tag \in FileTags |-> Own(i, tag, Heads)]
    BY <1>12
  <2>. QED BY <1>9, <1>10, <1>12, <2>1
<1>. QED BY <1>11, <1>12

(* What is held of the open process. *)
LEMMA ProcessNext ==
  ASSUME NEW n, NEW line, LsofRead(n, line)
  PROVE  /\ written' # <<>>
         /\ written'[Latest({"process"})'].value =
              IF line.tag = "process" THEN line.value ELSE parsed.pid
         /\ Own(Latest({"process"}), "command", Heads)' =
              CASE line.tag = "process" -> None
                [] line.tag = "command" -> line.value
                [] OTHER -> parsed.command
<1>1. /\ LsofInv /\ LineAdded(n, line) /\ n \in Nat /\ n = Len(written) /\ written' # <<>>
      /\ DOMAIN written = 1 .. n
      /\ written'[n + 1] = line /\ \A i \in 1 .. n : written'[i] = written[i]
  BY DEF LsofRead, LsofInv, LsofWritten, LineAdded
<1>2. \A tags : Latest(tags) = LastBefore(n + 1, tags)
             /\ Latest(tags)' = IF line.tag \in tags THEN n + 1 ELSE Latest(tags)
  BY <1>1, LatestNext, Zenon
<1>3. CASE line.tag = "process"
  <2>1. Latest({"process"})' = n + 1
    BY <1>2, <1>3
  <2>2. Own(Latest({"process"}), "command", Heads)' = None
    <3>1. \A i : i = n + 1 => Own(i, "command", Heads)' = None
      BY <1>1, OwnStart
    <3>2. PICK i : i = n + 1
      OBVIOUS
    <3>3. Own(i, "command", Heads)' = Own(Latest({"process"}), "command", Heads)'
      BY <2>1, <3>2
    <3>. QED BY <3>1, <3>2, <3>3
  <2>. QED BY <1>1, <1>3, <2>1, <2>2
<1>4. CASE line.tag # "process"
  <2>1. PICK p : p = Latest({"process"})
    OBVIOUS
  <2>2. p \in 1 .. n /\ p \in 0 .. n /\ written # <<>>
    <3>1. p \in 1 .. n /\ written # <<>>
      BY <1>4, <2>1, FilesNext
    <3>. QED BY <1>1, <3>1
  <2>3. Latest({"process"})' = p
    BY <1>2, <1>4, <2>1
  <2>4. written'[p].value = parsed.pid /\ parsed.command = Own(p, "command", Heads)
    BY <1>1, <2>1, <2>2 DEF LsofInv, ProcessHeld
  <2>5. Own(p, "command", Heads)' =
          IF line.tag = "command" /\ LastBefore(n + 1, Heads) = p THEN line.value ELSE Own(p, "command", Heads)
    BY <1>1, <2>2, OwnNext
  <2>6. ASSUME line.tag = "command" PROVE LastBefore(n + 1, Heads) = p
    <3>1. written # <<>> /\ written[n].tag = "process"
      <4>1. MayFollow(line) = (written # <<>> /\ Last(written).tag = "process")
        BY <2>6 DEF MayFollow, FileTags
      <4>2. written # <<>> /\ Last(written).tag = "process"
        BY <4>1 DEF LsofRead
      <4>. QED BY <1>1, <4>2 DEF Last
    <3>2. n + 1 \in 1 .. n + 1 /\ n \in 0 .. (n + 1) - 1 /\ n \in 1 .. n
          /\ \A j \in 1 .. (n + 1) - 1 : j <= n
      BY <1>1, <2>2
    <3>3. n = LastBefore(n + 1, Heads)
      <4>1. written[n].tag \in Heads
        BY <3>1 DEF Heads
      <4>. QED BY <1>1, <3>2, <4>1, LastIs
    <3>4. n = LastBefore(n + 1, {"process"})
      <4>1. written[n].tag \in {"process"}
        BY <3>1
      <4>. QED BY <1>1, <3>2, <4>1, LastIs
    <3>. QED BY <1>2, <2>1, <3>3, <3>4
  <2>7. Own(Latest({"process"}), "command", Heads)' = Own(p, "command", Heads)'
    BY <2>3
  <2>. QED BY <1>1, <1>4, <2>3, <2>4, <2>5, <2>6, <2>7
<1>. QED BY <1>3, <1>4

(* The rows before the open one stay as they are. *)
LEMMA RowsKept ==
  ASSUME NEW n, NEW line, LsofRead(n, line), NEW list, NEW k \in Nat, RowsOf(list, k),
         k <= Cardinality(Files),
         line.tag \in FileTags /\ Latest(Heads) \in Files => k # Cardinality(Files)
  PROVE  RowsOf(list, k)'
<1>1. /\ Files \in SUBSET (1 .. n) /\ Files \in SUBSET Nat /\ IsFiniteSet(Files) /\ n \in Nat
      /\ \A i \in Files : i <= Latest(Heads) /\ i < n + 1
  <2>1. /\ Files \in SUBSET (1 .. n) /\ Files \in SUBSET Nat /\ IsFiniteSet(Files) /\ n \in Nat
        /\ \A i \in Files : i <= Latest(Heads)
    BY FilesAre DEF LsofRead, LsofInv, LineAdded
  <2>. QED BY <2>1
<1>2. Cardinality(Files) \in Nat
  BY <1>1, FS_CardinalityType
<1>3. Files' = Files \cup IF line.tag = "file" /\ parsed.pid # None THEN {n + 1} ELSE {}
  BY FilesNext
<1>4. ASSUME NEW i \in Files', CountTo(Files', i) <= k
      PROVE  i \in Files /\ CountTo(Files', i) = CountTo(Files, i)
  <2>1. CASE line.tag = "file" /\ parsed.pid # None
    <3>1. Files' = Files \cup {n + 1} /\ n + 1 \in Nat
      BY <1>1, <1>3, <2>1
    <3>2. CountTo(Files \cup {n + 1}, n + 1) = Cardinality(Files) + 1
          /\ \A j \in Files : CountTo(Files \cup {n + 1}, j) = CountTo(Files, j)
      BY <1>1, <3>1, CountNext
    <3>3. i # n + 1
      BY <1>2, <1>4, <3>1, <3>2
    <3>. QED BY <1>4, <3>1, <3>2, <3>3
  <2>2. CASE ~(line.tag = "file" /\ parsed.pid # None)
    BY <1>3, <1>4, <2>2
  <2>. QED BY <2>1, <2>2
<1>5. ASSUME NEW i \in Files, CountTo(Files, i) <= k
      PROVE  TrueRow(i)' = TrueRow(i)
  <2>1. CASE line.tag \in FileTags /\ Latest(Heads) = i
    <3>1. CountTo(Files, i) = Cardinality(Files)
      BY <1>1, <2>1, CountGreatest
    <3>. QED BY <1>2, <1>5, <2>1, <3>1
  <2>2. CASE ~(line.tag \in FileTags /\ Latest(Heads) = i)
    BY <2>2, RowNext
  <2>. QED BY <2>1, <2>2
<1>6. list \in Seq(SocketRow) /\ Len(list) = k
      /\ \A i \in Files : CountTo(Files, i) <= k => list[CountTo(Files, i)] = TrueRow(i)
  BY DEF RowsOf
<1>7. \A i \in Files' : CountTo(Files', i) <= k => list[CountTo(Files', i)] = TrueRow(i)'
  BY <1>4, <1>5, <1>6
<1>. QED BY <1>6, <1>7 DEF RowsOf

(* A line that is parsed leaves what is held true.                           *)
LEMMA LsofStep ==
  ASSUME NEW n, NEW line, LsofRead(n, line), parsed' = ParseField(parsed, line)
  PROVE  LsofInv'
<1>1. /\ LsofInv /\ LineAdded(n, line) /\ n \in Nat /\ LsofWritten'
      /\ Files' = Files \cup IF line.tag = "file" /\ parsed.pid # None THEN {n + 1} ELSE {}
  BY FilesNext DEF LsofRead, LineAdded
<1>2. /\ line.tag \in {"process", "command", "file", "other"} \cup FileTags
      /\ line.tag = "process" => line.value \in Pids \cup {None}
      /\ line.tag = "command" \/ line.tag \in FileTags => line.value \in Texts
  BY LsofLine DEF LsofRead
<1>3. /\ parsed \in [rows : Seq(SocketRow), pid : Pids \cup {None}, command : Texts \cup {None},
                     current : SocketRow \cup {None}]
      /\ parsed.current = IF Latest(Heads) \in Files THEN TrueRow(Latest(Heads)) ELSE None
      /\ RowsOf(parsed.rows, Finished)
  BY <1>1 DEF LsofInv, ProcessHeld, FileHeld
<1>4. /\ Files \in SUBSET (1 .. n) /\ Files \in SUBSET Nat /\ IsFiniteSet(Files)
      /\ \A i \in Files : i < n + 1
  <2>1. Files \in SUBSET (1 .. n) /\ Files \in SUBSET Nat /\ IsFiniteSet(Files)
    BY <1>1, FilesAre DEF LsofInv, LineAdded
  <2>. QED BY <1>1, <2>1
<1>5. Cardinality(Files) \in Nat /\ n + 1 \notin Files
  <2>1. Cardinality(Files) \in Nat
    BY <1>4, FS_CardinalityType
  <2>2. n + 1 \notin 1 .. n
    BY <1>1
  <2>. QED BY <1>4, <2>1, <2>2, Zenon
<1>6. Latest(Heads)' = IF line.tag \in Heads THEN n + 1 ELSE Latest(Heads)
  BY <1>1, LatestNext
<1>7. Finished = (IF Latest(Heads) \in Files THEN Cardinality(Files) - 1 ELSE Cardinality(Files))
      /\ Finished \in Nat /\ Finished <= Cardinality(Files)
      /\ (Latest(Heads) \in Files => Finished # Cardinality(Files))
  <2>1. CASE Latest(Heads) \in Files
    <3>1. Cardinality(Files) # 0
      BY <1>4, <2>1, FS_EmptySet
    <3>. QED BY <1>5, <2>1, <3>1 DEF Finished
  <2>2. CASE Latest(Heads) \notin Files
    BY <1>5, <2>2 DEF Finished
  <2>. QED BY <2>1, <2>2
<1>8. Pushed(parsed) \in Seq(SocketRow) /\ RowsOf(Pushed(parsed), Cardinality(Files))
  BY <1>1, PushedRows DEF RowsOf
<1>9. CASE line.tag = "process"
  <2>1. parsed' = [rows |-> Pushed(parsed), pid |-> line.value, command |-> None, current |-> None]
    BY <1>9 DEF ParseField, NewProcess, FileTags
  <2>2. Files' = Files /\ Latest(Heads)' = n + 1 /\ Finished' = Cardinality(Files)
    <3>1. Files' = Files /\ Latest(Heads)' = n + 1
      BY <1>1, <1>6, <1>9 DEF Heads
    <3>2. Finished' = Cardinality(Files)
      BY <1>5, <3>1 DEF Finished
    <3>. QED BY <3>1, <3>2
  <2>3. ProcessHeld'
    BY <1>2, <1>8, <1>9, <2>1, ProcessNext DEF ProcessHeld
  <2>4. FileHeld'
    BY <1>5, <2>1, <2>2 DEF FileHeld
  <2>5. RowsOf(parsed.rows, Finished)'
    <3>1. line.tag \notin FileTags
      BY <1>9 DEF FileTags
    <3>2. PICK list, k : list = Pushed(parsed) /\ k = Cardinality(Files)
      OBVIOUS
    <3>3. RowsOf(list, k)'
      BY <1>5, <1>8, <3>1, <3>2, RowsKept
    <3>. QED BY <2>1, <2>2, <3>2, <3>3 DEF RowsOf
  <2>. QED BY <1>1, <2>3, <2>4, <2>5 DEF LsofInv
<1>10. CASE line.tag = "file"
  <2>. DEFINE opened == IF parsed.pid = None THEN None
                        ELSE [pid |-> parsed.pid, command |-> parsed.command, fields |-> NoFile]
  <2>1. parsed' = [rows |-> Pushed(parsed), pid |-> parsed.pid, command |-> parsed.command, current |-> opened]
    <3>1. parsed' = [parsed EXCEPT !.rows = Pushed(parsed), !.current = opened]
      BY <1>10 DEF ParseField, NewFile, FileTags
    <3>. HIDE DEF opened
    <3>. QED BY <1>3, <3>1
  <2>2. opened \in SocketRow \cup {None}
    BY <1>3 DEF SocketRow, NoFile
  <2>3. Latest(Heads)' = n + 1 /\ (n + 1 \in Files' <=> parsed.pid # None)
    BY <1>1, <1>5, <1>6, <1>10 DEF Heads
  <2>4. Finished' = Cardinality(Files)
    <3>1. CASE parsed.pid = None
      <4>1. Files' = Files
        BY <1>1, <3>1
      <4>. QED BY <1>5, <2>3, <4>1 DEF Finished
    <3>2. CASE parsed.pid # None
      <4>1. Cardinality(Files') = Cardinality(Files) + 1
        BY <1>1, <1>4, <1>5, <1>10, <3>2, FS_AddElement
      <4>. QED BY <1>5, <2>3, <3>2, <4>1 DEF Finished
    <3>. QED BY <3>1, <3>2
  <2>. HIDE DEF opened
  <2>5. ProcessHeld'
    BY <1>3, <1>8, <1>10, <2>1, <2>2, ProcessNext DEF ProcessHeld
  <2>6. parsed.pid # None => TrueRow(n + 1)' = opened
    <3>1. PICK i : i = n + 1
      OBVIOUS
    <3>2. written # <<>> /\ ProcessOf(i)' = Latest({"process"}) /\ Latest({"process"})' = Latest({"process"})
      <4>1. i \in 1 .. n + 1 /\ \A j \in 1 .. n + 1 : ProcessOf(j)' = ProcessOf(j)
        BY <1>1, <3>1, FilesNext
      <4>2. written # <<>>
        BY <1>10, FilesNext
      <4>3. Latest({"process"}) = LastBefore(n + 1, {"process"}) /\ Latest({"process"})' = Latest({"process"})
        BY <1>1, <1>10, LatestNext
      <4>. QED BY <3>1, <4>1, <4>2, <4>3 DEF ProcessOf
    <3>3. \A tag : Own(i, tag, Heads)' = None
      BY <1>1, <3>1, OwnStart
    <3>4. PICK p : p = Latest({"process"})
      OBVIOUS
    <3>5. written'[p].value = parsed.pid /\ Own(p, "command", Heads)' = parsed.command
      <4>1. written'[Latest({"process"})'].value = parsed.pid
            /\ Own(Latest({"process"}), "command", Heads)' = parsed.command
        BY <1>10, ProcessNext
      <4>2. Own(Latest({"process"}), "command", Heads)' = Own(p, "command", Heads)'
        BY <3>2, <3>4
      <4>. QED BY <3>2, <3>4, <4>1, <4>2
    <3>6. TrueRow(i)' = [pid |-> written'[p].value, command |-> Own(p, "command", Heads)',
                         fields |-> [tag \in FileTags |-> Own(i, tag, Heads)']]
      BY <3>2, <3>4 DEF TrueRow
    <3>7. TrueRow(i)' = TrueRow(n + 1)'
      BY <3>1
    <3>. QED BY <3>3, <3>5, <3>6, <3>7 DEF opened, NoFile
  <2>7. FileHeld'
    <3>1. TrueRow(Latest(Heads))' = TrueRow(n + 1)'
      BY <2>3
    <3>2. parsed.pid = None => opened = None
      BY DEF opened
    <3>. QED BY <2>1, <2>3, <2>6, <3>1, <3>2 DEF FileHeld
  <2>8. RowsOf(parsed.rows, Finished)'
    <3>1. line.tag \notin FileTags
      BY <1>10 DEF FileTags
    <3>2. PICK list, k : list = Pushed(parsed) /\ k = Cardinality(Files)
      OBVIOUS
    <3>3. RowsOf(list, k)'
      BY <1>5, <1>8, <3>1, <3>2, RowsKept
    <3>. QED BY <2>1, <2>4, <3>2, <3>3 DEF RowsOf
  <2>. QED BY <1>1, <2>5, <2>7, <2>8 DEF LsofInv
<1>11. CASE line.tag \in {"command", "other"} \cup FileTags
  <2>1. line.tag \notin {"process", "file"} /\ line.tag \notin Heads
    BY <1>11 DEF FileTags, Heads
  <2>2. Files' = Files /\ Latest(Heads)' = Latest(Heads) /\ Finished' = Finished
    <3>1. Files' = Files /\ Latest(Heads)' = Latest(Heads)
      BY <1>1, <1>6, <2>1
    <3>. QED BY <3>1 DEF Finished
  <2>. DEFINE current == IF line.tag \in FileTags /\ parsed.current # None
                         THEN [parsed.current EXCEPT !.fields[line.tag] = line.value]
                         ELSE parsed.current
              command == IF line.tag = "command" THEN line.value ELSE parsed.command
  <2>3. current \in SocketRow \cup {None}
    BY <1>2, <1>3 DEF SocketRow
  <2>4. parsed' = [rows |-> parsed.rows, pid |-> parsed.pid, command |-> command, current |-> current]
    <3>1. CASE line.tag = "command"
      <4>1. line.tag \notin FileTags
        BY <3>1 DEF FileTags
      <4>2. parsed' = [parsed EXCEPT !.command = line.value]
        BY <3>1, <4>1 DEF ParseField
      <4>. QED BY <1>3, <3>1, <4>1, <4>2
    <3>2. CASE line.tag = "other"
      <4>1. line.tag \notin FileTags
        BY <3>2 DEF FileTags
      <4>2. parsed' = parsed
        BY <3>2, <4>1 DEF ParseField
      <4>. QED BY <1>3, <3>2, <4>1, <4>2
    <3>3. CASE line.tag \in FileTags
      <4>1. line.tag \notin {"process", "command", "file"}
        BY <3>3 DEF FileTags
      <4>2. CASE parsed.current = None
        <5>1. parsed' = parsed
          BY <3>3, <4>1, <4>2 DEF ParseField
        <5>. QED BY <1>3, <4>1, <4>2, <5>1
      <4>3. CASE parsed.current # None
        <5>1. parsed' = [parsed EXCEPT !.current.fields[line.tag] = line.value]
          BY <3>3, <4>1, <4>3 DEF ParseField
        <5>2. parsed' = [parsed EXCEPT !.current = [parsed.current EXCEPT !.fields[line.tag] = line.value]]
          BY <5>1
        <5>. QED BY <1>3, <3>3, <4>1, <4>3, <5>2
      <4>. QED BY <4>2, <4>3
    <3>. QED BY <1>11, <3>1, <3>2, <3>3
  <2>5. command \in Texts \cup {None}
        /\ Own(Latest({"process"}), "command", Heads)' = command
        /\ written'[Latest({"process"})'].value = parsed.pid /\ written' # <<>>
    BY <1>2, <1>3, <2>1, ProcessNext
  <2>. HIDE DEF command
  <2>6. FileHeld'
    <3>1. CASE Latest(Heads) \in Files
      <4>1. PICK i : i = Latest(Heads)
        OBVIOUS
      <4>2. i \in Files /\ parsed.current = TrueRow(i) /\ TrueRow(i) \in SocketRow
        BY <1>1, <1>3, <3>1, <4>1, FilesAre DEF LsofInv
      <4>3. parsed.current # None
        BY <4>2, ListingsAssumption DEF SocketRow
      <4>4. TrueRow(i)' = current
        BY <4>1, <4>2, <4>3, RowNext
      <4>5. TrueRow(Latest(Heads))' = TrueRow(i)'
        BY <2>2, <4>1
      <4>. HIDE DEF current
      <4>. QED BY <2>2, <2>4, <3>1, <4>4, <4>5 DEF FileHeld
    <3>2. CASE Latest(Heads) \notin Files
      <4>1. current = None
        BY <1>3, <3>2
      <4>. HIDE DEF current
      <4>. QED BY <2>2, <2>4, <3>2, <4>1 DEF FileHeld
    <3>. QED BY <3>1, <3>2
  <2>. HIDE DEF current
  <2>7. ProcessHeld'
    BY <1>3, <2>3, <2>4, <2>5 DEF ProcessHeld
  <2>8. RowsOf(parsed.rows, Finished)'
    <3>1. PICK list, k : list = parsed.rows /\ k = Finished
      OBVIOUS
    <3>2. RowsOf(list, k)'
      BY <1>3, <1>7, <3>1, RowsKept
    <3>. QED BY <2>2, <2>4, <3>1, <3>2 DEF RowsOf
  <2>. QED BY <1>1, <2>6, <2>7, <2>8 DEF LsofInv
<1>. QED BY <1>2, <1>9, <1>10, <1>11

(* The same of the devices: the step that reads line n + 1 of ibv_devinfo.   *)
RdmaRead(n, line) ==
  /\ RdmaInv /\ line \in DeviceLines
  /\ LineAdded(n, line) /\ written' \in Seq(DeviceLines)

LEMMA DeviceLine ==
  ASSUME NEW line \in DeviceLines
  PROVE  line.tag \in {"hca_id"} \cup DeviceTags /\ line.value \in Texts
BY DEF DeviceLines, DeviceTags

LEMMA HcasAre ==
  ASSUME written \in Seq(DeviceLines)
  PROVE  /\ Len(written) \in Nat /\ DOMAIN written = 1 .. Len(written)
         /\ Hcas \in SUBSET (1 .. Len(written)) /\ Hcas \in SUBSET Nat /\ IsFiniteSet(Hcas)
         /\ \A i \in Hcas : i <= Latest({"hca_id"}) /\ TrueDevice(i) \in Device
         /\ Hcas # {} => Latest({"hca_id"}) \in Hcas
<1>1. /\ Len(written) \in Nat /\ DOMAIN written = 1 .. Len(written)
      /\ \A i \in 1 .. Len(written) : written[i] \in DeviceLines
  OBVIOUS
<1>2. Hcas \in SUBSET (1 .. Len(written)) /\ Hcas \in SUBSET Nat
  BY <1>1 DEF Hcas
<1>3. IsFiniteSet(Hcas)
  BY <1>1, <1>2, FirstNumbers, FS_Subset
<1>4. /\ Latest({"hca_id"}) \in 0 .. Len(written)
      /\ Latest({"hca_id"}) # 0 => written[Latest({"hca_id"})].tag = "hca_id"
      /\ \A i \in Hcas : i <= Latest({"hca_id"})
  <2>1. Len(written) + 1 \in 1 .. Len(written) + 1 /\ (Len(written) + 1) - 1 = Len(written)
    BY <1>1
  <2>2. \A i \in Hcas : i \in 1 .. Len(written) /\ written[i].tag \in {"hca_id"}
    BY <1>1 DEF Hcas
  <2>. QED BY <1>1, <2>1, <2>2, LastIs DEF Latest
<1>5. ASSUME NEW i \in Hcas PROVE TrueDevice(i) \in Device
  <2>1. i \in 1 .. Len(written) /\ i \in Nat
    BY <1>1, <1>2
  <2>2. written[i].value \in Texts /\ \A j \in 1 .. Len(written) : written[j].value \in Texts
    BY <1>1, <2>1, DeviceLine
  <2>3. \A tag \in DeviceTags : Own(i, tag, {"hca_id"}) \in Texts \cup {None}
    BY <1>1, <2>1, <2>2, OwnType
  <2>. QED BY <2>2, <2>3 DEF TrueDevice, Device
<1>6. ASSUME Hcas # {} PROVE Latest({"hca_id"}) \in Hcas
  <2>1. PICK i \in Hcas : TRUE
    BY <1>6
  <2>2. Latest({"hca_id"}) \in 1 .. Len(written)
    BY <1>1, <1>2, <1>4, <2>1
  <2>. QED BY <1>1, <1>4, <2>2 DEF Hcas
<1>. QED BY <1>1, <1>2, <1>3, <1>4, <1>5, <1>6

LEMMA DeviceNext ==
  ASSUME NEW n, NEW line, RdmaRead(n, line)
  PROVE  /\ Hcas' = Hcas \cup IF line.tag = "hca_id" THEN {n + 1} ELSE {}
         /\ \A i \in Hcas : TrueDevice(i)' =
              IF line.tag \in DeviceTags /\ Latest({"hca_id"}) = i
              THEN [TrueDevice(i) EXCEPT !.fields[line.tag] = line.value] ELSE TrueDevice(i)
<1>1. /\ LineAdded(n, line) /\ n \in Nat /\ n = Len(written)
      /\ DOMAIN written = 1 .. n /\ DOMAIN written' = 1 .. n + 1
      /\ written'[n + 1] = line /\ \A i \in 1 .. n : written'[i] = written[i]
  BY DEF RdmaRead, RdmaInv, LineAdded
<1>2. Hcas' = Hcas \cup IF line.tag = "hca_id" THEN {n + 1} ELSE {}
  <2>1. Hcas = {i \in 1 .. n : written[i].tag = "hca_id"}
        /\ Hcas' = {i \in 1 .. n + 1 : written'[i].tag = "hca_id"}
    BY <1>1 DEF Hcas
  <2>2. \A i : i \in 1 .. n + 1 <=> i \in 1 .. n \/ i = n + 1
    BY <1>1
  <2>. QED BY <1>1, <2>1, <2>2
<1>3. ASSUME NEW i \in Hcas
      PROVE  TrueDevice(i)' =
              IF line.tag \in DeviceTags /\ Latest({"hca_id"}) = i
              THEN [TrueDevice(i) EXCEPT !.fields[line.tag] = line.value] ELSE TrueDevice(i)
  <2>1. i \in 1 .. n /\ i \in 0 .. n
    BY <1>1 DEF Hcas
  <2>2. Latest({"hca_id"}) = LastBefore(n + 1, {"hca_id"})
    BY <1>1, LatestNext
  <2>3. \A tag : Own(i, tag, {"hca_id"})' =
          IF line.tag = tag /\ LastBefore(n + 1, {"hca_id"}) = i
          THEN line.value ELSE Own(i, tag, {"hca_id"})
    BY <1>1, <2>1, OwnNext
  <2>. DEFINE old == [tag \in DeviceTags |-> Own(i, tag, {"hca_id"})]
              new == [tag \in DeviceTags |-> Own(i, tag, {"hca_id"})']
  <2>4. TrueDevice(i) = [name |-> written[i].value, fields |-> old]
    BY DEF TrueDevice
  <2>5. TrueDevice(i)' = [name |-> written[i].value, fields |-> new]
    BY <1>1, <2>1 DEF TrueDevice
  <2>6. new = IF line.tag \in DeviceTags /\ Latest({"hca_id"}) = i
              THEN [old EXCEPT ![line.tag] = line.value] ELSE old
    BY <2>2, <2>3
  <2>. HIDE DEF old, new
  <2>. QED BY <2>4, <2>5, <2>6
<1>. QED BY <1>2, <1>3

LEMMA RdmaStep ==
  ASSUME NEW n, NEW line, RdmaRead(n, line), devices' = ParseDevice(devices, line)
  PROVE  RdmaInv'
<1>1. /\ RdmaInv /\ LineAdded(n, line) /\ n \in Nat /\ n = Len(written) /\ written' \in Seq(DeviceLines)
      /\ devices \in Seq(Device) /\ Len(devices) = Cardinality(Hcas)
      /\ \A i \in Hcas : devices[CountTo(Hcas, i)] = TrueDevice(i)
  BY DEF RdmaRead, RdmaInv, LineAdded
<1>2. line.tag \in {"hca_id"} \cup DeviceTags /\ line.value \in Texts
  BY DeviceLine DEF RdmaRead
<1>3. /\ Hcas \in SUBSET (1 .. n) /\ Hcas \in SUBSET Nat /\ IsFiniteSet(Hcas)
      /\ \A i \in Hcas : i <= Latest({"hca_id"}) /\ TrueDevice(i) \in Device
      /\ Hcas # {} => Latest({"hca_id"}) \in Hcas
  <2>1. written \in Seq(DeviceLines) /\ Len(written) = n
    BY <1>1 DEF RdmaRead, RdmaInv
  <2>2. Hcas \in SUBSET (1 .. Len(written))
    BY <2>1, HcasAre
  <2>3. /\ Hcas \in SUBSET Nat /\ IsFiniteSet(Hcas)
        /\ \A i \in Hcas : i <= Latest({"hca_id"}) /\ TrueDevice(i) \in Device
        /\ Hcas # {} => Latest({"hca_id"}) \in Hcas
    BY <2>1, HcasAre, Zenon
  <2>. QED BY <2>1, <2>2, <2>3, Zenon
<1>4. Cardinality(Hcas) \in Nat /\ \A i \in Hcas : CountTo(Hcas, i) \in 1 .. Cardinality(Hcas)
  BY <1>3, FS_CardinalityType, PlaceInRange
<1>5. Hcas' = Hcas \cup IF line.tag = "hca_id" THEN {n + 1} ELSE {}
  BY DeviceNext
<1>6. ASSUME NEW i \in Hcas
      PROVE  TrueDevice(i)' =
              IF line.tag \in DeviceTags /\ Latest({"hca_id"}) = i
              THEN [TrueDevice(i) EXCEPT !.fields[line.tag] = line.value] ELSE TrueDevice(i)
  BY DeviceNext
<1>7. CASE line.tag = "hca_id"
  <2>. DEFINE new == [name |-> line.value, fields |-> [tag \in DeviceTags |-> None]]
  <2>1. devices' = Append(devices, new) /\ new \in Device
    BY <1>2, <1>7 DEF ParseDevice, Device, DeviceTags
  <2>2. Hcas' = Hcas \cup {n + 1} /\ n + 1 \in Nat /\ \A i \in Hcas : i < n + 1
    BY <1>1, <1>3, <1>5, <1>7
  <2>3. /\ Cardinality(Hcas') = Cardinality(Hcas) + 1
        /\ \A i \in Hcas : CountTo(Hcas', i) = CountTo(Hcas, i)
        /\ CountTo(Hcas', n + 1) = Cardinality(Hcas) + 1
    BY <1>3, <2>2, CountNext
  <2>4. TrueDevice(n + 1)' = new
    <3>1. PICK i : i = n + 1
      OBVIOUS
    <3>2. \A tag : Own(i, tag, {"hca_id"})' = None
      <4>1. \A tag, heads : Own(i, tag, heads)' = None
        BY <1>1, <3>1, OwnStart
      <4>. QED BY <4>1, Zenon
    <3>3. written'[i].value = line.value
      BY <1>1, <3>1 DEF LineAdded
    <3>4. TrueDevice(i)' = [name |-> written'[i].value, fields |-> [tag \in DeviceTags |-> Own(i, tag, {"hca_id"})']]
      BY DEF TrueDevice
    <3>5. TrueDevice(n + 1)' = TrueDevice(i)'
      BY <3>1
    <3>. QED BY <3>2, <3>3, <3>4, <3>5
  <2>. HIDE DEF new
  <2>5. /\ devices' \in Seq(Device) /\ Len(devices') = Len(devices) + 1
        /\ devices'[Len(devices) + 1] = new /\ \A i \in 1 .. Len(devices) : devices'[i] = devices[i]
    BY <1>1, <2>1, AppendIs
  <2>6. ASSUME NEW i \in Hcas PROVE devices'[CountTo(Hcas, i)] = TrueDevice(i)'
    <3>1. line.tag \notin DeviceTags
      BY <1>7 DEF DeviceTags
    <3>2. TrueDevice(i)' = TrueDevice(i)
      BY <1>6, <3>1
    <3>. QED BY <1>1, <1>4, <2>5, <3>2
  <2>7. \A i \in Hcas' : devices'[CountTo(Hcas', i)] = TrueDevice(i)'
    <3>1. \A i \in Hcas' : i \in Hcas \/ i = n + 1
      BY <2>2
    <3>2. devices'[CountTo(Hcas', n + 1)] = TrueDevice(n + 1)'
      BY <1>1, <2>3, <2>4, <2>5
    <3>. QED BY <2>3, <2>6, <3>1, <3>2
  <2>. QED BY <1>1, <2>3, <2>5, <2>7 DEF RdmaInv
<1>8. CASE line.tag \in DeviceTags
  <2>1. Hcas' = Hcas
    BY <1>5, <1>8 DEF DeviceTags
  <2>2. CASE devices = <<>>
    <3>1. devices' = devices
      BY <1>8, <2>2 DEF ParseDevice, DeviceTags
    <3>2. Hcas = {}
      <4>1. Cardinality(Hcas) = 0
        BY <1>1, <2>2
      <4>. QED BY <1>3, <4>1, FS_EmptySet
    <3>. QED BY <1>1, <2>1, <3>1, <3>2 DEF RdmaInv
  <2>3. CASE devices # <<>>
    <3>. DEFINE size == Len(devices)
    <3>1. size \in Nat /\ size # 0 /\ DOMAIN devices = 1 .. size /\ size \in 1 .. size /\ devices[size] \in Device
      BY <1>1, <2>3
    <3>2. devices' = [devices EXCEPT ![size].fields[line.tag] = line.value]
      BY <1>8, <2>3 DEF ParseDevice, DeviceTags
    <3>3. devices' = [devices EXCEPT ![size] = [devices[size] EXCEPT !.fields[line.tag] = line.value]]
      BY <3>2
    <3>4. [devices[size] EXCEPT !.fields[line.tag] = line.value] \in Device
      BY <1>2, <3>1 DEF Device
    <3>5. /\ devices' \in Seq(Device) /\ Len(devices') = size
          /\ devices'[size] = [devices[size] EXCEPT !.fields[line.tag] = line.value]
          /\ \A k \in 1 .. size : k # size => devices'[k] = devices[k]
      <4>. DEFINE new == [devices[size] EXCEPT !.fields[line.tag] = line.value]
      <4>. HIDE DEF new
      <4>1. new \in Device /\ devices' = [devices EXCEPT ![size] = new]
        BY <3>3, <3>4 DEF new
      <4>2. devices' \in Seq(Device) /\ Len(devices') = size /\ devices'[size] = new
            /\ \A k \in 1 .. size : k # size => devices'[k] = devices[k]
        BY <1>1, <3>1, <4>1
      <4>. QED BY <4>2 DEF new
    <3>6. Latest({"hca_id"}) \in Hcas /\ CountTo(Hcas, Latest({"hca_id"})) = size
      <4>1. Hcas # {}
        BY <1>1, <3>1, FS_EmptySet
      <4>. QED BY <1>1, <1>3, <4>1, CountGreatest
    <3>. HIDE DEF size
    <3>7. ASSUME NEW i \in Hcas PROVE devices'[CountTo(Hcas, i)] = TrueDevice(i)'
      <4>1. CASE i = Latest({"hca_id"})
        <5>1. devices[size] = TrueDevice(i) /\ TrueDevice(i)' = [TrueDevice(i) EXCEPT !.fields[line.tag] = line.value]
          BY <1>1, <1>6, <1>8, <3>6, <4>1
        <5>. QED BY <3>5, <3>6, <4>1, <5>1
      <4>2. CASE i # Latest({"hca_id"})
        <5>1. i < Latest({"hca_id"}) /\ i \in Nat
          <6>1. i \in Nat /\ Latest({"hca_id"}) \in Nat /\ i <= Latest({"hca_id"})
            BY <1>3, <3>6, Zenon
          <6>. QED BY <4>2, <6>1
        <5>2. CountTo(Hcas, i) < size
          BY <1>3, <3>6, <5>1, PlacesGrow
        <5>3. CountTo(Hcas, i) \in 1 .. size /\ CountTo(Hcas, i) # size
          BY <1>1, <1>4, <3>1, <5>2 DEF size
        <5>4. TrueDevice(i)' = TrueDevice(i)
          BY <1>6, <4>2
        <5>. QED BY <1>1, <3>5, <5>3, <5>4
      <4>. QED BY <4>1, <4>2
    <3>. QED BY <1>1, <2>1, <3>5, <3>7 DEF RdmaInv, size
  <2>. QED BY <2>2, <2>3
<1>. QED BY <1>2, <1>7, <1>8

(* What a report lists is a row for each line that opened one, in order.     *)
LEMMA SocketsInOrder ==
  ASSUME LsofInv
  PROVE  Pushed(parsed) = TrueRows
<1>. DEFINE size == Cardinality(Files)  order == InOrder(Files)  list == Pushed(parsed)
<1>1. Files \in SUBSET Nat /\ IsFiniteSet(Files)
  BY FilesAre DEF LsofInv
<1>2. list \in Seq(SocketRow) /\ Len(list) = size
      /\ \A i \in Files : CountTo(Files, i) <= size => list[CountTo(Files, i)] = TrueRow(i)
  BY PushedRows DEF RowsOf
<1>3. size \in Nat /\ DOMAIN order = 1 .. size
      /\ \A n \in 1 .. size : order[n] \in Files /\ CountTo(Files, order[n]) = n
  BY <1>1, InOrderIs
<1>. HIDE DEF size, order, list
<1>4. \A n \in 1 .. size : list[n] = TrueRow(order[n])
  BY <1>2, <1>3
<1>5. list = [n \in 1 .. size |-> list[n]]
  BY <1>2, <1>3
<1>6. list = [n \in DOMAIN order |-> TrueRow(order[n])]
  BY <1>3, <1>4, <1>5
<1>. QED BY <1>6 DEF order, list, TrueRows

LEMMA DevicesInOrder ==
  ASSUME RdmaInv
  PROVE  devices = TrueDevices
<1>. DEFINE size == Cardinality(Hcas)  order == InOrder(Hcas)
<1>1. Hcas \in SUBSET Nat /\ IsFiniteSet(Hcas)
  BY HcasAre DEF RdmaInv
<1>2. devices \in Seq(Device) /\ Len(devices) = size
      /\ \A i \in Hcas : devices[CountTo(Hcas, i)] = TrueDevice(i)
  BY DEF RdmaInv
<1>3. size \in Nat /\ DOMAIN order = 1 .. size
      /\ \A n \in 1 .. size : order[n] \in Hcas /\ CountTo(Hcas, order[n]) = n
  BY <1>1, InOrderIs
<1>. HIDE DEF size, order
<1>4. \A n \in 1 .. size : devices[n] = TrueDevice(order[n])
  BY <1>2, <1>3
<1>5. devices = [n \in 1 .. size |-> devices[n]]
  BY <1>2, <1>3
<1>6. devices = [n \in DOMAIN order |-> TrueDevice(order[n])]
  BY <1>3, <1>4, <1>5
<1>. QED BY <1>6 DEF order, TrueDevices

LEMMA ListingStart == ListingsInit => ListingInv
<1>. SUFFICES ASSUME ListingsInit PROVE ListingInv
  OBVIOUS
<1>1. /\ written = <<>> /\ devices = <<>> /\ answer = None /\ source \in {"lsof", "rdma"}
      /\ parsed = [rows |-> <<>>, pid |-> None, command |-> None, current |-> None]
  BY DEF ListingsInit
<1>2. Len(<<>>) = 0 /\ DOMAIN <<>> = {} /\ Cardinality({}) = 0
  BY FS_EmptySet
<1>3. Files = {} /\ Hcas = {}
  BY <1>1, <1>2 DEF Files, Hcas
<1>4. LsofInv
  <2>1. LsofWritten
    BY <1>1 DEF LsofWritten
  <2>2. ProcessHeld /\ FileHeld
    BY <1>1, <1>3 DEF ProcessHeld, FileHeld
  <2>3. Finished = 0
    BY <1>2, <1>3 DEF Finished
  <2>4. RowsOf(parsed.rows, Finished)
    BY <1>1, <1>2, <1>3, <2>3 DEF RowsOf
  <2>. QED BY <2>1, <2>2, <2>4 DEF LsofInv
<1>5. RdmaInv
  BY <1>1, <1>2, <1>3 DEF RdmaInv
<1>6. AnswerRight
  BY <1>1 DEF AnswerRight
<1>. QED BY <1>1, <1>4, <1>5, <1>6 DEF ListingInv

LEMMA ListingStep == ListingInv /\ [ListingsNext]_listingVars => ListingInv'
<1>. SUFFICES ASSUME ListingInv, [ListingsNext]_listingVars PROVE ListingInv'
  OBVIOUS
<1>1. source \in {"lsof", "rdma"} /\ AnswerRight
  BY DEF ListingInv
<1>same. ASSUME written' = written
         PROVE  /\ TrueRows' = TrueRows /\ TrueDevices' = TrueDevices
                /\ parsed' = parsed => LsofInv' = LsofInv
                /\ devices' = devices => RdmaInv' = RdmaInv
  <2>1. Files' = Files /\ Hcas' = Hcas
    BY <1>same DEF Files, Hcas, ProcessOf, LastBefore
  <2>2. TrueRows' = TrueRows /\ TrueDevices' = TrueDevices
    BY <1>same DEF TrueRows, TrueDevices, Files, Hcas, TrueRow, TrueDevice, Own, ProcessOf, LastBefore
  <2>3. ASSUME parsed' = parsed PROVE LsofInv' = LsofInv
    BY <1>same, <2>3 DEF LsofInv, LsofWritten, ProcessHeld, FileHeld, RowsOf, Finished, Latest,
                         Files, TrueRow, Own, ProcessOf, LastBefore
  <2>4. ASSUME devices' = devices PROVE RdmaInv' = RdmaInv
    BY <1>same, <2>4 DEF RdmaInv, Hcas, TrueDevice, Own, LastBefore
  <2>. QED BY <2>2, <2>3, <2>4
<1>2. ASSUME NEW line \in LsofLines, source = "lsof", Line(line) PROVE ListingInv'
  <2>1. /\ answer' = None /\ source' = source /\ MayFollow(line)
        /\ written' = Append(written, line) /\ parsed' = ParseField(parsed, line)
    BY <1>2 DEF Line
  <2>2. LsofInv /\ written \in Seq(LsofLines)
    BY <1>2 DEF ListingInv, LsofInv, LsofWritten
  <2>3. LsofRead(Len(written), line)
    BY <2>1, <2>2, AddedBy DEF LsofRead
  <2>4. LsofInv'
    BY <2>1, <2>3, LsofStep
  <2>5. AnswerRight'
    BY <2>1 DEF AnswerRight
  <2>. QED BY <1>2, <2>1, <2>4, <2>5 DEF ListingInv
<1>3. ASSUME NEW line \in DeviceLines, source = "rdma", Line(line) PROVE ListingInv'
  <2>1. /\ answer' = None /\ source' = source
        /\ written' = Append(written, line) /\ devices' = ParseDevice(devices, line)
    BY <1>3 DEF Line
  <2>2. RdmaInv /\ written \in Seq(DeviceLines)
    BY <1>3 DEF ListingInv, RdmaInv
  <2>3. RdmaRead(Len(written), line)
    BY <1>3, <2>1, <2>2, AddedBy DEF RdmaRead
  <2>4. RdmaInv'
    BY <2>1, <2>3, RdmaStep
  <2>5. AnswerRight'
    BY <2>1 DEF AnswerRight
  <2>. QED BY <1>3, <2>1, <2>4, <2>5 DEF ListingInv
<1>4. ASSUME NEW status \in 0 .. 2, NEW diagnostic \in BOOLEAN, ReportConnections(status, diagnostic)
      PROVE  ListingInv'
  <2>1. /\ source = "lsof" /\ source' = "lsof" /\ written' = written /\ parsed' = parsed
        /\ (diagnostic => status # 0)
        /\ answer' = IF status # 0 /\ ~EmptySelection(status, diagnostic)
                     THEN [ok |-> FALSE, troubled |-> diagnostic, rows |-> <<>>]
                     ELSE [ok |-> TRUE, troubled |-> diagnostic, rows |-> Pushed(parsed)]
    BY <1>4 DEF ReportConnections
  <2>2. LsofInv /\ LsofInv'
    BY <1>same, <2>1 DEF ListingInv
  <2>3. answer'.ok => ~answer'.troubled /\ answer'.rows = Pushed(parsed)
    BY <2>1 DEF EmptySelection
  <2>4. Pushed(parsed) = TrueRows'
    BY <1>same, <2>1, <2>2, SocketsInOrder
  <2>5. AnswerRight'
    BY <2>1, <2>3, <2>4 DEF AnswerRight
  <2>. QED BY <2>1, <2>2, <2>5 DEF ListingInv
<1>5. ASSUME NEW words \in SUBSET {"enabled", "not_enabled", "disabled"}, ReportRdma(words)
      PROVE  ListingInv'
  <2>1. PICK devinfo \in BOOLEAN :
          /\ source = "rdma" /\ source' = "rdma" /\ written' = written /\ devices' = devices
          /\ answer' = [ok |-> Enabled(words), troubled |-> ~devinfo,
                        rows |-> IF Enabled(words) /\ devinfo THEN devices ELSE <<>>]
    BY <1>5 DEF ReportRdma
  <2>2. RdmaInv /\ RdmaInv'
    BY <1>same, <2>1 DEF ListingInv
  <2>3. devices = TrueDevices'
    BY <1>same, <2>1, <2>2, DevicesInOrder
  <2>4. answer'.ok => answer'.rows = IF answer'.troubled THEN <<>> ELSE devices
    BY <2>1
  <2>5. AnswerRight'
    BY <2>1, <2>3, <2>4 DEF AnswerRight
  <2>. QED BY <2>1, <2>2, <2>5 DEF ListingInv
<1>6. ASSUME UNCHANGED listingVars PROVE ListingInv'
  <2>1. source' = source /\ written' = written /\ parsed' = parsed /\ devices' = devices /\ answer' = answer
    BY <1>6 DEF listingVars
  <2>2. AnswerRight'
    BY <1>1, <1>same, <2>1 DEF AnswerRight
  <2>. QED BY <1>same, <2>1, <2>2 DEF ListingInv
<1>. QED BY <1>2, <1>3, <1>4, <1>5, <1>6 DEF ListingsNext, LsofLines

(* A report has a row for each socket of a process with a PID, and for each  *)
(* device, in order, each with what was said of it and of its own process    *)
(* and nothing of another's; an error of lsof, or of ibv_devinfo, leaves no   *)
(* rows, and an empty selection is none (connections.rs, rdma.rs).           *)
THEOREM ListingsCorrect == ListingsSpec => []RowsAreOwn
<1>1. ListingInv => RowsAreOwn
  <2>1. ASSUME ListingInv PROVE RowsAreOwn
    <3>1. source \in {"lsof", "rdma"} /\ AnswerRight
      BY <2>1 DEF ListingInv
    <3>. QED BY <3>1 DEF RowsAreOwn, AnswerRight, TrueRows, TrueDevices, Files, Hcas
  <2>. QED BY <2>1
<1>. QED BY <1>1, ListingStart, ListingStep, PTL DEF ListingsSpec
=============================================================================
