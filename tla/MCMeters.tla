------------------------------- MODULE MCMeters -------------------------------
(* The meters of the Mac, for TLC.  They share nothing but the clock of a
   snapshot, so that a behaviour need not move more than one of them: `focus`
   says which.  The queries of the other counters fail, and what they count
   rests; the other parts stay in one of their initial states.               *)
EXTENDS Counters, GpuBuffer, Volumes, TreeOrder, SocHandle, DisplayStream, SocSample,
  Charts, Thunderbolt, Listings

VARIABLE focus

(* What the first snapshot may read of two processes, and the later ones. *)
MCReadings ==
  {[cpu |-> ofCpu, gpu |-> ofGpu, energy |-> ofCpu, watts |-> watts,
    active |-> use, device |-> use, load |-> use, receive |-> bytes] :
     ofCpu \in {<<None, None>>, <<0, 1>>, <<None, 2>>, <<1, 3>>},
     ofGpu \in {<<None, None>>, <<1, 2>>, <<0, 150>>},
     watts \in {[cpu |-> None, gpu |-> None, ane |-> None],
                [cpu |-> 2, gpu |-> 5, ane |-> None], [cpu |-> 3, gpu |-> None, ane |-> 1]},
     use \in {None, 60}, bytes \in {0, 9}}

FewReadings == {read \in MCReadings :
  /\ read.gpu = <<1, 2>> /\ read.cpu \in {<<None, None>>, <<1, 3>>} /\ read.watts.cpu # 2
  /\ (read.load = None) = (read.receive = 0)}

CounterMeters == {"cpu", "interfaces", "soc", "disks"}

Foreign == Devices \ CASE focus = "interfaces" -> Interfaces
                       [] focus = "disks"      -> Volumes
                       [] OTHER                -> {}

BufferIdle ==
  /\ clients = 0 /\ capacity = Initial /\ attempt = 0 /\ first = 0 /\ coverage = Pending

VolumesIdle ==
  /\ mounted = [n \in Names |-> None]
  /\ moves = {} /\ rows = None /\ hidden = None /\ disks = None

TreeIdle ==
  /\ table = <<>> /\ parent = [p \in TreePids |-> p] /\ stack = <<>> /\ tree = <<>>

ThunderboltIdle ==
  /\ cable = [p \in Plugs |-> None] /\ unreadable = {} /\ pulled = {} /\ iterator = {}
  /\ switches = {} /\ climb = None /\ tbBuses = None

MetersInit ==
  /\ focus \in CounterMeters \cup {"buffer", "volumes", "tree", "handle", "display", "sample",
               "charts", "thunderbolt", "listing"}
  /\ Init /\ up \cap Foreign = {} /\ SocInit /\ DisplayInit /\ SocSampleInit
  /\ IF focus = "buffer" THEN BufferInit ELSE BufferIdle
  /\ IF focus = "volumes" THEN VolumesInit ELSE VolumesIdle
  /\ IF focus = "tree" THEN TreeInit ELSE TreeIdle
  /\ ChartsInit /\ ListingsInit /\ (focus = "listing" \/ source = "lsof")
  /\ IF focus = "thunderbolt" THEN ThunderboltInit /\ unreadable \subseteq {CHOOSE h \in Hosts : TRUE}
     ELSE ThunderboltIdle

CountersStep ==
  /\ Next /\ up' \cap Foreign = {}
  /\ focus # "cpu"   => prevCpu' = prevCpu /\ ticks' = ticks
  /\ focus # "soc"   => soc' # "open" /\ energy' = energy
  /\ focus # "disks" => prevDisk' = prevDisk

(* A bound: of the filters of a volume, one that returns meets only nobrowse. *)
ReturnsLarge(n) ==
  mounted[n] = None /\ mounted'[n] # None => ~mounted'[n].small /\ ~mounted'[n].internal

PartVars == <<bufferVars, volumeVars, treeVars, handleVars, displayVars, socSampleVars,
              chartVars, thunderboltVars, listingVars>>

MetersNext ==
  /\ UNCHANGED focus
  /\ IF focus \in CounterMeters THEN CountersStep ELSE UNCHANGED vars
  /\ IF focus = "buffer" THEN BufferNext ELSE UNCHANGED bufferVars
  /\ IF focus = "volumes" THEN VolumesNext /\ \A n \in Names : ReturnsLarge(n) ELSE UNCHANGED volumeVars
  /\ IF focus = "tree" THEN Visit ELSE UNCHANGED treeVars
  /\ IF focus = "handle" THEN SocNext ELSE UNCHANGED handleVars
  /\ IF focus = "display" THEN DisplayNext ELSE UNCHANGED displayVars
  /\ IF focus = "sample" THEN SocSampleNext ELSE UNCHANGED socSampleVars
  /\ IF focus = "charts"
     THEN \E read \in IF seen = <<>> THEN Readings ELSE FewReadings : Snapshot(read)
     ELSE UNCHANGED chartVars
  /\ IF focus = "thunderbolt" THEN ThunderboltNext ELSE UNCHANGED thunderboltVars
  /\ IF focus = "listing" THEN ListingsNext ELSE UNCHANGED listingVars

MetersSpec == MetersInit /\ [][MetersNext]_<<focus, vars, PartVars>>
===============================================================================
