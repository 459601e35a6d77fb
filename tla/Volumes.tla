------------------------------- MODULE Volumes -------------------------------
(* The disk report (bmtop-macos, lib.rs: disk_report, parse_df_output): df lists
   the mounted volumes, mount then says which of them the Finder hides, and of
   each physical device the first volume that is left is reported.  Volumes are
   mounted and unmounted in between.  Sizes and names are told apart no further
   than the filters do; the order of the rows is left out.                    *)
EXTENDS Naturals, Sequences, FiniteSets, Functions, SequencesExt, Absent

CONSTANTS Names, Disks

ASSUME VolumesAssumption ==
  IsFiniteSet(Names) /\ None \notin Disks /\ None # {} /\ None # <<>>

(* Under /System/Volumes, /private or on /dev; below one GiB; with nobrowse.
   device is None for a file system of no /dev/disk.                          *)
Kinds == [device : Disks \cup {None}, internal : BOOLEAN, small : BOOLEAN, nobrowse : BOOLEAN]

VARIABLES
  mounted,  \* the mounted volumes: name -> kind, or None
  moves,    \* volumes that have been mounted or unmounted since df
  rows,     \* what df has written
  hidden,   \* what mount says of nobrowse
  disks     \* the report, or None

volumeVars == <<mounted, moves, rows, hidden, disks>>

Mounted == {n \in Names : mounted[n] # None}

VolumesInit ==
  /\ mounted \in [Names -> Kinds \cup {None}]
  /\ moves = {} /\ rows = None /\ hidden = None /\ disks = None

Unmount(n) ==
  /\ disks = None /\ n \in Mounted \ moves
  /\ mounted' = [mounted EXCEPT ![n] = None] /\ moves' = moves \cup {n}
  /\ UNCHANGED <<rows, hidden, disks>>

Remount(n) ==
  /\ disks = None /\ n \in moves \ Mounted
  /\ \E kind \in Kinds : mounted' = [mounted EXCEPT ![n] = kind]
  /\ UNCHANGED <<moves, rows, hidden, disks>>

Row(n) == [name |-> n, kind |-> mounted[n]]

Df ==
  /\ rows = None /\ rows' \in {[i \in DOMAIN order |-> Row(order[i])] : order \in SetToSeqs(Mounted)}
  /\ UNCHANGED <<mounted, moves, hidden, disks>>

(* A df that fails ends the report, as an error. *)
DfFails ==
  /\ rows = None /\ rows' = <<>> /\ hidden' = {} /\ disks' = {}
  /\ UNCHANGED <<mounted, moves>>

(* A mount that fails hides nothing. *)
Mount ==
  /\ rows # None /\ hidden = None
  /\ hidden' \in {{}, {n \in Mounted : mounted[n].nobrowse}}
  /\ UNCHANGED <<mounted, moves, rows, disks>>

Reportable(row) == ~row.kind.small /\ ~row.kind.internal /\ row.name \notin hidden

\* Seeded fault: the first volume of a device is looked for before the filters.
FirstOfAll(list) ==
  {list[i] : i \in {i \in DOMAIN list :
     /\ Reportable(list[i]) /\ list[i].kind.device # None
     /\ \A j \in DOMAIN list : list[j].kind.device = list[i].kind.device => i <= j}}

Left(list) == {i \in DOMAIN list : Reportable(list[i])}

FirstOfDevice(list) ==
  {list[i] : i \in {i \in Left(list) :
     /\ list[i].kind.device # None
     /\ \A j \in Left(list) : list[j].kind.device = list[i].kind.device => i <= j}}

(* A report without any volume is an error as well. *)
ReportDisks ==
  /\ hidden # None /\ disks = None
  /\ disks' = FirstOfDevice(rows)
  /\ UNCHANGED <<mounted, moves, rows, hidden>>

VolumesNext ==
  \/ \E n \in Names : Unmount(n) \/ Remount(n)
  \/ Df \/ DfFails \/ Mount \/ ReportDisks

VolumesSpec == VolumesInit /\ [][VolumesNext]_volumeVars

-----------------------------------------------------------------------------
(* Every device with a volume to show is shown once, by a volume of its own: a
   hidden, internal or small one listed before it does not stand in its place. *)
EachDeviceOnce ==
  disks # None =>
    \A device \in Disks :
      LET shown == {row \in disks : row.kind.device = device}
          fit   == {row \in Range(rows) : row.kind.device = device /\ Reportable(row)}
      IN  shown \subseteq fit /\ Cardinality(shown) = IF fit = {} THEN 0 ELSE 1
=============================================================================
