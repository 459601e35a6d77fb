----------------------------- MODULE Thunderbolt -----------------------------
(* The Thunderbolt tree of the hardware page (bmtop_link.m, thunderbolt.rs).
   The switches are read one by one from the I/O registry; from a device the
   reader climbs to the host bus above it, one registry entry at a time, and
   devices may be pulled out meanwhile.  A device plugged in later is not in the
   iterator.  Names, speeds and the drawing of the tree are left out, and so is
   the order of the switches: each is returned once.                          *)
EXTENDS Naturals, FiniteSets, Absent

CONSTANTS
  Hosts, Plugs, \* the host buses, and the devices, which may be in a chain
  Between,       \* registry entries from one switch to the next: a port lies between
  MaxHops,       \* 16 in find_root_uid
  Room           \* 32 in read_tb_switches

ASSUME ThunderboltAssumption ==
  /\ IsFiniteSet(Hosts \cup Plugs) /\ Hosts \cap Plugs = {} /\ None \notin Hosts \cup Plugs
  /\ Between \in Nat \ {0} /\ MaxHops \in Nat /\ Room \in Nat

VARIABLES
  cable,     \* the switch a device is plugged into, or None
  unreadable,\* the switches whose properties the registry does not give
  pulled,    \* the devices that are no longer connected to it
  iterator,  \* the switches still to be returned
  switches,  \* what has been read: [uid, parent], the parent of a host is None
  climb,     \* where the search for a root is, or None
  tbBuses    \* host bus -> its devices; None before the end

thunderboltVars == <<cable, unreadable, pulled, iterator, switches, climb, tbBuses>>

(* The switches above a device, itself included. *)
Up(s) == IF s \in Plugs THEN cable[s] ELSE None

Closed(set) == \A s \in set : Up(s) \in set \cup {None}

Above(d) ==
  LET closed == {set \in SUBSET (Hosts \cup Plugs) : d \in set /\ Closed(set)}
  IN  {s \in Hosts \cup Plugs : \A set \in closed : s \in set}

Plugged == {d \in Plugs : cable[d] # None}

ThunderboltInit ==
  /\ cable \in [Plugs -> Hosts \cup Plugs \cup {None}]
  /\ \A d \in Plugged : Above(d) \cap Hosts # {}
  /\ unreadable \in SUBSET (Hosts \cup Plugged) /\ pulled = {} /\ iterator = Hosts \cup Plugged
  /\ switches = {} /\ climb = None /\ tbBuses = None

(* A device takes the ones behind it along. *)
Pull(d) ==
  /\ tbBuses = None /\ d \in Plugged \ pulled
  /\ pulled' = pulled \cup {e \in Plugged : d \in Above(e)}
  /\ UNCHANGED <<cable, unreadable, iterator, switches, climb, tbBuses>>

NextSwitch(s) ==
  /\ tbBuses = None /\ climb = None /\ s \in iterator /\ Cardinality(switches) < Room
  /\ iterator' = iterator \ {s}
  /\ \/ s \in unreadable /\ UNCHANGED <<switches, climb>>
     \/ s \in Hosts \ unreadable /\ switches' = switches \cup {[uid |-> s, parent |-> None]} /\ UNCHANGED climb
     \/ s \in Plugs \ unreadable /\ climb' = [of |-> s, at |-> s, hops |-> 0] /\ UNCHANGED switches
  /\ UNCHANGED <<cable, unreadable, pulled, tbBuses>>

\* Seeded fault: the first entry above that has a UID is taken for the bus.
HasUid(s) == s \notin unreadable

IsBus(s) == s \in Hosts \ unreadable

Found(root) ==
  /\ switches' = switches \cup {[uid |-> climb.of, parent |-> root]}
  /\ climb' = None

(* One switch up; an entry that has left the registry has no parent. *)
Climb ==
  /\ climb # None
  /\ LET up == IF climb.at \in pulled THEN None ELSE Up(climb.at)
         hops == climb.hops + Between
     IN  \/ (up = None \/ hops > MaxHops) /\ Found(None)
         \/ up # None /\ hops <= MaxHops /\ IsBus(up) /\ Found(up)
         \/ /\ up # None /\ hops <= MaxHops /\ ~IsBus(up)
            /\ climb' = [climb EXCEPT !.at = up, !.hops = hops] /\ UNCHANGED switches
  /\ UNCHANGED <<cable, unreadable, pulled, iterator, tbBuses>>

(* build_tb_buses: a device without a bus of this list is not shown. *)
BuildBuses ==
  /\ tbBuses = None /\ climb = None /\ (iterator = {} \/ Cardinality(switches) >= Room)
  /\ tbBuses' = [h \in {row.uid : row \in {r \in switches : r.uid \in Hosts}} |->
                   {row.uid : row \in {r \in switches : r.parent = h}}]
  /\ UNCHANGED <<cable, unreadable, pulled, iterator, switches, climb>>

ThunderboltNext ==
  \/ \E d \in Plugs : Pull(d)
  \/ \E s \in Hosts \cup Plugs : NextSwitch(s)
  \/ Climb \/ BuildBuses

ThunderboltSpec == ThunderboltInit /\ [][ThunderboltNext]_thunderboltVars

-----------------------------------------------------------------------------
(* The switches to climb from a device to its host. *)
Levels(d) == Cardinality(Above(d)) - 1

(* A device is shown under the host it is connected to, however many others lie
   between; one that was read and stayed is missing only if its host could not
   be read or is more than MaxHops away.                                      *)
DevicesUnderTheirBus ==
  tbBuses # None =>
    \A h \in DOMAIN tbBuses :
      /\ \A d \in tbBuses[h] : h \in Above(d)
      /\ \A row \in switches :
           /\ row.uid \in Plugged \ pulled /\ h \in Above(row.uid)
           /\ Levels(row.uid) * Between <= MaxHops
           => row.uid \in tbBuses[h]
===============================================================================
