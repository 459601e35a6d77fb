---------------------------- MODULE DetailSchedule ----------------------------
(***************************************************************************)
(* When the detail lane of the TUI has something to fetch, and which        *)
(* results it may still use: DetailRevision (worker.rs) and DetailSchedule  *)
(* (scheduling.rs).  The schedule is a value that only the event loop owns, *)
(* so the module gives its methods as operators on a record; RunLoop calls  *)
(* them.                                                                    *)
(*                                                                         *)
(* An Instant is kept as the time left until it (0 once it has passed).     *)
(* generation is a u64 in the code: it wraps after 2^64 page changes.       *)
(***************************************************************************)
EXTENDS Naturals

CONSTANTS
  Modes,      \* the pages (AppMode) of the instance
  Cooldown,   \* pause between two network jobs (Duration::from_secs(1))
  None        \* Option::None

ASSUME CooldownAssumption == Cooldown \in Nat

Tickets == [mode: Modes, generation: Nat]

ASSUME NoneAssumption == None \notin Tickets /\ None \notin Modes

Schedules == [mode: Modes, generation: Nat, active: BOOLEAN,
              loaded: Tickets \cup {None}, inFlight: BOOLEAN, next: Nat]

NewSchedule(mode) ==
  [mode |-> mode, generation |-> 0, active |-> FALSE,
   loaded |-> None, inFlight |-> FALSE, next |-> 0]

(* DetailRevision::ticket and ::accepts. *)
Ticket(s) == [mode |-> s.mode, generation |-> s.generation]

\* Seeded fault: a result is accepted for its page alone.
AcceptsPage(s, ticket) == s.mode = ticket.mode

Accepts(s, ticket) == Ticket(s) = ticket

(* Pages whose detail the lane fetches at all. *)
Wanted(mode, paused, flows) ==
  \/ mode \in {"Overview", "Disk", "Hardware"}
  \/ mode = "Network" /\ flows /\ ~paused

(* The value update returns: whether it opened a new revision. *)
Changes(s, mode, paused, flows, force) ==
  \/ s.mode # mode
  \/ force
  \/ Wanted(mode, paused, flows) # s.active

Update(s, mode, paused, flows, force) ==
  IF Changes(s, mode, paused, flows, force)
  THEN [s EXCEPT !.mode = mode,
                 !.generation = @ + 1,
                 !.active = Wanted(mode, paused, flows),
                 !.loaded = None,
                 !.next = 0]
  ELSE s

\* Seeded fault: the lane is asked again while its job is in flight.
MissingAgain(s) == s.active /\ s.loaded # Ticket(s)

Missing(s) == s.active /\ ~s.inFlight /\ s.loaded # Ticket(s)

Due(s) == Missing(s) /\ s.next = 0

Start(s) == [s EXCEPT !.inFlight = TRUE, !.loaded = Ticket(s)]

(* finish returns whether the result may be applied. *)
Usable(s, ticket) == s.active /\ Accepts(s, ticket)

\* Seeded fault: a discarded result leaves the lane marked busy.
FinishUsed(s, ticket) ==
  IF ~Usable(s, ticket) THEN s
  ELSE [s EXCEPT !.inFlight = FALSE, !.loaded = IF ticket.mode = "Network" THEN None ELSE @]

Finish(s, ticket) ==
  IF Usable(s, ticket) /\ ticket.mode = "Network"
  THEN [s EXCEPT !.inFlight = FALSE, !.loaded = None, !.next = Cooldown]
  ELSE [s EXCEPT !.inFlight = FALSE]

\* Seeded fault: the loop sleeps until the next sample only.
DeadlineOfSample(s, sample) == sample

(* The instant up to which the loop may sleep, given the next sample's. *)
Deadline(s, sample) ==
  IF Missing(s) /\ s.next < sample THEN s.next ELSE sample
===============================================================================
