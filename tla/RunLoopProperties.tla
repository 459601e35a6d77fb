--------------------------- MODULE RunLoopProperties ---------------------------
(***************************************************************************)
(* What the event loop and its two workers guarantee together (RunLoop).    *)
(***************************************************************************)
EXTENDS RunLoop

-------------------------------------------------------------------------------
(* Invariants *)

Running == pc \notin {"exiting", "done"}

TypeOK ==
  /\ WorkersTypeOK
  /\ pc \in {"update", "detail", "sample", "drain", "poll", "exiting", "done"}
  /\ exit \in {"no", "quit", "panicked", "terminal", "unavailable"}
  /\ mode \in Modes /\ paused \in BOOLEAN /\ flows \in BOOLEAN
  /\ snapshot \in Snapshots \cup {"none"}
  /\ cache \in [Kinds -> Tickets \cup {None}]
  /\ error \in Modes \cup {None} /\ loading \in BOOLEAN
  /\ interval \in Intervals /\ refresh \in Intervals
  /\ nextSample \in Nat /\ timeout \in Nat
  /\ sched \in Schedules /\ sampleInFlight \in BOOLEAN
  /\ redraw \in BOOLEAN /\ superseded \in BOOLEAN

(* Where the request of a lane can be: its slot, its thread, the channel. *)
Answered(l) == {i \in DOMAIN responses : responses[i].lane = l}
InFlight(l) == IF l = "sample" THEN sampleInFlight ELSE sched.inFlight

(* The tickets anywhere in the detail lane. *)
HeldTickets ==
  ({queue["detail"], job["detail"]} \ {None})
    \cup {responses[i].request : i \in Answered("detail")}

(* A lane's request is in one place only, and the loop's in-flight flag says *)
(* exactly whether there is one: no answer is lost, no request doubled,      *)
(* whatever the order of queueing, completion, panic and receipt.            *)
OneRequestPerLane ==
  \A l \in Lanes :
    /\ queue[l] # None => job[l] = None /\ Answered(l) = {}
    /\ job[l] # None => Answered(l) = {}
    /\ \A i, j \in Answered(l) : i = j
    /\ Running => (InFlight(l) <=> queue[l] # None \/ job[l] # None \/ Answered(l) # {})

(* try_send never finds a full slot or a dead thread: a panicking worker is  *)
(* always reported as a panic, never as an unavailable worker.               *)
SendsSucceed == exit # "unavailable"

(* The "loading" line of the flow table stands for a network job in flight,  *)
(* across page changes, stale results and toggles.                           *)
LoadingIsTrue ==
  Running => (loading <=> \E t \in HeldTickets : t.mode = "Network")

(* While the loop sleeps the screen shows the current state: every change    *)
(* has opened the redraw gate or undone itself before the poll.  The one     *)
(* error field of all pages holds no error of another page.                  *)
ScreenIsCurrent ==
  pc = "poll" => redraw = FALSE /\ screen = View /\ error \in {None, mode}

(* The loop never sleeps past the moment its next job is due, nor past the   *)
(* busy poll while an answer may arrive; and the next sample is never        *)
(* further away than the interval, also right after a shorter one was set.   *)
NeverOversleeps ==
  pc = "poll" =>
    IF sampleInFlight \/ sched.inFlight THEN timeout <= BusyPoll
    ELSE /\ Missing(sched) => timeout <= sched.next
         /\ ~paused => timeout <= nextSample /\ nextSample <= interval

(* The detail of the page on display, or an error, has arrived since the     *)
(* page was entered, refreshed or resumed.                                   *)
Served == cache[KindOf(sched.mode)] = Ticket(sched) \/ error # None

(* The loop never sleeps with a free detail lane and nothing to show for the *)
(* page the user selected: a stale result that frees the lane lets it be     *)
(* used before the poll (the comment above the second details.due).  Only a  *)
(* page entered because the GPU's has lost its data waits for the next turn. *)
FreedLaneIsUsed ==
  pc = "poll" /\ sched.mode # "Gpu" /\ Wanted(mode, paused, flows) =>
    sched.inFlight \/ (sched.mode = mode /\ Served)

(***************************************************************************)
(* The strengthening that makes the invariants above and NoStaleDetail      *)
(* inductive.                                                               *)
(***************************************************************************)

(* A thread that left its loop while the UI runs has a panic to report. *)
DeadThreadsReport ==
  /\ stopped => pc = "done"
  /\ Running => \A l \in Lanes :
       alive[l] \/ \E i \in Answered(l) : responses[i].result = "panic"

(* Past the top of the loop the schedule knows the page on display, except   *)
(* after a sample made the GPU page, which has no detail, fall back.         *)
ScheduleKnowsPage ==
  Running /\ pc # "update" =>
    \/ sched.mode = mode /\ sched.active = Wanted(mode, paused, flows)
    \/ sched.mode = "Gpu" /\ ~sched.active /\ mode = "Overview" /\ pc \in {"drain", "poll"}

(* A ticket in the lane is older than the schedule, or is its current one    *)
(* and of an active page; a superseded one is older, or about to be.         *)
HeldTicketsAge ==
  Running => \A t \in HeldTickets :
    /\ t.generation <= sched.generation
    /\ t.generation = sched.generation => t = Ticket(sched) /\ sched.active
    /\ superseded => \/ t.generation < sched.generation
                     \/ pc = "update" /\ Changes(sched, mode, paused, flows, FALSE)

(* The loop and its threads agree on which work is still wanted. *)
LanesFollowSchedule == DeadThreadsReport /\ ScheduleKnowsPage /\ HeldTicketsAge

IInv == /\ TypeOK /\ OneRequestPerLane /\ SendsSucceed /\ LoadingIsTrue
        /\ LanesFollowSchedule

-------------------------------------------------------------------------------
(* Action properties *)

(* A detail result reaches the state only if the user has neither left,      *)
(* refreshed nor paused the page since it was asked for, and only the page   *)
(* on display: A -> B -> A and an explicit refresh discard the old result.   *)
NoStaleDetail ==
  [][cache' # cache \/ error' \notin {error, None} =>
       ~superseded /\ Head(responses).request.mode = mode]_vars

(* Pause freezes the displayed sample and the flow table, including results  *)
(* that were already in flight when it was pressed.                          *)
PauseFreezes ==
  [][paused => snapshot' = snapshot /\ cache'["flows"] = cache["flows"]]_vars

-------------------------------------------------------------------------------
(* Liveness *)

(* Once the user stops changing pages, the detail of the page on display (or *)
(* an error) arrives: stale jobs in the lane delay it, never replace it.     *)
PageIsServed ==
  (Running /\ sched.active) ~> (~Running \/ ~sched.active \/ Served)

(* Samples keep being requested and received unless paused; under            *)
(* HungDetailSpec, also while the detail thread never answers.               *)
SamplingContinues ==
  /\ []<>(~Running \/ paused \/ sampleInFlight)
  /\ []<>(~Running \/ ~sampleInFlight)

(* A worker that panics ends the loop instead of leaving it waiting for      *)
(* ever, and with the loop both threads end, though nobody joins them.       *)
LoopAndThreadsEnd ==
  (pc = "exiting" \/ \E l \in Lanes : ~alive[l])
    ~> (pc = "done" /\ \A l \in Lanes : ~alive[l])

-------------------------------------------------------------------------------
(* The loop and its workers implement the single-flight lanes. *)

RequestOf(l) ==
  IF ~Running \/ ~InFlight(l) THEN None
  ELSE IF queue[l] # None THEN queue[l]
  ELSE IF job[l] # None THEN job[l]
  ELSE responses[CHOOSE i \in Answered(l) : TRUE].request

LaneService == INSTANCE SingleFlight
  WITH outstanding <- [l \in Lanes |-> RequestOf(l)], open <- Running

LanesImplemented == LaneService!Spec

===============================================================================
