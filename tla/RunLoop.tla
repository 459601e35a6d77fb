------------------------------- MODULE RunLoop -------------------------------
(***************************************************************************)
(* The event loop of the TUI (run_loop, lib.rs) against its two worker      *)
(* threads and the user.  pc follows one iteration of the loop:             *)
(*   update  -> interval change and details.update                          *)
(*   detail  -> request the page's detail if it is due                      *)
(*   sample  -> request a sample if it is due                               *)
(*   drain   -> receive every waiting response, then draw                   *)
(*   poll    -> wait for a terminal event or the timeout                    *)
(*   exiting -> run_loop returned, the terminal is restored                 *)
(*   done    -> the Workers value is dropped                                *)
(*                                                                         *)
(* Time is counted in ticks; nextSample and timeout hold the time left.     *)
(***************************************************************************)
EXTENDS Workers

CONSTANTS
  GpuSnapshots,   \* the snapshots that carry GPU data
  Intervals,      \* refresh intervals the user may configure
  BusyPoll,       \* poll timeout while work is in flight (40ms)
  PausedPoll,     \* poll timeout while paused (60s)
  MaxGeneration   \* bound: the user acts only below this many page revisions

ASSUME RunLoopAssumption ==
  /\ GpuSnapshots \subseteq Snapshots
  /\ {"none", "error", "panic"} \cap Snapshots = {}
  /\ "Overview" \in Modes
  /\ Intervals \subseteq Nat \ {0}
  /\ BusyPoll \in Nat /\ PausedPoll \in Nat /\ MaxGeneration \in Nat

VARIABLES
  pc, exit,          \* where the loop is, and why it ended
  mode, paused, flows,  \* UiState: page, paused, network_flows_enabled
  snapshot,          \* UiState: the displayed snapshot
  cache,             \* UiState: which ticket filled disks, sections, network_flows
  error,             \* UiState: the page whose detail_error is shown
  loading,           \* UiState: network_flows_loading
  interval, refresh, \* the configured interval, and the one the loop uses
  nextSample, sampleInFlight, sched,  \* locals of run_loop
  redraw, screen,    \* the redraw gate, and what was drawn last
  timeout,           \* time left of the poll
  superseded         \* history: the user changed or refreshed the page since
                     \* the detail request in flight was sent

uiVars == <<mode, paused, flows, snapshot, cache, error, loading, interval>>
loopVars == <<refresh, nextSample, sampleInFlight, sched>>
vars == <<workerVars, uiVars, loopVars, pc, exit, redraw, screen, timeout, superseded>>

Smaller(a, b) == IF a < b THEN a ELSE b

(* The UiState field a page's detail fills. *)
Kinds == {"disks", "sections", "flows", "nothing"}
KindOf(page) == CASE page \in {"Overview", "Disk"} -> "disks"
                  [] page = "Hardware" -> "sections"
                  [] page = "Network" -> "flows"
                  [] OTHER -> "nothing"

(* What a frame shows of this state; the status line of the flow table is    *)
(* the one of render_flows.                                                  *)
FlowStatus ==
  IF mode # "Network" \/ ~flows THEN "hidden"
  ELSE IF paused THEN "paused"
  ELSE IF error # None THEN "error"
  ELSE IF loading \/ cache["flows"] = None THEN "loading"
  ELSE "latest"

View == [mode |-> mode, paused |-> paused, snapshot |-> snapshot,
         detail |-> cache[KindOf(mode)], error |-> error, flows |-> FlowStatus]

Blank == [mode |-> None]

Less(time) == IF time > 0 THEN time - 1 ELSE 0

Fail(reason) == pc' = "exiting" /\ exit' = reason

-------------------------------------------------------------------------------

Init ==
  /\ WorkersInit
  /\ pc = "update" /\ exit = "no"
  /\ mode \in Modes /\ paused = FALSE /\ flows = FALSE
  /\ snapshot = "none" /\ error = None /\ loading = FALSE
  /\ cache = [kind \in Kinds |-> None]
  /\ interval \in Intervals /\ refresh = interval
  /\ nextSample = 0 /\ sampleInFlight = FALSE
  /\ sched = NewSchedule(mode)
  /\ redraw = TRUE /\ screen = Blank /\ timeout = 0 /\ superseded = FALSE

Rescheduled == IF interval # refresh THEN Smaller(nextSample, interval) ELSE nextSample

(* Top of the loop: a shorter interval takes effect at once; a new revision  *)
(* of the page forgets the old error.                                        *)
UpdateSchedule ==
  /\ pc = "update" /\ pc' = "detail"
  /\ refresh' = interval
  /\ nextSample' = Rescheduled
  /\ sched' = Update(sched, mode, paused, flows, FALSE)
  /\ IF Changes(sched, mode, paused, flows, FALSE)
     THEN error' = None /\ redraw' = TRUE
     ELSE UNCHANGED <<error, redraw>>
  /\ UNCHANGED <<workerVars, exit, mode, paused, flows, snapshot, cache, loading,
                 interval, sampleInFlight, screen, timeout, superseded>>

\* Seeded fault: the flow switch stands in for the network page.
ShowsFlows == flows

ShowsLoading == mode = "Network"

(* try_send fails the whole loop when the lane cannot take the request. *)
RequestDetail ==
  /\ pc = "detail"
  /\ IF ~Due(sched)
     THEN /\ pc' = "sample"
          /\ UNCHANGED <<queue, exit, loading, sched, redraw, superseded>>
     ELSE /\ sched' = Start(sched)
          /\ IF CanSend("detail")
             THEN /\ Send("detail", Ticket(sched))
                  /\ loading' = ShowsLoading
                  /\ redraw' = TRUE /\ superseded' = FALSE
                  /\ pc' = "sample" /\ UNCHANGED exit
             ELSE /\ Fail("unavailable")
                  /\ UNCHANGED <<queue, loading, redraw, superseded>>
  /\ UNCHANGED <<job, alive, responses, stopped, mode, paused, flows, snapshot, cache,
                 error, interval, refresh, nextSample, sampleInFlight, screen, timeout>>

\* Seeded fault: a sample is due although one is in flight.
SampleDueAgain == ~paused /\ nextSample = 0

\* Seeded fault: the sampler waits for the detail lane.
SampleDueAlone == ~paused /\ ~sampleInFlight /\ ~sched.inFlight /\ nextSample = 0

SampleDue == ~paused /\ ~sampleInFlight /\ nextSample = 0

RequestSample ==
  /\ pc = "sample"
  /\ IF ~SampleDue
     THEN pc' = "drain" /\ UNCHANGED <<queue, exit, nextSample, sampleInFlight>>
     ELSE IF CanSend("sample")
     THEN /\ Send("sample", SampleRequest)
          /\ sampleInFlight' = TRUE /\ nextSample' = refresh
          /\ pc' = "drain" /\ UNCHANGED exit
     ELSE /\ Fail("unavailable")
          /\ UNCHANGED <<queue, nextSample, sampleInFlight>>
  /\ UNCHANGED <<job, alive, responses, stopped, uiVars, refresh, sched, redraw,
                 screen, timeout, superseded>>

-------------------------------------------------------------------------------
(* Responses, in the order the channel delivers them. *)

Received(lane) ==
  /\ pc = "drain" /\ responses # <<>> /\ Head(responses).lane = lane
  /\ responses' = Tail(responses)

\* Seeded fault: a sample in flight when the user paused is displayed.
ShowsAny(result) == result \in Snapshots

Shows(result) == result \in Snapshots /\ ~paused

\* Seeded fault: only a failed sample opens the redraw gate.
RedrawsError(result) == result = "error"

Redraws(result) == Shows(result) \/ result = "error"

(* set_snapshot: without GPU data the GPU page falls back to Overview. *)
ReceiveSample ==
  LET result == Head(responses).result IN
  /\ Received("sample") /\ result # "panic"
  /\ sampleInFlight' = FALSE
  /\ IF Shows(result)
     THEN /\ snapshot' = result
          /\ mode' = IF mode = "Gpu" /\ result \notin GpuSnapshots THEN "Overview" ELSE mode
     ELSE UNCHANGED <<snapshot, mode>>
  /\ redraw' = (redraw \/ Redraws(result))
  /\ superseded' = (superseded \/ mode' # mode)
  /\ UNCHANGED <<queue, job, alive, stopped, pc, exit, paused, flows, cache, error,
                 loading, interval, refresh, nextSample, sched, screen, timeout>>

(* apply_detail, which leaves the flow table alone while paused. *)
ApplyDetail(ticket, result) ==
  IF result = "error" THEN error' = ticket.mode /\ UNCHANGED cache
  ELSE IF KindOf(ticket.mode) = "flows" /\ paused THEN UNCHANGED <<cache, error>>
  ELSE /\ error' = None
       /\ cache' = [cache EXCEPT ![KindOf(ticket.mode)] = ticket]

ReceiveDetail ==
  LET response == Head(responses) IN
  /\ Received("detail") /\ response.result # "panic"
  /\ loading' = FALSE
  /\ sched' = Finish(sched, response.request)
  /\ IF Usable(sched, response.request)
     THEN ApplyDetail(response.request, response.result) /\ redraw' = TRUE
     ELSE UNCHANGED <<cache, error, redraw>>
  /\ UNCHANGED <<queue, job, alive, stopped, pc, exit, mode, paused, flows, snapshot,
                 interval, refresh, nextSample, sampleInFlight, screen, timeout, superseded>>

(* A contained worker panic ends the loop with an error. *)
ReceivePanic ==
  /\ \E lane \in Lanes : Received(lane)
  /\ Head(responses).result = "panic"
  /\ Fail("panicked")
  /\ UNCHANGED <<queue, job, alive, stopped, uiVars, loopVars, redraw, screen,
                 timeout, superseded>>

(* The channel is empty: draw if the gate is open, then start over if the    *)
(* detail lane has work, else wait.                                          *)
PollTimeout ==
  IF sampleInFlight \/ sched.inFlight THEN BusyPoll
  ELSE IF paused THEN PausedPoll
  ELSE Deadline(sched, nextSample)

\* Seeded fault: the loop sleeps without another look at details.due.
DrawAndSleep ==
  /\ pc = "drain" /\ responses = <<>> /\ pc' = "poll"
  /\ redraw' = FALSE
  /\ screen' = IF redraw THEN View ELSE screen
  /\ timeout' = PollTimeout
  /\ UNCHANGED <<workerVars, uiVars, loopVars, exit, superseded>>

Draw ==
  /\ pc = "drain" /\ responses = <<>>
  /\ redraw' = FALSE
  /\ screen' = IF redraw THEN View ELSE screen
  /\ IF Due(sched)
     THEN pc' = "update" /\ UNCHANGED timeout
     ELSE pc' = "poll" /\ timeout' = PollTimeout
  /\ UNCHANGED <<workerVars, uiVars, loopVars, exit, superseded>>

-------------------------------------------------------------------------------
(* Leaving the poll. *)

TimeOut ==
  /\ pc = "poll" /\ timeout = 0 /\ pc' = "update"
  /\ UNCHANGED <<workerVars, uiVars, loopVars, exit, redraw, screen, timeout, superseded>>

(* Any event ends the wait; a key also opens the redraw gate. *)
Event ==
  /\ pc = "poll" /\ pc' = "update" /\ timeout' = 0
  /\ UNCHANGED <<workerVars, exit, screen>>

Key == Event /\ redraw' = TRUE /\ sched.generation < MaxGeneration

(* A mouse or key-release event. *)
IgnoredEvent ==
  Event /\ timeout > 0 /\ UNCHANGED <<uiVars, loopVars, redraw, superseded>>

(* A resize, Ctrl+L, or a key that changes nothing modelled here. *)
Repaint == Event /\ redraw' = TRUE /\ UNCHANGED <<uiVars, loopVars, superseded>>

SwitchPage(page) ==
  /\ Key /\ page # mode
  /\ page = "Gpu" => snapshot \in GpuSnapshots
  /\ mode' = page /\ superseded' = TRUE
  /\ UNCHANGED <<paused, flows, snapshot, cache, error, loading, interval, loopVars>>

TogglePause ==
  /\ Key /\ paused' = ~paused
  /\ nextSample' = IF paused THEN 0 ELSE nextSample
  /\ superseded' = (superseded \/ (mode = "Network" /\ flows))
  /\ UNCHANGED <<mode, flows, snapshot, cache, error, loading, interval, refresh,
                 sampleInFlight, sched>>

ToggleFlows ==
  /\ Key /\ mode = "Network" /\ flows' = ~flows
  /\ superseded' = TRUE
  /\ UNCHANGED <<mode, paused, snapshot, cache, error, loading, interval, loopVars>>

(* `r`, and `f`, which also asks for a refresh. *)
RefreshNow ==
  /\ Key /\ nextSample' = 0
  /\ sched' = Update(sched, mode, paused, flows, TRUE)
  /\ superseded' = TRUE
  /\ UNCHANGED <<uiVars, refresh, sampleInFlight>>

SetInterval(millis) ==
  /\ Key /\ interval' = millis
  /\ UNCHANGED <<mode, paused, flows, snapshot, cache, error, loading, loopVars, superseded>>

(* A confirmed signal runs to its end inside the loop, then a sample is due. *)
RunAction ==
  /\ Key /\ nextSample' = 0
  /\ UNCHANGED <<uiVars, refresh, sampleInFlight, sched, superseded>>

Quit ==
  /\ pc = "poll" /\ Fail("quit") /\ redraw' = TRUE
  /\ UNCHANGED <<workerVars, uiVars, loopVars, screen, timeout, superseded>>

(* Drawing, clearing, polling or reading the terminal fails. *)
TerminalFails ==
  /\ pc \in {"drain", "poll"} /\ (pc = "drain" => responses = <<>> /\ redraw)
  /\ Fail("terminal")
  /\ UNCHANGED <<workerVars, uiVars, loopVars, redraw, screen, timeout, superseded>>

(* run_with_options returns: the terminal is restored, the workers dropped. *)
Leave ==
  /\ pc = "exiting" /\ pc' = "done"
  /\ DropWorkers
  /\ UNCHANGED <<uiVars, loopVars, exit, redraw, screen, timeout, superseded>>

-------------------------------------------------------------------------------

Tick ==
  /\ pc # "done" /\ nextSample + sched.next + timeout > 0
  /\ nextSample' = Less(nextSample)
  /\ timeout' = Less(timeout)
  /\ sched' = [sched EXCEPT !.next = Less(@)]
  /\ UNCHANGED <<workerVars, uiVars, pc, exit, refresh, sampleInFlight, redraw, screen,
                 superseded>>

LoopStep ==
  \/ UpdateSchedule \/ RequestDetail \/ RequestSample
  \/ ReceiveSample \/ ReceiveDetail \/ ReceivePanic
  \/ Draw \/ TimeOut \/ Leave

User ==
  \/ \E page \in Modes : SwitchPage(page)
  \/ \E millis \in Intervals : SetInterval(millis)
  \/ TogglePause \/ ToggleFlows \/ RefreshNow \/ RunAction
  \/ Repaint \/ IgnoredEvent \/ Quit

Worker(l) ==
  /\ WorkerStep(l)
  /\ UNCHANGED <<uiVars, loopVars, pc, exit, redraw, screen, timeout, superseded>>

(* The process has nothing left to do. *)
Ended ==
  /\ pc = "done" /\ \A l \in Lanes : ~alive[l]
  /\ UNCHANGED vars

Next ==
  \/ LoopStep \/ User \/ TerminalFails \/ Tick \/ Ended
  \/ \E l \in Lanes : Worker(l)

SafetySpec == Init /\ [][Next]_vars

(***************************************************************************)
(* Fairness.  The event loop and the threads are scheduled and time passes; *)
(* a closure returns because every subprocess it waits for has a deadline.  *)
(* The user and the terminal owe nothing.                                   *)
(***************************************************************************)
LoopFairness == WF_vars(LoopStep) /\ WF_vars(Tick)

Spec == SafetySpec /\ LoopFairness /\ \A l \in Lanes : WF_vars(Worker(l))

(* A native query of the detail thread may hang: only the sampler is fair.  *)
HungDetailSpec == SafetySpec /\ LoopFairness /\ WF_vars(Worker("sample"))
===============================================================================
