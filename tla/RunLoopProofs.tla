----------------------------- MODULE RunLoopProofs -----------------------------
(***************************************************************************)
(* Proofs about RunLoop, for every set of pages, snapshots and intervals    *)
(* and every bound.                                                         *)
(***************************************************************************)
EXTENDS RunLoopProperties, TLAPS

(* The schedule's methods keep it a schedule. *)
LEMMA UpdateType ==
  ASSUME NEW s \in Schedules, NEW m \in Modes,
         NEW p \in BOOLEAN, NEW f \in BOOLEAN, NEW force \in BOOLEAN
  PROVE  Update(s, m, p, f, force) \in Schedules
<1>1. Wanted(m, p, f) \in BOOLEAN
  BY DEF Wanted
<1>2. s.generation + 1 \in Nat
  BY DEF Schedules
<1>3. ASSUME NEW active \in BOOLEAN, NEW generation \in Nat
      PROVE  [s EXCEPT !.mode = m, !.generation = generation, !.active = active,
                       !.loaded = None, !.next = 0] \in Schedules
  BY DEF Schedules
<1>. QED BY <1>1, <1>2, <1>3 DEF Update

LEMMA StartType ==
  ASSUME NEW s \in Schedules
  PROVE  Ticket(s) \in Tickets /\ Start(s) \in Schedules
<1>1. Ticket(s) \in Tickets
  BY DEF Ticket, Tickets, Schedules
<1>. QED BY <1>1 DEF Start, Schedules

LEMMA FinishType ==
  ASSUME NEW s \in Schedules, NEW t
  PROVE  Finish(s, t) \in Schedules
BY CooldownAssumption DEF Finish, Schedules

(* A poll never lasts a negative time. *)
LEMMA TimeTypes ==
  ASSUME NEW s \in Schedules, NEW a \in Nat, NEW b \in Nat
  PROVE  /\ Smaller(a, b) \in Nat /\ Less(a) \in Nat /\ Deadline(s, a) \in Nat
         /\ [s EXCEPT !.next = Less(@)] \in Schedules
<1>1. Less(a) \in Nat /\ Less(s.next) \in Nat /\ s.next \in Nat
  BY DEF Less, Schedules
<1>. QED BY <1>1 DEF Smaller, Deadline, Schedules


(* What each lane is asked stays apart from "no request". *)
LEMMA LaneTypes ==
  /\ Requests("sample") = {SampleRequest} /\ Requests("detail") = Tickets
  /\ "sample" \in Lanes /\ "detail" \in Lanes /\ "sample" # "detail"
  /\ \A l \in Lanes : None \notin Requests(l) /\ Requests(l) \subseteq Tickets \cup {SampleRequest}
  /\ Results("sample") = Snapshots \cup {"error"} /\ Results("detail") = {"ok", "error"}
<1>1. None # SampleRequest /\ None \notin Tickets
  BY WorkersAssumption, NoneAssumption
<1>. QED BY <1>1 DEF Requests, Lanes, Results

(* Taking the first response off the channel. *)
LEMMA HeadResponse ==
  ASSUME responses \in Seq(Responses), responses # <<>>
  PROVE  /\ Head(responses) \in Responses
         /\ Tail(responses) \in Seq(Responses)
         /\ Head(responses) = responses[1]
         /\ Len(Tail(responses)) = Len(responses) - 1 /\ Len(responses) \in Nat \ {0}
         /\ \A i \in 1 .. Len(responses) - 1 : Tail(responses)[i] = responses[i + 1]
OBVIOUS

-------------------------------------------------------------------------------
(* Type correctness *)

(* The thread actions, and the loop's only two, keep the workers typed. *)
LEMMA WorkerTypes ==
  ASSUME WorkersTypeOK, NEW l \in Lanes
  PROVE  /\ WorkerStep(l) => WorkersTypeOK'
         /\ DropWorkers => WorkersTypeOK'
         /\ \A request \in Requests(l) :
              Send(l, request) /\ UNCHANGED <<job, alive, responses, stopped>>
                => WorkersTypeOK'
<1>. USE LaneTypes DEF WorkersTypeOK
<1>1. ASSUME Take(l) PROVE WorkersTypeOK'
  BY <1>1 DEF Take, StopSeen
<1>2. ASSUME NEW result \in Results(l) \cup {"panic"}, Complete(l, result)
      PROVE  WorkersTypeOK'
  <2>1. job[l] \in Requests(l)
    BY <1>2 DEF Complete
  <2>2. [lane |-> l, request |-> job[l], result |-> result] \in Responses
    BY <2>1, <1>2 DEF Responses, Lanes
  <2>3. responses' \in Seq(Responses)
    BY <1>2, <2>2 DEF Complete
  <2>. QED BY <1>2, <2>3 DEF Complete, StopSeen
<1>3. ASSUME Disconnect(l) PROVE WorkersTypeOK'
  BY <1>3 DEF Disconnect
<1>4. ASSUME DropWorkers PROVE WorkersTypeOK'
  BY <1>4 DEF DropWorkers
<1>5. ASSUME NEW request \in Requests(l), Send(l, request),
             UNCHANGED <<job, alive, responses, stopped>>
      PROVE  WorkersTypeOK'
  BY <1>5 DEF Send
<1>. QED BY <1>1, <1>2, <1>3, <1>4, <1>5 DEF WorkerStep

(* TypeOK is an invariant of the event loop. *)
THEOREM TypeCorrect == SafetySpec => []TypeOK
<1>1. Init => TypeOK
  <2>. SUFFICES ASSUME Init PROVE TypeOK
    OBVIOUS
  <2>1. WorkersTypeOK
    <3>1. responses \in Seq(Responses)
      BY DEF Init, WorkersInit
    <3>2. \A l \in Lanes : queue[l] = None /\ job[l] = None
      BY DEF Init, WorkersInit
    <3>. QED BY <3>1, <3>2, LaneTypes DEF Init, WorkersInit, WorkersTypeOK
  <2>2. sched \in Schedules
    BY DEF Init, NewSchedule, Schedules
  <2>. QED BY <2>1, <2>2 DEF Init, TypeOK
<1>2. TypeOK /\ [Next]_vars => TypeOK'
  <2>. SUFFICES ASSUME TypeOK, [Next]_vars PROVE TypeOK'
    OBVIOUS
  <2>. USE DEF TypeOK
  <2>u. ASSUME UNCHANGED workerVars PROVE WorkersTypeOK'
    BY <2>u DEF workerVars, WorkersTypeOK
  <2>1. CASE UpdateSchedule
    <3>1. sched' \in Schedules
      BY <2>1, UpdateType DEF UpdateSchedule
    <3>2. nextSample' \in Nat
      BY <2>1, TimeTypes, RunLoopAssumption DEF UpdateSchedule, Rescheduled, Smaller
    <3>. QED BY <2>1, <2>u, <3>1, <3>2 DEF UpdateSchedule
  <2>2. CASE RequestDetail
    <3>1. Start(sched) \in Schedules /\ Ticket(sched) \in Requests("detail")
      BY StartType, LaneTypes
    <3>2. sched' \in Schedules
      BY <2>2, <3>1 DEF RequestDetail
    <3>3. WorkersTypeOK'
      <4>1. UNCHANGED <<job, alive, responses, stopped>>
        BY <2>2 DEF RequestDetail
      <4>2. UNCHANGED queue \/ Send("detail", Ticket(sched))
        BY <2>2 DEF RequestDetail
      <4>. QED BY <4>1, <4>2, <2>u, <3>1, WorkerTypes, LaneTypes DEF workerVars
    <3>. QED BY <2>2, <3>2, <3>3, ZenonT(40) DEF RequestDetail, Fail, ShowsLoading
  <2>3. CASE RequestSample
    <3>1. WorkersTypeOK'
      <4>1. UNCHANGED <<job, alive, responses, stopped>>
        BY <2>3 DEF RequestSample
      <4>2. UNCHANGED queue \/ Send("sample", SampleRequest)
        BY <2>3 DEF RequestSample
      <4>. QED BY <4>1, <4>2, <2>u, WorkerTypes, LaneTypes DEF workerVars
    <3>. QED BY <2>3, <3>1, RunLoopAssumption, ZenonT(40) DEF RequestSample, Fail, uiVars
  <2>r. ASSUME responses # <<>>, responses' = Tail(responses),
               UNCHANGED <<queue, job, alive, stopped>>
        PROVE  WorkersTypeOK'
    BY <2>r, HeadResponse DEF WorkersTypeOK
  <2>4. CASE ReceiveSample
    BY <2>4, <2>r, RunLoopAssumption DEF ReceiveSample, Received, Shows, Redraws
  <2>5. CASE ReceiveDetail
    <3>1. Head(responses).request \in Tickets
      BY <2>5, HeadResponse DEF ReceiveDetail, Received, Responses, WorkersTypeOK
    <3>2. sched' \in Schedules
      BY <2>5, FinishType DEF ReceiveDetail
    <3>3. WorkersTypeOK'
      BY <2>5, <2>r DEF ReceiveDetail, Received
    <3>4. /\ cache' \in [Kinds -> Tickets \cup {None}]
          /\ error' \in Modes \cup {None}
      <4>1. Head(responses).request.mode \in Modes
        BY <3>1 DEF Tickets
      <4>. QED BY <2>5, <3>1, <4>1 DEF ReceiveDetail, ApplyDetail
    <3>. QED BY <2>5, <3>2, <3>3, <3>4 DEF ReceiveDetail, Received
  <2>6. CASE ReceivePanic
    BY <2>6, <2>r DEF ReceivePanic, Received, Fail, uiVars, loopVars
  <2>7. CASE Draw
    <3>1. timeout' \in Nat
      BY <2>7, TimeTypes, RunLoopAssumption DEF Draw, PollTimeout
    <3>. QED BY <2>7, <2>u, <3>1 DEF Draw, uiVars, loopVars
  <2>8. CASE TimeOut
    BY <2>8, <2>u DEF TimeOut, uiVars, loopVars
  <2>9. CASE Leave
    BY <2>9, WorkerTypes, LaneTypes DEF Leave, uiVars, loopVars
  <2>10. CASE User
    <3>. USE <2>u DEF Key, Event, uiVars, loopVars
    <3>1. ASSUME NEW page \in Modes, SwitchPage(page) PROVE TypeOK'
      BY <3>1 DEF SwitchPage
    <3>2. ASSUME NEW millis \in Intervals, SetInterval(millis) PROVE TypeOK'
      BY <3>2 DEF SetInterval
    <3>3. CASE TogglePause
      BY <3>3 DEF TogglePause
    <3>4. CASE ToggleFlows
      BY <3>4 DEF ToggleFlows
    <3>5. CASE RefreshNow
      BY <3>5, UpdateType DEF RefreshNow
    <3>6. CASE RunAction
      BY <3>6 DEF RunAction
    <3>7. CASE Repaint
      BY <3>7 DEF Repaint
    <3>8. CASE IgnoredEvent
      BY <3>8 DEF IgnoredEvent
    <3>9. CASE Quit
      BY <3>9 DEF Quit, Fail
    <3>. QED BY <2>10, <3>1, <3>2, <3>3, <3>4, <3>5, <3>6, <3>7, <3>8, <3>9 DEF User
  <2>11. CASE TerminalFails
    BY <2>11, <2>u DEF TerminalFails, Fail, uiVars, loopVars
  <2>12. CASE Tick
    BY <2>12, <2>u, TimeTypes DEF Tick, uiVars
  <2>13. CASE Ended \/ UNCHANGED vars
    BY <2>13, <2>u DEF Ended, vars, uiVars, loopVars
  <2>14. ASSUME NEW l \in Lanes, Worker(l) PROVE TypeOK'
    BY <2>14, WorkerTypes DEF Worker, uiVars, loopVars
  <2>. QED BY <2>1, <2>2, <2>3, <2>4, <2>5, <2>6, <2>7, <2>8, <2>9, <2>10, <2>11,
              <2>12, <2>13, <2>14 DEF Next, LoopStep
<1>. QED BY <1>1, <1>2, PTL DEF SafetySpec

-------------------------------------------------------------------------------
(* The response channel *)

(* Receiving moves every later response one place forward. *)
LEMMA AfterReceive ==
  ASSUME TypeOK, responses # <<>>, responses' = Tail(responses), NEW l \in Lanes
  PROVE  /\ \A i \in Answered(l)' : i + 1 \in Answered(l) /\ i \in Nat \ {0}
                                     /\ responses'[i] = responses[i + 1]
         /\ \A i \in Answered(l) : i # 1 => i - 1 \in Answered(l)' /\ i \in Nat \ {0}
                                            /\ responses'[i - 1] = responses[i]
         /\ 1 \in Answered(l) <=> Head(responses).lane = l
<1>1. responses \in Seq(Responses)
  BY DEF TypeOK, WorkersTypeOK
<1>2. /\ Len(responses) \in Nat \ {0} /\ DOMAIN responses = 1 .. Len(responses)
      /\ DOMAIN responses' = 1 .. Len(responses) - 1
      /\ \A i \in 1 .. Len(responses) - 1 : responses'[i] = responses[i + 1]
      /\ Head(responses) = responses[1]
  BY <1>1
<1>. QED BY <1>2 DEF Answered

(* Answering adds one response of the lane, at the end. *)
LEMMA AfterAnswer ==
  ASSUME TypeOK, NEW l \in Lanes, NEW request, NEW result,
         responses' = Append(responses, [lane |-> l, request |-> request, result |-> result])
  PROVE  /\ Answered(l)' = Answered(l) \cup {Len(responses) + 1}
         /\ \A k \in Lanes \ {l} : Answered(k)' = Answered(k)
         /\ \A k \in Lanes : \A i \in Answered(k) : responses'[i] = responses[i]
         /\ responses'[Len(responses) + 1].request = request
         /\ responses'[Len(responses) + 1].result = result
<1>1. responses \in Seq(Responses)
  BY DEF TypeOK, WorkersTypeOK
<1>2. /\ Len(responses) \in Nat /\ DOMAIN responses = 1 .. Len(responses)
      /\ DOMAIN responses' = 1 .. Len(responses) + 1
      /\ \A i \in 1 .. Len(responses) : responses'[i] = responses[i]
      /\ responses'[Len(responses) + 1]
           = [lane |-> l, request |-> request, result |-> result]
  BY <1>1
<1>. QED BY <1>2 DEF Answered

(* Only tickets are asked of the detail lane. *)
LEMMA HeldTypes == ASSUME TypeOK PROVE HeldTickets \subseteq Tickets
<1>1. {queue["detail"], job["detail"]} \subseteq Tickets \cup {None}
  BY LaneTypes DEF TypeOK, WorkersTypeOK
<1>2. ASSUME NEW i \in Answered("detail") PROVE responses[i].request \in Tickets
  <2>1. responses[i] \in Responses /\ responses[i].lane = "detail"
    BY <1>2 DEF TypeOK, WorkersTypeOK, Answered
  <2>. QED BY <2>1 DEF Responses
<1>. QED BY <1>1, <1>2 DEF HeldTickets

(* A lane not in flight is empty. *)
LEMMA IdleLane ==
  ASSUME IInv, Running, NEW l \in Lanes, ~InFlight(l)
  PROVE  queue[l] = None /\ job[l] = None /\ Answered(l) = {} /\ alive[l]
<1>1. queue[l] = None /\ job[l] = None /\ Answered(l) = {}
  BY DEF IInv, OneRequestPerLane
<1>. QED BY <1>1 DEF IInv, LanesFollowSchedule, DeadThreadsReport

-------------------------------------------------------------------------------
(* Safety *)

(* Steps that leave the workers and the in-flight flags alone. *)
LEMMA LanesUnchanged ==
  ASSUME IInv, UNCHANGED workerVars, UNCHANGED <<sampleInFlight, loading>>,
         sched'.inFlight = sched.inFlight,
         pc # "done", Running' => Running
  PROVE  /\ HeldTickets' = HeldTickets
         /\ OneRequestPerLane' /\ DeadThreadsReport' /\ LoadingIsTrue'
<1>1. \A l \in Lanes : Answered(l)' = Answered(l) /\ InFlight(l)' = InFlight(l)
  BY DEF workerVars, Answered, InFlight
<1>2. HeldTickets' = HeldTickets
  BY <1>1, LaneTypes DEF workerVars, HeldTickets
<1>3. OneRequestPerLane'
  BY <1>1 DEF IInv, workerVars, OneRequestPerLane
<1>4. DeadThreadsReport'
  BY <1>1 DEF IInv, LanesFollowSchedule, DeadThreadsReport, workerVars
<1>5. LoadingIsTrue'
  BY <1>2 DEF IInv, LoadingIsTrue
<1>. QED BY <1>2, <1>3, <1>4, <1>5

LEMMA UpdateScheduleSafe ==
  ASSUME IInv, TypeOK', UpdateSchedule PROVE IInv'
<1>. DEFINE u == Update(sched, mode, paused, flows, FALSE)
<1>1. /\ UNCHANGED workerVars /\ UNCHANGED <<sampleInFlight, loading, exit, superseded>>
      /\ sched' = u /\ pc = "update" /\ pc' = "detail"
      /\ UNCHANGED <<mode, paused, flows>>
  BY DEF UpdateSchedule
<1>2. /\ u.inFlight = sched.inFlight /\ u.mode = mode
      /\ Changes(sched, mode, paused, flows, FALSE) =>
           u.generation = sched.generation + 1 /\ u.active = Wanted(mode, paused, flows)
      /\ ~Changes(sched, mode, paused, flows, FALSE) =>
           u = sched /\ sched.active = Wanted(mode, paused, flows)
  <2>1. sched \in Schedules /\ mode \in Modes /\ paused \in BOOLEAN /\ flows \in BOOLEAN
    BY DEF IInv, TypeOK
  <2>2. CASE Changes(sched, mode, paused, flows, FALSE)
    BY <2>1, <2>2 DEF Update, Schedules
  <2>3. CASE ~Changes(sched, mode, paused, flows, FALSE)
    BY <2>1, <2>3 DEF Update, Changes
  <2>. QED BY <2>2, <2>3
<1>. HIDE DEF u
<1>3. HeldTickets' = HeldTickets /\ OneRequestPerLane' /\ DeadThreadsReport' /\ LoadingIsTrue'
  BY <1>1, <1>2, LanesUnchanged DEF Running
<1>4. ScheduleKnowsPage'
  <2>1. Wanted(mode, paused, flows)' = Wanted(mode, paused, flows)
    BY <1>1 DEF Wanted
  <2>. QED BY <1>1, <1>2, <2>1 DEF ScheduleKnowsPage
<1>5. HeldTicketsAge'
  <2>. SUFFICES ASSUME NEW t \in HeldTickets
                PROVE  /\ t.generation <= u.generation
                       /\ t.generation = u.generation => t = Ticket(u) /\ u.active
                       /\ superseded => t.generation < u.generation
    BY <1>1, <1>3 DEF HeldTicketsAge
  <2>1. /\ t.generation <= sched.generation
        /\ t.generation = sched.generation => t = Ticket(sched) /\ sched.active
        /\ superseded => \/ t.generation < sched.generation
                         \/ Changes(sched, mode, paused, flows, FALSE)
    BY <1>1 DEF IInv, LanesFollowSchedule, HeldTicketsAge, Running
  <2>2. t.generation \in Nat /\ sched.generation \in Nat
    BY HeldTypes DEF IInv, TypeOK, Tickets, Schedules
  <2>3. CASE Changes(sched, mode, paused, flows, FALSE)
    <3>1. u.generation = sched.generation + 1
      BY <2>3, <1>2
    <3>. QED BY <3>1, <2>1, <2>2
  <2>4. CASE ~Changes(sched, mode, paused, flows, FALSE)
    <3>1. u = sched
      BY <2>4, <1>2
    <3>. QED BY <3>1, <2>1, <2>4
  <2>. QED BY <2>3, <2>4
<1>. QED BY <1>1, <1>3, <1>4, <1>5 DEF IInv, LanesFollowSchedule, SendsSucceed

(* Steps of the loop that change neither the schedule nor the page. *)
LEMMA PageUnchanged ==
  ASSUME IInv, TypeOK', UNCHANGED workerVars, pc # "done", Running' => Running,
         UNCHANGED <<mode, paused, flows, loading, sampleInFlight, superseded>>,
         UNCHANGED <<sched.mode, sched.generation, sched.active, sched.inFlight>>,
         exit' # "unavailable",
         \/ pc' = pc
         \/ pc = "poll" /\ pc' = "update"
         \/ pc = "drain" /\ pc' \in {"poll", "update"}
         \/ pc = "detail" /\ pc' = "sample"
         \/ pc = "sample" /\ pc' = "drain"
         \/ ~Running'
  PROVE  IInv'
<1>1. HeldTickets' = HeldTickets /\ OneRequestPerLane' /\ DeadThreadsReport' /\ LoadingIsTrue'
  BY LanesUnchanged
<1>2. ScheduleKnowsPage'
  <2>1. Wanted(mode, paused, flows)' = Wanted(mode, paused, flows)
    BY DEF Wanted
  <2>. QED BY <2>1 DEF IInv, LanesFollowSchedule, ScheduleKnowsPage, Running
<1>3. HeldTicketsAge'
  <2>1. Ticket(sched)' = Ticket(sched)
    BY DEF Ticket
  <2>2. Changes(sched, mode, paused, flows, FALSE)' = Changes(sched, mode, paused, flows, FALSE)
    BY DEF Changes, Wanted
  <2>. QED BY <1>1, <2>1, <2>2 DEF IInv, LanesFollowSchedule, HeldTicketsAge, Running
<1>. QED BY <1>1, <1>2, <1>3 DEF IInv, LanesFollowSchedule, SendsSucceed

(* At the poll, a key makes the detail in flight stale only if the next      *)
(* details.update notices it.                                                *)
LEMMA UserSafe == ASSUME IInv, TypeOK', User PROVE IInv'
<1>. USE DEF Event, uiVars, loopVars
<1>. DEFINE Noticed == Changes(sched, mode, paused, flows, FALSE)'
<1>1. ASSUME pc = "poll"
      PROVE  \/ sched.mode = mode /\ sched.active = Wanted(mode, paused, flows)
             \/ ~sched.active /\ mode = "Overview"
  BY <1>1 DEF IInv, LanesFollowSchedule, ScheduleKnowsPage, Running
<1>2. ASSUME pc = "poll", NEW t \in HeldTickets
      PROVE  /\ t.generation <= sched.generation
             /\ t.generation = sched.generation => t = Ticket(sched) /\ sched.active
             /\ superseded \/ ~sched.active => t.generation < sched.generation
             /\ t.generation \in Nat /\ sched.generation \in Nat
  <2>1. t.generation \in Nat /\ sched.generation \in Nat
    BY HeldTypes DEF IInv, TypeOK, Tickets, Schedules
  <2>. QED BY <1>2, <2>1 DEF IInv, LanesFollowSchedule, HeldTicketsAge, Running
<1>3. ASSUME Key, UNCHANGED <<loading, sampleInFlight>>, sched'.inFlight = sched.inFlight,
             HeldTicketsAge'
      PROVE  IInv'
  <2>1. UNCHANGED workerVars /\ pc = "poll" /\ pc' = "update" /\ exit' = exit
    BY <1>3 DEF Key
  <2>2. OneRequestPerLane' /\ DeadThreadsReport' /\ LoadingIsTrue'
    BY <1>3, <2>1, LanesUnchanged DEF Running
  <2>3. ScheduleKnowsPage'
    BY <2>1 DEF ScheduleKnowsPage
  <2>. QED BY <1>3, <2>1, <2>2, <2>3 DEF IInv, LanesFollowSchedule, SendsSucceed
<1>4. ASSUME Key, UNCHANGED <<loading, sampleInFlight, sched>>,
             superseded' => superseded \/ ~sched.active \/ Noticed
      PROVE  IInv'
  <2>1. pc = "poll" /\ pc' = "update" /\ UNCHANGED workerVars
    BY <1>4 DEF Key
  <2>2. HeldTickets' = HeldTickets
    BY <1>4, <2>1, LanesUnchanged DEF Running
  <2>3. Ticket(sched)' = Ticket(sched)
    BY <1>4 DEF Ticket
  <2>4. HeldTicketsAge'
    <3>. SUFFICES ASSUME NEW t \in HeldTickets
                  PROVE  /\ t.generation <= sched.generation
                         /\ t.generation = sched.generation => t = Ticket(sched) /\ sched.active
                         /\ superseded' => t.generation < sched.generation \/ Noticed
      BY <1>4, <2>1, <2>2, <2>3 DEF HeldTicketsAge
    <3>. QED BY <1>4, <2>1, <1>2
  <2>. QED BY <1>3, <1>4, <2>4
<1>5. ASSUME NEW page \in Modes, SwitchPage(page) PROVE IInv'
  <2>1. /\ Key /\ pc = "poll" /\ page # mode /\ mode' = page
        /\ UNCHANGED <<loading, sched, sampleInFlight>>
    BY <1>5 DEF SwitchPage, Key
  <2>2. sched.mode = mode => Noticed
    BY <2>1 DEF Changes
  <2>. QED BY <1>1, <1>4, <2>1, <2>2
<1>6. CASE TogglePause
  <2>1. /\ Key /\ pc = "poll" /\ paused' = ~paused
        /\ superseded' = (superseded \/ (mode = "Network" /\ flows))
        /\ UNCHANGED <<loading, sched, sampleInFlight, mode, flows>>
    BY <1>6 DEF TogglePause, Key
  <2>2. mode = "Network" /\ flows /\ sched.active = Wanted(mode, paused, flows) => Noticed
    BY <2>1 DEF Changes, Wanted, IInv, TypeOK
  <2>. QED BY <1>1, <1>4, <2>1, <2>2
<1>7. CASE ToggleFlows
  <2>1. /\ Key /\ pc = "poll" /\ flows' = ~flows /\ mode = "Network"
        /\ UNCHANGED <<loading, sched, sampleInFlight, mode, paused>>
    BY <1>7 DEF ToggleFlows, Key
  <2>2. sched.active = Wanted(mode, paused, flows) => ~sched.active \/ Noticed
    BY <2>1 DEF Changes, Wanted, IInv, TypeOK
  <2>. QED BY <1>1, <1>4, <2>1, <2>2
<1>8. CASE RefreshNow
  <2>1. /\ Key /\ pc = "poll" /\ UNCHANGED <<loading, sampleInFlight>>
        /\ sched' = Update(sched, mode, paused, flows, TRUE)
    BY <1>8 DEF RefreshNow, Key
  <2>2. sched'.inFlight = sched.inFlight /\ sched'.generation = sched.generation + 1
    <3>1. sched \in Schedules /\ mode \in Modes /\ paused \in BOOLEAN /\ flows \in BOOLEAN
      BY DEF IInv, TypeOK
    <3>2. Changes(sched, mode, paused, flows, TRUE)
      BY DEF Changes
    <3>. QED BY <2>1, <3>1, <3>2 DEF Update, Schedules
  <2>3. HeldTickets' = HeldTickets
    BY <2>1, <2>2, LanesUnchanged DEF Key, Running
  <2>4. ASSUME NEW t \in HeldTickets
        PROVE  /\ t.generation <= sched'.generation /\ t.generation # sched'.generation
               /\ t.generation < sched'.generation
    <3>1. /\ t.generation <= sched.generation
          /\ t.generation \in Nat /\ sched.generation \in Nat
      BY <1>2, <2>1
    <3>2. sched'.generation = sched.generation + 1
      BY <2>2
    <3>. QED BY <3>1, <3>2
  <2>5. HeldTicketsAge'
    BY <2>3, <2>4 DEF HeldTicketsAge
  <2>. QED BY <1>3, <2>1, <2>2, <2>5
<1>9. CASE (\E millis \in Intervals : SetInterval(millis)) \/ RunAction
  BY <1>9, PageUnchanged DEF SetInterval, RunAction, Key, IInv, SendsSucceed, Running
<1>10. CASE Repaint \/ IgnoredEvent
  BY <1>10, PageUnchanged DEF Repaint, IgnoredEvent, IInv, SendsSucceed, Running
<1>11. CASE Quit
  BY <1>11, PageUnchanged DEF Quit, Fail, Running
<1>. QED BY <1>5, <1>6, <1>7, <1>8, <1>9, <1>10, <1>11 DEF User

(* A detail is requested of an empty lane whose thread is alive. *)
LEMMA RequestDetailSafe == ASSUME IInv, TypeOK', RequestDetail PROVE IInv'
<1>1. pc = "detail" /\ Running /\ sched.mode = mode
  BY DEF RequestDetail, Running, IInv, LanesFollowSchedule, ScheduleKnowsPage
<1>2. CASE ~Due(sched)
  BY <1>1, <1>2, PageUnchanged
     DEF RequestDetail, workerVars, IInv, SendsSucceed, Running
<1>3. CASE Due(sched)
  <2>1. /\ queue["detail"] = None /\ job["detail"] = None
        /\ Answered("detail") = {} /\ alive["detail"]
    <3>1. ~InFlight("detail")
      BY <1>3, LaneTypes DEF Due, Missing, InFlight
    <3>. QED BY <1>1, <3>1, IdleLane, LaneTypes
  <2>2. /\ queue' = [queue EXCEPT !["detail"] = Ticket(sched)]
        /\ UNCHANGED <<job, alive, responses, stopped, mode, paused, flows,
                       sampleInFlight, exit>>
        /\ sched' = Start(sched) /\ loading' = (mode = "Network")
        /\ superseded' = FALSE /\ pc' = "sample"
    BY <1>3, <2>1 DEF RequestDetail, CanSend, Send, ShowsLoading
  <2>3. /\ sched'.mode = sched.mode /\ sched'.generation = sched.generation
        /\ sched'.active = sched.active /\ sched'.inFlight = TRUE
        /\ Ticket(sched)' = Ticket(sched) /\ sched.active
        /\ sched.generation \in Nat /\ Ticket(sched) \in Tickets
    BY <1>3, <2>2, StartType DEF Start, Ticket, Due, Missing, IInv, TypeOK, Schedules
  <2>4. \A l \in Lanes : Answered(l)' = Answered(l)
    BY <2>2 DEF Answered
  <2>5. queue'["detail"] = Ticket(sched) /\ queue'["sample"] = queue["sample"]
    BY <2>2, LaneTypes DEF IInv, TypeOK, WorkersTypeOK
  <2>6. HeldTickets' = {Ticket(sched)}
    BY <2>1, <2>2, <2>3, <2>4, <2>5, LaneTypes DEF HeldTickets
  <2>7. OneRequestPerLane'
    <3>. SUFFICES ASSUME NEW l \in Lanes
                  PROVE  /\ queue'[l] # None => job'[l] = None /\ Answered(l)' = {}
                         /\ job'[l] # None => Answered(l)' = {}
                         /\ \A i, j \in Answered(l)' : i = j
                         /\ InFlight(l)' <=> \/ queue'[l] # None \/ job'[l] # None
                                             \/ Answered(l)' # {}
      BY DEF OneRequestPerLane
    <3>1. CASE l = "detail"
      BY <3>1, <2>1, <2>2, <2>3, <2>4, <2>5, LaneTypes DEF InFlight
    <3>2. CASE l = "sample"
      BY <3>2, <1>1, <2>2, <2>4, <2>5 DEF InFlight, IInv, OneRequestPerLane
    <3>. QED BY <3>1, <3>2 DEF Lanes
  <2>8. DeadThreadsReport'
    BY <1>1, <2>2, <2>4 DEF IInv, LanesFollowSchedule, DeadThreadsReport, Running
  <2>9. LoadingIsTrue'
    <3>1. Ticket(sched).mode = mode
      BY <1>1 DEF Ticket
    <3>2. (\E t \in HeldTickets' : t.mode = "Network") <=> mode = "Network"
      BY <2>6, <3>1
    <3>. QED BY <2>2, <3>2 DEF LoadingIsTrue
  <2>10. ScheduleKnowsPage'
    <3>1. Wanted(mode, paused, flows)' = Wanted(mode, paused, flows)
      BY <2>2 DEF Wanted
    <3>. QED BY <1>1, <2>2, <2>3, <3>1
             DEF ScheduleKnowsPage, IInv, LanesFollowSchedule, Running
  <2>11. HeldTicketsAge'
    BY <2>2, <2>3, <2>6 DEF HeldTicketsAge, Ticket
  <2>. QED BY <2>2, <2>7, <2>8, <2>9, <2>10, <2>11 DEF IInv, LanesFollowSchedule, SendsSucceed
<1>. QED BY <1>2, <1>3

(* The same of a sample; the detail lane is not touched. *)
LEMMA RequestSampleSafe == ASSUME IInv, TypeOK', RequestSample PROVE IInv'
<1>1. pc = "sample" /\ Running
  BY DEF RequestSample, Running
<1>2. CASE ~SampleDue
  BY <1>1, <1>2, PageUnchanged
     DEF RequestSample, workerVars, uiVars, IInv, SendsSucceed, Running
<1>3. CASE SampleDue
  <2>1. /\ queue["sample"] = None /\ job["sample"] = None
        /\ Answered("sample") = {} /\ alive["sample"]
    <3>1. ~InFlight("sample")
      BY <1>3 DEF SampleDue, InFlight
    <3>. QED BY <1>1, <3>1, IdleLane, LaneTypes
  <2>2. /\ queue' = [queue EXCEPT !["sample"] = SampleRequest]
        /\ UNCHANGED <<job, alive, responses, stopped, mode, paused, flows, loading,
                       sched, superseded, exit>>
        /\ sampleInFlight' = TRUE /\ pc' = "drain"
    BY <1>3, <2>1 DEF RequestSample, CanSend, Send, uiVars
  <2>4. \A l \in Lanes : Answered(l)' = Answered(l)
    BY <2>2 DEF Answered
  <2>5. queue'["sample"] # None /\ queue'["detail"] = queue["detail"]
    BY <2>2, LaneTypes, WorkersAssumption DEF IInv, TypeOK, WorkersTypeOK
  <2>6. HeldTickets' = HeldTickets
    BY <2>2, <2>4, <2>5, LaneTypes DEF HeldTickets
  <2>7. OneRequestPerLane'
    <3>. SUFFICES ASSUME NEW l \in Lanes
                  PROVE  /\ queue'[l] # None => job'[l] = None /\ Answered(l)' = {}
                         /\ job'[l] # None => Answered(l)' = {}
                         /\ \A i, j \in Answered(l)' : i = j
                         /\ InFlight(l)' <=> \/ queue'[l] # None \/ job'[l] # None
                                             \/ Answered(l)' # {}
      BY DEF OneRequestPerLane
    <3>1. CASE l = "sample"
      BY <3>1, <2>1, <2>2, <2>4, <2>5 DEF InFlight
    <3>2. CASE l = "detail"
      BY <3>2, <1>1, <2>2, <2>4, <2>5 DEF InFlight, IInv, OneRequestPerLane
    <3>. QED BY <3>1, <3>2 DEF Lanes
  <2>8. DeadThreadsReport'
    BY <1>1, <2>2, <2>4 DEF IInv, LanesFollowSchedule, DeadThreadsReport, Running
  <2>9. LoadingIsTrue'
    BY <1>1, <2>2, <2>6 DEF LoadingIsTrue, IInv
  <2>10. ScheduleKnowsPage'
    <3>1. Wanted(mode, paused, flows)' = Wanted(mode, paused, flows)
      BY <2>2 DEF Wanted
    <3>. QED BY <1>1, <2>2, <3>1 DEF ScheduleKnowsPage, IInv, LanesFollowSchedule
  <2>11. HeldTicketsAge'
    BY <1>1, <2>2, <2>6 DEF HeldTicketsAge, IInv, LanesFollowSchedule, Ticket
  <2>. QED BY <2>2, <2>7, <2>8, <2>9, <2>10, <2>11 DEF IInv, LanesFollowSchedule, SendsSucceed
<1>. QED BY <1>2, <1>3

(* A received response was the only trace of its lane's request; the other   *)
(* lane keeps its own.                                                       *)
LEMMA AfterHead ==
  ASSUME IInv, NEW l \in Lanes, Received(l), UNCHANGED <<queue, job>>
  PROVE  /\ Answered(l) = {1} /\ queue[l] = None /\ job[l] = None /\ Answered(l)' = {}
         /\ \A k \in Lanes \ {l} :
              /\ (Answered(k)' = {}) <=> (Answered(k) = {})
              /\ \A i, j \in Answered(k)' : i = j
              /\ \A i \in Answered(k) : \E j \in Answered(k)' : responses'[j] = responses[i]
              /\ \A j \in Answered(k)' : \E i \in Answered(k) : responses'[j] = responses[i]
<1>. USE DEF IInv
<1>1. responses # <<>> /\ responses' = Tail(responses) /\ Head(responses).lane = l
  BY DEF Received
<1>2. 1 \in Answered(l)
  BY <1>1, AfterReceive
<1>3. Answered(l) = {1}
  BY <1>2 DEF OneRequestPerLane
<1>4. queue[l] = None /\ job[l] = None
  BY <1>2 DEF OneRequestPerLane
<1>5. Answered(l)' = {}
  <2>1. ASSUME NEW i \in Answered(l)' PROVE FALSE
    <3>1. i + 1 \in Answered(l) /\ i \in Nat \ {0}
      BY <1>1, AfterReceive
    <3>. QED BY <3>1, <1>3
  <2>. QED BY <2>1
<1>6. ASSUME NEW k \in Lanes \ {l}
      PROVE  /\ (Answered(k)' = {}) <=> (Answered(k) = {})
             /\ \A i, j \in Answered(k)' : i = j
             /\ \A i \in Answered(k) : \E j \in Answered(k)' : responses'[j] = responses[i]
             /\ \A j \in Answered(k)' : \E i \in Answered(k) : responses'[j] = responses[i]
  <2>1. 1 \notin Answered(k)
    BY <1>1, AfterReceive
  <2>2. \A i \in Answered(k) : i - 1 \in Answered(k)' /\ responses'[i - 1] = responses[i]
    BY <1>1, <2>1, AfterReceive
  <2>3. \A j \in Answered(k)' : /\ j + 1 \in Answered(k) /\ j \in Nat \ {0}
                                /\ responses'[j] = responses[j + 1]
    BY <1>1, AfterReceive
  <2>4. \A i, j \in Answered(k)' : i = j
    <3>. SUFFICES ASSUME NEW i \in Answered(k)', NEW j \in Answered(k)' PROVE i = j
      OBVIOUS
    <3>1. i + 1 = j + 1
      BY <2>3 DEF OneRequestPerLane
    <3>. QED BY <2>3, <3>1
  <2>. QED BY <2>2, <2>3, <2>4
<1>. QED BY <1>3, <1>4, <1>5, <1>6

(* The lanes stay single-flight when the loop receives and notes the answer. *)
LEMMA OneRequestAfterHead ==
  ASSUME IInv, NEW l \in Lanes, Received(l), UNCHANGED <<queue, job>>,
         Running' => Running /\ ~InFlight(l)'
                     /\ \A k \in Lanes \ {l} : InFlight(k)' = InFlight(k)
  PROVE  OneRequestPerLane'
<1>. SUFFICES ASSUME NEW k \in Lanes
              PROVE  /\ queue'[k] # None => job'[k] = None /\ Answered(k)' = {}
                     /\ job'[k] # None => Answered(k)' = {}
                     /\ \A i, j \in Answered(k)' : i = j
                     /\ Running' => (InFlight(k)' <=> \/ queue'[k] # None
                                                      \/ job'[k] # None
                                                      \/ Answered(k)' # {})
  BY DEF OneRequestPerLane
<1>1. CASE k = l
  BY <1>1, AfterHead
<1>2. CASE k # l
  BY <1>2, AfterHead DEF IInv, OneRequestPerLane
<1>. QED BY <1>1, <1>2

LEMMA ReceiveSampleSafe == ASSUME IInv, TypeOK', ReceiveSample PROVE IInv'
<1>1. /\ pc = "drain" /\ Running /\ Received("sample") /\ UNCHANGED <<queue, job>>
      /\ Head(responses).result # "panic" /\ sampleInFlight' = FALSE
      /\ mode' = mode \/ (mode = "Gpu" /\ mode' = "Overview")
      /\ superseded' = (superseded \/ mode' # mode)
      /\ UNCHANGED <<alive, stopped, pc, exit, paused, flows, loading, sched>>
  BY DEF ReceiveSample, Received, Running
<1>2. "sample" \in Lanes /\ "detail" \in Lanes \ {"sample"} /\ Lanes = {"sample", "detail"}
  BY DEF Lanes
<1>3. HeldTickets' = HeldTickets
  <2>1. \A i \in Answered("detail") : \E j \in Answered("detail")' :
          responses'[j] = responses[i]
    BY <1>1, <1>2, AfterHead
  <2>2. \A j \in Answered("detail")' : \E i \in Answered("detail") :
          responses'[j] = responses[i]
    BY <1>1, <1>2, AfterHead
  <2>. QED BY <1>1, <2>1, <2>2 DEF HeldTickets
<1>4. OneRequestPerLane'
  BY <1>1, <1>2, OneRequestAfterHead DEF InFlight
<1>5. DeadThreadsReport'
  <2>1. ASSUME NEW l \in Lanes
        PROVE  alive[l] \/ \E i \in Answered(l)' : responses'[i].result = "panic"
    <3>1. alive[l] \/ \E i \in Answered(l) : responses[i].result = "panic"
      BY <1>1 DEF IInv, LanesFollowSchedule, DeadThreadsReport
    <3>2. CASE l = "sample"
      <4>1. \A i \in Answered("sample") : responses[i] = Head(responses)
        BY <1>1, <1>2, AfterHead, HeadResponse DEF Received, IInv, TypeOK, WorkersTypeOK
      <4>. QED BY <1>1, <3>1, <3>2, <4>1
    <3>3. CASE l = "detail"
      <4>1. \A i \in Answered(l) : \E j \in Answered(l)' : responses'[j] = responses[i]
        BY <1>1, <1>2, <3>3, AfterHead
      <4>. QED BY <3>1, <4>1
    <3>. QED BY <3>2, <3>3 DEF Lanes
  <2>. QED BY <1>1, <2>1 DEF DeadThreadsReport, IInv, LanesFollowSchedule, Running
<1>6. LoadingIsTrue'
  BY <1>1, <1>3 DEF IInv, LoadingIsTrue
<1>7. mode' # mode => sched.mode = "Gpu" /\ ~sched.active
  BY <1>1 DEF IInv, LanesFollowSchedule, ScheduleKnowsPage, Wanted
<1>8. ScheduleKnowsPage'
  <2>1. CASE mode' = mode
    <3>1. Wanted(mode, paused, flows)' = Wanted(mode, paused, flows)
      BY <1>1, <2>1 DEF Wanted
    <3>. QED BY <1>1, <2>1, <3>1 DEF IInv, LanesFollowSchedule, ScheduleKnowsPage
  <2>2. CASE mode' # mode
    BY <1>1, <1>7, <2>2 DEF ScheduleKnowsPage
  <2>. QED BY <2>1, <2>2
<1>9. HeldTicketsAge'
  <2>1. ASSUME NEW t \in HeldTickets
        PROVE  /\ t.generation <= sched.generation
               /\ t.generation = sched.generation => t = Ticket(sched) /\ sched.active
               /\ superseded \/ ~sched.active => t.generation < sched.generation
    <3>1. t.generation \in Nat /\ sched.generation \in Nat
      BY HeldTypes DEF IInv, TypeOK, Tickets, Schedules
    <3>. QED BY <1>1, <3>1 DEF IInv, LanesFollowSchedule, HeldTicketsAge
  <2>2. Ticket(sched)' = Ticket(sched)
    BY <1>1 DEF Ticket
  <2>. QED BY <1>1, <1>3, <1>7, <2>1, <2>2 DEF HeldTicketsAge
<1>. QED BY <1>1, <1>4, <1>5, <1>6, <1>8, <1>9 DEF IInv, LanesFollowSchedule, SendsSucceed

LEMMA ReceiveDetailSafe == ASSUME IInv, TypeOK', ReceiveDetail PROVE IInv'
<1>1. /\ pc = "drain" /\ Running /\ Received("detail") /\ UNCHANGED <<queue, job>>
      /\ Head(responses).result # "panic" /\ loading' = FALSE
      /\ sched' = Finish(sched, Head(responses).request)
      /\ UNCHANGED <<alive, stopped, pc, exit, mode, paused, flows, sampleInFlight>>
  BY DEF ReceiveDetail, Received, Running
<1>2. "detail" \in Lanes /\ "sample" \in Lanes \ {"detail"} /\ Lanes = {"sample", "detail"}
  BY DEF Lanes
<1>3. /\ sched'.mode = sched.mode /\ sched'.active = sched.active
      /\ sched'.inFlight = FALSE
  BY <1>1 DEF Finish, IInv, TypeOK, Schedules
<1>4. HeldTickets' = {}
  BY <1>1, <1>2, AfterHead DEF HeldTickets
<1>5. OneRequestPerLane'
  BY <1>1, <1>2, <1>3, OneRequestAfterHead DEF InFlight
<1>6. DeadThreadsReport'
  <2>1. ASSUME NEW l \in Lanes
        PROVE  alive[l] \/ \E i \in Answered(l)' : responses'[i].result = "panic"
    <3>1. alive[l] \/ \E i \in Answered(l) : responses[i].result = "panic"
      BY <1>1 DEF IInv, LanesFollowSchedule, DeadThreadsReport
    <3>2. CASE l = "detail"
      <4>1. \A i \in Answered("detail") : responses[i] = Head(responses)
        BY <1>1, <1>2, AfterHead, HeadResponse DEF Received, IInv, TypeOK, WorkersTypeOK
      <4>. QED BY <1>1, <3>1, <3>2, <4>1
    <3>3. CASE l = "sample"
      <4>1. \A i \in Answered(l) : \E j \in Answered(l)' : responses'[j] = responses[i]
        BY <1>1, <1>2, <3>3, AfterHead
      <4>. QED BY <3>1, <4>1
    <3>. QED BY <3>2, <3>3 DEF Lanes
  <2>. QED BY <1>1, <2>1 DEF DeadThreadsReport, IInv, LanesFollowSchedule, Running
<1>7. LoadingIsTrue'
  BY <1>1, <1>4 DEF LoadingIsTrue
<1>8. ScheduleKnowsPage'
  <2>1. Wanted(mode, paused, flows)' = Wanted(mode, paused, flows)
    BY <1>1 DEF Wanted
  <2>. QED BY <1>1, <1>3, <2>1 DEF IInv, LanesFollowSchedule, ScheduleKnowsPage
<1>9. HeldTicketsAge'
  BY <1>4 DEF HeldTicketsAge
<1>. QED BY <1>1, <1>5, <1>6, <1>7, <1>8, <1>9 DEF IInv, LanesFollowSchedule, SendsSucceed

(* The loop's last two steps. *)
LEMMA EndSafe == ASSUME IInv, TypeOK', ReceivePanic \/ Leave PROVE IInv'
<1>1. /\ ~Running' /\ exit' # "unavailable" /\ UNCHANGED <<queue, job>>
      /\ stopped' => pc' = "done"
  BY DEF ReceivePanic, Leave, Received, Running, Fail, DropWorkers, IInv, SendsSucceed,
         LanesFollowSchedule, DeadThreadsReport
<1>2. OneRequestPerLane'
  <2>1. CASE ReceivePanic
    <3>1. PICK l \in Lanes : Received(l)
      BY <2>1 DEF ReceivePanic
    <3>. QED BY <1>1, <3>1, OneRequestAfterHead
  <2>2. CASE Leave
    <3>1. \A l \in Lanes : Answered(l)' = {}
      BY <2>2 DEF Leave, DropWorkers, Answered
    <3>. QED BY <1>1, <3>1 DEF IInv, OneRequestPerLane
  <2>. QED BY <2>1, <2>2
<1>. QED BY <1>1, <1>2
     DEF IInv, SendsSucceed, LoadingIsTrue, LanesFollowSchedule, DeadThreadsReport,
         ScheduleKnowsPage, HeldTicketsAge

(* A thread moves a request on, or ends; while the UI runs it ends only      *)
(* after a panic.                                                            *)
LEMMA WorkerSafe == ASSUME IInv, TypeOK', NEW l \in Lanes, Worker(l) PROVE IInv'
<1>. USE DEF IInv
<1>1. /\ UNCHANGED <<pc, exit, mode, paused, flows, loading, sampleInFlight, sched, superseded>>
      /\ UNCHANGED stopped /\ WorkerStep(l) /\ (stopped => ~Running)
  BY DEF Worker, WorkerStep, Take, Complete, Disconnect, uiVars, loopVars,
         LanesFollowSchedule, DeadThreadsReport, Running
<1>2. ASSUME OneRequestPerLane', DeadThreadsReport', Running => HeldTickets' = HeldTickets
      PROVE  IInv'
  <2>1. ScheduleKnowsPage'
    <3>1. Wanted(mode, paused, flows)' = Wanted(mode, paused, flows)
      BY <1>1 DEF Wanted
    <3>. QED BY <1>1, <3>1 DEF LanesFollowSchedule, ScheduleKnowsPage, Running
  <2>2. HeldTicketsAge'
    <3>1. Ticket(sched)' = Ticket(sched)
      BY <1>1 DEF Ticket
    <3>2. Changes(sched, mode, paused, flows, FALSE)' = Changes(sched, mode, paused, flows, FALSE)
      BY <1>1 DEF Changes, Wanted
    <3>. QED BY <1>1, <1>2, <3>1, <3>2 DEF LanesFollowSchedule, HeldTicketsAge, Running
  <2>3. LoadingIsTrue'
    BY <1>1, <1>2 DEF LoadingIsTrue, Running
  <2>. QED BY <1>1, <1>2, <2>1, <2>2, <2>3 DEF LanesFollowSchedule, SendsSucceed
<1>3. ASSUME UNCHANGED responses PROVE \A k \in Lanes : Answered(k)' = Answered(k)
  BY <1>3 DEF Answered
<1>4. \A k \in Lanes : InFlight(k)' = InFlight(k)
  BY <1>1 DEF InFlight
<1>types. queue \in [Lanes -> Tickets \cup {SampleRequest, None}]
          /\ job \in [Lanes -> Tickets \cup {SampleRequest, None}]
          /\ alive \in [Lanes -> BOOLEAN]
  BY DEF TypeOK, WorkersTypeOK
<1>5. CASE Take(l)
  <2>1. /\ UNCHANGED responses /\ queue[l] # None /\ job[l] = None
        /\ queue' = [queue EXCEPT ![l] = None]
        /\ alive[l] /\ alive' = [alive EXCEPT ![l] = ~stopped]
        /\ job' = IF stopped THEN job ELSE [job EXCEPT ![l] = queue[l]]
    BY <1>5 DEF Take, StopSeen
  <2>2. /\ queue'[l] = None /\ job'[l] = IF stopped THEN None ELSE queue[l]
        /\ \A k \in Lanes \ {l} : queue'[k] = queue[k] /\ job'[k] = job[k]
        /\ ~stopped => alive' = alive
    BY <1>types, <2>1
  <2>3. OneRequestPerLane'
    BY <1>1, <1>3, <1>4, <2>1, <2>2 DEF OneRequestPerLane, Running
  <2>4. DeadThreadsReport'
    BY <1>1, <1>3, <2>1, <2>2 DEF LanesFollowSchedule, DeadThreadsReport, Running
  <2>5. Running => HeldTickets' = HeldTickets
    <3>1. CASE l = "detail"
      BY <1>1, <1>3, <2>1, <2>2, <3>1, LaneTypes DEF HeldTickets
    <3>2. CASE l = "sample"
      BY <1>3, <2>1, <2>2, <3>2, LaneTypes DEF HeldTickets
    <3>. QED BY <3>1, <3>2 DEF Lanes
  <2>. QED BY <1>2, <2>3, <2>4, <2>5
<1>6. ASSUME NEW result \in Results(l) \cup {"panic"}, Complete(l, result) PROVE IInv'
  <2>1. /\ job[l] # None /\ UNCHANGED queue /\ job' = [job EXCEPT ![l] = None]
        /\ alive' = [alive EXCEPT ![l] = ~stopped /\ result # "panic"]
        /\ responses' = IF stopped THEN responses
             ELSE Append(responses, [lane |-> l, request |-> job[l], result |-> result])
    BY <1>6 DEF Complete, StopSeen
  <2>2. /\ job'[l] = None /\ \A k \in Lanes \ {l} : job'[k] = job[k]
        /\ \A k \in Lanes \ {l} : alive'[k] = alive[k]
        /\ alive'[l] = (~stopped /\ result # "panic")
    BY <1>types, <2>1
  <2>3. Answered(l) = {} /\ queue[l] = None
    BY <2>1 DEF OneRequestPerLane
  <2>4. CASE stopped
    <3>1. OneRequestPerLane'
      BY <1>1, <1>3, <1>4, <2>1, <2>2, <2>3, <2>4 DEF OneRequestPerLane, Running
    <3>2. DeadThreadsReport'
      BY <1>1, <2>4 DEF LanesFollowSchedule, DeadThreadsReport, Running
    <3>. QED BY <1>1, <1>2, <2>4, <3>1, <3>2
  <2>5. CASE ~stopped
    <3>1. responses' = Append(responses, [lane |-> l, request |-> job[l], result |-> result])
      BY <2>1, <2>5
    <3>2. /\ Answered(l)' = {Len(responses) + 1}
          /\ \A k \in Lanes \ {l} : Answered(k)' = Answered(k)
          /\ \A k \in Lanes : \A i \in Answered(k) : responses'[i] = responses[i]
          /\ responses'[Len(responses) + 1].request = job[l]
          /\ responses'[Len(responses) + 1].result = result
      BY <2>3, <3>1, AfterAnswer
    <3>3. OneRequestPerLane'
      BY <1>1, <1>4, <2>1, <2>2, <2>3, <3>2 DEF OneRequestPerLane, Running
    <3>4. DeadThreadsReport'
      <4>1. ASSUME Running, NEW k \in Lanes
            PROVE  alive'[k] \/ \E i \in Answered(k)' : responses'[i].result = "panic"
        <5>1. CASE k = l
          BY <5>1, <2>2, <2>5, <3>2
        <5>2. CASE k # l
          BY <5>2, <4>1, <2>2, <3>2 DEF LanesFollowSchedule, DeadThreadsReport
        <5>. QED BY <5>1, <5>2
      <4>. QED BY <1>1, <2>5, <4>1 DEF DeadThreadsReport, Running
    <3>5. HeldTickets' = HeldTickets
      <4>1. CASE l = "detail"
        <5>1. HeldTickets = {job["detail"]}
          BY <2>1, <2>3, <4>1 DEF HeldTickets
        <5>2. HeldTickets' = {job["detail"]}
          BY <2>1, <2>2, <2>3, <3>2, <4>1 DEF HeldTickets
        <5>. QED BY <5>1, <5>2
      <4>2. CASE l = "sample"
        <5>1. /\ Answered("detail")' = Answered("detail")
              /\ \A i \in Answered("detail") : responses'[i] = responses[i]
          BY <3>2, <4>2, LaneTypes
        <5>2. {responses'[i].request : i \in Answered("detail")'}
                = {responses[i].request : i \in Answered("detail")}
          BY <5>1
        <5>3. queue'["detail"] = queue["detail"] /\ job'["detail"] = job["detail"]
          BY <2>1, <2>2, <4>2, LaneTypes
        <5>. QED BY <5>2, <5>3 DEF HeldTickets
      <4>. QED BY <4>1, <4>2 DEF Lanes
    <3>. QED BY <1>2, <3>3, <3>4, <3>5
  <2>. QED BY <2>4, <2>5
<1>7. CASE Disconnect(l)
  <2>1. stopped /\ UNCHANGED <<queue, job, responses>>
    BY <1>7 DEF Disconnect
  <2>2. OneRequestPerLane'
    BY <1>1, <1>3, <1>4, <2>1 DEF OneRequestPerLane, Running
  <2>3. DeadThreadsReport'
    BY <1>1, <2>1 DEF LanesFollowSchedule, DeadThreadsReport, Running
  <2>. QED BY <1>1, <1>2, <2>1, <2>2, <2>3
<1>. QED BY <1>1, <1>5, <1>6, <1>7 DEF WorkerStep

(* The invariant of the loop and its lanes, for any number of pages, key     *)
(* presses, panics and stale results.                                        *)
THEOREM Safety == SafetySpec => []IInv
<1>1. Init /\ TypeOK => IInv
  <2>. SUFFICES ASSUME Init, TypeOK PROVE IInv
    OBVIOUS
  <2>1. /\ \A l \in Lanes : queue[l] = None /\ job[l] = None /\ alive[l]
        /\ responses = <<>> /\ stopped = FALSE
    BY DEF Init, WorkersInit
  <2>2. \A l \in Lanes : Answered(l) = {}
    BY <2>1 DEF Answered
  <2>3. \A l \in Lanes : ~InFlight(l)
    BY DEF Init, InFlight, NewSchedule
  <2>4. HeldTickets = {}
    BY <2>1, <2>2, LaneTypes DEF HeldTickets
  <2>. QED BY <2>1, <2>2, <2>3, <2>4
           DEF Init, IInv, OneRequestPerLane, SendsSucceed, LoadingIsTrue,
               LanesFollowSchedule, DeadThreadsReport, ScheduleKnowsPage, HeldTicketsAge
<1>2. IInv /\ TypeOK' /\ [Next]_vars => IInv'
  <2>. SUFFICES ASSUME IInv, TypeOK', [Next]_vars PROVE IInv'
    OBVIOUS
  <2>1. CASE LoopStep
    <3>1. CASE Draw \/ TimeOut
      BY <3>1, PageUnchanged
         DEF Draw, TimeOut, uiVars, loopVars, IInv, SendsSucceed, Running
    <3>. QED BY <2>1, <3>1, UpdateScheduleSafe, RequestDetailSafe, RequestSampleSafe,
                ReceiveSampleSafe, ReceiveDetailSafe, EndSafe DEF LoopStep
  <2>2. CASE User
    BY <2>2, UserSafe
  <2>3. CASE TerminalFails
    BY <2>3, PageUnchanged DEF TerminalFails, Fail, uiVars, loopVars, Running
  <2>4. CASE Tick
    <3>1. UNCHANGED <<sched.mode, sched.generation, sched.active, sched.inFlight>>
      BY <2>4 DEF Tick, IInv, TypeOK, Schedules
    <3>. QED BY <2>4, <3>1, PageUnchanged DEF Tick, uiVars, IInv, SendsSucceed, Running
  <2>5. ASSUME NEW l \in Lanes, Worker(l) PROVE IInv'
    BY <2>5, WorkerSafe
  <2>6. CASE UNCHANGED vars
    <3>. USE <2>6 DEF vars, workerVars, uiVars, loopVars
    <3>1. OneRequestPerLane'
      BY DEF IInv, OneRequestPerLane, Answered, InFlight, Running
    <3>2. HeldTickets' = HeldTickets
      BY DEF HeldTickets, Answered
    <3>3. LoadingIsTrue' /\ SendsSucceed'
      BY <3>2 DEF IInv, LoadingIsTrue, SendsSucceed, Running
    <3>4. DeadThreadsReport'
      BY DEF IInv, LanesFollowSchedule, DeadThreadsReport, Running, Answered
    <3>5. ScheduleKnowsPage'
      BY DEF IInv, LanesFollowSchedule, ScheduleKnowsPage, Running, Wanted
    <3>6. HeldTicketsAge'
      BY <3>2 DEF IInv, LanesFollowSchedule, HeldTicketsAge, Running, Wanted, Changes, Ticket
    <3>. QED BY <3>1, <3>3, <3>4, <3>5, <3>6 DEF IInv, LanesFollowSchedule
  <2>. QED BY <2>1, <2>2, <2>3, <2>4, <2>5, <2>6 DEF Next, Ended
<1>. QED BY <1>1, <1>2, TypeCorrect, PTL DEF SafetySpec

(* No request is doubled and no answer lost, on either lane. *)
THEOREM SingleFlightLanes == SafetySpec => []OneRequestPerLane
BY Safety, PTL DEF IInv

(* No run of the program ends because a lane could not take a request. *)
THEOREM NeverUnavailable == SafetySpec => []SendsSucceed
BY Safety, PTL DEF IInv

(* The loading line is shown exactly while a network job is in the lane. *)
THEOREM LoadingCorrect == SafetySpec => []LoadingIsTrue
BY Safety, PTL DEF IInv

(* A detail result is applied only on the page it was asked for, and only if *)
(* nothing has superseded the request since.                                 *)
THEOREM FreshDetail == SafetySpec => NoStaleDetail
<1>1. IInv /\ [Next]_vars =>
        (cache' # cache \/ error' \notin {error, None} =>
           ~superseded /\ Head(responses).request.mode = mode)
  <2>. SUFFICES ASSUME IInv, [Next]_vars,
                       cache' # cache \/ error' \notin {error, None}
                PROVE  ~superseded /\ Head(responses).request.mode = mode
    OBVIOUS
  <2>1. ReceiveDetail
    <3>. USE DEF uiVars, loopVars, vars
    <3>1. ~User
      BY DEF User, SwitchPage, SetInterval, TogglePause, ToggleFlows, RefreshNow,
             RunAction, Repaint, IgnoredEvent, Quit
    <3>2. ~TerminalFails /\ ~Tick /\ ~Ended /\ ~UNCHANGED vars
      BY DEF TerminalFails, Tick, Ended
    <3>3. \A l \in Lanes : ~Worker(l)
      BY DEF Worker
    <3>4. ~UpdateSchedule /\ ~RequestDetail /\ ~RequestSample /\ ~ReceiveSample
          /\ ~ReceivePanic /\ ~Draw /\ ~TimeOut /\ ~Leave
      BY DEF UpdateSchedule, RequestDetail, RequestSample, ReceiveSample, ReceivePanic,
             Draw, TimeOut, Leave
    <3>. QED BY <3>1, <3>2, <3>3, <3>4 DEF Next, LoopStep
  <2>2. LET t == Head(responses).request IN
        Usable(sched, t) /\ t \in HeldTickets
    <3>1. Usable(sched, Head(responses).request)
      BY <2>1 DEF ReceiveDetail
    <3>2. Received("detail")
      BY <2>1 DEF ReceiveDetail
    <3>3. 1 \in Answered("detail") /\ responses[1] = Head(responses)
      BY <3>2, LaneTypes, AfterReceive, HeadResponse
         DEF Received, IInv, TypeOK, WorkersTypeOK
    <3>. QED BY <3>1, <3>3 DEF HeldTickets
  <2>3. pc = "drain" /\ Running
    BY <2>1 DEF ReceiveDetail, Received, Running
  <2>4. sched.active /\ Head(responses).request = Ticket(sched)
    BY <2>2 DEF Usable, Accepts
  <2>5. ~superseded
    <3>1. Ticket(sched).generation = sched.generation /\ sched.generation \in Nat
      BY DEF Ticket, IInv, TypeOK, Schedules
    <3>2. superseded => Ticket(sched).generation < sched.generation
      BY <2>2, <2>3, <2>4 DEF IInv, LanesFollowSchedule, HeldTicketsAge
    <3>. QED BY <3>1, <3>2
  <2>6. Ticket(sched).mode = mode
    BY <2>3, <2>4 DEF IInv, LanesFollowSchedule, ScheduleKnowsPage, Ticket
  <2>. QED BY <2>4, <2>5, <2>6
<1>. QED BY <1>1, Safety, PTL DEF SafetySpec, NoStaleDetail

-------------------------------------------------------------------------------
(* Pause and time *)

(* Whatever was in flight when the user paused, the sample and the flow      *)
(* table on display stay as they are.                                        *)
THEOREM PauseCorrect == SafetySpec => PauseFreezes
<1>1. TypeOK /\ [Next]_vars =>
        (paused => snapshot' = snapshot /\ cache'["flows"] = cache["flows"])
  <2>. SUFFICES ASSUME TypeOK, [Next]_vars, paused
                PROVE  snapshot' = snapshot /\ cache'["flows"] = cache["flows"]
    OBVIOUS
  <2>. USE DEF uiVars, loopVars, vars
  <2>1. CASE ReceiveSample
    BY <2>1 DEF ReceiveSample, Shows
  <2>2. CASE ReceiveDetail
    <3>1. ASSUME NEW kind \in Kinds, kind # "flows", NEW t
          PROVE  [cache EXCEPT ![kind] = t]["flows"] = cache["flows"]
      BY <3>1 DEF TypeOK, Kinds
    <3>2. \A page : KindOf(page) \in Kinds
      BY DEF KindOf, Kinds
    <3>. QED BY <2>2, <3>1, <3>2 DEF ReceiveDetail, ApplyDetail
  <2>3. CASE User
    BY <2>3 DEF User, SwitchPage, SetInterval, TogglePause, ToggleFlows, RefreshNow,
                RunAction, Repaint, IgnoredEvent, Quit
  <2>4. CASE LoopStep /\ ~ReceiveSample /\ ~ReceiveDetail
    BY <2>4 DEF LoopStep, UpdateSchedule, RequestDetail, RequestSample, ReceivePanic,
                Draw, TimeOut, Leave
  <2>5. CASE TerminalFails \/ Tick \/ Ended \/ UNCHANGED vars
    BY <2>5 DEF TerminalFails, Tick, Ended
  <2>6. ASSUME NEW l \in Lanes, Worker(l) PROVE UNCHANGED uiVars
    BY <2>6 DEF Worker
  <2>. QED BY <2>1, <2>2, <2>3, <2>4, <2>5, <2>6 DEF Next
<1>. QED BY <1>1, TypeCorrect, PTL DEF SafetySpec, PauseFreezes

(* NeverOversleeps is inductive together with: the next sample is no further *)
(* away than the interval in use, which is the configured one past the top   *)
(* of the loop, and only an idle network page has a cooldown.                *)
Paced ==
  /\ nextSample <= refresh
  /\ Running /\ pc # "update" => refresh = interval
  /\ sched.next > 0 => sched.mode = "Network" /\ ~sched.inFlight
  /\ NeverOversleeps

(* The poll that follows a drawing ends in time. *)
LEMMA DrawPaced == ASSUME IInv, Paced, Draw PROVE NeverOversleeps'
<1>. USE DEF uiVars, loopVars
<1>1. /\ UNCHANGED <<sched, sampleInFlight, paused, nextSample, interval>>
      /\ pc = "drain" /\ Running
      /\ pc' = "poll" => timeout' = PollTimeout /\ ~Due(sched)
  BY DEF Draw, Running
<1>2. /\ nextSample \in Nat /\ sched.next \in Nat /\ BusyPoll \in Nat
      /\ sched.inFlight \in BOOLEAN /\ sampleInFlight \in BOOLEAN
      /\ interval \in Nat
  BY RunLoopAssumption DEF IInv, TypeOK, Schedules
<1>3. nextSample <= interval
  BY <1>1 DEF Paced
<1>4. ASSUME pc' = "poll", paused PROVE ~Missing(sched)
  <2>1. ASSUME Missing(sched) PROVE FALSE
    <3>1. sched.next > 0 /\ sched.active
      BY <1>1, <1>2, <1>4, <2>1 DEF Due, Missing
    <3>2. sched.mode = "Network" /\ sched.active = Wanted(mode, paused, flows) /\ sched.mode = mode
      BY <1>1, <3>1 DEF Paced, IInv, LanesFollowSchedule, ScheduleKnowsPage
    <3>. QED BY <1>4, <3>1, <3>2 DEF Wanted
  <2>. QED BY <2>1
<1>5. ASSUME pc' = "poll", ~sampleInFlight, ~sched.inFlight
      PROVE  /\ Missing(sched) => timeout' <= sched.next
             /\ ~paused => timeout' <= nextSample
  BY <1>1, <1>2, <1>4, <1>5 DEF PollTimeout, Deadline
<1>6. ASSUME pc' = "poll", sampleInFlight \/ sched.inFlight PROVE timeout' <= BusyPoll
  BY <1>1, <1>2, <1>6 DEF PollTimeout
<1>7. Missing(sched)' = Missing(sched)
  BY <1>1 DEF Missing, Ticket
<1>. QED BY <1>1, <1>3, <1>5, <1>6, <1>7 DEF NeverOversleeps

LEMMA TickPaced == ASSUME IInv, Paced, Tick PROVE Paced'
<1>. USE DEF uiVars
<1>1. /\ UNCHANGED <<pc, paused, refresh, interval, sampleInFlight>>
      /\ nextSample' = Less(nextSample) /\ timeout' = Less(timeout)
      /\ sched' = [sched EXCEPT !.next = Less(@)]
  BY DEF Tick
<1>2. /\ sched.next \in Nat /\ nextSample \in Nat /\ timeout \in Nat /\ BusyPoll \in Nat
      /\ refresh \in Nat /\ interval \in Nat
  BY RunLoopAssumption DEF IInv, TypeOK, Schedules
<1>3. /\ sched'.next = Less(sched.next)
      /\ UNCHANGED <<sched.mode, sched.generation, sched.active, sched.loaded, sched.inFlight>>
  BY <1>1 DEF IInv, TypeOK, Schedules
<1>4. Missing(sched)' = Missing(sched)
  BY <1>3 DEF Missing, Ticket
<1>5. \A a, b \in Nat : a <= b => Less(a) <= Less(b) /\ Less(a) <= b
  BY DEF Less
<1>6. nextSample' <= refresh'
  BY <1>1, <1>2, <1>5 DEF Paced
<1>7. sched'.next > 0 => sched.next > 0
  BY <1>2, <1>3 DEF Less
<1>8. NeverOversleeps'
  BY <1>1, <1>2, <1>3, <1>4, <1>5 DEF Paced, NeverOversleeps
<1>. QED BY <1>1, <1>3, <1>6, <1>7, <1>8 DEF Paced, Running

LEMMA StepPaced == ASSUME IInv, Paced, [Next]_vars PROVE Paced'
<1>. USE DEF uiVars, loopVars, vars
<1>1. /\ nextSample \in Nat /\ refresh \in Nat /\ interval \in Nat /\ sched \in Schedules
      /\ Intervals \subseteq Nat
  BY RunLoopAssumption DEF IInv, TypeOK
<1>2. \A m, p, f, force :
        LET u == Update(sched, m, p, f, force)
        IN  u.next > 0 => u.mode = "Network" /\ ~u.inFlight
  BY <1>1 DEF Update, Paced, Schedules
<1>3. CASE UpdateSchedule
  <2>1. nextSample' <= refresh'
    BY <1>1, <1>3 DEF UpdateSchedule, Rescheduled, Smaller, Paced
  <2>. QED BY <1>2, <1>3, <2>1 DEF UpdateSchedule, Paced, NeverOversleeps
<1>4. CASE RequestDetail
  <2>1. Due(sched) => ~(Start(sched).next > 0)
    BY <1>1 DEF Due, Start, Schedules
  <2>. QED BY <1>4, <2>1 DEF RequestDetail, Fail, Paced, NeverOversleeps, Running
<1>5. CASE RequestSample
  BY <1>1, <1>5 DEF RequestSample, Fail, Paced, NeverOversleeps, Running
<1>6. CASE ReceiveSample
  BY <1>6 DEF ReceiveSample, Received, Paced, NeverOversleeps, Running
<1>7. CASE ReceiveDetail
  <2>1. LET s == Finish(sched, Head(responses).request)
        IN  s.next > 0 => s.mode = "Network" /\ ~s.inFlight
    BY <1>1 DEF Finish, Usable, Accepts, Ticket, Paced, Schedules
  <2>. QED BY <1>7, <2>1 DEF ReceiveDetail, Received, Paced, NeverOversleeps, Running
<1>8. CASE ReceivePanic \/ Leave \/ TerminalFails \/ Quit
  BY <1>8 DEF ReceivePanic, Leave, TerminalFails, Quit, Fail, Received, Paced,
              NeverOversleeps, Running
<1>9. CASE Draw
  BY <1>9, DrawPaced DEF Draw, Paced, Running
<1>10. CASE TimeOut
  BY <1>10 DEF TimeOut, Paced, NeverOversleeps, Running
<1>11. CASE User /\ ~Quit
  <2>1. pc' = "update" /\ nextSample' \in {nextSample, 0} /\ refresh' = refresh
    BY <1>11 DEF User, SwitchPage, SetInterval, TogglePause, ToggleFlows, RefreshNow,
                 RunAction, Repaint, IgnoredEvent, Key, Event
  <2>2. sched' = sched \/ sched' = Update(sched, mode, paused, flows, TRUE)
    BY <1>11 DEF User, SwitchPage, SetInterval, TogglePause, ToggleFlows, RefreshNow,
                 RunAction, Repaint, IgnoredEvent
  <2>3. sched'.next > 0 => sched'.mode = "Network" /\ ~sched'.inFlight
    <3>1. CASE sched' = sched
      BY <3>1 DEF Paced
    <3>2. CASE sched' = Update(sched, mode, paused, flows, TRUE)
      <4>. DEFINE u == Update(sched, mode, paused, flows, TRUE)
      <4>1. u.next > 0 => u.mode = "Network" /\ ~u.inFlight
        BY <1>2
      <4>. HIDE DEF u
      <4>. QED BY <3>2, <4>1 DEF u
    <3>. QED BY <2>2, <3>1, <3>2
  <2>. QED BY <1>1, <2>1, <2>3 DEF Paced, NeverOversleeps
<1>12. CASE Tick
  BY <1>12, TickPaced
<1>13. ASSUME NEW l \in Lanes, Worker(l) PROVE Paced'
  BY <1>13 DEF Worker, Paced, NeverOversleeps, Running, Missing, Ticket
<1>14. CASE Ended \/ UNCHANGED vars
  BY <1>14 DEF Ended, Paced, NeverOversleeps, Running, Missing, Ticket
<1>. QED BY <1>3, <1>4, <1>5, <1>6, <1>7, <1>8, <1>9, <1>10, <1>11, <1>12, <1>13, <1>14
         DEF Next, LoopStep

(* For any pages and times, the loop wakes up before its next job is due and *)
(* soon enough for an answer on its way.                                     *)
THEOREM PollCorrect == SafetySpec => []NeverOversleeps
<1>1. Init /\ TypeOK => Paced
  BY RunLoopAssumption DEF Init, TypeOK, Paced, NeverOversleeps, NewSchedule
<1>2. IInv /\ Paced /\ [Next]_vars => Paced'
  BY StepPaced
<1>3. Paced => NeverOversleeps
  BY DEF Paced
<1>. QED BY <1>1, <1>2, <1>3, TypeCorrect, Safety, PTL DEF SafetySpec

-------------------------------------------------------------------------------
(* The screen *)

(* A ticket the schedule remembers is its current one, and if its job is     *)
(* still in the lane, nothing else is.                                       *)
LoadedIsHeld ==
  /\ sched.loaded \in {None, Ticket(sched)}
  /\ Running /\ sched.inFlight /\ sched.loaded # None => HeldTickets \subseteq {Ticket(sched)}

(* The screen is old only while the gate is open, or about to be opened by   *)
(* the request of the page's detail: the answer of a superseded flow job     *)
(* ends the loading line without a redraw.                                   *)
Redrawn ==
  /\ Running => \/ redraw \/ screen = View
                \/ pc \in {"update", "detail", "drain"} /\ Due(sched)
  /\ pc = "poll" => ~redraw

(* An error is one of the page the schedule knows, never of the GPU page,    *)
(* which may fall back to another one unnoticed.                             *)
ErrorOfSchedule == Running => error = None \/ (error = sched.mode /\ error # "Gpu")

ScreenInv == LoadedIsHeld /\ Redrawn /\ ErrorOfSchedule

(* A step of the channel or of a thread asks nothing new of the detail lane. *)
LEMMA HeldAfterHead ==
  ASSUME TypeOK, NEW l \in Lanes, Received(l), UNCHANGED <<queue, job>>
  PROVE  HeldTickets' \subseteq HeldTickets
<1>1. \A i \in Answered("detail")' :
        i + 1 \in Answered("detail") /\ responses'[i] = responses[i + 1]
  BY AfterReceive, LaneTypes DEF Received
<1>. QED BY <1>1 DEF HeldTickets

(* Nor of either lane does a thread: it moves the request it holds. *)
Held(k) == ({queue[k], job[k]} \ {None}) \cup {responses[i].request : i \in Answered(k)}

LEMMA HeldByWorker ==
  ASSUME TypeOK, NEW l \in Lanes, WorkerStep(l), NEW k \in Lanes
  PROVE  Held(k)' \subseteq Held(k)
<1>types. /\ queue \in [Lanes -> Tickets \cup {SampleRequest, None}]
          /\ job \in [Lanes -> Tickets \cup {SampleRequest, None}]
  BY DEF TypeOK, WorkersTypeOK
<1>1. CASE Take(l)
  <2>1. /\ UNCHANGED responses /\ queue[k]' \in {queue[k], None}
        /\ job[k]' \in {job[k], queue[k]}
    BY <1>types, <1>1 DEF Take
  <2>2. Answered(k)' = Answered(k)
    BY <2>1 DEF Answered
  <2>. QED BY <2>1, <2>2 DEF Held
<1>2. ASSUME NEW result, Complete(l, result) PROVE Held(k)' \subseteq Held(k)
  <2>1. UNCHANGED queue /\ job[k]' \in {job[k], None}
    BY <1>types, <1>2 DEF Complete
  <2>2. CASE UNCHANGED responses
    <3>1. Answered(k)' = Answered(k)
      BY <2>2 DEF Answered
    <3>. QED BY <2>1, <2>2, <3>1 DEF Held
  <2>3. CASE responses' = Append(responses, [lane |-> l, request |-> job[l], result |-> result])
    <3>1. ASSUME NEW i \in Answered(k)'
          PROVE  responses'[i].request \in Held(k)
      <4>1. CASE i \in Answered(k)
        <5>1. responses'[i] = responses[i]
          BY <2>3, <4>1, AfterAnswer
        <5>. QED BY <4>1, <5>1 DEF Held
      <4>2. CASE i \notin Answered(k)
        <5>1. l = k /\ i = Len(responses) + 1
          BY <2>3, <3>1, <4>2, AfterAnswer
        <5>2. responses'[i].request = job[k]
          BY <2>3, <5>1, AfterAnswer
        <5>. QED BY <1>2, <5>1, <5>2 DEF Complete, Held
      <4>. QED BY <4>1, <4>2
    <3>. QED BY <2>1, <3>1 DEF Held
  <2>. QED BY <1>2, <2>2, <2>3 DEF Complete
<1>3. CASE Disconnect(l)
  BY <1>3 DEF Disconnect, Held, Answered
<1>. QED BY <1>1, <1>2, <1>3 DEF WorkerStep

(* A step that leaves the display and the schedule alone and stays clear of  *)
(* the poll keeps the screen as it should be.                                *)
LEMMA DisplayUnchanged ==
  ASSUME Running' => Running, UNCHANGED uiVars, UNCHANGED <<sched, screen>>,
         redraw' = redraw \/ redraw' = TRUE, HeldTickets' \subseteq HeldTickets,
         \/ pc' = pc
         \/ pc = "poll" /\ pc' = "update"
         \/ pc = "sample" /\ pc' \in {"drain", "exiting"},
         pc' = "poll" => redraw' = redraw,
         ScreenInv
  PROVE  ScreenInv'
<1>1. View' = View /\ Ticket(sched)' = Ticket(sched) /\ Due(sched)' = Due(sched)
  BY DEF uiVars, View, FlowStatus, Ticket, Due, Missing
<1>. QED BY <1>1 DEF uiVars, ScreenInv, LoadedIsHeld, Redrawn, ErrorOfSchedule, Running

LEMMA UpdateScreen ==
  ASSUME IInv, TypeOK', ScreenInv, UpdateSchedule PROVE ScreenInv'
<1>. DEFINE u == Update(sched, mode, paused, flows, FALSE)
<1>1. /\ UNCHANGED workerVars /\ sched' = u /\ pc = "update" /\ pc' = "detail"
      /\ UNCHANGED <<mode, paused, flows, snapshot, cache, loading, screen>>
  BY DEF UpdateSchedule
<1>2. HeldTickets' = HeldTickets
  BY <1>1, LaneTypes DEF workerVars, HeldTickets, Answered
<1>3. CASE Changes(sched, mode, paused, flows, FALSE)
  <2>1. u.loaded = None /\ error' = None /\ redraw' = TRUE
    BY <1>3 DEF Update, UpdateSchedule, IInv, TypeOK, Schedules
  <2>. QED BY <1>1, <2>1 DEF ScreenInv, LoadedIsHeld, Redrawn, ErrorOfSchedule
<1>4. CASE ~Changes(sched, mode, paused, flows, FALSE)
  <2>1. UNCHANGED <<sched, error, redraw>>
    BY <1>1, <1>4 DEF Update, UpdateSchedule
  <2>2. View' = View /\ Ticket(sched)' = Ticket(sched) /\ Due(sched)' = Due(sched)
    BY <1>1, <2>1 DEF View, FlowStatus, Ticket, Due, Missing
  <2>. QED BY <1>1, <1>2, <2>1, <2>2
           DEF ScreenInv, LoadedIsHeld, Redrawn, ErrorOfSchedule, Running
<1>. QED BY <1>3, <1>4

LEMMA RequestScreen ==
  ASSUME IInv, TypeOK', ScreenInv, RequestDetail PROVE ScreenInv'
<1>1. /\ pc = "detail" /\ Running
      /\ UNCHANGED <<job, responses, mode, paused, flows, snapshot, cache, error, screen>>
  BY DEF RequestDetail, Running
<1>2. CASE ~Due(sched)
  <2>1. pc' = "sample" /\ UNCHANGED <<queue, loading, sched, redraw>>
    BY <1>2 DEF RequestDetail
  <2>2. View' = View /\ Ticket(sched)' = Ticket(sched) /\ HeldTickets' = HeldTickets
    BY <1>1, <2>1 DEF View, FlowStatus, Ticket, HeldTickets, Answered
  <2>. QED BY <1>1, <1>2, <2>1, <2>2
           DEF ScreenInv, LoadedIsHeld, Redrawn, ErrorOfSchedule, Running
<1>3. CASE Due(sched)
  <2>1. /\ sched' = Start(sched) /\ pc' \in {"sample", "exiting"}
        /\ pc' = "sample" => Send("detail", Ticket(sched)) /\ redraw' = TRUE
    BY <1>3 DEF RequestDetail, Fail
  <2>2. /\ sched'.mode = sched.mode /\ Ticket(sched)' = Ticket(sched)
        /\ sched'.loaded = Ticket(sched)
    BY <2>1 DEF Start, Ticket, IInv, TypeOK, Schedules
  <2>3. pc' = "sample" => HeldTickets' \subseteq {Ticket(sched)}
    <3>1. job["detail"] = None /\ Answered("detail") = {}
      BY <1>1, <1>3, LaneTypes DEF Due, Missing, IInv, OneRequestPerLane, InFlight
    <3>2. Answered("detail")' = Answered("detail")
      BY <1>1 DEF Answered
    <3>3. pc' = "sample" => queue'["detail"] = Ticket(sched)
      BY <2>1, LaneTypes DEF Send, IInv, TypeOK, WorkersTypeOK
    <3>. QED BY <1>1, <3>1, <3>2, <3>3 DEF HeldTickets
  <2>. QED BY <1>1, <2>1, <2>2, <2>3
           DEF ScreenInv, LoadedIsHeld, Redrawn, ErrorOfSchedule, Running
<1>. QED BY <1>2, <1>3

LEMMA SampleScreen ==
  ASSUME IInv, TypeOK', ScreenInv, ReceiveSample PROVE ScreenInv'
<1>1. /\ Received("sample") /\ pc = "drain" /\ pc' = "drain"
      /\ UNCHANGED <<queue, job, paused, flows, cache, error, loading, sched, screen>>
      /\ redraw' = (redraw \/ Redraws(Head(responses).result))
      /\ UNCHANGED <<snapshot, mode>> \/ Shows(Head(responses).result)
  BY DEF ReceiveSample, Received
<1>2. redraw' \/ (redraw' = redraw /\ View' = View)
  <2>1. CASE Shows(Head(responses).result)
    BY <1>1, <2>1 DEF Redraws
  <2>2. CASE UNCHANGED <<snapshot, mode>>
    <3>1. View' = View
      BY <1>1, <2>2 DEF View, FlowStatus
    <3>2. redraw \in BOOLEAN /\ redraw' \in BOOLEAN
      BY DEF IInv, TypeOK
    <3>3. redraw => redraw'
      BY <1>1
    <3>. QED BY <3>1, <3>2, <3>3
  <2>. QED BY <1>1, <2>1, <2>2
<1>3. Ticket(sched)' = Ticket(sched) /\ Due(sched)' = Due(sched)
  BY <1>1 DEF Ticket, Due, Missing
<1>4. HeldTickets' \subseteq HeldTickets
  BY <1>1, HeldAfterHead, LaneTypes DEF IInv
<1>. QED BY <1>1, <1>2, <1>3, <1>4
         DEF ScreenInv, LoadedIsHeld, Redrawn, ErrorOfSchedule, Running

LEMMA DetailScreen ==
  ASSUME IInv, TypeOK', ScreenInv, Paced, ReceiveDetail PROVE ScreenInv'
<1>. DEFINE t == Head(responses).request
<1>1. /\ Received("detail") /\ pc = "drain" /\ pc' = "drain" /\ Running
      /\ UNCHANGED <<queue, job, mode, paused, flows, snapshot, screen>>
      /\ sched' = Finish(sched, t) /\ loading' = FALSE
  BY DEF ReceiveDetail, Received, Running
<1>2. sched.inFlight /\ t \in HeldTickets
  <2>1. 1 \in Answered("detail") /\ responses[1] = Head(responses)
    BY <1>1, LaneTypes, AfterReceive, HeadResponse DEF Received, IInv, TypeOK, WorkersTypeOK
  <2>. QED BY <1>1, <2>1, LaneTypes DEF HeldTickets, IInv, OneRequestPerLane, InFlight
<1>3. /\ sched'.mode = sched.mode /\ sched'.active = sched.active /\ ~sched'.inFlight
      /\ Ticket(sched)' = Ticket(sched) /\ sched'.loaded \in {None, sched.loaded}
      /\ ~Usable(sched, t) => sched'.next = sched.next
  BY <1>1 DEF Finish, Ticket, IInv, TypeOK, Schedules
<1>4. LoadedIsHeld'
  BY <1>3 DEF ScreenInv, LoadedIsHeld
<1>5. CASE Usable(sched, t)
  <2>1. redraw' = TRUE /\ error' \in {None, t.mode, error}
    BY <1>5 DEF ReceiveDetail, ApplyDetail
  <2>2. t.mode = sched.mode /\ sched.active
    BY <1>5 DEF Usable, Accepts, Ticket
  <2>3. sched.mode # "Gpu"
    BY <1>1, <2>2 DEF IInv, LanesFollowSchedule, ScheduleKnowsPage, Wanted
  <2>. QED BY <1>1, <1>3, <1>4, <2>1, <2>2, <2>3 DEF ScreenInv, Redrawn, ErrorOfSchedule
<1>6. CASE ~Usable(sched, t)
  <2>1. UNCHANGED <<cache, error, redraw>>
    BY <1>6 DEF ReceiveDetail
  <2>2. redraw \/ screen = View
    BY <1>1, <1>2 DEF ScreenInv, Redrawn, Due, Missing
  <2>3. ASSUME View' # View PROVE Due(sched)'
    <3>1. FlowStatus' # FlowStatus
      BY <1>1, <2>1, <2>3 DEF View
    <3>2. mode = "Network" /\ flows /\ ~paused
      BY <1>1, <2>1, <3>1 DEF FlowStatus
    <3>3. sched.active
      BY <1>1, <3>2 DEF IInv, LanesFollowSchedule, ScheduleKnowsPage, Wanted
    <3>4. t # Ticket(sched)
      BY <1>6, <3>3 DEF Usable, Accepts
    <3>5. sched.loaded = None
      BY <1>1, <1>2, <3>4 DEF ScreenInv, LoadedIsHeld
    <3>6. sched.next = 0
      BY <1>2 DEF Paced, IInv, TypeOK, Schedules
    <3>7. Ticket(sched) # None
      BY StartType, NoneAssumption DEF IInv, TypeOK
    <3>. QED BY <1>3, <1>6, <3>3, <3>5, <3>6, <3>7 DEF Due, Missing
  <2>. QED BY <1>1, <1>3, <1>4, <2>1, <2>2, <2>3 DEF ScreenInv, Redrawn, ErrorOfSchedule
<1>. QED BY <1>5, <1>6

LEMMA DrawScreen == ASSUME IInv, ScreenInv, Draw PROVE ScreenInv'
<1>1. /\ pc = "drain" /\ Running /\ UNCHANGED <<workerVars, uiVars, sched>>
      /\ redraw' = FALSE /\ screen' = IF redraw THEN View ELSE screen
      /\ pc' = IF Due(sched) THEN "update" ELSE "poll"
  BY DEF Draw, loopVars, Running
<1>2. View' = View /\ Ticket(sched)' = Ticket(sched) /\ Due(sched)' = Due(sched)
  BY <1>1 DEF uiVars, View, FlowStatus, Ticket, Due, Missing
<1>3. HeldTickets' = HeldTickets
  BY <1>1 DEF workerVars, HeldTickets, Answered
<1>. QED BY <1>1, <1>2, <1>3
         DEF uiVars, ScreenInv, LoadedIsHeld, Redrawn, ErrorOfSchedule, Running

LEMMA UserScreen == ASSUME IInv, TypeOK', ScreenInv, User PROVE ScreenInv'
<1>. USE DEF uiVars, loopVars
<1>1. /\ UNCHANGED workerVars /\ UNCHANGED <<screen, error>> /\ pc = "poll" /\ Running
      /\ pc' \in {"update", "exiting"}
      /\ redraw' = TRUE \/ (redraw' = redraw /\ UNCHANGED uiVars)
      /\ sched' = sched \/ sched' = Update(sched, mode, paused, flows, TRUE)
  BY DEF User, SwitchPage, SetInterval, TogglePause, ToggleFlows, RefreshNow, RunAction,
         Repaint, IgnoredEvent, Quit, Key, Event, Fail, Running
<1>2. HeldTickets' = HeldTickets
  BY <1>1 DEF workerVars, HeldTickets, Answered
<1>3. Redrawn'
  <2>1. UNCHANGED uiVars => View' = View
    BY DEF View, FlowStatus
  <2>. QED BY <1>1, <2>1 DEF ScreenInv, Redrawn
<1>4. CASE sched' = sched
  <2>1. Ticket(sched)' = Ticket(sched)
    BY <1>4 DEF Ticket
  <2>. QED BY <1>1, <1>2, <1>3, <1>4, <2>1 DEF ScreenInv, LoadedIsHeld, ErrorOfSchedule
<1>5. CASE sched' = Update(sched, mode, paused, flows, TRUE)
  <2>1. sched'.loaded = None /\ sched'.mode = mode
    BY <1>5 DEF Update, Changes, IInv, TypeOK, Schedules
  <2>2. error = None \/ (error = mode /\ error # "Gpu")
    BY <1>1 DEF ScreenInv, ErrorOfSchedule, IInv, LanesFollowSchedule, ScheduleKnowsPage
  <2>. QED BY <1>1, <1>3, <2>1, <2>2 DEF ScreenInv, LoadedIsHeld, ErrorOfSchedule
<1>. QED BY <1>1, <1>4, <1>5

LEMMA StepScreen == ASSUME IInv, TypeOK', Paced, ScreenInv, [Next]_vars PROVE ScreenInv'
<1>. USE DEF uiVars, loopVars, vars
<1>1. ASSUME UNCHANGED workerVars PROVE HeldTickets' \subseteq HeldTickets
  BY <1>1 DEF workerVars, HeldTickets, Answered
<1>2. CASE RequestSample
  <2>1. HeldTickets' \subseteq HeldTickets
    <3>1. queue'["detail"] = queue["detail"]
      BY <1>2, LaneTypes DEF RequestSample, Send, IInv, TypeOK, WorkersTypeOK
    <3>. QED BY <1>2, <3>1 DEF RequestSample, HeldTickets, Answered
  <2>2. UNCHANGED <<uiVars, sched, screen, redraw>> /\ pc = "sample" /\ pc' \in {"drain", "exiting"}
    BY <1>2 DEF RequestSample, Fail
  <2>. QED BY <2>1, <2>2, DisplayUnchanged DEF Running
<1>3. CASE ReceivePanic \/ Leave \/ TerminalFails
  <2>1. ~Running' /\ pc' # "poll" /\ UNCHANGED sched
    BY <1>3 DEF ReceivePanic, Leave, TerminalFails, Fail, Running
  <2>2. Ticket(sched)' = Ticket(sched)
    BY <2>1 DEF Ticket
  <2>. QED BY <2>1, <2>2 DEF ScreenInv, LoadedIsHeld, Redrawn, ErrorOfSchedule
<1>4. CASE TimeOut
  BY <1>1, <1>4, DisplayUnchanged DEF TimeOut, Running
<1>5. CASE Tick
  <2>1. /\ UNCHANGED <<pc, redraw, screen>> /\ UNCHANGED workerVars /\ UNCHANGED uiVars
        /\ UNCHANGED <<sched.mode, sched.generation, sched.active, sched.loaded, sched.inFlight>>
        /\ sched.next = 0 => sched'.next = 0
    BY <1>5 DEF Tick, Less, IInv, TypeOK, Schedules
  <2>2. View' = View /\ Ticket(sched)' = Ticket(sched) /\ (Due(sched) => Due(sched)')
    BY <2>1 DEF View, FlowStatus, Ticket, Due, Missing
  <2>. QED BY <1>1, <2>1, <2>2
           DEF ScreenInv, LoadedIsHeld, Redrawn, ErrorOfSchedule, Running
<1>6. ASSUME NEW l \in Lanes, Worker(l) PROVE ScreenInv'
  <2>1. HeldTickets' \subseteq HeldTickets
    BY <1>6, HeldByWorker, LaneTypes DEF Worker, IInv, Held, HeldTickets
  <2>. QED BY <1>6, <2>1, DisplayUnchanged DEF Worker, Running
<1>7. CASE Ended \/ UNCHANGED vars
  BY <1>1, <1>7, DisplayUnchanged DEF Ended, Running
<1>. QED BY <1>2, <1>3, <1>4, <1>5, <1>6, <1>7, UpdateScreen, RequestScreen, SampleScreen,
            DetailScreen, DrawScreen, UserScreen DEF Next, LoopStep

(* For any pages, snapshots and results: while the loop sleeps, the screen   *)
(* shows the state as it is, and an error only of the page on display.       *)
THEOREM ScreenCorrect == SafetySpec => []ScreenIsCurrent
<1>1. Init /\ TypeOK => Paced /\ ScreenInv
  BY RunLoopAssumption
     DEF Init, TypeOK, Paced, NeverOversleeps, NewSchedule, ScreenInv, LoadedIsHeld,
         Redrawn, ErrorOfSchedule
<1>2. IInv /\ TypeOK' /\ Paced /\ ScreenInv /\ [Next]_vars => Paced' /\ ScreenInv'
  BY StepPaced, StepScreen
<1>3. IInv /\ ScreenInv => ScreenIsCurrent
  <2>. SUFFICES ASSUME IInv, ScreenInv, pc = "poll" PROVE ScreenIsCurrent
    BY DEF ScreenIsCurrent
  <2>1. redraw = FALSE /\ screen = View
    BY DEF ScreenInv, Redrawn, Running, IInv, TypeOK
  <2>2. error \in {None, mode}
    BY DEF ScreenInv, ErrorOfSchedule, IInv, LanesFollowSchedule, ScheduleKnowsPage, Running
  <2>. QED BY <2>1, <2>2 DEF ScreenIsCurrent
<1>. QED BY <1>1, <1>2, <1>3, TypeCorrect, Safety, PTL DEF SafetySpec

-------------------------------------------------------------------------------
(* The freed lane *)

(* A page whose detail the schedule takes for loaded, or puts off for the    *)
(* cooldown, has something to show; and the loop goes to sleep only with     *)
(* such a page or a job in the lane.                                         *)
ServedInv ==
  /\ Running /\ sched.active /\ ~sched.inFlight /\ (sched.loaded # None \/ sched.next > 0)
       => Served
  /\ pc = "poll" /\ sched.active => sched.inFlight \/ Served

(* A step that leaves the page's data and the schedule alone and does not    *)
(* enter the poll.                                                           *)
LEMMA ServedUnchanged ==
  ASSUME UNCHANGED <<cache, error, sched>>, Running' => Running, pc' = "poll" => pc = "poll",
         ServedInv
  PROVE  ServedInv'
<1>1. Served' = Served
  BY DEF Served, Ticket
<1>. QED BY <1>1 DEF ServedInv

(* A new revision has nothing loaded and is due at once.                     *)
LEMMA ServedUpdate ==
  ASSUME IInv, NEW force \in BOOLEAN, sched' = Update(sched, mode, paused, flows, force),
         UNCHANGED cache, pc' # "poll", Running,
         error' = error \/ Changes(sched, mode, paused, flows, force), ServedInv
  PROVE  ServedInv'
<1>1. CASE Changes(sched, mode, paused, flows, force)
  <2>1. sched'.loaded = None /\ sched'.next = 0
    BY <1>1 DEF Update, IInv, TypeOK, Schedules
  <2>. QED BY <2>1 DEF ServedInv
<1>2. CASE ~Changes(sched, mode, paused, flows, force)
  BY <1>2, ServedUnchanged DEF Update
<1>. QED BY <1>1, <1>2

LEMMA ServedDetail ==
  ASSUME IInv, TypeOK', ScreenInv, Paced, ReceiveDetail PROVE ServedInv'
<1>. DEFINE t == Head(responses).request
<1>1. /\ Received("detail") /\ pc = "drain" /\ pc' = "drain" /\ Running
      /\ sched' = Finish(sched, t)
  BY DEF ReceiveDetail, Received, Running
<1>2. sched.inFlight /\ t \in HeldTickets
  <2>1. 1 \in Answered("detail") /\ responses[1] = Head(responses)
    BY <1>1, LaneTypes, AfterReceive, HeadResponse DEF Received, IInv, TypeOK, WorkersTypeOK
  <2>. QED BY <1>1, <2>1, LaneTypes DEF HeldTickets, IInv, OneRequestPerLane, InFlight
<1>3. /\ sched'.mode = sched.mode /\ sched'.active = sched.active
      /\ Ticket(sched)' = Ticket(sched)
      /\ ~Usable(sched, t) => sched'.next = sched.next /\ sched'.loaded = sched.loaded
  BY <1>1 DEF Finish, Ticket, IInv, TypeOK, Schedules
<1>4. CASE Usable(sched, t)
  <2>1. t = Ticket(sched) /\ t.mode = sched.mode /\ sched.active /\ sched.mode \in Modes
    BY <1>4 DEF Usable, Accepts, Ticket, IInv, TypeOK, Schedules
  <2>2. ~(KindOf(t.mode) = "flows" /\ paused)
    BY <1>1, <2>1 DEF KindOf, IInv, LanesFollowSchedule, ScheduleKnowsPage, Wanted
  <2>3. \/ error' = t.mode
        \/ cache' = [cache EXCEPT ![KindOf(t.mode)] = t]
    BY <1>4, <2>2 DEF ReceiveDetail, ApplyDetail
  <2>4. t.mode # None
    BY <2>1, NoneAssumption
  <2>5. KindOf(sched.mode) \in Kinds
    BY DEF KindOf, Kinds
  <2>6. cache'[KindOf(sched.mode)] = t \/ error' # None
    BY <2>1, <2>3, <2>4, <2>5 DEF IInv, TypeOK
  <2>7. Served'
    BY <1>3, <2>1, <2>6 DEF Served
  <2>. QED BY <1>1, <2>7 DEF ServedInv
<1>5. CASE ~Usable(sched, t)
  <2>1. sched.active => t # Ticket(sched)
    BY <1>5 DEF Usable, Accepts
  <2>2. sched.active => sched.loaded = None
    BY <1>1, <1>2, <2>1 DEF ScreenInv, LoadedIsHeld
  <2>3. sched.next = 0
    BY <1>2 DEF Paced, IInv, TypeOK, Schedules
  <2>. QED BY <1>1, <1>3, <1>5, <2>2, <2>3 DEF ServedInv
<1>. QED BY <1>4, <1>5

LEMMA ServedDraw == ASSUME IInv, ServedInv, ScreenInv, Draw PROVE ServedInv'
<1>1. /\ pc = "drain" /\ Running /\ UNCHANGED <<cache, error, sched>>
      /\ pc' = "poll" => ~Due(sched)
  BY DEF Draw, uiVars, loopVars, Running
<1>2. Served' = Served
  BY <1>1 DEF Served, Ticket
<1>3. ~Due(sched) /\ sched.active /\ ~sched.inFlight => sched.loaded # None \/ sched.next > 0
  <2>1. Ticket(sched) # None
    BY StartType, NoneAssumption DEF IInv, TypeOK
  <2>. QED BY <2>1 DEF Due, Missing, IInv, TypeOK, Schedules
<1>. QED BY <1>1, <1>2, <1>3 DEF ServedInv

LEMMA StepServed ==
  ASSUME IInv, TypeOK', Paced, ScreenInv, ServedInv, [Next]_vars PROVE ServedInv'
<1>. USE DEF uiVars, loopVars, vars
<1>1. CASE UpdateSchedule
  <2>1. /\ sched' = Update(sched, mode, paused, flows, FALSE) /\ UNCHANGED cache
        /\ pc = "update" /\ pc' = "detail"
        /\ error' = error \/ Changes(sched, mode, paused, flows, FALSE)
    BY <1>1 DEF UpdateSchedule
  <2>. QED BY <2>1, ServedUpdate DEF Running
<1>2. CASE RequestDetail
  <2>1. CASE ~Due(sched)
    BY <1>2, <2>1, ServedUnchanged DEF RequestDetail, Running
  <2>2. CASE Due(sched)
    <3>1. sched'.inFlight /\ pc' # "poll"
      BY <1>2, <2>2 DEF RequestDetail, Start, Fail, IInv, TypeOK, Schedules
    <3>. QED BY <3>1 DEF ServedInv
  <2>. QED BY <2>1, <2>2
<1>3. CASE RequestSample
  BY <1>3, ServedUnchanged DEF RequestSample, Fail, Running
<1>4. CASE ReceiveSample
  BY <1>4, ServedUnchanged DEF ReceiveSample, Received, Running
<1>5. CASE ReceivePanic \/ Leave \/ TerminalFails
  <2>1. ~Running' /\ pc' # "poll"
    BY <1>5 DEF ReceivePanic, Leave, TerminalFails, Fail, Running
  <2>. QED BY <2>1 DEF ServedInv
<1>6. CASE User
  <2>1. /\ UNCHANGED <<cache, error>> /\ pc = "poll" /\ pc' \in {"update", "exiting"}
        /\ sched' = sched \/ sched' = Update(sched, mode, paused, flows, TRUE)
    BY <1>6 DEF User, SwitchPage, SetInterval, TogglePause, ToggleFlows, RefreshNow, RunAction,
         Repaint, IgnoredEvent, Quit, Key, Event, Fail
  <2>2. CASE sched' = sched
    BY <2>1, <2>2, ServedUnchanged DEF Running
  <2>3. CASE sched' = Update(sched, mode, paused, flows, TRUE)
    BY <2>1, <2>3, ServedUpdate DEF Running
  <2>. QED BY <2>1, <2>2, <2>3
<1>7. CASE TimeOut
  BY <1>7, ServedUnchanged DEF TimeOut, Running
<1>8. CASE Tick
  <2>1. /\ UNCHANGED <<pc, cache, error>>
        /\ UNCHANGED <<sched.mode, sched.generation, sched.active, sched.loaded, sched.inFlight>>
        /\ sched'.next > 0 => sched.next > 0
    BY <1>8 DEF Tick, Less, IInv, TypeOK, Schedules
  <2>2. Served' = Served
    BY <2>1 DEF Served, Ticket
  <2>. QED BY <2>1, <2>2 DEF ServedInv, Running
<1>9. ASSUME NEW l \in Lanes, Worker(l) PROVE ServedInv'
  BY <1>9, ServedUnchanged DEF Worker, Running
<1>10. CASE Ended \/ UNCHANGED vars
  BY <1>10, ServedUnchanged DEF Ended, Running
<1>. QED BY <1>1, <1>2, <1>3, <1>4, <1>5, <1>6, <1>7, <1>8, <1>9, <1>10, ServedDetail,
            ServedDraw DEF Next, LoopStep

(* For any pages, times and orders of answers: the loop goes to sleep only   *)
(* with the detail lane at work or the page the user selected served.        *)
THEOREM FreedLaneCorrect == SafetySpec => []FreedLaneIsUsed
<1>1. Init /\ TypeOK => Paced /\ ScreenInv /\ ServedInv
  BY RunLoopAssumption
     DEF Init, TypeOK, Paced, NeverOversleeps, NewSchedule, ScreenInv, LoadedIsHeld,
         Redrawn, ErrorOfSchedule, ServedInv
<1>2. IInv /\ TypeOK' /\ Paced /\ ScreenInv /\ ServedInv /\ [Next]_vars
        => Paced' /\ ScreenInv' /\ ServedInv'
  BY StepPaced, StepScreen, StepServed
<1>3. IInv /\ ServedInv => FreedLaneIsUsed
  <2>. SUFFICES ASSUME IInv, ServedInv, pc = "poll", sched.mode # "Gpu",
                       Wanted(mode, paused, flows)
                PROVE  sched.inFlight \/ (sched.mode = mode /\ Served)
    BY DEF FreedLaneIsUsed
  <2>1. sched.mode = mode /\ sched.active
    BY DEF IInv, LanesFollowSchedule, ScheduleKnowsPage, Running
  <2>. QED BY <2>1 DEF ServedInv
<1>. QED BY <1>1, <1>2, <1>3, TypeCorrect, Safety, PTL DEF SafetySpec

-------------------------------------------------------------------------------
(* The single-flight lanes *)

(* A lane in flight holds one request, the one LaneService sees. *)
OneHeld ==
  \A l \in Lanes :
    /\ InFlight(l) => Held(l) = {RequestOf(l)}
    /\ ~InFlight(l) => Held(l) = {} /\ RequestOf(l) = None
    /\ Held(l) \subseteq Requests(l)

LEMMA RequestIsHeld == IInv /\ Running => OneHeld
<1>. SUFFICES ASSUME IInv, Running, NEW l \in Lanes
              PROVE  /\ InFlight(l) => Held(l) = {RequestOf(l)}
                     /\ ~InFlight(l) => Held(l) = {} /\ RequestOf(l) = None
                     /\ Held(l) \subseteq Requests(l)
  BY DEF OneHeld
<1>1. /\ queue[l] # None => job[l] = None /\ Answered(l) = {}
      /\ job[l] # None => Answered(l) = {}
      /\ \A i, j \in Answered(l) : i = j
      /\ InFlight(l) <=> queue[l] # None \/ job[l] # None \/ Answered(l) # {}
  BY DEF IInv, OneRequestPerLane
<1>2. \A i \in Answered(l) : (CHOOSE j \in Answered(l) : TRUE) = i
  BY <1>1
<1>3. InFlight(l) => Held(l) = {RequestOf(l)}
  <2>1. CASE queue[l] # None
    BY <1>1, <2>1 DEF Held, RequestOf
  <2>2. CASE queue[l] = None /\ job[l] # None
    BY <1>1, <2>2 DEF Held, RequestOf
  <2>3. ASSUME NEW i \in Answered(l) PROVE Held(l) = {RequestOf(l)}
    <3>1. Answered(l) = {i} /\ queue[l] = None /\ job[l] = None /\ InFlight(l)
      BY <1>1, <2>3
    <3>2. Held(l) = {responses[i].request}
      BY <3>1 DEF Held
    <3>3. RequestOf(l) = responses[i].request
      BY <1>2, <3>1 DEF RequestOf
    <3>. QED BY <3>2, <3>3
  <2>. QED BY <1>1, <2>1, <2>2, <2>3
<1>4. Held(l) \subseteq Requests(l)
  <2>1. {queue[l], job[l]} \subseteq Requests(l) \cup {None}
    BY DEF IInv, TypeOK, WorkersTypeOK
  <2>2. ASSUME NEW i \in Answered(l) PROVE responses[i].request \in Requests(l)
    <3>1. responses[i] \in Responses /\ responses[i].lane = l
      BY <2>2 DEF IInv, TypeOK, WorkersTypeOK, Answered
    <3>. QED BY <3>1 DEF Responses, Requests
  <2>. QED BY <2>1, <2>2 DEF Held
<1>5. ~InFlight(l) => Held(l) = {} /\ RequestOf(l) = None
  BY <1>1 DEF Held, RequestOf
<1>. QED BY <1>3, <1>4, <1>5

(* A step that gives a lane no new request leaves the one it serves. *)
LEMMA RequestKept ==
  ASSUME IInv, IInv', Running, Running', NEW l \in Lanes,
         InFlight(l)' = InFlight(l), Held(l)' \subseteq Held(l)
  PROVE  RequestOf(l)' = RequestOf(l)
<1>1. OneHeld /\ OneHeld'
  BY RequestIsHeld, PTL
<1>2. CASE InFlight(l)
  <2>1. Held(l)' = {RequestOf(l)'} /\ Held(l) = {RequestOf(l)}
    BY <1>1, <1>2 DEF OneHeld
  <2>. QED BY <2>1
<1>3. CASE ~InFlight(l)
  BY <1>1, <1>3 DEF OneHeld
<1>. QED BY <1>2, <1>3

(* What LaneService sees of a step of the loop and its threads. *)
Outstanding == [l \in Lanes |-> RequestOf(l)]

LEMMA LanesStutter ==
  ASSUME Running' = Running, \A l \in Lanes : RequestOf(l)' = RequestOf(l)
  PROVE  UNCHANGED <<Outstanding, Running>>
BY DEF Outstanding

LEMMA LanesClose ==
  ASSUME Running, ~Running' PROVE LaneService!Close
<1>1. \A l \in Lanes : RequestOf(l)' = None
  BY DEF RequestOf
<1>. QED BY <1>1 DEF LaneService!Close

(* One lane is asked, or answered, while the other keeps its request. *)
LEMMA LaneChanges ==
  ASSUME IInv, IInv', Running, Running', NEW l \in Lanes,
         \A k \in Lanes \ {l} : InFlight(k)' = InFlight(k) /\ Held(k)' \subseteq Held(k),
         InFlight(l)' = ~InFlight(l)
  PROVE  LaneService!Submit(l) \/ LaneService!Answer(l)
<1>held. OneHeld /\ OneHeld'
  BY RequestIsHeld, PTL
<1>1. Outstanding' = [Outstanding EXCEPT ![l] = RequestOf(l)']
  <2>1. \A k \in Lanes \ {l} : RequestOf(k)' = RequestOf(k)
    BY RequestKept
  <2>. QED BY <2>1 DEF Outstanding
<1>2. Running' = Running
  BY DEF Running
<1>3. CASE InFlight(l)
  <2>1. RequestOf(l)' = None
    BY <1>held, <1>3 DEF OneHeld
  <2>2. RequestOf(l) \in Requests(l)
    BY <1>held, <1>3 DEF OneHeld
  <2>3. RequestOf(l) # None
    BY <2>2, LaneTypes
  <2>. QED BY <1>1, <1>2, <2>1, <2>3 DEF LaneService!Answer, Outstanding
<1>4. CASE ~InFlight(l)
  <2>1. RequestOf(l) = None
    BY <1>held, <1>4 DEF OneHeld
  <2>2. RequestOf(l)' \in Requests(l)'
    BY <1>held, <1>4 DEF OneHeld
  <2>3. Requests(l)' = Requests(l)
    BY DEF Requests
  <2>. QED BY <1>1, <1>2, <2>1, <2>2, <2>3 DEF LaneService!Submit, Outstanding
<1>. QED BY <1>3, <1>4

(* Every step of the loop, the user, the clock and the threads is a step of  *)
(* LaneService or one it does not see.                                       *)
LEMMA LanesStep ==
  ASSUME IInv, IInv', [Next]_vars
  PROVE  LaneService!Next \/ UNCHANGED <<Outstanding, Running>>
<1>. USE DEF uiVars, loopVars
<1>kept. ASSUME Running, Running',
                \A l \in Lanes : InFlight(l)' = InFlight(l) /\ Held(l)' \subseteq Held(l)
         PROVE  UNCHANGED <<Outstanding, Running>>
  <2>1. Running' = Running
    BY <1>kept DEF Running
  <2>. QED BY <1>kept, <2>1, RequestKept, LanesStutter
<1>same. ASSUME Running, Running', UNCHANGED workerVars, UNCHANGED sampleInFlight,
                sched'.inFlight = sched.inFlight
         PROVE  UNCHANGED <<Outstanding, Running>>
  BY <1>kept, <1>same DEF workerVars, InFlight, Held, Answered
<1>lane. ASSUME Running, Running', NEW l \in Lanes,
                \A k \in Lanes \ {l} : InFlight(k)' = InFlight(k) /\ Held(k)' \subseteq Held(k),
                InFlight(l)' = ~InFlight(l)
         PROVE  LaneService!Next
  BY <1>lane, LaneChanges DEF LaneService!Next
<1>close. ASSUME Running, ~Running' PROVE LaneService!Next
  BY <1>close, LanesClose DEF LaneService!Next
<1>over. ASSUME ~Running, ~Running' PROVE UNCHANGED <<Outstanding, Running>>
  <2>1. Running' = Running
    BY <1>over DEF Running
  <2>2. \A l \in Lanes : RequestOf(l)' = RequestOf(l)
    BY <1>over DEF RequestOf
  <2>. QED BY <2>1, <2>2, LanesStutter
<1>1. CASE UpdateSchedule
  <2>1. sched'.inFlight = sched.inFlight
    BY <1>1 DEF UpdateSchedule, Update, IInv, TypeOK, Schedules
  <2>. QED BY <1>1, <1>same, <2>1 DEF UpdateSchedule, Running
<1>2. CASE RequestDetail
  <2>1. Running
    BY <1>2 DEF RequestDetail, Running
  <2>2. CASE ~Due(sched)
    BY <1>2, <1>same, <2>1, <2>2 DEF RequestDetail, workerVars, Running
  <2>3. CASE Due(sched) /\ ~CanSend("detail")
    BY <1>2, <1>close, <2>1, <2>3 DEF RequestDetail, Fail, Running
  <2>4. CASE Due(sched) /\ CanSend("detail")
    <3>1. /\ Send("detail", Ticket(sched)) /\ sched' = Start(sched) /\ Running'
          /\ UNCHANGED <<job, responses, sampleInFlight>>
      BY <1>2, <2>4 DEF RequestDetail, Running
    <3>2. InFlight("detail")' = ~InFlight("detail")
      BY <2>4, <3>1, LaneTypes DEF InFlight, Due, Missing, Start, IInv, TypeOK, Schedules
    <3>3. \A k \in Lanes \ {"detail"} :
            InFlight(k)' = InFlight(k) /\ Held(k)' \subseteq Held(k)
      BY <3>1, LaneTypes DEF Send, InFlight, Held, Answered, Lanes, IInv, TypeOK, WorkersTypeOK
    <3>. QED BY <1>lane, <2>1, <3>1, <3>2, <3>3, LaneTypes
  <2>. QED BY <2>2, <2>3, <2>4
<1>3. CASE RequestSample
  <2>1. Running
    BY <1>3 DEF RequestSample, Running
  <2>2. CASE ~SampleDue
    BY <1>3, <1>same, <2>1, <2>2 DEF RequestSample, workerVars, Running
  <2>3. CASE SampleDue /\ ~CanSend("sample")
    BY <1>3, <1>close, <2>1, <2>3 DEF RequestSample, Fail, Running
  <2>4. CASE SampleDue /\ CanSend("sample")
    <3>1. /\ Send("sample", SampleRequest) /\ sampleInFlight' = TRUE /\ Running'
          /\ UNCHANGED <<job, responses, sched>> /\ ~sampleInFlight
      BY <1>3, <2>4 DEF RequestSample, Running, SampleDue
    <3>2. InFlight("sample")' = ~InFlight("sample")
      BY <3>1 DEF InFlight
    <3>3. \A k \in Lanes \ {"sample"} :
            InFlight(k)' = InFlight(k) /\ Held(k)' \subseteq Held(k)
      BY <3>1, LaneTypes DEF Send, InFlight, Held, Answered, Lanes, IInv, TypeOK, WorkersTypeOK
    <3>. QED BY <1>lane, <2>1, <3>1, <3>2, <3>3, LaneTypes
  <2>. QED BY <2>2, <2>3, <2>4
<1>head. ASSUME NEW l \in Lanes, Received(l), UNCHANGED <<queue, job, pc>>
         PROVE  /\ Running /\ Running' /\ InFlight(l)
                /\ \A k \in Lanes : Held(k)' \subseteq Held(k)
  <2>1. Running /\ Running'
    BY <1>head DEF Received, Running
  <2>2. 1 \in Answered(l)
    BY <1>head, AfterReceive DEF Received, IInv
  <2>3. InFlight(l)
    BY <2>1, <2>2 DEF IInv, OneRequestPerLane
  <2>4. ASSUME NEW k \in Lanes PROVE Held(k)' \subseteq Held(k)
    <3>1. \A i \in Answered(k)' : i + 1 \in Answered(k) /\ responses'[i] = responses[i + 1]
      BY <1>head, AfterReceive DEF Received, IInv
    <3>. QED BY <1>head, <3>1 DEF Held
  <2>. QED BY <2>1, <2>3, <2>4
<1>4. CASE ReceiveSample
  <2>1. /\ Received("sample") /\ UNCHANGED <<queue, job, pc, sched>> /\ sampleInFlight' = FALSE
    BY <1>4 DEF ReceiveSample
  <2>2. InFlight("sample") /\ Running /\ Running' /\ \A k \in Lanes : Held(k)' \subseteq Held(k)
    BY <1>head, <2>1, LaneTypes
  <2>3. InFlight("sample")' = ~InFlight("sample") /\ InFlight("detail")' = InFlight("detail")
    BY <2>1, <2>2, LaneTypes DEF InFlight
  <2>. QED BY <1>lane, <2>2, <2>3, LaneTypes DEF Lanes
<1>5. CASE ReceiveDetail
  <2>1. /\ Received("detail") /\ UNCHANGED <<queue, job, pc, sampleInFlight>>
        /\ sched' = Finish(sched, Head(responses).request)
    BY <1>5 DEF ReceiveDetail
  <2>2. InFlight("detail") /\ Running /\ Running' /\ \A k \in Lanes : Held(k)' \subseteq Held(k)
    BY <1>head, <2>1, LaneTypes
  <2>3. sched'.inFlight = FALSE
    BY <2>1 DEF Finish, IInv, TypeOK, Schedules
  <2>4. InFlight("detail")' = ~InFlight("detail") /\ InFlight("sample")' = InFlight("sample")
    BY <2>1, <2>2, <2>3, LaneTypes DEF InFlight
  <2>. QED BY <1>lane, <2>2, <2>4, LaneTypes DEF Lanes
<1>6. CASE ReceivePanic \/ TerminalFails
  BY <1>6, <1>close DEF ReceivePanic, TerminalFails, Received, Fail, Running
<1>7. CASE Draw \/ TimeOut
  BY <1>7, <1>same DEF Draw, TimeOut, Running
<1>8. CASE Leave \/ Ended
  BY <1>8, <1>over DEF Leave, Ended, vars, Running
<1>9. CASE User
  <2>1. pc = "poll" /\ UNCHANGED workerVars /\ UNCHANGED sampleInFlight
    BY <1>9 DEF User, SwitchPage, SetInterval, TogglePause, ToggleFlows, RefreshNow,
                RunAction, Repaint, IgnoredEvent, Quit, Key, Event
  <2>2. pc' \in {"update", "exiting"}
    BY <1>9 DEF User, SwitchPage, SetInterval, TogglePause, ToggleFlows, RefreshNow,
                RunAction, Repaint, IgnoredEvent, Quit, Key, Event, Fail
  <2>3. sched' = sched \/ sched' = Update(sched, mode, paused, flows, TRUE)
    BY <1>9 DEF User, SwitchPage, SetInterval, TogglePause, ToggleFlows, RefreshNow,
                RunAction, Repaint, IgnoredEvent, Quit
  <2>4. sched'.inFlight = sched.inFlight
    BY <2>3 DEF Update, IInv, TypeOK, Schedules
  <2>. QED BY <1>same, <1>close, <2>1, <2>2, <2>4 DEF Running
<1>10. CASE Tick
  <2>1. UNCHANGED workerVars /\ UNCHANGED <<pc, sampleInFlight>> /\ sched'.inFlight = sched.inFlight
    BY <1>10 DEF Tick, IInv, TypeOK, Schedules
  <2>. QED BY <1>same, <1>over, <2>1 DEF Running
<1>11. ASSUME NEW l \in Lanes, Worker(l) PROVE UNCHANGED <<Outstanding, Running>>
  <2>1. WorkerStep(l) /\ UNCHANGED <<pc, sampleInFlight, sched>>
    BY <1>11 DEF Worker
  <2>2. \A k \in Lanes : InFlight(k)' = InFlight(k) /\ Held(k)' \subseteq Held(k)
    BY <2>1, HeldByWorker DEF InFlight, IInv
  <2>. QED BY <1>kept, <1>over, <2>1, <2>2 DEF Running
<1>12. CASE UNCHANGED vars
  BY <1>12, <1>same, <1>over DEF vars, Running
<1>. QED BY <1>1, <1>2, <1>3, <1>4, <1>5, <1>6, <1>7, <1>8, <1>9, <1>10, <1>11, <1>12
         DEF Next, LoopStep

(* The event loop and its two threads implement the single-flight lanes, for *)
(* any pages, snapshots and bounds: whatever queue, thread and channel do,   *)
(* each lane serves one request at a time, answers it once, in the loop,     *)
(* before the next, and leaving the loop abandons what it serves.            *)
THEOREM LanesRefined == SafetySpec => LaneService!SafetySpec
<1>1. Init => LaneService!Init
  <2>. SUFFICES ASSUME Init PROVE LaneService!Init
    OBVIOUS
  <2>1. Running /\ \A l \in Lanes : ~InFlight(l)
    BY DEF Init, Running, InFlight, NewSchedule
  <2>2. \A l \in Lanes : RequestOf(l) = None
    BY <2>1 DEF RequestOf
  <2>. QED BY <2>1, <2>2 DEF LaneService!Init
<1>2. IInv /\ IInv' /\ [Next]_vars => LaneService!Next \/ UNCHANGED <<Outstanding, Running>>
  BY LanesStep
<1>. QED BY <1>1, <1>2, Safety, PTL DEF SafetySpec, LaneService!SafetySpec, Outstanding

================================================================================
