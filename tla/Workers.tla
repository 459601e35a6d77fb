------------------------------- MODULE Workers -------------------------------
(***************************************************************************)
(* The two executors of the TUI (worker.rs): a sampler and a detail thread, *)
(* each fed by a one-slot request queue, both answering on one unbounded    *)
(* channel, and the flag that Drop raises without joining them.             *)
(*                                                                         *)
(* A thread's receive and its test of the flag are one step: the event loop *)
(* sends nothing once the flag is up.  For the same reason the second test  *)
(* of the flag and the send of the response are one step.                   *)
(***************************************************************************)
EXTENDS DetailSchedule, Sequences

CONSTANTS
  SampleRequest,  \* a SampleRequest; the selected PID it carries is left out
  Snapshots       \* the snapshots the sample closure may return

Lanes == {"sample", "detail"}

(* What may be asked of a lane, and what its closure may return. *)
Requests(l) == IF l = "sample" THEN {SampleRequest} ELSE Tickets
Results(l) == (IF l = "sample" THEN Snapshots ELSE {"ok"}) \cup {"error"}

ASSUME WorkersAssumption ==
  /\ None # SampleRequest
  /\ \A l \in Lanes : "panic" \notin Results(l)

VARIABLES
  queue,      \* queue[l]: the request, or None, in the lane's sync_channel(1)
  job,        \* job[l]: the request, or None, the lane's thread executes
  alive,      \* alive[l]: the lane's thread has not left its loop
  responses,  \* the responses the event loop has not received yet
  stopped     \* the flag Drop sets

workerVars == <<queue, job, alive, responses, stopped>>

Responses ==
  [lane: {"sample"}, request: {SampleRequest}, result: Results("sample") \cup {"panic"}]
    \cup
  [lane: {"detail"}, request: Tickets, result: Results("detail") \cup {"panic"}]

WorkersTypeOK ==
  /\ queue \in [Lanes -> Tickets \cup {SampleRequest, None}]
  /\ job \in [Lanes -> Tickets \cup {SampleRequest, None}]
  /\ \A l \in Lanes : {queue[l], job[l]} \subseteq Requests(l) \cup {None}
  /\ alive \in [Lanes -> BOOLEAN]
  /\ responses \in Seq(Responses)
  /\ stopped \in BOOLEAN

WorkersInit ==
  /\ queue = [l \in Lanes |-> None]
  /\ job = [l \in Lanes |-> None]
  /\ alive = [l \in Lanes |-> TRUE]
  /\ responses = <<>>
  /\ stopped = FALSE

(* try_send succeeds: the slot is free and the receiver still exists. *)
CanSend(l) == alive[l] /\ queue[l] = None

Send(l, request) == queue' = [queue EXCEPT ![l] = request]

StopSeen == stopped

(* The thread takes a request; one taken after Drop is cancelled. *)
Take(l) ==
  /\ alive[l] /\ job[l] = None /\ queue[l] # None
  /\ queue' = [queue EXCEPT ![l] = None]
  /\ job' = IF StopSeen THEN job ELSE [job EXCEPT ![l] = queue[l]]
  /\ alive' = [alive EXCEPT ![l] = ~StopSeen]
  /\ UNCHANGED <<responses, stopped>>

\* Seeded fault: a panic is contained, but nobody is told.
DiesSilently(l, result) ==
  /\ job[l] # None
  /\ job' = [job EXCEPT ![l] = None]
  /\ alive' = [alive EXCEPT ![l] = ~StopSeen /\ result # "panic"]
  /\ responses' =
       IF StopSeen \/ result = "panic" THEN responses
       ELSE Append(responses, [lane |-> l, request |-> job[l], result |-> result])
  /\ UNCHANGED <<queue, stopped>>

(* The closure returns or panics (catch_unwind).  After Drop the result is  *)
(* dropped; a panic is reported, then ends the thread.                      *)
Complete(l, result) ==
  /\ job[l] # None
  /\ job' = [job EXCEPT ![l] = None]
  /\ alive' = [alive EXCEPT ![l] = ~StopSeen /\ result # "panic"]
  /\ responses' =
       IF StopSeen THEN responses
       ELSE Append(responses, [lane |-> l, request |-> job[l], result |-> result])
  /\ UNCHANGED <<queue, stopped>>

(* Both senders are gone with the Workers value: an idle thread's receive   *)
(* fails and its loop ends.                                                 *)
Disconnect(l) ==
  /\ stopped /\ alive[l] /\ job[l] = None /\ queue[l] = None
  /\ alive' = [alive EXCEPT ![l] = FALSE]
  /\ UNCHANGED <<queue, job, responses, stopped>>

(* Drop: no join.  The receiver goes too, with whatever it holds. *)
DropWorkers ==
  /\ stopped' = TRUE
  /\ responses' = <<>>
  /\ UNCHANGED <<queue, job, alive>>

WorkerStep(l) ==
  \/ Take(l)
  \/ \E result \in Results(l) \cup {"panic"} : Complete(l, result)
  \/ Disconnect(l)
===============================================================================
