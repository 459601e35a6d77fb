------------------------------ MODULE Command ------------------------------
(* One call of command::output (bmtop-macos/src/command.rs): a fixed program is
   run in a process group of its own, two threads read its stdout and stderr up
   to a limit, and the caller polls for its end until a deadline.

   The program is not under src/: it may start helpers that inherit its pipes,
   write, close a pipe and exit whenever it likes, or never.  Its helpers stay
   in its process group.  The caller's clock is one Boolean, `late`.        *)
EXTENDS Naturals

CONSTANTS Procs,    \* the program and the helpers it may start
          Child,    \* the process the caller has spawned
          Limit     \* the bytes a reader accepts (STDOUT_LIMIT, STDERR_LIMIT)

ASSUME CommandAssumption == Child \in Procs /\ Limit \in Nat

Streams == {"stdout", "stderr"}

VARIABLES caller,   \* where the calling thread is
          result,   \* what it has returned
          state,    \* of each process of the group
          holds,    \* the pipes each process has open for writing
          written,  \* bytes written to each pipe, counted to Limit + 1
          reader,   \* each reader thread: reading, or what it has sent
          late,     \* the deadline has passed
          reaped,   \* the caller has collected the child's status
          reused,   \* another process group has the ID of the child's group
          strayed   \* a signal has gone to that other group

vars == <<caller, result, state, holds, written, reader, late, reaped, reused, strayed>>
program == <<state, holds, written>>
system  == <<late, reused>>

Alive(p)   == state[p] \in {"running", "killed"}
Writers(s) == {p \in Procs : Alive(p) /\ s \in holds[p]}

Init ==
  /\ caller = "polling" /\ result = "none"
  /\ state   = [p \in Procs |-> IF p = Child THEN "running" ELSE "unborn"]
  /\ holds   = [p \in Procs |-> IF p = Child THEN Streams ELSE {}]
  /\ written = [s \in Streams |-> 0]
  /\ reader  = [s \in Streams |-> "reading"]
  /\ late = FALSE /\ reaped = FALSE /\ reused = FALSE /\ strayed = FALSE

-----------------------------------------------------------------------------
(* The program.  A write to a pipe whose reader has gone delivers nothing.  *)

Write(p, s) ==
  /\ state[p] = "running" /\ s \in holds[p]
  /\ reader[s] = "reading" /\ written[s] <= Limit
  /\ written' = [written EXCEPT ![s] = @ + 1]
  /\ UNCHANGED <<caller, result, state, holds, reader, late, reaped, reused, strayed>>

Close(p, s) ==
  /\ state[p] = "running" /\ s \in holds[p]
  /\ holds' = [holds EXCEPT ![p] = @ \ {s}]
  /\ UNCHANGED <<caller, result, state, written, reader, late, reaped, reused, strayed>>

Fork(p, h) ==
  /\ state[p] = "running" /\ state[h] = "unborn"
  /\ state' = [state EXCEPT ![h] = "running"]
  /\ holds' = [holds EXCEPT ![h] = holds[p]]
  /\ UNCHANGED <<caller, result, written, reader, late, reaped, reused, strayed>>

Exit(p) ==
  /\ state[p] = "running"
  /\ state' = [state EXCEPT ![p] = "dead"]
  /\ UNCHANGED <<caller, result, holds, written, reader, late, reaped, reused, strayed>>

Die(p) ==
  /\ state[p] = "killed"
  /\ state' = [state EXCEPT ![p] = "dead"]
  /\ UNCHANGED <<caller, result, holds, written, reader, late, reaped, reused, strayed>>

Program == \E p \in Procs : \/ \E s \in Streams : Write(p, s) \/ Close(p, s)
                            \/ \E h \in Procs : Fork(p, h)
                            \/ Exit(p)
                            \/ Die(p)

(* The kernel hands out the ID of a group again once nobody is in the group and
   the status of the process it is named after has been collected.          *)
Reuse ==
  /\ reaped /\ \A p \in Procs : ~Alive(p)
  /\ ~reused /\ reused' = TRUE
  /\ UNCHANGED <<caller, result, program, reader, late, reaped, strayed>>

Deadline ==
  /\ ~late /\ late' = TRUE
  /\ UNCHANGED <<caller, result, program, reader, reaped, reused, strayed>>

-----------------------------------------------------------------------------
(* The reader threads: each takes at most Limit + 1 bytes, which tells a full
   payload from a cut one, and sends once.                                  *)

\* Seeded fault: the reader takes Limit bytes, so a cut payload looks whole.
VerdictOfCut(s) == "whole"

Verdict(s) == IF written[s] > Limit THEN "tooLong" ELSE "whole"

ReadToEnd(s) ==
  /\ reader[s] = "reading"
  /\ Writers(s) = {} \/ written[s] > Limit
  /\ reader' = [reader EXCEPT ![s] = Verdict(s)]
  /\ UNCHANGED <<caller, result, program, system, reaped, strayed>>

-----------------------------------------------------------------------------
(* The caller. *)

(* terminate_group: SIGKILL to the group named after the child, whoever has that
   ID, then a wait for the child.                                           *)
\* Seeded fault: only the child is killed.
KilledChild(p) == p = Child /\ state[p] = "running"

Killed(p) == state[p] = "running"

TerminateGroup ==
  /\ state'   = [p \in Procs |-> IF Killed(p) THEN "killed" ELSE state[p]]
  /\ strayed' = (strayed \/ reused)
  /\ caller'  = "reaping"
  /\ UNCHANGED <<result, holds, written, reader, system, reaped>>

Reap ==
  /\ caller = "polling" /\ state[Child] = "dead"
  /\ reaped' = TRUE /\ caller' = "drainStdout"
  /\ UNCHANGED <<result, program, reader, system, strayed>>

(* try_wait may have answered just before the child exited. *)
TimeOut   == caller = "polling" /\ late /\ TerminateGroup
WaitFails == caller = "polling" /\ TerminateGroup

Draining == IF caller = "drainStdout" THEN "stdout" ELSE "stderr"
IsDraining == caller \in {"drainStdout", "drainStderr"}

Receive ==
  /\ IsDraining /\ reader[Draining] = "whole"
  /\ IF Draining = "stdout" THEN caller' = "drainStderr" /\ UNCHANGED result
                            ELSE caller' = "returned" /\ result' = "output"
  /\ UNCHANGED <<program, reader, system, reaped, strayed>>

RejectExcess == IsDraining /\ reader[Draining] = "tooLong" /\ TerminateGroup

\* Seeded fault: recv instead of recv_timeout.
NeverExpired == FALSE

DrainExpired == late
DrainTimeOut == IsDraining /\ reader[Draining] = "reading" /\ DrainExpired /\ TerminateGroup

WaitForChild ==
  /\ caller = "reaping" /\ state[Child] = "dead"
  /\ caller' = "returned" /\ result' = "error" /\ reaped' = TRUE
  /\ UNCHANGED <<program, reader, system, strayed>>

Caller == Reap \/ TimeOut \/ WaitFails \/ Receive \/ RejectExcess \/ DrainTimeOut \/ WaitForChild

Next == Program \/ Reuse \/ Deadline \/ Caller \/ \E s \in Streams : ReadToEnd(s)

(* The clock, the two threads of the process and the kernel's delivery of a
   SIGKILL go on; the program need not do anything.                         *)
Fairness ==
  /\ WF_vars(Deadline)
  /\ WF_vars(Caller)
  /\ \A s \in Streams : WF_vars(ReadToEnd(s))
  /\ \A p \in Procs : WF_vars(Die(p))

Spec     == Init /\ [][Next]_vars
FairSpec == Spec /\ Fairness

-----------------------------------------------------------------------------
(* Every variable has its type, a process that was never started has no pipe,
   and the caller has a result exactly when it has returned.                *)
CommandTypeOK ==
  /\ caller \in {"polling", "drainStdout", "drainStderr", "reaping", "returned"}
  /\ result \in {"none", "output", "error"}
  /\ (result = "none") <=> (caller # "returned")
  /\ state \in [Procs -> {"unborn", "running", "killed", "dead"}]
  /\ holds \in [Procs -> SUBSET Streams]
  /\ written \in [Streams -> 0 .. Limit + 1]
  /\ reader \in [Streams -> {"reading", "whole", "tooLong"}]
  /\ late \in BOOLEAN /\ reaped \in BOOLEAN /\ reused \in BOOLEAN /\ strayed \in BOOLEAN

(* Output the caller gets is complete: nobody can add to either stream any more
   and neither was cut at its limit, whoever wrote last (command.rs:33-41). *)
OutputIsComplete ==
  result = "output" => \A s \in Streams : Writers(s) = {} /\ written[s] <= Limit

(* No call, failed or not, leaves a zombie behind, and a failed one leaves no
   helper that is not under SIGKILL (command.rs:47-56, PERFORMANCE.md:16).  *)
NothingIsLeft ==
  /\ caller = "returned" => reaped /\ state[Child] = "dead"
  /\ result = "error" => \A p \in Procs : state[p] # "running"

(* The caller comes back although the program never exits, or has left a helper
   that keeps its pipes open (command.rs:88-103, PERFORMANCE.md:13).        *)
Returns == <>(caller = "returned")

(* "so a pipe cannot keep a reader thread alive indefinitely" (command.rs:3):
   after the call both reader threads end.                                  *)
ReadersEnd == (caller = "returned") ~> \A s \in Streams : reader[s] # "reading"

(* "The timeout kills only the dedicated child process group, then reaps it"
   (PERFORMANCE.md:16).                                                     *)
OnlyOwnGroup == ~strayed
=============================================================================
