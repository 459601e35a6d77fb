--------------------------- MODULE CommandProofs ---------------------------
(* The safety properties of a call of command::output, for any number of helper
   processes and any limit.

   The result of a call is right because of where it came from: whoever is past
   the poll has collected the child's status, whoever drains stderr has all of
   stdout, and what a reader has sent as whole stays whole, for nobody is left
   who could write to the pipe.                                             *)
EXTENDS Command, TLAPS

(* A status is only collected from a child that has exited, and always before
   the output is drained (command.rs:79-81).                                *)
StatusCollected ==
  /\ reaped => state[Child] = "dead"
  /\ caller \in {"drainStdout", "drainStderr", "returned"} => reaped

(* A payload sent as whole is within the limit and has no writer left. *)
WholeIsFinal ==
  \A s \in Streams : reader[s] = "whole" => Writers(s) = {} /\ written[s] <= Limit

(* The caller takes stdout before stderr (command.rs:104). *)
DrainedInOrder ==
  /\ caller = "drainStderr" => reader["stdout"] = "whole"
  /\ result = "output" => \A s \in Streams : reader[s] = "whole"

(* From the signal to the group on, nobody in it runs. *)
GroupSignalled ==
  caller = "reaping" \/ result = "error" => \A p \in Procs : state[p] # "running"

IInv == CommandTypeOK /\ StatusCollected /\ WholeIsFinal /\ DrainedInOrder /\ GroupSignalled

(* A pipe without a writer does not get one again: a fork hands on only pipes
   the parent has open.                                                     *)
LEMMA ProgramKeepsWhole ==
  ASSUME IInv, Program
  PROVE  WholeIsFinal'
<1>. USE CommandAssumption DEF Streams
<1>1. ASSUME NEW p \in Procs, NEW s \in Streams, Write(p, s)
      PROVE  WholeIsFinal'
  BY <1>1 DEF Write, IInv, CommandTypeOK, WholeIsFinal, Writers, Alive
<1>2. ASSUME NEW p \in Procs, NEW s \in Streams, Close(p, s)
      PROVE  WholeIsFinal'
  BY <1>2 DEF Close, IInv, CommandTypeOK, WholeIsFinal, Writers, Alive
<1>3. ASSUME NEW p \in Procs, NEW h \in Procs, Fork(p, h)
      PROVE  WholeIsFinal'
  BY <1>3 DEF Fork, IInv, CommandTypeOK, WholeIsFinal, Writers, Alive
<1>4. ASSUME NEW p \in Procs, Exit(p) \/ Die(p)
      PROVE  WholeIsFinal'
  BY <1>4 DEF Exit, Die, IInv, CommandTypeOK, WholeIsFinal, Writers, Alive
<1>. QED BY <1>1, <1>2, <1>3, <1>4 DEF Program

LEMMA ProgramStep ==
  ASSUME IInv, Program
  PROVE  IInv'
<1>. USE CommandAssumption DEF IInv, CommandTypeOK, StatusCollected, DrainedInOrder, GroupSignalled
<1>1. ASSUME NEW p \in Procs, NEW s \in Streams, Write(p, s)
      PROVE  IInv'
  <2>1. WholeIsFinal'
    BY <1>1, ProgramKeepsWhole DEF Program
  <2>2. written' \in [Streams -> 0 .. Limit + 1]
    BY <1>1 DEF Write
  <2>. QED BY <1>1, <2>1, <2>2 DEF Write
<1>2. ASSUME NEW p \in Procs, NEW s \in Streams, Close(p, s)
      PROVE  IInv'
  <2>1. WholeIsFinal'
    BY <1>2, ProgramKeepsWhole DEF Program
  <2>. QED BY <1>2, <2>1 DEF Close
<1>3. ASSUME NEW p \in Procs, NEW h \in Procs, Fork(p, h)
      PROVE  IInv'
  <2>1. WholeIsFinal'
    BY <1>3, ProgramKeepsWhole DEF Program
  <2>. QED BY <1>3, <2>1 DEF Fork
<1>4. ASSUME NEW p \in Procs, Exit(p) \/ Die(p)
      PROVE  IInv'
  <2>1. WholeIsFinal'
    BY <1>4, ProgramKeepsWhole DEF Program
  <2>. QED BY <1>4, <2>1 DEF Exit, Die
<1>. QED BY <1>1, <1>2, <1>3, <1>4 DEF Program

LEMMA ReaderStep ==
  ASSUME IInv, NEW s \in Streams, ReadToEnd(s)
  PROVE  IInv'
<1>. USE CommandAssumption DEF ReadToEnd, program, system
<1>1. CommandTypeOK'
  BY DEF IInv, CommandTypeOK, Verdict
<1>2. WholeIsFinal'
  BY DEF IInv, CommandTypeOK, WholeIsFinal, Verdict, Writers, Alive
<1>3. DrainedInOrder'
  BY DEF IInv, CommandTypeOK, DrainedInOrder, Streams
<1>. QED BY <1>1, <1>2, <1>3 DEF IInv, StatusCollected, GroupSignalled

LEMMA TerminateStep ==
  ASSUME IInv, TerminateGroup, caller # "returned"
  PROVE  IInv'
<1>. USE CommandAssumption DEF TerminateGroup, system
<1>1. CommandTypeOK'
  BY DEF IInv, CommandTypeOK
<1>2. StatusCollected' /\ GroupSignalled'
  BY DEF IInv, CommandTypeOK, StatusCollected, GroupSignalled, Killed
<1>3. WholeIsFinal'
  BY DEF IInv, CommandTypeOK, WholeIsFinal, Writers, Alive, Killed
<1>4. DrainedInOrder'
  BY DEF IInv, CommandTypeOK, DrainedInOrder
<1>. QED BY <1>1, <1>2, <1>3, <1>4 DEF IInv

LEMMA CallerStep ==
  ASSUME IInv, Caller
  PROVE  IInv'
<1>. USE CommandAssumption DEF program, system
<1>1. CASE Reap
  BY <1>1 DEF Reap, IInv, CommandTypeOK, StatusCollected, WholeIsFinal, Writers, Alive,
              DrainedInOrder, GroupSignalled
<1>2. CASE TimeOut \/ WaitFails \/ RejectExcess \/ DrainTimeOut
  BY <1>2, TerminateStep DEF TimeOut, WaitFails, RejectExcess, DrainTimeOut, IsDraining
<1>3. CASE Receive
  <2>1. CommandTypeOK' /\ StatusCollected' /\ GroupSignalled'
    BY <1>3 DEF Receive, IsDraining, IInv, CommandTypeOK, StatusCollected, GroupSignalled
  <2>2. DrainedInOrder'
    BY <1>3 DEF Receive, IsDraining, Draining, IInv, CommandTypeOK, DrainedInOrder, Streams
  <2>3. WholeIsFinal'
    BY <1>3 DEF Receive, IInv, WholeIsFinal, Writers, Alive
  <2>. QED BY <2>1, <2>2, <2>3 DEF IInv
<1>4. CASE WaitForChild
  BY <1>4 DEF WaitForChild, IInv, CommandTypeOK, StatusCollected, WholeIsFinal, Writers, Alive,
              DrainedInOrder, GroupSignalled
<1>. QED BY <1>1, <1>2, <1>3, <1>4 DEF Caller

LEMMA SystemStep ==
  ASSUME IInv, Reuse \/ Deadline \/ UNCHANGED vars
  PROVE  IInv'
<1>. USE DEF IInv, CommandTypeOK, StatusCollected, WholeIsFinal, Writers, Alive,
             DrainedInOrder, GroupSignalled
<1>1. CASE Reuse
  BY <1>1 DEF Reuse, program
<1>2. CASE Deadline
  BY <1>2 DEF Deadline, program
<1>3. CASE UNCHANGED vars
  BY <1>3 DEF vars
<1>. QED BY <1>1, <1>2, <1>3

(* The strengthened invariant holds in every reachable state of every call. *)
THEOREM CommandInvariant == Spec => []IInv
<1>1. Init => IInv
  <2>. SUFFICES ASSUME Init PROVE IInv
    OBVIOUS
  <2>. USE CommandAssumption DEF Init
  <2>1. CommandTypeOK
    <3>1. holds \in [Procs -> SUBSET Streams]
      OBVIOUS
    <3>2. /\ state \in [Procs -> {"unborn", "running", "killed", "dead"}]
          /\ written \in [Streams -> 0 .. Limit + 1]
          /\ reader \in [Streams -> {"reading", "whole", "tooLong"}]
      OBVIOUS
    <3>. QED BY <3>1, <3>2 DEF CommandTypeOK
  <2>2. WholeIsFinal
    BY DEF WholeIsFinal
  <2>. QED BY <2>1, <2>2 DEF IInv, StatusCollected, DrainedInOrder, GroupSignalled
<1>2. IInv /\ [Next]_vars => IInv'
  BY ProgramStep, ReaderStep, CallerStep, SystemStep DEF Next
<1>. QED BY <1>1, <1>2, PTL DEF Spec

(* Every variable keeps its type, whatever the program does. *)
THEOREM CommandTypeCorrect == Spec => []CommandTypeOK
BY CommandInvariant, PTL DEF IInv

(* The output a caller gets is complete for any limit and however many helpers
   have shared the pipes.                                                   *)
THEOREM OutputCorrect == Spec => []OutputIsComplete
<1>1. IInv => OutputIsComplete
  BY DEF IInv, WholeIsFinal, DrainedInOrder, OutputIsComplete
<1>. QED BY <1>1, CommandInvariant, PTL

(* However the call ends, the child is collected, and after an error nobody in
   its group runs.                                                          *)
THEOREM CleanupCorrect == Spec => []NothingIsLeft
<1>1. IInv => NothingIsLeft
  BY DEF IInv, StatusCollected, GroupSignalled, NothingIsLeft
<1>. QED BY <1>1, CommandInvariant, PTL
=============================================================================
