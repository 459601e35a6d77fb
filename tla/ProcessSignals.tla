---------------------------- MODULE ProcessSignals ----------------------------
(***************************************************************************)
(* Ending a process from the table: x, k or X ask for a confirmation        *)
(* (UiState::handle_key), the confirmed action runs in the event loop while *)
(* the processes go on starting and exiting: send_signal_if_identity        *)
(* (bmtop-macos, lib.rs) looks the PID up again, compares the start time,   *)
(* asks for sudo if the process belongs to another user and runs /bin/kill. *)
(***************************************************************************)
EXTENDS ProcessTable

CONSTANTS
  Protected  \* PIDs never signalled: 0, 1 and bmtop's own, which never exit

ASSUME SignalAssumption == Protected \subseteq Pids

VARIABLES
  pending,  \* UiState.pending_action
  typed,    \* what action_input holds: "y", the "pid" or "other"
  step,     \* where the event loop is in the confirmed action
  target,   \* the action being executed
  asked,    \* history: the process under the cursor when the key was pressed
  checked,  \* history: the start times when the identity was checked
  hit       \* history: the process the signal reached

signalVars == <<pending, typed, step, target, asked, checked, hit>>
vars == <<tableVars, signalVars>>

Identities == [pid : Pids, start : Nat]
Actions == [pid : Pids, start : Nat, signal : {"Terminate", "Kill"}]

IdentityOf(action) == [pid |-> action.pid, start |-> action.start]

Init ==
  /\ TableInit
  /\ pending = None /\ typed = "other" /\ step = "idle" /\ target = None
  /\ asked = None /\ checked = start /\ hit = None

-------------------------------------------------------------------------------
(* The confirmation. *)

ActionKey(mode) ==
  /\ step = "idle" /\ Key(mode)
  /\ aim' = SelectedPid /\ kept' = TRUE
  /\ UNCHANGED <<shown, selected, paused, checked>>

(* The row under the cursor is captured; without one nothing happens. *)
AskFor(signal) ==
  /\ ActionKey("Normal") /\ SelectedPid # None
  /\ pending' = [pid |-> SelectedPid, start |-> rows[SelectedPid], signal |-> signal]
  /\ asked' = [pid |-> SelectedPid, start |-> rows[SelectedPid]]
  /\ typed' = "other" /\ prompt' = "Action"
  /\ UNCHANGED <<step, target, hit>>

EditConfirmation ==
  /\ ActionKey("Action")
  /\ typed' \in {"other", "y", "pid"}
  /\ UNCHANGED <<prompt, pending, step, target, asked, hit>>

Cancel ==
  /\ ActionKey("Action") /\ prompt' = "Normal"
  /\ pending' = None /\ typed' = "other"
  /\ UNCHANGED <<step, target, asked, hit>>

(* TERM wants a y, KILL the PID itself. *)
Valid ==
  \/ pending.signal = "Terminate" /\ typed = "y"
  \/ pending.signal = "Kill" /\ typed = "pid"

\* Seeded fault: the row under the cursor is taken at the confirmation.
TakenLate ==
  IF SelectedPid = None THEN pending
  ELSE [pending EXCEPT !.pid = SelectedPid, !.start = rows[SelectedPid]]

Taken == pending

(* Enter: the loop takes the completed action at once. *)
Confirm ==
  /\ ActionKey("Action")
  /\ IF Valid
     THEN /\ prompt' = "Normal" /\ step' = "check"
          /\ target' = Taken /\ pending' = None /\ typed' = "other" /\ hit' = None
     ELSE UNCHANGED <<prompt, pending, typed, step, target, hit>>
  /\ UNCHANGED asked

-------------------------------------------------------------------------------
(* The execution; the loop does nothing else meanwhile, the sampler goes on. *)

\* Seeded fault: a process with the same PID will do.
SamePid == target.pid \in alive \ Protected

Identical ==
  /\ target.pid \in alive \ Protected
  /\ start[target.pid] = target.start

(* send_signal_if_identity enumerates the processes again.  One that belongs *)
(* to another user needs sudo.                                               *)
CheckIdentity ==
  /\ step = "check" /\ Identical
  /\ step' \in {"kill", "authorize"}
  /\ checked' = start
  /\ UNCHANGED <<tableVars, pending, typed, target, asked, hit>>

(* UnsafeProcessTarget (an enumeration may also miss a process), sudo's      *)
(* refusal, or a kill that cannot be run or fails.                           *)
Refuse ==
  /\ step # "idle" /\ step' = "idle"
  /\ UNCHANGED <<tableVars, pending, typed, target, asked, checked, hit>>

(* sudo -v, which may wait for a password. *)
Authorize ==
  /\ step = "authorize" /\ step' = "kill"
  /\ UNCHANGED <<tableVars, pending, typed, target, asked, checked, hit>>

(* /bin/kill reaches the process that has the PID now, which may end by it. *)
Kill ==
  /\ step = "kill" /\ step' = "idle" /\ target.pid \in alive
  /\ hit' = [pid |-> target.pid, start |-> start[target.pid]]
  /\ alive' \in {alive, alive \ {target.pid}}
  /\ UNCHANGED <<start, snapshotVars, selected, prompt, paused, request, aim, kept, keys,
                 pending, typed, target, asked, checked>>

-------------------------------------------------------------------------------

Next ==
  \/ step = "idle" /\ (RequestSample \/ SampleArrives \/ SampleFails) /\ UNCHANGED signalVars
  \/ step = "idle" /\ TableKey /\ UNCHANGED signalVars
  \/ Collect /\ UNCHANGED signalVars
  \/ \E p \in Pids \ Protected : (Exit(p) \/ Spawn(p)) /\ UNCHANGED signalVars
  \/ \E signal \in {"Terminate", "Kill"} : AskFor(signal)
  \/ EditConfirmation \/ Cancel \/ Confirm
  \/ CheckIdentity \/ Refuse \/ Authorize \/ Kill
  \/ Rest /\ UNCHANGED signalVars

Spec == Init /\ [][Next]_vars

(* As in TableSpec; and the identity check, which starts no program, comes   *)
(* to an end.  sudo and kill are run by Command::status, without a deadline: *)
(* they owe nothing (docs/PERFORMANCE.md: "Authorization prompts ... are not *)
(* forcibly cancelled").                                                     *)
FairSpec ==
  /\ Spec
  /\ WF_vars(step = "idle" /\ RequestSample /\ UNCHANGED signalVars)
  /\ WF_vars(step = "idle" /\ SampleArrives /\ UNCHANGED signalVars)
  /\ SF_vars(Collect /\ UNCHANGED signalVars)
  /\ WF_vars(CheckIdentity \/ (step = "check" /\ Refuse))

-------------------------------------------------------------------------------

(* The action that runs is for the process that was under the cursor when    *)
(* the key was pressed, whatever samples, exits and re-used PIDs moved there *)
(* while the confirmation was typed.                                         *)
TargetIsAsked == step # "idle" => IdentityOf(target) = asked

(* The panel comes to show the process the user looks at with its details,   *)
(* though each sample carries those of the process that was under the cursor *)
(* at the request (the comment in set_snapshot) and a confirmed action holds *)
(* the loop up.  A password prompt or a kill that hangs for ever may keep them   *)
(* away, so the loop is assumed to come back from each: no one process is    *)
(* watched for ever without its details.                                     *)
Watched(p) == aim = p /\ kept /\ ~paused

DetailCatchesUp ==
  []<>(step = "idle") =>
    \A p \in Pids : []<>(Watched(p) => Pane = [process |-> p, detailed |-> TRUE])

(* Of the processes that run when the identity is checked, the signal        *)
(* reaches none but the confirmed one, and never a protected one: a process  *)
(* that took over its PID before the check is spared (README: "revalidates   *)
(* PID plus process start time").                                            *)
BystandersSpared ==
  hit # None =>
    /\ hit.pid \notin Protected
    /\ hit = IdentityOf(target) \/ hit.start > checked[hit.pid]
===============================================================================
