----------------------------- MODULE ProcessTable -----------------------------
(***************************************************************************)
(* The process table of the TUI (UiState, state.rs): the displayed rows,    *)
(* their order and filters, the cursor, and the sample requests that ask    *)
(* for the details of the process under the cursor.  The processes start    *)
(* and exit at any time, and a PID may be used again.                       *)
(*                                                                         *)
(* What the rows contain is left out.  The sort column, its direction and   *)
(* the tree view become an arbitrary order of the displayed rows; the       *)
(* search text, the user filter and "hide idle" become an arbitrary choice  *)
(* of them.                                                                 *)
(***************************************************************************)
EXTENDS Naturals, Sequences, FiniteSets, SequencesExt

CONSTANTS
  Pids,       \* process identifiers
  None,       \* Option::None
  MaxBirths,  \* bound: how often a PID is used again
  MaxKeys     \* bound: keys the user presses

ASSUME TableAssumption ==
  /\ None \notin Pids /\ IsFiniteSet(Pids)
  /\ MaxBirths \in Nat /\ MaxKeys \in Nat

VARIABLES
  alive,     \* the PIDs of the running processes
  start,     \* start[p]: when the last process with PID p was started
  rows,      \* the snapshot: PID -> start time
  shown,     \* filtered_processes: the PIDs that pass the filters, in order
  detail,    \* the PID whose row carries the details (threads, files, ...)
  selected,  \* UiState.selected: the cursor, a row number from 0
  prompt,    \* UiState.input_mode
  paused,    \* UiState.paused
  request,   \* the sample in flight: the PID it shall give details of, its rows
  aim,       \* history: the PID under the cursor after the user's last key
  kept,      \* history: aim has been on display ever since
  keys       \* keys pressed so far

osVars == <<alive, start>>
snapshotVars == <<rows, shown, detail>>
tableVars == <<osVars, snapshotVars, selected, prompt, paused, request, aim, kept, keys>>

(* The ways to show some of the rows: each at most once. *)
Lists(pids) == UNION {SetToSeqs(some) : some \in SUBSET pids}

(* selected_process_pid: a cursor past the last row selects nothing. *)
SelectedPid == IF selected + 1 \in DOMAIN shown THEN shown[selected + 1] ELSE None

(* The panel next to the table: the process under the cursor, and whether its
   details (files, disk bytes, arguments, threads) are there or still awaited.  *)
Pane == IF SelectedPid = None THEN None
        ELSE [process |-> SelectedPid, detailed |-> detail = SelectedPid]

Smaller(a, b) == IF a < b THEN a ELSE b

Above(n) == IF n = 0 THEN 0 ELSE n - 1

LastRow(list) == Above(Len(list))

TableInit ==
  /\ alive = Pids /\ start = [p \in Pids |-> 0]
  /\ rows = [p \in {} |-> 0] /\ shown = <<>> /\ detail = None
  /\ selected = 0 /\ prompt = "Normal" /\ paused = FALSE
  /\ request = None /\ aim = None /\ kept = TRUE /\ keys = 0

-------------------------------------------------------------------------------
(* The processes. *)

Exit(p) ==
  /\ p \in alive /\ alive' = alive \ {p}
  /\ UNCHANGED <<start, snapshotVars, selected, prompt, paused, request, aim, kept, keys>>

(* A new process gets a free PID. *)
Spawn(p) ==
  /\ p \notin alive /\ start[p] < MaxBirths
  /\ alive' = alive \cup {p}
  /\ start' = [start EXCEPT ![p] = @ + 1]
  /\ UNCHANGED <<snapshotVars, selected, prompt, paused, request, aim, kept, keys>>

-------------------------------------------------------------------------------
(* Samples. *)

(* The event loop asks for the details of the process under the cursor now. *)
RequestSample ==
  /\ request = None /\ ~paused
  /\ request' = [pid |-> SelectedPid, rows |-> None]
  /\ UNCHANGED <<osVars, snapshotVars, selected, prompt, paused, aim, kept, keys>>

(* The sampler thread enumerates the processes; it may miss some that start  *)
(* or exit meanwhile or that it may not read.                                *)
Collect ==
  /\ request # None /\ request.rows = None
  /\ \E seen \in SUBSET alive : request' = [request EXCEPT !.rows = [p \in seen |-> start[p]]]
  /\ UNCHANGED <<osVars, snapshotVars, selected, prompt, paused, aim, kept, keys>>

(* The collector returns an error instead. *)
SampleFails ==
  /\ request # None /\ request.rows = None /\ request' = None
  /\ UNCHANGED <<osVars, snapshotVars, selected, prompt, paused, aim, kept, keys>>

\* Seeded fault: the cursor stays on its row number.
StayOnRow(old, list) == Smaller(selected, LastRow(list))

(* set_snapshot: the cursor follows its PID; if the PID is gone it stays on  *)
(* its row, clamped to the new list.                                         *)
Pinned(old, list) ==
  IF Contains(list, old) THEN (CHOOSE i \in 1 .. Len(list) : list[i] = old) - 1
  ELSE Smaller(selected, LastRow(list))

(* enrich_process_detail: only the row that was asked for, if it is one. *)
Enriched(pid, seen) == IF pid \in DOMAIN seen THEN pid ELSE None

(* While paused the snapshot is dropped. *)
SampleArrives ==
  /\ request # None /\ request.rows # None /\ request' = None
  /\ IF paused THEN UNCHANGED <<snapshotVars, selected, kept>>
     ELSE
       /\ rows' = request.rows
       /\ shown' \in Lists(DOMAIN rows')
       /\ detail' = Enriched(request.pid, rows')
       /\ selected' = Pinned(SelectedPid, shown')
       /\ kept' = (kept /\ Contains(shown', aim))
  /\ UNCHANGED <<osVars, prompt, paused, aim, keys>>

-------------------------------------------------------------------------------
(* Keys. *)

Key(mode) ==
  /\ prompt = mode /\ keys < MaxKeys /\ keys' = keys + 1
  /\ UNCHANGED <<osVars, rows, detail, request>>

(* Up, Down, PageUp, PageDown, Home, End: every move but upwards is clamped. *)
MoveCursor ==
  /\ Key("Normal")
  /\ selected' \in {Above(selected), Smaller(selected + 1, LastRow(shown)), 0, LastRow(shown)}
  /\ UNCHANGED <<shown, prompt, paused>>

(* o O R P M N E W and V: another sort column, direction or view. *)
Resort ==
  /\ Key("Normal")
  /\ shown' \in SetToSeqs(ToSet(shown))
  /\ UNCHANGED <<selected, prompt, paused>>

(* A filter that lets the same rows pass leaves them in the same order.  In  *)
(* the tree view one that does not may rearrange the others.                 *)
Filter ==
  /\ shown' \in Lists(DOMAIN rows)
  /\ ToSet(shown') = ToSet(shown) => shown' = shown

(* i; the cursor is not clamped to the list that may have become shorter. *)
HideIdle ==
  /\ Key("Normal")
  /\ Filter
  /\ UNCHANGED <<selected, prompt, paused>>

(* Opening the search clears the text of the last one; the user filter keeps *)
(* its text.                                                                 *)
OpenFilter ==
  /\ Key("Normal") /\ prompt' = "Filter"
  /\ Filter
  /\ UNCHANGED <<selected, paused>>

(* Any key in a filter prompt, whether it edits, clears, accepts or does     *)
(* nothing, puts the cursor on the first row.                                *)
EditFilter ==
  /\ Key("Filter") /\ prompt' \in {"Filter", "Normal"}
  /\ Filter
  /\ selected' = 0
  /\ UNCHANGED paused

TogglePause ==
  /\ Key("Normal") /\ paused' = ~paused
  /\ UNCHANGED <<shown, selected, prompt>>

(* Every key makes the process now under the cursor the one aimed at. *)
TableKey ==
  /\ MoveCursor \/ Resort \/ HideIdle \/ OpenFilter \/ EditFilter \/ TogglePause
  /\ aim' = SelectedPid' /\ kept' = TRUE

TableStep == RequestSample \/ Collect \/ SampleFails \/ SampleArrives

OsStep == \E p \in Pids : Exit(p) \/ Spawn(p)

(* A paused table at the bound of the keys. *)
Rest == paused /\ request = None /\ keys = MaxKeys /\ UNCHANGED tableVars

TableNext == TableStep \/ TableKey \/ OsStep \/ Rest

(* The loop and the sampler are scheduled; a collector that fails for ever   *)
(* shows nothing, so it is assumed to succeed again and again.               *)
TableSpec ==
  /\ TableInit /\ [][TableNext]_tableVars
  /\ WF_tableVars(RequestSample) /\ WF_tableVars(SampleArrives) /\ SF_tableVars(Collect)

-------------------------------------------------------------------------------

Listings == UNION {[seen -> 0 .. MaxBirths] : seen \in SUBSET Pids}

TableTypeOK ==
  /\ alive \subseteq Pids /\ start \in [Pids -> 0 .. MaxBirths]
  /\ rows \in Listings
  /\ shown \in Lists(DOMAIN rows)
  /\ detail \in DOMAIN rows \cup {None}
  /\ selected \in Nat /\ prompt \in {"Normal", "Filter", "Action"} /\ paused \in BOOLEAN
  /\ request \in {None} \cup [pid : Pids \cup {None}, rows : Listings \cup {None}]
  /\ aim \in Pids \cup {None} /\ kept \in BOOLEAN /\ keys \in 0 .. MaxKeys

(* The process the user left the cursor on stays under it, sample after      *)
(* sample, however they re-sort the rows, as long as it is on display        *)
(* (README: "the cursor is pinned to the process under it").                 *)
CursorHolds == kept /\ aim # None => SelectedPid = aim

(* README: "re-sorting between samples never moves your selection". *)
ResortKeepsSelection ==
  [][rows' = rows /\ shown' # shown /\ ToSet(shown') = ToSet(shown)
       => SelectedPid' = SelectedPid]_tableVars
===============================================================================
