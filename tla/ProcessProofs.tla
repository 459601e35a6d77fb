---------------------------- MODULE ProcessProofs ----------------------------
(* The process table and the signals, proved for any processes, samples,
   filters, sort orders, keys and re-uses of PIDs: the cursor stays on its
   process, and what the confirmation and the identity check promise holds.  *)
EXTENDS ProcessSignals, TreeOrder, DataLemmas

(***************************************************************************)
(* The cursor.                                                             *)
(***************************************************************************)

(* What a list of some rows is: a sequence of their PIDs. *)
LEMMA ListType ==
  ASSUME NEW pids \in SUBSET Pids, NEW list \in Lists(pids)
  PROVE  /\ list \in Seq(pids) /\ Len(list) \in Nat
         /\ \A i \in 1 .. Len(list) : list[i] \in pids
         /\ ToSet(list) \subseteq pids
  <1>1. PICK some \in SUBSET pids : list \in [1 .. Cardinality(some) -> some]
    BY DEF Lists, SetToSeqs
  <1>2. IsFiniteSet(some)
    BY TableAssumption, FS_Subset
  <1>3. Cardinality(some) \in Nat
    BY <1>2, FS_CardinalityType
  <1>4. list \in Seq(some)
    BY <1>1, <1>3
  <1>5. list \in Seq(pids) /\ Len(list) \in Nat /\ DOMAIN list = 1 .. Len(list)
    BY <1>4, <1>3, <1>1
  <1>6. \A i \in 1 .. Len(list) : list[i] \in pids
    BY <1>5
  <1> QED BY <1>5, <1>6 DEF ToSet

(* Another order of the same rows is a list of them. *)
LEMMA ReorderType ==
  ASSUME NEW pids \in SUBSET Pids, NEW list \in Lists(pids),
         NEW other \in SetToSeqs(ToSet(list))
  PROVE  other \in Lists(pids)
  <1>1. ToSet(list) \in SUBSET pids
    BY ListType
  <1> QED BY <1>1, Zenon DEF Lists

(* The process under the cursor is one of the rows. *)
LEMMA CursorRow ==
  ASSUME NEW pids \in SUBSET Pids, NEW list \in Lists(pids), NEW n \in Nat, n < Len(list)
  PROVE  list[n + 1] \in pids
  <1>1. Len(list) \in Nat /\ \A i \in 1 .. Len(list) : list[i] \in pids
    BY ListType
  <1>2. n + 1 \in 1 .. Len(list)
    BY <1>1
  <1> QED BY <1>1, <1>2

(* A row number is below the length of the list. *)
LEMMA RowNumber ==
  ASSUME NEW pids \in SUBSET Pids, NEW list \in Lists(pids), NEW n \in Nat
  PROVE  n + 1 \in DOMAIN list <=> n < Len(list)
  <1>1. Len(list) \in Nat /\ DOMAIN list = 1 .. Len(list)
    BY ListType
  <1> QED BY <1>1

(* set_snapshot leaves the cursor on a row number, and on the PID it was on  *)
(* if that PID is still displayed.                                           *)
LEMMA PinnedHolds ==
  ASSUME NEW pids \in SUBSET Pids, NEW list \in Lists(pids), NEW old, selected \in Nat
  PROVE  /\ Pinned(old, list) \in Nat
         /\ Contains(list, old) =>
              Pinned(old, list) < Len(list) /\ list[Pinned(old, list) + 1] = old
  <1> DEFINE at == CHOOSE i \in 1 .. Len(list) : list[i] = old
  <1>1. Len(list) \in Nat
    BY ListType
  <1>2. CASE Contains(list, old)
    <2>1. at \in 1 .. Len(list) /\ list[at] = old
      BY <1>2 DEF Contains
    <2>2. Pinned(old, list) = at - 1
      BY <1>2 DEF Pinned
    <2> HIDE DEF at
    <2> QED BY <1>1, <2>1, <2>2
  <1>3. CASE ~Contains(list, old)
    BY <1>1, <1>3 DEF Pinned, Smaller, LastRow, Above
  <1> QED BY <1>2, <1>3

LEMMA InitTyped == TableInit => TableTypeOK
  <1> SUFFICES ASSUME TableInit PROVE TableTypeOK
    OBVIOUS
  <1>1. rows \in Listings
    <2>1. rows \in [{} -> 0 .. MaxBirths]
      BY DEF TableInit
    <2> QED BY <2>1 DEF Listings
  <1>2. shown \in Lists(DOMAIN rows)
    <2>1. Cardinality({}) = 0
      BY FS_EmptySet
    <2>2. <<>> \in SetToSeqs({})
      BY <2>1 DEF SetToSeqs
    <2> QED BY <2>2 DEF TableInit, Lists
  <1>3. start \in [Pids -> 0 .. MaxBirths] /\ alive \subseteq Pids
    BY TableAssumption DEF TableInit
  <1>4. keys \in 0 .. MaxKeys
    BY TableAssumption DEF TableInit
  <1> QED BY <1>1, <1>2, <1>3, <1>4 DEF TableInit, TableTypeOK

(* A step of the processes keeps the rows' type: they are copies. *)
LEMMA ProcessesKeepType ==
  ASSUME TableTypeOK, NEW p \in Pids, Exit(p) \/ Spawn(p)
  PROVE  TableTypeOK'
  <1>1. CASE Exit(p)
    BY <1>1 DEF Exit, TableTypeOK, snapshotVars
  <1>2. CASE Spawn(p)
    <2>1. start' \in [Pids -> 0 .. MaxBirths]
      BY <1>2, TableAssumption DEF Spawn, TableTypeOK
    <2> QED BY <1>2, <2>1 DEF Spawn, TableTypeOK, snapshotVars
  <1> QED BY <1>1, <1>2

LEMMA RowsType ==
  ASSUME TableTypeOK
  PROVE  /\ DOMAIN rows \in SUBSET Pids /\ shown \in Lists(DOMAIN rows) /\ selected \in Nat
         /\ SelectedPid \in DOMAIN rows \cup {None}
         /\ Len(shown) \in Nat
  <1>1. DOMAIN rows \in SUBSET Pids
    BY DEF TableTypeOK, Listings
  <1>2. shown \in Lists(DOMAIN rows) /\ selected \in Nat
    BY DEF TableTypeOK
  <1>3. SelectedPid \in DOMAIN rows \cup {None}
    BY <1>1, <1>2, CursorRow, RowNumber DEF SelectedPid
  <1> QED BY <1>1, <1>2, <1>3, ListType

(* A sample from the request to its rows on display. *)
LEMMA SampleTyped ==
  ASSUME TableTypeOK, TableStep
  PROVE  TableTypeOK'
  <1>1. CASE RequestSample
    <2>1. request' \in [pid : Pids \cup {None}, rows : Listings \cup {None}]
      BY <1>1, RowsType DEF RequestSample
    <2> QED BY <1>1, <2>1 DEF RequestSample, TableTypeOK, osVars, snapshotVars
  <1>2. CASE Collect
    <2>1. PICK seen \in SUBSET alive :
            request' = [request EXCEPT !.rows = [p \in seen |-> start[p]]]
      BY <1>2 DEF Collect
    <2>2. [p \in seen |-> start[p]] \in Listings
      <3>1. [p \in seen |-> start[p]] \in [seen -> 0 .. MaxBirths]
        BY DEF TableTypeOK
      <3>2. seen \in SUBSET Pids
        BY DEF TableTypeOK
      <3> QED BY <3>1, <3>2 DEF Listings
    <2>3. request' \in [pid : Pids \cup {None}, rows : Listings \cup {None}]
      BY <1>2, <2>1, <2>2 DEF Collect, TableTypeOK
    <2> QED BY <1>2, <2>3 DEF Collect, TableTypeOK, osVars, snapshotVars
  <1>3. CASE SampleFails
    BY <1>3 DEF SampleFails, TableTypeOK, osVars, snapshotVars
  <1>4. CASE SampleArrives
    <2>1. CASE paused
      BY <1>4, <2>1 DEF SampleArrives, TableTypeOK, osVars, snapshotVars
    <2>2. CASE ~paused
      <3>1. rows' \in Listings
        BY <1>4, <2>2 DEF SampleArrives, TableTypeOK
      <3>2. shown' \in Lists(DOMAIN rows') /\ DOMAIN rows' \in SUBSET Pids
        BY <1>4, <2>2, <3>1 DEF SampleArrives, Listings
      <3>3. selected' \in Nat
        BY <1>4, <2>2, <3>2, RowsType, PinnedHolds DEF SampleArrives
      <3>4. detail' \in DOMAIN rows' \cup {None} /\ kept' \in BOOLEAN
        BY <1>4, <2>2 DEF SampleArrives, TableTypeOK, Contains, Enriched
      <3> QED
        BY <1>4, <3>1, <3>2, <3>3, <3>4 DEF SampleArrives, TableTypeOK, osVars
    <2> QED BY <2>1, <2>2
  <1> QED BY <1>1, <1>2, <1>3, <1>4 DEF TableStep

LEMMA KeyTyped ==
  ASSUME TableTypeOK, TableKey
  PROVE  TableTypeOK'
  <1>1. /\ UNCHANGED <<alive, start, rows, detail, request>>
        /\ keys' \in 0 .. MaxKeys
    <2>1. \E mode \in {"Normal", "Filter"} : Key(mode)
      BY DEF TableKey, MoveCursor, Resort, HideIdle, OpenFilter, EditFilter, TogglePause
    <2> QED BY <2>1, TableAssumption DEF Key, osVars, TableTypeOK
  <1>2. /\ shown' \in Lists(DOMAIN rows) /\ selected' \in Nat
        /\ prompt' \in {"Normal", "Filter", "Action"} /\ paused' \in BOOLEAN
    <2>1. CASE MoveCursor
      BY <2>1, RowsType DEF MoveCursor, TableTypeOK, Above, Smaller, LastRow
    <2>2. CASE Resort
      BY <2>2, RowsType, ReorderType DEF Resort, TableTypeOK
    <2>3. CASE HideIdle
      BY <2>3 DEF HideIdle, Filter, TableTypeOK
    <2>4. CASE OpenFilter
      BY <2>4 DEF OpenFilter, Filter, TableTypeOK
    <2>5. CASE EditFilter
      BY <2>5 DEF EditFilter, Filter, TableTypeOK
    <2>6. CASE TogglePause
      BY <2>6 DEF TogglePause, TableTypeOK
    <2> QED BY <2>1, <2>2, <2>3, <2>4, <2>5, <2>6 DEF TableKey
  <1>3. aim' \in Pids \cup {None} /\ kept' \in BOOLEAN
    <2>1. shown' \in Lists(DOMAIN rows) /\ DOMAIN rows \in SUBSET Pids
      BY <1>2, RowsType
    <2>2. SelectedPid' \in DOMAIN rows \cup {None}
      <3>1. CASE selected' < Len(shown')
        BY <3>1, <1>2, <2>1, CursorRow, RowNumber DEF SelectedPid
      <3>2. CASE ~(selected' < Len(shown'))
        BY <3>2, <1>2, <2>1, RowNumber DEF SelectedPid
      <3> QED BY <3>1, <3>2
    <2> QED BY <2>1, <2>2 DEF TableKey
  <1> QED BY <1>1, <1>2, <1>3 DEF TableTypeOK

(* Every variable of the table keeps its type: the displayed rows are rows   *)
(* of the snapshot, each once, and the cursor is a row number (it never      *)
(* wraps below the first row).                                               *)
THEOREM TableTypeCorrect == TableSpec => []TableTypeOK
  <1>1. TableTypeOK /\ [TableNext]_tableVars => TableTypeOK'
    <2> SUFFICES ASSUME TableTypeOK, [TableNext]_tableVars PROVE TableTypeOK'
      OBVIOUS
    <2>1. CASE TableStep BY <2>1, SampleTyped
    <2>2. CASE TableKey BY <2>2, KeyTyped
    <2>3. CASE OsStep BY <2>3, ProcessesKeepType DEF OsStep
    <2>4. CASE UNCHANGED tableVars
      BY <2>4 DEF tableVars, osVars, snapshotVars, TableTypeOK
    <2> QED BY <2>1, <2>2, <2>3, <2>4 DEF TableNext, Rest
  <1> QED BY <1>1, InitTyped, PTL DEF TableSpec

(* A sample moves the cursor along with the process under it. *)
LEMMA SampleHolds ==
  ASSUME TableTypeOK, CursorHolds, SampleArrives
  PROVE  CursorHolds'
  <1>1. CASE paused
    BY <1>1 DEF SampleArrives, CursorHolds, snapshotVars, SelectedPid
  <1>2. CASE ~paused
    <2> SUFFICES ASSUME kept', aim' # None PROVE SelectedPid' = aim'
      BY DEF CursorHolds
    <2>1. /\ shown' \in Lists(DOMAIN rows') /\ DOMAIN rows' \in SUBSET Pids
          /\ selected' = Pinned(SelectedPid, shown')
          /\ kept /\ Contains(shown', aim) /\ aim' = aim
      BY <1>2 DEF SampleArrives, TableTypeOK, Listings
    <2>2. SelectedPid = aim
      BY <2>1 DEF CursorHolds
    <2>3. selected' < Len(shown') /\ shown'[selected' + 1] = aim
      BY <2>1, <2>2, PinnedHolds, RowsType
    <2>4. selected' + 1 \in DOMAIN shown'
      BY <2>1, <2>3, PinnedHolds, RowsType, RowNumber
    <2> QED BY <2>1, <2>3, <2>4 DEF SelectedPid
  <1> QED BY <1>1, <1>2

(* set_snapshot, "the cursor is pinned to the process": through any number   *)
(* of samples in any order, as long as each of them shows the process.       *)
THEOREM CursorCorrect == TableSpec => []CursorHolds
  <1>1. TableInit => CursorHolds
    BY DEF TableInit, CursorHolds
  <1>2. TableTypeOK /\ CursorHolds /\ [TableNext]_tableVars => CursorHolds'
    <2> SUFFICES ASSUME TableTypeOK, CursorHolds, [TableNext]_tableVars
                 PROVE  CursorHolds'
      OBVIOUS
    <2>1. CASE SampleArrives BY <2>1, SampleHolds
    <2>2. CASE TableKey BY <2>2 DEF TableKey, CursorHolds
    <2>3. CASE RequestSample \/ Collect \/ SampleFails \/ OsStep \/ UNCHANGED tableVars
      <3>1. UNCHANGED <<shown, selected, aim, kept>>
        BY <2>3 DEF RequestSample, Collect, SampleFails, OsStep, Exit, Spawn, snapshotVars,
                    tableVars
      <3> QED BY <3>1 DEF CursorHolds, SelectedPid
    <2> QED BY <2>1, <2>2, <2>3 DEF TableNext, TableStep, Rest
  <1> QED BY <1>1, <1>2, TableTypeCorrect, PTL DEF TableSpec

(***************************************************************************)
(* The signals.                                                            *)
(***************************************************************************)

(* The processes, as far as start times are compared. *)
ProcessesTyped ==
  /\ alive \subseteq Pids
  /\ start \in [Pids -> Nat] /\ checked \in [Pids -> Nat]

(* The captured action waits unchanged for its confirmation. *)
PendingIsAsked == prompt = "Action" => IdentityOf(pending) = asked

(* Between the check and the signal, the target is a process that had its    *)
(* PID and start time at the check; since then PIDs only went to younger     *)
(* processes.                                                                *)
CheckedTarget ==
  step \in {"authorize", "kill"} =>
    /\ target.pid \in Pids \ Protected
    /\ checked[target.pid] = target.start

StartsGrow == \A p \in Pids : checked[p] <= start[p]

(* An action that is still running has reached nobody. *)
NotYetHit == step # "idle" => hit = None

IInv ==
  /\ ProcessesTyped /\ PendingIsAsked /\ TargetIsAsked
  /\ CheckedTarget /\ StartsGrow /\ NotYetHit /\ BystandersSpared

(* No action, no prompt. *)
LEMMA InitSafe == Init => IInv
  BY DEF Init, TableInit, IInv, ProcessesTyped, PendingIsAsked, TargetIsAsked,
         CheckedTarget, StartsGrow, NotYetHit, BystandersSpared

(* Steps of the table that leave the processes and the actions alone. *)
LEMMA TableSafe ==
  ASSUME IInv, UNCHANGED <<osVars, signalVars>>, prompt' = "Action" => prompt = "Action"
  PROVE  IInv'
  BY DEF IInv, ProcessesTyped, PendingIsAsked, TargetIsAsked, CheckedTarget, StartsGrow,
         NotYetHit, BystandersSpared, osVars, signalVars, IdentityOf

LEMMA SampleSafe ==
  ASSUME IInv, TableStep, UNCHANGED signalVars
  PROVE  IInv'
  BY TableSafe DEF TableStep, RequestSample, Collect, SampleFails, SampleArrives

LEMMA TableKeySafe ==
  ASSUME IInv, TableKey, UNCHANGED signalVars
  PROVE  IInv'
  <1>1. UNCHANGED osVars /\ (prompt' = "Action" => prompt = "Action")
    <2>1. CASE MoveCursor BY <2>1 DEF MoveCursor, Key
    <2>2. CASE Resort BY <2>2 DEF Resort, Key
    <2>3. CASE HideIdle BY <2>3 DEF HideIdle, Key
    <2>4. CASE OpenFilter BY <2>4 DEF OpenFilter, Key
    <2>5. CASE EditFilter BY <2>5 DEF EditFilter, Key
    <2>6. CASE TogglePause BY <2>6 DEF TogglePause, Key
    <2> QED BY <2>1, <2>2, <2>3, <2>4, <2>5, <2>6 DEF TableKey
  <1> QED BY <1>1, TableSafe DEF osVars

(* A process that exits or starts: start times only grow. *)
LEMMA ProcessesSafe ==
  ASSUME IInv, NEW p \in Pids, Exit(p) \/ Spawn(p), UNCHANGED signalVars
  PROVE  IInv'
  <1>1. /\ alive' \subseteq Pids /\ start' \in [Pids -> Nat]
        /\ \A q \in Pids : start[q] <= start'[q]
    BY DEF IInv, ProcessesTyped, Exit, Spawn
  <1>2. UNCHANGED prompt
    BY DEF Exit, Spawn
  <1> QED
    BY <1>1, <1>2 DEF IInv, ProcessesTyped, PendingIsAsked, TargetIsAsked, CheckedTarget,
                      StartsGrow, NotYetHit, BystandersSpared, signalVars, IdentityOf

(* The keys of the confirmation prompt, which the loop reads only between    *)
(* two actions.                                                              *)
LEMMA ConfirmationSafe ==
  ASSUME IInv,
         \/ \E signal \in {"Terminate", "Kill"} : AskFor(signal)
         \/ EditConfirmation \/ Cancel \/ Confirm
  PROVE  IInv'
  <1>1. CASE \E signal \in {"Terminate", "Kill"} : AskFor(signal)
    <2>1. PICK signal \in {"Terminate", "Kill"} : AskFor(signal)
      BY <1>1
    <2>2. IdentityOf(pending') = asked'
      BY <2>1 DEF AskFor, IdentityOf
    <2>3. UNCHANGED <<alive, start, checked, step, target, hit>> /\ step = "idle"
      BY <2>1 DEF AskFor, ActionKey, Key, osVars
    <2> QED
      BY <2>2, <2>3 DEF IInv, ProcessesTyped, PendingIsAsked, TargetIsAsked, CheckedTarget,
                        StartsGrow, NotYetHit, BystandersSpared, IdentityOf
  <1>2. CASE EditConfirmation
    BY <1>2 DEF EditConfirmation, ActionKey, Key, osVars, IInv, ProcessesTyped,
                PendingIsAsked, TargetIsAsked, CheckedTarget, StartsGrow, NotYetHit,
                BystandersSpared, IdentityOf
  <1>3. CASE Cancel
    BY <1>3 DEF Cancel, ActionKey, Key, osVars, IInv, ProcessesTyped, PendingIsAsked,
                TargetIsAsked, CheckedTarget, StartsGrow, NotYetHit, BystandersSpared,
                IdentityOf
  <1>4. CASE Confirm
    <2>1. /\ UNCHANGED <<alive, start, checked, asked>>
          /\ step = "idle" /\ prompt = "Action"
      BY <1>4 DEF Confirm, ActionKey, Key, osVars
    <2>2. CASE Valid
      <3>1. step' = "check" /\ target' = pending /\ hit' = None /\ prompt' = "Normal"
        BY <1>4, <2>2 DEF Confirm, Taken
      <3>2. IdentityOf(target') = asked'
        BY <2>1, <3>1 DEF IInv, PendingIsAsked
      <3> QED
        BY <2>1, <3>1, <3>2 DEF IInv, ProcessesTyped, PendingIsAsked, TargetIsAsked,
           CheckedTarget, StartsGrow, NotYetHit, BystandersSpared, IdentityOf
    <2>3. CASE ~Valid
      <3>1. UNCHANGED <<prompt, pending, step, target, hit>>
        BY <1>4, <2>3 DEF Confirm
      <3> QED
        BY <2>1, <3>1 DEF IInv, ProcessesTyped, PendingIsAsked, TargetIsAsked,
           CheckedTarget, StartsGrow, NotYetHit, BystandersSpared, IdentityOf
    <2> QED BY <2>2, <2>3
  <1> QED BY <1>1, <1>2, <1>3, <1>4

(* The check establishes CheckedTarget; the signal relies on it and on the   *)
(* growth of the start times.                                                *)
LEMMA ExecutionSafe ==
  ASSUME IInv, CheckIdentity \/ Refuse \/ Authorize \/ Kill
  PROVE  IInv'
  <1>1. CASE CheckIdentity
    <2>1. /\ UNCHANGED <<alive, start, prompt, pending, target, asked, hit>>
          /\ checked' = start /\ step = "check" /\ step' # "idle"
      BY <1>1 DEF CheckIdentity, tableVars, osVars
    <2>2. target.pid \in Pids \ Protected /\ checked'[target.pid] = target.start
      BY <1>1, <2>1 DEF CheckIdentity, Identical, IInv, ProcessesTyped
    <2> QED
      BY <2>1, <2>2 DEF IInv, ProcessesTyped, PendingIsAsked, TargetIsAsked, CheckedTarget,
                        StartsGrow, NotYetHit, BystandersSpared, IdentityOf
  <1>2. CASE Refuse
    BY <1>2 DEF Refuse, tableVars, osVars, IInv, ProcessesTyped, PendingIsAsked,
                TargetIsAsked, CheckedTarget, StartsGrow, NotYetHit, BystandersSpared,
                IdentityOf
  <1>3. CASE Authorize
    BY <1>3 DEF Authorize, tableVars, osVars, IInv, ProcessesTyped, PendingIsAsked,
                TargetIsAsked, CheckedTarget, StartsGrow, NotYetHit, BystandersSpared,
                IdentityOf
  <1>4. CASE Kill
    <2>1. /\ UNCHANGED <<start, prompt, pending, target, asked, checked>>
          /\ step = "kill" /\ step' = "idle" /\ alive' \subseteq alive
          /\ hit' = [pid |-> target.pid, start |-> start[target.pid]]
      BY <1>4 DEF Kill
    <2>2. target.pid \in Pids \ Protected /\ checked[target.pid] = target.start
      BY <2>1 DEF IInv, CheckedTarget
    <2>3. start[target.pid] = target.start \/ start[target.pid] > checked[target.pid]
      BY <2>2 DEF IInv, StartsGrow, ProcessesTyped
    <2>4. BystandersSpared'
      BY <2>1, <2>2, <2>3 DEF BystandersSpared, IdentityOf
    <2> QED
      BY <2>1, <2>4 DEF IInv, ProcessesTyped, PendingIsAsked, TargetIsAsked, CheckedTarget,
                        StartsGrow, NotYetHit, IdentityOf
  <1> QED BY <1>1, <1>2, <1>3, <1>4

(* The inductive invariant holds in every behaviour. *)
THEOREM Safety == Spec => []IInv
  <1>1. IInv /\ [Next]_vars => IInv'
    <2> SUFFICES ASSUME IInv, [Next]_vars PROVE IInv'
      OBVIOUS
    <2>1. CASE (RequestSample \/ SampleArrives \/ SampleFails \/ Collect)
               /\ UNCHANGED signalVars
      BY <2>1, SampleSafe DEF TableStep
    <2>2. CASE TableKey /\ UNCHANGED signalVars
      BY <2>2, TableKeySafe
    <2>3. CASE \E p \in Pids \ Protected : (Exit(p) \/ Spawn(p)) /\ UNCHANGED signalVars
      BY <2>3, ProcessesSafe
    <2>4. CASE (\E signal \in {"Terminate", "Kill"} : AskFor(signal))
               \/ EditConfirmation \/ Cancel \/ Confirm
      BY <2>4, ConfirmationSafe
    <2>5. CASE CheckIdentity \/ Refuse \/ Authorize \/ Kill
      BY <2>5, ExecutionSafe
    <2>6. CASE UNCHANGED vars \/ (Rest /\ UNCHANGED signalVars)
      BY <2>6, TableSafe DEF vars, Rest, tableVars
    <2> QED BY <2>1, <2>2, <2>3, <2>4, <2>5, <2>6 DEF Next
  <1> QED BY <1>1, InitSafe, PTL DEF Spec

(* The action that runs is for the process that was under the cursor when    *)
(* its key was pressed (handle_key captures the row, take_completed_action   *)
(* hands it over unchanged).                                                 *)
THEOREM TargetCorrect == Spec => []TargetIsAsked
  <1>1. IInv => TargetIsAsked
    BY DEF IInv
  <1> QED BY <1>1, Safety, PTL

(* send_signal_if_identity: whatever processes exit and start while the      *)
(* prompt waits or sudo asks for a password, the signal reaches the          *)
(* confirmed process or one that was started after the check, never another  *)
(* that ran at the check, and never a protected one.                         *)
THEOREM SignalCorrect == Spec => []BystandersSpared
  <1>1. IInv => BystandersSpared
    BY DEF IInv
  <1> QED BY <1>1, Safety, PTL

-------------------------------------------------------------------------------
(* The tree of the process table *)

LEMMA SameTable ==
  ASSUME UNCHANGED <<table, parent>>
  PROVE  /\ Paths' = Paths /\ Visible' = Visible /\ \A p : Root(p)' <=> Root(p)
         /\ \A p : IndexIn(p)' = IndexIn(p)
<1>1. Visible' = Visible
  BY DEF Visible
<1>2. ASSUME NEW p PROVE Root(p)' <=> Root(p)
  BY <1>1 DEF Root
<1>3. ASSUME NEW s PROVE IsWay(s)' <=> IsWay(s)
  BY <1>2 DEF IsWay
<1>4. Ways' = Ways
  BY <1>1, <1>3 DEF Ways
<1>5. Paths' = Paths
  BY <1>4 DEF Paths
<1>6. ASSUME NEW p PROVE IndexIn(p)' = IndexIn(p)
  BY DEF IndexIn
<1>. QED BY <1>1, <1>2, <1>5, <1>6

(* The rows of the table are each in one place. *)
TreeTyped ==
  /\ table \in Seq(TreePids) /\ parent \in [TreePids -> TreePids]
  /\ \A i, j \in DOMAIN table : table[i] = table[j] => i = j

LEMMA PlacesAre ==
  ASSUME TreeTyped
  PROVE  /\ Len(table) \in Nat /\ DOMAIN table = 1 .. Len(table)
         /\ Visible \in SUBSET TreePids /\ IsFiniteSet(Visible)
         /\ \A i \in DOMAIN table : table[i] \in Visible /\ IndexIn(table[i]) = i
         /\ \A p \in Visible : IndexIn(p) \in DOMAIN table /\ table[IndexIn(p)] = p
<1>1. Len(table) \in Nat /\ DOMAIN table = 1 .. Len(table) /\ \A i \in DOMAIN table : table[i] \in TreePids
  BY DEF TreeTyped
<1>2. Visible = {table[i] : i \in DOMAIN table}
  BY DEF Visible, ToSet
<1>3. Visible \in SUBSET TreePids
  BY <1>1, <1>2
<1>4. IsFiniteSet(Visible)
  BY <1>3, TreeAssumption, FS_Subset
<1>5. ASSUME NEW i \in DOMAIN table PROVE table[i] \in Visible /\ IndexIn(table[i]) = i
  BY <1>2 DEF IndexIn, TreeTyped
<1>6. ASSUME NEW p \in Visible PROVE IndexIn(p) \in DOMAIN table /\ table[IndexIn(p)] = p
  BY <1>2 DEF IndexIn
<1>. QED BY <1>1, <1>3, <1>4, <1>5, <1>6

(* A way of n rows. *)
WayOf(s, n) == n \in Nat /\ n >= 1 /\ s \in [1 .. n -> Visible] /\ IsWay(s)

(* No row is twice on a way: the rows before it on the two occasions would be
   the same, down to a root that is somebody's child.                        *)
LEMMA WaysAreShort ==
  ASSUME TreeTyped, NEW s, NEW n, WayOf(s, n)
  PROVE  n \in 1 .. Cardinality(Visible) /\ Cardinality(Visible) \in Nat
<1>1. /\ n \in Nat /\ n >= 1 /\ s \in [1 .. n -> Visible] /\ Root(s[1])
      /\ \A i \in 1 .. n : i > 1 => ~Root(s[i]) /\ parent[s[i]] = s[i - 1]
  BY DEF WayOf, IsWay
<1>2. ASSUME NEW i \in 1 .. n, NEW j \in 1 .. n, i < j, s[i] = s[j] PROVE FALSE
  <2>. DEFINE Again == {k \in 1 .. n : \E l \in 1 .. n : k < l /\ s[k] = s[l]}
  <2>1. PICK k \in Again : \A m \in Again : k <= m
    <3>1. Again \in SUBSET Nat /\ Again # {}
      BY <1>2
    <3>. HIDE DEF Again
    <3>. QED BY <3>1, LeastNat
  <2>2. PICK l \in 1 .. n : k < l /\ s[k] = s[l]
    OBVIOUS
  <2>3. k # 1
    BY <1>1, <2>2
  <2>4. k - 1 \in 1 .. n /\ l - 1 \in 1 .. n /\ k - 1 < l - 1 /\ k - 1 < k
    BY <1>1, <2>2, <2>3
  <2>5. s[k - 1] = s[l - 1]
    BY <1>1, <2>2, <2>3
  <2>6. k - 1 \in Again
    BY <2>4, <2>5
  <2>7. k \in Nat
    BY <1>1
  <2>. HIDE DEF Again
  <2>. QED BY <2>1, <2>4, <2>6, <2>7
<1>3. s \in Injection(1 .. n, Visible)
  <2>1. \A i, j \in 1 .. n : s[i] = s[j] => i = j
    BY <1>1, <1>2
  <2>. QED BY <1>1, <2>1 DEF Injection, IsInjective
<1>4. IsFiniteSet(1 .. n) /\ Cardinality(1 .. n) = n
  BY <1>1, FirstNumbers
<1>5. IsFiniteSet(Visible) /\ Cardinality(Visible) \in Nat
  BY PlacesAre, FS_CardinalityType
<1>6. Cardinality(1 .. n) <= Cardinality(Visible)
  BY <1>3, <1>5, FS_Injection
<1>. QED BY <1>1, <1>4, <1>5, <1>6

(* There is one way to a row. *)
LEMMA OneWay ==
  ASSUME NEW s, NEW n, WayOf(s, n), NEW t, NEW m, WayOf(t, m), s[n] = t[m]
  PROVE  s = t /\ n = m
<1>1. /\ n \in Nat /\ n >= 1 /\ s \in [1 .. n -> Visible] /\ Root(s[1])
      /\ \A i \in 1 .. n : i > 1 => ~Root(s[i]) /\ parent[s[i]] = s[i - 1]
  BY DEF WayOf, IsWay
<1>2. /\ m \in Nat /\ m >= 1 /\ t \in [1 .. m -> Visible] /\ Root(t[1])
      /\ \A i \in 1 .. m : i > 1 => ~Root(t[i]) /\ parent[t[i]] = t[i - 1]
  BY DEF WayOf, IsWay
<1>3. ASSUME NEW k \in Nat, k < n, k < m PROVE s[n - k] = t[m - k]
  <2>. DEFINE Apart == {i \in Nat : i < n /\ i < m /\ s[n - i] # t[m - i]}
  <2>1. ASSUME Apart # {} PROVE FALSE
    <3>1. PICK i \in Apart : \A j \in Apart : i <= j
      <4>1. Apart \in SUBSET Nat
        OBVIOUS
      <4>. HIDE DEF Apart
      <4>. QED BY <2>1, <4>1, LeastNat
    <3>2. i \in Nat /\ i < n /\ i < m /\ s[n - i] # t[m - i]
      OBVIOUS
    <3>3. i # 0
      <4>1. s[n - 0] = t[m - 0]
        BY <1>1, <1>2
      <4>. QED BY <3>2, <4>1
    <3>. DEFINE j == i - 1
    <3>4. j \in Nat /\ j < i /\ j < n /\ j < m /\ n - j - 1 = n - i /\ m - j - 1 = m - i
          /\ n - j \in 1 .. n /\ m - j \in 1 .. m /\ n - j > 1 /\ m - j > 1
      BY <1>1, <1>2, <3>2, <3>3
    <3>5. j \notin Apart
      <4>. HIDE DEF Apart, j
      <4>. QED BY <3>1, <3>2, <3>4
    <3>6. s[n - j] = t[m - j]
      BY <3>4, <3>5
    <3>7. parent[s[n - j]] = s[n - j - 1] /\ parent[t[m - j]] = t[m - j - 1]
      <4>. HIDE DEF j, Apart
      <4>. QED BY <1>1, <1>2, <3>4
    <3>. HIDE DEF j, Apart
    <3>. QED BY <3>2, <3>4, <3>6, <3>7
  <2>. QED BY <1>3, <2>1
<1>4. n <= m
  <2>1. ASSUME m < n PROVE FALSE
    <3>0. m - 1 \in Nat /\ m - 1 < n /\ m - 1 < m
      BY <1>1, <1>2, <2>1
    <3>1. s[n - (m - 1)] = t[m - (m - 1)] /\ n - (m - 1) \in 1 .. n /\ n - (m - 1) > 1 /\ m - (m - 1) = 1
      <4>1. s[n - (m - 1)] = t[m - (m - 1)]
        BY <1>3, <3>0
      <4>2. n - (m - 1) \in 1 .. n /\ n - (m - 1) > 1 /\ m - (m - 1) = 1
        BY <1>1, <1>2, <2>1
      <4>. QED BY <4>1, <4>2
    <3>2. ~Root(s[n - (m - 1)])
      BY <1>1, <3>1
    <3>. QED BY <1>2, <3>1, <3>2
  <2>. QED BY <1>1, <1>2, <2>1
<1>5. m <= n
  <2>1. ASSUME n < m PROVE FALSE
    <3>0. n - 1 \in Nat /\ n - 1 < n /\ n - 1 < m
      BY <1>1, <1>2, <2>1
    <3>1. s[n - (n - 1)] = t[m - (n - 1)] /\ m - (n - 1) \in 1 .. m /\ m - (n - 1) > 1 /\ n - (n - 1) = 1
      <4>1. s[n - (n - 1)] = t[m - (n - 1)]
        BY <1>3, <3>0
      <4>2. m - (n - 1) \in 1 .. m /\ m - (n - 1) > 1 /\ n - (n - 1) = 1
        BY <1>1, <1>2, <2>1
      <4>. QED BY <4>1, <4>2
    <3>2. ~Root(t[m - (n - 1)])
      BY <1>2, <3>1
    <3>. QED BY <1>1, <3>1, <3>2
  <2>. QED BY <1>1, <1>2, <2>1
<1>6. n = m
  BY <1>1, <1>2, <1>4, <1>5
<1>7. ASSUME NEW i \in 1 .. n PROVE s[i] = t[i]
  <2>1. n - i \in Nat /\ n - i < n /\ n - i < m /\ n - (n - i) = i /\ m - (n - i) = i
    BY <1>1, <1>2, <1>6
  <2>. QED BY <1>3, <2>1
<1>. QED BY <1>1, <1>2, <1>6, <1>7

(* The path of a row is the way to it. *)
LEMMA PathsAre ==
  ASSUME TreeTyped
  PROVE  /\ \A p \in DOMAIN Paths : /\ WayOf(Paths[p], Len(Paths[p])) /\ p \in Visible
                                    /\ Paths[p][Len(Paths[p])] = p
         /\ \A s, n : WayOf(s, n) => s[n] \in DOMAIN Paths /\ Paths[s[n]] = s
<1>. DEFINE ways == Ways
<1>1. ASSUME NEW s \in ways PROVE WayOf(s, Len(s)) /\ Last(s) = s[Len(s)] /\ Last(s) \in Visible
  <2>1. PICK n \in 1 .. Cardinality(Visible) : s \in [1 .. n -> Visible] /\ IsWay(s)
    BY DEF Ways
  <2>2. Cardinality(Visible) \in Nat
    BY PlacesAre, FS_CardinalityType
  <2>3. n \in Nat /\ n >= 1 /\ Len(s) = n
    BY <2>1, <2>2
  <2>. QED BY <2>1, <2>3 DEF WayOf, Last
<1>2. ASSUME NEW s, NEW n, WayOf(s, n) PROVE s \in ways /\ Len(s) = n /\ Last(s) = s[n]
  <2>1. n \in 1 .. Cardinality(Visible)
    BY <1>2, WaysAreShort
  <2>2. n \in Nat /\ s \in [1 .. n -> Visible] /\ IsWay(s)
    BY <1>2 DEF WayOf
  <2>3. Len(s) = n
    BY <2>2
  <2>. QED BY <2>1, <2>2, <2>3 DEF Ways, Last
<1>3. Paths = [p \in {Last(s) : s \in ways} |-> CHOOSE s \in ways : Last(s) = p]
  BY DEF Paths
<1>. HIDE DEF ways
<1>4. ASSUME NEW p \in DOMAIN Paths PROVE Paths[p] \in ways /\ Last(Paths[p]) = p
  <2>1. \E s \in ways : Last(s) = p
    BY <1>3
  <2>2. Paths[p] = CHOOSE s \in ways : Last(s) = p
    BY <1>3
  <2>. QED BY <2>1, <2>2, Zenon
<1>5. \A p \in DOMAIN Paths : /\ WayOf(Paths[p], Len(Paths[p])) /\ p \in Visible
                              /\ Paths[p][Len(Paths[p])] = p
  BY <1>1, <1>4
<1>6. ASSUME NEW s, NEW n, WayOf(s, n) PROVE s[n] \in DOMAIN Paths /\ Paths[s[n]] = s
  <2>1. s[n] \in DOMAIN Paths
    BY <1>2, <1>3, <1>6
  <2>2. Paths[s[n]] = s
    BY <1>5, <1>6, <2>1, OneWay
  <2>. QED BY <2>1, <2>2
<1>. QED BY <1>5, <1>6

LEMMA PathOfRoot ==
  ASSUME TreeTyped, NEW p \in Visible, Root(p)
  PROVE  p \in DOMAIN Paths /\ Paths[p] = <<p>>
<1>1. <<p>> \in [1 .. 1 -> Visible] /\ <<p>> # <<>> /\ <<p>>[1] = p /\ DOMAIN <<p>> = 1 .. 1
  OBVIOUS
<1>2. WayOf(<<p>>, 1)
  BY <1>1 DEF WayOf, IsWay
<1>. QED BY <1>1, <1>2, PathsAre

LEMMA PathOfChild ==
  ASSUME TreeTyped, NEW q \in Visible, ~Root(q), parent[q] \in DOMAIN Paths
  PROVE  q \in DOMAIN Paths /\ Paths[q] = Append(Paths[parent[q]], q)
<1>. DEFINE s == Paths[parent[q]]  n == Len(s)  t == Append(s, q)
<1>1. WayOf(s, n) /\ s[n] = parent[q]
  BY PathsAre
<1>. HIDE DEF s, n
<1>2. /\ n \in Nat /\ n >= 1 /\ s \in [1 .. n -> Visible] /\ Root(s[1])
      /\ \A i \in 1 .. n : i > 1 => ~Root(s[i]) /\ parent[s[i]] = s[i - 1]
  BY <1>1 DEF WayOf, IsWay
<1>3. s \in Seq(Visible) /\ Len(s) = n
  BY <1>2
<1>4. /\ t \in [1 .. n + 1 -> Visible] /\ t # <<>> /\ DOMAIN t = 1 .. n + 1
      /\ t[n + 1] = q /\ \A i \in 1 .. n : t[i] = s[i]
  <2>1. t \in Seq(Visible) /\ Len(t) = n + 1
    BY <1>3
  <2>2. t[n + 1] = q /\ \A i \in 1 .. n : t[i] = s[i]
    BY <1>2, <1>3
  <2>. HIDE DEF t
  <2>. QED BY <1>2, <2>1, <2>2
<1>. HIDE DEF t
<1>5. Root(t[1])
  BY <1>2, <1>4
<1>6. ASSUME NEW i \in 1 .. n + 1, i > 1 PROVE ~Root(t[i]) /\ parent[t[i]] = t[i - 1]
  <2>1. CASE i = n + 1
    <3>1. t[i] = q /\ t[i - 1] = s[n]
      BY <1>2, <1>4, <2>1
    <3>. QED BY <1>1, <3>1
  <2>2. CASE i # n + 1
    <3>1. i \in 1 .. n /\ i - 1 \in 1 .. n
      BY <1>2, <1>6, <2>2
    <3>. QED BY <1>2, <1>4, <1>6, <3>1
  <2>. QED BY <2>1, <2>2
<1>7. WayOf(t, n + 1)
  <2>1. IsWay(t)
    BY <1>4, <1>5, <1>6 DEF IsWay
  <2>. QED BY <1>2, <1>4, <2>1 DEF WayOf
<1>8. q \in DOMAIN Paths /\ Paths[q] = t
  BY <1>4, <1>7, PathsAre
<1>. QED BY <1>8 DEF t, s

LEMMA PathOfParent ==
  ASSUME TreeTyped, NEW q \in DOMAIN Paths, ~Root(q)
  PROVE  parent[q] \in DOMAIN Paths /\ Len(Paths[parent[q]]) < Len(Paths[q])
<1>. DEFINE s == Paths[q]  n == Len(s)  t == [i \in 1 .. n - 1 |-> s[i]]
<1>1. WayOf(s, n) /\ s[n] = q
  BY PathsAre
<1>. HIDE DEF s, n
<1>2. /\ n \in Nat /\ n >= 1 /\ s \in [1 .. n -> Visible] /\ Root(s[1])
      /\ \A i \in 1 .. n : i > 1 => ~Root(s[i]) /\ parent[s[i]] = s[i - 1]
  BY <1>1 DEF WayOf, IsWay
<1>3. n > 1
  BY <1>1, <1>2
<1>4. parent[q] = s[n - 1]
  BY <1>1, <1>2, <1>3
<1>5. /\ n - 1 \in Nat /\ n - 1 >= 1 /\ t \in [1 .. n - 1 -> Visible] /\ t # <<>> /\ DOMAIN t = 1 .. n - 1
      /\ \A i \in 1 .. n - 1 : t[i] = s[i] /\ i \in 1 .. n
  BY <1>2, <1>3
<1>. HIDE DEF t
<1>6. \A i \in 1 .. n - 1 : i > 1 => ~Root(t[i]) /\ parent[t[i]] = t[i - 1]
  <2>1. ASSUME NEW i \in 1 .. n - 1, i > 1 PROVE ~Root(t[i]) /\ parent[t[i]] = t[i - 1]
    <3>1. i \in 1 .. n /\ i - 1 \in 1 .. n - 1 /\ t[i] = s[i] /\ t[i - 1] = s[i - 1]
      BY <1>2, <1>5, <2>1
    <3>. QED BY <1>2, <2>1, <3>1
  <2>. QED BY <2>1
<1>7. WayOf(t, n - 1)
  <2>1. Root(t[1])
    BY <1>2, <1>5
  <2>2. IsWay(t)
    BY <1>5, <1>6, <2>1 DEF IsWay
  <2>. QED BY <1>5, <2>2 DEF WayOf
<1>8. t[n - 1] = parent[q] /\ Len(t) = n - 1
  <2>1. n - 1 \in 1 .. n - 1
    BY <1>5
  <2>. QED BY <1>4, <1>5, <2>1
<1>9. parent[q] \in DOMAIN Paths /\ Paths[parent[q]] = t
  BY <1>7, <1>8, PathsAre
<1>. QED BY <1>2, <1>8, <1>9 DEF n, s

(* Rows below two rows whose paths part come in the order of these. *)
Extends(s, t) == \A i \in DOMAIN s : i \in DOMAIN t /\ t[i] = s[i]

IsPathOf(s, n) == n \in Nat /\ DOMAIN s = 1 .. n

LEMMA PartsBelow ==
  ASSUME NEW one, NEW other, NEW n, NEW m, IsPathOf(one, n), IsPathOf(other, m),
         NEW lower, NEW aside, Extends(one, lower), Extends(other, aside), Parts(one, other)
  PROVE  Parts(lower, aside)
<1>1. n \in Nat /\ m \in Nat /\ DOMAIN one = 1 .. n /\ DOMAIN other = 1 .. m
  BY DEF IsPathOf
<1>2. PICK i \in DOMAIN one \cap DOMAIN other :
        /\ \A j \in 1 .. i - 1 : one[j] = other[j]
        /\ IndexIn(one[i]) < IndexIn(other[i])
  BY DEF Parts
<1>3. i \in DOMAIN lower /\ i \in DOMAIN aside /\ lower[i] = one[i] /\ aside[i] = other[i]
  BY <1>2 DEF Extends
<1>4. ASSUME NEW j \in 1 .. i - 1 PROVE lower[j] = aside[j]
  <2>1. j \in DOMAIN one /\ j \in DOMAIN other
    BY <1>1, <1>2
  <2>2. lower[j] = one[j] /\ aside[j] = other[j]
    BY <2>1 DEF Extends
  <2>. QED BY <1>2, <2>2
<1>. QED BY <1>2, <1>3, <1>4 DEF Parts

LEMMA AppendExtends ==
  ASSUME NEW s, NEW n, WayOf(s, n), NEW q \in Visible
  PROVE  /\ Len(s) = n /\ Len(Append(s, q)) = n + 1 /\ Append(s, q)[n + 1] = q
         /\ Extends(s, Append(s, q)) /\ DOMAIN Append(s, q) = 1 .. n + 1
         /\ s \in Seq(Visible) /\ Append(s, q) \in Seq(Visible)
<1>1. n \in Nat /\ s \in [1 .. n -> Visible]
  BY DEF WayOf
<1>2. s \in Seq(Visible) /\ Len(s) = n /\ DOMAIN s = 1 .. n
  BY <1>1
<1>3. Append(s, q) \in Seq(Visible) /\ Len(Append(s, q)) = n + 1 /\ Append(s, q)[n + 1] = q
  BY <1>1, <1>2
<1>4. \A i \in 1 .. n : Append(s, q)[i] = s[i]
  BY <1>1, <1>2
<1>5. DOMAIN Append(s, q) = 1 .. n + 1
  BY <1>1, <1>3
<1>. QED BY <1>1, <1>2, <1>3, <1>4, <1>5 DEF Extends

IsChild(c, p) == c \in Visible /\ ~Root(c) /\ parent[c] = p

(* A child comes after its row, and with it after and before all others. *)
LEMMA ChildrenFollow ==
  ASSUME TreeTyped, NEW x \in DOMAIN Paths, NEW c, IsChild(c, x)
  PROVE  /\ c \in DOMAIN Paths /\ Len(Paths[c]) = Len(Paths[x]) + 1
         /\ Before(Paths[x], Paths[c])
         /\ \A e \in DOMAIN Paths : Before(Paths[e], Paths[x]) => Before(Paths[e], Paths[c])
         /\ \A e \in DOMAIN Paths : Parts(Paths[x], Paths[e]) => Parts(Paths[c], Paths[e])
         /\ \A d : IsChild(d, x) /\ IndexIn(c) < IndexIn(d) => Parts(Paths[c], Paths[d])
<1>. DEFINE s == Paths[x]  n == Len(s)  t == Append(s, c)
<1>1. c \in DOMAIN Paths /\ Paths[c] = t
  BY PathOfChild DEF IsChild
<1>2. WayOf(s, n) /\ s[n] = x
  BY PathsAre
<1>3. n \in Nat /\ s \in [1 .. n -> Visible] /\ DOMAIN s = 1 .. n /\ c \in Visible
  BY <1>2 DEF WayOf, IsChild
<1>4. /\ Len(t) = n + 1 /\ t[n + 1] = c /\ Extends(s, t) /\ DOMAIN t = 1 .. n + 1
      /\ s \in Seq(Visible) /\ t \in Seq(Visible)
  <2>. HIDE DEF s, n
  <2>. QED BY <1>2, <1>3, AppendExtends
<1>. HIDE DEF s, n, t
<1>5. ASSUME NEW u \in Seq(Visible), IsStrictPrefix(u, s) \/ u = s PROVE IsStrictPrefix(u, t)
  <2>1. Len(u) <= n /\ Len(u) \in Nat /\ Len(s) = n
    BY <1>3, <1>5 DEF IsStrictPrefix, IsPrefix
  <2>2. \A i \in 1 .. Len(u) : u[i] = s[i]
    <3>1. CASE u = s
      BY <3>1
    <3>2. CASE IsStrictPrefix(u, s)
      <4>1. SubSeq(u, 1, Len(u)) = SubSeq(s, 1, Len(u))
        BY <3>2 DEF IsStrictPrefix, IsPrefix
      <4>2. \A i \in 1 .. Len(u) : SubSeq(u, 1, Len(u))[i] = u[i] /\ SubSeq(s, 1, Len(u))[i] = s[i]
        BY <1>4, <2>1
      <4>. QED BY <4>1, <4>2
    <3>. QED BY <1>5, <3>1, <3>2
  <2>3. \A i \in 1 .. Len(u) : u[i] = t[i]
    BY <1>3, <1>4, <2>1, <2>2 DEF Extends
  <2>4. SubSeq(u, 1, Len(u)) = SubSeq(t, 1, Len(u))
    <3>1. SubSeq(u, 1, Len(u)) = [i \in 1 .. Len(u) |-> u[i]]
      BY <2>1
    <3>2. SubSeq(t, 1, Len(u)) = [i \in 1 .. Len(u) |-> t[i]]
      BY <1>4, <2>1
    <3>. QED BY <2>3, <3>1, <3>2
  <2>5. Len(u) <= Len(t) /\ u # t
    BY <1>3, <1>4, <2>1
  <2>. QED BY <2>4, <2>5 DEF IsStrictPrefix, IsPrefix
<1>6. Before(s, t)
  BY <1>4, <1>5 DEF Before
<1>7. ASSUME NEW e \in DOMAIN Paths
      PROVE  WayOf(Paths[e], Len(Paths[e])) /\ IsPathOf(Paths[e], Len(Paths[e])) /\ Paths[e] \in Seq(Visible)
  <2>. DEFINE u == Paths[e]  k == Len(u)
  <2>1. WayOf(u, k)
    BY PathsAre
  <2>. HIDE DEF u, k
  <2>2. k \in Nat /\ u \in [1 .. k -> Visible]
    BY <2>1 DEF WayOf
  <2>3. u \in Seq(Visible) /\ IsPathOf(u, k)
    BY <2>2 DEF IsPathOf
  <2>. QED BY <2>1, <2>3 DEF u, k
<1>8. IsPathOf(s, n)
  BY <1>3 DEF IsPathOf
<1>9. \A u : Extends(u, u)
  BY DEF Extends
<1>10. ASSUME NEW e \in DOMAIN Paths, Before(Paths[e], s) PROVE Before(Paths[e], t)
  <2>1. CASE IsStrictPrefix(Paths[e], s)
    BY <1>5, <1>7, <2>1 DEF Before
  <2>2. CASE Parts(Paths[e], s)
    <3>1. Parts(Paths[e], t)
      BY <1>4, <1>7, <1>8, <1>9, <2>2, PartsBelow
    <3>. QED BY <3>1 DEF Before
  <2>. QED BY <1>10, <2>1, <2>2 DEF Before
<1>11. ASSUME NEW e \in DOMAIN Paths, Parts(s, Paths[e]) PROVE Parts(t, Paths[e])
  BY <1>4, <1>7, <1>8, <1>9, <1>11, PartsBelow
<1>12. ASSUME NEW d, IsChild(d, x), IndexIn(c) < IndexIn(d) PROVE Parts(t, Paths[d])
  <2>. DEFINE v == Append(s, d)
  <2>1. Paths[d] = v /\ d \in Visible
    BY <1>12, PathOfChild DEF IsChild, s
  <2>2. Extends(s, v) /\ v[n + 1] = d /\ DOMAIN v = 1 .. n + 1
    BY <1>2, <2>1, AppendExtends
  <2>. HIDE DEF v
  <2>. DEFINE k == n + 1
  <2>3. k \in DOMAIN t \cap DOMAIN v /\ 1 .. k - 1 = 1 .. n
    BY <1>3, <1>4, <2>2
  <2>4. \A j \in 1 .. n : t[j] = v[j]
    BY <1>3, <1>4, <2>2 DEF Extends
  <2>5. IndexIn(t[k]) < IndexIn(v[k])
    BY <1>4, <1>12, <2>2
  <2>. HIDE DEF k
  <2>6. \E i \in DOMAIN t \cap DOMAIN v :
          (\A j \in 1 .. i - 1 : t[j] = v[j]) /\ IndexIn(t[i]) < IndexIn(v[i])
    <3>1. \A j \in 1 .. k - 1 : t[j] = v[j]
      BY <2>3, <2>4
    <3>. QED BY <2>3, <2>5, <3>1
  <2>7. Parts(t, v)
    BY <2>6 DEF Parts
  <2>. QED BY <2>1, <2>7
<1>. QED BY <1>1, <1>4, <1>6, <1>10, <1>11, <1>12 DEF s, n

LEMMA RootsInOrder ==
  ASSUME TreeTyped, NEW p \in Visible, Root(p), NEW q \in Visible, Root(q), IndexIn(p) < IndexIn(q)
  PROVE  Parts(Paths[p], Paths[q])
<1>1. Paths[p] = <<p>> /\ Paths[q] = <<q>>
  BY PathOfRoot
<1>2. DOMAIN <<p>> = {1} /\ DOMAIN <<q>> = {1} /\ <<p>>[1] = p /\ <<q>>[1] = q /\ 1 .. 1 - 1 = {}
  OBVIOUS
<1>. QED BY <1>1, <1>2 DEF Parts

(* What is pushed for some rows of the table: the last of them first. *)
LEMMA PileIs ==
  ASSUME TreeTyped, NEW S \in SUBSET DOMAIN table, NEW depth
  PROVE  LET pile == Below(depth, Stacked(Picked(table, S)))  n == Cardinality(S) IN
         /\ n \in Nat /\ DOMAIN pile = 1 .. n
         /\ \A k \in 1 .. n : \E i \in S : pile[k] = [depth |-> depth, pid |-> table[i]]
         /\ \A i \in S : \E k \in 1 .. n : pile[k].pid = table[i]
         /\ \A k, l \in 1 .. n : k < l => IndexIn(pile[l].pid) < IndexIn(pile[k].pid)
<1>. DEFINE n == Cardinality(S)  order == InOrder(S)  picked == Picked(table, S)
            turned == Stacked(picked)  pile == Below(depth, turned)
<1>1. S \in SUBSET Nat /\ IsFiniteSet(S) /\ S \in SUBSET DOMAIN table /\ DOMAIN table \in SUBSET Nat
  <2>1. Len(table) \in Nat /\ DOMAIN table = 1 .. Len(table)
    BY PlacesAre
  <2>2. IsFiniteSet(DOMAIN table)
    BY <2>1, FirstNumbers
  <2>. QED BY <2>1, <2>2, FS_Subset
<1>2. /\ n \in Nat /\ \A k \in 1 .. n : order[k] \in S
      /\ \A i \in S : CountTo(S, i) \in 1 .. n /\ order[CountTo(S, i)] = i
      /\ \A k, l \in 1 .. n : k < l => order[k] < order[l]
  BY <1>1, InOrderIs
<1>3. DOMAIN picked = 1 .. n /\ Len(picked) = n /\ \A k \in 1 .. n : picked[k] = table[order[k]]
  BY <1>1, PickedIs
<1>. HIDE DEF n, order, picked
<1>4. DOMAIN turned = 1 .. n /\ \A k \in 1 .. n : turned[k] = table[order[n - k + 1]]
  <2>1. turned = [k \in 1 .. n |-> picked[n - k + 1]]
    BY <1>3 DEF Stacked, Reverse
  <2>2. \A k \in 1 .. n : n - k + 1 \in 1 .. n
    BY <1>2
  <2>. QED BY <1>3, <2>1, <2>2
<1>. HIDE DEF turned
<1>5. DOMAIN pile = 1 .. n /\ \A k \in 1 .. n : pile[k] = [depth |-> depth, pid |-> table[order[n - k + 1]]]
  BY <1>4 DEF Below
<1>. HIDE DEF pile
<1>6. \A k \in 1 .. n : n - k + 1 \in 1 .. n
  BY <1>2
<1>7. ASSUME NEW k \in 1 .. n PROVE \E i \in S : pile[k] = [depth |-> depth, pid |-> table[i]]
  BY <1>2, <1>5, <1>6
<1>8. ASSUME NEW i \in S PROVE \E k \in 1 .. n : pile[k].pid = table[i]
  <2>. DEFINE c == CountTo(S, i)
  <2>1. c \in 1 .. n /\ order[c] = i
    BY <1>2
  <2>. HIDE DEF c
  <2>2. n - c + 1 \in 1 .. n /\ n - (n - c + 1) + 1 = c
    BY <1>2, <2>1
  <2>3. pile[n - c + 1].pid = table[i]
    BY <1>5, <2>1, <2>2
  <2>. QED BY <2>2, <2>3
<1>9. ASSUME NEW k \in 1 .. n, NEW l \in 1 .. n, k < l
      PROVE  IndexIn(pile[l].pid) < IndexIn(pile[k].pid)
  <2>. DEFINE a == n - k + 1  b == n - l + 1
  <2>1. a \in 1 .. n /\ b \in 1 .. n /\ b < a
    BY <1>2, <1>9
  <2>2. pile[k].pid = table[order[a]] /\ pile[l].pid = table[order[b]]
    BY <1>5
  <2>. HIDE DEF a, b
  <2>3. order[b] < order[a] /\ order[a] \in DOMAIN table /\ order[b] \in DOMAIN table
    BY <1>1, <1>2, <2>1
  <2>. QED BY <2>2, <2>3, PlacesAre
<1>. QED BY <1>2, <1>5, <1>7, <1>8, <1>9 DEF pile, turned, picked, n

(* The walk: the rows so far and those to come have their depths and stand in
   the order of the tree, the next one last; a row is among them as soon as the
   one it hangs from has been shown.                                          *)
TreeRows == [depth : Nat, pid : DOMAIN Paths]

Shown(part) == {part[i].pid : i \in DOMAIN part}

PlacedRight(part) ==
  part \in Seq(TreeRows) /\ \A i \in DOMAIN part : part[i].depth = Len(Paths[part[i].pid]) - 1

WalkInOrder(done, todo) ==
  /\ \A i, j \in DOMAIN done : i < j => Before(Paths[done[i].pid], Paths[done[j].pid])
  /\ \A i, j \in DOMAIN todo : i < j => Parts(Paths[todo[j].pid], Paths[todo[i].pid])
  /\ \A i \in DOMAIN done, j \in DOMAIN todo : Before(Paths[done[i].pid], Paths[todo[j].pid])

Reached(done, todo) ==
  \A q \in Visible : Root(q) \/ parent[q] \in Shown(done) => q \in Shown(done) \cup Shown(todo)

WalkInv(done, todo) ==
  PlacedRight(done) /\ PlacedRight(todo) /\ WalkInOrder(done, todo) /\ Reached(done, todo)

TreeInv == TreeTyped /\ WalkInv(tree, stack)

LEMMA SameWalk ==
  ASSUME UNCHANGED <<table, parent>>, WalkInv(tree', stack')
  PROVE  WalkInv(tree, stack)'
<1>1. /\ Paths' = Paths /\ Visible' = Visible /\ parent' = parent
      /\ \A p : Root(p)' <=> Root(p)
      /\ \A p : IndexIn(p)' = IndexIn(p)
  BY SameTable
<1>2. ASSUME NEW one, NEW other PROVE Parts(one, other)' <=> Parts(one, other)
  BY <1>1 DEF Parts
<1>3. ASSUME NEW one, NEW other PROVE Before(one, other)' <=> Before(one, other)
  BY <1>2 DEF Before, IsStrictPrefix, IsPrefix
<1>4. PlacedRight(tree)' /\ PlacedRight(stack)'
  BY <1>1 DEF WalkInv, PlacedRight, TreeRows
<1>5. WalkInOrder(tree, stack)'
  BY <1>1, <1>2, <1>3 DEF WalkInv, WalkInOrder
<1>6. Reached(tree, stack)'
  BY <1>1 DEF WalkInv, Reached, Shown
<1>. QED BY <1>4, <1>5, <1>6 DEF WalkInv

(* No row comes before itself. *)
LEMMA BeforeIsStrict ==
  ASSUME TreeTyped, NEW p \in DOMAIN Paths
  PROVE  ~Before(Paths[p], Paths[p]) /\ ~Parts(Paths[p], Paths[p])
<1>. DEFINE s == Paths[p]
<1>1. \A i \in DOMAIN s : IndexIn(s[i]) \in Nat
  <2>1. WayOf(s, Len(s))
    BY PathsAre
  <2>2. \A i \in DOMAIN s : s[i] \in Visible
    BY <2>1 DEF WayOf
  <2>. HIDE DEF s
  <2>. QED BY <2>2, PlacesAre
<1>. HIDE DEF s
<1>2. ~Parts(s, s)
  BY <1>1 DEF Parts
<1>3. ~IsStrictPrefix(s, s)
  BY DEF IsStrictPrefix
<1>. QED BY <1>2, <1>3 DEF Before, s

(* What is pushed below a row, or for the roots, the last row first. *)
IsPile(pile, m, depth) ==
  /\ m \in Nat /\ DOMAIN pile = 1 .. m /\ depth \in Nat
  /\ \A k \in 1 .. m : pile[k] \in TreeRows /\ pile[k].depth = depth /\ Len(Paths[pile[k].pid]) = depth + 1
  /\ \A k, l \in 1 .. m : k < l => Parts(Paths[pile[l].pid], Paths[pile[k].pid])

LEMMA RootPile ==
  ASSUME TreeTyped
  PROVE  \E m : LET pile == Below(0, Stacked(Picked(table, RootPlaces))) IN
         /\ IsPile(pile, m, 0)
         /\ \A q \in Visible : Root(q) => \E k \in 1 .. m : pile[k].pid = q
<1>. DEFINE S == RootPlaces  m == Cardinality(S)  pile == Below(0, Stacked(Picked(table, S)))
<1>1. S \in SUBSET DOMAIN table
  BY DEF RootPlaces
<1>2. \A i \in S : table[i] \in Visible /\ Root(table[i])
  BY PlacesAre DEF RootPlaces
<1>3. \A q \in Visible : Root(q) => \E i \in S : table[i] = q
  BY PlacesAre DEF RootPlaces
<1>. HIDE DEF S
<1>4. /\ m \in Nat /\ DOMAIN pile = 1 .. m
      /\ \A k \in 1 .. m : \E i \in S : pile[k] = [depth |-> 0, pid |-> table[i]]
      /\ \A i \in S : \E k \in 1 .. m : pile[k].pid = table[i]
      /\ \A k, l \in 1 .. m : k < l => IndexIn(pile[l].pid) < IndexIn(pile[k].pid)
  BY <1>1, PileIs
<1>. HIDE DEF pile, m
<1>5. \A k \in 1 .. m : /\ pile[k].pid \in Visible /\ Root(pile[k].pid) /\ pile[k].depth = 0
                        /\ pile[k] = [depth |-> 0, pid |-> pile[k].pid]
  BY <1>2, <1>4
<1>6. ASSUME NEW k \in 1 .. m
      PROVE  pile[k] \in TreeRows /\ pile[k].depth = 0 /\ Len(Paths[pile[k].pid]) = 0 + 1
  <2>1. pile[k].pid \in DOMAIN Paths /\ Paths[pile[k].pid] = <<pile[k].pid>>
    BY <1>5, PathOfRoot
  <2>2. pile[k] = [depth |-> 0, pid |-> pile[k].pid] /\ pile[k].depth = 0
    BY <1>5
  <2>3. pile[k] \in TreeRows
    BY <2>1, <2>2 DEF TreeRows
  <2>. QED BY <2>1, <2>2, <2>3
<1>7. \A k, l \in 1 .. m : k < l => Parts(Paths[pile[l].pid], Paths[pile[k].pid])
  BY <1>4, <1>5, RootsInOrder
<1>8. IsPile(pile, m, 0)
  BY <1>4, <1>6, <1>7 DEF IsPile
<1>9. \A q \in Visible : Root(q) => \E k \in 1 .. m : pile[k].pid = q
  BY <1>3, <1>4
<1>. QED BY <1>8, <1>9 DEF pile, S

LEMMA ChildPile ==
  ASSUME TreeTyped, NEW x \in DOMAIN Paths
  PROVE  \E m : LET pile == Below(Len(Paths[x]), Stacked(Children(x))) IN
         /\ IsPile(pile, m, Len(Paths[x])) /\ \A k \in 1 .. m : IsChild(pile[k].pid, x)
         /\ \A q : IsChild(q, x) => \E k \in 1 .. m : pile[k].pid = q
<1>. DEFINE S == ChildPlaces(x)  m == Cardinality(S)  depth == Len(Paths[x])
            pile == Below(depth, Stacked(Picked(table, S)))
<1>1. S \in SUBSET DOMAIN table
  BY DEF ChildPlaces
<1>2. \A i \in S : IsChild(table[i], x)
  BY PlacesAre DEF ChildPlaces, IsChild
<1>3. \A q : IsChild(q, x) => \E i \in S : table[i] = q
  BY PlacesAre DEF ChildPlaces, IsChild
<1>0. depth \in Nat
  <2>1. WayOf(Paths[x], depth)
    BY PathsAre
  <2>. QED BY <2>1 DEF WayOf
<1>. HIDE DEF S, depth
<1>4. /\ m \in Nat /\ DOMAIN pile = 1 .. m
      /\ \A k \in 1 .. m : \E i \in S : pile[k] = [depth |-> depth, pid |-> table[i]]
      /\ \A i \in S : \E k \in 1 .. m : pile[k].pid = table[i]
      /\ \A k, l \in 1 .. m : k < l => IndexIn(pile[l].pid) < IndexIn(pile[k].pid)
  BY <1>1, PileIs
<1>. HIDE DEF pile, m
<1>5. \A k \in 1 .. m : /\ IsChild(pile[k].pid, x) /\ pile[k].depth = depth
                        /\ pile[k] = [depth |-> depth, pid |-> pile[k].pid]
  BY <1>2, <1>4
<1>6. ASSUME NEW k \in 1 .. m
      PROVE  pile[k] \in TreeRows /\ pile[k].depth = depth /\ Len(Paths[pile[k].pid]) = depth + 1
  <2>1. pile[k].pid \in DOMAIN Paths /\ Len(Paths[pile[k].pid]) = Len(Paths[x]) + 1
    BY <1>5, ChildrenFollow
  <2>2. pile[k] = [depth |-> depth, pid |-> pile[k].pid] /\ pile[k].depth = depth
    BY <1>5
  <2>3. pile[k] \in TreeRows
    BY <1>0, <2>1, <2>2 DEF TreeRows
  <2>. QED BY <2>1, <2>2, <2>3 DEF depth
<1>7. \A k, l \in 1 .. m : k < l => Parts(Paths[pile[l].pid], Paths[pile[k].pid])
  BY <1>4, <1>5, ChildrenFollow
<1>8. IsPile(pile, m, depth)
  BY <1>0, <1>4, <1>6, <1>7 DEF IsPile
<1>9. \A q : IsChild(q, x) => \E k \in 1 .. m : pile[k].pid = q
  BY <1>3, <1>4
<1>10. \A k \in 1 .. m : IsChild(pile[k].pid, x)
  BY <1>5
<1>. QED BY <1>8, <1>9, <1>10 DEF pile, S, depth, Children

LEMMA RowOfWalk ==
  ASSUME TreeTyped, NEW done, NEW todo, WalkInv(done, todo)
  PROVE  /\ Len(done) \in Nat /\ DOMAIN done = 1 .. Len(done)
         /\ Len(todo) \in Nat /\ DOMAIN todo = 1 .. Len(todo)
         /\ \A i \in DOMAIN done : done[i] \in TreeRows /\ done[i].pid \in DOMAIN Paths
         /\ \A i \in DOMAIN todo : todo[i] \in TreeRows /\ todo[i].pid \in DOMAIN Paths
<1>1. done \in Seq(TreeRows) /\ todo \in Seq(TreeRows)
  BY DEF WalkInv, PlacedRight
<1>2. \A row \in TreeRows : row.pid \in DOMAIN Paths
  BY DEF TreeRows
<1>. QED BY <1>1, <1>2

(* The row to come next has not been shown. *)
LEMMA NextIsNew ==
  ASSUME TreeTyped, NEW done, NEW todo, WalkInv(done, todo), todo # <<>>
  PROVE  Last(todo).pid \notin Shown(done)
<1>1. Len(todo) \in DOMAIN todo /\ todo[Len(todo)].pid \in DOMAIN Paths
  <2>1. Len(todo) \in Nat /\ Len(todo) # 0
    BY DEF WalkInv, PlacedRight
  <2>. QED BY <2>1, RowOfWalk
<1>2. \A i \in DOMAIN done : Before(Paths[done[i].pid], Paths[todo[Len(todo)].pid])
  BY <1>1 DEF WalkInv, WalkInOrder
<1>. QED BY <1>1, <1>2, BeforeIsStrict DEF Shown, Last

LEMMA BelowIsFunction ==
  ASSUME NEW depth, NEW pids
  PROVE  LET pile == Below(depth, pids) IN pile = [k \in DOMAIN pile |-> pile[k]]
BY DEF Below

AreLists(R, s, n, t, m) == s \in Seq(R) /\ t \in Seq(R) /\ n = Len(s) /\ m = Len(t)

IsJoined(j, R, s, n, t, m) ==
  /\ j \in Seq(R) /\ DOMAIN j = 1 .. n + m
  /\ \A k \in 1 .. n : j[k] = s[k]
  /\ \A k \in 1 .. m : j[n + k] = t[k]

LEMMA Joined ==
  ASSUME NEW R, NEW s, NEW n, NEW t, NEW m, AreLists(R, s, n, t, m)
  PROVE  IsJoined(s \o t, R, s, n, t, m)
<1>0. s \in Seq(R) /\ t \in Seq(R) /\ n = Len(s) /\ m = Len(t)
  BY DEF AreLists
<1>1. s \o t \in Seq(R) /\ Len(s \o t) = n + m
  BY <1>0
<1>2. \A k \in 1 .. n + m : (s \o t)[k] = IF k <= n THEN s[k] ELSE t[k - n]
  BY <1>0
<1>3. n \in Nat /\ m \in Nat
  BY <1>0
<1>. DEFINE j == s \o t
<1>. HIDE DEF j
<1>5. \A k \in 1 .. n : k \in 1 .. n + m /\ k <= n
  BY <1>3
<1>6. DOMAIN j = 1 .. n + m
  BY <1>1 DEF j
<1>7. j \in Seq(R)
  BY <1>1 DEF j
<1>8. \A k \in 1 .. n + m : j[k] = IF k <= n THEN s[k] ELSE t[k - n]
  BY <1>2 DEF j
<1>9. \A k \in 1 .. n : j[k] = s[k]
  BY <1>5, <1>8
<1>10. ASSUME NEW k \in 1 .. m PROVE j[n + k] = t[k]
  <2>. DEFINE l == n + k
  <2>1. l \in 1 .. n + m /\ ~(l <= n) /\ l - n = k
    BY <1>3
  <2>. HIDE DEF l
  <2>2. j[l] = t[l - n]
    BY <1>8, <2>1
  <2>. QED BY <2>1, <2>2 DEF l
<1>11. IsJoined(j, R, s, n, t, m)
  BY <1>6, <1>7, <1>9, <1>10 DEF IsJoined
<1>. QED BY <1>11 DEF j

(* The next row is shown, and its children are pushed where it was. *)
LEMMA WalkOn ==
  ASSUME TreeTyped, NEW done, NEW todo, WalkInv(done, todo), todo # <<>>,
         NEW row, row = Last(todo)
  PROVE  WalkInv(Append(done, row), Front(todo) \o Below(row.depth + 1, Stacked(Children(row.pid))))
<1>. DEFINE d == Len(done)  n == Len(todo) - 1  x == row.pid  depth == Len(Paths[x])
            more == Append(done, row)
<1>1. /\ d \in Nat /\ DOMAIN done = 1 .. d /\ n \in Nat /\ DOMAIN todo = 1 .. n + 1 /\ row = todo[n + 1]
      /\ done \in Seq(TreeRows) /\ todo \in Seq(TreeRows) /\ row \in TreeRows
  <2>1. done \in Seq(TreeRows) /\ todo \in Seq(TreeRows)
    BY DEF WalkInv, PlacedRight
  <2>2. n \in Nat
    BY <2>1
  <2>3. row = todo[n + 1] /\ n + 1 = Len(todo)
    BY <2>1 DEF Last
  <2>. QED BY <2>1, <2>2, <2>3
<1>2. x \in DOMAIN Paths /\ row.depth + 1 = depth /\ depth \in Nat
  <2>1. x \in DOMAIN Paths /\ row.depth \in Nat
    BY <1>1 DEF TreeRows
  <2>2. n + 1 \in DOMAIN todo
    BY <1>1
  <2>3. row.depth = depth - 1
    BY <1>1, <2>2 DEF WalkInv, PlacedRight
  <2>4. depth \in Nat
    <3>1. WayOf(Paths[x], depth)
      BY <2>1, PathsAre
    <3>. QED BY <3>1 DEF WayOf
  <2>. HIDE DEF depth, x
  <2>. QED BY <2>1, <2>3, <2>4
<1>. DEFINE pile == Below(depth, Stacked(Children(x)))
<1>3. PICK m : /\ IsPile(pile, m, depth) /\ \A k \in 1 .. m : IsChild(pile[k].pid, x)
               /\ \A q : IsChild(q, x) => \E k \in 1 .. m : pile[k].pid = q
  BY <1>2, ChildPile
<1>. DEFINE left == Front(todo) \o pile
<1>4. /\ m \in Nat /\ DOMAIN pile = 1 .. m /\ pile \in Seq(TreeRows)
      /\ \A k \in 1 .. m : pile[k] \in TreeRows
  <2>. HIDE DEF pile, depth
  <2>1. m \in Nat /\ DOMAIN pile = 1 .. m /\ \A k \in 1 .. m : pile[k] \in TreeRows
    BY <1>3 DEF IsPile
  <2>2. pile = [k \in 1 .. m |-> pile[k]]
    <3>1. pile = [k \in DOMAIN pile |-> pile[k]]
      BY BelowIsFunction DEF pile
    <3>. QED BY <2>1, <3>1
  <2>. QED BY <2>1, <2>2
<1>. HIDE DEF pile
<1>5. /\ left \in Seq(TreeRows) /\ DOMAIN left = 1 .. n + m
      /\ \A k \in 1 .. n : left[k] = todo[k]
      /\ \A k \in 1 .. m : left[n + k] = pile[k]
  <2>. DEFINE front == Front(todo)
  <2>0. front = SubSeq(todo, 1, n)
    BY DEF Front
  <2>1. front \in Seq(TreeRows) /\ Len(front) = n /\ \A k \in 1 .. n : front[k] = todo[k]
    BY <1>1, <2>0
  <2>. HIDE DEF front
  <2>2. Len(pile) = m
    BY <1>4
  <2>. HIDE DEF n
  <2>3. /\ front \o pile \in Seq(TreeRows) /\ DOMAIN (front \o pile) = 1 .. n + m
        /\ \A k \in 1 .. n : (front \o pile)[k] = front[k]
        /\ \A k \in 1 .. m : (front \o pile)[n + k] = pile[k]
    <3>1. front \in Seq(TreeRows) /\ pile \in Seq(TreeRows) /\ n = Len(front) /\ m = Len(pile)
      BY <1>4, <2>1, <2>2
    <3>2. IsJoined(front \o pile, TreeRows, front, n, pile, m)
      BY <3>1, Joined DEF AreLists
    <3>. QED BY <3>2 DEF IsJoined
  <2>4. left = front \o pile
    BY DEF front
  <2>. HIDE DEF left
  <2>. QED BY <2>1, <2>3, <2>4
<1>. HIDE DEF left
<1>6. /\ more \in Seq(TreeRows) /\ DOMAIN more = 1 .. d + 1 /\ more[d + 1] = row
      /\ \A i \in 1 .. d : more[i] = done[i]
  BY <1>1
<1>. HIDE DEF more, d
<1>7. \A k \in 1 .. n + m : k \in 1 .. n \/ (k - n \in 1 .. m /\ k = n + (k - n))
  BY <1>1, <1>4
<1>8. \A i \in 1 .. d + 1 : i \in 1 .. d \/ i = d + 1
  BY <1>1
<1>. HIDE DEF n
(* the children among the others *)
<1>9. /\ \A i \in 1 .. d : done[i].pid \in DOMAIN Paths
      /\ \A k \in 1 .. n : todo[k].pid \in DOMAIN Paths /\ k \in 1 .. n + 1 /\ k < n + 1
      /\ n + 1 \in 1 .. n + 1
  BY <1>1, RowOfWalk
<1>10. ASSUME NEW k \in 1 .. m
       PROVE  /\ \A i \in 1 .. d : Before(Paths[done[i].pid], Paths[pile[k].pid])
              /\ Before(Paths[x], Paths[pile[k].pid])
              /\ \A j \in 1 .. n : Parts(Paths[pile[k].pid], Paths[todo[j].pid])
  <2>. DEFINE c == pile[k].pid
  <2>1. IsChild(c, x)
    BY <1>3
  <2>. HIDE DEF c
  <2>2. /\ Before(Paths[x], Paths[c])
        /\ \A e \in DOMAIN Paths : Before(Paths[e], Paths[x]) => Before(Paths[e], Paths[c])
        /\ \A e \in DOMAIN Paths : Parts(Paths[x], Paths[e]) => Parts(Paths[c], Paths[e])
    BY <1>2, <2>1, ChildrenFollow
  <2>3. \A i \in 1 .. d : Before(Paths[done[i].pid], Paths[x])
    BY <1>1, <1>9 DEF WalkInv, WalkInOrder
  <2>4. \A j \in 1 .. n : Parts(Paths[x], Paths[todo[j].pid])
    BY <1>1, <1>9 DEF WalkInv, WalkInOrder
  <2>. QED BY <1>9, <2>2, <2>3, <2>4 DEF c
<1>11. PlacedRight(more)
  <2>1. \A i \in 1 .. d : done[i].depth = Len(Paths[done[i].pid]) - 1
    BY <1>1 DEF WalkInv, PlacedRight
  <2>2. todo[n + 1].depth = Len(Paths[todo[n + 1].pid]) - 1
    BY <1>1, <1>9 DEF WalkInv, PlacedRight
  <2>. QED BY <1>1, <1>6, <1>8, <2>1, <2>2 DEF PlacedRight
<1>12. PlacedRight(left)
  <2>1. \A k \in 1 .. n : todo[k].depth = Len(Paths[todo[k].pid]) - 1
    BY <1>1, <1>9 DEF WalkInv, PlacedRight
  <2>2. \A k \in 1 .. m : pile[k].depth = Len(Paths[pile[k].pid]) - 1
    <3>. HIDE DEF depth
    <3>. QED BY <1>2, <1>3 DEF IsPile
  <2>3. ASSUME NEW k \in 1 .. n + m PROVE left[k].depth = Len(Paths[left[k].pid]) - 1
    <3>1. CASE k \in 1 .. n
      BY <1>5, <2>1, <3>1
    <3>2. CASE k - n \in 1 .. m /\ k = n + (k - n)
      BY <1>5, <2>2, <3>2
    <3>. QED BY <1>7, <3>1, <3>2
  <2>. QED BY <1>5, <2>3 DEF PlacedRight
<1>13. \A i, j \in 1 .. d + 1 : i < j => Before(Paths[more[i].pid], Paths[more[j].pid])
  <2>1. ASSUME NEW i \in 1 .. d + 1, NEW j \in 1 .. d + 1, i < j
        PROVE  Before(Paths[more[i].pid], Paths[more[j].pid])
    <3>1. i \in 1 .. d /\ more[i] = done[i]
      BY <1>1, <1>6, <2>1
    <3>2. CASE j \in 1 .. d
      BY <1>1, <1>6, <2>1, <3>1, <3>2 DEF WalkInv, WalkInOrder
    <3>3. CASE j = d + 1
      <4>1. Before(Paths[done[i].pid], Paths[todo[n + 1].pid])
        BY <1>1, <1>9, <3>1 DEF WalkInv, WalkInOrder
      <4>. QED BY <1>1, <1>6, <3>1, <3>3, <4>1
    <3>. QED BY <1>8, <3>2, <3>3
  <2>. QED BY <2>1
<1>14. \A k, l \in 1 .. n + m : k < l => Parts(Paths[left[l].pid], Paths[left[k].pid])
  <2>1. ASSUME NEW k \in 1 .. n + m, NEW l \in 1 .. n + m, k < l
        PROVE  Parts(Paths[left[l].pid], Paths[left[k].pid])
    <3>1. CASE l \in 1 .. n
      <4>1. k \in 1 .. n
        BY <1>1, <1>4, <2>1, <3>1
      <4>. QED BY <1>1, <1>5, <1>9, <2>1, <3>1, <4>1 DEF WalkInv, WalkInOrder
    <3>2. CASE k \in 1 .. n /\ l - n \in 1 .. m /\ l = n + (l - n)
      BY <1>5, <1>10, <3>2
    <3>3. CASE k - n \in 1 .. m /\ k = n + (k - n) /\ l - n \in 1 .. m /\ l = n + (l - n)
      <4>1. k - n < l - n
        BY <1>1, <1>4, <2>1
      <4>2. left[k] = pile[k - n] /\ left[l] = pile[l - n]
        BY <1>5, <3>3
      <4>3. \A a, b \in 1 .. m : a < b => Parts(Paths[pile[b].pid], Paths[pile[a].pid])
        BY <1>3 DEF IsPile
      <4>. QED BY <3>3, <4>1, <4>2, <4>3
    <3>. QED BY <1>7, <3>1, <3>2, <3>3
  <2>. QED BY <2>1
<1>15. ASSUME NEW i \in 1 .. d + 1, NEW k \in 1 .. n + m
       PROVE  Before(Paths[more[i].pid], Paths[left[k].pid])
  <2>1. CASE i \in 1 .. d /\ k \in 1 .. n
    BY <1>1, <1>5, <1>6, <1>9, <2>1 DEF WalkInv, WalkInOrder
  <2>2. CASE i \in 1 .. d /\ k - n \in 1 .. m /\ k = n + (k - n)
    BY <1>5, <1>6, <1>10, <2>2
  <2>3. CASE i = d + 1 /\ k \in 1 .. n
    <3>1. Parts(Paths[todo[n + 1].pid], Paths[todo[k].pid])
      BY <1>1, <1>9, <2>3 DEF WalkInv, WalkInOrder
    <3>. QED BY <1>1, <1>5, <1>6, <2>3, <3>1 DEF Before
  <2>4. CASE i = d + 1 /\ k - n \in 1 .. m /\ k = n + (k - n)
    BY <1>5, <1>6, <1>10, <2>4
  <2>. QED BY <1>7, <1>8, <2>1, <2>2, <2>3, <2>4
<1>16. WalkInOrder(more, left)
  BY <1>5, <1>6, <1>13, <1>14, <1>15 DEF WalkInOrder
<1>17. ASSUME NEW q \in Visible, Root(q) \/ parent[q] \in Shown(more)
       PROVE  q \in Shown(more) \cup Shown(left)
  <2>1. ASSUME NEW p \in Shown(done) PROVE p \in Shown(more)
    <3>1. PICK i \in 1 .. d : done[i].pid = p
      BY <1>1 DEF Shown
    <3>2. i \in 1 .. d + 1 /\ more[i].pid = p
      BY <1>1, <1>6, <3>1
    <3>. QED BY <1>6, <3>2 DEF Shown
  <2>2. x \in Shown(more)
    <3>1. d + 1 \in 1 .. d + 1
      BY <1>1
    <3>. QED BY <1>6, <3>1 DEF Shown
  <2>3. ASSUME NEW p \in Shown(more) PROVE p \in Shown(done) \/ p = x
    BY <1>1, <1>6, <1>8 DEF Shown
  <2>4. CASE Root(q) \/ parent[q] \in Shown(done)
    <3>1. q \in Shown(done) \cup Shown(todo)
      BY <2>4 DEF WalkInv, Reached
    <3>2. CASE q \in Shown(todo)
      <4>1. PICK k \in 1 .. n + 1 : todo[k].pid = q
        BY <1>1, <3>2 DEF Shown
      <4>2. CASE k = n + 1
        BY <1>1, <2>2, <4>1, <4>2
      <4>3. CASE k # n + 1
        <5>1. k \in 1 .. n /\ k \in 1 .. n + m
          BY <1>1, <1>4, <4>3
        <5>. QED BY <1>5, <4>1, <5>1 DEF Shown
      <4>. QED BY <4>2, <4>3
    <3>. QED BY <2>1, <3>1, <3>2
  <2>5. CASE ~Root(q) /\ parent[q] = x
    <3>1. PICK k \in 1 .. m : pile[k].pid = q
      BY <1>3, <2>5 DEF IsChild
    <3>2. n + k \in 1 .. n + m /\ left[n + k].pid = q
      BY <1>1, <1>4, <1>5, <3>1
    <3>. QED BY <1>5, <3>2 DEF Shown
  <2>. QED BY <1>17, <2>3, <2>4, <2>5
<1>18. WalkInv(more, left)
  BY <1>11, <1>12, <1>16, <1>17 DEF WalkInv, Reached
<1>. QED BY <1>2, <1>18 DEF more, left, pile

LEMMA TreeStarts == TreeInit => TreeInv
<1>. SUFFICES ASSUME TreeInit PROVE TreeInv
  OBVIOUS
<1>1. TreeTyped
  <2>1. PICK some \in SUBSET TreePids : table \in SetToSeqs(some)
    BY DEF TreeInit
  <2>. DEFINE d == Cardinality(some)
  <2>2. table \in [1 .. d -> some] /\ \A i, j \in 1 .. d : i # j => table[i] # table[j]
    BY <2>1 DEF SetToSeqs
  <2>3. d \in Nat
    BY TreeAssumption, FS_Subset, FS_CardinalityType
  <2>. HIDE DEF d
  <2>4. table \in [1 .. d -> TreePids]
    BY <2>2
  <2>5. table \in Seq(TreePids)
    BY <2>3, <2>4
  <2>6. \A i, j \in DOMAIN table : table[i] = table[j] => i = j
    BY <2>2, <2>4
  <2>7. parent \in [TreePids -> TreePids]
    BY DEF TreeInit
  <2>. QED BY <2>5, <2>6, <2>7 DEF TreeTyped
<1>. DEFINE pile == Below(0, Stacked(Picked(table, RootPlaces)))
<1>2. PICK m : /\ IsPile(pile, m, 0)
               /\ \A q \in Visible : Root(q) => \E k \in 1 .. m : pile[k].pid = q
  BY <1>1, RootPile
<1>3. stack = pile /\ tree = <<>>
  BY DEF TreeInit
<1>4. pile = [k \in DOMAIN pile |-> pile[k]]
  BY BelowIsFunction
<1>. HIDE DEF pile
<1>5. /\ m \in Nat /\ DOMAIN pile = 1 .. m
      /\ \A k \in 1 .. m : pile[k] \in TreeRows /\ pile[k].depth = 0 /\ Len(Paths[pile[k].pid]) = 0 + 1
      /\ \A k, l \in 1 .. m : k < l => Parts(Paths[pile[l].pid], Paths[pile[k].pid])
  BY <1>2 DEF IsPile
<1>6. stack \in Seq(TreeRows) /\ DOMAIN stack = 1 .. m
  <2>1. pile \in [1 .. m -> TreeRows]
    BY <1>4, <1>5
  <2>. QED BY <1>3, <1>5, <2>1
<1>7. PlacedRight(stack)
  <2>1. ASSUME NEW k \in 1 .. m PROVE stack[k].depth = Len(Paths[stack[k].pid]) - 1
    <3>1. stack[k].depth = 0 /\ Len(Paths[stack[k].pid]) = 0 + 1
      BY <1>3, <1>5
    <3>2. 0 = (0 + 1) - 1
      OBVIOUS
    <3>. QED BY <3>1, <3>2
  <2>. QED BY <1>6, <2>1 DEF PlacedRight
<1>8. tree \in Seq(TreeRows) /\ DOMAIN tree = {}
  BY <1>3
<1>9. PlacedRight(tree)
  BY <1>8 DEF PlacedRight
<1>10. WalkInOrder(tree, stack)
  BY <1>3, <1>5, <1>6, <1>8 DEF WalkInOrder
<1>11. Reached(tree, stack)
  BY <1>2, <1>3, <1>6, <1>8 DEF Reached, Shown
<1>. QED BY <1>1, <1>7, <1>9, <1>10, <1>11 DEF TreeInv, WalkInv

LEMMA VisitKeeps == TreeInv /\ [Visit]_treeVars => TreeInv'
<1>. SUFFICES ASSUME TreeInv, [Visit]_treeVars PROVE TreeInv'
  OBVIOUS
<1>1. UNCHANGED <<table, parent>>
  BY DEF Visit, treeVars
<1>2. TreeTyped'
  BY <1>1 DEF TreeInv, TreeTyped
<1>3. WalkInv(tree', stack')
  <2>1. CASE Visit
    <3>. DEFINE row == Last(stack)
    <3>1. row.pid \notin Emitted
      BY <2>1, NextIsNew DEF TreeInv, Visit, Emitted, Shown
    <3>2. tree' = Append(tree, row) /\ stack' = Front(stack) \o Below(row.depth + 1, Stacked(Children(row.pid)))
      BY <2>1, <3>1 DEF Visit
    <3>3. WalkInv(Append(tree, row), Front(stack) \o Below(row.depth + 1, Stacked(Children(row.pid))))
      BY <2>1, WalkOn DEF TreeInv, Visit
    <3>. QED BY <3>2, <3>3
  <2>2. CASE UNCHANGED treeVars
    BY <2>2 DEF TreeInv, treeVars
  <2>. QED BY <2>1, <2>2
<1>4. WalkInv(tree, stack)'
  BY <1>1, <1>3, SameWalk
<1>. QED BY <1>2, <1>4 DEF TreeInv

(* Every row that has a path has been shown when none is to come: take one
   with the shortest path that has not, and its parent has.                  *)
LEMMA AllShown ==
  ASSUME TreeInv, stack = <<>>
  PROVE  Emitted = DOMAIN Paths
<1>1. TreeTyped /\ Reached(tree, stack) /\ PlacedRight(tree)
  BY DEF TreeInv, WalkInv
<1>2. Emitted = Shown(tree) /\ Shown(stack) = {}
  BY DEF Emitted, Shown
<1>3. Emitted \subseteq DOMAIN Paths
  BY <1>1, <1>2, RowOfWalk DEF TreeInv, Shown
<1>4. \A q \in DOMAIN Paths : q \in Visible /\ Len(Paths[q]) \in Nat
  <2>1. \A q \in DOMAIN Paths : WayOf(Paths[q], Len(Paths[q])) /\ q \in Visible
    BY <1>1, PathsAre
  <2>2. \A s, n : WayOf(s, n) => n \in Nat
    BY DEF WayOf
  <2>. QED BY <2>1, <2>2
<1>. DEFINE Lengths == {Len(Paths[q]) : q \in DOMAIN Paths \ Emitted}
<1>5. ASSUME Lengths # {} PROVE FALSE
  <2>1. PICK n \in Lengths : \A k \in Lengths : n <= k
    <3>1. Lengths \in SUBSET Nat
      BY <1>4
    <3>. HIDE DEF Lengths
    <3>. QED BY <1>5, <3>1, LeastNat
  <2>2. PICK q \in DOMAIN Paths \ Emitted : n = Len(Paths[q])
    OBVIOUS
  <2>3. q \in Visible /\ q \notin Shown(tree) /\ q \notin Shown(stack)
    BY <1>2, <1>4
  <2>4. ~Root(q) /\ parent[q] \notin Emitted
    BY <1>1, <1>2, <2>3 DEF Reached
  <2>5. parent[q] \in DOMAIN Paths /\ Len(Paths[parent[q]]) < n
    BY <1>1, <2>2, <2>4, PathOfParent
  <2>6. Len(Paths[parent[q]]) \in Lengths
    BY <2>4, <2>5
  <2>7. n \in Nat /\ Len(Paths[parent[q]]) \in Nat
    BY <1>4, <2>2, <2>5
  <2>. HIDE DEF Lengths
  <2>8. n <= Len(Paths[parent[q]])
    BY <2>1, <2>6
  <2>. QED BY <2>5, <2>7, <2>8
<1>6. \A q \in DOMAIN Paths : q \in Emitted
  BY <1>5
<1>. QED BY <1>3, <1>6

(* No row is shown twice, so no more of them than there are. *)
LEMMA TreeIsShort ==
  ASSUME TreeInv
  PROVE  Len(tree) <= Cardinality(Visible)
<1>. DEFINE n == Len(tree)  pids == [i \in 1 .. n |-> tree[i].pid]
<1>1. n \in Nat /\ DOMAIN tree = 1 .. n /\ \A i \in 1 .. n : tree[i].pid \in DOMAIN Paths
  BY RowOfWalk DEF TreeInv
<1>. HIDE DEF n
<1>2. \A i, j \in 1 .. n : i < j => Before(Paths[tree[i].pid], Paths[tree[j].pid])
  BY <1>1 DEF TreeInv, WalkInv, WalkInOrder
<1>3. \A i, j \in 1 .. n : i < j => tree[i].pid # tree[j].pid
  BY <1>1, <1>2, BeforeIsStrict DEF TreeInv
<1>4. \A i, j \in 1 .. n : i = j \/ i < j \/ j < i
  BY <1>1
<1>5. \A i \in 1 .. n : tree[i].pid \in Visible
  BY <1>1, PathsAre DEF TreeInv
<1>6. \A i, j \in 1 .. n : tree[i].pid = tree[j].pid => i = j
  BY <1>3, <1>4
<1>7. pids \in Injection(1 .. n, Visible)
  BY <1>5, <1>6 DEF Injection, IsInjective
<1>8. IsFiniteSet(1 .. n) /\ Cardinality(1 .. n) = n
  BY <1>1, FirstNumbers
<1>9. IsFiniteSet(Visible)
  BY PlacesAre DEF TreeInv
<1>10. Cardinality(1 .. n) <= Cardinality(Visible)
  BY <1>7, <1>9, FS_Injection
<1>. QED BY <1>8, <1>10 DEF n

(* The tree of the process table shows each row that has a way up to a root   *)
(* once, below its parent and among its siblings in the order of the table,   *)
(* at the depth of its path, and no other row: for any number of processes,   *)
(* any parents (cycles included) and any order of the rows.                   *)
THEOREM TreeCorrect == TreeSpec => []TreeIsFaithful
<1>1. TreeInit => TreeInv
  BY TreeStarts
<1>2. TreeInv /\ [Visit]_treeVars => TreeInv'
  BY VisitKeeps
<1>3. TreeInv => TreeIsFaithful
  <2>. SUFFICES ASSUME TreeInv PROVE TreeIsFaithful
    OBVIOUS
  <2>1. Len(tree) <= Cardinality(Visible)
    BY TreeIsShort
  <2>2. stack = <<>> => Emitted = DOMAIN Paths
    BY AllShown
  <2>3. \A i, j \in DOMAIN tree : i < j => Before(Paths[tree[i].pid], Paths[tree[j].pid])
    BY DEF TreeInv, WalkInv, WalkInOrder
  <2>4. \A i \in DOMAIN tree : tree[i].depth = Len(Paths[tree[i].pid]) - 1
    BY DEF TreeInv, WalkInv, PlacedRight
  <2>. QED BY <2>1, <2>2, <2>3, <2>4 DEF TreeIsFaithful
<1>. QED BY <1>1, <1>2, <1>3, PTL DEF TreeSpec
===============================================================================
