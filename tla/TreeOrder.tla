------------------------------ MODULE TreeOrder ------------------------------
(* The tree view of the process table (state.rs, tree_order): a depth-first walk
   over the rows on display, siblings in the order they are given in.  Rows name
   their parents by PID; a parent may be filtered out, unreadable or the process
   itself, and as the rows are read one after the other while processes exit and
   PIDs are used again, parents may even form a cycle.                        *)
EXTENDS Naturals, Sequences, FiniteSets, SequencesExt, Enumeration

CONSTANTS TreePids  \* PIDs of the rows and of their parents

ASSUME TreeAssumption == IsFiniteSet(TreePids)

VARIABLES
  table,    \* the rows, in the order of the table: PIDs
  parent,   \* parent[p]: the parent PID
  stack,    \* rows to come: depth and PID, the next one last
  tree      \* the rows so far

treeVars == <<table, parent, stack, tree>>

Visible == ToSet(table)
Root(p) == parent[p] = p \/ parent[p] \notin Visible
Below(depth, pids) == [i \in DOMAIN pids |-> [depth |-> depth, pid |-> pids[i]]]

\* Seeded fault: the children are pushed in the order of the table.
Forward(pids) == pids

Stacked(pids) == Reverse(pids)

\* The places in the table of the roots, and of a row's children.
RootPlaces == {i \in DOMAIN table : Root(table[i])}
ChildPlaces(p) == {i \in DOMAIN table : ~Root(table[i]) /\ parent[table[i]] = p}

Children(p) == Picked(table, ChildPlaces(p))

TreeInit ==
  /\ table \in UNION {SetToSeqs(some) : some \in SUBSET TreePids}
  /\ parent \in [TreePids -> TreePids]
  /\ stack = Below(0, Stacked(Picked(table, RootPlaces))) /\ tree = <<>>

Emitted == {tree[i].pid : i \in DOMAIN tree}

Visit ==
  /\ stack # <<>>
  /\ LET row == Last(stack) IN
     IF row.pid \in Emitted THEN stack' = Front(stack) /\ UNCHANGED tree
     ELSE /\ tree'  = Append(tree, row)
          /\ stack' = Front(stack) \o Below(row.depth + 1, Stacked(Children(row.pid)))
  /\ UNCHANGED <<table, parent>>

TreeSpec == TreeInit /\ [][Visit]_treeVars

-----------------------------------------------------------------------------
(* Reference: the ways down from a root, from each row to a child of its own,
   and the way to each row that has one.                                     *)

IsWay(s) ==
  /\ s # <<>> /\ Root(s[1])
  /\ \A i \in DOMAIN s : i > 1 => ~Root(s[i]) /\ parent[s[i]] = s[i - 1]

Ways == {s \in UNION {[1 .. n -> Visible] : n \in 1 .. Cardinality(Visible)} : IsWay(s)}

Paths ==
  LET ways == Ways
  IN [p \in {Last(s) : s \in ways} |-> CHOOSE s \in ways : Last(s) = p]

IndexIn(p) == CHOOSE i \in DOMAIN table : table[i] = p

\* Where two paths part, the row of the first is the earlier one in the table.
Parts(one, other) ==
  \E i \in DOMAIN one \cap DOMAIN other :
    /\ \A j \in 1 .. i - 1 : one[j] = other[j]
    /\ IndexIn(one[i]) < IndexIn(other[i])

\* A row comes before those below it, and below later rows.
Before(one, other) == IsStrictPrefix(one, other) \/ Parts(one, other)

(* The walk ends, shows each row that has a way up to a root exactly once, under
   its parent and in the order of the table among its siblings, and no other: a
   cycle of parents neither holds the walk nor doubles a row.                *)
TreeIsFaithful ==
  /\ Len(tree) <= Cardinality(Visible)
  /\ stack = <<>> =>
       LET paths == Paths IN
       /\ Emitted = DOMAIN paths
       /\ \A i, j \in DOMAIN tree : i < j => Before(paths[tree[i].pid], paths[tree[j].pid])
       /\ \A i \in DOMAIN tree : tree[i].depth = Len(paths[tree[i].pid]) - 1
=============================================================================
