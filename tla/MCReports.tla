------------------------------- MODULE MCReports -------------------------------
(* What the commands print and what the pages show, for TLC.  The socket table is
   collected by code of its own, and the screen draws what it was given, so that a
   behaviour is one of the command line, one of the collection or one of the pages. *)
EXTENDS Cli, Flows, Pages, TLC

VARIABLE focus

MCIntervals == {[n |-> 1500, unit |-> "ms"], [n |-> 1500000, unit |-> "s"],
                [n |-> 1, unit |-> "none"]}

(* Two processes of one user or of two, the keys in either order or equal: the
   names and the keys themselves make no difference.                           *)
MCSamples ==
  {<<>>} \cup {rows \in [1 .. 2 -> [user : {"a", "b"}, key : 0 .. 1]] :
               rows[1].user = "a" /\ 0 \in {rows[1].key, rows[2].key}}

(* One section has a place of its own, two are sorted by name, and one more is of
   the transport; the widths are on both sides of each break.                   *)
MCRanking   == <<2>>
MCTransport == <<9>>
MCAreas     == [width : {80, 81, 91, 92, 117}, height : {5, 6, 30}]

FlowsIdle ==
  /\ socket = [s \in Sockets |-> None] /\ uses = 0 /\ clock = 0 /\ midnight = 1
  /\ lines = <<>> /\ listings = <<>> /\ flows = Without("running")

PagesIdle == PagesInit /\ page = "Overview" /\ area = [width |-> 80, height |-> 30]

ReportsInit ==
  /\ focus \in {"commands", "sockets", "pages"}
  /\ Init
  /\ IF focus = "sockets" THEN FlowsInit ELSE FlowsIdle
  /\ IF focus = "pages" THEN PagesInit ELSE PagesIdle

(* The report is the end of a collection. *)
Collected == ~FlowsRun /\ UNCHANGED flowVars

ReportsNext ==
  /\ UNCHANGED focus
  /\ IF focus = "commands" THEN Next ELSE UNCHANGED vars
  /\ IF focus = "sockets" THEN FlowsNext \/ Collected ELSE UNCHANGED flowVars
  /\ IF focus = "pages" THEN PagesNext ELSE UNCHANGED pagesVars

ReportsSpec == ReportsInit /\ [][ReportsNext]_<<focus, vars, flowVars, pagesVars>>

Symmetry == Permutations(Sockets) \cup Permutations(Interfaces) \cup Permutations(States)
===============================================================================
