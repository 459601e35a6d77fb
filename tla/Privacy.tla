-------------------------------- MODULE Privacy --------------------------------
(* The privacy policies of bmtop-core (privacy.rs, network.rs) and of the
   command line (main.rs).

   A report is a function from its fields to "raw" (as collected), "masked"
   (replaced by a marker) or "none" (removed).  A system_profiler document is
   the set of its paths: a path is the sequence of the steps from the root to
   a leaf, a step the class of an object key or "item", a place in an array.  *)
EXTENDS Naturals, Sequences

CONSTANT DepthLimit      \* containers may be nested to this depth: 48
ASSUME DepthAssumption == DepthLimit \in Nat \ {0}

Modes == {"strict", "default", "off"}

(* The classes of keys: is_container, is_identifier, is_measurement (a label  *)
(* is one of those a strict report masks), and whatever was not reviewed.     *)
Keys  == {"container", "identifier", "measurement", "label", "unreviewed"}
Steps == Keys \cup {"item"}

Paths(n) == {path \in UNION {[1 .. k -> Steps] : k \in 1 .. n} : path[1] # "item"}

(* What redact_map and redact_container leave of the leaf at the end of       *)
(* `path`: they descend through containers and array items while the depth    *)
(* allows, and the first key that is no container decides.                    *)
RedactPath(mode, path) ==
  LET isBranch(i) == path[i] \in {"container", "item"}
      deciding == {i \in DOMAIN path : ~isBranch(i) /\ \A j \in 1 .. i - 1 : isBranch(j)}
      key == path[CHOOSE i \in deciding : TRUE]
      isLeaf == deciding = {Len(path)}
  IN  IF mode = "off" THEN "raw"
      ELSE IF deciding = {} \/ \E i \in deciding : i > DepthLimit THEN "none"
      ELSE CASE key = "identifier"  -> "masked"
             [] key = "measurement" -> IF isLeaf THEN "raw" ELSE "none"
             [] key = "label"       -> IF ~isLeaf THEN "none"
                                       ELSE IF mode = "strict" THEN "masked" ELSE "raw"
             [] OTHER               -> "none"

(* The paths whose values are shown as they are. *)
RedactProfiler(mode, document) == {path \in document : RedactPath(mode, path) = "raw"}

Put(report, fields, value) ==
  [f \in DOMAIN report |->
     IF f \in fields /\ report[f] # "none" THEN value ELSE report[f]]

RedactSnapshot(mode, rows) ==
  LET default == Put(rows, {"arguments"}, "none")
      strict  == Put(Put(default, {"path", "threadNames"}, "none"), {"name", "user"}, "masked")
  IN  CASE mode = "off" -> rows [] mode = "default" -> default [] mode = "strict" -> strict

RedactDisks(mode, rows) ==
  IF mode = "strict" THEN Put(rows, {"mount", "share"}, "masked") ELSE rows

RedactNetworkFlows(mode, rows) ==
  IF mode = "strict" THEN Put(rows, {"command", "local", "remote"}, "none") ELSE rows

\* Seeded fault: only the endpoint is cleared.
KeepsCommands(mode, rows) ==
  IF mode = "strict" THEN Put(rows, {"endpoint"}, "none") ELSE rows

(* The connections have no policy of their own: run_metric clears them. *)
RedactConnections(mode, rows) ==
  IF mode = "strict" THEN Put(rows, {"command", "endpoint"}, "none") ELSE rows

(* Device and peer names are free text: a strict session has no such section. *)
TransportSections(mode) == IF mode = "strict" THEN "none" ELSE "raw"
================================================================================
