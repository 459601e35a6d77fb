---------------------------- MODULE SingleFlight ----------------------------
(***************************************************************************)
(* What the event loop and its workers promise together, with no queue,     *)
(* thread or channel: each lane has at most one request outstanding, that   *)
(* request is answered once before the next is submitted, and leaving the   *)
(* loop abandons what is outstanding.                                       *)
(***************************************************************************)
CONSTANTS
  Lanes,        \* the lanes
  Requests(_),  \* Requests(l): what may be submitted to lane l
  None          \* no request outstanding

VARIABLES
  outstanding,  \* outstanding[l]: the request of lane l being served, or None
  open          \* the loop is still running

Init ==
  /\ outstanding = [l \in Lanes |-> None]
  /\ open = TRUE

Submit(l) ==
  /\ open /\ outstanding[l] = None
  /\ outstanding'[l] \in Requests(l)
  /\ outstanding' = [outstanding EXCEPT ![l] = outstanding'[l]]
  /\ UNCHANGED open

Answer(l) ==
  /\ open /\ outstanding[l] # None
  /\ outstanding' = [outstanding EXCEPT ![l] = None]
  /\ UNCHANGED open

Close ==
  /\ open /\ open' = FALSE
  /\ outstanding' = [l \in Lanes |-> None]

Next == Close \/ \E l \in Lanes : Submit(l) \/ Answer(l)

SafetySpec == Init /\ [][Next]_<<outstanding, open>>

(* A submitted request does not stay outstanding for ever. *)
Fairness == \A l \in Lanes : WF_<<outstanding, open>>(Answer(l))

Spec == SafetySpec /\ Fairness
=============================================================================
