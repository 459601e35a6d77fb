------------------------------ MODULE SocHandle ------------------------------
(***************************************************************************)
(* The one handle on the SoC counters (bmtop-macos/src/soc.rs 108-190) and *)
(* the C library under it (bmtop_soc.c 499-545, 615-652, 747-768), whose   *)
(* subscription and previous sample are static variables without a lock.   *)
(* An atomic lease, SOC_ACTIVE, lets one SocCollector live in the process; *)
(* the value may move to another thread but is never shared.  Any number   *)
(* of threads may try to make one.                                         *)
(*                                                                         *)
(* Each C function runs in two steps, so that two threads inside it at     *)
(* once would be seen.  Handles are numbered by the opening that made      *)
(* them, which the code does not know: a sample must only be compared with *)
(* one of the same opening.                                                *)
(***************************************************************************)
EXTENDS Naturals

CONSTANTS Threads,      \* the threads that may ask for a handle
          MaxOpenings   \* bound: successful openings in a behaviour

ASSUME SocAssumption == MaxOpenings \in Nat

VARIABLES active,       \* SOC_ACTIVE, the lease
          at,           \* what each thread is doing
          openings,     \* how many subscriptions were ever made
          subscription, \* g_subscription with g_channels: its opening, or 0
          previous,     \* g_prev_sample: the opening it was taken under, or 0
          compared      \* the last delta: the openings of its two samples

handleVars == <<active, at, openings, subscription, previous, compared>>

(***************************************************************************)
(* What a thread may be doing.  "held" owns a SocCollector and is outside  *)
(* the library; "refused" is between a failed init and the release of the  *)
(* lease, "closed" between the cleanup and that release.                   *)
(***************************************************************************)
Inside  == {"opening", "sampling", "closing"}
Owning  == Inside \cup {"held", "refused", "closed"}

SocInit ==
    /\ active = FALSE
    /\ at = [t \in Threads |-> "free"]
    /\ openings = 0
    /\ subscription = 0
    /\ previous = 0
    /\ compared = <<0, 0>>

(***************************************************************************)
(* try_new: the compare_exchange.  A thread that loses it returns          *)
(* AlreadyActive at once and is where it was.                              *)
(***************************************************************************)
Lease(t) ==
    /\ at[t] = "free"
    /\ ~active
    /\ active' = TRUE
    /\ at' = [at EXCEPT ![t] = "opening"]
    /\ UNCHANGED <<openings, subscription, previous, compared>>

AlreadyActive(t) ==
    /\ at[t] = "free"
    /\ active
    /\ UNCHANGED handleVars

(***************************************************************************)
(* bmtop_soc_init.  It is idempotent: a subscription that is there already *)
(* would be used again.  Every failure (-1, -2, -3) leaves the channels    *)
(* and the subscription empty.                                             *)
(***************************************************************************)
Opened(t) ==
    /\ at[t] = "opening"
    /\ subscription # 0 \/ openings < MaxOpenings
    /\ openings' = IF subscription = 0 THEN openings + 1 ELSE openings
    /\ subscription' = IF subscription = 0 THEN openings + 1 ELSE subscription
    /\ at' = [at EXCEPT ![t] = "held"]
    /\ UNCHANGED <<active, previous, compared>>

NotOpened(t) ==
    /\ at[t] = "opening"
    /\ subscription = 0
    /\ at' = [at EXCEPT ![t] = "refused"]
    /\ UNCHANGED <<active, openings, subscription, previous, compared>>

GiveBack(t) ==
    /\ at[t] = "refused"
    /\ active' = FALSE
    /\ at' = [at EXCEPT ![t] = "free"]
    /\ UNCHANGED <<openings, subscription, previous, compared>>

\* The owner sends its SocCollector to another thread.
Move(t, u) ==
    /\ at[t] = "held"
    /\ at[u] = "free"
    /\ at' = [at EXCEPT ![t] = "free", ![u] = "held"]
    /\ UNCHANGED <<active, openings, subscription, previous, compared>>

(***************************************************************************)
(* sample: the counters are read.  A read that fails keeps the previous    *)
(* sample; the first one only replaces it; otherwise the delta of the two  *)
(* is taken, and the new sample replaces the old even when the delta       *)
(* itself fails, in which case nothing is reported.                        *)
(***************************************************************************)
Sample(t) ==
    /\ at[t] = "held"
    /\ at' = [at EXCEPT ![t] = "sampling"]
    /\ UNCHANGED <<active, openings, subscription, previous, compared>>

SampleFails(t) ==
    /\ at[t] = "sampling"
    /\ at' = [at EXCEPT ![t] = "held"]
    /\ UNCHANGED <<active, openings, subscription, previous, compared>>

FirstSample(t) ==
    /\ at[t] = "sampling"
    /\ subscription # 0
    /\ previous = 0
    /\ previous' = subscription
    /\ at' = [at EXCEPT ![t] = "held"]
    /\ UNCHANGED <<active, openings, subscription, compared>>

SampleDelta(t) ==
    /\ at[t] = "sampling"
    /\ subscription # 0
    /\ previous # 0
    /\ previous' = subscription
    /\ compared' \in {compared, <<previous, subscription>>}
    /\ at' = [at EXCEPT ![t] = "held"]
    /\ UNCHANGED <<active, openings, subscription>>

\* Drop calls bmtop_soc_cleanup, which frees both, and then ends the lease.
Drop(t) ==
    /\ at[t] = "held"
    /\ at' = [at EXCEPT ![t] = "closing"]
    /\ UNCHANGED <<active, openings, subscription, previous, compared>>

CleanUp(t) ==
    /\ at[t] = "closing"
    /\ previous' = 0
    /\ subscription' = 0
    /\ at' = [at EXCEPT ![t] = "closed"]
    /\ UNCHANGED <<active, openings, compared>>

\* Seeded fault: the lease ends before the cleanup.
ReleaseFirst(t) ==
    /\ at[t] \in {"closing", "closed"}
    /\ active' = FALSE
    /\ at' = [at EXCEPT ![t] = IF @ = "closed" THEN "free" ELSE @]
    /\ UNCHANGED <<openings, subscription, previous, compared>>

Release(t) ==
    /\ at[t] = "closed"
    /\ active' = FALSE
    /\ at' = [at EXCEPT ![t] = "free"]
    /\ UNCHANGED <<openings, subscription, previous, compared>>

SocNext ==
    \E t \in Threads :
        \/ Lease(t) \/ AlreadyActive(t)
        \/ Opened(t) \/ NotOpened(t) \/ GiveBack(t)
        \/ \E u \in Threads : Move(t, u)
        \/ Sample(t) \/ SampleFails(t) \/ FirstSample(t) \/ SampleDelta(t)
        \/ Drop(t) \/ CleanUp(t) \/ Release(t)

SocSpec == SocInit /\ [][SocNext]_handleVars

-----------------------------------------------------------------------------

\* Every variable has its type.
SocTypeOK ==
    /\ active \in BOOLEAN
    /\ at \in [Threads -> Owning \cup {"free"}]
    /\ openings \in Nat
    /\ subscription \in Nat
    /\ previous \in Nat
    /\ compared \in Nat \X Nat

\* Only one thread has anything to do with the library, under the lease.
OneUser ==
    /\ \A t, u \in Threads : at[t] \in Owning /\ at[u] \in Owning => t = u
    /\ (\E t \in Threads : at[t] \in Owning) => active

\* The two samples of a reading were taken under one subscription.
OwnWindow == compared[1] = compared[2]

(***************************************************************************)
(* Whatever threads open, move, drop and open again, the C library, which  *)
(* has no lock, is only ever entered by the owner of the lease, and no     *)
(* reading spans the time between two handles: the first sample of a new   *)
(* one only warms up, even right after another handle was dropped.         *)
(***************************************************************************)
HandleIsAlone == OneUser /\ OwnWindow

(***************************************************************************)
(* What makes OwnWindow inductive: a previous sample belongs to the        *)
(* subscription that is open, and a handle that was dropped or never       *)
(* opened leaves neither.                                                  *)
(***************************************************************************)
NothingLeft ==
    /\ previous \in {0, subscription}
    /\ subscription # 0 => \E t \in Threads : at[t] \in {"held", "sampling", "closing"}

=============================================================================
