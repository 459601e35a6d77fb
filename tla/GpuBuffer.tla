------------------------------ MODULE GpuBuffer ------------------------------
(* The list of GPU clients (gpu_buffer.rs, bmtop_sys.c).  One native call
   writes as many clients as the buffer holds and returns how many there are;
   the buffer grows and the call is repeated while clients come and go.       *)
EXTENDS Integers

CONSTANTS
  Initial, Maximum,  \* the first and the largest size of the buffer (256, 16,384)
  Attempts,          \* calls (4)
  MostClients        \* bound: clients at a time

ASSUME BufferAssumption ==
  /\ Initial \in Nat \ {0} /\ Maximum \in Nat /\ Initial <= Maximum
  /\ Attempts \in Nat \ {0} /\ MostClients \in Nat

VARIABLES
  clients,   \* processes that have used the GPU
  capacity,  \* the size of the buffer
  attempt,   \* calls so far
  first,     \* history: what the first call returned
  coverage   \* the answer: GpuProcessCoverage

bufferVars == <<clients, capacity, attempt, first, coverage>>

Pending == [available |-> FALSE, observed |-> 0, retained |-> 0, truncated |-> FALSE,
            done |-> FALSE]

BufferInit ==
  /\ clients \in 0 .. MostClients /\ capacity = Initial /\ attempt = 0 /\ first = 0
  /\ coverage = Pending

ClientsChange ==
  /\ ~coverage.done /\ clients' \in 0 .. MostClients \ {clients}
  /\ UNCHANGED <<capacity, attempt, first, coverage>>

Larger(a, b) == IF a > b THEN a ELSE b
Lesser(a, b) == IF a < b THEN a ELSE b

(* A quarter more than there were, at least twice as many as fit. *)
NextCapacity(observed) == Lesser(Larger(observed + observed \div 4, 2 * capacity), Maximum)

Called == attempt' = attempt + 1 /\ first' = IF attempt = 0 THEN clients ELSE first

Call == ~coverage.done /\ attempt < Attempts /\ Called /\ UNCHANGED clients

TooSmall == clients > capacity /\ capacity < Maximum /\ attempt + 1 < Attempts

Grow ==
  /\ Call /\ TooSmall
  /\ capacity' = NextCapacity(clients) /\ UNCHANGED coverage

\* Seeded fault: a list that does not fit is truncated only at the largest size.
OnlyAtMaximum(observed) == observed > Maximum

TruncatedAt(observed) == observed > capacity

Retain ==
  /\ Call /\ ~TooSmall
  /\ coverage' = [available |-> TRUE, observed |-> clients,
                  retained |-> Lesser(clients, capacity),
                  truncated |-> TruncatedAt(clients), done |-> TRUE]
  /\ UNCHANGED capacity

(* There is no accelerator, or its clients cannot be listed. *)
Unavailable ==
  /\ Call /\ coverage' = [Pending EXCEPT !.done = TRUE]
  /\ UNCHANGED capacity

BufferNext == ClientsChange \/ Grow \/ Retain \/ Unavailable

BufferSpec == BufferInit /\ [][BufferNext]_bufferVars

-----------------------------------------------------------------------------
BufferTypeOK ==
  /\ clients \in Nat /\ capacity \in Initial .. Maximum /\ attempt \in 0 .. Attempts
  /\ first \in Nat
  /\ coverage \in [available : BOOLEAN, observed : Nat, retained : Nat, truncated : BOOLEAN,
                   done : BOOLEAN]

(* The calls end with an answer; one that is not marked is the whole list, and
   a list that fits the largest buffer and has not grown by more than a quarter
   since the first call is never cut.                                        *)
GpuListIsWhole ==
  /\ attempt = Attempts => coverage.done
  /\ coverage.available =>
       /\ coverage.retained = coverage.observed \/ coverage.truncated
       /\ coverage.observed <= Maximum /\ coverage.observed <= first + first \div 4
            /\ Attempts > 1 => ~coverage.truncated
=============================================================================
