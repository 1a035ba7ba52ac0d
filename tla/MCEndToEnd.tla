----------------------------- MODULE MCEndToEnd -----------------------------
(***************************************************************************)
(* An instance of EndToEnd for TLC.  Two transactions overlap, and the     *)
(* management of a plan meets its entry, as long as the EA has nothing;    *)
(* once it has polled, one worker goes on at a time.  A lost queue file,   *)
(* and a fault beside a dispatch that was rolled back, are tried with the  *)
(* entry alone.                                                            *)
(***************************************************************************)
EXTENDS EndToEnd, TLC

CONSTANTS p1, w1, w2

OnePlan == {p1}
TwoWorkers == {w1, w2}
BothRows == {"PLATFORM", "ACCOUNT"}
MCWant == [p \in Plan |-> 2]
DistinctShapes == [p \in Plan |-> p]
WorkerSymmetry == Permutations(TwoWorkers)

Overlap == \E v, w \in Worker : v # w /\ job[v] # Idle /\ job[w] # Idle
Polled == \E c \in Command : queue[c] \notin {"ABSENT", "QUEUED"}
Managing ==
  \/ \E w \in Worker : job[w].kind = "manage"
  \/ \E c \in Command : c[2] # Entry /\ command[c].state # "ABSENT"

Retried == \E c \in Command : rolledBack[c] > 0

OneConcern ==
  /\ ~ (Overlap' /\ (Polled' \/ faults' > 0))
  /\ Managing' => losses' = 0 /\ (faults' = 0 \/ ~ Retried')
============================================================================
