---------------------------- MODULE MCExecution ----------------------------
(***************************************************************************)
(* Instances of Execution for TLC.                                         *)
(***************************************************************************)
EXTENDS Execution, TLC

CONSTANTS p1, p2, w1, w2

OnePlan == {p1}
TwoPlans == {p1, p2}
TwoWorkers == {w1, w2}
BothRows == {"PLATFORM", "ACCOUNT"}

(* Two plans of size 2 fit under a limit of 3 one by one, not together. *)
MCWant == [p \in Plan |-> 2]
DistinctShapes == [p \in Plan |-> p]

WorkerSymmetry == Permutations(TwoWorkers)
EntrySymmetry == Permutations(TwoWorkers) \cup Permutations(TwoPlans)

(* One dispatch fails after its post, or the safety state and the deadlines *)
(* of authorizations and snapshots move, or the rows of plans and           *)
(* reservations lapse, or a plan is managed: only a failed dispatch and     *)
(* lapsed rows meet, while all positions are open.                          *)
Failures == {c \in Command : rolledBack[c] > 0}
SafetyMoves == changes > 0 \/ ~ fresh \/ authLapsed # {}
RowsLapse == planLapsed # {} \/ resvLapsed # {}
Managing ==
  \/ \E w \in Worker : job[w].kind = "manage"
  \/ \E c \in Command : c[2] # Entry /\ command[c].state # "ABSENT"

(* The plans anything has been done for. *)
Handled ==
  {p \in Plan : plan[p].state # "READY" \/ resv[p].state # "NONE"
                \/ \E w \in Worker : job[w].kind = "entry" /\ job[w].plan = p}

OneConcern ==
  /\ Cardinality(Failures') <= 1
  /\ ~ (SafetyMoves' /\ (RowsLapse' \/ Failures' # {}))
  /\ ~ (RowsLapse' /\ Failures' # {} /\ closed' # {})
  /\ Managing' => /\ Cardinality(Handled') <= 1
                 /\ ~ (SafetyMoves' \/ RowsLapse' \/ Failures' # {})
============================================================================
