-------------------------- MODULE ExecutionProofs --------------------------
(***************************************************************************)
(* What Execution guarantees for every set of plans, sizes, limits,        *)
(* workers and bounds.                                                     *)
(***************************************************************************)
EXTENDS Execution, RiskSums

USE DEF Entry

(* The kind of a transaction tells its other fields. *)
LEMMA JobKinds ==
  ASSUME TypeOK, NEW w \in Worker
  PROVE  /\ job[w] \in Job
         /\ job[w].kind = "entry" => job[w] \in EntryJob
         /\ job[w].kind = "manage" => job[w] \in ManageJob
         /\ job[w].kind = "dispatch" => job[w] \in DispatchJob
BY DEF TypeOK, Job, EntryJob, ManageJob, DispatchJob, Idle

(* The amounts that the rows r give the plans of P, together.              *)
Total(r, P) == SumFunctionOnSet([p \in Plan |-> r[p].amount], P)

LEMMA RiskIsTotal == ASSUME NEW P PROVE RiskOf(P) = Total(resv, P)
BY DEF RiskOf, Total

(* The same after a step, for the two sets the proofs speak of. *)
LEMMA NextRiskIsTotal ==
  ASSUME NEW w
  PROVE  /\ RiskOf(ActivePlans)' = Total(resv', ActivePlans')
         /\ RiskOf(ActivePlans \ job[w].swept)' = Total(resv', (ActivePlans \ job[w].swept)')
BY DEF RiskOf, Total

(* What RiskSums says of sums, for rows.                                   *)
LEMMA TotalNat ==
  ASSUME NEW r, NEW P, P \subseteq Plan, IsFiniteSet(P), \A p \in P : r[p].amount \in Nat
  PROVE  Total(r, P) \in Nat
<1> DEFINE f == [p \in Plan |-> r[p].amount]
<1>1. \A p \in P : f[p] \in Nat
  OBVIOUS
<1> HIDE DEF f
<1>2. SumFunctionOnSet(f, P) \in Nat
  BY <1>1, SumNat
<1> QED BY <1>2 DEF Total, f

LEMMA TotalAgrees ==
  ASSUME NEW r, NEW q, NEW P, P \subseteq Plan, IsFiniteSet(P),
         \A p \in P : r[p].amount = q[p].amount
  PROVE  Total(r, P) = Total(q, P)
<1> DEFINE f == [p \in Plan |-> r[p].amount]
           g == [p \in Plan |-> q[p].amount]
<1>1. \A p \in P : f[p] = g[p]
  OBVIOUS
<1> HIDE DEF f, g
<1>2. SumFunctionOnSet(f, P) = SumFunctionOnSet(g, P)
  BY <1>1, SumAgrees
<1> QED BY <1>2 DEF Total, f, g

LEMMA TotalAdds ==
  ASSUME NEW r, NEW P, NEW p, P \cup {p} \subseteq Plan, IsFiniteSet(P), p \notin P,
         \A q \in P \cup {p} : r[q].amount \in Nat
  PROVE  Total(r, P \cup {p}) = Total(r, P) + r[p].amount
<1> DEFINE f == [q \in Plan |-> r[q].amount]
<1>1. (\A q \in P \cup {p} : f[q] \in Int) /\ f[p] = r[p].amount
  OBVIOUS
<1> HIDE DEF f
<1>2. SumFunctionOnSet(f, P \cup {p}) = SumFunctionOnSet(f, P) + f[p]
  BY <1>1, SumAdds
<1> QED BY <1>1, <1>2 DEF Total, f

(* The risk of any set of plans is a natural number.                       *)
LEMMA RiskNat ==
  ASSUME TypeOK, NEW P, P \subseteq Plan
  PROVE  RiskOf(P) \in Nat
<1>1. IsFiniteSet(P) /\ \A p \in P : resv[p].amount \in Nat
  BY PlanAssumption, FS_Subset DEF TypeOK
<1> QED BY <1>1, RiskIsTotal, TotalNat

(* A plan is sized between nothing and what the limit leaves. *)
LEMMA SizedWithinCap ==
  ASSUME TypeOK, NEW p \in Plan
  PROVE  /\ Remaining \in Nat /\ Remaining <= Cap
         /\ Sized(p) \in Nat /\ Sized(p) <= Remaining
<1>1. RiskOf(seen) \in Nat /\ RiskOf(ActivePlans) \in Nat
  BY RiskNat DEF ActivePlans, TypeOK
<1>2. Remaining \in Nat /\ Remaining <= Cap
  BY <1>1, RiskAssumption DEF Remaining
<1> QED BY <1>2, RiskAssumption DEF Sized
----------------------------------------------------------------------------
(* The inductive invariant of dispatching.  The row locks let one dispatch *)
(* run at a time, on a command that stays QUEUED and bound to the          *)
(* authorization of its plan until the dispatch is over.                   *)
OneDispatch ==
  \A v, w \in Worker : job[v].kind = "dispatch" /\ job[w].kind = "dispatch" => v = w

DispatchBound ==
  \A w \in Worker :
    job[w].kind = "dispatch" =>
      command[job[w].cmd].state = "QUEUED" /\ Bound(job[w].cmd)

(* Stored commands carry authorizations that were issued, one each, and    *)
(* what was sent carries the authorization of its command.                 *)
AuthsDistinct ==
  /\ \A c \in Command :
       command[c].state # "ABSENT" => command[c].auth \in 1..issued
  /\ \A c, d \in Command :
       /\ command[c].state # "ABSENT" /\ command[d].state # "ABSENT"
       /\ command[c].auth = command[d].auth
       => c = d
  /\ \A x \in sent :
       command[x[1]].state # "ABSENT" /\ x[2] = command[x[1]].auth

(* Every post but one is paid for by a dispatch that failed after it; as   *)
(* long as the command is QUEUED and its dispatch has not posted, all are. *)
Posted(c) ==
  \E w \in Worker : job[w].kind = "dispatch" /\ job[w].cmd = c /\ job[w].outcome # "none"
PostsPaid ==
  \A c \in Command :
    /\ posts[c] <= 1 + rolledBack[c]
    /\ command[c].state \in {"ABSENT", "QUEUED"} /\ ~ Posted(c) => posts[c] <= rolledBack[c]

DispatchInv == TypeOK /\ OneDispatch /\ DispatchBound /\ AuthsDistinct /\ PostsPaid

----------------------------------------------------------------------------
(* Types                                                                   *)

LEMMA InitTyped == Init => TypeOK
<1> SUFFICES ASSUME Init PROVE TypeOK
  OBVIOUS
<1>1. NoAuth \in Auth
  BY DEF NoAuth, Auth, Action, Epochs
<1>2. [state |-> "READY", auth |-> NoAuth] \in PlanRow
  BY <1>1 DEF PlanRow, PlanState
<1>3. /\ plan \in [Plan -> PlanRow]
      /\ command \in [Command -> CommandRow]
      /\ resv \in [Plan -> [state : ResvState, amount : Nat]]
      /\ kill \in [Scope -> [row : BOOLEAN, active : BOOLEAN, epoch : Nat]]
  BY <1>2 DEF Init, CommandRow, CommandState, ResvState
<1> QED BY <1>3, BoundAssumption DEF Init, TypeOK, Job

(* What an authorization about to be issued looks like. *)
LEMMA NewAuthTyped ==
  ASSUME TypeOK, NEW a \in Action, issued < MaxAuth
  PROVE  /\ NewAuth(a) \in Auth /\ NewAuth(a).id = issued + 1 /\ NewAuth(a).action = a
         /\ NewAuth(a).epoch = Epoch /\ issued + 1 \in AuthId
<1>1. Epoch \in Epochs
  BY DEF Epoch, Epochs, TypeOK
<1>2. issued + 1 \in AuthId
  BY BoundAssumption DEF AuthId, TypeOK
<1> QED BY <1>1, <1>2 DEF NewAuth, Auth

(* The operator's permission and kill-switch changes keep the types.       *)
LEMMA SafetyTyped ==
  ASSUME TypeOK,
         \/ \E allowed \in {{}, Action} : SetPermissions(allowed)
         \/ \E s \in Scope, active \in BOOLEAN : SetKillSwitch(s, active)
  PROVE  TypeOK'
<1>1. CASE \E allowed \in {{}, Action} : SetPermissions(allowed)
  BY <1>1, BoundAssumption
     DEF SetPermissions, TypeOK, rowVars, clockVars, brokerVars, wireVars, snapVars
<1>2. ASSUME NEW s \in Scope, NEW active \in BOOLEAN, SetKillSwitch(s, active)
      PROVE  TypeOK'
  <2>1. kill' \in [Scope -> [row : BOOLEAN, active : BOOLEAN, epoch : Nat]]
    BY <1>2 DEF SetKillSwitch, TypeOK
  <2> QED BY <1>2, <2>1, BoundAssumption
          DEF SetKillSwitch, TypeOK, rowVars, clockVars, brokerVars, wireVars, snapVars
<1> QED BY <1>1, <1>2

(* Steps that only open, advance or drop a transaction. *)
LEMMA JobTyped ==
  ASSUME TypeOK, NEW w \in Worker, NEW j \in Job, job' = [job EXCEPT ![w] = j]
  PROVE  job' \in [Worker -> Job]
BY DEF TypeOK, Job

(* Opening a transaction and evaluating its risk keep the types.           *)
LEMMA BeginTyped ==
  ASSUME TypeOK, NEW w \in Worker,
         \/ \E p \in Plan : BeginEntry(w, p)
         \/ \E p \in Plan, a \in Manage : BeginManage(w, p, a)
         \/ \E c \in Command : BeginDispatch(w, c)
         \/ EvaluateEntry(w)
  PROVE  TypeOK'
<1>1. \E j \in Job : job' = [job EXCEPT ![w] = j]
  <2>1. ASSUME NEW p \in Plan, BeginEntry(w, p) PROVE \E j \in Job : job' = [job EXCEPT ![w] = j]
    BY <2>1 DEF BeginEntry, Job, EntryJob, TypeOK
  <2>2. ASSUME NEW p \in Plan, NEW a \in Manage, BeginManage(w, p, a)
        PROVE  \E j \in Job : job' = [job EXCEPT ![w] = j]
    BY <2>2 DEF BeginManage, Job, ManageJob, TypeOK
  <2>3. ASSUME NEW c \in Command, BeginDispatch(w, c)
        PROVE  \E j \in Job : job' = [job EXCEPT ![w] = j]
    BY <2>3 DEF BeginDispatch, Job, DispatchJob
  <2>4. CASE EvaluateEntry(w)
    <3>1. job[w] \in EntryJob /\ job[w].plan \in Plan
      BY <2>4, JobKinds DEF EvaluateEntry, EntryJob
    <3>2. Sized(job[w].plan) \in Nat /\ SweptBy(job[w].plan) \in SUBSET Plan
      BY <3>1, SizedWithinCap DEF SweptBy, Sweepable, ActivePlans
    <3>3. CASE job' = [job EXCEPT ![w].stage = "block"]
      <4>1. [job[w] EXCEPT !.stage = "block"] \in EntryJob
        BY <3>1 DEF EntryJob
      <4> QED BY <3>3, <4>1 DEF Job
    <3>4. CASE job' = [job EXCEPT ![w].stage = "reserve", ![w].amount = Sized(job[w].plan),
                                  ![w].swept = SweptBy(job[w].plan)]
      <4>1. [job[w] EXCEPT !.stage = "reserve", !.amount = Sized(job[w].plan),
                           !.swept = SweptBy(job[w].plan)] \in EntryJob
        BY <3>1, <3>2 DEF EntryJob
      <4>2. job' = [job EXCEPT ![w] = [job[w] EXCEPT !.stage = "reserve",
                      !.amount = Sized(job[w].plan), !.swept = SweptBy(job[w].plan)]]
        BY <3>4 DEF TypeOK
      <4> QED BY <4>1, <4>2 DEF Job
    <3> QED BY <2>4, <3>3, <3>4 DEF EvaluateEntry
  <2> QED BY <2>1, <2>2, <2>3, <2>4
<1>2. UNCHANGED <<rowVars, safetyVars, clockVars, brokerVars, wireVars, snapVars, issued>>
  BY DEF BeginEntry, BeginManage, BeginDispatch, EvaluateEntry
<1> QED BY <1>1, <1>2, JobTyped
        DEF TypeOK, rowVars, safetyVars, clockVars, brokerVars, wireVars, snapVars
(* Steps that write an entry or a management request and close it. *)
LEMMA QueueTyped ==
  ASSUME TypeOK, NEW w \in Worker, BlockEntry(w) \/ QueueEntry(w) \/ QueueManage(w)
  PROVE  TypeOK'
<1>1. job' = [job EXCEPT ![w] = Idle] /\ Idle \in Job
  BY DEF BlockEntry, QueueEntry, QueueManage, Job
<1>2. job' \in [Worker -> Job]
  BY <1>1, JobTyped
<1>3. CASE BlockEntry(w)
  <2>1. job[w].plan \in Plan /\ job[w].copy \in PlanRow
    BY <1>3, JobKinds DEF BlockEntry, EntryJob
  <2>2. [job[w].copy EXCEPT !.state = "BLOCKED"] \in PlanRow
    BY <2>1 DEF PlanRow, PlanState
  <2> QED BY <1>2, <1>3, <2>1, <2>2
          DEF BlockEntry, TypeOK, safetyVars, clockVars, brokerVars, wireVars, snapVars
<1>4. CASE QueueEntry(w)
  <2> DEFINE p == job[w].plan
             auth == NewAuth(Entry)
  <2>1. job[w] \in EntryJob /\ p \in Plan /\ job[w].amount \in Nat
    BY <1>4, JobKinds DEF QueueEntry, EntryJob
  <2>2. auth \in Auth /\ auth.id = issued + 1 /\ auth.id \in AuthId
    BY <1>4, NewAuthTyped DEF QueueEntry, Action
  <2>3. [state |-> "EXECUTION_PENDING", auth |-> auth] \in PlanRow
    BY <2>2 DEF PlanRow, PlanState
  <2>4. plan' \in [Plan -> PlanRow]
    BY <1>4, <2>1, <2>3 DEF QueueEntry, TypeOK
  <2>5. <<p, Entry>> \in Command
    BY <2>1 DEF Command, Action
  <2>6. command' \in [Command -> CommandRow]
    BY <1>4, <2>2, <2>5 DEF QueueEntry, Persist, TypeOK, CommandRow, CommandState
  <2>7. resv' \in [Plan -> [state : ResvState, amount : Nat]]
    BY <1>4, <2>1 DEF QueueEntry, TypeOK, ResvState, ActiveResv
  <2>8. issued' \in 0..MaxAuth
    BY <1>4, <2>2, BoundAssumption DEF QueueEntry, AuthId
  <2> QED BY <1>2, <1>4, <2>4, <2>6, <2>7, <2>8
          DEF QueueEntry, TypeOK, safetyVars, clockVars, brokerVars, wireVars, snapVars
<1>5. CASE QueueManage(w)
  <2> DEFINE p == job[w].plan
             a == job[w].action
             auth == NewAuth(a)
  <2>1. p \in Plan /\ a \in Manage /\ job[w].copy \in PlanRow
    BY <1>5, JobKinds DEF QueueManage, ManageJob
  <2>2. auth \in Auth /\ auth.id = issued + 1 /\ auth.id \in AuthId
    BY <1>5, <2>1, NewAuthTyped DEF QueueManage, Action
  <2>3. [job[w].copy EXCEPT !.auth = auth] \in PlanRow
    BY <2>1, <2>2 DEF PlanRow
  <2>4. plan' \in [Plan -> PlanRow]
    BY <1>5, <2>1, <2>3 DEF QueueManage, TypeOK
  <2>5. <<p, a>> \in Command
    BY <2>1 DEF Command, Action
  <2>6. command' \in [Command -> CommandRow]
    BY <1>5, <2>2, <2>5 DEF QueueManage, Persist, TypeOK, CommandRow, CommandState
  <2>7. issued' \in 0..MaxAuth
    BY <1>5, <2>2, BoundAssumption DEF QueueManage, AuthId
  <2> QED BY <1>2, <1>5, <2>4, <2>6, <2>7
          DEF QueueManage, TypeOK, safetyVars, clockVars, brokerVars, wireVars, snapVars
<1> QED BY <1>3, <1>4, <1>5

(* Posting and committing a dispatch keep the types.                       *)
LEMMA DispatchTyped ==
  ASSUME TypeOK, DispatchBound, AuthsDistinct, NEW w \in Worker,
         \/ \E reached, answered \in BOOLEAN : Post(w, reached, answered)
         \/ CommitDispatch(w)
         \/ RollBack(w)
  PROVE  TypeOK'
<1>1. ASSUME NEW reached \in BOOLEAN, NEW answered \in BOOLEAN, Post(w, reached, answered)
      PROVE  TypeOK'
  <2> DEFINE c == job[w].cmd
             o == IF answered THEN "ok" ELSE "exc"
  <2>1. job[w] \in DispatchJob /\ c \in Command /\ c[1] \in Plan
    BY <1>1, JobKinds DEF Post, DispatchJob, Command
  <2>2. [job[w] EXCEPT !.outcome = o] \in Job
    BY <2>1 DEF DispatchJob, Job
  <2>3. job' \in [Worker -> Job]
    BY <1>1, <2>2, JobTyped DEF Post
  <2>4. plan[c[1]].auth.id \in AuthId
    <3>1. plan[c[1]].auth.id = command[c].auth /\ command[c].auth \in 1..issued
      BY <1>1, <2>1 DEF Post, DispatchBound, Bound, AuthsDistinct
    <3> QED BY <3>1, BoundAssumption DEF AuthId, TypeOK
  <2>5. sent' \subseteq Command \X AuthId
    <3>1. sent' \subseteq sent \cup {<<c, plan[c[1]].auth.id>>}
      BY <1>1 DEF Post
    <3>2. sent \subseteq Command \X AuthId
      BY DEF TypeOK
    <3> HIDE DEF c
    <3> QED BY <2>1, <2>4, <3>1, <3>2
  <2>6. posts' \in [Command -> Nat]
    <3>1. posts' = posts \/ posts' = [posts EXCEPT ![c] = @ + 1]
      BY <1>1 DEF Post
    <3>2. posts \in [Command -> Nat]
      BY DEF TypeOK
    <3> HIDE DEF c
    <3> QED BY <3>1, <3>2
  <2> QED BY <1>1, <2>3, <2>5, <2>6
          DEF Post, TypeOK, rowVars, safetyVars, clockVars, brokerVars, snapVars
<1>2. ASSUME job' = [job EXCEPT ![w] = Idle]
      PROVE  job' \in [Worker -> Job]
  BY <1>2, JobTyped DEF Job
<1>3. CASE CommitDispatch(w)
  <2> DEFINE c == job[w].cmd
             p == c[1]
  <2>1. c \in Command /\ p \in Plan
    BY <1>3, JobKinds DEF CommitDispatch, DispatchJob, Command
  <2>2. command' \in [Command -> CommandRow]
    <3>1. PICK st \in {"OUTCOME_UNKNOWN", "ACKNOWLEDGED"} : command' = [command EXCEPT ![c].state = st]
      BY <1>3 DEF CommitDispatch
    <3>2. [command[c] EXCEPT !.state = st] \in CommandRow
      BY <2>1 DEF TypeOK, CommandRow, CommandState
    <3>3. command' = [command EXCEPT ![c] = [command[c] EXCEPT !.state = st]]
      BY <2>1, <3>1 DEF TypeOK
    <3> QED BY <2>1, <3>2, <3>3 DEF TypeOK
  <2>3. resv' \in [Plan -> [state : ResvState, amount : Nat]]
    <3>1. [resv[p] EXCEPT !.state = "ORDER_WORKING"] \in [state : ResvState, amount : Nat]
      BY <2>1 DEF TypeOK, ResvState, ActiveResv
    <3>2. \/ resv' = resv
          \/ resv' = [resv EXCEPT ![p] = [resv[p] EXCEPT !.state = "ORDER_WORKING"]]
      BY <1>3 DEF CommitDispatch
    <3> QED BY <2>1, <3>1, <3>2 DEF TypeOK
  <2>4. plan' \in [Plan -> PlanRow]
    <3>1. [plan[p] EXCEPT !.state = IF @ = "EXECUTION_PENDING" THEN "EXECUTING" ELSE @] \in PlanRow
      BY <2>1 DEF TypeOK, PlanRow, PlanState
    <3>2. \/ plan' = plan
          \/ plan' = [plan EXCEPT ![p] = [plan[p] EXCEPT
                        !.state = IF @ = "EXECUTION_PENDING" THEN "EXECUTING" ELSE @]]
      BY <1>3, <2>1 DEF CommitDispatch, TypeOK
    <3> QED BY <2>1, <3>1, <3>2 DEF TypeOK
  <2> QED BY <1>2, <1>3, <2>2, <2>3, <2>4
          DEF CommitDispatch, TypeOK, safetyVars, clockVars, brokerVars, wireVars, snapVars
<1>4. CASE RollBack(w)
  <2>1. rolledBack' \in [Command -> Nat]
    BY <1>4, JobKinds DEF RollBack, TypeOK, DispatchJob
  <2> QED BY <1>2, <1>4, <2>1
          DEF RollBack, TypeOK, rowVars, safetyVars, clockVars, brokerVars, snapVars
<1> QED BY <1>1, <1>3, <1>4

(* Snapshots, the broker and the clocks keep the types.                    *)
LEMMA OutsideTyped ==
  ASSUME TypeOK, Outside
  PROVE  TypeOK'
<1>1. CASE Ingest
  <2>1. \A c \in Command : Verdict(c) \in CommandState
    BY DEF Verdict, CommandState
  <2>2. command' \in [Command -> CommandRow]
    <3>1. \A c \in Command : Reconciled(c) \in CommandRow
      BY <2>1 DEF Reconciled, TypeOK, CommandRow
    <3> QED BY <1>1, <3>1 DEF Ingest, TypeOK
  <2>3. plan' \in [Plan -> PlanRow]
    BY <1>1 DEF Ingest, Reconciled, TypeOK, PlanRow, PlanState
  <2>4. resv' \in [Plan -> [state : ResvState, amount : Nat]]
    BY <1>1 DEF Ingest, Reconciled, TypeOK, ResvState, ActiveResv
  <2> QED BY <1>1, <2>2, <2>3, <2>4
          DEF Ingest, Reconciled, TypeOK, Open, safetyVars, clockVars, brokerVars, wireVars
<1>2. CASE SnapshotAges
  BY <1>2 DEF SnapshotAges, TypeOK, rowVars, safetyVars, clockVars, brokerVars, wireVars
<1>3. ASSUME NEW c \in Command, BrokerApplies(c) PROVE TypeOK'
  BY <1>3 DEF BrokerApplies, TypeOK, Command, rowVars, safetyVars, clockVars, wireVars, snapVars
<1>4. ASSUME NEW p \in Plan, BrokerCloses(p) \/ PlanLapses(p) \/ ReservationLapses(p)
      PROVE  TypeOK'
  BY <1>4 DEF BrokerCloses, PlanLapses, ReservationLapses, TypeOK, rowVars, safetyVars,
              brokerVars, wireVars, snapVars, clockVars
<1>5. ASSUME NEW p \in Plan, AuthLapses(p) PROVE TypeOK'
  <2>1. plan[p].auth.id \in AuthId
    BY <1>5 DEF AuthLapses, TypeOK, PlanRow, Auth
  <2> QED BY <1>5, <2>1 DEF AuthLapses, TypeOK, rowVars, safetyVars, brokerVars, wireVars, snapVars
<1> QED BY <1>1, <1>2, <1>3, <1>4, <1>5 DEF Outside
----------------------------------------------------------------------------
(* Dispatching                                                             *)

(* Steps that start, post and finish no dispatch. *)
LEMMA QuietKeeps ==
  ASSUME DispatchInv, TypeOK',
         UNCHANGED <<command, plan, sent, posts, rolledBack, issued>>,
         \A v \in Worker :
           /\ job'[v].kind = "dispatch" => job'[v] = job[v]
           /\ job[v].kind = "dispatch" /\ job[v].outcome # "none" => job'[v] = job[v]
  PROVE  DispatchInv'
BY DEF DispatchInv, OneDispatch, DispatchBound, Bound, AuthsDistinct, PostsPaid, Posted

(* Leasing a command (lease_command) keeps the dispatch invariant.         *)
LEMMA BeginDispatchKeeps ==
  ASSUME DispatchInv, TypeOK', NEW w \in Worker, NEW c \in Command, BeginDispatch(w, c)
  PROVE  DispatchInv'
<1> USE DEF DispatchInv
<1> DEFINE j == [kind |-> "dispatch", cmd |-> c, outcome |-> "none"]
<1>1. /\ job' = [job EXCEPT ![w] = j]
      /\ UNCHANGED <<command, plan, sent, posts, rolledBack, issued>>
      /\ \A v \in Worker : job[v].kind # "dispatch"
      /\ command[c].state = "QUEUED" /\ Bound(c)
  BY DEF BeginDispatch, Leasable, Authorized, RowsFree, rowVars, wireVars
<1>2. job'[w] = j /\ \A v \in Worker \ {w} : job'[v] = job[v]
  BY <1>1 DEF TypeOK
<1>3. OneDispatch' /\ DispatchBound'
  BY <1>1, <1>2 DEF OneDispatch, DispatchBound, Bound
<1>4. AuthsDistinct'
  BY <1>1 DEF AuthsDistinct
<1>5. \A d \in Command : ~ Posted(d)
  BY <1>1 DEF Posted
<1>6. PostsPaid'
  BY <1>1, <1>5 DEF PostsPaid
<1> QED BY <1>3, <1>4, <1>6

(* Posting to the bridge uses up the one dispatch of the command.          *)
LEMMA PostKeeps ==
  ASSUME DispatchInv, TypeOK', NEW w \in Worker,
         NEW reached \in BOOLEAN, NEW answered \in BOOLEAN, Post(w, reached, answered)
  PROVE  DispatchInv'
<1> USE DEF DispatchInv
<1> DEFINE c == job[w].cmd
           o == IF answered THEN "ok" ELSE "exc"
<1>1. /\ job[w] \in DispatchJob /\ job[w].kind = "dispatch" /\ job[w].outcome = "none"
      /\ c \in Command
      /\ UNCHANGED <<command, plan, rolledBack, issued>>
  BY JobKinds DEF Post, DispatchJob, rowVars
<1>2. /\ job'[w].kind = "dispatch" /\ job'[w].cmd = c /\ job'[w].outcome # "none"
      /\ \A v \in Worker \ {w} : job'[v] = job[v]
  <2>1. job'[w] = [job[w] EXCEPT !.outcome = o]
    BY DEF Post, TypeOK
  <2>2. \A v \in Worker \ {w} : job'[v] = job[v]
    BY DEF Post, TypeOK
  <2> QED BY <1>1, <2>1, <2>2 DEF DispatchJob
<1>3. command[c].state = "QUEUED" /\ command[c].auth = plan[c[1]].auth.id
  BY <1>1 DEF DispatchBound, Bound
<1>4. OneDispatch' /\ DispatchBound'
  BY <1>1, <1>2 DEF OneDispatch, DispatchBound, Bound
<1>5. AuthsDistinct'
  <2>1. sent' \subseteq sent \cup {<<c, command[c].auth>>}
    <3>1. sent' \subseteq sent \cup {<<c, plan[c[1]].auth.id>>}
      BY DEF Post
    <3> QED BY <1>3, <3>1
  <2>2. c \in Command /\ command[c].state # "ABSENT" /\ UNCHANGED <<command, issued>>
    BY <1>1, <1>3
  <2> HIDE DEF c
  <2> QED BY <2>1, <2>2 DEF AuthsDistinct
<1>6. PostsPaid'
  <2>1. ~ Posted(c)
    BY <1>1 DEF Posted, OneDispatch
  <2>2. posts[c] <= rolledBack[c] /\ posts[c] \in Nat /\ rolledBack[c] \in Nat
    BY <1>1, <1>3, <2>1 DEF PostsPaid, TypeOK
  <2>3. /\ posts'[c] \in {posts[c], posts[c] + 1}
        /\ \A d \in Command \ {c} : posts'[d] = posts[d]
    BY <1>1 DEF Post, TypeOK
  <2>4. \A d \in Command : d = c \/ Posted(d) => Posted(d)'
    BY <1>1, <1>2 DEF Posted
  <2>5. posts'[c] <= 1 + rolledBack[c]
    BY <2>2, <2>3
  <2>6. \A d \in Command \ {c} : posts'[d] = posts[d] /\ (~ Posted(d)' => ~ Posted(d))
    BY <2>3, <2>4
  <2>7. ASSUME NEW d \in Command
        PROVE  /\ posts'[d] <= 1 + rolledBack'[d]
               /\ command'[d].state \in {"ABSENT", "QUEUED"} /\ ~ Posted(d)' =>
                    posts'[d] <= rolledBack'[d]
    <3>1. CASE d = c
      BY <1>1, <2>4, <2>5, <3>1
    <3>2. CASE d # c
      <4>1. posts'[d] = posts[d] /\ (~ Posted(d)' => ~ Posted(d))
        BY <2>6, <3>2
      <4>2. UNCHANGED <<command, rolledBack>>
        BY <1>1
      <4> HIDE DEF c
      <4> QED BY <4>1, <4>2 DEF PostsPaid
    <3> QED BY <3>1, <3>2
  <2> QED BY <2>7 DEF PostsPaid
<1> QED BY <1>4, <1>5, <1>6

(* A commit or a rollback ends the one dispatch there is. *)
LEMMA FinishKeeps ==
  ASSUME DispatchInv, TypeOK', NEW w \in Worker, job[w].kind = "dispatch",
         CommitDispatch(w) \/ RollBack(w)
  PROVE  DispatchInv'
<1> USE DEF DispatchInv
<1> DEFINE c == job[w].cmd
<1>1. /\ job[w] \in DispatchJob /\ c \in Command /\ command[c].state = "QUEUED"
      /\ \A v \in Worker \ {w} : job[v].kind # "dispatch"
  BY JobKinds DEF DispatchJob, OneDispatch, DispatchBound
<1>2. \A v \in Worker : job'[v].kind # "dispatch"
  BY <1>1 DEF CommitDispatch, RollBack, Idle, TypeOK
<1>3. OneDispatch' /\ DispatchBound'
  BY <1>2 DEF OneDispatch, DispatchBound
<1>4. CASE CommitDispatch(w)
  <2>1. PICK st \in {"OUTCOME_UNKNOWN", "ACKNOWLEDGED"} : command' = [command EXCEPT ![c].state = st]
    BY <1>4 DEF CommitDispatch
  <2>2. /\ \A d \in Command : command'[d].auth = command[d].auth
        /\ \A d \in Command \ {c} : command'[d].state = command[d].state
        /\ command'[c].state = st
    BY <1>1, <2>1 DEF TypeOK, CommandRow
  <2>3. UNCHANGED <<sent, posts, rolledBack, issued>>
    BY <1>4 DEF CommitDispatch, wireVars
  <2>4. AuthsDistinct'
    <3>1. \A d \in Command : command'[d].state # "ABSENT" <=> command[d].state # "ABSENT"
      BY <1>1, <2>2
    <3>2. \A x \in sent : x[1] \in Command
      BY DEF TypeOK
    <3> QED BY <2>2, <2>3, <3>1, <3>2 DEF AuthsDistinct
  <2>5. \A d \in Command \ {c} : ~ Posted(d)
    BY <1>1 DEF Posted
  <2>6. PostsPaid'
    BY <2>2, <2>3, <2>5 DEF PostsPaid
  <2> QED BY <1>3, <2>4, <2>6
<1>5. CASE RollBack(w)
  <2>1. UNCHANGED <<command, plan, sent, posts, issued>>
    BY <1>5 DEF RollBack, rowVars
  <2>2. AuthsDistinct'
    BY <2>1 DEF AuthsDistinct
  <2>3. \A d \in Command : Posted(d) => d = c /\ job[w].outcome # "none"
    BY <1>1 DEF Posted
  <2>4. /\ rolledBack[c] \in Nat /\ posts[c] \in Nat
        /\ \A d \in Command \ {c} : rolledBack'[d] = rolledBack[d]
        /\ rolledBack'[c] = IF job[w].outcome # "none" THEN rolledBack[c] + 1 ELSE rolledBack[c]
    BY <1>1, <1>5 DEF RollBack, TypeOK
  <2>5. PostsPaid'
    BY <1>1, <2>1, <2>3, <2>4 DEF PostsPaid, TypeOK
  <2> QED BY <1>3, <2>2, <2>5
<1> QED BY <1>4, <1>5
(* Entries and management requests are written while no dispatch runs, and *)
(* under an authorization nobody has yet.                                  *)
LEMMA QueueKeeps ==
  ASSUME DispatchInv, TypeOK', NEW w \in Worker, BlockEntry(w) \/ QueueEntry(w) \/ QueueManage(w)
  PROVE  DispatchInv'
<1> USE DEF DispatchInv
<1>1. \A v \in Worker : job[v].kind # "dispatch" /\ job'[v].kind # "dispatch"
  BY DEF BlockEntry, QueueEntry, QueueManage, RowsFree, Idle, TypeOK
<1>2. OneDispatch' /\ DispatchBound' /\ \A c \in Command : ~ Posted(c) /\ ~ Posted(c)'
  BY <1>1 DEF OneDispatch, DispatchBound, Posted
<1>3. UNCHANGED <<sent, posts, rolledBack>>
  BY DEF BlockEntry, QueueEntry, QueueManage, wireVars
<1>4. \/ UNCHANGED <<command, issued>>
      \/ \E c \in Command : Persist(c, issued + 1) /\ issued' = issued + 1
  <2>1. CASE BlockEntry(w)
    BY <2>1 DEF BlockEntry
  <2>2. CASE QueueEntry(w)
    <3>1. <<job[w].plan, Entry>> \in Command
      BY <2>2, JobKinds DEF QueueEntry, EntryJob, Command, Action
    <3> QED BY <2>2, <3>1 DEF QueueEntry, NewAuth
  <2>3. CASE QueueManage(w)
    <3>1. <<job[w].plan, job[w].action>> \in Command
      BY <2>3, JobKinds DEF QueueManage, ManageJob, Command, Action
    <3> QED BY <2>3, <3>1 DEF QueueManage, NewAuth
  <2> QED BY <2>1, <2>2, <2>3
<1>5. CASE UNCHANGED <<command, issued>>
  BY <1>2, <1>3, <1>5 DEF AuthsDistinct, PostsPaid
<1>6. ASSUME NEW c \in Command, Persist(c, issued + 1), issued' = issued + 1
      PROVE  DispatchInv'
  <2>1. issued \in Nat
    BY BoundAssumption DEF TypeOK
  <2>2. /\ \A d \in Command \ {c} : command'[d] = command[d]
        /\ command'[c] = IF command[c].state = "ABSENT"
                            THEN [state |-> "QUEUED", auth |-> issued + 1] ELSE command[c]
    BY <1>6 DEF Persist, TypeOK
  <2>3. AuthsDistinct'
    <3>1. \A x \in sent : x[1] \in Command
      BY DEF TypeOK
    <3>2. \A d \in Command : command[d].state # "ABSENT" =>
            command'[d] = command[d] /\ command[d].auth \in 1..issued
      BY <2>2 DEF AuthsDistinct
    <3>3. command[c].state = "ABSENT" =>
            command'[c].state = "QUEUED" /\ command'[c].auth = issued + 1
      BY <2>2
    <3>4. \A d \in Command : command'[d].state # "ABSENT" => command'[d].auth \in 1..issued'
      BY <1>6, <2>1, <2>2, <3>2, <3>3
    <3>5. ASSUME NEW d \in Command, NEW e \in Command,
                 command'[d].state # "ABSENT", command'[e].state # "ABSENT",
                 command'[d].auth = command'[e].auth
          PROVE  d = e
      BY <2>1, <2>2, <3>2, <3>3, <3>5 DEF AuthsDistinct
    <3>6. \A x \in sent' : command'[x[1]].state # "ABSENT" /\ x[2] = command'[x[1]].auth
      BY <1>3, <3>1, <3>2 DEF AuthsDistinct
    <3> QED BY <3>4, <3>5, <3>6 DEF AuthsDistinct
  <2>4. PostsPaid'
    <3>1. \A d \in Command : command'[d].state \in {"ABSENT", "QUEUED"} =>
            command[d].state \in {"ABSENT", "QUEUED"}
      BY <2>2
    <3> QED BY <1>2, <1>3, <3>1 DEF PostsPaid
  <2> QED BY <1>2, <2>3, <2>4
<1> QED BY <1>4, <1>5, <1>6

(* Reconciliation touches no QUEUED command and no authorization. *)
LEMMA IngestKeeps ==
  ASSUME DispatchInv, TypeOK', Ingest
  PROVE  DispatchInv'
<1> USE DEF DispatchInv
<1>1. UNCHANGED <<job, sent, posts, rolledBack, issued>>
  BY DEF Ingest, Reconciled, wireVars
<1>2. \A c \in Command :
        /\ command'[c].auth = command[c].auth
        /\ command[c].state \in Pending => command'[c].state \in Settled
        /\ command[c].state \notin Pending => command'[c] = command[c]
  BY DEF Ingest, Reconciled, Unsettled, Verdict, Settled, TypeOK, CommandRow
<1>3. \A p \in Plan : plan'[p].auth = plan[p].auth
  BY DEF Ingest, Reconciled, TypeOK, PlanRow
<1>4. \A c \in Command :
        /\ command'[c].state # "ABSENT" <=> command[c].state # "ABSENT"
        /\ command'[c].state \in {"ABSENT", "QUEUED"} => command'[c] = command[c]
        /\ command[c].state = "QUEUED" => command'[c].state = "QUEUED"
  BY <1>2 DEF Pending, Settled
<1>5. OneDispatch' /\ DispatchBound'
  <2>1. \A w \in Worker : job[w].kind = "dispatch" => job[w].cmd \in Command /\ job[w].cmd[1] \in Plan
    BY JobKinds DEF DispatchJob, Command
  <2> QED BY <1>1, <1>2, <1>3, <1>4, <2>1 DEF OneDispatch, DispatchBound, Bound
<1>6. AuthsDistinct'
  <2>1. \A x \in sent : x[1] \in Command
    BY DEF TypeOK
  <2> QED BY <1>1, <1>2, <1>4, <2>1 DEF AuthsDistinct
<1>7. PostsPaid'
  BY <1>1, <1>4 DEF PostsPaid, Posted
<1> QED BY <1>5, <1>6, <1>7

(* The dispatch invariant holds before anything is queued.                 *)
LEMMA DispatchInvInit == Init => DispatchInv
<1> SUFFICES ASSUME Init PROVE DispatchInv
  OBVIOUS
<1>1. \A w \in Worker : job[w].kind # "dispatch"
  BY DEF Init, Idle
<1>2. \A c \in Command : command[c].state = "ABSENT" /\ posts[c] = 0 /\ rolledBack[c] = 0
  BY DEF Init
<1> QED BY <1>1, <1>2, InitTyped
        DEF Init, DispatchInv, OneDispatch, DispatchBound, AuthsDistinct, PostsPaid

(* Every transaction, switch and snapshot keeps the dispatch invariant.    *)
LEMMA DispatchInvStep == DispatchInv /\ [Next]_vars => DispatchInv'
<1> SUFFICES ASSUME DispatchInv, [Next]_vars PROVE DispatchInv'
  OBVIOUS
<1>0. TypeOK /\ DispatchBound /\ AuthsDistinct
  BY DEF DispatchInv
<1>1. ASSUME NEW w \in Worker,
             \/ \E p \in Plan : BeginEntry(w, p)
             \/ \E p \in Plan, a \in Manage : BeginManage(w, p, a)
             \/ EvaluateEntry(w)
      PROVE  DispatchInv'
  <2>1. TypeOK'
    BY <1>0, <1>1, BeginTyped
  <2>2. UNCHANGED <<command, plan, sent, posts, rolledBack, issued>>
    BY <1>1 DEF BeginEntry, BeginManage, EvaluateEntry, rowVars, wireVars
  <2>3. /\ job[w].kind # "dispatch" /\ job'[w].kind # "dispatch"
        /\ \A v \in Worker \ {w} : job'[v] = job[v]
    <3>1. CASE EvaluateEntry(w)
      <4>1. job[w] \in EntryJob
        BY <1>0, <3>1, JobKinds DEF EvaluateEntry
      <4> QED BY <1>0, <3>1, <4>1 DEF EvaluateEntry, EntryJob, TypeOK
    <3>2. CASE ~ EvaluateEntry(w)
      BY <1>0, <1>1, <3>2 DEF BeginEntry, BeginManage, Idle, TypeOK
    <3> QED BY <3>1, <3>2
  <2> QED BY <2>1, <2>2, <2>3, QuietKeeps
<1>2. ASSUME NEW w \in Worker, NEW c \in Command, BeginDispatch(w, c) PROVE DispatchInv'
  BY <1>0, <1>2, BeginTyped, BeginDispatchKeeps
<1>3. ASSUME NEW w \in Worker, NEW reached \in BOOLEAN, NEW answered \in BOOLEAN,
             Post(w, reached, answered)
      PROVE  DispatchInv'
  BY <1>0, <1>3, DispatchTyped, PostKeeps
<1>4. ASSUME NEW w \in Worker, CommitDispatch(w) PROVE DispatchInv'
  <2>1. job[w].kind = "dispatch"
    BY <1>4 DEF CommitDispatch
  <2> QED BY <1>0, <1>4, <2>1, DispatchTyped, FinishKeeps
<1>5. ASSUME NEW w \in Worker, RollBack(w) PROVE DispatchInv'
  <2>1. TypeOK'
    BY <1>0, <1>5, DispatchTyped
  <2>2. CASE job[w].kind = "dispatch"
    BY <1>5, <2>1, <2>2, FinishKeeps
  <2>3. CASE job[w].kind # "dispatch"
    <3>1. UNCHANGED <<command, plan, sent, posts, rolledBack, issued>>
      BY <1>5, <2>3 DEF RollBack, rowVars
    <3>2. job'[w].kind # "dispatch" /\ \A v \in Worker \ {w} : job'[v] = job[v]
      BY <1>0, <1>5 DEF RollBack, Idle, TypeOK
    <3> QED BY <2>1, <2>3, <3>1, <3>2, QuietKeeps
  <2> QED BY <2>2, <2>3
<1>6. ASSUME NEW w \in Worker, BlockEntry(w) \/ QueueEntry(w) \/ QueueManage(w)
      PROVE  DispatchInv'
  BY <1>0, <1>6, QueueTyped, QueueKeeps
<1>7. CASE Operator
  <2>1. TypeOK'
    BY <1>0, <1>7, SafetyTyped DEF Operator
  <2>2. UNCHANGED <<command, plan, sent, posts, rolledBack, issued, job>>
    BY <1>7 DEF Operator, SetPermissions, SetKillSwitch, rowVars, wireVars
  <2> QED BY <2>1, <2>2, QuietKeeps
<1>8. CASE Outside
  <2>1. TypeOK'
    BY <1>0, <1>8, OutsideTyped
  <2>2. CASE Ingest
    BY <2>1, <2>2, IngestKeeps
  <2>3. CASE ~ Ingest
    <3>1. UNCHANGED <<command, plan, sent, posts, rolledBack, issued, job>>
      BY <1>8, <2>3 DEF Outside, SnapshotAges, BrokerApplies, BrokerCloses, PlanLapses,
                        AuthLapses, ReservationLapses, rowVars, wireVars
    <3> QED BY <2>1, <3>1, QuietKeeps
  <2> QED BY <2>2, <2>3
<1>9. CASE UNCHANGED vars
  <2>1. UNCHANGED <<command, plan, sent, posts, rolledBack, issued, job>> /\ TypeOK'
    BY <1>0, <1>9 DEF vars, rowVars, safetyVars, clockVars, brokerVars, wireVars, snapVars, TypeOK
  <2> QED BY <2>1, QuietKeeps
<1> QED BY <1>1, <1>2, <1>3, <1>4, <1>5, <1>6, <1>7, <1>8, <1>9 DEF Next, Transactions

(* The dispatch invariant holds in every state of every behaviour.         *)
LEMMA DispatchInvariance == Spec => []DispatchInv
BY DispatchInvInit, DispatchInvStep, PTL DEF Spec

(* The rows, transactions and histories keep their types; in particular no *)
(* plan is ever sized below zero, whatever is open and reserved.           *)
THEOREM TypeCorrect == Spec => []TypeOK
<1>1. DispatchInv => TypeOK
  BY DEF DispatchInv
<1> QED BY <1>1, DispatchInvariance, PTL

(* Redelivered tasks and concurrent workers never post a command twice:    *)
(* only a dispatch that fails to commit after posting makes room for one   *)
(* more post.                                                              *)
THEOREM PostedOnce == Spec => []PostedOncePerDispatch
<1>1. DispatchInv => PostedOncePerDispatch
  BY DEF DispatchInv, PostsPaid, PostedOncePerDispatch
<1> QED BY <1>1, DispatchInvariance, PTL

(* Commands and the authorizations they are sent under match one to one,   *)
(* however often an intent is queued and authorized again.                 *)
THEOREM OneIntentEach == Spec => []OneIntentPerAuthorization
<1>1. DispatchInv => OneIntentPerAuthorization
  BY DEF DispatchInv, TypeOK, AuthsDistinct, OneIntentPerAuthorization
<1> QED BY <1>1, DispatchInvariance, PTL
----------------------------------------------------------------------------
(* Settled commands and expired reservations                               *)

(* A settled command is not leased, not queued and not reconciled again.   *)
LEMMA SettledStays ==
  ASSUME DispatchInv, [Next]_vars, NEW c \in Command, command[c].state \in Settled
  PROVE  command'[c] = command[c]
<1> USE DEF DispatchInv
<1>1. ASSUME NEW w \in Worker, QueueEntry(w) \/ QueueManage(w) PROVE command'[c] = command[c]
  <2>1. PICK d, id : Persist(d, id)
    BY <1>1 DEF QueueEntry, QueueManage
  <2> QED BY <1>1, <2>1 DEF Persist, Settled, TypeOK
<1>2. ASSUME NEW w \in Worker, CommitDispatch(w) PROVE command'[c] = command[c]
  <2>1. command[job[w].cmd].state = "QUEUED"
    BY <1>2 DEF CommitDispatch, DispatchBound
  <2> QED BY <1>2, <2>1 DEF CommitDispatch, Settled, TypeOK
<1>3. CASE Ingest
  BY <1>3 DEF Ingest, Reconciled, Unsettled, Pending, Settled
<1>4. ASSUME UNCHANGED command PROVE command'[c] = command[c]
  BY <1>4
<1> QED BY <1>1, <1>2, <1>3, <1>4
        DEF Next, Transactions, Operator, Outside, BeginEntry, EvaluateEntry, BlockEntry,
            BeginManage, BeginDispatch, Post, RollBack, SetPermissions, SetKillSwitch,
            SnapshotAges, BrokerApplies, BrokerCloses, PlanLapses, AuthLapses,
            ReservationLapses, rowVars, vars

(* Every writer of a reservation that exists goes through transition, which *)
(* refuses the expired ones, or sweeps it again.                            *)
LEMMA ExpiredStays ==
  ASSUME DispatchInv, [Next]_vars, NEW p \in Plan, resv[p].state = "EXPIRED"
  PROVE  resv'[p] = resv[p]
<1> USE DEF DispatchInv
<1>1. ASSUME NEW w \in Worker, QueueEntry(w) PROVE resv'[p] = resv[p]
  <2>1. p # job[w].plan
    BY <1>1 DEF QueueEntry, Transitionable, ActiveResv
  <2>2. [resv[p] EXCEPT !.state = "EXPIRED"] = resv[p]
    BY DEF TypeOK
  <2> QED BY <1>1, <2>1, <2>2 DEF QueueEntry
<1>2. ASSUME NEW w \in Worker, CommitDispatch(w) PROVE resv'[p] = resv[p]
  BY <1>2 DEF CommitDispatch, Transitionable, ActiveResv, TypeOK
<1>3. CASE Ingest
  <2>1. p \notin Filled
    BY <1>3 DEF Ingest, Transitionable, ActiveResv
  <2> QED BY <1>3, <2>1 DEF Ingest
<1>4. ASSUME UNCHANGED resv PROVE resv'[p] = resv[p]
  BY <1>4
<1> QED BY <1>1, <1>2, <1>3, <1>4
        DEF Next, Transactions, Operator, Outside, BeginEntry, EvaluateEntry, BlockEntry,
            BeginManage, QueueManage, BeginDispatch, Post, RollBack, SetPermissions,
            SetKillSwitch, SnapshotAges, BrokerApplies, BrokerCloses, PlanLapses,
            AuthLapses, ReservationLapses, rowVars, vars

(* Settled commands and expired reservations stay as they are, whoever     *)
(* writes their rows next.                                                 *)
THEOREM TerminalForGood == Spec => TerminalRowsStay
<1>1. DispatchInv /\ [Next]_vars =>
        [/\ \A c \in Command : command[c].state \in Settled => command'[c] = command[c]
         /\ \A p \in Plan : resv[p].state = "EXPIRED" => resv'[p] = resv[p]]_vars
  BY SettledStays, ExpiredStays
<1> QED BY <1>1, DispatchInvariance, PTL DEF Spec, TerminalRowsStay

----------------------------------------------------------------------------
(* The fence                                                               *)

(* From its checks to its commit a dispatch finds what it checked: the     *)
(* rows it checked are locked, if they exist.                              *)
Fence(c) == NoKill /\ Permits(c[2]) /\ plan[c[1]].auth.epoch = Epoch
Fenced ==
  /\ \A s \in Scope : kill[s].row
  /\ \A w \in Worker : job[w].kind = "dispatch" => Fence(job[w].cmd)

(* A dispatch in flight keeps the locks its checks were made under.        *)
LEMMA FencedStep == DispatchInv /\ Fenced /\ [Next]_vars => Fenced'
<1> SUFFICES ASSUME DispatchInv, Fenced, [Next]_vars PROVE Fenced'
  OBVIOUS
<1>0. TypeOK
  BY DEF DispatchInv
(* Nothing that was checked changes. *)
<1>1. ASSUME UNCHANGED <<perm, kill>>, \A p \in Plan : plan'[p].auth = plan[p].auth,
             \A v \in Worker : job'[v].kind = "dispatch" =>
               job[v].kind = "dispatch" /\ job'[v].cmd = job[v].cmd
      PROVE  Fenced'
  <2>1. \A w \in Worker : job[w].kind = "dispatch" => job[w].cmd[1] \in Plan
    BY <1>0, JobKinds DEF DispatchJob, Command
  <2> QED BY <1>1, <2>1 DEF Fenced, Fence, NoKill, Permits, Epoch
(* Nothing is being dispatched. *)
<1>2. ASSUME \A s \in Scope : kill'[s].row, \A v \in Worker : job'[v].kind # "dispatch"
      PROVE  Fenced'
  BY <1>2 DEF Fenced
<1>3. ASSUME NEW w \in Worker,
             \/ \E p \in Plan : BeginEntry(w, p)
             \/ \E p \in Plan, a \in Manage : BeginManage(w, p, a)
             \/ EvaluateEntry(w)
             \/ \E reached, answered \in BOOLEAN : Post(w, reached, answered)
             \/ RollBack(w)
      PROVE  Fenced'
  <2>1. UNCHANGED <<perm, kill, plan>>
    BY <1>3 DEF BeginEntry, BeginManage, EvaluateEntry, Post, RollBack, rowVars, safetyVars
  <2>2. \A v \in Worker \ {w} : job'[v] = job[v]
    BY <1>0, <1>3 DEF BeginEntry, BeginManage, EvaluateEntry, Post, RollBack, TypeOK
  <2>3. job'[w].kind = "dispatch" => job[w].kind = "dispatch" /\ job'[w].cmd = job[w].cmd
    <3>1. CASE EvaluateEntry(w)
      <4>1. job[w] \in EntryJob
        BY <1>0, <3>1, JobKinds DEF EvaluateEntry
      <4> QED BY <1>0, <3>1, <4>1 DEF EvaluateEntry, EntryJob, TypeOK
    <3>2. ASSUME NEW reached \in BOOLEAN, NEW answered \in BOOLEAN, Post(w, reached, answered)
          PROVE  job[w].kind = "dispatch" /\ job'[w].cmd = job[w].cmd
      <4>1. job[w] \in DispatchJob
        BY <1>0, <3>2, JobKinds DEF Post
      <4> QED BY <1>0, <3>2, <4>1 DEF Post, DispatchJob, TypeOK
    <3>3. CASE \/ \E p \in Plan : BeginEntry(w, p)
               \/ \E p \in Plan, a \in Manage : BeginManage(w, p, a)
               \/ RollBack(w)
      BY <1>0, <3>3 DEF BeginEntry, BeginManage, RollBack, Idle, TypeOK
    <3> QED BY <1>3, <3>1, <3>2, <3>3
  <2> QED BY <1>1, <2>1, <2>2, <2>3
<1>4. ASSUME NEW w \in Worker, NEW c \in Command, BeginDispatch(w, c) PROVE Fenced'
  <2>1. /\ UNCHANGED <<perm, kill, plan>> /\ Fence(c)
        /\ \A v \in Worker : job[v].kind # "dispatch"
    BY <1>4 DEF BeginDispatch, Authorized, Fence, RowsFree, rowVars, safetyVars
  <2>2. job'[w].cmd = c /\ \A v \in Worker \ {w} : job'[v] = job[v]
    BY <1>0, <1>4 DEF BeginDispatch, TypeOK
  <2> QED BY <2>1, <2>2 DEF Fenced, Fence, NoKill, Permits, Epoch
<1>5. ASSUME NEW w \in Worker, CommitDispatch(w) PROVE Fenced'
  <2>1. \A v \in Worker : job'[v].kind # "dispatch"
    BY <1>0, <1>5 DEF CommitDispatch, DispatchInv, OneDispatch, Idle, TypeOK
  <2> QED BY <1>2, <1>5, <2>1 DEF CommitDispatch, safetyVars, Fenced
<1>6. ASSUME NEW w \in Worker, BlockEntry(w) \/ QueueEntry(w) \/ QueueManage(w) PROVE Fenced'
  <2>1. \A v \in Worker : job'[v].kind # "dispatch"
    BY <1>0, <1>6 DEF BlockEntry, QueueEntry, QueueManage, RowsFree, Idle, TypeOK
  <2> QED BY <1>2, <1>6, <2>1 DEF BlockEntry, QueueEntry, QueueManage, safetyVars, Fenced
<1>7. CASE Operator
  <2>1. RowsFree /\ UNCHANGED job
    BY <1>7 DEF Operator, SetPermissions, SetKillSwitch, Fenced
  <2>2. \A s \in Scope : kill'[s].row
    BY <1>0, <1>7 DEF Operator, SetPermissions, SetKillSwitch, Fenced, TypeOK
  <2> QED BY <1>2, <2>1, <2>2 DEF RowsFree
<1>8. CASE Outside
  <2>1. UNCHANGED <<perm, kill, job>>
    BY <1>8 DEF Outside, Ingest, Reconciled, SnapshotAges, BrokerApplies, BrokerCloses, PlanLapses,
                AuthLapses, ReservationLapses, safetyVars
  <2>2. \A p \in Plan : plan'[p].auth = plan[p].auth
    BY <1>0, <1>8 DEF Outside, Ingest, Reconciled, SnapshotAges, BrokerApplies, BrokerCloses, PlanLapses,
                      AuthLapses, ReservationLapses, rowVars, TypeOK, PlanRow
  <2> QED BY <1>1, <2>1, <2>2
<1>9. CASE UNCHANGED vars
  BY <1>1, <1>9 DEF vars, rowVars, safetyVars
<1> QED BY <1>3, <1>4, <1>5, <1>6, <1>7, <1>8, <1>9 DEF Next, Transactions

(* Once both kill switches have a row, nothing reaches the bridge under a  *)
(* kill switch, without the permission, or on an authorization a kill      *)
(* switch has invalidated, whatever the operator does meanwhile.           *)
THEOREM SendsAreFenced ==
  ASSUME InitialRows = Scope
  PROVE  Spec => SendIsFenced
<1>1. Init => Fenced
  <2> SUFFICES ASSUME Init PROVE Fenced
    OBVIOUS
  <2>1. ASSUME NEW s \in Scope PROVE kill[s].row
    <3>1. kill[s].row = (s \in InitialRows)
      BY DEF Init
    <3> QED BY <3>1
  <2>2. \A w \in Worker : job[w].kind # "dispatch"
    BY DEF Init, Idle
  <2> QED BY <2>1, <2>2 DEF Fenced
<1>2. ASSUME DispatchInv, Fenced, [Next]_vars, NEW c \in Command, posts'[c] > posts[c]
      PROVE  Fence(c)
  <2> USE DEF DispatchInv
  <2>1. posts[c] \in Nat
    BY <1>2 DEF TypeOK
  <2>2. PICK w \in Worker : \E reached, answered \in BOOLEAN : Post(w, reached, answered)
    <3>1. ~ UNCHANGED posts
      BY <1>2, <2>1
    <3>2. ~Operator
      BY <3>1 DEF Operator, SetPermissions, SetKillSwitch, wireVars
    <3>3. ~Outside
      BY <3>1 DEF Outside, Ingest, Reconciled, SnapshotAges, BrokerApplies, BrokerCloses,
                  PlanLapses, AuthLapses, ReservationLapses, wireVars
    <3>4. Transactions
      BY <1>2, <3>1, <3>2, <3>3 DEF Next, vars, wireVars
    <3> QED BY <3>1, <3>4
       DEF Transactions, BeginEntry, EvaluateEntry, BlockEntry, QueueEntry, BeginManage, QueueManage,
           BeginDispatch, CommitDispatch, RollBack, wireVars
  <2>3. job[w].kind = "dispatch" /\ job[w].cmd = c
    BY <1>2, <2>1, <2>2 DEF Post, TypeOK
  <2> QED BY <1>2, <2>3 DEF Fenced
<1>3. DispatchInv /\ Fenced /\ [Next]_vars =>
        [\A c \in Command : posts'[c] > posts[c] =>
           NoKill /\ Permits(c[2]) /\ plan[c[1]].auth.epoch = Epoch]_vars
  BY <1>2 DEF Fence
<1> QED BY <1>1, <1>3, FencedStep, DispatchInvariance, PTL DEF Spec, SendIsFenced
----------------------------------------------------------------------------
(* The portfolio limit                                                     *)

(* The account lock lets one entry at a time hold an evaluated amount.     *)
OneHolder ==
  \A v, w \in Worker :
    /\ job[v].kind = "entry" /\ job[v].stage # "read"
    /\ job[w].kind = "entry" /\ job[w].stage # "read"
    => v = w

(* What an entry is about to reserve still fits when it commits: a new     *)
(* amount beside the reservations it does not sweep, an old one in place.  *)
Fits(w) ==
  LET p == job[w].plan IN
  IF resv[p].state = "NONE"
    THEN RiskOf(ActivePlans \ job[w].swept) + job[w].amount <= Cap
    ELSE job[w].swept = {} /\ job[w].amount = resv[p].amount

CapInv ==
  /\ OneHolder
  /\ ReservedWithinCap
  /\ \A w \in Worker : job[w].kind = "entry" /\ job[w].stage = "reserve" => Fits(w)

(* Steps that free, occupy and change no reservation, and evaluate none.   *)
LEMMA SteadyKeepsCap ==
  ASSUME TypeOK, TypeOK', CapInv,
         \A p \in Plan : /\ resv'[p].amount = resv[p].amount
                         /\ resv'[p].state \in ActiveResv <=> resv[p].state \in ActiveResv
                         /\ resv'[p].state = "NONE" <=> resv[p].state = "NONE",
         \A v \in Worker : job'[v].kind = "entry" /\ job'[v].stage # "read" => job'[v] = job[v]
  PROVE  CapInv'
<1>1. ActivePlans' = ActivePlans
  BY DEF ActivePlans
<1>3. OneHolder'
  BY DEF CapInv, OneHolder
<1>4. ReservedWithinCap'
  <2>1. RiskOf(ActivePlans)' = Total(resv', ActivePlans)
    BY <1>1, NextRiskIsTotal
  <2>2. Total(resv', ActivePlans) = RiskOf(ActivePlans)
    <3>1. /\ IsFiniteSet(ActivePlans) /\ ActivePlans \subseteq Plan
          /\ \A p \in ActivePlans : resv'[p].amount = resv[p].amount
      BY PlanAssumption, FS_Subset DEF ActivePlans
    <3>2. Total(resv', ActivePlans) = Total(resv, ActivePlans)
      BY <3>1, TotalAgrees
    <3> QED BY <3>2, RiskIsTotal
  <2> QED BY <2>1, <2>2 DEF CapInv, ReservedWithinCap
<1>5. ASSUME NEW w \in Worker, job'[w].kind = "entry", job'[w].stage = "reserve"
      PROVE  Fits(w)'
  <2>1. job'[w] = job[w] /\ Fits(w) /\ job[w].plan \in Plan
    BY <1>5, JobKinds DEF CapInv, EntryJob
  <2> DEFINE P == ActivePlans \ job[w].swept
  <2>2. RiskOf(ActivePlans \ job[w].swept)' = Total(resv', P)
    BY <1>1, <2>1, NextRiskIsTotal
  <2>3. Total(resv', P) = RiskOf(P)
    <3>1. IsFiniteSet(P) /\ P \subseteq Plan /\ \A p \in P : resv'[p].amount = resv[p].amount
      BY PlanAssumption, FS_Subset DEF ActivePlans
    <3>2. Total(resv', P) = Total(resv, P)
      BY <3>1, TotalAgrees
    <3> QED BY <3>2, RiskIsTotal
  <2>4. RiskOf(ActivePlans \ job[w].swept)' = RiskOf(ActivePlans \ job[w].swept)
    BY <2>2, <2>3
  <2> HIDE DEF P
  <2> QED BY <2>1, <2>4 DEF Fits
<1> QED BY <1>3, <1>4, <1>5 DEF CapInv

(* The evaluation sees to it that the amount fits. *)
LEMMA EvaluateKeepsCap ==
  ASSUME TypeOK, TypeOK', CapInv, NEW w \in Worker, EvaluateEntry(w)
  PROVE  CapInv'
<1> DEFINE p == job[w].plan
<1>1. /\ job[w] \in EntryJob /\ p \in Plan /\ UNCHANGED resv
      /\ \A v \in Worker \ {w} : job'[v] = job[v]
      /\ \A v \in Worker : job[v].kind = "entry" => job[v].stage = "read"
  BY JobKinds DEF EvaluateEntry, EntryJob, AccountFree, rowVars, TypeOK
<1>2. OneHolder'
  BY <1>1 DEF OneHolder
<1>3. ReservedWithinCap'
  <2>1. ActivePlans' = ActivePlans
    BY <1>1 DEF ActivePlans
  <2> QED BY <1>1, <2>1, RiskIsTotal, NextRiskIsTotal DEF CapInv, ReservedWithinCap
<1>4. ASSUME job'[w].stage = "reserve" PROVE Fits(w)'
  <2>1. /\ ~ HardBlocked(p) /\ Reservable(p)
        /\ job' = [job EXCEPT ![w].stage = "reserve", ![w].amount = Sized(p), ![w].swept = SweptBy(p)]
    <3>1. ASSUME job' = [job EXCEPT ![w].stage = "block"] PROVE FALSE
      BY <1>1, <1>4, <3>1 DEF EntryJob, TypeOK
    <3> QED BY <3>1 DEF EvaluateEntry
  <2>2. job'[w].plan = p /\ job'[w].amount = Sized(p) /\ job'[w].swept = SweptBy(p)
    BY <1>1, <2>1 DEF EntryJob, TypeOK
  <2>3. CASE resv[p].state = "NONE"
    <3>1. SweptBy(p) = Sweepable /\ RiskOf(ActivePlans \ Sweepable) + Sized(p) <= Remaining
      BY <2>1, <2>3 DEF SweptBy, Reservable
    <3>2. RiskOf(ActivePlans \ Sweepable) \in Nat /\ Sized(p) \in Nat
      BY <1>1, RiskNat, SizedWithinCap DEF ActivePlans
    <3>3. RiskOf(ActivePlans \ Sweepable) + Sized(p) <= Cap
      BY <1>1, <3>1, <3>2, SizedWithinCap, RiskAssumption
    <3>4. (ActivePlans \ job[w].swept)' = ActivePlans \ Sweepable
      BY <1>1, <2>2, <3>1 DEF ActivePlans
    <3>5. RiskOf(ActivePlans \ job[w].swept)' = RiskOf(ActivePlans \ Sweepable)
      <4>1. RiskOf(ActivePlans \ job[w].swept)' = Total(resv', (ActivePlans \ job[w].swept)')
        BY NextRiskIsTotal
      <4>2. RiskOf(ActivePlans \ Sweepable) = Total(resv, ActivePlans \ Sweepable)
        BY RiskIsTotal
      <4> QED BY <1>1, <3>4, <4>1, <4>2
    <3> QED BY <1>1, <2>2, <2>3, <3>1, <3>3, <3>5 DEF Fits
  <2>4. CASE resv[p].state # "NONE"
    BY <1>1, <2>1, <2>2, <2>4 DEF Fits, SweptBy, Reservable
  <2> QED BY <2>3, <2>4
<1> QED BY <1>1, <1>2, <1>3, <1>4 DEF CapInv

(* The commit puts the amount it holds in place of what it sweeps. *)
LEMMA QueueEntryKeepsCap ==
  ASSUME TypeOK, TypeOK', CapInv, NEW w \in Worker, QueueEntry(w)
  PROVE  CapInv'
<1> DEFINE p == job[w].plan
           A == ActivePlans \ job[w].swept
<1>1. /\ job[w] \in EntryJob /\ p \in Plan /\ job[w].stage = "reserve"
      /\ job[w].amount \in Nat /\ Fits(w)
  BY JobKinds DEF QueueEntry, EntryJob, CapInv
<1>2. \A v \in Worker : ~ (job'[v].kind = "entry" /\ job'[v].stage # "read")
  BY <1>1 DEF QueueEntry, CapInv, OneHolder, Idle, TypeOK
<1>3. OneHolder' /\ \A v \in Worker : job'[v].kind = "entry" /\ job'[v].stage = "reserve" => Fits(v)'
  BY <1>2 DEF OneHolder
<1>4. /\ resv'[p] = [state |-> "COMMAND_PENDING", amount |-> job[w].amount]
      /\ \A q \in Plan \ {p} :
           resv'[q] = IF q \in job[w].swept THEN [resv[q] EXCEPT !.state = "EXPIRED"] ELSE resv[q]
  BY <1>1 DEF QueueEntry
<1>5. \A q \in Plan \ {p} :
        /\ resv'[q].amount = resv[q].amount
        /\ resv'[q].state = IF q \in job[w].swept THEN "EXPIRED" ELSE resv[q].state
  BY <1>4 DEF TypeOK
<1>6. (ActivePlans)' = (A \ {p}) \cup {p}
  BY <1>1, <1>4, <1>5 DEF ActivePlans, ActiveResv
<1>7. IsFiniteSet(A \ {p}) /\ A \subseteq Plan /\ (A \ {p}) \cup {p} \subseteq Plan
  BY <1>1, PlanAssumption, FS_Subset DEF ActivePlans
<1>8. Total(resv', A \ {p}) = Total(resv, A \ {p})
  <2>1. \A q \in A \ {p} : resv'[q].amount = resv[q].amount
    BY <1>5, <1>7
  <2> HIDE DEF A
  <2> QED BY <1>7, <2>1, TotalAgrees
<1>9. Total(resv', (A \ {p}) \cup {p}) = Total(resv, A \ {p}) + job[w].amount
  <2>1. \A q \in (A \ {p}) \cup {p} : resv'[q].amount \in Nat
    BY <1>1, <1>7 DEF TypeOK
  <2>2. resv'[p].amount = job[w].amount
    BY <1>4
  <2>3. p \notin A \ {p}
    OBVIOUS
  <2>4. Total(resv', (A \ {p}) \cup {p}) = Total(resv', A \ {p}) + resv'[p].amount
    <3> HIDE DEF A, p
    <3> QED BY <1>7, <2>1, <2>3, TotalAdds
  <2> QED BY <1>8, <2>2, <2>4
<1>10. Total(resv, A \ {p}) + job[w].amount <= Cap
  <2>1. CASE resv[p].state = "NONE"
    <3>1. A \ {p} = A
      BY <2>1 DEF ActivePlans, ActiveResv
    <3> QED BY <1>1, <2>1, <3>1, RiskIsTotal DEF Fits
  <2>2. CASE resv[p].state # "NONE"
    <3>1. A = ActivePlans /\ p \in A /\ job[w].amount = resv[p].amount
      BY <1>1, <2>2 DEF Fits, QueueEntry, Transitionable, ActivePlans
    <3>2. \A q \in (A \ {p}) \cup {p} : resv[q].amount \in Nat
      BY <1>1, <1>7 DEF TypeOK
    <3>3. Total(resv, (A \ {p}) \cup {p}) = Total(resv, A \ {p}) + resv[p].amount
      <4>1. p \notin A \ {p}
        OBVIOUS
      <4> HIDE DEF A, p
      <4> QED BY <1>7, <3>2, <4>1, TotalAdds
    <3>4. (A \ {p}) \cup {p} = ActivePlans
      BY <3>1
    <3> QED BY <3>1, <3>3, <3>4, RiskIsTotal DEF CapInv, ReservedWithinCap
  <2> QED BY <2>1, <2>2
<1>11. ReservedWithinCap'
  <2>1. RiskOf(ActivePlans)' = Total(resv', (A \ {p}) \cup {p})
    <3>1. RiskOf(ActivePlans)' = Total(resv', ActivePlans')
      BY NextRiskIsTotal
    <3> QED BY <1>6, <3>1
  <2> HIDE DEF A, p
  <2> QED BY <1>9, <1>10, <2>1 DEF ReservedWithinCap
<1> QED BY <1>3, <1>11 DEF CapInv
(* Nothing is reserved at first.                                           *)
LEMMA CapInvInit == Init => CapInv
<1> SUFFICES ASSUME Init PROVE CapInv
  OBVIOUS
<1>1. \A w \in Worker : job[w].kind # "entry"
  BY DEF Init, Idle
<1>2. ActivePlans = {}
  BY DEF Init, ActivePlans, ActiveResv
<1>3. Total(resv, {}) = 0
  BY SumOfNone DEF Total
<1>4. RiskOf(ActivePlans) <= Cap
  BY <1>2, <1>3, RiskIsTotal, RiskAssumption
<1> QED BY <1>1, <1>4 DEF CapInv, OneHolder, ReservedWithinCap

(* Every step keeps one holder of the account lock and the limit.          *)
LEMMA CapInvStep == TypeOK /\ TypeOK' /\ CapInv /\ [Next]_vars => CapInv'
<1> SUFFICES ASSUME TypeOK, TypeOK', CapInv, [Next]_vars PROVE CapInv'
  OBVIOUS
<1>1. ASSUME NEW w \in Worker,
             \/ \E p \in Plan : BeginEntry(w, p)
             \/ \E p \in Plan, a \in Manage : BeginManage(w, p, a)
             \/ \E c \in Command : BeginDispatch(w, c)
             \/ \E reached, answered \in BOOLEAN : Post(w, reached, answered)
             \/ BlockEntry(w) \/ QueueManage(w) \/ RollBack(w)
      PROVE  CapInv'
  <2>1. UNCHANGED resv /\ \A v \in Worker \ {w} : job'[v] = job[v]
    BY <1>1 DEF BeginEntry, BeginManage, BeginDispatch, Post, BlockEntry, QueueManage,
                RollBack, rowVars, TypeOK
  <2>2. ~ (job'[w].kind = "entry" /\ job'[w].stage # "read")
    <3>1. ASSUME NEW reached \in BOOLEAN, NEW answered \in BOOLEAN, Post(w, reached, answered)
          PROVE  job'[w].kind # "entry"
      <4>1. job[w] \in DispatchJob
        BY <3>1, JobKinds DEF Post
      <4> QED BY <3>1, <4>1 DEF Post, DispatchJob, TypeOK
    <3>2. ASSUME NEW p \in Plan, BeginEntry(w, p) PROVE job'[w].stage = "read"
      BY <3>2 DEF BeginEntry, TypeOK
    <3>3. CASE \/ \E p \in Plan, a \in Manage : BeginManage(w, p, a)
               \/ \E c \in Command : BeginDispatch(w, c)
               \/ BlockEntry(w) \/ QueueManage(w) \/ RollBack(w)
      BY <3>3 DEF BeginManage, BeginDispatch, BlockEntry, QueueManage, RollBack, Idle, TypeOK
    <3> QED BY <1>1, <3>1, <3>2, <3>3
  <2> QED BY <2>1, <2>2, SteadyKeepsCap
<1>2. ASSUME NEW w \in Worker, EvaluateEntry(w) PROVE CapInv'
  BY <1>2, EvaluateKeepsCap
<1>3. ASSUME NEW w \in Worker, QueueEntry(w) PROVE CapInv'
  BY <1>3, QueueEntryKeepsCap
<1>4. ASSUME NEW w \in Worker, CommitDispatch(w) PROVE CapInv'
  <2>1. \/ resv' = resv
        \/ resv[job[w].cmd[1]].state \in ActiveResv
             /\ resv' = [resv EXCEPT ![job[w].cmd[1]].state = "ORDER_WORKING"]
    BY <1>4 DEF CommitDispatch, Transitionable
  <2>2. \A p \in Plan : /\ resv'[p].amount = resv[p].amount
                        /\ resv'[p].state \in ActiveResv <=> resv[p].state \in ActiveResv
                        /\ resv'[p].state = "NONE" <=> resv[p].state = "NONE"
    <3>1. CASE resv' = resv
      BY <3>1
    <3>2. CASE resv' # resv
      <4> DEFINE q == job[w].cmd[1]
      <4>1. /\ resv[q].state \in ActiveResv
            /\ resv' = [resv EXCEPT ![q].state = "ORDER_WORKING"]
        BY <2>1, <3>2
      <4> HIDE DEF q
      <4>2. \A p \in Plan : /\ resv'[p].amount = resv[p].amount
                            /\ resv'[p].state = IF p = q THEN "ORDER_WORKING" ELSE resv[p].state
        BY <4>1 DEF TypeOK
      <4> QED BY <4>1, <4>2 DEF ActiveResv
    <3> QED BY <3>1, <3>2
  <2>3. job'[w] = Idle /\ \A v \in Worker \ {w} : job'[v] = job[v]
    BY <1>4 DEF CommitDispatch, TypeOK
  <2> QED BY <2>2, <2>3, SteadyKeepsCap DEF Idle
<1>5. CASE Ingest
  <2>1. \A p \in Plan : /\ resv'[p].amount = resv[p].amount
                        /\ resv'[p].state \in ActiveResv <=> resv[p].state \in ActiveResv
                        /\ resv'[p].state = "NONE" <=> resv[p].state = "NONE"
    BY <1>5 DEF Ingest, Reconciled, Transitionable, ActiveResv, Filled, TypeOK
  <2> QED BY <1>5, <2>1, SteadyKeepsCap DEF Ingest, Reconciled
<1>6. ASSUME UNCHANGED <<resv, job>> PROVE CapInv'
  BY <1>6, SteadyKeepsCap
<1> QED BY <1>1, <1>2, <1>3, <1>4, <1>5, <1>6
        DEF Next, Transactions, Operator, Outside, SetPermissions, SetKillSwitch, SnapshotAges,
            BrokerApplies, BrokerCloses, PlanLapses, AuthLapses, ReservationLapses, rowVars, vars

(* However many entries run at once, and whatever they sweep, the account's *)
(* active reservations stay within its portfolio limit.                     *)
THEOREM ReservationsFit == Spec => []ReservedWithinCap
<1>1. DispatchInv /\ DispatchInv' => TypeOK /\ TypeOK'
  BY DEF DispatchInv
<1>2. CapInv => ReservedWithinCap
  BY DEF CapInv
<1> QED BY <1>1, <1>2, CapInvInit, CapInvStep, DispatchInvariance, PTL DEF Spec

----------------------------------------------------------------------------
(* Fills                                                                   *)

(* A plan, or a transaction's copy of it, is ACTIVE only on a fill. *)
CopiesAreReal ==
  \A w \in Worker :
    job[w].kind \in {"entry", "manage"} /\ job[w].copy.state = "ACTIVE" =>
      <<job[w].plan, Entry>> \in applied

(* Reconciliation finds a fill only where there is one. *)
LEMMA MatchIsReal ==
  ASSUME \A p, q \in Plan : Shape[p] = Shape[q] => p = q,
         NEW p \in Plan, Verdict(<<p, Entry>>) = "APPLIED"
  PROVE  <<p, Entry>> \in applied
<1>1. Cardinality(Matches(<<p, Entry>>)) = 1
  BY DEF Verdict
<1>2. Matches(<<p, Entry>>) # {}
  BY <1>1, FS_EmptySet
<1>3. \E q \in Open : Shape[q] = Shape[p]
  BY <1>2 DEF Matches
<1> QED BY <1>3 DEF Open

(* No step records a fill the broker has not made.                         *)
LEMMA FillsStep ==
  ASSUME \A p, q \in Plan : Shape[p] = Shape[q] => p = q
  PROVE  TypeOK /\ TypeOK' /\ FillsAreReal /\ CopiesAreReal /\ [Next]_vars =>
           FillsAreReal' /\ CopiesAreReal'
<1> SUFFICES ASSUME TypeOK, TypeOK', FillsAreReal, CopiesAreReal, [Next]_vars
             PROVE  FillsAreReal' /\ CopiesAreReal'
  OBVIOUS
<1>1. applied \subseteq applied'
  <2>1. CASE Transactions
    <3>1. PICK w \in Worker :
            \/ \E p \in Plan : BeginEntry(w, p)
            \/ EvaluateEntry(w) \/ BlockEntry(w) \/ QueueEntry(w)
            \/ \E p \in Plan, a \in Manage : BeginManage(w, p, a)
            \/ QueueManage(w)
            \/ \E c \in Command : BeginDispatch(w, c)
            \/ \E reached, answered \in BOOLEAN : Post(w, reached, answered)
            \/ CommitDispatch(w)
            \/ RollBack(w)
      BY <2>1 DEF Transactions
    <3>2. CASE \/ \E p \in Plan : BeginEntry(w, p)
               \/ EvaluateEntry(w) \/ BlockEntry(w) \/ QueueEntry(w)
      BY <3>2 DEF BeginEntry, EvaluateEntry, BlockEntry, QueueEntry, brokerVars
    <3>3. CASE \/ \E p \in Plan, a \in Manage : BeginManage(w, p, a)
               \/ QueueManage(w)
               \/ \E c \in Command : BeginDispatch(w, c)
      BY <3>3 DEF BeginManage, QueueManage, BeginDispatch, brokerVars
    <3>4. CASE \/ \E reached, answered \in BOOLEAN : Post(w, reached, answered)
               \/ CommitDispatch(w)
               \/ RollBack(w)
      BY <3>4 DEF Post, CommitDispatch, RollBack, brokerVars
    <3> QED BY <3>1, <3>2, <3>3, <3>4
  <2>2. CASE Operator
    BY <2>2 DEF Operator, SetPermissions, SetKillSwitch, brokerVars
  <2>3. CASE Outside
    BY <2>3 DEF Outside, Ingest, Reconciled, SnapshotAges, BrokerApplies, BrokerCloses,
                PlanLapses, AuthLapses, ReservationLapses, brokerVars
  <2>4. CASE UNCHANGED vars
    BY <2>4 DEF vars, brokerVars
  <2> QED BY <2>1, <2>2, <2>3, <2>4 DEF Next
<1>2. ASSUME UNCHANGED <<plan, command, resv>> PROVE FillsAreReal'
  BY <1>1, <1>2 DEF FillsAreReal
(* A transaction's copy is what the row says, or was there before. *)
<1>3. ASSUME \A v \in Worker :
               \/ job'[v].kind \notin {"entry", "manage"}
               \/ job'[v].plan \in Plan /\ job'[v].copy = plan[job'[v].plan]
               \/ /\ job[v].kind \in {"entry", "manage"}
                  /\ job'[v].plan = job[v].plan /\ job'[v].copy = job[v].copy
      PROVE  CopiesAreReal'
  BY <1>1, <1>3 DEF CopiesAreReal, FillsAreReal
<1>4. ASSUME NEW w \in Worker,
             \/ \E p \in Plan : BeginEntry(w, p)
             \/ \E p \in Plan, a \in Manage : BeginManage(w, p, a)
             \/ \E c \in Command : BeginDispatch(w, c)
             \/ RollBack(w)
      PROVE  FillsAreReal' /\ CopiesAreReal'
  BY <1>2, <1>3, <1>4 DEF BeginEntry, BeginManage, BeginDispatch, RollBack, Idle, rowVars, TypeOK
<1>5. ASSUME NEW w \in Worker,
             EvaluateEntry(w) \/ \E reached, answered \in BOOLEAN : Post(w, reached, answered)
      PROVE  FillsAreReal' /\ CopiesAreReal'
  <2>1. UNCHANGED <<plan, command, resv>> /\ \A v \in Worker \ {w} : job'[v] = job[v]
    BY <1>5 DEF EvaluateEntry, Post, rowVars, TypeOK
  <2>2. CASE EvaluateEntry(w)
    <3>1. job[w] \in EntryJob
      BY <2>2, JobKinds DEF EvaluateEntry
    <3>2. job'[w].kind = "entry" /\ job'[w].plan = job[w].plan /\ job'[w].copy = job[w].copy
      BY <2>2, <3>1 DEF EvaluateEntry, EntryJob, TypeOK
    <3> QED BY <1>2, <1>3, <2>1, <2>2, <3>2 DEF EvaluateEntry
  <2>3. ASSUME NEW reached \in BOOLEAN, NEW answered \in BOOLEAN, Post(w, reached, answered)
        PROVE  FillsAreReal' /\ CopiesAreReal'
    <3>1. job[w] \in DispatchJob
      BY <2>3, JobKinds DEF Post
    <3>2. job'[w].kind = "dispatch"
      BY <2>3, <3>1 DEF Post, DispatchJob, TypeOK
    <3> QED BY <1>2, <1>3, <2>1, <3>2
  <2> QED BY <1>5, <2>2, <2>3
<1>6. ASSUME NEW w \in Worker, BlockEntry(w) \/ QueueEntry(w) \/ QueueManage(w) \/ CommitDispatch(w)
      PROVE  FillsAreReal' /\ CopiesAreReal'
  <2>1. CopiesAreReal'
    <3>1. job' = [job EXCEPT ![w] = Idle]
      BY <1>6 DEF BlockEntry, QueueEntry, QueueManage, CommitDispatch
    <3>2. \A v \in Worker : job'[v] = IF v = w THEN Idle ELSE job[v]
      BY <3>1 DEF TypeOK
    <3> QED BY <1>3, <3>2 DEF Idle
  <2>2. ASSUME NEW p \in Plan, plan'[p].state = "ACTIVE"
        PROVE  <<p, Entry>> \in applied
    <3>1. CASE BlockEntry(w)
      <4>1. job[w].copy \in PlanRow
        BY <3>1, JobKinds DEF BlockEntry, EntryJob
      <4> QED BY <2>2, <3>1, <4>1 DEF BlockEntry, PlanRow, FillsAreReal, TypeOK
    <3>2. CASE QueueEntry(w)
      BY <2>2, <3>2 DEF QueueEntry, FillsAreReal, TypeOK
    <3>3. CASE QueueManage(w)
      <4>1. job[w].copy \in PlanRow
        BY <3>3, JobKinds DEF QueueManage, ManageJob
      <4> QED BY <2>2, <3>3, <4>1 DEF QueueManage, PlanRow, FillsAreReal, CopiesAreReal, TypeOK
    <3>4. CASE CommitDispatch(w)
      BY <2>2, <3>4 DEF CommitDispatch, FillsAreReal, TypeOK, PlanRow
    <3> QED BY <1>6, <3>1, <3>2, <3>3, <3>4
  <2>3. ASSUME NEW p \in Plan, command'[<<p, Entry>>].state = "APPLIED"
        PROVE  <<p, Entry>> \in applied
    <3>1. <<p, Entry>> \in Command
      BY DEF Command, Action
    <3>2. ASSUME NEW d \in Command, NEW id, Persist(d, id)
          PROVE  command[<<p, Entry>>].state = "APPLIED"
      BY <2>3, <3>1, <3>2 DEF Persist, TypeOK
    <3>3. CASE BlockEntry(w)
      BY <2>3, <3>3 DEF BlockEntry, FillsAreReal
    <3>4. CASE QueueEntry(w)
      <4>1. job[w].plan \in Plan
        BY <3>4, JobKinds DEF QueueEntry, EntryJob
      <4>2. <<job[w].plan, Entry>> \in Command
        BY <4>1 DEF Command, Action
      <4> QED BY <3>2, <3>4, <4>2 DEF QueueEntry, FillsAreReal
    <3>5. CASE QueueManage(w)
      <4>1. job[w].plan \in Plan /\ job[w].action \in Manage
        BY <3>5, JobKinds DEF QueueManage, ManageJob
      <4>2. <<job[w].plan, job[w].action>> \in Command
        BY <4>1 DEF Command, Action
      <4> QED BY <3>2, <3>5, <4>2 DEF QueueManage, FillsAreReal
    <3>6. CASE CommitDispatch(w)
      <4>1. \E st \in {"OUTCOME_UNKNOWN", "ACKNOWLEDGED"} :
               command' = [command EXCEPT ![job[w].cmd].state = st]
        BY <3>6 DEF CommitDispatch
      <4>2. command[<<p, Entry>>].state = "APPLIED"
        BY <2>3, <3>1, <4>1 DEF TypeOK, CommandRow
      <4> QED BY <4>2 DEF FillsAreReal
    <3> QED BY <1>6, <3>3, <3>4, <3>5, <3>6
  <2>4. ASSUME NEW p \in Plan, resv'[p].state = "OPEN_POSITION"
        PROVE  <<p, Entry>> \in applied
    <3>1. CASE QueueEntry(w)
      BY <2>4, <3>1 DEF QueueEntry, FillsAreReal, TypeOK
    <3>2. CASE CommitDispatch(w)
      <4>1. resv' = resv \/ resv' = [resv EXCEPT ![job[w].cmd[1]].state = "ORDER_WORKING"]
        BY <3>2 DEF CommitDispatch
      <4>2. resv[p].state = "OPEN_POSITION"
        <5>1. CASE resv' = resv
          BY <2>4, <5>1
        <5>2. CASE resv' = [resv EXCEPT ![job[w].cmd[1]].state = "ORDER_WORKING"]
          <6> DEFINE q == job[w].cmd[1]
          <6>1. resv'[p].state = IF p = q THEN "ORDER_WORKING" ELSE resv[p].state
            BY <5>2 DEF TypeOK
          <6> HIDE DEF q
          <6> QED BY <2>4, <6>1
        <5> QED BY <4>1, <5>1, <5>2
      <4> QED BY <4>2 DEF FillsAreReal
    <3>3. CASE BlockEntry(w) \/ QueueManage(w)
      BY <2>4, <3>3 DEF BlockEntry, QueueManage, FillsAreReal
    <3> QED BY <1>6, <3>1, <3>2, <3>3
  <2> QED BY <1>1, <2>1, <2>2, <2>3, <2>4 DEF FillsAreReal
<1>7. CASE Ingest
  <2>1. CopiesAreReal'
    BY <1>3, <1>7 DEF Ingest, Reconciled
  <2>2. \A p \in Filled : <<p, Entry>> \in applied
    BY MatchIsReal DEF Filled
  <2>3. \A p \in Plan : <<p, Entry>> \in Command
    BY DEF Command, Action
  <2>4. \A p \in Plan : plan'[p].state = "ACTIVE" => p \in Filled \/ plan[p].state = "ACTIVE"
    BY <1>7 DEF Ingest, Reconciled
  <2>5. \A p \in Plan : resv'[p].state = "OPEN_POSITION" => p \in Filled \/ resv[p].state = "OPEN_POSITION"
    BY <1>7 DEF Ingest, Reconciled
  <2>6. ASSUME NEW p \in Plan, command'[<<p, Entry>>].state = "APPLIED"
        PROVE  p \in Filled \/ command[<<p, Entry>>].state = "APPLIED"
    BY <1>7, <2>3, <2>6 DEF Ingest, Reconciled, Filled, TypeOK, CommandRow
  <2> QED BY <1>1, <2>1, <2>2, <2>4, <2>5, <2>6 DEF FillsAreReal
<1>8. ASSUME UNCHANGED <<plan, command, resv, job>> PROVE FillsAreReal' /\ CopiesAreReal'
  BY <1>1, <1>2, <1>8 DEF CopiesAreReal
<1> QED BY <1>4, <1>5, <1>6, <1>7, <1>8
        DEF Next, Transactions, Operator, Outside, SetPermissions, SetKillSwitch, SnapshotAges,
            BrokerApplies, BrokerCloses, PlanLapses, AuthLapses, ReservationLapses, rowVars, vars

(* Among plans reconciliation can tell apart, nothing is recorded as filled *)
(* that the broker has not executed for that very plan.                     *)
THEOREM FillsAreTrue ==
  ASSUME \A p, q \in Plan : Shape[p] = Shape[q] => p = q
  PROVE  Spec => []FillsAreReal
<1>1. Init => FillsAreReal /\ CopiesAreReal
  <2> SUFFICES ASSUME Init PROVE FillsAreReal /\ CopiesAreReal
    OBVIOUS
  <2>1. \A p \in Plan : <<p, Entry>> \in Command
    BY DEF Command, Action
  <2> QED BY <2>1 DEF Init, FillsAreReal, CopiesAreReal, Idle
<1>2. DispatchInv /\ DispatchInv' => TypeOK /\ TypeOK'
  BY DEF DispatchInv
<1> QED BY <1>1, <1>2, FillsStep, DispatchInvariance, PTL DEF Spec
============================================================================
