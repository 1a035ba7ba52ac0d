----------------------------- MODULE Execution -----------------------------
(***************************************************************************)
(* One trading account's way from a READY Trade Plan to a broker position: *)
(* the entry and management transactions of modules/trading/coordinator.py,*)
(* the risk reservations they take, the dispatch task of                   *)
(* apps/worker/app/tasks/execution.py, the operator's safety switches, and *)
(* the reconciliation of broker snapshots.                                 *)
(*                                                                         *)
(* Every worker runs database transactions at READ COMMITTED.  A           *)
(* transaction is split where other transactions can run between what it   *)
(* reads and what it writes; job[w] is what the transaction holds          *)
(* privately until it commits.  Row locks appear as guards: AccountFree    *)
(* (the account row), RowsFree (command, plan, permission and kill-switch  *)
(* rows, all held by a dispatch from its checks to its commit).            *)
(*                                                                         *)
(* Clocks are reduced to what the code compares: a plan, an authorization, *)
(* a reservation is lapsed or not, the last snapshot is fresh or not.      *)
(*                                                                         *)
(* A definition named Mut... is a wrong version of the definition after it *)
(* that the properties are tried against; no specification uses it.        *)
(***************************************************************************)
EXTENDS Integers, FiniteSets, FiniteSetsExt

CONSTANTS
  Plan,         \* Trade Plans of the account
  Want,         \* the risk each plan was sized for
  Shape,        \* what reconciliation compares: instrument, side, quantity
  Cap,          \* MAX_PORTFOLIO_RISK
  MaxTrades,    \* MAX_CONCURRENT_TRADES
  Manage,       \* management actions an operator may request
  Worker,       \* concurrent transactions (worker and API processes)
  InitialRows,  \* kill switches that already have a database row
  Deadlines,    \* which of AllDeadlines can pass in this instance
  MaxAuth,      \* bound: authorizations issued
  MaxRollBacks, \* bound: dispatches of a command that fail after posting it
  MaxChanges    \* bound: permission and kill-switch changes

Entry == "PLACE_ORDER"
Action == {Entry} \cup Manage
Command == Plan \X Action
Scope == {"PLATFORM", "ACCOUNT"}
AuthId == 1..MaxAuth
AllDeadlines == {"snapshot", "plan", "authorization", "reservation"}

ASSUME PlanAssumption == IsFiniteSet(Plan)
ASSUME RiskAssumption == Want \in [Plan -> Nat \ {0}] /\ Cap \in Nat /\ MaxTrades \in Nat
ASSUME ActionAssumption == Entry \notin Manage
ASSUME BoundAssumption == MaxAuth \in Nat /\ MaxRollBacks \in Nat /\ MaxChanges \in Nat
ASSUME RowAssumption == InitialRows \subseteq Scope /\ Deadlines \subseteq AllDeadlines

VARIABLES
  plan,        \* trade_plan rows: state and the authorization they carry
  command,     \* execution_command rows: state and authorization_id
  resv,        \* risk_reservations rows, one per plan
  perm,        \* the actions the permission profile allows
  kill,        \* kill-switch rows
  job,         \* the open transaction of each worker
  fresh,       \* the last ingested snapshot is younger than 30 s
  seen,        \* the positions of the last ingested snapshot
  planLapsed, authLapsed, resvLapsed,
  issued,      \* authorizations issued so far
  sent,        \* what the bridge took: <<command, authorization>>
  applied,     \* commands the broker has executed
  closed,      \* plans whose position has been closed
  posts,       \* history: how often the bridge took each command
  rolledBack,  \* history: dispatches that posted and did not commit
  changes      \* safety changes so far

rowVars == <<plan, command, resv>>
safetyVars == <<perm, kill, changes>>
clockVars == <<planLapsed, authLapsed, resvLapsed>>
brokerVars == <<applied, closed>>
wireVars == <<sent, posts, rolledBack>>
snapVars == <<fresh, seen>>
vars == <<rowVars, safetyVars, clockVars, brokerVars, wireVars, snapVars, job, issued>>

PlanState == {"READY", "BLOCKED", "EXECUTION_PENDING", "EXECUTING", "ACTIVE"}
CommandState == {"ABSENT", "QUEUED", "ACKNOWLEDGED", "OUTCOME_UNKNOWN", "APPLIED",
                 "NO_EFFECT_CONFIRMED", "BLOCKED_AMBIGUOUS"}
Pending == {"ACKNOWLEDGED", "OUTCOME_UNKNOWN"}
Settled == {"APPLIED", "NO_EFFECT_CONFIRMED", "BLOCKED_AMBIGUOUS"}
ActiveResv == {"COMMAND_PENDING", "ORDER_WORKING", "OPEN_POSITION"}
ResvState == {"NONE", "EXPIRED"} \cup ActiveResv

Epochs == [Scope -> Nat]
NoAuth == [id |-> 0, action |-> Entry, epoch |-> [s \in Scope |-> 0]]
Auth == [id : AuthId \cup {0}, action : Action, epoch : Epochs]
PlanRow == [state : PlanState, auth : Auth]
CommandRow == [state : CommandState, auth : AuthId \cup {0}]
Idle == [kind |-> "idle"]
EntryJob == [kind : {"entry"}, plan : Plan, copy : PlanRow,
             stage : {"read", "reserve", "block"}, amount : Nat, swept : SUBSET Plan]
ManageJob == [kind : {"manage"}, plan : Plan, copy : PlanRow, action : Manage]
DispatchJob == [kind : {"dispatch"}, cmd : Command, outcome : {"none", "ok", "exc"}]
Job == EntryJob \cup ManageJob \cup DispatchJob \cup {Idle}

TypeOK ==
  /\ plan \in [Plan -> PlanRow]
  /\ command \in [Command -> CommandRow]
  /\ resv \in [Plan -> [state : ResvState, amount : Nat]]
  /\ perm \subseteq Action
  /\ kill \in [Scope -> [row : BOOLEAN, active : BOOLEAN, epoch : Nat]]
  /\ job \in [Worker -> Job]
  /\ fresh \in BOOLEAN
  /\ seen \subseteq Plan /\ closed \subseteq Plan
  /\ planLapsed \subseteq Plan /\ resvLapsed \subseteq Plan
  /\ authLapsed \subseteq AuthId
  /\ issued \in 0..MaxAuth
  /\ sent \subseteq Command \X AuthId
  /\ applied \subseteq Command
  /\ posts \in [Command -> Nat] /\ rolledBack \in [Command -> Nat]
  /\ changes \in 0..MaxChanges

Init ==
  /\ plan = [p \in Plan |-> [state |-> "READY", auth |-> NoAuth]]
  /\ command = [c \in Command |-> [state |-> "ABSENT", auth |-> 0]]
  /\ resv = [p \in Plan |-> [state |-> "NONE", amount |-> 0]]
  /\ perm = Action
  /\ kill = [s \in Scope |-> [row |-> s \in InitialRows, active |-> FALSE,
                              epoch |-> IF s \in InitialRows THEN 1 ELSE 0]]
  /\ job = [w \in Worker |-> Idle]
  /\ fresh = TRUE
  /\ seen = {} /\ closed = {} /\ applied = {} /\ sent = {}
  /\ planLapsed = {} /\ authLapsed = {} /\ resvLapsed = {}
  /\ issued = 0
  /\ posts = [c \in Command |-> 0] /\ rolledBack = [c \in Command |-> 0]
  /\ changes = 0

----------------------------------------------------------------------------
(* Locks and safety authority                                              *)

MutAccountFree == TRUE
AccountFree == \A w \in Worker : job[w].kind = "entry" => job[w].stage = "read"
MutRowsFree == TRUE
RowsFree == \A w \in Worker : job[w].kind # "dispatch"

Permits(a) == a \in perm
NoKill == \A s \in Scope : ~ kill[s].active
Epoch == [s \in Scope |-> kill[s].epoch]

(* The version a change gets is stored with authorizations, never compared.*)
SetPermissions(allowed) ==
  /\ changes < MaxChanges
  /\ RowsFree
  /\ allowed # perm
  /\ perm' = allowed
  /\ changes' = changes + 1
  /\ UNCHANGED <<kill, rowVars, clockVars, brokerVars, wireVars, snapVars, job, issued>>

(* Switching off needs a fresh snapshot; a row that does not exist yet     *)
(* cannot be locked against a dispatch in flight.                          *)
SetKillSwitch(s, active) ==
  /\ changes < MaxChanges
  /\ kill[s].row => RowsFree
  /\ kill[s].active /\ ~ active => fresh
  /\ kill' = [kill EXCEPT ![s] = [row |-> TRUE, active |-> active, epoch |-> @.epoch + 1]]
  /\ changes' = changes + 1
  /\ UNCHANGED <<perm, rowVars, clockVars, brokerVars, wireVars, snapVars, job, issued>>

----------------------------------------------------------------------------
(* Risk                                                                    *)

ActivePlans == {p \in Plan : resv[p].state \in ActiveResv}
RiskOf(P) == SumFunctionOnSet([p \in Plan |-> resv[p].amount], P)

(* authoritative_risk_context + RiskEngine.evaluate: positions of the last *)
(* snapshot and active reservations both use up the portfolio limit.       *)
Remaining ==
  LET left == Cap - RiskOf(seen) - RiskOf(ActivePlans)
  IN  IF left > 0 THEN left ELSE 0

Sized(p) == IF Want[p] < Remaining THEN Want[p] ELSE Remaining
HardBlocked(p) == Sized(p) = 0 \/ Cardinality(seen) >= MaxTrades

(* PersistentReservationStore.transition refuses a terminal reservation.   *)
MutTransitionable(p) == resv[p].state # "NONE"
Transitionable(p) == resv[p].state \in ActiveResv

(* reserve: an existing row is returned as it is if the amount agrees,     *)
(* whatever its state; a new one must fit after the expired ones are swept.*)
Sweepable == ActivePlans \cap resvLapsed
Reservable(p) ==
  IF resv[p].state # "NONE"
    THEN resv[p].amount = Sized(p)
    ELSE RiskOf(ActivePlans \ Sweepable) + Sized(p) <= Remaining
SweptBy(p) == IF resv[p].state # "NONE" THEN {} ELSE Sweepable

----------------------------------------------------------------------------
(* Entry: queue_trade_plan_execution.  The task may be delivered any       *)
(* number of times, to several workers at once.                            *)

BeginEntry(w, p) ==
  /\ job[w] = Idle
  /\ plan[p].state # "BLOCKED"
  /\ job' = [job EXCEPT ![w] = [kind |-> "entry", plan |-> p, copy |-> plan[p],
                                stage |-> "read", amount |-> 0, swept |-> {}]]
  /\ UNCHANGED <<rowVars, safetyVars, clockVars, brokerVars, wireVars, snapVars, issued>>

(* Takes the account lock, evaluates risk on the committed rows, reserves. *)
EvaluateEntry(w) ==
  LET p == job[w].plan IN
  /\ job[w].kind = "entry" /\ job[w].stage = "read"
  /\ AccountFree
  /\ fresh
  /\ \/ /\ HardBlocked(p)
        /\ job' = [job EXCEPT ![w].stage = "block"]
     \/ /\ ~ HardBlocked(p)
        /\ Reservable(p)
        /\ job' = [job EXCEPT ![w].stage = "reserve", ![w].amount = Sized(p),
                              ![w].swept = SweptBy(p)]
  /\ UNCHANGED <<rowVars, safetyVars, clockVars, brokerVars, wireVars, snapVars, issued>>

(* The hard-blocked plan overwrites whatever the row says by now. *)
BlockEntry(w) ==
  /\ job[w].kind = "entry" /\ job[w].stage = "block"
  /\ RowsFree
  /\ plan' = [plan EXCEPT ![job[w].plan] = [job[w].copy EXCEPT !.state = "BLOCKED"]]
  /\ job' = [job EXCEPT ![w] = Idle]
  /\ UNCHANGED <<command, resv, safetyVars, clockVars, brokerVars, wireVars, snapVars, issued>>

NewAuth(a) == [id |-> issued + 1, action |-> a, epoch |-> Epoch]

(* persist_command: a command already stored under the key stays as it is, *)
(* with the authorization it was created for.                              *)
Persist(c, id) ==
  command' = IF command[c].state = "ABSENT"
               THEN [command EXCEPT ![c] = [state |-> "QUEUED", auth |-> id]]
               ELSE command

(* authorize_action on the plan as it was read, under the locks on the     *)
(* permission and kill-switch rows; then everything is written at once.    *)
QueueEntry(w) ==
  LET p == job[w].plan
      auth == NewAuth(Entry)
  IN
  /\ job[w].kind = "entry" /\ job[w].stage = "reserve"
  /\ RowsFree
  /\ job[w].copy.state = "READY"
  /\ p \notin planLapsed
  /\ Permits(Entry) /\ NoKill
  /\ resv[p].state # "NONE" => Transitionable(p)
  /\ issued < MaxAuth
  /\ issued' = auth.id
  /\ resv' = [q \in Plan |->
                IF q = p THEN [state |-> "COMMAND_PENDING", amount |-> job[w].amount]
                ELSE IF q \in job[w].swept THEN [resv[q] EXCEPT !.state = "EXPIRED"]
                ELSE resv[q]]
  /\ plan' = [plan EXCEPT ![p] = [state |-> "EXECUTION_PENDING", auth |-> auth]]
  /\ Persist(<<p, Entry>>, auth.id)
  /\ job' = [job EXCEPT ![w] = Idle]
  /\ UNCHANGED <<safetyVars, clockVars, brokerVars, wireVars, snapVars>>

----------------------------------------------------------------------------
(* Management: POST /actions reads the plan without a lock and writes the  *)
(* whole row back with the new authorization.                              *)

Manageable == {"ACTIVE", "EXECUTION_PENDING"}

BeginManage(w, p, a) ==
  /\ job[w] = Idle
  /\ job' = [job EXCEPT ![w] = [kind |-> "manage", plan |-> p, copy |-> plan[p],
                                action |-> a]]
  /\ UNCHANGED <<rowVars, safetyVars, clockVars, brokerVars, wireVars, snapVars, issued>>

QueueManage(w) ==
  LET p == job[w].plan
      c == <<p, job[w].action>>
      auth == NewAuth(job[w].action)
  IN
  /\ job[w].kind = "manage"
  /\ RowsFree
  /\ fresh
  /\ job[w].copy.state \in Manageable
  /\ Permits(job[w].action) /\ NoKill
  /\ command[c].state = "ABSENT"
  /\ issued < MaxAuth
  /\ issued' = auth.id
  /\ plan' = [plan EXCEPT ![p] = [job[w].copy EXCEPT !.auth = auth]]
  /\ Persist(c, auth.id)
  /\ job' = [job EXCEPT ![w] = Idle]
  /\ UNCHANGED <<resv, safetyVars, clockVars, brokerVars, wireVars, snapVars>>

----------------------------------------------------------------------------
(* Dispatch: dispatch_execution_command, also delivered at least once.     *)

(* lease_command *)
MutLeasable(c) == command[c].state \in {"QUEUED", "OUTCOME_UNKNOWN"}
Leasable(c) == command[c].state = "QUEUED"

MutBound(c) == TRUE
Bound(c) == command[c].auth = plan[c[1]].auth.id

(* assert_command_authority *)
Authorized(c) ==
  LET row == plan[c[1]] IN
  /\ Bound(c)
  /\ row.auth.id \notin authLapsed
  /\ IF c[2] = Entry
       THEN c[1] \notin planLapsed /\ row.state = "EXECUTION_PENDING"
       ELSE row.state \in Manageable
  /\ row.auth.action = c[2]
  /\ Permits(c[2])
  /\ NoKill
  /\ row.auth.epoch = Epoch

BeginDispatch(w, c) ==
  /\ job[w] = Idle
  /\ Leasable(c)
  /\ RowsFree
  /\ fresh
  /\ Authorized(c)
  /\ job' = [job EXCEPT ![w] = [kind |-> "dispatch", cmd |-> c, outcome |-> "none"]]
  /\ UNCHANGED <<rowVars, safetyVars, clockVars, brokerVars, wireVars, snapVars, issued>>

(* Mt5BridgeClient: the request or its answer may get lost on the way. *)
Post(w, reached, answered) ==
  LET c == job[w].cmd IN
  /\ job[w].kind = "dispatch" /\ job[w].outcome = "none"
  /\ answered => reached
  /\ job' = [job EXCEPT ![w].outcome = IF answered THEN "ok" ELSE "exc"]
  /\ sent' = IF reached THEN sent \cup {<<c, plan[c[1]].auth.id>>} ELSE sent
  /\ posts' = IF reached THEN [posts EXCEPT ![c] = @ + 1] ELSE posts
  /\ UNCHANGED <<rowVars, safetyVars, clockVars, brokerVars, snapVars, rolledBack, issued>>

(* The acknowledged command commits with its reservation and plan, or not  *)
(* at all: a reservation that has expired meanwhile refuses the transition.*)
CommitDispatch(w) ==
  LET c == job[w].cmd
      p == c[1]
  IN
  /\ job[w].kind = "dispatch"
  /\ \/ /\ job[w].outcome = "exc"
        /\ command' = [command EXCEPT ![c].state = "OUTCOME_UNKNOWN"]
        /\ UNCHANGED <<plan, resv>>
     \/ /\ job[w].outcome = "ok"
        /\ Transitionable(p)
        /\ command' = [command EXCEPT ![c].state = "ACKNOWLEDGED"]
        /\ resv' = [resv EXCEPT ![p].state = "ORDER_WORKING"]
        /\ plan' = [plan EXCEPT ![p].state = IF @ = "EXECUTION_PENDING" THEN "EXECUTING" ELSE @]
  /\ job' = [job EXCEPT ![w] = Idle]
  /\ UNCHANGED <<safetyVars, clockVars, brokerVars, wireVars, snapVars, issued>>

(* Any transaction may fail or die with its worker: nothing is written,    *)
(* but the bridge keeps what it was sent.                                  *)
RollBack(w) ==
  LET posted == job[w].kind = "dispatch" /\ job[w].outcome # "none" IN
  /\ job[w] # Idle
  /\ posted => rolledBack[job[w].cmd] < MaxRollBacks
  /\ rolledBack' = IF posted THEN [rolledBack EXCEPT ![job[w].cmd] = @ + 1] ELSE rolledBack
  /\ job' = [job EXCEPT ![w] = Idle]
  /\ UNCHANGED <<rowVars, safetyVars, clockVars, brokerVars, snapVars, sent, posts, issued>>

----------------------------------------------------------------------------
(* Broker snapshots                                                        *)

Open == {p \in Plan : <<p, Entry>> \in applied /\ p \notin closed}

(* reconcile_command: a management postcondition names no instrument.      *)
MutMatches(c) == IF c[2] = Entry THEN Open ELSE {}
Matches(c) == IF c[2] = Entry THEN {q \in Open : Shape[q] = Shape[c[1]]} ELSE {}

MutVerdict(c) ==
  IF Cardinality(Matches(c)) = 1 THEN "OPEN_POSITION"
  ELSE IF Matches(c) = {} THEN "NO_EFFECT_CONFIRMED"
  ELSE "BLOCKED_AMBIGUOUS"

Verdict(c) ==
  IF Cardinality(Matches(c)) = 1 THEN "APPLIED"
  ELSE IF Matches(c) = {} THEN "NO_EFFECT_CONFIRMED"
  ELSE "BLOCKED_AMBIGUOUS"

Unsettled == {c \in Command : command[c].state \in Pending}
Filled == {p \in Plan : <<p, Entry>> \in Unsettled /\ Verdict(<<p, Entry>>) = "APPLIED"}

Reconciled(c) == [command[c] EXCEPT !.state = Verdict(c)]

(* ingest_broker_snapshot: one transaction for every unsettled command; a  *)
(* matched reservation that has expired fails all of it.                   *)
Ingest ==
  /\ \A p \in Filled : Transitionable(p)
  /\ command' = [c \in Command |->
                   IF c \in Unsettled THEN Reconciled(c) ELSE command[c]]
  /\ plan' = [p \in Plan |->
                IF p \in Filled /\ plan[p].state = "EXECUTING"
                  THEN [plan[p] EXCEPT !.state = "ACTIVE"] ELSE plan[p]]
  /\ resv' = [p \in Plan |->
                IF p \in Filled THEN [resv[p] EXCEPT !.state = "OPEN_POSITION"] ELSE resv[p]]
  /\ seen' = Open
  /\ fresh' = TRUE
  /\ UNCHANGED <<safetyVars, clockVars, brokerVars, wireVars, job, issued>>

----------------------------------------------------------------------------
(* The broker (as BrokerPort promises, without glitches) and the clocks    *)

BrokerApplies(c) ==
  /\ \E id \in AuthId : <<c, id>> \in sent
  /\ c \notin applied
  /\ c[2] # Entry => c[1] \in Open
  /\ applied' = applied \cup {c}
  /\ closed' = IF c[2] = "FULL_EXIT" THEN closed \cup {c[1]} ELSE closed
  /\ UNCHANGED <<rowVars, safetyVars, clockVars, wireVars, snapVars, job, issued>>

(* A stop loss or a take profit is hit. *)
BrokerCloses(p) ==
  /\ p \in Open
  /\ closed' = closed \cup {p}
  /\ UNCHANGED <<rowVars, safetyVars, clockVars, applied, wireVars, snapVars, job, issued>>

SnapshotAges ==
  /\ "snapshot" \in Deadlines
  /\ fresh
  /\ fresh' = FALSE
  /\ UNCHANGED <<rowVars, safetyVars, clockVars, brokerVars, wireVars, seen, job, issued>>

PlanLapses(p) ==
  /\ "plan" \in Deadlines
  /\ p \notin planLapsed
  /\ planLapsed' = planLapsed \cup {p}
  /\ UNCHANGED <<rowVars, safetyVars, authLapsed, resvLapsed, brokerVars, wireVars,
                 snapVars, job, issued>>

AuthLapses(p) ==
  /\ "authorization" \in Deadlines
  /\ plan[p].auth.id # 0
  /\ plan[p].auth.id \notin authLapsed
  /\ authLapsed' = authLapsed \cup {plan[p].auth.id}
  /\ UNCHANGED <<rowVars, safetyVars, planLapsed, resvLapsed, brokerVars, wireVars,
                 snapVars, job, issued>>

(* Ten minutes from the reservation; a plan lives at most ten minutes from *)
(* its creation, so it is always over first.                               *)
ReservationLapses(p) ==
  /\ "reservation" \in Deadlines
  /\ resv[p].state \in ActiveResv
  /\ p \in planLapsed
  /\ p \notin resvLapsed
  /\ resvLapsed' = resvLapsed \cup {p}
  /\ UNCHANGED <<rowVars, safetyVars, planLapsed, authLapsed, brokerVars, wireVars,
                 snapVars, job, issued>>

----------------------------------------------------------------------------
Transactions ==
  \E w \in Worker :
    \/ \E p \in Plan : BeginEntry(w, p)
    \/ EvaluateEntry(w) \/ BlockEntry(w) \/ QueueEntry(w)
    \/ \E p \in Plan, a \in Manage : BeginManage(w, p, a)
    \/ QueueManage(w)
    \/ \E c \in Command : BeginDispatch(w, c)
    \/ \E reached, answered \in BOOLEAN : Post(w, reached, answered)
    \/ CommitDispatch(w)
    \/ RollBack(w)

Operator ==
  \/ \E allowed \in {{}, Action} : SetPermissions(allowed)
  \/ \E s \in Scope, active \in BOOLEAN : SetKillSwitch(s, active)

Outside ==
  \/ Ingest
  \/ SnapshotAges
  \/ \E c \in Command : BrokerApplies(c)
  \/ \E p \in Plan : BrokerCloses(p) \/ PlanLapses(p) \/ AuthLapses(p) \/ ReservationLapses(p)

Next == Transactions \/ Operator \/ Outside

Spec == Init /\ [][Next]_vars

----------------------------------------------------------------------------
(* The account's active reservations never add up to more than the         *)
(* portfolio limit, however many entry transactions run at once, and       *)
(* although expired reservations are swept on the way.                     *)
ReservedWithinCap == RiskOf(ActivePlans) <= Cap

(* What is posted to the bridge is posted under the safety state it was    *)
(* authorized for: no kill switch is on or has been on since, and the      *)
(* action is still permitted, at the moment of the request.                *)
SendIsFenced ==
  [][\A c \in Command :
       posts'[c] > posts[c] =>
         NoKill /\ Permits(c[2]) /\ plan[c[1]].auth.epoch = Epoch]_vars

(* What the bridge is sent ties commands and authorizations one to one: no *)
(* intent goes out under two authorizations, however often it is queued    *)
(* and authorized again, and no authorization carries two intents.         *)
OneIntentPerAuthorization ==
  \A x, y \in sent : x[1] = y[1] <=> x[2] = y[2]

(* The bridge is given a command twice only if a dispatch that posted it   *)
(* failed to commit: neither redelivered tasks nor concurrent workers nor  *)
(* an uncertain outcome do it.                                             *)
PostedOncePerDispatch ==
  \A c \in Command : posts[c] <= 1 + rolledBack[c]

(* A row in a terminal state keeps it: a command reconciliation has settled *)
(* is never opened again, by no redelivered queue task and no late dispatch,*)
(* and a reservation that has expired never holds risk again.               *)
TerminalRowsStay ==
  [][/\ \A c \in Command : command[c].state \in Settled => command'[c] = command[c]
     /\ \A p \in Plan : resv[p].state = "EXPIRED" => resv'[p] = resv[p]]_vars

(* With plans that reconciliation can tell apart, an entry recorded as     *)
(* applied, an active plan and a reservation that became a position all    *)
(* stand on an order the broker did execute for this very plan.            *)
FillsAreReal ==
  \A p \in Plan :
    \/ command[<<p, Entry>>].state = "APPLIED"
    \/ plan[p].state = "ACTIVE"
    \/ resv[p].state = "OPEN_POSITION"
    => <<p, Entry>> \in applied

----------------------------------------------------------------------------
(* What the project's documents say of this code, and the code does not do *)

(* "broker acceptance keeps it reserved": while an accepted entry is       *)
(* working or filled its plan holds an active reservation.                 *)
AcceptedKeepsReserved ==
  \A p \in Plan :
    command[<<p, Entry>>].state \in {"ACKNOWLEDGED", "APPLIED"} /\ p \notin closed =>
      resv[p].state \in ActiveResv

(* "Block [...] releases it": no blocked plan holds risk.                  *)
BlockReleasesReservation ==
  \A p \in Plan : plan[p].state = "BLOCKED" => p \notin ActivePlans

(* "Timeout or crash after dispatch produces OUTCOME_UNKNOWN and requires  *)
(* reconciliation": a command the bridge may have is never posted again    *)
(* on the strength of its QUEUED row alone.                                *)
NoBlindRetry ==
  [][\A c \in Command : posts'[c] > posts[c] => posts[c] = 0]_vars

(* A command settled as having no effect has none, and gets none. *)
NoEffectMeansNoEffect ==
  \A c \in Command : command[c].state = "NO_EFFECT_CONFIRMED" => c \notin applied
============================================================================
