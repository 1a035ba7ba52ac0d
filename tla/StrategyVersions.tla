-------------------------- MODULE StrategyVersions --------------------------
(***************************************************************************)
(* One strategy version from IMPLEMENTED to retirement: the lifecycle      *)
(* routes of apps/api/app/routes/strategies.py, the backtest and recovery  *)
(* tasks of apps/worker/app/tasks/strategies.py, the monitor of            *)
(* strategy_monitoring.py and the owner's automation of                    *)
(* strategy_autonomy.py.                                                   *)
(*                                                                         *)
(* Every transaction that changes the version holds its row lock from its  *)
(* first read, and is one action here, with two exceptions: a backtest,    *)
(* which is a transaction that starts it, a computation, and a transaction *)
(* that records the verdict; and the automatic start of a paper session,   *)
(* which reads the version without a lock and, once it holds the lock,     *)
(* goes on with the row it read before (the session keeps the attributes   *)
(* it has already loaded).                                                 *)
(*                                                                         *)
(* A run is old when it has been RUNNING for more than the twenty minutes  *)
(* the recovery waits.  The task's hard limit is fifteen minutes, so a run *)
(* that a worker still executes is never old.                              *)
(***************************************************************************)
EXTENDS Integers, FiniteSets

CONSTANTS
  Backtest,     \* strategy_backtest rows
  Paper,        \* strategy_paper_run rows
  Pool,         \* worker processes
  Recoverer,    \* recovery tasks that may run at the same time
  MaxAttempts,  \* max_paper_attempts of the account's policy
  MaxKills,     \* bound: workers lost or stopped at the hard limit
  MaxPlans,     \* bound: Trade Plans made from the version's signals
  NoRow         \* no such row

ASSUME VersionRowsAssumption == NoRow \notin Backtest /\ NoRow \notin Paper
ASSUME VersionBoundAssumption == MaxAttempts \in Nat /\ MaxKills \in Nat /\ MaxPlans \in Nat

VARIABLES
  version,     \* the strategy_version row
  backtest,    \* strategy_backtest rows
  paper,       \* strategy_paper_run rows
  delivery,    \* backtests whose dispatch message waits in the broker
  task,        \* what each worker process executes
  recovering,  \* the overdue runs an open recovery transaction has selected
  plans,       \* Trade Plans made so far
  kills        \* workers lost so far

versionVars == <<version, backtest, paper, delivery, task, recovering, plans, kills>>

(***************************************************************************)
(* Rows                                                                    *)
(***************************************************************************)
VersionState == {"IMPLEMENTED", "BACKTESTING", "VALIDATING", "PAPER_TRADING",
                 "APPROVED", "ACTIVE", "DEGRADED", "SUSPENDED", "RETIRED"}
Verdict == {"WAITING_FOR_DATA", "PASSED", "FAILED"}
Gate == {"formal", "paper"}  \* validation_passed; paper and paper_forward

VersionRow == [state: VersionState, latest: Backtest \cup {NoRow},
               gates: SUBSET Gate, paper: Paper \cup {NoRow},
               signal: {"NONE", "PAPER", "LIVE"}, unhealthy: BOOLEAN]
BacktestRow == [state: {"NONE", "QUEUED", "RUNNING"} \cup Verdict, old: BOOLEAN]
PaperRow == [state: {"NONE", "RUNNING", "PASSED", "FAILED"},
             basis: Backtest \cup {NoRow}, open: BOOLEAN, failure: BOOLEAN, ended: BOOLEAN]

NoBacktest == [state |-> "NONE", old |-> FALSE]
NoPaper == [state |-> "NONE", basis |-> NoRow, open |-> FALSE, failure |-> FALSE, ended |-> FALSE]

Free == [kind |-> "NONE"]
BacktestTask == [kind: {"BACKTEST"}, run: Backtest]
PaperTask == [kind: {"PAPER"}, row: VersionRow, papers: [Paper -> PaperRow]]
PoolTask == {Free} \cup BacktestTask \cup PaperTask

(* What the lifecycle table allows the transition endpoint to do: the      *)
(* evidence-gated targets are refused before the table is read.            *)
Manual == {<<"IMPLEMENTED", "BACKTESTING">>, <<"BACKTESTING", "VALIDATING">>,
           <<"ACTIVE", "DEGRADED">>, <<"ACTIVE", "SUSPENDED">>, <<"ACTIVE", "RETIRED">>,
           <<"DEGRADED", "SUSPENDED">>, <<"DEGRADED", "RETIRED">>,
           <<"SUSPENDED", "RETIRED">>}

Executing(b) == \E w \in Pool : task[w].kind = "BACKTEST" /\ task[w].run = b
InProgress(papers) == {p \in Paper : papers[p].state = "RUNNING"}

VersionInit ==
  /\ version = [state |-> "IMPLEMENTED", latest |-> NoRow, gates |-> {}, paper |-> NoRow,
                signal |-> "NONE", unhealthy |-> FALSE]
  /\ backtest = [b \in Backtest |-> NoBacktest]
  /\ paper = [p \in Paper |-> NoPaper]
  /\ delivery = {}
  /\ task = [w \in Pool |-> Free]
  /\ recovering = [r \in Recoverer |-> {}]
  /\ plans = 0
  /\ kills = 0

(***************************************************************************)
(* Backtests                                                               *)
(***************************************************************************)
(* POST backtests, and the automatic retry of a run that waited for data.  *)
(* A new run throws the version's evidence away.                           *)
CreateBacktest(b) ==
  /\ version.state \notin {"ACTIVE", "PAPER_TRADING", "BACKTESTING", "RETIRED"}
  /\ backtest[b] = NoBacktest
  /\ backtest' = [backtest EXCEPT ![b].state = "QUEUED"]
  /\ version' = [version EXCEPT !.state = "BACKTESTING", !.latest = b, !.gates = {},
                                !.signal = "NONE"]
  /\ \/ delivery' = delivery \cup {b}
     \/ UNCHANGED delivery  \* the process dies between commit and dispatch
  /\ UNCHANGED <<paper, task, recovering, plans, kills>>

(* A duplicate delivery (a copy of the message may still wait, for a run   *)
(* is dispatched again while it is QUEUED) finds the run in another state  *)
(* and returns.                                                            *)
StartBacktest(w, b) ==
  /\ b \in delivery /\ task[w] = Free
  /\ delivery' \in {delivery, delivery \ {b}}
  /\ IF backtest[b].state = "QUEUED"
     THEN /\ backtest' = [backtest EXCEPT ![b] = [state |-> "RUNNING", old |-> FALSE]]
          /\ task' = [task EXCEPT ![w] = [kind |-> "BACKTEST", run |-> b]]
     ELSE UNCHANGED <<backtest, task>>
  /\ UNCHANGED <<version, paper, recovering, plans, kills>>

(* The verdict always goes to the run; the version takes it only from the  *)
(* run it waits for.                                                       *)
VerdictOnVersion(b, verdict) ==
  IF version.latest = b
  THEN version' = [version EXCEPT !.state = "VALIDATING",
                     !.gates = IF verdict = "PASSED" THEN @ \cup {"formal"} ELSE @ \ {"formal"}]
  ELSE UNCHANGED version

FinishBacktest(w) ==
  /\ task[w].kind = "BACKTEST"
  /\ \E verdict \in Verdict :
       /\ backtest' = [backtest EXCEPT ![task[w].run] = [state |-> verdict, old |-> FALSE]]
       /\ VerdictOnVersion(task[w].run, verdict)
  /\ task' = [task EXCEPT ![w] = Free]
  /\ UNCHANGED <<paper, delivery, recovering, plans, kills>>

(* An exception marks the run and the version that waits for it.  A        *)
(* version that never had a backtest cannot meet one here, so the code's   *)
(* "None or this run" is "this run".                                       *)
FailBacktest(w) ==
  /\ task[w].kind = "BACKTEST"
  /\ backtest' = [backtest EXCEPT ![task[w].run] = [state |-> "FAILED", old |-> FALSE]]
  /\ VerdictOnVersion(task[w].run, "FAILED")
  /\ task' = [task EXCEPT ![w] = Free]
  /\ UNCHANGED <<paper, delivery, recovering, plans, kills>>

(* The provider binding changed between the request and the delivery: the  *)
(* run fails before it starts.                                             *)
RefuseBacktest(w, b) ==
  /\ b \in delivery /\ task[w] = Free /\ backtest[b].state = "QUEUED"
  /\ delivery' = delivery \ {b}
  /\ backtest' = [backtest EXCEPT ![b].state = "FAILED"]
  /\ VerdictOnVersion(b, "FAILED")
  /\ UNCHANGED <<paper, task, recovering, plans, kills>>

(* A lost worker's message is delivered again; one stopped at the hard     *)
(* limit is not.                                                           *)
KillWorker(w) ==
  /\ kills < MaxKills /\ task[w] # Free
  /\ kills' = kills + 1
  /\ task' = [task EXCEPT ![w] = Free]
  /\ \/ UNCHANGED delivery
     \/ task[w].kind = "BACKTEST" /\ delivery' = delivery \cup {task[w].run}
  /\ UNCHANGED <<version, backtest, paper, recovering, plans>>

MutOverdue(b) == backtest[b].state = "RUNNING"
Overdue(b) == backtest[b].state = "RUNNING" /\ ~Executing(b)

GrowOld(b) ==
  /\ Overdue(b) /\ ~backtest[b].old
  /\ backtest' = [backtest EXCEPT ![b].old = TRUE]
  /\ UNCHANGED <<version, paper, delivery, task, recovering, plans, kills>>

(* The recovery selects without a lock and writes what it selected.        *)
Recoverable == {b \in Backtest : backtest[b].old}

RecoverRead(r) ==
  /\ recovering[r] = {} /\ Recoverable # {}
  /\ recovering' = [recovering EXCEPT ![r] = Recoverable]
  /\ UNCHANGED <<version, backtest, paper, delivery, task, plans, kills>>

RecoverWrite(r) ==
  /\ recovering[r] # {}
  /\ backtest' = [b \in Backtest |->
       IF b \in recovering[r] THEN [state |-> "QUEUED", old |-> FALSE] ELSE backtest[b]]
  /\ delivery' \in {delivery, delivery \cup recovering[r]}  \* it may die before it dispatches
  /\ recovering' = [recovering EXCEPT ![r] = {}]
  /\ UNCHANGED <<version, paper, task, plans, kills>>

(* A queued run is dispatched again every minute until a worker takes it.  *)
MutRedispatch(b) == FALSE /\ UNCHANGED versionVars
Redispatch(b) ==
  /\ backtest[b].state = "QUEUED" /\ b \notin delivery
  /\ delivery' = delivery \cup {b}
  /\ UNCHANGED <<version, backtest, paper, task, recovering, plans, kills>>

Ready(row) ==
  /\ row.state = "VALIDATING" /\ "formal" \in row.gates
  /\ row.latest # NoRow /\ backtest[row.latest].state = "PASSED"

(* An open session is returned as it is.                                   *)
MutOpenPaper(row, papers, p) ==
  /\ Ready(row) /\ paper[p] = NoPaper
  /\ paper' = [paper EXCEPT ![p] = [NoPaper EXCEPT !.state = "RUNNING", !.basis = row.latest]]
  /\ version' = [row EXCEPT !.state = "PAPER_TRADING", !.paper = p]
OpenPaper(row, papers, p) ==
  /\ InProgress(papers) = {} /\ Ready(row) /\ paper[p] = NoPaper
  /\ paper' = [paper EXCEPT ![p] = [NoPaper EXCEPT !.state = "RUNNING", !.basis = row.latest]]
  /\ version' = [row EXCEPT !.state = "PAPER_TRADING", !.paper = p]

StartPaper(p) ==
  /\ OpenPaper(version, paper, p)
  /\ UNCHANGED <<backtest, delivery, task, recovering, plans, kills>>

(* The automation reads the version and its sessions, without a lock...    *)
(* (A row that is not ready is refused below: reading it changes nothing.) *)
AutoPaperRead(w) ==
  /\ task[w] = Free
  /\ version.state = "VALIDATING" /\ "formal" \in version.gates
  /\ Cardinality({p \in Paper : paper[p] # NoPaper}) < MaxAttempts
  /\ task' = [task EXCEPT ![w] = [kind |-> "PAPER", row |-> version, papers |-> paper]]
  /\ UNCHANGED <<version, backtest, paper, delivery, recovering, plans, kills>>

(* ... then locks it.  Sessions created since are seen as they are now;    *)
(* the version and the sessions it had loaded, as they were.               *)
Loaded(w) == [p \in Paper |-> IF task[w].papers[p] = NoPaper THEN paper[p] ELSE task[w].papers[p]]

AutoPaperWrite(w) ==
  /\ task[w].kind = "PAPER"
  /\ \/ \E p \in Paper : OpenPaper(task[w].row, Loaded(w), p)
     \/ UNCHANGED <<version, paper>>  \* refused, or the session that is open
  /\ task' = [task EXCEPT ![w] = Free]
  /\ UNCHANGED <<backtest, delivery, recovering, plans, kills>>

StopEntries(p) ==
  /\ version.state = "PAPER_TRADING" /\ paper[p].state = "RUNNING"
  /\ ~paper[p].ended
  /\ paper' = [paper EXCEPT ![p].ended = TRUE]
  /\ UNCHANGED <<version, backtest, delivery, task, recovering, plans, kills>>

(* A session passes with ten closed forward trades, which no automatic     *)
(* start still in progress outlives.                                       *)
CompletePaper(p) ==
  /\ version.state = "PAPER_TRADING" /\ version.paper = p /\ paper[p].state = "RUNNING"
  /\ ~paper[p].open /\ ~paper[p].failure /\ paper[p].ended
  /\ \E passed \in BOOLEAN :
       /\ passed => \A w \in Pool : task[w].kind # "PAPER"
       /\ paper' = [paper EXCEPT ![p].state = IF passed THEN "PASSED" ELSE "FAILED"]
       /\ version' = [version EXCEPT !.state = IF passed THEN "APPROVED" ELSE "VALIDATING",
                        !.gates = IF passed THEN @ \cup {"paper"} ELSE @ \ {"paper"},
                        !.signal = "NONE"]
  /\ UNCHANGED <<backtest, delivery, task, recovering, plans, kills>>

(***************************************************************************)
(* The monitor: every minute, on a paper-traded or activated version.      *)
(***************************************************************************)
(* Without the gates the observation is refused and the signal blocked.    *)
Observable ==
  /\ "formal" \in version.gates
  /\ IF version.state = "PAPER_TRADING"
     THEN version.paper # NoRow /\ paper[version.paper].state = "RUNNING"
     ELSE "paper" \in version.gates

MonitorPaper ==
  /\ version.state = "PAPER_TRADING" /\ Observable
  /\ \E open, unhealthy \in BOOLEAN :
       /\ open => paper[version.paper].open \/ ~paper[version.paper].ended
       /\ paper' = [paper EXCEPT ![version.paper].open = open, ![version.paper].failure = FALSE]
       /\ version' = [version EXCEPT !.signal = "PAPER", !.unhealthy = unhealthy]
  /\ UNCHANGED <<backtest, delivery, task, recovering, plans, kills>>

MonitorActive ==
  /\ version.state = "ACTIVE" /\ Observable
  /\ \/ version' = [version EXCEPT !.signal = "LIVE", !.unhealthy = FALSE]
     \/ version' = [version EXCEPT !.signal = "NONE", !.unhealthy = FALSE]
     \/ version' = [version EXCEPT !.signal = "NONE", !.unhealthy = TRUE, !.state = "SUSPENDED"]
  /\ UNCHANGED <<backtest, paper, delivery, task, recovering, plans, kills>>

(* The data source failed, or the evidence is not what the state claims.   *)
MonitorBlocked ==
  /\ version.state \in {"PAPER_TRADING", "ACTIVE"}
  /\ version' = [version EXCEPT !.signal = "NONE"]
  /\ \/ UNCHANGED paper  \* it failed before it had loaded the session
     \/ /\ version.state = "PAPER_TRADING" /\ "formal" \in version.gates
        /\ paper' = [paper EXCEPT ![version.paper].failure = TRUE]
  /\ UNCHANGED <<backtest, delivery, task, recovering, plans, kills>>

(***************************************************************************)
(* Decisions                                                               *)
(***************************************************************************)
Transition(target) ==
  /\ <<version.state, target>> \in Manual
  /\ version' = [version EXCEPT !.state = target, !.signal = "NONE"]
  /\ UNCHANGED <<backtest, paper, delivery, task, recovering, plans, kills>>

Promote ==
  /\ version.state \in {"APPROVED", "SUSPENDED"} /\ Gate \subseteq version.gates
  /\ ~version.unhealthy
  /\ version' = [version EXCEPT !.state = "ACTIVE", !.signal = "NONE"]
  /\ UNCHANGED <<backtest, paper, delivery, task, recovering, plans, kills>>

(* A Trade Plan is made from the live signal of the active version.  The   *)
(* signal stays: a second request makes a second plan.                     *)
MutPlannable == "formal" \in version.gates /\ version.signal # "NONE"
Plannable == version.state = "ACTIVE" /\ "paper" \in version.gates /\ version.signal = "LIVE"
CreateTradePlan ==
  /\ plans < MaxPlans /\ Plannable
  /\ plans' = plans + 1
  /\ UNCHANGED <<version, backtest, paper, delivery, task, recovering, kills>>

VersionNext ==
  \/ \E b \in Backtest : CreateBacktest(b) \/ GrowOld(b) \/ Redispatch(b)
  \/ \E w \in Pool :
       \/ \E b \in Backtest : StartBacktest(w, b) \/ RefuseBacktest(w, b)
       \/ FinishBacktest(w) \/ FailBacktest(w) \/ KillWorker(w)
       \/ AutoPaperRead(w) \/ AutoPaperWrite(w)
  \/ \E r \in Recoverer : RecoverRead(r) \/ RecoverWrite(r)
  \/ \E p \in Paper : StartPaper(p) \/ StopEntries(p) \/ CompletePaper(p)
  \/ MonitorPaper \/ MonitorActive \/ MonitorBlocked
  \/ \E target \in VersionState : Transition(target)
  \/ Promote \/ CreateTradePlan

(* What goes on by itself: the broker hands out every message, workers     *)
(* finish or are stopped, and beat starts the recovery every minute.       *)
VersionFairness ==
  /\ \A b \in Backtest :
       /\ WF_versionVars(GrowOld(b)) /\ WF_versionVars(Redispatch(b))
       /\ SF_versionVars(\E w \in Pool : StartBacktest(w, b))
  /\ \A w \in Pool : WF_versionVars(FinishBacktest(w)) /\ WF_versionVars(AutoPaperWrite(w))
  /\ \A r \in Recoverer : WF_versionVars(RecoverRead(r)) /\ WF_versionVars(RecoverWrite(r))

VersionSpec == VersionInit /\ [][VersionNext]_versionVars /\ VersionFairness

(***************************************************************************)
(* Properties                                                              *)
(***************************************************************************)
(* Type invariant of the version, its runs and the tasks that hold copies  *)
(* of them.                                                                *)
VersionTypeOK ==
  /\ version \in VersionRow
  /\ backtest \in [Backtest -> BacktestRow]
  /\ paper \in [Paper -> PaperRow]
  /\ delivery \subseteq Backtest
  /\ task \in [Pool -> PoolTask]
  /\ recovering \in [Recoverer -> SUBSET Backtest]
  /\ plans \in 0..MaxPlans
  /\ kills \in 0..MaxKills

(* An approved, activated or once activated version rests on a backtest    *)
(* that passed and on a forward session that passed, started from that     *)
(* very backtest: whatever runs were superseded, retried or recovered in   *)
(* between, and whatever row the automatic start had read.                 *)
Proven ==
  /\ version.latest # NoRow /\ backtest[version.latest].state = "PASSED"
  /\ version.paper # NoRow /\ paper[version.paper].state = "PASSED"
  /\ paper[version.paper].basis = version.latest
LiveIsProven ==
  version.state \in {"APPROVED", "ACTIVE", "DEGRADED", "SUSPENDED", "RETIRED"} => Proven

(* A session that is running is the one its version names, and the version *)
(* is in paper trading: no session is left that nobody can review, which   *)
(* would block every later one.                                            *)
SessionIsCurrent ==
  \A p \in Paper : paper[p].state = "RUNNING" => version.state = "PAPER_TRADING" /\ version.paper = p

(* The rows of a version, its runs and its sessions agree.                 *)
EvidenceIsConsistent == LiveIsProven /\ SessionIsCurrent

(* What was decided stands.  A run is decided once: a verdict is never     *)
(* replaced and its run never queued again, by a duplicate delivery or by  *)
(* a recovery.  Retirement is final, and a lost edge ends an activation    *)
(* for good: neither a late verdict nor a decision brings such a version   *)
(* back without a new backtest.                                            *)
VerdictStands ==
  \A b \in Backtest : backtest[b].state \in Verdict => backtest'[b] = backtest[b]
NoSilentReturn ==
  /\ version.state = "RETIRED" => version'.state = "RETIRED"
  /\ version.state # "ACTIVE" /\ version'.state = "ACTIVE" => ~version.unhealthy
DecisionsAreFinal == [][VerdictStands /\ NoSilentReturn]_versionVars

(* A Trade Plan is made only while the version is proven and has not lost  *)
(* its edge: a signal recorded for a paper session, or before a new        *)
(* backtest was asked for, makes none.                                     *)
PlanRestsOnProof == [][plans' # plans => Proven /\ ~version.unhealthy]_versionVars

(* A requested backtest gets its verdict although its dispatch was lost or *)
(* its worker killed.                                                      *)
BacktestDecided ==
  \A b \in Backtest : backtest[b].state = "QUEUED" ~> backtest[b].state \in Verdict
=============================================================================
