--------------------------- MODULE StrategyProofs ----------------------------
(***************************************************************************)
(* What StrategyVersions and StrategyDrafts guarantee for any number of    *)
(* drafts, versions, backtests, sessions, workers, requests and losses.    *)
(***************************************************************************)
EXTENDS StrategyVersions, StrategyDrafts, TLAPS

----------------------------------------------------------------------------
(***************************************************************************)
(* Versions.  What is said of verdicts assumes that recovery tasks do not  *)
(* overlap: one that was slow enough would queue again a run that has been *)
(* started and decided since it looked.                                    *)
(***************************************************************************)

OneRecoverer == \A r, s \in Recoverer : r = s

Live == {"APPROVED", "ACTIVE", "DEGRADED", "SUSPENDED", "RETIRED"}
Tests(t, b) == t.kind = "BACKTEST" /\ t.run = b

(* A worker has its run for itself, and whatever a recovery has selected,  *)
(* or may select, is a run that nobody executes.                           *)
RunsHeld ==
  /\ \A w \in Pool, b \in Backtest : Tests(task[w], b) => backtest[b].state = "RUNNING" /\ ~backtest[b].old
  /\ \A v, w \in Pool, b \in Backtest : Tests(task[v], b) /\ Tests(task[w], b) => v = w
  /\ \A b \in Backtest : backtest[b].old => backtest[b].state = "RUNNING"
  /\ \A r \in Recoverer : \A b \in recovering[r] :
       backtest[b].state = "RUNNING" /\ \A w \in Pool : ~Tests(task[w], b)

(* The formal gate stands for the latest backtest, and nothing beyond      *)
(* validation is reached without it; a live signal is a healthy one.       *)
GatesHold ==
  /\ "formal" \in version.gates =>
       version.latest # NoRow /\ backtest[version.latest].state = "PASSED"
  /\ version.state \in Live \cup {"PAPER_TRADING"} => "formal" \in version.gates
  /\ version.signal = "LIVE" => ~version.unhealthy

(* A version in paper trading has its one running session, started from    *)
(* the latest backtest; a live one has the session that passed.            *)
SessionsHold ==
  /\ SessionIsCurrent
  /\ \A p \in Paper : paper[p].state = "NONE" => paper[p] = NoPaper
  /\ version.state = "PAPER_TRADING" =>
       /\ version.paper # NoRow /\ paper[version.paper].state = "RUNNING"
       /\ paper[version.paper].basis = version.latest
  /\ version.state \in Live =>
       /\ version.paper # NoRow /\ paper[version.paper].state = "PASSED"
       /\ paper[version.paper].basis = version.latest

(* While an automatic start is on its way the version does not go live,    *)
(* and the sessions that start had loaded are over.                        *)
StartsHold ==
  \A w \in Pool : task[w].kind = "PAPER" =>
    /\ version.state \notin Live
    /\ task[w].row.signal = "LIVE" => ~task[w].row.unhealthy
    /\ \A p \in Paper : task[w].papers[p] # NoPaper =>
         paper[p].state \in {"PASSED", "FAILED"} /\ task[w].papers[p].state \in {"PASSED", "FAILED"}

VersionInv == VersionTypeOK /\ RunsHeld /\ GatesHold /\ SessionsHold /\ StartsHold

----------------------------------------------------------------------------
(* What the kind of a task says about its other fields.                    *)
LEMMA TaskShape ==
  ASSUME VersionTypeOK, NEW w \in Pool
  PROVE  /\ task[w].kind = "BACKTEST" => task[w].run \in Backtest /\ task[w] # Free
         /\ task[w].kind = "PAPER" =>
              task[w].row \in VersionRow /\ task[w].papers \in [Paper -> PaperRow]
<1>1. task[w] \in {Free} \cup BacktestTask \cup PaperTask
  BY DEF VersionTypeOK, PoolTask
<1>2. CASE task[w] = Free
  BY <1>2 DEF Free
<1>3. CASE task[w] \in BacktestTask
  BY <1>3 DEF BacktestTask, Free
<1>4. CASE task[w] \in PaperTask
  BY <1>4 DEF PaperTask, Free
<1> QED BY <1>1, <1>2, <1>3, <1>4

(* The fields of the rows.                                                 *)
LEMMA RowShape ==
  ASSUME VersionTypeOK
  PROVE  /\ version \in VersionRow
         /\ \A b \in Backtest : backtest[b] \in BacktestRow
         /\ \A p \in Paper : paper[p] \in PaperRow
BY DEF VersionTypeOK

(* A field of a version row can be replaced by any value of its own.       *)
LEMMA VersionFieldsTyped ==
  ASSUME NEW row \in VersionRow
  PROVE  /\ \A x \in VersionState : [row EXCEPT !.state = x] \in VersionRow
         /\ \A x \in Backtest : [row EXCEPT !.latest = x] \in VersionRow
         /\ \A x \in SUBSET Gate : [row EXCEPT !.gates = x] \in VersionRow
         /\ \A x \in Paper : [row EXCEPT !.paper = x] \in VersionRow
         /\ \A x \in {"NONE", "PAPER", "LIVE"} : [row EXCEPT !.signal = x] \in VersionRow
         /\ \A x \in BOOLEAN : [row EXCEPT !.unhealthy = x] \in VersionRow
BY DEF VersionRow

(* The invariant holds of a new version.                                   *)
LEMMA VersionStart == VersionInit => VersionInv
<1> SUFFICES ASSUME VersionInit PROVE VersionInv
  OBVIOUS
<1>1. VersionTypeOK
  BY VersionBoundAssumption
     DEF VersionInit, VersionTypeOK, VersionRow, BacktestRow, PaperRow, NoBacktest, NoPaper,
         PoolTask, VersionState
<1>2. RunsHeld
  BY DEF VersionInit, RunsHeld, NoBacktest, Tests, Free
<1>3. GatesHold /\ SessionsHold
  BY DEF VersionInit, GatesHold, SessionsHold, SessionIsCurrent, Live, NoPaper
<1>4. StartsHold
  BY DEF VersionInit, StartsHold, Free
<1> QED BY <1>1, <1>2, <1>3, <1>4 DEF VersionInv

----------------------------------------------------------------------------
(* A verdict on a run that is not decided touches the version only while   *)
(* it waits for this run, which no session and no approval rests on.       *)
LEMMA VerdictKeeps ==
  ASSUME VersionInv, NEW b \in Backtest, NEW verdict \in Verdict,
         backtest[b].state \in {"QUEUED", "RUNNING"},
         \A c \in Backtest : backtest'[c].state = IF c = b THEN verdict ELSE backtest[c].state,
         VerdictOnVersion(b, verdict), UNCHANGED paper
  PROVE  /\ version' \in VersionRow /\ GatesHold' /\ SessionsHold'
         /\ version'.state \in Live => version.state \in Live
<1> USE RowShape DEF VersionInv, BacktestRow
<1>1. backtest[b].state # "PASSED"
  OBVIOUS
<1>2. CASE version.latest = b
  <2> DEFINE gates == IF verdict = "PASSED" THEN version.gates \cup {"formal"}
                      ELSE version.gates \ {"formal"}
  <2>0. version' = [version EXCEPT !.state = "VALIDATING", !.gates = gates]
    BY <1>2 DEF VerdictOnVersion
  <2>1. /\ version'.state = "VALIDATING" /\ version'.latest = b
        /\ version'.signal = version.signal /\ version'.unhealthy = version.unhealthy
        /\ version'.paper = version.paper /\ version'.gates = gates
        /\ version' \in VersionRow
    <3>1. gates \in SUBSET Gate /\ "VALIDATING" \in VersionState
      BY DEF VersionRow, Gate, VersionState
    <3> HIDE DEF gates
    <3>2. version' \in VersionRow
      BY <2>0, <3>1, VersionFieldsTyped
    <3> QED BY <1>2, <2>0, <3>2 DEF VersionRow
  <2>2. version.state \notin Live \cup {"PAPER_TRADING"}
    BY <1>1, <1>2 DEF GatesHold
  <2>3. GatesHold'
    BY <2>1, VersionRowsAssumption DEF GatesHold, Live
  <2>4. SessionsHold'
    BY <2>1, <2>2 DEF SessionsHold, SessionIsCurrent, Live
  <2> QED BY <2>1, <2>3, <2>4 DEF Live
<1>3. CASE version.latest # b
  <2>1. UNCHANGED version
    BY <1>3 DEF VerdictOnVersion
  <2> QED BY <1>1, <1>3, <2>1 DEF GatesHold, SessionsHold, SessionIsCurrent, VersionRow
<1> QED BY <1>2, <1>3

----------------------------------------------------------------------------
(* A new backtest takes the version back to the start, with no evidence.   *)
LEMMA CreateKeeps ==
  ASSUME VersionInv, NEW b \in Backtest, CreateBacktest(b)
  PROVE  VersionInv'
<1> USE RowShape DEF VersionInv
<1>1. /\ backtest' = [backtest EXCEPT ![b].state = "QUEUED"]
      /\ version' = [version EXCEPT !.state = "BACKTESTING", !.latest = b, !.gates = {}, !.signal = "NONE"]
      /\ UNCHANGED <<paper, task, recovering, plans, kills>>
      /\ delivery' \subseteq Backtest /\ backtest[b] = NoBacktest
      /\ version.state \notin {"ACTIVE", "PAPER_TRADING", "BACKTESTING", "RETIRED"}
  BY DEF CreateBacktest, VersionTypeOK
<1>2. /\ version'.state = "BACKTESTING" /\ version'.gates = {} /\ version'.signal = "NONE"
      /\ version' \in VersionRow
  <2>1. {} \in SUBSET Gate /\ "BACKTESTING" \in VersionState
    BY DEF Gate, VersionState
  <2>2. version' \in VersionRow
    BY <1>1, <2>1, VersionFieldsTyped
  <2> QED BY <1>1, <2>2 DEF VersionRow
<1>3. \A c \in Backtest : /\ backtest'[c].state = IF c = b THEN "QUEUED" ELSE backtest[c].state
                          /\ backtest'[c].old = backtest[c].old
  BY <1>1 DEF BacktestRow, VersionTypeOK
<1>4. VersionTypeOK'
  BY <1>1, <1>2 DEF VersionTypeOK, BacktestRow
<1>5. RunsHeld'
  BY <1>1, <1>3 DEF RunsHeld, NoBacktest, Tests, VersionTypeOK
<1>6. GatesHold' /\ SessionsHold'
  BY <1>1, <1>2 DEF GatesHold, SessionsHold, SessionIsCurrent, Live
<1>7. StartsHold'
  BY <1>1, <1>2 DEF StartsHold, Live
<1> QED BY <1>4, <1>5, <1>6, <1>7

(* A delivery starts the run it names if it is still queued.               *)
LEMMA StartKeeps ==
  ASSUME VersionInv, NEW w \in Pool, NEW b \in Backtest, StartBacktest(w, b)
  PROVE  VersionInv'
<1> USE RowShape DEF VersionInv
<1>1. /\ UNCHANGED <<version, paper, recovering, plans, kills>>
      /\ delivery' \subseteq Backtest /\ task[w] = Free
  BY DEF StartBacktest, VersionTypeOK
<1>2. CASE UNCHANGED <<backtest, task>>
  BY <1>1, <1>2 DEF VersionTypeOK, RunsHeld, Tests, GatesHold, SessionsHold, SessionIsCurrent, StartsHold
<1>3. CASE backtest[b].state = "QUEUED"
  <2>1. /\ backtest' = [backtest EXCEPT ![b] = [state |-> "RUNNING", old |-> FALSE]]
        /\ task' = [task EXCEPT ![w] = [kind |-> "BACKTEST", run |-> b]]
    BY <1>3 DEF StartBacktest
  <2>2. \A c \in Backtest : /\ backtest'[c].state = IF c = b THEN "RUNNING" ELSE backtest[c].state
                            /\ backtest'[c].old = IF c = b THEN FALSE ELSE backtest[c].old
    BY <2>1 DEF BacktestRow, VersionTypeOK
  <2>3. /\ [kind |-> "BACKTEST", run |-> b] \in BacktestTask
        /\ task'[w].kind = "BACKTEST" /\ task'[w].run = b
        /\ \A v \in Pool : v # w => task'[v] = task[v]
    BY <2>1 DEF BacktestTask, VersionTypeOK
  <2>4. VersionTypeOK'
    BY <1>1, <2>1, <2>3 DEF VersionTypeOK, BacktestRow, PoolTask
  <2>5. RunsHeld'
    <3>1. /\ \A v \in Pool, c \in Backtest : Tests(task'[v], c) => (v = w /\ c = b) \/ (v # w /\ Tests(task[v], c))
          /\ \A v \in Pool : ~Tests(task[v], b)
          /\ \A r \in Recoverer : recovering[r] \subseteq Backtest /\ b \notin recovering[r]
      BY <1>1, <1>3, <2>3 DEF RunsHeld, Tests, VersionTypeOK, Free
    <3>2. \A v \in Pool, c \in Backtest : Tests(task'[v], c) => backtest'[c].state = "RUNNING" /\ ~backtest'[c].old
      BY <1>1, <2>2, <3>1 DEF RunsHeld, BacktestRow
    <3>3. \A v, u \in Pool, c \in Backtest : Tests(task'[v], c) /\ Tests(task'[u], c) => v = u
      BY <1>1, <2>2, <3>1 DEF RunsHeld
    <3>4. \A c \in Backtest : backtest'[c].old => backtest'[c].state = "RUNNING"
      BY <1>1, <2>2, <3>1 DEF RunsHeld, BacktestRow
    <3>5. ASSUME NEW r \in Recoverer, NEW c \in recovering'[r]
          PROVE  backtest'[c].state = "RUNNING" /\ \A v \in Pool : ~Tests(task'[v], c)
      <4>1. c \in recovering[r] /\ c \in Backtest /\ c # b
        BY <1>1, <3>1
      <4>2. backtest[c].state = "RUNNING" /\ \A v \in Pool : ~Tests(task[v], c)
        BY <4>1 DEF RunsHeld
      <4> QED BY <2>2, <3>1, <4>1, <4>2
    <3> QED BY <3>2, <3>3, <3>4, <3>5 DEF RunsHeld
  <2>6. GatesHold'
    BY <1>1, <1>3, <2>2, VersionRowsAssumption DEF GatesHold, VersionRow
  <2>7. SessionsHold'
    BY <1>1 DEF SessionsHold, SessionIsCurrent
  <2>8. StartsHold'
    BY <1>1, <2>3 DEF StartsHold
  <2> QED BY <2>4, <2>5, <2>6, <2>7, <2>8
<1> QED BY <1>2, <1>3 DEF StartBacktest

(* A run ends with a verdict, a failure, or refused before it starts.      *)
LEMMA EndKeeps ==
  ASSUME VersionInv, NEW w \in Pool,
         FinishBacktest(w) \/ FailBacktest(w) \/ \E b \in Backtest : RefuseBacktest(w, b)
  PROVE  VersionInv'
<1> USE RowShape DEF VersionInv
<1>1. ASSUME NEW b \in Backtest, RefuseBacktest(w, b) PROVE VersionInv'
  <2>1. /\ backtest' = [backtest EXCEPT ![b].state = "FAILED"]
        /\ backtest[b].state = "QUEUED" /\ delivery' \subseteq Backtest
        /\ VerdictOnVersion(b, "FAILED") /\ "FAILED" \in Verdict
        /\ UNCHANGED <<paper, task, recovering, plans, kills>>
    BY <1>1 DEF RefuseBacktest, VersionTypeOK, Verdict
  <2>2. \A c \in Backtest : /\ backtest'[c].state = IF c = b THEN "FAILED" ELSE backtest[c].state
                            /\ backtest'[c].old = backtest[c].old
    BY <2>1 DEF BacktestRow, VersionTypeOK
  <2>3. /\ version' \in VersionRow /\ GatesHold' /\ SessionsHold'
        /\ version'.state \in Live => version.state \in Live
    BY <2>1, <2>2, VerdictKeeps
  <2>4. VersionTypeOK'
    BY <2>1, <2>3 DEF VersionTypeOK, BacktestRow, Verdict
  <2>5. RunsHeld'
    BY <2>1, <2>2 DEF RunsHeld, Tests, VersionTypeOK
  <2>6. StartsHold'
    BY <2>1, <2>3 DEF StartsHold
  <2> QED BY <2>3, <2>4, <2>5, <2>6
<1>2. ASSUME FinishBacktest(w) \/ FailBacktest(w) PROVE VersionInv'
  <2> DEFINE b == task[w].run
  <2>1. PICK verdict \in Verdict :
          /\ backtest' = [backtest EXCEPT ![b] = [state |-> verdict, old |-> FALSE]]
          /\ VerdictOnVersion(b, verdict)
    BY <1>2 DEF FinishBacktest, FailBacktest, Verdict
  <2>2. /\ Tests(task[w], b) /\ b \in Backtest /\ task' = [task EXCEPT ![w] = Free]
        /\ UNCHANGED <<paper, delivery, recovering, plans, kills>>
    BY <1>2, TaskShape DEF FinishBacktest, FailBacktest, Tests
  <2> HIDE DEF b
  <2>3. backtest[b].state = "RUNNING"
    BY <2>2 DEF RunsHeld
  <2>4. \A c \in Backtest : /\ backtest'[c].state = IF c = b THEN verdict ELSE backtest[c].state
                            /\ backtest'[c].old = IF c = b THEN FALSE ELSE backtest[c].old
    BY <2>1, <2>2 DEF BacktestRow, VersionTypeOK
  <2>5. /\ version' \in VersionRow /\ GatesHold' /\ SessionsHold'
        /\ version'.state \in Live => version.state \in Live
    BY <2>1, <2>2, <2>3, <2>4, VerdictKeeps
  <2>6. \A v \in Pool : task'[v] = IF v = w THEN Free ELSE task[v]
    BY <2>2 DEF VersionTypeOK
  <2>7. VersionTypeOK'
    BY <2>1, <2>2, <2>5 DEF VersionTypeOK, BacktestRow, PoolTask
  <2>8. RunsHeld'
    <3>1. /\ \A v \in Pool, c \in Backtest : Tests(task'[v], c) <=> v # w /\ Tests(task[v], c)
          /\ \A v \in Pool : v # w => ~Tests(task[v], b)
          /\ \A r \in Recoverer : recovering[r] \subseteq Backtest /\ b \notin recovering[r]
      BY <2>2, <2>6 DEF RunsHeld, Tests, VersionTypeOK, Free
    <3>2. ASSUME NEW v \in Pool, NEW c \in Backtest, Tests(task'[v], c)
          PROVE  backtest'[c].state = "RUNNING" /\ ~backtest'[c].old
      <4>1. Tests(task[v], c) /\ c # b
        BY <3>1, <3>2
      <4>2. backtest[c].state = "RUNNING" /\ ~backtest[c].old
        BY <4>1 DEF RunsHeld
      <4> QED BY <2>4, <4>1, <4>2
    <3>3. \A v, u \in Pool, c \in Backtest : Tests(task'[v], c) /\ Tests(task'[u], c) => v = u
      BY <2>2, <2>4, <3>1 DEF RunsHeld
    <3>4. \A c \in Backtest : backtest'[c].old => backtest'[c].state = "RUNNING"
      BY <2>2, <2>4, <3>1 DEF RunsHeld, BacktestRow
    <3>5. ASSUME NEW r \in Recoverer, NEW c \in recovering'[r]
          PROVE  backtest'[c].state = "RUNNING" /\ \A v \in Pool : ~Tests(task'[v], c)
      <4>1. c \in recovering[r] /\ c \in Backtest /\ c # b
        BY <2>2, <3>1
      <4>2. backtest[c].state = "RUNNING" /\ \A v \in Pool : ~Tests(task[v], c)
        BY <4>1 DEF RunsHeld
      <4> QED BY <2>4, <3>1, <4>1, <4>2
    <3> QED BY <3>2, <3>3, <3>4, <3>5 DEF RunsHeld
  <2>9. StartsHold'
    BY <2>2, <2>5, <2>6 DEF StartsHold, Free
  <2> QED BY <2>5, <2>7, <2>8, <2>9
<1> QED BY <1>1, <1>2

(* A worker dies: its run stays RUNNING, for the recovery to find.         *)
LEMMA KillKeeps ==
  ASSUME VersionInv, NEW w \in Pool, KillWorker(w)
  PROVE  VersionInv'
<1> USE RowShape DEF VersionInv
<1>1. /\ task' = [task EXCEPT ![w] = Free] /\ kills < MaxKills /\ kills' = kills + 1
      /\ UNCHANGED <<version, backtest, paper, recovering, plans>>
      /\ delivery' \subseteq Backtest
  BY TaskShape DEF KillWorker, VersionTypeOK
<1>2. \A v \in Pool : task'[v] = IF v = w THEN Free ELSE task[v]
  BY <1>1 DEF VersionTypeOK
<1>3. VersionTypeOK'
  BY <1>1, VersionBoundAssumption DEF VersionTypeOK, PoolTask
<1>4. \A v \in Pool, b \in Backtest : Tests(task'[v], b) => v # w /\ Tests(task[v], b)
  BY <1>2 DEF Tests, Free
<1>5. RunsHeld'
  <2>1. ASSUME NEW r \in Recoverer, NEW b \in recovering'[r]
        PROVE  backtest'[b].state = "RUNNING" /\ \A v \in Pool : ~Tests(task'[v], b)
    <3>1. b \in recovering[r] /\ b \in Backtest
      BY <1>1 DEF VersionTypeOK
    <3> QED BY <1>1, <1>4, <3>1 DEF RunsHeld
  <2> QED BY <1>1, <1>4, <2>1 DEF RunsHeld
<1>6. GatesHold' /\ SessionsHold'
  BY <1>1 DEF GatesHold, SessionsHold, SessionIsCurrent
<1>7. StartsHold'
  BY <1>1, <1>2 DEF StartsHold, Free
<1> QED BY <1>3, <1>5, <1>6, <1>7

(* The recovery looks at runs that nobody executes and, if it is alone,    *)
(* still finds them so when it writes.                                     *)
LEMMA RecoveryKeeps ==
  ASSUME VersionInv, OneRecoverer,
         \/ \E b \in Backtest : GrowOld(b) \/ Redispatch(b)
         \/ \E r \in Recoverer : RecoverRead(r) \/ RecoverWrite(r)
  PROVE  VersionInv'
<1> USE RowShape DEF VersionInv
<1>1. UNCHANGED <<version, paper, task, plans, kills>>
  BY DEF GrowOld, Redispatch, RecoverRead, RecoverWrite
<1>2. ASSUME NEW b \in Backtest, Redispatch(b) PROVE VersionInv'
  BY <1>1, <1>2 DEF Redispatch, VersionTypeOK, RunsHeld, GatesHold, SessionsHold, SessionIsCurrent, StartsHold
<1>3. ASSUME NEW b \in Backtest, GrowOld(b) PROVE VersionInv'
  <2>1. /\ backtest[b].state = "RUNNING" /\ \A w \in Pool : ~Tests(task[w], b)
        /\ backtest' = [backtest EXCEPT ![b].old = TRUE]
        /\ UNCHANGED <<delivery, recovering>>
    BY <1>3 DEF GrowOld, Overdue, Executing, Tests
  <2>2. \A c \in Backtest : /\ backtest'[c].state = backtest[c].state
                            /\ c # b => backtest'[c] = backtest[c]
    BY <2>1 DEF VersionTypeOK, BacktestRow
  <2>3. VersionTypeOK'
    BY <1>1, <2>1 DEF VersionTypeOK, BacktestRow
  <2>4. RunsHeld'
    <3>1. \A r \in Recoverer : recovering[r] \subseteq Backtest
      BY DEF VersionTypeOK
    <3> QED BY <1>1, <2>1, <2>2, <3>1 DEF RunsHeld
  <2>5. GatesHold'
    BY <1>1, <2>2, VersionRowsAssumption DEF GatesHold, VersionRow
  <2>6. SessionsHold' /\ StartsHold'
    BY <1>1 DEF SessionsHold, SessionIsCurrent, StartsHold
  <2> QED BY <2>3, <2>4, <2>5, <2>6
<1>4. ASSUME NEW r \in Recoverer, RecoverRead(r) PROVE VersionInv'
  <2>1. /\ recovering' = [recovering EXCEPT ![r] = Recoverable]
        /\ UNCHANGED <<backtest, delivery>>
    BY <1>4 DEF RecoverRead
  <2>2. VersionTypeOK' /\ GatesHold' /\ SessionsHold' /\ StartsHold'
    BY <1>1, <2>1 DEF VersionTypeOK, GatesHold, SessionsHold, SessionIsCurrent, StartsHold, Recoverable
  <2>3. \A b \in Recoverable : backtest[b].state = "RUNNING" /\ \A w \in Pool : ~Tests(task[w], b)
    BY DEF Recoverable, RunsHeld
  <2>4. RunsHeld'
    BY <1>1, <2>1, <2>3 DEF RunsHeld, VersionTypeOK
  <2> QED BY <2>2, <2>4
<1>5. ASSUME NEW r \in Recoverer, RecoverWrite(r) PROVE VersionInv'
  <2>1. /\ backtest' = [b \in Backtest |-> IF b \in recovering[r] THEN [state |-> "QUEUED", old |-> FALSE]
                                           ELSE backtest[b]]
        /\ recovering' = [recovering EXCEPT ![r] = {}]
        /\ delivery' \subseteq Backtest
    BY <1>5 DEF RecoverWrite, VersionTypeOK
  <2>2. \A b \in recovering[r] : backtest[b].state = "RUNNING" /\ \A w \in Pool : ~Tests(task[w], b)
    BY DEF RunsHeld
  <2>3. \A s \in Recoverer : recovering'[s] = {}
    BY <2>1 DEF OneRecoverer, VersionTypeOK
  <2>4. VersionTypeOK'
    BY <1>1, <2>1, <2>3 DEF VersionTypeOK, BacktestRow
  <2>5. RunsHeld'
    BY <1>1, <2>1, <2>2, <2>3 DEF RunsHeld
  <2>6. \A b \in Backtest : backtest[b].state = "PASSED" => backtest'[b].state = "PASSED"
    BY <2>1, <2>2
  <2>7. GatesHold'
    BY <1>1, <2>6, VersionRowsAssumption DEF GatesHold, VersionRow
  <2>8. SessionsHold' /\ StartsHold'
    BY <1>1 DEF SessionsHold, SessionIsCurrent, StartsHold
  <2> QED BY <2>4, <2>5, <2>7, <2>8
<1> QED BY <1>2, <1>3, <1>4, <1>5

----------------------------------------------------------------------------
(* A session starts from a row that is ready, when no session is running   *)
(* and nothing has gone live.                                              *)
LEMMA OpenKeeps ==
  ASSUME VersionInv, NEW row \in VersionRow, NEW papers, NEW p \in Paper, OpenPaper(row, papers, p),
         \A q \in Paper : paper[q].state # "RUNNING",
         version.state \notin Live,
         row.signal = "LIVE" => ~row.unhealthy,
         UNCHANGED backtest
  PROVE  /\ version' \in VersionRow /\ paper' \in [Paper -> PaperRow]
         /\ GatesHold' /\ SessionsHold' /\ version'.state = "PAPER_TRADING"
         /\ \A q \in Paper : paper[q] # NoPaper => paper'[q] = paper[q]
<1> USE RowShape DEF VersionInv
<1>1. /\ Ready(row) /\ paper[p] = NoPaper
      /\ paper' = [paper EXCEPT ![p] = [NoPaper EXCEPT !.state = "RUNNING", !.basis = row.latest]]
      /\ version' = [row EXCEPT !.state = "PAPER_TRADING", !.paper = p]
  BY DEF OpenPaper
<1>2. /\ version' \in VersionRow /\ version'.state = "PAPER_TRADING" /\ version'.paper = p
      /\ version'.latest = row.latest /\ version'.gates = row.gates
      /\ version'.signal = row.signal /\ version'.unhealthy = row.unhealthy
  <2>1. "PAPER_TRADING" \in VersionState
    BY DEF VersionState
  <2>2. version' \in VersionRow
    BY <1>1, <2>1, VersionFieldsTyped
  <2> QED BY <1>1, <2>2 DEF VersionRow
<1>3. /\ [NoPaper EXCEPT !.state = "RUNNING", !.basis = row.latest] \in PaperRow
      /\ paper'[p].state = "RUNNING" /\ paper'[p].basis = row.latest
      /\ \A q \in Paper : q # p => paper'[q] = paper[q]
  BY <1>1 DEF NoPaper, PaperRow, VersionRow, VersionTypeOK
<1>4. paper' \in [Paper -> PaperRow]
  BY <1>1, <1>3 DEF VersionTypeOK
<1>5. GatesHold'
  BY <1>1, <1>2 DEF GatesHold, Ready
<1>6. SessionsHold'
  BY <1>1, <1>2, <1>3, VersionRowsAssumption DEF SessionsHold, SessionIsCurrent, Live
<1> QED BY <1>1, <1>2, <1>3, <1>4, <1>5, <1>6

(* What does not touch the runs, nor the tasks on them, keeps them held.   *)
LEMMA RunsUntouched ==
  ASSUME RunsHeld, UNCHANGED <<backtest, recovering>>,
         \A w \in Pool, b \in Backtest : Tests(task'[w], b) => Tests(task[w], b),
         \A r \in Recoverer : recovering[r] \subseteq Backtest
  PROVE  RunsHeld'
BY DEF RunsHeld

(* A person, or the automation with the row it read before, starts a       *)
(* session.                                                                *)
LEMMA StartPaperKeeps ==
  ASSUME VersionInv, NEW p \in Paper, StartPaper(p)
  PROVE  VersionInv'
<1> USE RowShape DEF VersionInv
<1>1. OpenPaper(version, paper, p) /\ UNCHANGED <<backtest, delivery, task, recovering, plans, kills>>
  BY DEF StartPaper
<1>2. /\ \A q \in Paper : paper[q].state # "RUNNING"
      /\ version.state \notin Live /\ (version.signal = "LIVE" => ~version.unhealthy)
  BY <1>1 DEF OpenPaper, Ready, SessionsHold, SessionIsCurrent, Live, GatesHold
<1>3. /\ version' \in VersionRow /\ paper' \in [Paper -> PaperRow]
      /\ GatesHold' /\ SessionsHold' /\ version'.state = "PAPER_TRADING"
      /\ \A q \in Paper : paper[q] # NoPaper => paper'[q] = paper[q]
  BY <1>1, <1>2, OpenKeeps
<1>4. VersionTypeOK'
  BY <1>1, <1>3 DEF VersionTypeOK
<1>5. RunsHeld'
  BY <1>1, RunsUntouched DEF VersionTypeOK
<1>6. StartsHold'
  <2>1. ASSUME NEW w \in Pool, task'[w].kind = "PAPER", NEW q \in Paper, task'[w].papers[q] # NoPaper
        PROVE  paper'[q].state \in {"PASSED", "FAILED"} /\ task'[w].papers[q].state \in {"PASSED", "FAILED"}
    <3>1. paper[q].state \in {"PASSED", "FAILED"} /\ task[w].papers[q].state \in {"PASSED", "FAILED"}
      BY <1>1, <2>1 DEF StartsHold
    <3>2. paper[q] # NoPaper
      BY <3>1 DEF NoPaper
    <3> QED BY <1>1, <1>3, <3>1, <3>2
  <2> QED BY <1>1, <1>3, <2>1 DEF StartsHold, Live
<1> QED BY <1>3, <1>4, <1>5, <1>6

(* The automation takes its copy while no session is running.              *)
LEMMA AutoReadKeeps ==
  ASSUME VersionInv, NEW w \in Pool, AutoPaperRead(w)
  PROVE  VersionInv'
<1> USE RowShape DEF VersionInv
<1> DEFINE start == [kind |-> "PAPER", row |-> version, papers |-> paper]
<1>1. /\ task' = [task EXCEPT ![w] = start] /\ version.state = "VALIDATING"
      /\ UNCHANGED <<version, backtest, paper, delivery, recovering, plans, kills>>
  BY DEF AutoPaperRead
<1>2. /\ start \in PaperTask /\ start.kind = "PAPER"
      /\ start.row = version /\ start.papers = paper
  BY DEF PaperTask, VersionTypeOK
<1> HIDE DEF start
<1>3. \A v \in Pool : task'[v] = IF v = w THEN start ELSE task[v]
  BY <1>1 DEF VersionTypeOK
<1>4. VersionTypeOK'
  BY <1>1, <1>2 DEF VersionTypeOK, PoolTask
<1>5. RunsHeld'
  <2>1. \A v \in Pool, b \in Backtest : Tests(task'[v], b) => Tests(task[v], b)
    BY <1>2, <1>3 DEF Tests
  <2> QED BY <1>1, <2>1, RunsUntouched DEF VersionTypeOK
<1>6. GatesHold' /\ SessionsHold'
  BY <1>1 DEF GatesHold, SessionsHold, SessionIsCurrent
<1>7. StartsHold'
  <2>1. \A q \in Paper : paper[q] # NoPaper => paper[q].state \in {"PASSED", "FAILED"}
    BY <1>1 DEF SessionsHold, SessionIsCurrent, PaperRow
  <2>2. version.state \notin Live /\ (version.signal = "LIVE" => ~version.unhealthy)
    BY <1>1 DEF Live, GatesHold
  <2> QED BY <1>1, <1>2, <1>3, <2>1, <2>2 DEF StartsHold
<1> QED BY <1>4, <1>5, <1>6, <1>7

(* With the lock in hand it sees every session that is running, for one    *)
(* that it had not loaded is read now and the ones it had loaded are over. *)
LEMMA AutoWriteKeeps ==
  ASSUME VersionInv, NEW w \in Pool, AutoPaperWrite(w)
  PROVE  VersionInv'
<1> USE RowShape DEF VersionInv
<1>1. /\ task[w].kind = "PAPER" /\ task' = [task EXCEPT ![w] = Free]
      /\ UNCHANGED <<backtest, delivery, recovering, plans, kills>>
  BY DEF AutoPaperWrite
<1>2. \A v \in Pool : task'[v] = IF v = w THEN Free ELSE task[v]
  BY <1>1 DEF VersionTypeOK
<1>3. RunsHeld'
  <2>1. \A v \in Pool, b \in Backtest : Tests(task'[v], b) => Tests(task[v], b)
    BY <1>2 DEF Tests, Free
  <2> QED BY <1>1, <2>1, RunsUntouched DEF VersionTypeOK
<1>4. CASE UNCHANGED <<version, paper>>
  <2>1. VersionTypeOK' /\ GatesHold' /\ SessionsHold'
    BY <1>1, <1>4 DEF VersionTypeOK, PoolTask, GatesHold, SessionsHold, SessionIsCurrent
  <2>2. StartsHold'
    BY <1>2, <1>4 DEF StartsHold, Free
  <2> QED BY <1>3, <2>1, <2>2
<1>5. ASSUME NEW p \in Paper, OpenPaper(task[w].row, Loaded(w), p) PROVE VersionInv'
  <2>1. /\ task[w].row \in VersionRow /\ version.state \notin Live
        /\ task[w].row.signal = "LIVE" => ~task[w].row.unhealthy
    BY <1>1, TaskShape DEF StartsHold
  <2>2. ASSUME NEW q \in Paper, paper[q].state = "RUNNING" PROVE FALSE
    <3>1. task[w].papers[q] = NoPaper
      BY <1>1, <2>2 DEF StartsHold
    <3>2. q \in InProgress(Loaded(w))
      BY <2>2, <3>1 DEF InProgress, Loaded
    <3> QED BY <1>5, <3>2 DEF OpenPaper
  <2>3. /\ version' \in VersionRow /\ paper' \in [Paper -> PaperRow]
        /\ GatesHold' /\ SessionsHold' /\ version'.state = "PAPER_TRADING"
        /\ \A q \in Paper : paper[q] # NoPaper => paper'[q] = paper[q]
    BY <1>1, <1>5, <2>1, <2>2, OpenKeeps
  <2>4. VersionTypeOK'
    BY <1>1, <2>3 DEF VersionTypeOK, PoolTask
  <2>5. StartsHold'
    <3>1. ASSUME NEW v \in Pool, task'[v].kind = "PAPER"
          PROVE  /\ version'.state \notin Live
                 /\ task'[v].row.signal = "LIVE" => ~task'[v].row.unhealthy
                 /\ \A q \in Paper : task'[v].papers[q] # NoPaper =>
                      paper'[q].state \in {"PASSED", "FAILED"} /\ task'[v].papers[q].state \in {"PASSED", "FAILED"}
      <4>1. task'[v] = task[v]
        BY <1>2, <3>1 DEF Free
      <4>2. \A q \in Paper : paper[q].state \in {"PASSED", "FAILED"} => paper[q] # NoPaper
        BY DEF NoPaper
      <4> QED BY <2>3, <3>1, <4>1, <4>2 DEF StartsHold, Live
    <3> QED BY <3>1 DEF StartsHold
  <2> QED BY <1>3, <2>3, <2>4, <2>5
<1> QED BY <1>4, <1>5 DEF AutoPaperWrite

(* A session is told to stop entering, or reviewed.                        *)
LEMMA ReviewKeeps ==
  ASSUME VersionInv, NEW p \in Paper, StopEntries(p) \/ CompletePaper(p)
  PROVE  VersionInv'
<1> USE RowShape DEF VersionInv
<1>1. /\ UNCHANGED <<backtest, delivery, task, recovering, plans, kills>>
      /\ version.state = "PAPER_TRADING" /\ paper[p].state = "RUNNING" /\ version.paper = p
      /\ \A q \in Paper : q # p => paper[q].state # "RUNNING"
  BY DEF StopEntries, CompletePaper, SessionsHold, SessionIsCurrent
<1>2. RunsHeld'
  BY <1>1, RunsUntouched DEF VersionTypeOK
<1>3. CASE StopEntries(p)
  <2>1. UNCHANGED version /\ paper' = [paper EXCEPT ![p].ended = TRUE]
    BY <1>3 DEF StopEntries
  <2>2. /\ paper' \in [Paper -> PaperRow]
        /\ \A q \in Paper : /\ paper'[q].state = paper[q].state /\ paper'[q].basis = paper[q].basis
                            /\ q # p => paper'[q] = paper[q]
    BY <2>1 DEF VersionTypeOK, PaperRow
  <2>3. VersionTypeOK'
    BY <1>1, <2>1, <2>2 DEF VersionTypeOK
  <2>4. GatesHold'
    BY <1>1, <2>1 DEF GatesHold
  <2>5. SessionsHold'
    BY <1>1, <2>1, <2>2 DEF SessionsHold, SessionIsCurrent, Live
  <2>6. StartsHold'
    BY <1>1, <2>1, <2>2 DEF StartsHold
  <2> QED BY <1>2, <2>3, <2>4, <2>5, <2>6
<1>4. CASE CompletePaper(p)
  <2>0. PICK passed \in BOOLEAN :
        /\ passed => \A w \in Pool : task[w].kind # "PAPER"
        /\ paper' = [paper EXCEPT ![p].state = IF passed THEN "PASSED" ELSE "FAILED"]
        /\ version' = [version EXCEPT !.state = IF passed THEN "APPROVED" ELSE "VALIDATING",
                         !.gates = IF passed THEN @ \cup {"paper"} ELSE @ \ {"paper"},
                         !.signal = "NONE"]
    BY <1>4 DEF CompletePaper
  <2> DEFINE state == IF passed THEN "APPROVED" ELSE "VALIDATING"
             gates == IF passed THEN version.gates \cup {"paper"} ELSE version.gates \ {"paper"}
  <2>1. version' = [version EXCEPT !.state = state, !.gates = gates, !.signal = "NONE"]
    BY <2>0
  <2>2. /\ version' \in VersionRow /\ version'.state = state /\ version'.gates = gates
        /\ version'.signal = "NONE" /\ version'.latest = version.latest /\ version'.paper = p
    <3>1. state \in VersionState /\ gates \in SUBSET Gate
      BY DEF VersionState, VersionRow, Gate
    <3> HIDE DEF state, gates
    <3>2. version' \in VersionRow
      BY <2>1, <3>1, VersionFieldsTyped
    <3> QED BY <1>1, <2>1, <3>2 DEF VersionRow
  <2>3. /\ paper' \in [Paper -> PaperRow]
        /\ paper'[p].state = IF passed THEN "PASSED" ELSE "FAILED"
        /\ paper'[p].basis = paper[p].basis
        /\ \A q \in Paper : q # p => paper'[q] = paper[q]
    BY <1>1, <2>0 DEF VersionTypeOK, PaperRow
  <2>4. VersionTypeOK'
    BY <1>1, <2>2, <2>3 DEF VersionTypeOK
  <2>5. GatesHold'
    BY <1>1, <2>2 DEF GatesHold, Live
  <2>6. SessionsHold'
    BY <1>1, <2>2, <2>3 DEF SessionsHold, SessionIsCurrent, Live
  <2>7. StartsHold'
    <3>1. ASSUME NEW w \in Pool, task'[w].kind = "PAPER"
          PROVE  /\ version'.state \notin Live
                 /\ \A q \in Paper : task[w].papers[q] # NoPaper => paper'[q].state \in {"PASSED", "FAILED"}
      BY <1>1, <2>0, <2>2, <2>3, <3>1 DEF StartsHold, Live
    <3> QED BY <1>1, <3>1 DEF StartsHold
  <2> QED BY <1>2, <2>4, <2>5, <2>6, <2>7
<1> QED BY <1>3, <1>4

(* The monitor follows the session, and a decision the version, without    *)
(* touching what they rest on.                                             *)
LEMMA FollowingKeeps ==
  ASSUME VersionInv, version' \in VersionRow, paper' \in [Paper -> PaperRow],
         UNCHANGED <<backtest, delivery, task, recovering, kills>>, plans' \in 0..MaxPlans,
         version'.latest = version.latest, version'.gates = version.gates,
         version'.paper = version.paper,
         \/ version'.state = version.state
         \/ version.state \in Live /\ version'.state \in Live
         \/ {version.state, version'.state} \cap (Live \cup {"PAPER_TRADING"}) = {},
         version'.signal = "LIVE" => ~version'.unhealthy,
         \A q \in Paper : /\ paper'[q].state = paper[q].state /\ paper'[q].basis = paper[q].basis
                          /\ paper[q].state # "RUNNING" => paper'[q] = paper[q]
  PROVE  VersionInv'
<1> USE RowShape DEF VersionInv
<1>1. VersionTypeOK'
  BY DEF VersionTypeOK
<1>2. RunsHeld'
  BY RunsUntouched DEF VersionTypeOK
<1>3. GatesHold'
  BY DEF GatesHold, Live
<1>4. SessionsHold'
  <2>1. ASSUME NEW q \in Paper, paper'[q].state = "RUNNING"
        PROVE  version'.state = "PAPER_TRADING" /\ version'.paper = q
    <3>1. version.state = "PAPER_TRADING" /\ version.paper = q
      BY <2>1 DEF SessionsHold, SessionIsCurrent
    <3> QED BY <3>1 DEF Live
  <2>2. ASSUME NEW q \in Paper, paper'[q].state = "NONE"
        PROVE  paper'[q] = NoPaper
    <3>1. paper[q].state = "NONE" /\ paper'[q] = paper[q]
      BY <2>2
    <3> QED BY <3>1 DEF SessionsHold
  <2>3. version.paper # NoRow => version.paper \in Paper
    BY DEF VersionTypeOK, VersionRow
  <2>4. version'.state = "PAPER_TRADING" =>
          /\ version'.paper # NoRow /\ paper'[version'.paper].state = "RUNNING"
          /\ paper'[version'.paper].basis = version'.latest
    <3>1. version'.state = "PAPER_TRADING" => version.state = "PAPER_TRADING"
      BY DEF Live
    <3> QED BY <2>3, <3>1 DEF SessionsHold
  <2>5. version'.state \in Live =>
          /\ version'.paper # NoRow /\ paper'[version'.paper].state = "PASSED"
          /\ paper'[version'.paper].basis = version'.latest
    <3>1. version'.state \in Live => version.state \in Live
      OBVIOUS
    <3> QED BY <2>3, <3>1 DEF SessionsHold
  <2> QED BY <2>1, <2>2, <2>4, <2>5 DEF SessionsHold, SessionIsCurrent
<1>5. StartsHold'
  BY DEF StartsHold
<1> QED BY <1>1, <1>2, <1>3, <1>4, <1>5

(* The monitor of a paper session, and of an activated version.            *)
LEMMA MonitorKeeps ==
  ASSUME VersionInv, MonitorPaper \/ MonitorActive \/ MonitorBlocked
  PROVE  VersionInv'
<1> USE RowShape DEF VersionInv
<1>1. /\ UNCHANGED <<backtest, delivery, task, recovering, plans, kills>>
      /\ plans \in 0..MaxPlans /\ paper \in [Paper -> PaperRow]
  BY DEF MonitorPaper, MonitorActive, MonitorBlocked, VersionTypeOK
<1>2. CASE MonitorPaper
  <2> DEFINE s == version.paper
  <2>1. PICK open, unhealthy \in BOOLEAN :
          /\ paper' = [paper EXCEPT ![s].open = open, ![s].failure = FALSE]
          /\ version' = [version EXCEPT !.signal = "PAPER", !.unhealthy = unhealthy]
    BY <1>2 DEF MonitorPaper
  <2>2. version.state = "PAPER_TRADING" /\ s \in Paper /\ paper[s].state = "RUNNING"
    BY <1>2 DEF MonitorPaper, SessionsHold, VersionRow
  <2> HIDE DEF s
  <2>3. paper' = [paper EXCEPT ![s] = [paper[s] EXCEPT !.open = open, !.failure = FALSE]]
    BY <1>1, <2>1, <2>2
  <2>4. [paper[s] EXCEPT !.open = open, !.failure = FALSE] \in PaperRow
    <3>1. \A x \in BOOLEAN : [paper[s] EXCEPT !.open = x] \in PaperRow
      BY <2>2 DEF PaperRow
    <3>2. \A row \in PaperRow : [row EXCEPT !.failure = FALSE] \in PaperRow
      BY DEF PaperRow
    <3> QED BY <3>1, <3>2
  <2>5. /\ paper' \in [Paper -> PaperRow]
        /\ \A q \in Paper : /\ paper'[q].state = paper[q].state /\ paper'[q].basis = paper[q].basis
                            /\ paper[q].state # "RUNNING" => paper'[q] = paper[q]
    BY <1>1, <2>2, <2>3, <2>4 DEF PaperRow
  <2>6. version' \in VersionRow
    BY <2>1, VersionFieldsTyped
  <2>7. /\ version'.latest = version.latest /\ version'.gates = version.gates
        /\ version'.paper = version.paper /\ version'.state = version.state
        /\ version'.signal = "PAPER"
    BY <2>1, <2>6 DEF VersionRow
  <2> QED BY <1>1, <2>5, <2>6, <2>7, FollowingKeeps
<1>3. CASE MonitorActive
  <2>1. /\ version' \in VersionRow /\ UNCHANGED paper
        /\ version'.latest = version.latest /\ version'.gates = version.gates
        /\ version'.paper = version.paper /\ version.state = "ACTIVE"
        /\ version'.state \in {"ACTIVE", "SUSPENDED"}
        /\ version'.signal = "LIVE" => ~version'.unhealthy
    <3>1. /\ \A x \in {"NONE", "LIVE"} :
                [version EXCEPT !.signal = x, !.unhealthy = FALSE] \in VersionRow
          /\ [version EXCEPT !.signal = "NONE", !.unhealthy = TRUE, !.state = "SUSPENDED"] \in VersionRow
      <4>1. "SUSPENDED" \in VersionState
        BY DEF VersionState
      <4> QED BY <4>1, VersionFieldsTyped
    <3>2. version' \in VersionRow
      BY <1>3, <3>1 DEF MonitorActive
    <3> QED BY <1>3, <3>2 DEF MonitorActive, VersionRow
  <2>2. \A q \in Paper : paper'[q] = paper[q]
    BY <2>1
  <2> QED BY <1>1, <2>1, <2>2, FollowingKeeps DEF Live
<1>4. CASE MonitorBlocked
  <2>1. version' = [version EXCEPT !.signal = "NONE"]
    BY <1>4 DEF MonitorBlocked
  <2>2. version' \in VersionRow
    BY <2>1, VersionFieldsTyped
  <2>3. /\ version'.latest = version.latest /\ version'.gates = version.gates
        /\ version'.paper = version.paper /\ version'.state = version.state
        /\ version'.signal = "NONE"
    BY <2>1, <2>2 DEF VersionRow
  <2>4. /\ paper' \in [Paper -> PaperRow]
        /\ \A q \in Paper : /\ paper'[q].state = paper[q].state /\ paper'[q].basis = paper[q].basis
                            /\ paper[q].state # "RUNNING" => paper'[q] = paper[q]
    <3>1. CASE UNCHANGED paper
      BY <1>1, <3>1
    <3>2. CASE /\ version.state = "PAPER_TRADING"
               /\ paper' = [paper EXCEPT ![version.paper].failure = TRUE]
      <4>1. version.paper \in Paper /\ paper[version.paper].state = "RUNNING"
        BY <3>2 DEF SessionsHold, VersionRow
      <4> QED BY <1>1, <3>2, <4>1 DEF PaperRow
    <3> QED BY <1>4, <3>1, <3>2 DEF MonitorBlocked
  <2> QED BY <1>1, <2>2, <2>3, <2>4, FollowingKeeps
<1> QED BY <1>2, <1>3, <1>4

(* What a person decides of a version, and the plans made from it.         *)
LEMMA DecisionKeeps ==
  ASSUME VersionInv, (\E target \in VersionState : Transition(target)) \/ Promote \/ CreateTradePlan
  PROVE  VersionInv'
<1> USE RowShape DEF VersionInv
<1>1. /\ UNCHANGED <<backtest, paper, delivery, task, recovering, kills>>
      /\ plans \in 0..MaxPlans /\ paper' \in [Paper -> PaperRow]
      /\ \A q \in Paper : paper'[q] = paper[q]
  BY DEF Transition, Promote, CreateTradePlan, VersionTypeOK
<1>2. ASSUME NEW target \in VersionState, version' = [version EXCEPT !.state = target, !.signal = "NONE"]
      PROVE  /\ version' \in VersionRow /\ version'.state = target /\ version'.signal = "NONE"
             /\ version'.latest = version.latest /\ version'.gates = version.gates
             /\ version'.paper = version.paper
  <2>1. version' \in VersionRow
    BY <1>2, VersionFieldsTyped
  <2> QED BY <1>2, <2>1 DEF VersionRow
<1>3. ASSUME NEW target \in VersionState, Transition(target) PROVE VersionInv'
  <2>1. \/ version.state \in Live /\ target \in Live
        \/ {version.state, target} \cap (Live \cup {"PAPER_TRADING"}) = {}
    BY <1>3 DEF Transition, Manual, Live
  <2>2. UNCHANGED plans /\ version' = [version EXCEPT !.state = target, !.signal = "NONE"]
    BY <1>3 DEF Transition
  <2> QED BY <1>1, <1>2, <2>1, <2>2, FollowingKeeps
<1>4. ASSUME Promote PROVE VersionInv'
  <2>1. /\ version.state \in Live /\ "ACTIVE" \in Live /\ "ACTIVE" \in VersionState
        /\ UNCHANGED plans /\ version' = [version EXCEPT !.state = "ACTIVE", !.signal = "NONE"]
    BY <1>4 DEF Promote, Live, VersionState
  <2> QED BY <1>1, <1>2, <2>1, FollowingKeeps
<1>5. ASSUME CreateTradePlan PROVE VersionInv'
  <2>1. plans' \in 0..MaxPlans /\ UNCHANGED version
    BY <1>1, <1>5, VersionBoundAssumption DEF CreateTradePlan
  <2> QED BY <1>1, <2>1, FollowingKeeps DEF GatesHold
<1> QED BY <1>3, <1>4, <1>5

(* Every step keeps the invariant.                                         *)
LEMMA VersionStep ==
  ASSUME VersionInv, OneRecoverer, [VersionNext]_versionVars
  PROVE  VersionInv'
<1>1. CASE UNCHANGED versionVars
  BY <1>1 DEF versionVars, VersionInv, VersionTypeOK, RunsHeld, GatesHold, SessionsHold, SessionIsCurrent, StartsHold
<1> QED BY <1>1, CreateKeeps, StartKeeps, EndKeeps, KillKeeps, RecoveryKeeps, StartPaperKeeps,
           AutoReadKeeps, AutoWriteKeeps, ReviewKeeps, MonitorKeeps, DecisionKeeps DEF VersionNext

----------------------------------------------------------------------------
(* A run in a worker's hands or in a recovery's is RUNNING, so a decided   *)
(* run is in nobody's, and neither is a version that went live from one.   *)
LEMMA DecidedStands ==
  ASSUME VersionInv, VersionNext
  PROVE  VerdictStands
<1> SUFFICES ASSUME NEW b \in Backtest, backtest[b].state \in Verdict
             PROVE  backtest'[b] = backtest[b]
  BY DEF VerdictStands
<1> USE RowShape DEF VersionInv
<1>1. backtest[b].state \notin {"NONE", "QUEUED", "RUNNING"}
  BY DEF Verdict
<1>2. CASE UNCHANGED backtest
  BY <1>2
<1>3. ASSUME NEW c \in Backtest, CreateBacktest(c) \/ GrowOld(c) PROVE backtest'[b] = backtest[b]
  BY <1>1, <1>3 DEF CreateBacktest, GrowOld, Overdue, NoBacktest, VersionTypeOK
<1>4. ASSUME NEW w \in Pool, NEW c \in Backtest, StartBacktest(w, c) \/ RefuseBacktest(w, c)
      PROVE  backtest'[b] = backtest[b]
  BY <1>1, <1>4 DEF StartBacktest, RefuseBacktest, VersionTypeOK
<1>5. ASSUME NEW w \in Pool, FinishBacktest(w) \/ FailBacktest(w) PROVE backtest'[b] = backtest[b]
  <2>1. Tests(task[w], task[w].run) /\ task[w].run \in Backtest
    BY <1>5, TaskShape DEF FinishBacktest, FailBacktest, Tests
  <2>2. backtest[task[w].run].state = "RUNNING"
    BY <2>1 DEF RunsHeld
  <2> QED BY <1>1, <1>5, <2>2 DEF FinishBacktest, FailBacktest, VersionTypeOK
<1>6. ASSUME NEW r \in Recoverer, RecoverWrite(r) PROVE backtest'[b] = backtest[b]
  <2>1. b \notin recovering[r]
    BY <1>1 DEF RunsHeld
  <2> QED BY <1>6, <2>1 DEF RecoverWrite
<1>7. \/ UNCHANGED backtest
      \/ \E c \in Backtest : CreateBacktest(c) \/ GrowOld(c)
      \/ \E w \in Pool : \/ \E c \in Backtest : StartBacktest(w, c) \/ RefuseBacktest(w, c)
                         \/ FinishBacktest(w) \/ FailBacktest(w)
      \/ \E r \in Recoverer : RecoverWrite(r)
  BY DEF VersionNext, Redispatch, KillWorker, AutoPaperRead, AutoPaperWrite, RecoverRead, StartPaper,
         StopEntries, CompletePaper, MonitorPaper, MonitorActive, MonitorBlocked, Transition,
         Promote, CreateTradePlan
<1> QED BY <1>2, <1>3, <1>4, <1>5, <1>6, <1>7

(* A retired version is out of reach of late verdicts and late starts, and *)
(* only a promotion activates, which a lost edge forbids.                  *)
LEMMA NoneReturns ==
  ASSUME VersionInv, VersionNext
  PROVE  NoSilentReturn
<1> USE RowShape DEF VersionInv
<1>1. CASE UNCHANGED version
  BY <1>1 DEF NoSilentReturn
<1>2. ASSUME NEW b \in Backtest, NEW verdict \in Verdict, VerdictOnVersion(b, verdict),
             backtest[b].state \in {"QUEUED", "RUNNING"}
      PROVE  NoSilentReturn
  <2>1. CASE version.latest = b
    <3>1. version.state # "RETIRED"
      BY <1>2, <2>1 DEF GatesHold, Live
    <3>2. version'.state = "VALIDATING"
      BY <1>2, <2>1 DEF VerdictOnVersion, VersionRow
    <3> QED BY <3>1, <3>2 DEF NoSilentReturn
  <2>2. CASE version.latest # b
    BY <1>1, <1>2, <2>2 DEF VerdictOnVersion
  <2> QED BY <2>1, <2>2
<1>3. ASSUME NEW w \in Pool, FinishBacktest(w) \/ FailBacktest(w) PROVE NoSilentReturn
  <2>1. Tests(task[w], task[w].run) /\ task[w].run \in Backtest
    BY <1>3, TaskShape DEF FinishBacktest, FailBacktest, Tests
  <2>2. backtest[task[w].run].state = "RUNNING"
    BY <2>1 DEF RunsHeld
  <2> QED BY <1>2, <1>3, <2>1, <2>2 DEF FinishBacktest, FailBacktest, Verdict
<1>4. ASSUME NEW w \in Pool, NEW b \in Backtest, RefuseBacktest(w, b) PROVE NoSilentReturn
  BY <1>2, <1>4 DEF RefuseBacktest, Verdict
<1>5. ASSUME NEW b \in Backtest, CreateBacktest(b) PROVE NoSilentReturn
  BY <1>5 DEF CreateBacktest, NoSilentReturn, VersionRow
<1>6. ASSUME NEW p \in Paper, StartPaper(p) \/ CompletePaper(p) PROVE NoSilentReturn
  <2>1. CASE StartPaper(p)
    BY <2>1 DEF StartPaper, OpenPaper, Ready, NoSilentReturn, VersionRow
  <2>2. CASE CompletePaper(p)
    <3>1. version.state = "PAPER_TRADING" /\ version'.state # "ACTIVE"
      BY <2>2 DEF CompletePaper, VersionRow
    <3> QED BY <3>1 DEF NoSilentReturn
  <2> QED BY <1>6, <2>1, <2>2
<1>7. ASSUME NEW w \in Pool, NEW p \in Paper, task[w].kind = "PAPER", OpenPaper(task[w].row, Loaded(w), p)
      PROVE  NoSilentReturn
  <2>1. version.state \notin Live /\ task[w].row \in VersionRow
    BY <1>7, TaskShape DEF StartsHold
  <2>2. version'.state = "PAPER_TRADING"
    BY <1>7, <2>1 DEF OpenPaper, VersionRow
  <2> QED BY <2>1, <2>2 DEF NoSilentReturn, Live
<1>8. ASSUME MonitorPaper \/ MonitorActive \/ MonitorBlocked PROVE NoSilentReturn
  BY <1>8 DEF MonitorPaper, MonitorActive, MonitorBlocked, NoSilentReturn, VersionRow
<1>9. ASSUME NEW target \in VersionState, Transition(target) PROVE NoSilentReturn
  BY <1>9 DEF Transition, Manual, NoSilentReturn, VersionRow
<1>10. ASSUME Promote PROVE NoSilentReturn
  BY <1>10 DEF Promote, NoSilentReturn, VersionRow
<1>11. ASSUME NEW w \in Pool, AutoPaperWrite(w) PROVE NoSilentReturn
  BY <1>1, <1>7, <1>11 DEF AutoPaperWrite
<1>12. \/ UNCHANGED version
       \/ \E b \in Backtest : CreateBacktest(b)
       \/ \E w \in Pool : \/ \E b \in Backtest : RefuseBacktest(w, b)
                          \/ FinishBacktest(w) \/ FailBacktest(w) \/ AutoPaperWrite(w)
       \/ \E p \in Paper : StartPaper(p) \/ CompletePaper(p)
       \/ MonitorPaper \/ MonitorActive \/ MonitorBlocked
       \/ \E target \in VersionState : Transition(target)
       \/ Promote
  BY DEF VersionNext, Redispatch, GrowOld, StartBacktest, KillWorker, AutoPaperRead, RecoverRead,
         RecoverWrite, StopEntries, CreateTradePlan
<1> QED BY <1>1, <1>3, <1>4, <1>5, <1>6, <1>8, <1>9, <1>10, <1>11, <1>12

----------------------------------------------------------------------------
(* The invariant holds of every behaviour in which recoveries do not       *)
(* overlap.                                                                *)
THEOREM VersionInvHolds == ASSUME OneRecoverer PROVE VersionSpec => []VersionInv
<1>1. VersionInit => VersionInv
  BY VersionStart
<1>2. VersionInv /\ [VersionNext]_versionVars => VersionInv'
  BY VersionStep
<1> QED BY <1>1, <1>2, PTL DEF VersionSpec

(* Rows, and the copies of them that tasks hold, keep their types.         *)
THEOREM VersionTypeCorrect == ASSUME OneRecoverer PROVE VersionSpec => []VersionTypeOK
<1>1. VersionSpec => []VersionInv
  BY VersionInvHolds
<1>2. VersionInv => VersionTypeOK
  BY DEF VersionInv
<1> QED BY <1>1, <1>2, PTL

(* The version's state, the verdicts of its runs and the outcome of its    *)
(* sessions agree, whatever was superseded, recovered or started late: a   *)
(* version past validation rests on a passed run and a passed session of   *)
(* that run, and a running session is the version's own.                   *)
THEOREM EvidenceAgrees == ASSUME OneRecoverer PROVE VersionSpec => []EvidenceIsConsistent
<1>1. VersionSpec => []VersionInv
  BY VersionInvHolds
<1>2. VersionInv => EvidenceIsConsistent
  BY DEF VersionInv, GatesHold, SessionsHold, EvidenceIsConsistent, LiveIsProven, Proven, Live
<1> QED BY <1>1, <1>2, PTL

(* _run_backtest, _mark_backtest_failed and _resume_strategy_backtests     *)
(* never change a verdict, and no verdict, start or decision brings back a *)
(* version that was retired or lost its edge.                              *)
THEOREM DecisionsStand == ASSUME OneRecoverer PROVE VersionSpec => DecisionsAreFinal
<1>1. VersionSpec => []VersionInv
  BY VersionInvHolds
<1>2. VersionInv /\ [VersionNext]_versionVars => [VerdictStands /\ NoSilentReturn]_versionVars
  BY DecidedStands, NoneReturns
<1> QED BY <1>1, <1>2, PTL DEF VersionSpec, DecisionsAreFinal

(* create_approved_trade_plan makes a plan only from a version that is     *)
(* proven and healthy.                                                     *)
THEOREM PlansRestOnProof == ASSUME OneRecoverer PROVE VersionSpec => PlanRestsOnProof
<1>1. VersionSpec => []VersionInv
  BY VersionInvHolds
<1>2. VersionInv /\ [VersionNext]_versionVars => [plans' # plans => Proven /\ ~version.unhealthy]_versionVars
  <2> SUFFICES ASSUME VersionInv, VersionNext, plans' # plans PROVE Proven /\ ~version.unhealthy
    OBVIOUS
  <2>1. CreateTradePlan
    BY DEF VersionNext, CreateBacktest, GrowOld, Redispatch, StartBacktest, RefuseBacktest, FinishBacktest,
           FailBacktest, KillWorker, AutoPaperRead, AutoPaperWrite, RecoverRead, RecoverWrite, StartPaper,
           StopEntries, CompletePaper, MonitorPaper, MonitorActive, MonitorBlocked, Transition, Promote
  <2> QED BY <2>1 DEF CreateTradePlan, Plannable, VersionInv, GatesHold, SessionsHold, Proven, Live
<1> QED BY <1>1, <1>2, PTL DEF VersionSpec, PlanRestsOnProof

----------------------------------------------------------------------------
(***************************************************************************)
(* Drafts: what a draft says is tied to what its research came to, and a   *)
(* decision is on record with its draft.                                   *)
(***************************************************************************)

Researching == {"QUEUED", "RESEARCHING"}
Proposed == {"AWAITING_STRATEGY_APPROVAL"} \cup Decided

(* A worker has its run for itself: recoveries leave alone what is being   *)
(* executed, and only what is queued is started.                           *)
WorkHeld ==
  /\ \A w \in Researcher, d \in Researched :
       researcher[w].run = d => research[d].state = "RESEARCHING" /\ ~research[d].old
  /\ \A v, w \in Researcher, d \in Researched :
       researcher[v].run = d /\ researcher[w].run = d => v = w
  /\ \A d \in Researched : research[d].old => research[d].state = "RESEARCHING"

(* Each state of the research allows few states of the draft.              *)
InStep ==
  \A d \in Researched :
    /\ research[d].state = "NONE" => draft[d].state = "NONE"
    /\ research[d].state \in Researching => draft[d].state \in Researching
    /\ research[d].state \in Settled =>
         \/ draft[d].state = research[d].state
         \/ research[d].state = "AWAITING_STRATEGY_APPROVAL" /\ draft[d].state \in Decided

(* An approval is on record only with a decision.                          *)
ApprovalDecides ==
  \A d \in Draft : draft[d].data.approval # "NONE" => draft[d].state \in Decided

(* What an open request has read is still proposed, and a revision is of   *)
(* something decided.                                                      *)
RequestsHold ==
  \A c \in Client : request[c].kind # "NONE" =>
    /\ draft[request[c].draft].state \in Proposed
    /\ request[c].kind \in {"SAVE", "SUBMIT"} => draft[request[c].draft].state \in Decided

DraftsInv == DraftsTypeOK /\ WorkHeld /\ InStep /\ ApprovalDecides /\ RequestsHold

----------------------------------------------------------------------------
(* The fields of the rows, and of the copies that requests hold.           *)
LEMMA RowsTyped ==
  ASSUME DraftsTypeOK
  PROVE  /\ \A d \in Researched : /\ research[d] \in ResearchRow
                                  /\ research[d].old \in BOOLEAN
         /\ \A d \in Draft : draft[d] \in DraftRow /\ draft[d].data \in DraftData
         /\ \A c \in Client : request[c].kind # "NONE" => request[c] \in DraftRequest
         /\ Researched \subseteq Draft /\ Alternative \subseteq Draft
<1>1. \A c \in Client : request[c].kind # "NONE" => request[c] \in DraftRequest
  BY DEF DraftsTypeOK, NoRequest
<1>2. \A d \in Researched : research[d] \in ResearchRow /\ research[d].old \in BOOLEAN
  BY DEF DraftsTypeOK, ResearchRow
<1>3. \A d \in Draft : draft[d] \in DraftRow /\ draft[d].data \in DraftData
  BY DEF DraftsTypeOK, DraftRow
<1> QED BY <1>1, <1>2, <1>3 DEF Draft

(* A field of a row, and of its data, can be replaced by any value of its  *)
(* own.                                                                    *)
LEMMA DraftFieldsTyped ==
  /\ \A row \in ResearchRow :
       /\ \A s \in {"NONE"} \cup Researching \cup Settled : [row EXCEPT !.state = s] \in ResearchRow
       /\ [row EXCEPT !.old = TRUE] \in ResearchRow
  /\ \A row \in DraftRow :
       /\ \A s \in {"NONE"} \cup Researching \cup Settled \cup Decided :
            [row EXCEPT !.state = s] \in DraftRow
       /\ \A data \in DraftData : [row EXCEPT !.data = data] \in DraftRow
  /\ \A data \in DraftData :
       /\ \A a \in {"HUMAN", "POLICY", "REJECTED"} : [data EXCEPT !.approval = a] \in DraftData
       /\ \A f \in Fingerprint : [data EXCEPT !.print = f] \in DraftData
       /\ \A v \in VersionId : [data EXCEPT !.version = v] \in DraftData
<1>1. \A row \in ResearchRow :
       /\ \A s \in {"NONE"} \cup Researching \cup Settled : [row EXCEPT !.state = s] \in ResearchRow
       /\ [row EXCEPT !.old = TRUE] \in ResearchRow
  BY DEF ResearchRow, Researching
<1>2. \A row \in DraftRow :
       /\ \A s \in {"NONE"} \cup Researching \cup Settled \cup Decided :
            [row EXCEPT !.state = s] \in DraftRow
       /\ \A data \in DraftData : [row EXCEPT !.data = data] \in DraftRow
  BY DEF DraftRow, Researching
<1>3. \A data \in DraftData :
       /\ \A a \in {"HUMAN", "POLICY", "REJECTED"} : [data EXCEPT !.approval = a] \in DraftData
       /\ \A f \in Fingerprint : [data EXCEPT !.print = f] \in DraftData
       /\ \A v \in VersionId : [data EXCEPT !.version = v] \in DraftData
  BY DEF DraftData
<1> QED BY <1>1, <1>2, <1>3

(* The states a step writes are states of the rows.                        *)
LEMMA StatesDiffer ==
  /\ Settled = {"AWAITING_STRATEGY_APPROVAL", "NO_QUALIFYING_STRATEGY", "DEGRADED"}
  /\ Decided = {"DRAFT", "SPECIFIED", "REJECTED"}
  /\ Researching = {"QUEUED", "RESEARCHING"}
  /\ Proposed = {"AWAITING_STRATEGY_APPROVAL", "DRAFT", "SPECIFIED", "REJECTED"}
BY DEF Settled, Decided, Researching, Proposed

(* The invariant holds before anything is queued.                          *)
LEMMA DraftsStart == DraftsInit => DraftsInv
<1> SUFFICES ASSUME DraftsInit PROVE DraftsInv
  OBVIOUS
<1>1. DraftsTypeOK
  BY LostAssumption
     DEF DraftsInit, DraftsTypeOK, ResearchRow, DraftRow, DraftData, NoData, Identity
<1>2. WorkHeld
  BY DraftAssumption DEF DraftsInit, WorkHeld, Asleep
<1>3. InStep
  <2>1. \A d \in Researched : research[d].state = "NONE" /\ draft[d].state = "NONE"
    BY DEF DraftsInit, Draft
  <2> QED BY <2>1, StatesDiffer DEF InStep
<1>4. ApprovalDecides /\ RequestsHold
  BY DEF DraftsInit, ApprovalDecides, RequestsHold, NoData, NoRequest
<1> QED BY <1>1, <1>2, <1>3, <1>4 DEF DraftsInv

----------------------------------------------------------------------------
(* Research steps: a run is queued, resumed, started and fed, and its      *)
(* worker may be lost.                                                     *)
LEMMA ResearchKeeps ==
  ASSUME DraftsInv, NEW d \in Researched,
         \/ QueueResearch(d) \/ ResumeResearch(d) \/ ResearchGrowsOld(d)
         \/ \E w \in Researcher : StartResearch(w, d) \/ CollectEvidence(w, d)
                                  \/ AttachEvidence(w, d)
  PROVE  DraftsInv' /\ (draft[d].state \in Decided => draft'[d].state \in Decided)
<1> DEFINE Queue == QueueResearch(d) \/ ResumeResearch(d) \/ ResearchGrowsOld(d)
<1>0. /\ DraftsTypeOK /\ WorkHeld /\ InStep /\ ApprovalDecides /\ RequestsHold
      /\ research[d] \in ResearchRow /\ draft[d] \in DraftRow /\ d \in Draft
  BY RowsTyped DEF DraftsInv
<1>1. CASE QueueResearch(d)
  <2>1. /\ research[d].state = "NONE" /\ draft[d].state = "NONE"
        /\ research' = [research EXCEPT ![d] = [research[d] EXCEPT !.state = "QUEUED"]]
        /\ draft' = [draft EXCEPT ![d] = [draft[d] EXCEPT !.state = "QUEUED"]]
        /\ asked' \in {asked, asked \cup {d}}
        /\ UNCHANGED <<strategy, researcher, request, policy, lost>>
    BY <1>0, <1>1 DEF QueueResearch, InStep
  <2>2. /\ [research[d] EXCEPT !.state = "QUEUED"] \in ResearchRow
        /\ [draft[d] EXCEPT !.state = "QUEUED"] \in DraftRow
    BY <1>0, DraftFieldsTyped DEF Researching
  <2>3. /\ research'[d].state = "QUEUED" /\ research'[d].old = research[d].old
        /\ draft'[d].state = "QUEUED" /\ draft'[d].data = draft[d].data
        /\ \A e \in Researched \ {d} : research'[e] = research[e]
        /\ \A e \in Draft \ {d} : draft'[e] = draft[e]
    BY <1>0, <2>1 DEF DraftsTypeOK, ResearchRow, DraftRow
  <2>4. DraftsTypeOK'
    BY <1>0, <2>1, <2>2 DEF DraftsTypeOK
  <2>5. WorkHeld'
    BY <1>0, <2>1, <2>3 DEF WorkHeld
  <2>6. InStep'
    BY <1>0, <2>3, RowsTyped, StatesDiffer DEF InStep
  <2>7. ApprovalDecides'
    BY <1>0, <2>1, <2>3, StatesDiffer DEF ApprovalDecides
  <2>8. RequestsHold'
    <3>1. \A c \in Client : request[c].kind # "NONE" =>
            request[c].draft \in Draft /\ request[c].draft # d
      BY <1>0, <2>1, RowsTyped, StatesDiffer DEF RequestsHold, DraftRequest
    <3> QED BY <1>0, <2>1, <2>3, <3>1 DEF RequestsHold
  <2> QED BY <2>1, <2>4, <2>5, <2>6, <2>7, <2>8, StatesDiffer DEF DraftsInv
<1>2. CASE ResumeResearch(d)
  <2>1. /\ research[d].state \in Researching
        /\ \A w \in Researcher : researcher[w].run # d
        /\ research' = [research EXCEPT ![d] = [state |-> "QUEUED", old |-> FALSE]]
        /\ asked' = asked \cup {d}
        /\ UNCHANGED <<draft, strategy, researcher, request, policy, lost>>
    BY <1>0, <1>2 DEF ResumeResearch, WorkHeld, Researching
  <2>2. [state |-> "QUEUED", old |-> FALSE] \in ResearchRow
    BY DEF ResearchRow
  <2>3. /\ research'[d].state = "QUEUED" /\ research'[d].old = FALSE
        /\ \A e \in Researched \ {d} : research'[e] = research[e]
    BY <1>0, <2>1 DEF DraftsTypeOK
  <2>4. DraftsTypeOK'
    BY <1>0, <2>1, <2>2 DEF DraftsTypeOK
  <2>5. WorkHeld'
    BY <1>0, <2>1, <2>3 DEF WorkHeld
  <2>6. InStep'
    BY <1>0, <2>1, <2>3, StatesDiffer DEF InStep
  <2>7. ApprovalDecides' /\ RequestsHold'
    BY <1>0, <2>1 DEF ApprovalDecides, RequestsHold
  <2> QED BY <2>1, <2>4, <2>5, <2>6, <2>7 DEF DraftsInv
<1>3. CASE ResearchGrowsOld(d)
  <2>1. /\ research[d].state = "RESEARCHING"
        /\ \A w \in Researcher : researcher[w].run # d
        /\ research' = [research EXCEPT ![d] = [research[d] EXCEPT !.old = TRUE]]
        /\ UNCHANGED <<draft, strategy, asked, researcher, request, policy, lost>>
    BY <1>0, <1>3 DEF ResearchGrowsOld, ResearchOverdue, Working, Works
  <2>2. [research[d] EXCEPT !.old = TRUE] \in ResearchRow
    BY <1>0, DraftFieldsTyped
  <2>3. /\ research'[d].state = "RESEARCHING"
        /\ \A e \in Researched \ {d} : research'[e] = research[e]
    BY <1>0, <2>1 DEF DraftsTypeOK, ResearchRow
  <2>4. DraftsTypeOK'
    BY <1>0, <2>1, <2>2 DEF DraftsTypeOK
  <2>5. WorkHeld'
    BY <1>0, <2>1, <2>3 DEF WorkHeld
  <2>6. InStep'
    BY <1>0, <2>1, <2>3, StatesDiffer DEF InStep
  <2>7. ApprovalDecides' /\ RequestsHold'
    BY <1>0, <2>1 DEF ApprovalDecides, RequestsHold
  <2> QED BY <2>1, <2>4, <2>5, <2>6, <2>7 DEF DraftsInv
<1>4. ASSUME NEW w \in Researcher, CollectEvidence(w, d) \/ AttachEvidence(w, d)
      PROVE  DraftsInv' /\ (draft[d].state \in Decided => draft'[d].state \in Decided)
  <2>1. PICK old \in {"STARTED", "COLLECTED"}, new \in {"COLLECTED", "ATTACHED"} :
           /\ researcher[w] = Awake(d, old)
           /\ researcher' = [researcher EXCEPT ![w] = Awake(d, new)]
    BY <1>4 DEF CollectEvidence, AttachEvidence
  <2>2. researcher[w].run = d /\ Awake(d, new).run = d
    BY <2>1 DEF Awake
  <2>3. research[d].state = "RESEARCHING"
    BY <1>0, <2>2 DEF WorkHeld
  <2>4. UNCHANGED <<research, draft, strategy, asked, request, policy, lost>>
    BY <1>0, <1>4, <2>3 DEF CollectEvidence, AttachEvidence, DraftsTypeOK, ResearchRow
  <2>5. \A v \in Researcher : researcher'[v].run = researcher[v].run
    BY <1>0, <2>1, <2>2 DEF DraftsTypeOK
  <2>6. DraftsTypeOK'
    <3>1. Awake(d, new) \in [run: Researched, stage: {"STARTED", "COLLECTED", "ATTACHED"}]
      BY DEF Awake
    <3> QED BY <1>0, <2>1, <2>4, <3>1 DEF DraftsTypeOK
  <2>7. WorkHeld'
    BY <1>0, <2>4, <2>5 DEF WorkHeld
  <2>8. InStep' /\ ApprovalDecides' /\ RequestsHold'
    BY <1>0, <2>4 DEF InStep, ApprovalDecides, RequestsHold
  <2> QED BY <2>4, <2>6, <2>7, <2>8 DEF DraftsInv
<1>5. ASSUME NEW w \in Researcher, StartResearch(w, d)
      PROVE  DraftsInv' /\ (draft[d].state \in Decided => draft'[d].state \in Decided)
  <2>0. asked' \in {asked, asked \ {d}} /\ UNCHANGED <<strategy, request, policy, lost>>
    BY <1>5 DEF StartResearch
  <2>1. CASE research[d].state # "QUEUED"
    <3>1. UNCHANGED <<research, draft, researcher>>
      BY <1>5, <2>1 DEF StartResearch
    <3> QED
      BY <1>0, <2>0, <3>1 DEF DraftsInv, DraftsTypeOK, WorkHeld, InStep, ApprovalDecides, RequestsHold
  <2>2. CASE research[d].state = "QUEUED"
    <3>1. /\ draft[d].state \in Researching
          /\ \A v \in Researcher : researcher[v].run # d
          /\ research' = [research EXCEPT ![d] = [state |-> "RESEARCHING", old |-> FALSE]]
          /\ draft' = [draft EXCEPT ![d] = [draft[d] EXCEPT !.state = "RESEARCHING"]]
          /\ researcher' = [researcher EXCEPT ![w] = Awake(d, "STARTED")]
      BY <1>0, <1>5, <2>2 DEF StartResearch, InStep, WorkHeld, Researching, Awake
    <3>2. /\ [state |-> "RESEARCHING", old |-> FALSE] \in ResearchRow
          /\ [draft[d] EXCEPT !.state = "RESEARCHING"] \in DraftRow
      BY <1>0, DraftFieldsTyped DEF Researching, ResearchRow
    <3>3. /\ research'[d].state = "RESEARCHING" /\ research'[d].old = FALSE
          /\ draft'[d].state = "RESEARCHING" /\ draft'[d].data = draft[d].data
          /\ \A e \in Researched \ {d} : research'[e] = research[e]
          /\ \A e \in Draft \ {d} : draft'[e] = draft[e]
          /\ researcher'[w].run = d
          /\ \A v \in Researcher \ {w} : researcher'[v] = researcher[v]
      <4>1. Awake(d, "STARTED").run = d
        BY DEF Awake
      <4> QED BY <1>0, <3>1, <4>1 DEF DraftsTypeOK, ResearchRow, DraftRow
    <3>4. DraftsTypeOK'
      <4>1. Awake(d, "STARTED") \in [run: Researched, stage: {"STARTED", "COLLECTED", "ATTACHED"}]
        BY DEF Awake
      <4> QED BY <1>0, <2>0, <3>1, <3>2, <4>1 DEF DraftsTypeOK
    <3>5. WorkHeld'
      BY <1>0, <3>1, <3>3 DEF WorkHeld
    <3>6. InStep'
      BY <1>0, <3>3, RowsTyped, StatesDiffer DEF InStep
    <3>7. ApprovalDecides'
      BY <1>0, <3>1, <3>3, StatesDiffer DEF ApprovalDecides
    <3>8. RequestsHold'
      <4>1. \A c \in Client : request[c].kind # "NONE" =>
              request[c].draft \in Draft /\ request[c].draft # d
        BY <1>0, <3>1, RowsTyped, StatesDiffer DEF RequestsHold, DraftRequest
      <4> QED BY <1>0, <2>0, <3>3, <4>1 DEF RequestsHold
    <3> QED BY <3>1, <3>4, <3>5, <3>6, <3>7, <3>8, StatesDiffer DEF DraftsInv
  <2> QED BY <2>1, <2>2
<1> QED BY <1>1, <1>2, <1>3, <1>4, <1>5

----------------------------------------------------------------------------
(* The end of a research run finds it as the worker left it, and a draft   *)
(* that is still waiting.                                                  *)
LEMMA ConcludingKeeps ==
  ASSUME DraftsInv, NEW d \in Researched, NEW w \in Researcher, NEW s \in Settled,
         Conclude(w, d, s),
         draft'[d].state = s, draft'[d].data = draft[d].data,
         draft' \in [Draft -> DraftRow],
         \A x \in Draft \ {d} :
           draft'[x] = draft[x] \/ (/\ x \in Alternative /\ draft[x].state = "NONE"
                                   /\ draft'[x].state = "AWAITING_STRATEGY_APPROVAL"
                                   /\ draft'[x].data = draft[d].data)
  PROVE  DraftsInv' /\ \A x \in Draft : draft[x].state \in Decided => draft'[x].state \in Decided
<1>0. /\ DraftsTypeOK /\ WorkHeld /\ InStep /\ ApprovalDecides /\ RequestsHold /\ d \in Draft
  BY RowsTyped DEF DraftsInv
<1>1. /\ research[d].state = "RESEARCHING" /\ draft[d].state \in Researching
      /\ \A v \in Researcher \ {w} : researcher[v].run # d
      /\ researcher' = [researcher EXCEPT ![w] = Asleep]
      /\ research' = [research EXCEPT ![d] = [state |-> s, old |-> FALSE]]
      /\ UNCHANGED <<strategy, asked, request, policy, lost>>
  BY <1>0 DEF Conclude, Works, WorkHeld, InStep, Researching
<1>2. draft[d].data.approval = "NONE"
  BY <1>0, <1>1, StatesDiffer DEF ApprovalDecides
<1>3. \A x \in Draft : draft[x].state \in Proposed => draft'[x] = draft[x]
  BY <1>1, StatesDiffer
<1>4. /\ research'[d].state = s /\ research'[d].old = FALSE
      /\ \A e \in Researched \ {d} : research'[e] = research[e]
  BY <1>0, <1>1 DEF DraftsTypeOK
<1>5. DraftsTypeOK'
  <2>1. [state |-> s, old |-> FALSE] \in ResearchRow
    BY DEF ResearchRow
  <2> QED BY <1>0, <1>1, <2>1 DEF DraftsTypeOK
<1>6. WorkHeld'
  <2>1. \A v \in Researcher, e \in Researched :
          researcher'[v].run = e => v # w /\ researcher[v].run = e /\ e # d
    BY <1>0, <1>1, DraftAssumption DEF DraftsTypeOK, Asleep
  <2> QED BY <1>0, <1>4, <2>1, StatesDiffer DEF WorkHeld
<1>7. InStep'
  <2>1. \A e \in Researched \ {d} : draft'[e] = draft[e]
    BY DraftAssumption, RowsTyped, <1>0
  <2> QED BY <1>0, <1>4, <2>1, StatesDiffer DEF InStep
<1>8. ApprovalDecides'
  BY <1>0, <1>2, <1>3, <1>1, StatesDiffer DEF ApprovalDecides
<1>9. RequestsHold'
  <2>1. \A c \in Client : request[c].kind # "NONE" => request[c].draft \in Draft
    BY <1>0, RowsTyped DEF DraftRequest
  <2> QED BY <1>0, <1>1, <1>3, <2>1 DEF RequestsHold
<1> QED BY <1>3, <1>5, <1>6, <1>7, <1>8, <1>9, StatesDiffer DEF DraftsInv

(* The three ends of a research run.                                       *)
LEMMA EndsKeep ==
  ASSUME DraftsInv, NEW d \in Researched, NEW w \in Researcher,
         Propose(w, d) \/ ProposeNothing(w, d) \/ FailResearch(w, d)
  PROVE  DraftsInv' /\ \A x \in Draft : draft[x].state \in Decided => draft'[x].state \in Decided
<1>0. DraftsTypeOK /\ d \in Draft /\ draft[d] \in DraftRow
  BY RowsTyped DEF DraftsInv
<1>1. ASSUME NEW s \in Settled, Conclude(w, d, s),
             draft' = [draft EXCEPT ![d] = [draft[d] EXCEPT !.state = s]]
      PROVE  DraftsInv' /\ \A x \in Draft : draft[x].state \in Decided => draft'[x].state \in Decided
  <2>1. [draft[d] EXCEPT !.state = s] \in DraftRow
    BY <1>0, DraftFieldsTyped
  <2>2. /\ draft' \in [Draft -> DraftRow]
        /\ draft'[d].state = s /\ draft'[d].data = draft[d].data
        /\ \A x \in Draft \ {d} : draft'[x] = draft[x]
    BY <1>0, <1>1, <2>1 DEF DraftsTypeOK, DraftRow
  <2> QED BY <1>1, <2>2, ConcludingKeeps
<1>2. CASE ProposeNothing(w, d)
  BY <1>1, <1>2, StatesDiffer DEF ProposeNothing
<1>3. CASE FailResearch(w, d)
  BY <1>1, <1>3, StatesDiffer DEF FailResearch
<1>4. CASE Propose(w, d)
  <2> DEFINE s == "AWAITING_STRATEGY_APPROVAL"
  <2>0. PICK extra \in SUBSET Alternative :
          draft' = [x \in Draft |->
            IF x = d THEN [draft[d] EXCEPT !.state = s]
            ELSE IF x \in extra /\ draft[x].state = "NONE"
                 THEN [state |-> s, data |-> draft[d].data]
                 ELSE draft[x]]
    BY <1>4 DEF Propose
  <2>1. s \in Settled /\ Conclude(w, d, s)
    BY <1>4, StatesDiffer DEF Propose
  <2>2. /\ [draft[d] EXCEPT !.state = s] \in DraftRow
        /\ [draft[d] EXCEPT !.state = s].state = s
        /\ [draft[d] EXCEPT !.state = s].data = draft[d].data
    BY <1>0, <2>1, DraftFieldsTyped DEF DraftRow
  <2>3. [state |-> s, data |-> draft[d].data] \in DraftRow
    BY <1>0, <2>1 DEF DraftRow
  <2>4. \A x \in Draft : draft'[x] = IF x = d THEN [draft[d] EXCEPT !.state = s]
                                     ELSE IF x \in extra /\ draft[x].state = "NONE"
                                          THEN [state |-> s, data |-> draft[d].data]
                                          ELSE draft[x]
    BY <2>0
  <2>5. draft' \in [Draft -> DraftRow]
    BY <1>0, <2>0, <2>2, <2>3 DEF DraftsTypeOK
  <2>6. draft'[d].state = s /\ draft'[d].data = draft[d].data
    BY <1>0, <2>4, <2>2
  <2>7. \A x \in Draft \ {d} :
          draft'[x] = draft[x] \/ (/\ x \in Alternative /\ draft[x].state = "NONE"
                                  /\ draft'[x].state = s /\ draft'[x].data = draft[d].data)
    BY <2>4
  <2> HIDE DEF s
  <2> QED BY <2>1, <2>5, <2>6, <2>7, ConcludingKeeps DEF s
<1> QED BY <1>2, <1>3, <1>4

----------------------------------------------------------------------------
(* A request ends with the draft decided, whatever happened since it read. *)
LEMMA WritingKeeps ==
  ASSUME DraftsInv, NEW c \in Client, NEW d \in Draft, NEW row \in DraftRow,
         draft[d].state \in Proposed, row.state \in Decided,
         draft' = [draft EXCEPT ![d] = row],
         strategy' \in [VersionId -> Identity], Close(c)
  PROVE  DraftsInv' /\ \A x \in Draft : draft[x].state \in Decided => draft'[x].state \in Decided
<1>0. /\ DraftsTypeOK /\ WorkHeld /\ InStep /\ ApprovalDecides /\ RequestsHold
      /\ request' = [request EXCEPT ![c] = NoRequest]
      /\ UNCHANGED <<research, asked, researcher, policy, lost>>
  BY DEF DraftsInv, Close
<1>1. draft'[d] = row /\ \A x \in Draft \ {d} : draft'[x] = draft[x]
  BY <1>0 DEF DraftsTypeOK
<1>2. DraftsTypeOK'
  BY <1>0 DEF DraftsTypeOK
<1>3. WorkHeld'
  BY <1>0 DEF WorkHeld
<1>4. InStep'
  BY <1>0, <1>1, RowsTyped, StatesDiffer DEF InStep
<1>5. ApprovalDecides'
  BY <1>0, <1>1 DEF ApprovalDecides
<1>6. RequestsHold'
  <2>1. \A b \in Client : request'[b].kind # "NONE" =>
          request'[b] = request[b] /\ request[b].draft \in Draft
    BY <1>0, RowsTyped DEF DraftsTypeOK, NoRequest, DraftRequest
  <2> QED BY <1>0, <1>1, <2>1, StatesDiffer DEF RequestsHold
<1> QED BY <1>1, <1>2, <1>3, <1>4, <1>5, <1>6 DEF DraftsInv

(* Decisions, revisions, submissions and the automation.                   *)
LEMMA RequestsKeep ==
  ASSUME DraftsInv, NEW c \in Client, Decide(c) \/ Save(c) \/ Submit(c) \/ Advance(c)
  PROVE  DraftsInv' /\ \A x \in Draft : draft[x].state \in Decided => draft'[x].state \in Decided
<1> DEFINE d == request[c].draft
           data == request[c].data
           Goal == DraftsInv' /\ \A x \in Draft : draft[x].state \in Decided => draft'[x].state \in Decided
<1>0. DraftsTypeOK /\ RequestsHold
  BY DEF DraftsInv
<1>1. request[c].kind # "NONE"
  BY DEF Decide, Save, Submit, Advance
<1>2. request[c] \in DraftRequest
  BY <1>0, <1>1, RowsTyped
<1>3. /\ d \in Draft /\ data \in DraftData /\ draft[d] \in DraftRow
      /\ draft[d].state \in Proposed /\ Proposal[d] \in Fingerprint
      /\ strategy \in [VersionId -> Identity]
  BY <1>0, <1>1, <1>2, RowsTyped, DraftAssumption DEF DraftRequest, RequestsHold, DraftsTypeOK
<1>4. ASSUME NEW new \in DraftData, AddVersion(d, new), Close(c) PROVE Goal
  <2>0. PICK v \in VersionId :
          /\ strategy' = [strategy EXCEPT ![v] = new.print]
          /\ draft' = [draft EXCEPT ![d] = [state |-> "SPECIFIED",
                                            data |-> [new EXCEPT !.version = v]]]
    BY <1>4 DEF AddVersion
  <2>1. strategy' \in [VersionId -> Identity]
    BY <1>3, <2>0 DEF DraftData, Identity
  <2>2. [new EXCEPT !.version = v] \in DraftData
    BY DraftFieldsTyped
  <2>3. [state |-> "SPECIFIED", data |-> [new EXCEPT !.version = v]] \in DraftRow
    BY <2>2, StatesDiffer DEF DraftRow
  <2> QED BY <1>3, <1>4, <2>0, <2>1, <2>3, StatesDiffer, WritingKeeps
<1>5. CASE Decide(c)
  <2> DEFINE no == [data EXCEPT !.approval = "REJECTED"]
             yes == [data EXCEPT !.approval = "HUMAN", !.print = Proposal[d]]
  <2>1. no \in DraftData /\ yes \in DraftData
    BY <1>3, DraftFieldsTyped
  <2>2. /\ Close(c) /\ strategy' = strategy
        /\ \/ draft' = [draft EXCEPT ![d] = [state |-> "REJECTED", data |-> no]]
           \/ draft' = [draft EXCEPT ![d] = [state |-> "DRAFT", data |-> yes]]
    BY <1>5 DEF Decide
  <2> HIDE DEF no, yes
  <2>3. /\ [state |-> "REJECTED", data |-> no] \in DraftRow
        /\ [state |-> "DRAFT", data |-> yes] \in DraftRow
    BY <2>1, StatesDiffer DEF DraftRow
  <2>4. CASE draft' = [draft EXCEPT ![d] = [state |-> "REJECTED", data |-> no]]
    BY <1>3, <2>2, <2>3, <2>4, StatesDiffer, WritingKeeps
  <2>5. CASE draft' = [draft EXCEPT ![d] = [state |-> "DRAFT", data |-> yes]]
    BY <1>3, <2>2, <2>3, <2>5, StatesDiffer, WritingKeeps
  <2> QED BY <2>2, <2>4, <2>5
<1>6. CASE Save(c)
  <2>0. PICK f \in Fingerprint :
          draft' = [draft EXCEPT ![d] = [draft[d] EXCEPT !.data = [data EXCEPT !.print = f]]]
    BY <1>6 DEF Save
  <2> DEFINE new == [data EXCEPT !.print = f]
  <2>1. new \in DraftData
    BY <1>3, DraftFieldsTyped
  <2> HIDE DEF new
  <2>2. [draft[d] EXCEPT !.data = new] \in DraftRow
    BY <1>3, <2>1, DraftFieldsTyped
  <2>3. [draft[d] EXCEPT !.data = new].state \in Decided
    BY <1>0, <1>1, <1>3, <1>6 DEF Save, RequestsHold, DraftRow
  <2> QED BY <1>3, <1>6, <2>0, <2>2, <2>3, WritingKeeps DEF Save, new
<1>7. CASE Submit(c)
  BY <1>3, <1>4, <1>7 DEF Submit
<1>8. CASE Advance(c)
  <2> DEFINE accepted == [data EXCEPT !.approval = "POLICY", !.print = Proposal[d]]
  <2>1. accepted \in DraftData
    BY <1>3, DraftFieldsTyped
  <2>2. AddVersion(d, accepted) \/ UNCHANGED <<draft, strategy>>
    BY <1>8 DEF Advance
  <2>3. Close(c)
    BY <1>8 DEF Advance
  <2> HIDE DEF accepted
  <2>4. CASE AddVersion(d, accepted)
    BY <1>4, <2>1, <2>3, <2>4
  <2>5. CASE UNCHANGED <<draft, strategy>>
    <3>1. \A b \in Client : request'[b] \in {request[b], NoRequest}
      BY <1>0, <2>3 DEF Close, DraftsTypeOK
    <3>2. DraftsTypeOK'
      BY <1>0, <2>3, <2>5 DEF Close, DraftsTypeOK
    <3> QED
      BY <2>3, <2>5, <3>1, <3>2 DEF Close, DraftsInv, WorkHeld, InStep, ApprovalDecides, RequestsHold,
                                  NoRequest
  <2> QED BY <2>2, <2>4, <2>5
<1> QED BY <1>5, <1>6, <1>7, <1>8

(* What a request reads holds of the draft it reads.                       *)
LEMMA ReadingKeeps ==
  ASSUME DraftsInv, NEW c \in Client, NEW d \in Draft,
         ReadToDecide(c, d) \/ ReadToSave(c, d) \/ ReadToSubmit(c, d) \/ ReadToAdvance(c, d)
  PROVE  DraftsInv' /\ draft' = draft
<1>0. DraftsTypeOK /\ WorkHeld /\ InStep /\ ApprovalDecides /\ RequestsHold
  BY DEF DraftsInv
<1>1. PICK kind \in {"DECIDE", "SAVE", "SUBMIT", "ADVANCE"} :
        /\ Open(c, kind, d) /\ draft[d].state \in Proposed
        /\ kind \in {"SAVE", "SUBMIT"} => draft[d].state \in Decided
  <2>1. CASE ReadToDecide(c, d)
    BY <2>1, StatesDiffer DEF ReadToDecide
  <2>2. CASE ReadToSave(c, d)
    BY <2>2, StatesDiffer DEF ReadToSave
  <2>3. CASE ReadToSubmit(c, d)
    BY <1>0, <2>3, StatesDiffer DEF ReadToSubmit, MayBecomeVersion, ApprovalDecides
  <2>4. CASE ReadToAdvance(c, d)
    BY <2>4, StatesDiffer DEF ReadToAdvance
  <2> QED BY <2>1, <2>2, <2>3, <2>4
<1>2. /\ request' = [request EXCEPT ![c] = [kind |-> kind, draft |-> d, data |-> draft[d].data]]
      /\ UNCHANGED <<research, draft, strategy, asked, researcher, policy, lost>>
  BY <1>1 DEF Open
<1>3. [kind |-> kind, draft |-> d, data |-> draft[d].data] \in DraftRequest
  BY <1>0, RowsTyped DEF DraftRequest
<1>4. DraftsTypeOK'
  BY <1>0, <1>2, <1>3 DEF DraftsTypeOK
<1>5. RequestsHold'
  BY <1>0, <1>1, <1>2 DEF RequestsHold, DraftsTypeOK
<1> QED BY <1>0, <1>2, <1>4, <1>5 DEF DraftsInv, WorkHeld, InStep, ApprovalDecides

----------------------------------------------------------------------------
(* Every step keeps the invariant and every decision.                      *)
LEMMA DraftsStep ==
  DraftsInv /\ [DraftsNext]_draftVars =>
    DraftsInv' /\ \A d \in Draft : draft[d].state \in Decided => draft'[d].state \in Decided
<1> DEFINE Goal == DraftsInv' /\ \A d \in Draft : draft[d].state \in Decided => draft'[d].state \in Decided
<1> SUFFICES ASSUME DraftsInv, [DraftsNext]_draftVars PROVE Goal
  OBVIOUS
<1>0. DraftsTypeOK
  BY DEF DraftsInv
<1>1. ASSUME NEW d \in Researched,
             \/ QueueResearch(d) \/ ResumeResearch(d) \/ ResearchGrowsOld(d)
             \/ \E w \in Researcher : StartResearch(w, d) \/ CollectEvidence(w, d)
                                  \/ AttachEvidence(w, d)
      PROVE  Goal
  <2>1. \A e \in Draft \ {d} : draft'[e] = draft[e]
    BY <1>0, <1>1 DEF DraftsTypeOK, QueueResearch, ResumeResearch, ResearchGrowsOld, StartResearch,
                      CollectEvidence, AttachEvidence
  <2> QED BY <1>1, <2>1, ResearchKeeps
<1>2. ASSUME NEW w \in Researcher, LoseResearcher(w) PROVE Goal
  <2>1. PICK d \in Researched : researcher[w].run = d
    BY <1>0, <1>2 DEF LoseResearcher, DraftsTypeOK
  <2>2. DraftsTypeOK'
    BY <1>0, <1>2, <2>1, LostAssumption DEF LoseResearcher, DraftsTypeOK
  <2>3. \A v \in Researcher, e \in Researched :
          researcher'[v].run = e => researcher[v].run = e
    BY <1>0, <1>2, DraftAssumption DEF LoseResearcher, DraftsTypeOK, Asleep
  <2>4. WorkHeld'
    BY <1>2, <2>3 DEF LoseResearcher, DraftsInv, WorkHeld
  <2> QED BY <1>2, <2>2, <2>4 DEF LoseResearcher, DraftsInv, InStep, ApprovalDecides, RequestsHold
<1>3. CASE SavePolicy
  BY <1>3 DEF SavePolicy, DraftsInv, DraftsTypeOK, WorkHeld, InStep, ApprovalDecides, RequestsHold
<1>4. CASE UNCHANGED draftVars
  BY <1>4 DEF draftVars, DraftsInv, DraftsTypeOK, WorkHeld, InStep, ApprovalDecides, RequestsHold
<1>5. ASSUME NEW c \in Client, NEW d \in Draft,
             ReadToDecide(c, d) \/ ReadToSave(c, d) \/ ReadToSubmit(c, d) \/ ReadToAdvance(c, d)
      PROVE  Goal
  BY <1>5, ReadingKeeps
<1> QED BY <1>1, <1>2, <1>3, <1>4, <1>5, EndsKeep, RequestsKeep DEF DraftsNext

(* Every reachable state satisfies the invariant.                          *)
THEOREM DraftsInvHolds == DraftsSpec => []DraftsInv
<1>1. DraftsInv /\ [DraftsNext]_draftVars => DraftsInv'
  BY DraftsStep
<1> QED BY DraftsStart, <1>1, PTL DEF DraftsSpec

(* Type invariant of the runs, the drafts, the versions and the copies the *)
(* open requests of routes/strategies.py hold.                             *)
THEOREM DraftsTypeCorrect == DraftsSpec => []DraftsTypeOK
<1>1. DraftsInv => DraftsTypeOK
  BY DEF DraftsInv
<1> QED BY <1>1, DraftsInvHolds, PTL

(* Research and draft tell one story for any number of workers, recoveries *)
(* and duplicate messages of tasks/strategies.py.                          *)
THEOREM OneStory == DraftsSpec => []DraftFollowsResearch
<1>1. DraftsInv => DraftFollowsResearch
  <2> SUFFICES ASSUME DraftsInv, NEW d \in Researched
               PROVE  /\ draft[d].state \in Researching => research[d].state \in Researching
                      /\ research[d].state \in Settled =>
                           \/ draft[d].state = research[d].state
                           \/ /\ research[d].state = "AWAITING_STRATEGY_APPROVAL"
                              /\ draft[d].state \in Decided
    BY DEF DraftFollowsResearch, Researching
  <2>1. research[d].state \in {"NONE"} \cup Researching \cup Settled
    BY RowsTyped DEF DraftsInv, ResearchRow, Researching
  <2> QED BY <2>1, StatesDiffer DEF DraftsInv, InStep
<1> QED BY <1>1, DraftsInvHolds, PTL

(* A decision about a draft stands: no research, no late failure and no    *)
(* request that had read the draft before undoes it.                       *)
THEOREM DecidedStays == DraftsSpec => DecisionStands
<1>1. DraftsInv /\ [DraftsNext]_draftVars =>
        [\A d \in Draft : draft[d].state \in Decided => draft'[d].state \in Decided]_draftVars
  BY DraftsStep
<1> QED BY <1>1, DraftsInvHolds, PTL DEF DraftsSpec, DecisionStands

=============================================================================
