--------------------------- MODULE BackgroundRuns ---------------------------
(***************************************************************************)
(* The long tasks of one account and one day: market research cycles       *)
(* (apps/worker/app/tasks/research.py), economic calendar scrapes          *)
(* (forex_factory.py), video discoveries (knowledge.py) and imports of     *)
(* price history (research_data.py).  All are a row, a message, and a task *)
(* of several transactions; they differ in what protects them:             *)
(*                                                                         *)
(*              scheduled        starts only     started again when the    *)
(*              under a lock     when QUEUED     message is lost           *)
(*   CYCLE      no               no              no                        *)
(*   SCRAPE     no               no              no                        *)
(*   DISCOVERY  yes              no              no                        *)
(*   IMPORT     not scheduled    yes             yes                       *)
(*                                                                         *)
(* A cycle ends with the markets it selected, from which strategy research *)
(* is prepared (StrategyDrafts goes on from there).                        *)
(*                                                                         *)
(* An import is old when it has been RUNNING for the twenty-five minutes   *)
(* the recovery waits; its hard limit is twenty-one.                       *)
(***************************************************************************)
EXTENDS Integers, FiniteSets

CONSTANTS
  Run,        \* rows of the four kinds
  KindOf,     \* the kind of each
  Scheduler,  \* scheduling tasks that may run at the same time
  Executor,   \* worker processes
  MaxDrops    \* bound: workers and messages lost

Kind == {"CYCLE", "SCRAPE", "DISCOVERY", "IMPORT"}
ASSUME RunAssumption == KindOf \in [Run -> Kind] /\ MaxDrops \in Nat

VARIABLES
  run,         \* the rows
  queue,       \* runs whose message waits in the broker
  executor,    \* the run each worker executes
  scheduler,   \* the kind each open scheduling transaction is about to create
  selected,    \* cycles with market_selection rows
  announced,   \* cycles whose queue_top_pair_strategies message waits
  prepared,    \* cycles whose strategy research is prepared
  drops        \* workers and messages lost so far

runVars == <<run, queue, executor, scheduler, selected, announced, prepared, drops>>

(* RUNNING stands for RESEARCHING and INGESTING; DONE for COMPLETED,       *)
(* PARTIAL, SKIPPED, SUCCEEDED and the research outcomes but FAILED.       *)
RunRow == [state: {"NONE", "QUEUED", "RUNNING", "DONE", "FAILED"}, scheduled: BOOLEAN, old: BOOLEAN]
Of(kind) == {r \in Run : KindOf[r] = kind}
Unused == "NONE"
AtRest == [run |-> Unused]

RunsInit ==
  /\ run = [r \in Run |-> [state |-> "NONE", scheduled |-> FALSE, old |-> FALSE]]
  /\ queue = {}
  /\ executor = [w \in Executor |-> AtRest]
  /\ scheduler = [s \in Scheduler |-> Unused]
  /\ selected = {} /\ announced = {} /\ prepared = {}
  /\ drops = 0

Drop == drops < MaxDrops /\ drops' = drops + 1

(* A message that is posted, or lost: with the process that should have    *)
(* sent it, or because it arrived before the request that sent it had      *)
(* committed the row.                                                      *)
Dispatch(r) ==
  \/ queue' = queue \cup {r} /\ UNCHANGED drops
  \/ Drop /\ UNCHANGED queue

(***************************************************************************)
(* Scheduling                                                              *)
(***************************************************************************)
Today(kind) == {r \in Of(kind) : run[r].scheduled}

(* A due schedule without a run today.  The discoveries lock the schedule  *)
(* before they read the runs.                                              *)
MutReadSchedule(s, kind) ==
  /\ scheduler[s] = Unused /\ Today(kind) = {}
  /\ scheduler' = [scheduler EXCEPT ![s] = kind]
  /\ UNCHANGED <<run, queue, executor, selected, announced, prepared, drops>>
ReadSchedule(s, kind) ==
  /\ scheduler[s] = Unused /\ Today(kind) = {}
  /\ kind = "DISCOVERY" => \A z \in Scheduler : scheduler[z] # kind
  /\ scheduler' = [scheduler EXCEPT ![s] = kind]
  /\ UNCHANGED <<run, queue, executor, selected, announced, prepared, drops>>

WriteSchedule(s, r) ==
  /\ scheduler[s] = KindOf[r] /\ run[r].state = "NONE"
  /\ run' = [run EXCEPT ![r] = [state |-> "QUEUED", scheduled |-> TRUE, old |-> FALSE]]
  /\ scheduler' = [scheduler EXCEPT ![s] = Unused]
  /\ Dispatch(r)
  /\ UNCHANGED <<executor, selected, announced, prepared>>

Request(r) ==
  /\ run[r].state = "NONE"
  /\ run' = [run EXCEPT ![r].state = "QUEUED"]
  /\ Dispatch(r)
  /\ UNCHANGED <<executor, scheduler, selected, announced, prepared>>

(***************************************************************************)
(* Execution                                                               *)
(***************************************************************************)
Startable(r) == KindOf[r] = "IMPORT" => run[r].state = "QUEUED"

(* A discovery is one transaction: nobody sees it RUNNING.  A second copy  *)
(* of the message may still wait: recoveries post while they see QUEUED.   *)
StartRun(w, r) ==
  /\ r \in queue /\ executor[w] = AtRest
  /\ \/ queue' = queue \ {r}
     \/ KindOf[r] = "IMPORT" /\ UNCHANGED queue
  /\ IF Startable(r)
     THEN /\ executor' = [executor EXCEPT ![w] = [run |-> r]]
          /\ IF KindOf[r] = "DISCOVERY" THEN UNCHANGED run
             ELSE run' = [run EXCEPT ![r].state = "RUNNING", ![r].old = FALSE]
     ELSE UNCHANGED <<run, executor>>
  /\ UNCHANGED <<scheduler, selected, announced, prepared, drops>>

(* The result and, for a cycle over lanes, the selected markets are one    *)
(* commit; only then is the strategy research announced.                   *)
SelectMarkets(r) ==
  /\ KindOf[r] = "CYCLE"
  /\ selected' = selected \cup {r}
  /\ \/ announced' = announced \cup {r} /\ UNCHANGED drops
     \/ Drop /\ UNCHANGED announced

CompleteRun(w) ==
  /\ executor[w] # AtRest
  /\ LET r == executor[w].run IN
     /\ run' = [run EXCEPT ![r].state = "DONE", ![r].old = FALSE]
     /\ SelectMarkets(r) \/ UNCHANGED <<selected, announced, drops>>
  /\ executor' = [executor EXCEPT ![w] = AtRest]
  /\ UNCHANGED <<queue, scheduler, prepared>>

(* A failure is recorded, whatever the row says by now.  A scrape that     *)
(* fails outside the errors it expects is not.                             *)
FailRun(w) ==
  /\ executor[w] # AtRest
  /\ LET r == executor[w].run IN
     \/ run' = [run EXCEPT ![r].state = "FAILED", ![r].old = FALSE]
     \/ KindOf[r] = "SCRAPE" /\ UNCHANGED run
  /\ executor' = [executor EXCEPT ![w] = AtRest]
  /\ UNCHANGED <<queue, scheduler, selected, announced, prepared, drops>>

(* A lost worker's message comes back; that of a task stopped at its hard  *)
(* limit, which only imports have, does not.                               *)
LoseExecutor(w) ==
  /\ executor[w] # AtRest /\ Drop
  /\ \/ queue' = queue \cup {executor[w].run}
     \/ KindOf[executor[w].run] = "IMPORT" /\ UNCHANGED queue
  /\ executor' = [executor EXCEPT ![w] = AtRest]
  /\ UNCHANGED <<run, scheduler, selected, announced, prepared>>

(***************************************************************************)
(* Recovery                                                                *)
(***************************************************************************)
Executes(r) == \E w \in Executor : executor[w] = [run |-> r]

ImportGrowsOld(r) ==
  /\ KindOf[r] = "IMPORT" /\ run[r].state = "RUNNING" /\ ~run[r].old /\ ~Executes(r)
  /\ run' = [run EXCEPT ![r].old = TRUE]
  /\ UNCHANGED <<queue, executor, scheduler, selected, announced, prepared, drops>>

(* Every minute: under the locks of the rows, which an import waits for.   *)
MutRecoverImport(r) ==
  /\ KindOf[r] = "IMPORT" /\ r \notin queue
  /\ run[r].state = "QUEUED"
  /\ queue' = queue \cup {r}
  /\ UNCHANGED <<run, executor, scheduler, selected, announced, prepared, drops>>
RecoverImport(r) ==
  /\ KindOf[r] = "IMPORT" /\ r \notin queue
  /\ run[r].state = "QUEUED" \/ (run[r].state = "RUNNING" /\ run[r].old)
  /\ run' = [run EXCEPT ![r].state = "QUEUED", ![r].old = FALSE]
  /\ queue' = queue \cup {r}
  /\ UNCHANGED <<executor, scheduler, selected, announced, prepared, drops>>

(***************************************************************************)
(* Strategy research for selected markets                                  *)
(***************************************************************************)
(* Under the lock of the cycle, for a cycle that is not under way; the     *)
(* research ids are made from the selections'.                             *)
Prepare(r) ==
  /\ prepared' = IF run[r].state \in {"DONE", "FAILED"} THEN prepared \cup ({r} \cap selected)
                 ELSE prepared
  /\ UNCHANGED <<run, queue, executor, scheduler, selected, drops>>

PrepareAnnounced(r) ==
  /\ r \in announced
  /\ announced' = announced \ {r}
  /\ Prepare(r)

MutPrepareRecent(r) == FALSE /\ UNCHANGED runVars
(* Every minute, for the cycles of the last hours that did not fail.       *)
PrepareRecent(r) ==
  /\ r \in selected \ prepared /\ run[r].state = "DONE"
  /\ UNCHANGED announced
  /\ Prepare(r)

RunsNext ==
  \/ \E s \in Scheduler :
       \/ \E kind \in Kind \ {"IMPORT"} : ReadSchedule(s, kind)
       \/ \E r \in Run : WriteSchedule(s, r)
  \/ \E r \in Run : \/ Request(r) \/ ImportGrowsOld(r) \/ RecoverImport(r)
                    \/ PrepareAnnounced(r) \/ PrepareRecent(r)
  \/ \E w \in Executor :
       \/ CompleteRun(w) \/ FailRun(w) \/ LoseExecutor(w)
       \/ \E r \in Run : StartRun(w, r)

(* Celery hands out every message, tasks end, beat starts the recoveries.  *)
RunsFairness ==
  /\ \A r \in Run : /\ WF_runVars(ImportGrowsOld(r)) /\ WF_runVars(RecoverImport(r))
                    /\ WF_runVars(PrepareRecent(r))
  /\ WF_runVars(\E w \in Executor, r \in Run : StartRun(w, r))
  /\ \A w \in Executor : WF_runVars(CompleteRun(w))

RunsSpec == RunsInit /\ [][RunsNext]_runVars /\ RunsFairness

(***************************************************************************)
(* Properties                                                              *)
(***************************************************************************)
(* Type invariant of the rows and of the tasks that hold them.             *)
RunsTypeOK ==
  /\ run \in [Run -> RunRow]
  /\ queue \subseteq Run
  /\ executor \in [Executor -> {AtRest} \cup [run: Run]]
  /\ scheduler \in [Scheduler -> Kind \cup {Unused}]
  /\ selected \subseteq Run /\ announced \subseteq Run /\ prepared \subseteq Run
  /\ drops \in 0..MaxDrops

(* Scheduling tasks that overlap, after an outage say, create one video    *)
(* discovery for the day, and so one set of paid searches.                 *)
OneDiscoveryADay == Cardinality(Today("DISCOVERY")) <= 1

(* A requested import settles, although its message or its worker is lost. *)
ImportSettles ==
  \A r \in Of("IMPORT") : run[r].state = "QUEUED" ~> run[r].state \in {"DONE", "FAILED"}

(* Strategy research only ever starts for selected markets, and does start *)
(* for them although the announcement is lost, unless the cycle was run    *)
(* again and failed.                                                       *)
SelectionIsResearched ==
  \A r \in Of("CYCLE") : r \in selected ~> r \in prepared \/ run[r].state = "FAILED"
=============================================================================
