------------------------------ MODULE Journal ------------------------------
(***************************************************************************)
(* The trade journal of apps/worker/app/tasks/operations.py: the material  *)
(* audit events that other transactions commit, their projection to        *)
(* journal entries, the terminal summary of a closed trade, and the        *)
(* indexing of entries and summaries as knowledge sources.                 *)
(*                                                                         *)
(* Beat starts the projection every five seconds and the indexing every    *)
(* ten, so either may run in several workers at once.  A projection reads  *)
(* the oldest events once and then journals what was missing, event by     *)
(* event, each in a transaction of its own; an indexing run locks its      *)
(* requests and commits them together.                                     *)
(*                                                                         *)
(* Ids are made from the event or the trade, so that two transactions that *)
(* journal one event collide and one of them is rolled back.               *)
(***************************************************************************)
EXTENDS Integers, FiniteSets, Sequences

CONSTANTS
  Trade,      \* trades whose events are journaled
  Projector,  \* projection tasks that may run at the same time
  Indexer,    \* indexing tasks that may run at the same time
  Batch,      \* events a projection journals, requests an indexing takes
  Factor,     \* a projection looks at the Factor * Batch oldest events (4)
  MaxEvents,  \* bound: material events
  MaxFails,   \* bound: tasks stopped, or refused by the embedding provider
  NoTrade     \* the event is not about a trade

ASSUME JournalAssumption ==
  /\ Batch \in Nat \ {0} /\ Factor \in Nat /\ MaxEvents \in Nat /\ MaxFails \in Nat
  /\ NoTrade \notin Trade

VARIABLES
  log,        \* material audit events in the order they were recorded
  journaled,  \* events that have a journal entry
  summary,    \* the events the summary of each trade lists
  indexRequest,  \* documents whose index request is not published
  source,     \* documents that are knowledge sources (INDEXED)
  projector,  \* the events each running projection has still to journal
  indexer,    \* the documents each running indexing holds locked
  fails       \* failed tasks so far

journalVars == <<log, journaled, summary, indexRequest, source, projector, indexer, fails>>

EventOf == [trade: Trade \cup {NoTrade}, closed: BOOLEAN]
EventId == 1..MaxEvents
Document == EventId \cup Trade  \* the entry of an event, the summary of a trade
OfTrade(t) == {e \in DOMAIN log : log[e].trade = t}

JournalInit ==
  /\ log = <<>>
  /\ journaled = {}
  /\ summary = [t \in Trade |-> {}]
  /\ indexRequest = {}
  /\ source = {}
  /\ projector = [p \in Projector |-> {}]
  /\ indexer = [x \in Indexer |-> {}]
  /\ fails = 0

(* Another part commits an event.  A trade that was closed stays closed.   *)
Record(event) ==
  /\ Len(log) < MaxEvents
  /\ event.trade = NoTrade => ~event.closed
  /\ (\E e \in OfTrade(event.trade) : log[e].closed) => event.closed
  /\ log' = Append(log, event)
  /\ UNCHANGED <<journaled, summary, indexRequest, source, projector, indexer, fails>>

(***************************************************************************)
(* Projection                                                              *)
(***************************************************************************)
Oldest == {e \in DOMAIN log : e <= Factor * Batch}

MutPending == {e \in DOMAIN log : e <= Batch} \ journaled
MutPendingNewest == {e \in Oldest \ journaled :
                       Cardinality({d \in Oldest \ journaled : d > e}) < Batch}
Pending == {e \in Oldest \ journaled :
              Cardinality({d \in Oldest \ journaled : d < e}) < Batch}

SelectPending(p) ==
  /\ projector[p] = {} /\ Pending # {}
  /\ projector' = [projector EXCEPT ![p] = Pending]
  /\ UNCHANGED <<log, journaled, summary, indexRequest, source, indexer, fails>>

(* A batch is journaled oldest first.                                      *)
NextOf(p) == {e \in projector[p] : \A d \in projector[p] : e <= d}

(* An entry and its index request; the first closing event of a trade also *)
(* brings the summary of all entries the trade has.  An event that has its *)
(* entry is passed over.                                                   *)
Project(p) ==
  /\ \E e \in NextOf(p) :
       /\ projector' = [projector EXCEPT ![p] = @ \ {e}]
       /\ LET t == log[e].trade
              closes == log[e].closed /\ summary[t] = {}
          IN IF e \in journaled THEN UNCHANGED <<journaled, summary, indexRequest>>
             ELSE /\ journaled' = journaled \cup {e}
                  /\ summary' = IF closes THEN [summary EXCEPT ![t] = OfTrade(t) \cap journaled']
                                ELSE summary
                  /\ indexRequest' = indexRequest \cup {e} \cup (IF closes THEN {t} ELSE {})
  /\ UNCHANGED <<log, source, indexer, fails>>

(* The rest of the batch is lost with the task: another projection has     *)
(* just journaled the event, or the worker is stopped.                     *)
AbandonProjection(p) ==
  /\ projector[p] # {}
  /\ \/ NextOf(p) \subseteq journaled /\ UNCHANGED fails
     \/ fails < MaxFails /\ fails' = fails + 1
  /\ projector' = [projector EXCEPT ![p] = {}]
  /\ UNCHANGED <<log, journaled, summary, indexRequest, source, indexer>>

(***************************************************************************)
(* Indexing                                                                *)
(***************************************************************************)
Locked == UNION {indexer[x] : x \in Indexer}

(* Any batch of requests nobody has locked: the query names no order.      *)
LockRequests(x) ==
  /\ indexer[x] = {}
  /\ \E batch \in SUBSET (indexRequest \ Locked) :
       /\ Cardinality(batch) \in 1..Batch
       /\ indexer' = [indexer EXCEPT ![x] = batch]
  /\ UNCHANGED <<log, journaled, summary, indexRequest, source, projector, fails>>

CommitIndex(x) ==
  /\ indexer[x] # {}
  /\ source' = source \cup indexer[x]
  /\ indexRequest' = indexRequest \ indexer[x]
  /\ indexer' = [indexer EXCEPT ![x] = {}]
  /\ UNCHANGED <<log, journaled, summary, projector, fails>>

(* The embedding provider refused one of them: none is indexed.            *)
RollBackIndex(x) ==
  /\ indexer[x] # {} /\ fails < MaxFails
  /\ fails' = fails + 1
  /\ indexer' = [indexer EXCEPT ![x] = {}]
  /\ UNCHANGED <<log, journaled, summary, indexRequest, source, projector>>

JournalNext ==
  \/ \E event \in EventOf : Record(event)
  \/ \E p \in Projector : SelectPending(p) \/ Project(p) \/ AbandonProjection(p)
  \/ \E x \in Indexer : LockRequests(x) \/ CommitIndex(x) \/ RollBackIndex(x)

(* Beat starts both tasks again and again; a task that is not stopped goes *)
(* on to its end.                                                          *)
JournalFairness ==
  /\ \A p \in Projector : WF_journalVars(SelectPending(p)) /\ WF_journalVars(Project(p))
  /\ \A x \in Indexer : WF_journalVars(LockRequests(x)) /\ WF_journalVars(CommitIndex(x))

JournalSpec == JournalInit /\ [][JournalNext]_journalVars /\ JournalFairness

(***************************************************************************)
(* Properties                                                              *)
(***************************************************************************)
(* Type invariant of the journal and of the tasks that work on it.         *)
JournalTypeOK ==
  /\ log \in Seq(EventOf) /\ Len(log) <= MaxEvents
  /\ journaled \subseteq DOMAIN log
  /\ summary \in [Trade -> SUBSET DOMAIN log]
  /\ indexRequest \subseteq Document /\ source \subseteq Document
  /\ projector \in [Projector -> SUBSET DOMAIN log]
  /\ indexer \in [Indexer -> SUBSET Document]
  /\ fails \in 0..MaxFails

(* The summary of a trade lists everything up to the event that closed it, *)
(* although overlapping projections are abandoned half way and batches are *)
(* cut between the events of one trade.                                    *)
SummaryCoversTrade ==
  \A t \in Trade : summary[t] # {} =>
    /\ \E e \in summary[t] : log[e].closed
    /\ \A e \in summary[t] : \A d \in OfTrade(t) : d < e => d \in summary[t]

(* Every material event that was recorded is journaled: what spec.md asks  *)
(* of 100% of them.                                                        *)
EventsAreJournaled == \A e \in EventId : e \in DOMAIN log ~> e \in journaled

(* ... and becomes searchable once the embedding provider answers.         *)
EventsBecomeSearchable == \A e \in EventId : e \in DOMAIN log ~> e \in source
=============================================================================
