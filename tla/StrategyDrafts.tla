--------------------------- MODULE StrategyDrafts ---------------------------
(***************************************************************************)
(* From a market selection to strategy versions: the research runs of      *)
(* apps/worker/app/tasks/strategies.py, the drafts they propose, the       *)
(* decisions of apps/api/app/routes/strategies.py and the automation that  *)
(* may decide in the owner's place (strategy_autonomy.py).                 *)
(*                                                                         *)
(* Research is a Celery task of several transactions.  A decision, a       *)
(* revision and a submission read the draft without a lock and write its   *)
(* whole data back at the end of the request; a submission calls the       *)
(* embedding provider in between.  The automation locks the draft it       *)
(* advances, submits it and queues its backtest in one transaction.        *)
(*                                                                         *)
(* A specification is reduced to its canonical fingerprint.  A run is old  *)
(* when it has been RESEARCHING for the fifteen minutes the recovery       *)
(* waits; the task's hard limit is ten.                                    *)
(***************************************************************************)
EXTENDS Integers, FiniteSets

CONSTANTS
  MarketDraft,   \* drafts queued for the top pairs of a market run
  UserDraft,     \* drafts queued by a user
  Alternative,   \* library candidates a finished run adds
  Fingerprint,   \* canonical identities of specifications
  Proposal,      \* the identity each draft's research proposes
  VersionId,     \* bound: strategy_version rows
  Researcher,    \* worker processes
  Client,        \* concurrent requests and automation tasks
  MaxLost,       \* bound: research tasks stopped or lost
  NoPrint, NoVersion

Researched == MarketDraft \cup UserDraft
Draft == Researched \cup Alternative

ASSUME DraftAssumption ==
  /\ Proposal \in [Draft -> Fingerprint] /\ NoPrint \notin Fingerprint
  /\ NoVersion \notin VersionId
  /\ MarketDraft \cap UserDraft = {} /\ Researched \cap Alternative = {}
  /\ "NONE" \notin Researched
ASSUME LostAssumption == MaxLost \in Nat

VARIABLES
  research,    \* strategy_research_run rows, one per researched draft
  draft,       \* strategy_draft rows
  strategy,    \* strategy_version rows
  asked,       \* research runs whose dispatch message waits in the broker
  researcher,  \* the research run each worker executes, and how far it is
  request,     \* the open request or automation task of each client
  policy,      \* the account's automation policy is enabled
  lost         \* research tasks lost so far

draftVars == <<research, draft, strategy, asked, researcher, request, policy, lost>>

Settled == {"AWAITING_STRATEGY_APPROVAL", "NO_QUALIFYING_STRATEGY", "DEGRADED"}
ResearchRow == [state: {"NONE", "QUEUED", "RESEARCHING"} \cup Settled, old: BOOLEAN]
Decided == {"DRAFT", "SPECIFIED", "REJECTED"}
DraftData == [approval: {"NONE", "HUMAN", "POLICY", "REJECTED"},
              print: Fingerprint \cup {NoPrint}, version: VersionId \cup {NoVersion}]
DraftRow == [state: {"NONE", "QUEUED", "RESEARCHING"} \cup Settled \cup Decided, data: DraftData]
NoData == [approval |-> "NONE", print |-> NoPrint, version |-> NoVersion]
Identity == Fingerprint \cup {NoPrint}  \* of a version; NoPrint: no row yet

NoRequest == [kind |-> "NONE"]
DraftRequest == [kind: {"DECIDE", "SAVE", "SUBMIT", "ADVANCE"}, draft: Draft, data: DraftData]
Asleep == [run |-> "NONE", stage |-> "NONE"]
Awake(d, stage) == [run |-> d, stage |-> stage]

(* The automation holds the row of the draft it advances.                  *)
RowFree(d) == \A c \in Client : ~(request[c].kind = "ADVANCE" /\ request[c].draft = d)
Works(w, d) == researcher[w].run = d
Working(d) == \E w \in Researcher : Works(w, d)

DraftsInit ==
  /\ research = [d \in Researched |-> [state |-> "NONE", old |-> FALSE]]
  /\ draft = [d \in Draft |-> [state |-> "NONE", data |-> NoData]]
  /\ strategy = [v \in VersionId |-> NoPrint]
  /\ asked = {}
  /\ researcher = [w \in Researcher |-> Asleep]
  /\ request = [c \in Client |-> NoRequest]
  /\ policy \in BOOLEAN
  /\ lost = 0

(***************************************************************************)
(* Research                                                                *)
(***************************************************************************)
(* POST drafts, or the preparation of a market run: stable ids make the    *)
(* second preparation of a selection find the first one's rows.            *)
QueueResearch(d) ==
  /\ research[d].state = "NONE"
  /\ research' = [research EXCEPT ![d].state = "QUEUED"]
  /\ draft' = [draft EXCEPT ![d].state = "QUEUED"]
  /\ asked' \in {asked, asked \cup {d}}  \* the process may die before it dispatches
  /\ UNCHANGED <<strategy, researcher, request, policy, lost>>

(* Every minute the preparation runs again for recent market runs, and     *)
(* only for them: it queues the overdue research and dispatches what is    *)
(* queued.                                                                 *)
MutResumeResearch(d) ==
  /\ d \in MarketDraft /\ research[d].state = "QUEUED" /\ d \notin asked
  /\ asked' = asked \cup {d}
  /\ UNCHANGED <<research, draft, strategy, researcher, request, policy, lost>>
ResumeResearch(d) ==
  /\ d \in MarketDraft
  /\ \/ research[d].state = "RESEARCHING" /\ research[d].old
     \/ research[d].state = "QUEUED" /\ d \notin asked
  /\ research' = [research EXCEPT ![d] = [state |-> "QUEUED", old |-> FALSE]]
  /\ asked' = asked \cup {d}
  /\ UNCHANGED <<draft, strategy, researcher, request, policy, lost>>

(* A second copy of the message may still wait: it is sent every minute.   *)
StartResearch(w, d) ==
  /\ d \in asked /\ researcher[w] = Asleep
  /\ asked' \in {asked, asked \ {d}}
  /\ IF research[d].state = "QUEUED"
     THEN /\ research' = [research EXCEPT ![d] = [state |-> "RESEARCHING", old |-> FALSE]]
          /\ draft' = [draft EXCEPT ![d].state = "RESEARCHING"]
          /\ researcher' = [researcher EXCEPT ![w] = Awake(d, "STARTED")]
     ELSE UNCHANGED <<research, draft, researcher>>
  /\ UNCHANGED <<strategy, request, policy, lost>>

(* What the run was pinned to is read, and the provider asked for candles; *)
(* nothing is written until both are there.                                *)
CollectEvidence(w, d) ==
  /\ researcher[w] = Awake(d, "STARTED")
  /\ researcher' = [researcher EXCEPT ![w] = Awake(d, "COLLECTED")]
  /\ UNCHANGED <<research, draft, strategy, asked, request, policy, lost>>

(* The evidence is stored half way; the run, read without a lock, is set   *)
(* to RESEARCHING again.                                                   *)
AttachEvidence(w, d) ==
  /\ researcher[w] = Awake(d, "COLLECTED")
  /\ researcher' = [researcher EXCEPT ![w] = Awake(d, "ATTACHED")]
  /\ research' = [research EXCEPT ![d].state = "RESEARCHING"]
  /\ UNCHANGED <<draft, strategy, asked, request, policy, lost>>

(* The last transaction writes run and draft whatever they are by then.    *)
Conclude(w, d, state) ==
  /\ Works(w, d) /\ RowFree(d)
  /\ researcher' = [researcher EXCEPT ![w] = Asleep]
  /\ research' = [research EXCEPT ![d] = [state |-> state, old |-> FALSE]]
  /\ UNCHANGED <<strategy, asked, request, policy, lost>>

Propose(w, d) ==
  /\ Conclude(w, d, "AWAITING_STRATEGY_APPROVAL") /\ researcher[w].stage = "ATTACHED"
  /\ \E extra \in SUBSET Alternative :
       draft' = [x \in Draft |->
         IF x = d THEN [draft[d] EXCEPT !.state = "AWAITING_STRATEGY_APPROVAL"]
         ELSE IF x \in extra /\ draft[x].state = "NONE"
              THEN [state |-> "AWAITING_STRATEGY_APPROVAL", data |-> draft[d].data]
              ELSE draft[x]]

ProposeNothing(w, d) ==
  /\ Conclude(w, d, "NO_QUALIFYING_STRATEGY") /\ researcher[w].stage = "ATTACHED"
  /\ draft' = [draft EXCEPT ![d].state = "NO_QUALIFYING_STRATEGY"]

MutFailResearch(w, d) ==
  /\ Conclude(w, d, "DEGRADED")
  /\ UNCHANGED draft
FailResearch(w, d) ==
  /\ Conclude(w, d, "DEGRADED")
  /\ draft' = [draft EXCEPT ![d].state = "DEGRADED"]

(* A lost worker's message comes back and finds the run RESEARCHING.       *)
LoseResearcher(w) ==
  /\ lost < MaxLost /\ researcher[w] # Asleep
  /\ lost' = lost + 1
  /\ researcher' = [researcher EXCEPT ![w] = Asleep]
  /\ asked' \in {asked, asked \cup {researcher[w].run}}
  /\ UNCHANGED <<research, draft, strategy, request, policy>>

MutResearchOverdue(d) == research[d].state = "RESEARCHING"
ResearchOverdue(d) == research[d].state = "RESEARCHING" /\ ~Working(d)

ResearchGrowsOld(d) ==
  /\ ResearchOverdue(d) /\ ~research[d].old
  /\ research' = [research EXCEPT ![d].old = TRUE]
  /\ UNCHANGED <<draft, strategy, asked, researcher, request, policy, lost>>

(***************************************************************************)
(* Decisions on drafts                                                     *)
(***************************************************************************)
Open(c, kind, d) ==
  /\ request[c] = NoRequest
  /\ request' = [request EXCEPT ![c] = [kind |-> kind, draft |-> d, data |-> draft[d].data]]
  /\ UNCHANGED <<research, draft, strategy, asked, researcher, policy, lost>>

Close(c) ==
  /\ request' = [request EXCEPT ![c] = NoRequest]
  /\ UNCHANGED <<research, asked, researcher, policy, lost>>

ReadToDecide(c, d) == draft[d].state = "AWAITING_STRATEGY_APPROVAL" /\ Open(c, "DECIDE", d)

Decide(c) ==
  LET d == request[c].draft IN
  /\ request[c].kind = "DECIDE" /\ RowFree(d)
  /\ \/ draft' = [draft EXCEPT ![d] = [state |-> "REJECTED",
                    data |-> [request[c].data EXCEPT !.approval = "REJECTED"]]]
     \/ draft' = [draft EXCEPT ![d] = [state |-> "DRAFT",
                    data |-> [request[c].data EXCEPT !.approval = "HUMAN", !.print = Proposal[d]]]]
  /\ Close(c) /\ UNCHANGED strategy

ReadToSave(c, d) == draft[d].state \in {"DRAFT", "SPECIFIED"} /\ Open(c, "SAVE", d)

(* A revision leaves the state column alone.                               *)
Save(c) ==
  LET d == request[c].draft IN
  /\ request[c].kind = "SAVE" /\ RowFree(d)
  /\ \E f \in Fingerprint :
       draft' = [draft EXCEPT ![d].data = [request[c].data EXCEPT !.print = f]]
  /\ Close(c) /\ UNCHANGED strategy

Known(f) == \E v \in VersionId : strategy[v] = f
MayBecomeVersion(data) ==
  /\ data.print # NoPrint /\ ~Known(data.print)
  /\ data.approval = "HUMAN" \/ (data.approval = "POLICY" /\ policy)

ReadToSubmit(c, d) == MayBecomeVersion(draft[d].data) /\ Open(c, "SUBMIT", d)

AddVersion(d, data) ==
  \E v \in VersionId :
    /\ strategy[v] = NoPrint
    /\ strategy' = [strategy EXCEPT ![v] = data.print]
    /\ draft' = [draft EXCEPT ![d] = [state |-> "SPECIFIED", data |-> [data EXCEPT !.version = v]]]

Submit(c) ==
  /\ request[c].kind = "SUBMIT" /\ RowFree(request[c].draft)
  /\ AddVersion(request[c].draft, request[c].data)
  /\ Close(c)

(* The automation accepts, submits and queues the backtest together, or    *)
(* leaves the draft as it was with the failure noted on it (until the      *)
(* policy is saved again the scheduler passes over such a draft).          *)
ReadToAdvance(c, d) ==
  /\ draft[d].state = "AWAITING_STRATEGY_APPROVAL" /\ policy /\ RowFree(d)
  /\ ~Known(Proposal[d])
  /\ Open(c, "ADVANCE", d)

Advance(c) ==
  LET d == request[c].draft
      accepted == [request[c].data EXCEPT !.approval = "POLICY", !.print = Proposal[d]]
  IN /\ request[c].kind = "ADVANCE"
     /\ AddVersion(d, accepted) \/ UNCHANGED <<draft, strategy>>
     /\ Close(c)

SavePolicy ==
  /\ policy' = ~policy
  /\ UNCHANGED <<research, draft, strategy, asked, researcher, request, lost>>

DraftsNext ==
  \/ \E d \in Researched : QueueResearch(d) \/ ResumeResearch(d) \/ ResearchGrowsOld(d)
  \/ \E w \in Researcher :
       \/ LoseResearcher(w)
       \/ \E d \in Researched : \/ StartResearch(w, d) \/ CollectEvidence(w, d) \/ AttachEvidence(w, d)
                                \/ Propose(w, d) \/ ProposeNothing(w, d) \/ FailResearch(w, d)
  \/ \E c \in Client :
       \/ Decide(c) \/ Save(c) \/ Submit(c) \/ Advance(c)
       \/ \E d \in Draft : ReadToDecide(c, d) \/ ReadToSave(c, d) \/ ReadToSubmit(c, d)
                           \/ ReadToAdvance(c, d)
  \/ SavePolicy

(* The broker hands out every message, tasks end, beat runs the            *)
(* preparation every minute; a person may never decide.                    *)
DraftsFairness ==
  /\ \A d \in Researched :
       /\ WF_draftVars(ResumeResearch(d)) /\ WF_draftVars(ResearchGrowsOld(d))
       /\ WF_draftVars(\E w \in Researcher : StartResearch(w, d))
       /\ \A w \in Researcher : /\ WF_draftVars(CollectEvidence(w, d))
                                /\ WF_draftVars(AttachEvidence(w, d))
                                /\ WF_draftVars(Propose(w, d))
  /\ \A c \in Client : WF_draftVars(Advance(c))

DraftsSpec == DraftsInit /\ [][DraftsNext]_draftVars /\ DraftsFairness

(***************************************************************************)
(* Properties                                                              *)
(***************************************************************************)
(* Type invariant of the runs, the drafts, the versions and the copies the *)
(* open requests hold.                                                     *)
DraftsTypeOK ==
  /\ research \in [Researched -> ResearchRow]
  /\ draft \in [Draft -> DraftRow]
  /\ strategy \in [VersionId -> Identity]
  /\ asked \subseteq Researched
  /\ researcher \in [Researcher -> {Asleep} \cup
                                  [run: Researched, stage: {"STARTED", "COLLECTED", "ATTACHED"}]]
  /\ request \in [Client -> {NoRequest} \cup DraftRequest]
  /\ policy \in BOOLEAN
  /\ lost \in 0..MaxLost

(* Research and draft tell one story: a draft waits for research that is   *)
(* still to come, and once the research settled the draft says how, or     *)
(* carries a decision about the proposal.                                  *)
DraftFollowsResearch ==
  \A d \in Researched :
    /\ draft[d].state \in {"QUEUED", "RESEARCHING"} =>
         research[d].state \in {"QUEUED", "RESEARCHING"}
    /\ research[d].state \in Settled =>
         \/ draft[d].state = research[d].state
         \/ research[d].state = "AWAITING_STRATEGY_APPROVAL" /\ draft[d].state \in Decided

(* What was decided about a draft is not undone by research: not by a      *)
(* duplicate delivery, a recovered run or a late failure.                  *)
DecisionStands ==
  [][\A d \in Draft : draft[d].state \in Decided => draft'[d].state \in Decided]_draftVars

(* Research queued for a top pair settles, although its message was lost   *)
(* or its worker was.                                                      *)
MarketResearchSettles ==
  \A d \in MarketDraft : research[d].state = "QUEUED" ~> research[d].state \in Settled
=============================================================================
