----------------------------- MODULE MCPlatform -----------------------------
(***************************************************************************)
(* Instances of the platform's components for TLC.                         *)
(*                                                                         *)
(* The components below share the database and the message broker but no   *)
(* row and no message, so their product would only multiply states.  The   *)
(* run checks their sum: a behaviour chooses one part in its first state,  *)
(* and only that component takes steps.  Background runs are split once    *)
(* more, by the rows that can meet.                                        *)
(***************************************************************************)
EXTENDS StrategyVersions, StrategyDrafts, Journal, Notifications, BackgroundRuns,
        Accounts, Connections, Knowledge, AgentCalls, BrokerFeed, ResearchWorkflow, ForwardPaper, MCRiskAuthority

CONSTANTS
  Part,  \* the parts that take steps in this instance
  draft1, print1, cycle1, discovery1, discovery2, import1, scrape1

VARIABLE part

OnePrint == [d \in Draft |-> print1]
MCKindOf ==
  cycle1 :> "CYCLE" @@ discovery1 :> "DISCOVERY" @@ discovery2 :> "DISCOVERY"
    @@ import1 :> "IMPORT" @@ scrape1 :> "SCRAPE"

Meeting ==
  [cycles |-> {cycle1, import1}, discoveries |-> {discovery1, discovery2},
   scrapes |-> {discovery2, scrape1}]

(* Two forex lanes with a pair in common: EURUSDm and GBPUSD, EURUSDx and  *)
(* USDCHF, numbered in this order; a suffix hides a pair's currencies.     *)
TwoLanes == <<2, 1>>
MCSymbolsOf == 1 :> {1, 2} @@ 2 :> {3, 4}
MCUnderlying == 1 :> "EURUSD" @@ 2 :> "GBPUSD" @@ 3 :> "EURUSD" @@ 4 :> "USDCHF"
MCExposure == 1 :> {} @@ 2 :> {"GBP+", "USD-"} @@ 3 :> {} @@ 4 :> {"USD-", "CHF+"}
MCOffer == {-3, 2}

TwoStreams == [s \in Stream |-> IF s = "snapshot" THEN 2 ELSE 1]
OneStream == [s \in Stream |-> 2]

(* Candles around 10: one that reaches the first target, one that reaches  *)
(* both the stop and the target, and one that opens below the stop.        *)
OHLC(o, h, l, c, calls, exits) ==
  [open |-> o, high |-> h, low |-> l, close |-> c, calls |-> calls, exits |-> exits]
MCCandle ==
  {OHLC(10, 14, 9, 13, TRUE, TRUE), OHLC(10, 14, 8, 9, FALSE, FALSE),
   OHLC(7, 10, 6, 9, TRUE, FALSE)}
TwoTargets == <<2, 6>>

platformVars == <<part, versionVars, draftVars, journalVars, notificationVars, runVars,
                  accountVars, configVars, knowledgeVars, agentVars, feedVars, cycleVars,
                  riskVars, paperVars>>

PlatformInit ==
  /\ part \in Part
  /\ VersionInit /\ DraftsInit /\ JournalInit /\ NotificationsInit /\ RunsInit
  /\ AccountsInit /\ ConnectionsInit /\ KnowledgeInit /\ AgentCallsInit
  /\ FeedInit /\ WorkflowInit /\ RiskInit /\ PaperInit
  /\ part # "accounts" => verification
  /\ part # "drafts" => policy
  /\ part # "feed" => ~listed
  /\ part # "research" => byLane
  /\ part # "risk" => rules = CoreRules
  /\ market[0] = OHLC(7, 10, 6, 9, TRUE, FALSE)

Versions ==
  /\ part = "versions" /\ VersionNext
  /\ UNCHANGED <<draftVars, journalVars, notificationVars, runVars,
                 accountVars, configVars, knowledgeVars, agentVars, feedVars, cycleVars,
                 riskVars, paperVars>>
Drafts ==
  /\ part = "drafts" /\ DraftsNext
  /\ UNCHANGED <<versionVars, journalVars, notificationVars, runVars,
                 accountVars, configVars, knowledgeVars, agentVars, feedVars, cycleVars,
                 riskVars, paperVars>>
Journaling ==
  /\ part = "journal" /\ JournalNext
  /\ UNCHANGED <<versionVars, draftVars, notificationVars, runVars,
                 accountVars, configVars, knowledgeVars, agentVars, feedVars, cycleVars,
                 riskVars, paperVars>>
Notifying ==
  /\ part = "notifications" /\ NotificationsNext
  /\ UNCHANGED <<versionVars, draftVars, journalVars, runVars,
                 accountVars, configVars, knowledgeVars, agentVars, feedVars, cycleVars,
                 riskVars, paperVars>>
Running ==
  /\ part \in DOMAIN Meeting /\ RunsNext
  /\ \A r \in Run \ Meeting[part] : run'[r] = run[r]
  /\ UNCHANGED <<versionVars, draftVars, journalVars, notificationVars,
                 accountVars, configVars, knowledgeVars, agentVars, feedVars, cycleVars,
                 riskVars, paperVars>>
Entering ==
  /\ part = "accounts" /\ AccountsNext
  /\ UNCHANGED <<versionVars, draftVars, journalVars, notificationVars, runVars,
                 configVars, knowledgeVars, agentVars, feedVars, cycleVars,
                 riskVars, paperVars>>
Configuring ==
  /\ part = "connections" /\ ConnectionsNext
  /\ UNCHANGED <<versionVars, draftVars, journalVars, notificationVars, runVars,
                 accountVars, knowledgeVars, agentVars, feedVars, cycleVars,
                 riskVars, paperVars>>
Learning ==
  /\ part = "knowledge" /\ KnowledgeNext
  /\ UNCHANGED <<versionVars, draftVars, journalVars, notificationVars, runVars,
                 accountVars, configVars, agentVars, feedVars, cycleVars,
                 riskVars, paperVars>>
Calling ==
  /\ part = "agents" /\ AgentCallsNext
  /\ UNCHANGED <<versionVars, draftVars, journalVars, notificationVars, runVars,
                 accountVars, configVars, knowledgeVars, feedVars, cycleVars,
                 riskVars, paperVars>>

Feeding ==
  /\ part = "feed" /\ FeedNext
  /\ UNCHANGED <<versionVars, draftVars, journalVars, notificationVars, runVars,
                 accountVars, configVars, knowledgeVars, agentVars, cycleVars,
                 riskVars, paperVars>>
Researching ==
  /\ part = "research" /\ WorkflowNext
  /\ UNCHANGED <<versionVars, draftVars, journalVars, notificationVars, runVars,
                 accountVars, configVars, knowledgeVars, agentVars, feedVars,
                 riskVars, paperVars>>
Risking ==
  /\ part = "risk" /\ RiskNext
  /\ UNCHANGED <<versionVars, draftVars, journalVars, notificationVars, runVars,
                 accountVars, configVars, knowledgeVars, agentVars, feedVars, cycleVars,
                 paperVars>>
Papering ==
  /\ part = "paper" /\ PaperNext
  /\ UNCHANGED <<versionVars, draftVars, journalVars, notificationVars, runVars,
                 accountVars, configVars, knowledgeVars, agentVars, feedVars, cycleVars,
                 riskVars>>

PlatformNext ==
  /\ UNCHANGED part
  /\ \/ Versions \/ Drafts \/ Journaling \/ Notifying \/ Running
     \/ Entering \/ Configuring \/ Learning \/ Calling \/ Feeding \/ Researching
     \/ Risking \/ Papering

PlatformSteps == PlatformInit /\ [][PlatformNext]_platformVars

(* No fair action is enabled in the first state of its component, so the   *)
(* fairness of the parts that rest asks for nothing.                       *)
PlatformSpec ==
  /\ PlatformSteps
  /\ VersionFairness /\ DraftsFairness /\ JournalFairness /\ NotificationsFairness
  /\ RunsFairness /\ AccountsFairness /\ FeedFairness
=============================================================================
