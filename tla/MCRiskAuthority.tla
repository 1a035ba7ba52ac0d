--------------------------- MODULE MCRiskAuthority ---------------------------
(***************************************************************************)
(* Two forex plans under three sets of rules.  Positions are filed under   *)
(* the lower-case category, a queued plan under its asset class.           *)
(***************************************************************************)
EXTENDS RiskAuthority, TLC

CONSTANTS idea1, idea2

MCFiledUnder == [i \in Idea |-> [position |-> "forex", build |-> "forex", queue |-> "FOREX"]]
MCUnitLoss == idea1 :> 2 @@ idea2 :> 3
MCMaxLots == [i \in Idea |-> 3]

Rule(kind, value, hard) == [kind |-> kind, value |-> value, hard |-> hard]
CoreRules ==
  {Rule("TOTAL_DRAWDOWN", 12, TRUE), Rule("DAILY_LOSS", 8, TRUE),
   Rule("PORTFOLIO_RISK", 10, TRUE), Rule("PORTFOLIO_RISK", 8, FALSE),
   Rule("RISK_PER_TRADE", 7, TRUE)}
MCRuleSets ==
  {CoreRules, CoreRules \cup {Rule("CORRELATED_RISK", 8, TRUE)},
   CoreRules \cup {Rule("CONCURRENT_TRADES", 1, TRUE)}}
=============================================================================
