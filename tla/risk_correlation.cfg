SPECIFICATION RiskSpec
CONSTANTS
  idea1 = idea1
  idea2 = idea2
  Idea = {idea1, idea2}
  FiledUnder <- MCFiledUnder
  UnitLoss <- MCUnitLoss
  MaxLots <- MCMaxLots
  Starting = 100
  RuleSets <- MCRuleSets
  Gains = {3}
PROPERTIES CorrelatedWithinLimit
CHECK_DEADLOCK FALSE
