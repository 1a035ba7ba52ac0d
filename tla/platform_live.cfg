SPECIFICATION PlatformSpec
CONSTANTS
  Part = {"versions", "drafts", "journal", "notifications", "accounts", "feed",
          "cycles", "discoveries", "scrapes"}
  draft1 = draft1
  print1 = print1
  cycle1 = cycle1
  discovery1 = discovery1
  discovery2 = discovery2
  import1 = import1
  scrape1 = scrape1
  Backtest = {b1, b2}
  Paper = {s1}
  Pool = {w1, w2}
  Recoverer = {r1}
  MaxAttempts = 1
  MaxKills = 1
  MaxPlans = 1
  NoRow = NoRow
  MarketDraft = {draft1}
  UserDraft = {}
  Alternative = {alt1}
  Fingerprint = {print1}
  Proposal <- OnePrint
  VersionId = {v1, v2}
  Researcher = {w1, w2}
  Client = {c1}
  MaxLost = 1
  NoPrint = NoPrint
  NoVersion = NoVersion
  Trade = {t1}
  Projector = {p1}
  Indexer = {x1}
  Batch = 2
  Factor = 2
  MaxEvents = 3
  MaxFails = 1
  NoTrade = NoTrade
  Notification = {n1, n2}
  Drain = {d1}
  Deliverer = {w1}
  MaxLosses = 1
  Run = {cycle1, discovery1, discovery2, import1, scrape1}
  KindOf <- MCKindOf
  Scheduler = {s1, s2}
  Executor = {w1, w2}
  MaxDrops = 1
  Browser = {b1, b2}
  MaxHeld = 1
  MaxMishaps = 2
  Connection = {con1}
  Binding = {bind1, bind2}
  Suggestion = {sug1, sug2}
  Applier = {w1, w2}
  Tester = {w1}
  MaxEdits = 5
  Video = {v1}
  Key = {k1, k2}
  Search = {q1, q2}
  Finder = {w1, w2}
  Fetcher = {w1, w2}
  MaxChanges = 3
  Call = {c1, c2}
  MaxRequests = 6
  MaxFaults = 2
  Stream = {"snapshot"}
  MaxSequence <- OneStream
  MaxHiccups = 1
  NoMessage = NoMessage
  MaxEaRuns = 2
  Requested <- TwoLanes
  SymbolsOf <- MCSymbolsOf
  Underlying <- MCUnderlying
  Exposure <- MCExposure
  Base = {2, 18}
  Offer <- MCOffer
  Analysts = 2
  Category = {"FOREX", "METALS"}
  idea1 = idea1
  idea2 = idea2
  Idea = {idea1, idea2}
  FiledUnder <- MCFiledUnder
  UnitLoss <- MCUnitLoss
  MaxLots <- MCMaxLots
  Starting = 100
  RuleSets <- MCRuleSets
  Gains = {3}
  Candle <- MCCandle
  Sign = 1
  Distance = 2
  Targets <- TwoTargets
  Slippage = 0
  Costs = 1
  ToBreakEven = TRUE
  Trailing = FALSE
  MaxLoss = 3
  MinTrades = 1
  Shut = {3}
  WarmUp = 1
  Window = 2
  Duration = 3
  MaxBar = 5
PROPERTIES BacktestDecided MarketResearchSettles EventsBecomeSearchable NotificationIsTried
  ImportSettles  OwnerGetsIn FeedCatchesUp
CHECK_DEADLOCK FALSE
