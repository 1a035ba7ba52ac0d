SPECIFICATION JournalSpec
CONSTANTS
  Trade = {t1}
  Projector = {p1}
  Indexer = {x1}
  Batch = 1
  Factor = 4
  MaxEvents = 5
  MaxFails = 0
  NoTrade = NoTrade
PROPERTY EventsAreJournaled
CHECK_DEADLOCK FALSE
