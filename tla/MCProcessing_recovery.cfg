SPECIFICATION FairSpec
CONSTANTS
  Docs = {d1}
  NoDoc = NoDoc
  Workers = {w1, w2}
  NoWorker = NoWorker
  Entries = {e1, e2}
  NoEntry = NoEntry
  Slots = {s1, s2}
  Concurrency = 1
  MaxAttempts = 1
  MaxFaults = 1
  Disruptions = {"crash", "stop"}
PROPERTIES Settles EntriesDrain StopsGracefully StaleResultDropped
INVARIANTS OneJobPerDocument
