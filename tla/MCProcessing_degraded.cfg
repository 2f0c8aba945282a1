SPECIFICATION FairSpec
CONSTANTS
  Docs = {d1}
  NoDoc = NoDoc
  Workers = {w1}
  NoWorker = NoWorker
  Entries = {e1, e2}
  NoEntry = NoEntry
  Slots = {s1, s2}
  Concurrency = 1
  MaxAttempts = 2
  MaxFaults = 1
  Disruptions = {"redis", "loss", "slow", "api", "mongo"}
PROPERTIES Settles
