SPECIFICATION MCFairSpec
CONSTANTS
  Users = {u1, u2}
  ReadAs <- SharedSuffix
  Contents = {c1}
  Keys <- MCKeys
  Ids = {r1, r2}
  NoId = NoId
  Sweepers = {s1}
  Limit = 1
  MaxFaults = 1
  MaxRepairs = 0
  Disruptions = {"redis", "mongo", "crash", "loss", "reconcile"}
PROPERTIES Heals Answered
