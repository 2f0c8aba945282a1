SPECIFICATION Spec
CONSTANTS
  Users = {u1}
  ReadAs <- PlainIds
  Contents = {c1, c2}
  Keys <- MCKeys
  Ids = {r1, r2}
  NoId = NoId
  Sweepers = {s1}
  Limit = 1
  MaxFaults = 0
  MaxRepairs = 0
  Disruptions = {"reconcile"}
INVARIANT WithinLimit
