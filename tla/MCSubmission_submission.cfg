SPECIFICATION Spec
CONSTANTS
  Users = {u1, u2}
  ReadAs <- PlainIds
  Contents = {c1, c2}
  Keys <- MCKeys
  Ids = {r1, r2, r3}
  NoId = NoId
  Sweepers = {s1}
  Limit = 1
  MaxFaults = 1
  MaxRepairs = 0
  Disruptions = {"redis", "mongo", "crash", "loss"}
SYMMETRY MCSymmetry
INVARIANTS TypeOK SlotsCounted LimitPaid GuardNamesLive OriginProcessed AnswersHonest
PROPERTIES ImplementsAdmission ImplementsEnding
