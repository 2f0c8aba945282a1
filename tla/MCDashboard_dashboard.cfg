SPECIFICATION Spec
CONSTANTS
  rich = rich
  poor = poor
  Users <- MCUsers
  Docs <- MCDocs
  Owner <- MCOwner
  PageSize = 1
  NoDoc = NoDoc
  NoView = NoView
  MaxCalls = 2
  MaxFetches = 2
  MaxFaults = 1
  MaxClicks = 2
  Filters = {"any", "ended"}
  Disruptions = {"fetch", "retry", "overtake"}
INVARIANTS TypeOK FlagsEnd SettledTable ListFollows ShowsAsked OnePoll
CHECK_DEADLOCK FALSE
PROPERTIES RowsSettle EndSeen
