SPECIFICATION Spec
CONSTANTS
  rich = rich
  poor = poor
  Users <- MCUsers
  Docs <- MCDocs
  Owner <- MCOwner
  PageSize = 1
  NoDoc = NoDoc
  NoView = NoView
  MaxCalls = 2
  MaxFetches = 2
  MaxFaults = 0
  MaxClicks = 1
  Filters = {"any"}
  Disruptions = {}
INVARIANT ShownIsSelected
CHECK_DEADLOCK FALSE
