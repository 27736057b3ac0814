SPECIFICATION Spec
CONSTANTS
  r1 = r1
  r2 = r2
  r3 = r3
  Requests = {r1, r2}
  AllowForeign = FALSE
  MaxEvents = 2
PROPERTIES
  WatchSparesInstalls
  PowersDropped
CHECK_DEADLOCK FALSE
