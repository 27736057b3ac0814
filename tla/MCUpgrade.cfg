SPECIFICATION FairSpec
CONSTANTS
  Versions <- Majors3
  None = none
  Users = {u, w}
  Saves = {s}
  SeesEvents = TRUE
  MaxTrouble = 1
INVARIANTS
  DashboardsNeverNewer
  NeverWedged
PROPERTIES
  AcceptedCompletes
