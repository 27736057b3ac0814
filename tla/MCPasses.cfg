SPECIFICATION AllSpec
CONSTANTS
  Requests = {a, b}
  Readers = {x, y}
  Orig = orig
  None = none
  Skew = 1
  Window = 2
  MaxRestores = 2
  MaxNow = 4
  MaxFaults = 1
  MaxTrouble = 1
  Cap = 2
  Width = 2
  MaxAge = 2
  MaxTicks = 3
  MaxDone = 2
  MaxLosses = 1
  MaxTasks = 2
  Recs = {"r1", "r2"}
  Pods = {"p1", "p2"}
  Source <- TwoSources
  Situations <- Three
  RemTrouble = 1
SYMMETRY Symmetry
CONSTRAINT Explored
INVARIANTS
  WayBack
  RatesAreReal
  SeriesEnds
  RaiseIsTracked
PROPERTIES
  ForgetOnlyWhenDone
  RestoreNeverUndoes
CHECK_DEADLOCK FALSE
