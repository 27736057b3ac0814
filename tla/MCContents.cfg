SPECIFICATION AllSpec
CONSTANTS
  Requests = {x1, x2}
  Ids = {i1, i2}
  Attempts = 3
  MaxTrouble = 1
  None = none
  Uses = {"observability", "search"}
  Search = "search"
  Sampler = sampler
  Appliers = {a1, a2}
  Budgets = 2
  ProvTrouble = {"items", "calls", "restarts"}
  ProvKinds = {"save", "retry", "toggle"}
  Days = {d1, d2}
  Shipped = d1
  RetBegun = 2
  MaxEdits = 1
  RetTrouble = 1
  Stacks = {"r1"}
  ColBegun = 3
  MaxResets = 1
  ColTrouble = 1
  Newest = 2
  Unsigned <- UnsignedExtra
  NeedNewer <- NewerNginx
  CatBegun = 3
  CatTrouble = 1
SYMMETRY Symmetry
INVARIANTS
  ListedIsRunning
  CrAndPolicyAgree
  TickSettlesLogins
  RecordIsWhatRuns
PROPERTIES
  NoUpdateLost
  MonitorsAfterProfile
  EditsStand
CHECK_DEADLOCK FALSE
