SPECIFICATION FairAllSpec
CONSTANTS
  Creates = {c1, c2}
  Saves = {s1}
  Deletes = {d1}
  Names = {n1, n2}
  Recipes = {}
  Packages = {}
  Trouble <- AllTrouble
  MaxTrouble = 1
  None = none
  Uses = {"observability", "security", "search"}
  Search = "search"
  Choices = {m1, m2}
  Users = {u1, u2, u3}
  Sampler = sampler
  Appliers = {a1}
  Budgets = 2
  ProvTrouble = {"items", "calls", "restarts"}
  MaxFailures = 2
  ProvKinds = {"save", "retry", "toggle"}
CONSTRAINT Explored
INVARIANTS
  CreatedStays
  RolledBackIsGone
  CompleteIsApplied
PROPERTIES
  NothingLeft
  OwedGetsDone
CHECK_DEADLOCK FALSE
