SPECIFICATION Spec
CONSTANTS
  Purposes = {"observability", "security", "search"}
  Search = "search"
  Monitors = {m1}
  None = none
  Users = {u1, u2, u3}
  Sampler = sampler
  Appliers = {a1}
  Budgets = 2
  Trouble = {"items"}
  MaxTrouble = 2
  Kinds = {"save", "retry"}
CONSTRAINT Explored
INVARIANTS
  PurposeIsOwed
CHECK_DEADLOCK FALSE
