SPECIFICATION AllSpec
CONSTANTS
  Saves = {x1, x2}
  None = none
  MaxEvents = 2
  Creds = {k1}
  Kinds = {"oidc"}
  Kept = kept
  Mode = "ingress"
  Domain = TRUE
  AuthBegun = 3
  Sites = {s1}
  Fallback = s0
  Lists = {l1}
  Open = anyone
  Offers = {{"nginx", "traefik", "ingressroutes"}}
  MaxBegun = 2
  MaxNodes = 2
  MaxTrouble = 1
SYMMETRY Symmetry
INVARIANTS
  SecretFirst
  AnsweredIsKept
  ShownIsRun
  RoutesFollow
  SettledMissesNothing
PROPERTIES
  SamplerWaits
  PercentClimbs
CHECK_DEADLOCK FALSE
