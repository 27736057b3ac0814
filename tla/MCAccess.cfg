SPECIFICATION Spec
CONSTANTS
  Requests = {x1}
  Sites = {s1}
  Fallback = s0
  Lists = {l1}
  Open = anyone
  Offers = {{}, {"nginx"}, {"traefik", "ingressroutes"}, {"nginx", "traefik", "ingressroutes"}}
  None = none
  MaxBegun = 2
  MaxTrouble = 0
INVARIANTS
  DefaultDomainCovers
CHECK_DEADLOCK FALSE
