SPECIFICATION FairAccountsSpec
CONSTANTS
  s1 = s1
  s2 = s2
  f1 = f1
  f2 = f2
  v1 = v1
  x1 = x1
  x2 = x2
  Callers = {s1, s2, f1, f2, v1, x1, x2}
  Kind <- Kinds7
  Attempts = 2
  Reconciler = Reconciler
  NoLink = NoLink
  MaxMishaps = 1
CHECK_DEADLOCK FALSE
PROPERTIES OldLinksDie EveryoneFenced
