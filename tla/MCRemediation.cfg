SPECIFICATION Spec
CONSTANTS
  r1 = r1
  r2 = r2
  p1 = p1
  p2 = p2
  Reads = {s1, s2}
  MaxTasks = 2
  Recs = {r1, r2}
  Pods = {p1, p2}
  Source <- TwoSources
  Situations <- Three
  None = None
  MaxTrouble = 1
PROPERTIES RaiseIsHandedBack NoWedgeForLong
