SPECIFICATION Spec
CONSTANTS
  s0 = s0  s1 = s1  s2 = s2
  r1 = r1  r2 = r2
  a1 = a1  a2 = a2
  None = None
  Default = s0
  Setting = {s0, s1, s2}
  Refresh = {r1}
  Admin = {a1}
  MaxClock = 2
  MaxSaves = 2
  Hazards = {"crash", "error", "giveUp"}
INVARIANTS TypeOK  FreshMeansCurrent
