SPECIFICATION Spec
CONSTANTS
  k1 = k1  k2 = k2  k3 = k3  k4 = k4
  b1 = b1  b2 = b2
  d1 = d1  d2 = d2
  f1 = f1  f2 = f2
  Rec = {k1, k2, k3}
  Bucket = {b1, b2}
  Date = {d1, d2}
  Refresh = {f1}
  Counted = {k1, k2, k3}
  Split = {d1}
  MaxAttempts = 2
  CountCap = 2
  Hazards = {}
  BucketOf <- MCBucketOf
  DateOf <- MCDateOf
INVARIANTS DuplicatesAreAbsorbed
