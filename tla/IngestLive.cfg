SPECIFICATION FairPagedSpec
CONSTANTS
  k1 = k1  k2 = k2  k3 = k3  k4 = k4  k5 = k5
  b1 = b1  b2 = b2  b3 = b3
  d1 = d1  d2 = d2
  f1 = f1  f2 = f2
  Rec = {k1, k3, k5}
  Bucket = {b1, b2, b3}
  Date = {d1, d2}
  Refresh = {f1}
  Counted = {k1, k3, k5}
  Split = {d1}
  MaxAttempts = 2
  CountCap = 2
  PageSize = 1
  Hazards = {"drift", "short", "crash", "error"}
  BucketOf <- MCKeyOf
  DateOf <- MCDayOf
  Order <- MCOrder
  m1 = m1  m2 = m2  p1 = p1  p2 = p2  x1 = x1
  none = none
  NoTime = none
  Client = {x1}
  Browsers = {x1}
  Datacenter = {}
  ClientOf <- MCClientOf
  MediaOf <- MCMediaOf
  ProgramOf <- MCProgramOf
  At <- MCAt
  ClickAt <- MCClickAt
  Links <- MCLinks
  AffiliateOf <- MCAffiliateOf
  Automated = {k1}
  RewardOf <- MCRewardOf
  ClickDay <- MCClickDay
  RuleSets <- MCRuleSets
  DefaultReward = 1
  PaddingWindow = 3
  LinkedRatio = 1
  ExtraClicks = 1
  NonBrowserPercent = 70
INVARIANTS PagingIsSnapshot DetectionIsComplete 
PROPERTIES MoreEvidenceNeverLessRisk ClearedComesBack ConversionsKept AtomicSpec
