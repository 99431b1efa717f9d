SPECIFICATION PackagesFair
CONSTANTS
  Subjects = {"registry", "builds"}
  p1 = p1
  p2 = p2
  p3 = p3
  p4 = p4
  b1 = b1
  r1 = r1
  s1 = s1
  s2 = s2
  x = x
  y = y
  u = u
  d = d
  k = k
  t = t
  None = none
  Missing = missing
  Publishers = {p1, p2, p3, p4}
  Builds = {b1}
  Roots = {r1}
  Release <- MCRelease
  RootOf <- MCRootOf
  Accepts <- AnyVersion
  Parts = 1
  MaxCrashes = 1
  Commands = {u, k, t}
  Usages <- TwoUsages
  Goal <- MCGoal
  Objects = 2
  MaxRevision = 2
  MaxKills = 2
  MaxEntries = 1
INVARIANTS
  IndexUsable
  CacheWhole
  ListedUnmixed
  LinkedWhole
  NeverStale
PROPERTIES
  VersionsImmutable
  EveryPublisherEnds
  PinsKept
  Recovers
