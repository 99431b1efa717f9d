SPECIFICATION ConcurrencyFair
CONSTANTS
  Subjects = {"tasks"}
  t1 = t1
  t2 = t2
  t3 = t3
  t4 = t4
  k = k
  p1 = p1
  p2 = p2
  c1 = c1
  c2 = c2
  Owner = owner
  NoThread = none
  Garbage = garbage
  DefaultSlots = 1
  IntMax = 7
  Senders = {p1, p2}
  Receivers = {c1, c2}
  Output <- MCOutput
  Quota <- MCQuota
  Requests <- MCRequests
  MaxSpurious = 1
  c = c
  d = d
  ca = ca
  cb = cb
  cd = cd
  ce = ce
  pa = pa
  pb = pb
  pd = pd
  s1 = s1
  s2 = s2
  Either = {t2, t3}
  Main = main
  Calls = {k}
  NoTask = none
  NoObject = nothing
  None = none
  Tasks = {t1, t2, t3, t4, k}
  Parent <- SharedParent
  Objects = {c}
  Home <- SharedHome
  Receiver <- SharedReceiver
  Locked = {t1, t2, t3}
  Mutating = {t1, t2, t3, k}
  Lent = {t2}
  Accesses = 1
  Channels = {ca, cb, cd, ce}
  Producers = {pa, pb, pd}
  Selects = {s1, s2}
  Leaving = {s2}
  Capacity <- MCCapacity
  To <- MCTo
  Sends <- PipelineSends
  Cases <- PipelineCases
  Limit <- PipelineLimit
  Onward <- PipelineOnward
INVARIANTS
  ParentKeepsOff
