SPECIFICATION RecordsSpec
CONSTANTS
  None = None
  o1 = o1
  o2 = o2
  w1 = w1
  w2 = w2
  n1 = n1
  n2 = n2
  s1 = s1
  s2 = s2
  s3 = s3
  a = a
  b = b
  r1 = r1
  r2 = r2
  app = app
  u1 = u1
  User = {u1, u2}
  RecordId = {r1, r2}
  UsageId = {g1, g2}
  Limit = 2
  Sensitive = {"token"}
  Column = {"token", "note"}
  Calls <- MCCalls
  Intercepted <- MCIntercepted
  Readable <- Leaks
  Lists <- MCLists
  Handler = {h1, h2}
  Id = {o1, o2, w1, w2, n1, n2}
  Slug = {s1, s2, s3}
  Name = {a, b}
  Initial <- MCInitial
  Creations <- MCCreations
  Updates <- MCUpdates
  MaxRequests = 3
  MaxFaults = 2
SYMMETRY Symmetry
CHECK_DEADLOCK FALSE
INVARIANTS
  LostOnlyWhenCrossed
  CreationsPublished
  CachedSlugExplained
  AnswersAgree
  MaskedUnlessBare
