SPECIFICATION GatewaySpec
CONSTANTS
  m1 = m1
  m2 = m2
  p1 = p1
  p2 = p2
  r1 = r1
  r2 = r2
  guarded = guarded
  open = open
  read = read
  None = None
  Endpoint = {e1}
  Policy = {p1, p2}
  Rule = {guarded, open}
  Admin = {m1, m2}
  MaxFaults = 1
  Caller = {r1, r2}
  Permission = {read}
  Grants <- SomeGrants
  RequiredPermission <- Requirement
  RateLimit <- Limits
INVARIANTS
  GatewayTypeOK
  AnnouncedAgrees
  OnePolicyPerAuthor
  ServedWhileActive
  ServedIfLetThrough
  WindowWithinLimit
  LimitLifted
CONSTRAINT FewBusy
SYMMETRY Alike
CHECK_DEADLOCK FALSE
