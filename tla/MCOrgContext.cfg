SPECIFICATION OrgSpec
CONSTANTS
  None = None
  u1 = u1
  o1 = o1
  x = x
  y = y
  NoOrg = NoOrg
  User = {u1}
  Role = {x, y}
  Org = {o1, NoOrg}
  Reader = {r1, r2}
  Assigner = {a1}
  MaxFaults = 1
  Foreign <- MCForeign
  Perm <- MCPerm
  Required <- MCRequired
INVARIANTS
  NeverMoreThanGranted
  StaleExplained
  DeniedExplained
PROPERTY
  FreshInTheEnd
