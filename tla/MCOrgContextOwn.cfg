SPECIFICATION OrgSpec
CONSTANTS
  None = None
  u1 = u1
  o1 = o1
  x = x
  y = y
  NoOrg = NoOrg
  User = {u1}
  Role = {x, y}
  Org = {o1, NoOrg}
  Reader = {r1}
  Assigner = {a1}
  MaxFaults = 0
  Foreign = {}
  Perm <- MCPerm
  Required <- MCRequired
INVARIANT SavedTokenWorks
