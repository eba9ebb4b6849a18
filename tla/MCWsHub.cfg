SPECIFICATION Spec
CONSTANTS
  c1 = c1
  c2 = c2
  o1 = o1
  a1 = a1
  a2 = a2
  Client = {c1, c2}
  Org = {o1}
  App = {a1, a2}
  Channel = {"events", "iam"}
  DefaultChannel = "events"
  ScopeOf <- TwoScopes
  MaxConnections = 1
  SendCap = 1
INVARIANTS
  TypeOK
  IndexMatchesRooms
  ClosedOnce
  MembersListTheirRooms
PROPERTIES
  SlotFreed
  StrangerDisconnected
CHECK_DEADLOCK FALSE
