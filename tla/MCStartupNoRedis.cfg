SPECIFICATION Spec
CONSTANTS
  Process = {p1}
  Files = 3
  Needs <- MCNeeds
  MaxFaults = 1
INVARIANT
  ReadyWithoutRedis
