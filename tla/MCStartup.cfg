SPECIFICATION Spec
CONSTANTS
  Process = {p1, p2}
  Files = 3
  Needs <- MCNeeds
  MaxFaults = 2
INVARIANTS
  ServedUpToDate
  UnrecordedExplained
  ReadyMeansServing
PROPERTY
  ServesInTheEnd
