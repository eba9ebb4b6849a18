SPECIFICATION KafkaSpec
CONSTANTS
  m1 = m1
  m2 = m2
  m3 = m3
  Message = {m1, m2, m3}
  Malformed = {m3}
  Idle = Idle
  Partition = {p1}
  Handler = {h1}
  StartFirst = FALSE
  MaxErrors = 1
  MaxRestarts = 0
INVARIANT AtLeastOnce
CHECK_DEADLOCK FALSE
