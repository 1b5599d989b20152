SPECIFICATION GateSpec
CONSTANTS
  bearer = bearer
  Callers = {bearer, h1, h2, h3}
  Principal = bearer
  Requests <- MCRequests
  Capacity = 2
  Window = 3
  TicksPerSecond = 1
  MaxKeys = 2
  MaxTime = 4
  MaxSetBacks = 1
SYMMETRY Symmetric
INVARIANTS
  NoMoreThanTheRate
  RetryAfterIsHonest
  KeepsTheMostRecentKeys
  BearersShareOneRate
