SPECIFICATION Spec
CONSTANTS
  alice = alice
  bob = bob
  v1 = v1
  v2 = v2
  v3 = v3
  Threads = {t1, t2}
  Scopes = {alice, bob}
  Vectors = {v1, v2, v3}
  Questions <- MCQuestions
  Score <- MCScore
  Threshold = 97
  TTL = 1
  MaxEntries = 2
  MaxSets = 3
  MaxTime = 2
SYMMETRY Symmetric
INVARIANTS
  TypeOK
  ScopeIsolation
  FreshWhenAsked
  NothingLostEarly
  NoMissedHit
PROPERTIES
  ImplementsStore
