SPECIFICATION FairSpec
CONSTANTS
  k1 = k1
  k2 = k2
  alice = alice
  bob = bob
  Requests = {r1, r2}
  Keys = {k1, k2}
  KeySets <- MCKeySets
  Tokens <- MCTokens
  Subjects = {alice, bob}
  Tools = {"search_docs", "ask"}
  Modes = {"off", "jwt"}
  CacheAge = 2
  MaxSetBack = 1
INVARIANTS
  TypeOK
  CallsAreAttributed
PROPERTIES
  WithdrawnKeysAgeOut
  RefusedForCause
  KeysComeIntoUse
