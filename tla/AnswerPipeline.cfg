SPECIFICATION FairSpec
CONSTANTS
  alice = alice
  q = q
  hello = hello
  blank = blank
  Requests = {r1, r2}
  Origins <- MCAudiences
  Questions = {q, hello, blank}
  BlankQuestions = {blank}
  SmalltalkQuestions = {hello}
  Histories = {h}
  Configurations <- MCConfigurations
  Similar <- MCSimilar
  MaxEntries = 1
  Threshold = 1
  Cooldown = 1
INVARIANTS
  CaveatExactlyWhenUnverified
  NoCrossAudienceAnswer
PROPERTIES
  ImplementsBreaker
  EveryRequestEnds
