SPECIFICATION TextsSpec
CONSTANTS
  Documents <- MCDocuments
  Width <- MCWidth
  Target = 15
  MinChars = 5
  OverlapBelow = 4
  Answers <- MCAnswers
  Limit = 4
  MinPart = 2
  Configured <- MCConfigured
  Unset = Unset
  Local = "localhost"
INVARIANTS
  ChunksCoverTheDocument
  ChunksFit
  CitedUnderItsHeadings
  BlocksCarryTheAnswer
  DiscoveryLeadsToAcceptance
\* A text is transformed once.
CHECK_DEADLOCK FALSE
