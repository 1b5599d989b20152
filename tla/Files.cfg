SPECIFICATION FilesSpec
CONSTANTS
  c = c
  d = d
  none = none
  e = e
  f = f
  Corpora = {c, d, none}
  Size <- MCSize
  Absent = Absent
  Torn = Torn
  MaxRuns = 4
  Corpus <- MCCorpus
  Archives <- MCArchives
  Embedders = {"hash", "dense"}
  Grades = {1, 2}
  Depth = 2
  Discount <- MCDiscount
  MaxKills = 2
INVARIANTS
  IncompleteIsNeverSilent
  ScoredByItsOwnVectors
  MetricsAreSound
PROPERTIES
  RebuildRestoresService
