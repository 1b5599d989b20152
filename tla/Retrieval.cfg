SPECIFICATION Spec
CONSTANTS
  Chunks = {1, 2, 3, 4}
  Corpora <- MCCorpora
  Inputs <- MCInputs
  Cosine <- MCCosine
  Unit = 7624512
  Constant = 60
  RerankPool = 3
  MaxPerDoc = 2
  Lambda = 7
INVARIANTS
  FusionRespectsAgreement
  SlotsFilled
  IdentifierMatchesComeFirst
CHECK_DEADLOCK FALSE
