SPECIFICATION Spec
CONSTANTS
  alice = alice
  q = q
  hello = hello
  blank = blank
  Requests = {r1}
  Origins <- MCAnonymous
  Questions = {q}
  BlankQuestions = {}
  SmalltalkQuestions = {}
  Histories = {h1, h2}
  Configurations <- MCOpenAI
  Similar <- MCSimilar
  MaxEntries = 1
  Threshold = 2
  Cooldown = 1
INVARIANTS
  HistoryReachesTheModel
