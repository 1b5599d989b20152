SPECIFICATION DemandSpec
CONSTANTS
  alice = alice
  q = q
  hello = hello
  blank = blank
  Requests = {r1, r2}
  Origins <- MCAnonymous
  Questions = {q}
  BlankQuestions = {}
  SmalltalkQuestions = {}
  Histories = {h}
  Configurations <- MCOpenAI
  Similar <- MCSimilar
  MaxEntries = 1
  Threshold = 2
  Cooldown = 1
PROPERTIES
  GeneratorOutageOpensBreaker
