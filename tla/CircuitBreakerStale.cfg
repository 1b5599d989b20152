\* Results of calls admitted before the breaker opened.
SPECIFICATION Spec
CONSTANTS
  Callers = {c1, c2, c3}
  Threshold = 2
  Cooldown = 2
PROPERTIES
  FailFastUntilProbeResolves
