\* Three callers, so that a probe, a stale call and a newcomer can overlap.
SPECIFICATION FairSpec
CONSTANTS
  Callers = {c1, c2, c3}
  Threshold = 2
  Cooldown = 2
INVARIANTS
  OpenExactlyOnFailureRun
  HalfOpenHasProbe
PROPERTIES
  FailFastDuringCooldown
  RecoveryCloses
  OutageOpens
