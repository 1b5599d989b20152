\* One event and its deliveries, of which three may be in hand at once.
SPECIFICATION FairSpec
CONSTANTS
  Events = {e1}
  MaxRetries = 2
  SignatureMaxAge = 1
  SeenTTL = 1
  Threshold = 2
  Cooldown = 1
  MaxTime = 3
INVARIANTS
  AcknowledgedIsStarted
PROPERTIES
  RetriesAnsweredOnce
  ImplementsBreaker
  TasksEnd
CHECK_DEADLOCK FALSE
