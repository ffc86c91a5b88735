\* Safety: retries up to a limit, dead letters, replay, expiry, restart.
SPECIFICATION Spec
CONSTANTS
  video = video
  analytics = analytics
  c1 = c1
  c2 = c2
  Payload <- MCPayload
  KindOf <- MCKindOf
  PayloadBytes <- MCBytes
  ErrorBytes = 1
  NewKinds = {"analytics.rows"}
  Rejected <- NoneRejected
  Clients = {c1}
  Backoff <- MCBackoff
  CountCap = 2
  DedupeTTL = 1
  DrainInterval = 1
  MaxAttempts = 2
  MaxBytes = 5
  MaxStamp = 2
  MaxJobs = 2
  MaxMishaps = 1
INVARIANTS
  TypeOK
  NoLostAck
  DedupeBacked
  OneHome
  BytesAccounted
  CopiesAccounted
PROPERTIES
  DeadLettersJustified
  ImplementsAtLeastOnce
CHECK_DEADLOCK FALSE
