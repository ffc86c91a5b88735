\* The database refuses every insert of the traffic batch.
SPECIFICATION FairSpec
CONSTANTS
  video = video
  analytics = analytics
  c1 = c1
  c2 = c2
  Payload <- MCPayload
  KindOf <- MCKindOf
  PayloadBytes <- MCBytes
  ErrorBytes = 1
  NewKinds = {}
  Rejected <- VideoRejected
  Clients = {c1}
  Backoff <- MCBackoff
  CountCap = 2
  DedupeTTL = 1
  DrainInterval = 1
  MaxAttempts = 0
  MaxBytes = 0
  MaxStamp = 1
  MaxJobs = 2
  MaxMishaps = 0
PROPERTIES
  DrainsAfterOutage
CHECK_DEADLOCK FALSE
