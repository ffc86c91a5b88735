SPECIFICATION Spec
CONSTANTS
  r1 = r1
  v1 = v1
  w1 = w1
  p1 = p1
  h1 = h1
  Callers <- MCRequests
  Probes = {h1}
  MaxFaults = 1
  Radio = {r1}
  Video = {v1}
  Webhooks = {w1}
  Plain = {p1}
  Batches <- MCBatches
  ChunkSize = 1
  Versions = 1
INVARIANTS
  IngestTypeOK
  BuiltinNeedsDeprivation
  AcceptedIsStored
PROPERTIES
  SpotsOnceAndFinal
  EveryBatchStored
CHECK_DEADLOCK FALSE
